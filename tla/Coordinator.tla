---------------------------- MODULE Coordinator ----------------------------
(***************************************************************************)
(* Coordinator.Ingest, which sorts a dataset by timestamp and publishes    *)
(* each valid event to events.validated when its time has come, and the    *)
(* goroutine of main that runs it and logs its outcome.                    *)
(*                                                                         *)
(* clock is time.Since(start) in ticks of the timestamps, the speed        *)
(* already divided out.  The select of a wait watches the timer and the    *)
(* context; nothing else in the loop looks at the context.                 *)
(***************************************************************************)
EXTENDS WeddingEvents, Integers, FiniteSets, SequencesExt

CONSTANTS Times,       \* the times that timestamps may name
          Unparseable, \* a timestamp that is not "HH:MM"
          MaxClock     \* bound on the clock

ASSUME ScheduleAssumption ==
  /\ IsFiniteSet(Events)
  /\ MaxClock \in Nat
  /\ Times \subseteq 0..MaxClock
  /\ Unparseable \notin Times

VARIABLES
  timestampOf,  \* Event.Timestamp, chosen once
  schedule,     \* the slice sorted of the code
  next,         \* the index i of the loop
  pc,           \* where the loop is
  clock,
  cancelled,    \* the context is done: a signal, or the end of the simulation
  up,           \* the broker connection is open
  accepted, rejected,
  validated,    \* what was published to events.validated, and when
  outcome,      \* what Ingest returned
  logged        \* what the goroutine of main logged

loopVars == <<next, pc, accepted, rejected, validated, outcome>>
vars == <<timestampOf, schedule, loopVars, clock, cancelled, up, logged>>

-----------------------------------------------------------------------------
(* Sorting *)

Parses(e) == timestampOf[e] # Unparseable

MutantLess(e, f) == Parses(e) /\ Parses(f) /\ timestampOf[e] > timestampOf[f]

Less(e, f) == Parses(e) /\ Parses(f) /\ timestampOf[e] < timestampOf[f]

\* Whether Less is an ordering of the dataset: what is not less in either
\* direction may be taken for equal.  It is when every timestamp parses; one
\* that does not is equal to all others, which are not equal to each other.
IsOrdering == \A e, f, g \in Events : Less(e, f) => Less(e, g) \/ Less(g, f)

MutantSortSlice == {<<>>}    \* copies into a slice of length 0

\* What sort.Slice may leave in the slice.  It moves elements by swaps and is
\* not stable, so that equal elements end in any order; for a comparison that
\* is no ordering it promises nothing.
SortSlice ==
  {s \in Bijection(1..Cardinality(Events), Events) :
     IsOrdering => \A i, j \in DOMAIN s : i < j => ~Less(s[j], s[i])}

-----------------------------------------------------------------------------
(* The loop of Ingest *)

env == <<timestampOf, schedule, clock, cancelled, up, logged>>

Current == schedule[next]
Due(e) == Parses(e) => timestampOf[e] <= clock

MutantReject ==     \* forgets the continue
  /\ pc = "next" /\ next <= Len(schedule)
  /\ ~Validate(Current)
  /\ rejected' = rejected + 1
  /\ pc' = "publish"
  /\ UNCHANGED <<env, next, accepted, validated, outcome>>

Reject ==
  /\ pc = "next" /\ next <= Len(schedule)
  /\ ~Validate(Current)
  /\ rejected' = rejected + 1
  /\ next' = next + 1
  /\ UNCHANGED <<env, pc, accepted, validated, outcome>>

MutantSchedule ==   \* publishes at once when the clock has started
  /\ pc = "next" /\ next <= Len(schedule)
  /\ Validate(Current)
  /\ pc' = IF clock > 0 \/ Due(Current) THEN "publish" ELSE "wait"
  /\ UNCHANGED <<env, next, accepted, rejected, validated, outcome>>

Schedule ==
  /\ pc = "next" /\ next <= Len(schedule)
  /\ Validate(Current)
  /\ pc' = IF Due(Current) THEN "publish" ELSE "wait"
  /\ UNCHANGED <<env, next, accepted, rejected, validated, outcome>>

TimerFires ==
  /\ pc = "wait"
  /\ Due(Current)
  /\ pc' = "publish"
  /\ UNCHANGED <<env, next, accepted, rejected, validated, outcome>>

ReturnWith(result) == pc' = "returned" /\ outcome' = result

MutantWaitCancelled ==   \* time.Sleep in place of the select
  /\ pc = "wait"
  /\ cancelled
  /\ Due(Current)
  /\ ReturnWith("canceled")
  /\ UNCHANGED <<env, next, accepted, rejected, validated>>

WaitCancelled ==
  /\ pc = "wait"
  /\ cancelled
  /\ ReturnWith("canceled")
  /\ UNCHANGED <<env, next, accepted, rejected, validated>>

MutantPublish ==    \* logs a failed publish and goes on with the next event
  /\ pc = "publish"
  /\ \/ /\ up
        /\ validated' = Append(validated, [ev |-> Current, at |-> clock])
        /\ pc' = "count"
        /\ UNCHANGED next
     \/ next' = next + 1 /\ pc' = "next" /\ UNCHANGED validated
  /\ UNCHANGED <<env, accepted, rejected, outcome>>

\* The broker client ignores the context it is given.  It fails without a
\* connection, and with one that has no channel to spare.  json.Marshal does
\* not fail for an Event: it holds integers, strings and times read from JSON.
Publish ==
  /\ pc = "publish"
  /\ \/ /\ up
        /\ validated' = Append(validated, [ev |-> Current, at |-> clock])
        /\ pc' = "count"
        /\ UNCHANGED outcome
     \/ ReturnWith("error") /\ UNCHANGED validated
  /\ UNCHANGED <<env, next, accepted, rejected>>

\* Between the two the organizer may have the event, and Stats not.
CountAccepted ==
  /\ pc = "count"
  /\ accepted' = accepted + 1
  /\ next' = next + 1
  /\ pc' = "next"
  /\ UNCHANGED <<env, rejected, validated, outcome>>

Finish ==
  /\ pc = "next" /\ next > Len(schedule)
  /\ ReturnWith("nil")
  /\ UNCHANGED <<env, next, accepted, rejected, validated>>

Ingest == \/ Reject \/ Schedule \/ TimerFires \/ WaitCancelled
          \/ Publish \/ CountAccepted \/ Finish

-----------------------------------------------------------------------------
(* main *)

\* A cancelled context is not an error to main.
LogOutcome ==
  /\ pc = "returned" /\ logged = "nothing"
  /\ logged' = IF outcome = "error" THEN "ingest error" ELSE "All events dispatched"
  /\ UNCHANGED <<timestampOf, schedule, loopVars, clock, cancelled, up>>

\* A signal, or the end of the simulation.
Cancel == /\ ~cancelled
          /\ cancelled' = TRUE
          /\ UNCHANGED <<timestampOf, schedule, loopVars, clock, up, logged>>

\* main closes the connection as it returns; the broker may end it earlier.
Disconnect == /\ up
              /\ up' = FALSE
              /\ UNCHANGED <<timestampOf, schedule, loopVars, clock, cancelled, logged>>

Tick == /\ clock < MaxClock
        /\ clock' = clock + 1
        /\ UNCHANGED <<timestampOf, schedule, loopVars, cancelled, up, logged>>

Init ==
  /\ timestampOf \in [Events -> Times \cup {Unparseable}]
  /\ schedule \in SortSlice    \* before start := time.Now(), and out of sight
  /\ next = 1
  /\ pc = "next"
  /\ clock = 0
  /\ cancelled = FALSE
  /\ up = TRUE
  /\ accepted = 0 /\ rejected = 0
  /\ validated = <<>>
  /\ outcome = "none"
  /\ logged = "nothing"

Next == Ingest \/ LogOutcome \/ Cancel \/ Disconnect \/ Tick

Spec == Init /\ [][Next]_vars

\* The goroutine runs while it can; no tick is promised.
FairSpec == Spec /\ WF_vars(Ingest)

-----------------------------------------------------------------------------
(* Properties *)

\* Every variable has its type; the schedule has as many events as the
\* dataset.
TypeOK ==
  /\ timestampOf \in [Events -> Times \cup {Unparseable}]
  /\ schedule \in Seq(Events) /\ Len(schedule) = Cardinality(Events)
  /\ next \in 1..Cardinality(Events) + 1
  /\ pc \in {"next", "wait", "publish", "count", "returned"}
  /\ clock \in 0..MaxClock
  /\ cancelled \in BOOLEAN /\ up \in BOOLEAN
  /\ accepted \in Nat /\ rejected \in Nat
  /\ validated \in Seq([ev : Events, at : 0..MaxClock])
  /\ outcome \in {"none", "nil", "canceled", "error"}
  /\ logged \in {"nothing", "ingest error", "All events dispatched"}

\* No event enters the pipeline before its time, even after late ones and
\* when the shutdown cuts a wait short.
NeverEarly ==
  \A i \in DOMAIN validated :
    Parses(validated[i].ev) => timestampOf[validated[i].ev] <= validated[i].at

\* coordinator.go:63, "Sort by timestamp so we can schedule them in order": an
\* event enters the pipeline only when every valid one with an earlier
\* timestamp has entered before it, whatever is rejected, late or fails to be
\* published in between; equal timestamps follow each other in any order.
\* One timestamp that does not parse and nothing is promised of the others.
EarlierFirst ==
  (\A e \in Events : Parses(e)) =>
    \A j \in DOMAIN validated, e \in Events :
      Validate(e) /\ timestampOf[e] < timestampOf[validated[j].ev] =>
        \E i \in 1..(j - 1) : validated[i].ev = e

\* What Stats may say at any instant: each event the loop has passed is
\* accepted or rejected, none is accepted that is not in the queue, and all
\* that are in the queue are but the one that has just got there; no event is
\* there twice, and none that is invalid.
StatsAddUp ==
  /\ accepted + rejected = next - 1
  /\ Len(validated) = accepted + (IF pc = "count" THEN 1 ELSE 0)
  /\ \A i, j \in DOMAIN validated : validated[i].ev = validated[j].ev => i = j
  /\ \A i \in DOMAIN validated : Validate(validated[i].ev)

\* A cancelled Ingest returns although no more time may pass.
StopsWhenCancelled == cancelled ~> pc = "returned"
=============================================================================

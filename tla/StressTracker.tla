--------------------------- MODULE StressTracker ---------------------------
(***************************************************************************)
(* The stress tracker: the goroutine Tracker.Consume that records the      *)
(* results it reads from the queue events.results, the report made from    *)
(* them, and the end of main, which cancels the context the tracker runs   *)
(* under, waits, and takes the report.                                     *)
(*                                                                         *)
(* A message is one of four forms: a result as the workers wrap it, a raw  *)
(* event, a JSON object without an ID, or something that is not JSON.      *)
(***************************************************************************)
EXTENDS WeddingEvents, Integers, FiniteSets, SequencesExt

CONSTANT MaxResults    \* bound on the number of messages published

Forms == {"wrapped", "raw", "noID", "broken"}

\* What may arrive: workers close events, a raw event has any status.  What
\* names no event is given an arbitrary one, which nothing looks at.
Message == [form : {"wrapped"}, ev : Events, status : {"Completed", "Expired"}]
           \cup [form : {"raw"}, ev : Events, status : Statuses]
           \cup [form : {"noID", "broken"}, ev : {CHOOSE e \in Events : TRUE},
                 status : {"Pending"}]

VARIABLES
  up,            \* the broker connection is open
  cancelled,     \* the context of the tracker is done
  published,     \* what was published to events.results, in order
  queueResults,  \* the queue events.results inside RabbitMQ
  subscription, deliveries,   \* see Consumption
  pc,            \* where Consume is
  events, completed, expired,   \* the fields of Tracker
  main,          \* where main is
  beforeStop,    \* the number of results published when main stopped the run
  report         \* what Report returned to main

Results == INSTANCE Consumption WITH Messages <- Message, queue <- queueResults

consumerVars == <<up, cancelled, queueResults, subscription, deliveries>>
trackerVars == <<events, completed, expired>>
mainVars == <<main, beforeStop, report>>
vars == <<consumerVars, published, pc, trackerVars, mainVars>>

-----------------------------------------------------------------------------
(* The report *)

Closed(r) == r.status \in {"Completed", "Expired"}

\* PriorityStats or TeamStats of the recorded results at some indices; the
\* stress is the ratio of expired to total.
StatsOf(recorded, at) ==
  LET of(statuses) == Cardinality({i \in at : recorded[i].status \in statuses})
  IN  [total |-> of({"Completed", "Expired"}), completed |-> of({"Completed"}),
       expired |-> of({"Expired"})]

\* The breakdown by a key of the results.
Breakdown(recorded, counted, key) ==
  [k \in {key[i] : i \in counted} |-> StatsOf(recorded, {i \in counted : key[i] = k})]

Report(recorded) ==
  LET counted == {i \in DOMAIN recorded : Closed(recorded[i])} IN
  [overall    |-> StatsOf(recorded, counted),
   byPriority |-> Breakdown(recorded, counted, [i \in counted |-> PriorityOf[recorded[i].ev]]),
   byTeam     |-> Breakdown(recorded, counted, [i \in counted |-> Team(recorded[i].ev)])]

NoReport == [overall |-> [total |-> 0, completed |-> 0, expired |-> 0],
             byPriority |-> <<>>, byTeam |-> <<>>]

-----------------------------------------------------------------------------
(* The broker and its clients *)

\* A worker publishes a result; jobs in flight do so even after the shutdown.
PublishResult(m) ==
  /\ up
  /\ Len(published) < MaxResults
  /\ published' = Append(published, m)
  /\ Results!Enqueue(m)
  /\ UNCHANGED <<pc, trackerVars, mainVars>>

Deliver == Results!Deliver /\ UNCHANGED <<published, pc, trackerVars, mainVars>>
ConsumerCloses == Results!Close /\ UNCHANGED <<published, pc, trackerVars, mainVars>>
Disconnect == Results!Disconnect /\ UNCHANGED <<published, pc, trackerVars, mainVars>>

-----------------------------------------------------------------------------
(* Tracker.Consume *)

\* Subscribing takes a channel of the connection, and there may be none.
Start ==
  /\ pc = "start"
  /\ \/ Results!Subscribe /\ pc' = "select"
     \/ UNCHANGED consumerVars /\ pc' = "returned"
  /\ UNCHANGED <<published, trackerVars, mainVars>>

\* The deferred Cancel ends the subscription on every way out of the loop.
Return == /\ Results!Leave
          /\ pc' = "returned"
          /\ UNCHANGED <<published, trackerVars, mainVars>>

RecvDone == pc = "select" /\ cancelled /\ Return

RecvClosed == pc = "select" /\ Results!Ended /\ Return

MutantParses(m) == m.form # "broken"   \* takes the zero Event for an event

\* parseResultEvent returns an event: the wrapped one, or the raw one.
Parses(m) == m.form \in {"wrapped", "raw"}

MutantRecordClosed(m) ==  \* returns early for a status it does not count
  IF ~Closed(m) THEN UNCHANGED trackerVars
  ELSE /\ events' = Append(events, m)
       /\ completed' = completed + (IF m.status = "Completed" THEN 1 ELSE 0)
       /\ expired' = expired + (IF m.status = "Expired" THEN 1 ELSE 0)

MutantRecord(m) ==      \* counts whatever is not completed as expired
  /\ events' = Append(events, m)
  /\ IF m.status = "Completed" THEN completed' = completed + 1 /\ UNCHANGED expired
                               ELSE expired' = expired + 1 /\ UNCHANGED completed

Record(m) ==
  /\ events' = Append(events, m)
  /\ completed' = completed + (IF m.status = "Completed" THEN 1 ELSE 0)
  /\ expired' = expired + (IF m.status = "Expired" THEN 1 ELSE 0)

MutantRecvDelivery ==   \* returns from the loop at a message it cannot parse
  /\ pc = "select"
  /\ Results!Read
  /\ IF Parses(Head(deliveries)) THEN Record(Head(deliveries)) /\ UNCHANGED pc
                                 ELSE pc' = "returned" /\ UNCHANGED trackerVars
  /\ UNCHANGED <<published, mainVars>>

RecvDelivery ==
  /\ pc = "select"
  /\ Results!Read
  /\ IF Parses(Head(deliveries)) THEN Record(Head(deliveries))
                                 ELSE UNCHANGED trackerVars
  /\ UNCHANGED <<published, pc, mainVars>>

Consume == Start \/ RecvDone \/ RecvClosed \/ RecvDelivery

-----------------------------------------------------------------------------
(* The end of main *)

\* A signal, or the end of the simulation: cancel() and Shutdown.
StopRun ==
  /\ main = "waiting"
  /\ main' = "finalizing"
  /\ Results!Cancel
  /\ beforeStop' = Len(published)
  /\ UNCHANGED <<published, pc, trackerVars, report>>

\* After half a second main takes the report, under the mutex of the tracker.
TakeReport ==
  /\ main = "finalizing"
  /\ main' = "reported"
  /\ report' = Report(events)
  /\ UNCHANGED <<consumerVars, published, pc, trackerVars, beforeStop>>

-----------------------------------------------------------------------------
Init ==
  /\ Results!Init
  /\ published = <<>>
  /\ pc = "start"
  /\ events = <<>> /\ completed = 0 /\ expired = 0
  /\ main = "waiting" /\ beforeStop = 0
  /\ report = NoReport

Next == \/ \E m \in Message : PublishResult(m)
        \/ Deliver \/ ConsumerCloses \/ Disconnect
        \/ Consume
        \/ StopRun \/ TakeReport

Spec == Init /\ [][Next]_vars

\* The scheduler runs the goroutine, and its select is fair to ready cases.
FairSpec == /\ Spec
            /\ WF_vars(Deliver) /\ WF_vars(ConsumerCloses) /\ WF_vars(Start)
            /\ SF_vars(RecvDone) /\ SF_vars(RecvClosed) /\ SF_vars(RecvDelivery)

-----------------------------------------------------------------------------
(* Properties *)

\* Every variable has its type; what the tracker has recorded are events, as
\* parseResultEvent recognises them.
TypeOK ==
  /\ Results!TypeOK
  /\ published \in Seq(Message)
  /\ pc \in {"start", "select", "returned"}
  /\ events \in Seq({m \in Message : m.form \in {"wrapped", "raw"}})
  /\ completed \in Nat /\ expired \in Nat
  /\ main \in {"waiting", "finalizing", "reported"}
  /\ beforeStop \in 0..Len(published)

Plus(stats, sum) == [f \in DOMAIN sum |-> sum[f] + stats[f]]

\* The parts of a breakdown add up to the whole.
AddsUp(parts, whole) ==
  FoldFunctionOnSet(Plus, [total |-> 0, completed |-> 0, expired |-> 0],
                    parts, DOMAIN parts) = whole

\* StressLevel, kept by Record in two counters, and Report, which walks the
\* recorded events, never disagree; and both breakdowns of a report add up to
\* its overall figures, although raw events of any status were recorded.
ReportAgrees ==
  LET r == Report(events) IN
  /\ r.overall = [total |-> completed + expired, completed |-> completed, expired |-> expired]
  /\ \A q \in {r, report} : /\ AddsUp(q.byPriority, q.overall)
                            /\ AddsUp(q.byTeam, q.overall)
                            /\ q.overall.total = q.overall.completed + q.overall.expired

\* What is recorded was published, in that order and each message once (at
\* says where); while the run lasts only messages that are no events are
\* missing from it, and the rest of the messages is waiting.
RecordsInOrder ==
  LET waiting == deliveries \o queueResults
      read == Len(published) - Len(waiting)
  IN  \E at \in [DOMAIN events -> DOMAIN published] :
        /\ \A i, j \in DOMAIN events : i < j => at[i] < at[j]
        /\ \A i \in DOMAIN events : events[i] = published[at[i]]
        /\ ~cancelled /\ up =>
             /\ Range(at) = {k \in 1..read : Parses(published[k])}
             /\ \A k \in DOMAIN waiting : waiting[k] = published[read + k]

\* Consume could not subscribe.
NeverStarted == pc = "returned" /\ subscription = "none"

\* A result that is published reaches the tracker unless that could not start,
\* the run is stopped or the connection is lost, whatever else is in the queue.
EveryResultRecorded ==
  \A e \in Events :
    (\E m \in Range(published) : Parses(m) /\ m.ev = e)
      ~> NeverStarted \/ cancelled \/ ~up \/ \E m \in Range(events) : m.ev = e

\* main.go:118, "Give tracker a moment to finalize": when the moment was long
\* enough for a tracker that could start to come to rest, the results published
\* before the run was stopped are in the report.
FinalReportComplete ==
  main = "reported" /\ up /\ pc = "returned" /\ ~NeverStarted =>
    report.overall.total >=
      Cardinality({k \in 1..beforeStop : Parses(published[k]) /\ Closed(published[k])})
=============================================================================

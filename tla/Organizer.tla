----------------------------- MODULE Organizer -----------------------------
(***************************************************************************)
(* Organizer.Run: one goroutine that takes validated events from its       *)
(* subscription, stamps each, passes it through the priority queue and     *)
(* publishes it to its team through the exchange events.organized.  The    *)
(* queue events.validated of RabbitMQ is in front of it and the team       *)
(* queues behind it.                                                       *)
(***************************************************************************)
EXTENDS PriorityQueue

CONSTANT Malformed   \* messages in events.validated that are no JSON event

ASSUME MalformedAssumption == Malformed \cap Events = {}

Messages == Events \cup Malformed

VARIABLES
  up, cancelled, \* the connection is open, the context is done
  queueValidated, subscription, deliveries,   \* see Consumption
  arrived,       \* the messages published to events.validated, in order
  pc,            \* where Run is
  pq,            \* Organizer.pq
  batch,         \* the events of handleDelivery that remain to be routed
  stamped,       \* the events SetReceived was called on
  teamQueues,    \* what has been published to each team queue
  routed,        \* Organizer.routed
  unrouted       \* the events whose publish has failed, as the log tells

Validated == INSTANCE Consumption WITH queue <- queueValidated

consumerVars == <<up, cancelled, queueValidated, subscription, deliveries>>
runVars == <<pc, pq, batch, stamped, teamQueues, routed, unrouted>>
vars == <<consumerVars, arrived, runVars>>

-----------------------------------------------------------------------------
(* The broker and the environment *)

\* The coordinator publishes a validated event.  Anyone may publish to the
\* queue; an event whose type no team handles is possible there, and so is
\* what is no event.
Arrive(m) ==
  /\ up
  /\ m \notin Range(arrived)
  /\ arrived' = Append(arrived, m)
  /\ Validated!Enqueue(m)
  /\ UNCHANGED runVars

Deliver == Validated!Deliver /\ UNCHANGED <<arrived, runVars>>
ConsumerCloses == Validated!Close /\ UNCHANGED <<arrived, runVars>>
Disturb == (Validated!Cancel \/ Validated!Disconnect) /\ UNCHANGED <<arrived, runVars>>

-----------------------------------------------------------------------------
(* Organizer.Run *)

\* Subscribing takes a channel of the connection, and there may be none.
Start ==
  /\ pc = "start"
  /\ \/ Validated!Subscribe /\ pc' = "select"
     \/ UNCHANGED consumerVars /\ pc' = "returned"
  /\ UNCHANGED <<arrived, pq, batch, stamped, teamQueues, routed, unrouted>>

\* Run cancels the subscription before it returns the error of the context.
RecvDone ==
  /\ pc = "select"
  /\ cancelled
  /\ Validated!Leave
  /\ pc' = "returned"
  /\ UNCHANGED <<arrived, pq, batch, stamped, teamQueues, routed, unrouted>>

RecvClosed ==
  /\ pc = "select"
  /\ Validated!Ended
  /\ pc' = "returned"
  /\ UNCHANGED <<consumerVars, arrived, pq, batch, stamped, teamQueues, routed, unrouted>>

MutantPushAndDrain(e) ==   \* leaves the last event of the heap for the next delivery
  LET drained == MutantDrainLocked(HeapPush(pq, e))
  IN  pq' = drained.rest /\ batch' = drained.out /\ pc' = "route"

\* Under the mutex: the event goes into the heap, and all of it comes out.
PushAndDrain(e) ==
  LET drained == drainLocked(HeapPush(pq, e))
  IN  pq' = drained.rest /\ batch' = drained.out /\ pc' = "route"

MutantHandleDelivery ==      \* leaves it to the exchange to drop the event
  /\ pc = "select"
  /\ Validated!Read
  /\ stamped' = stamped \cup {Head(deliveries)}
  /\ PushAndDrain(Head(deliveries))
  /\ UNCHANGED <<arrived, teamQueues, routed, unrouted>>

\* handleDelivery up to the routing: what is no event is dropped, an event of
\* no team is stamped and dropped, and any other goes through the heap.
HandleDelivery ==
  /\ pc = "select"
  /\ Validated!Read
  /\ stamped' = stamped \cup ({Head(deliveries)} \ Malformed)
  /\ IF Head(deliveries) \in Malformed \/ Team(Head(deliveries)) = "unknown"
     THEN UNCHANGED <<pq, batch, pc>>
     ELSE PushAndDrain(Head(deliveries))
  /\ UNCHANGED <<arrived, teamQueues, routed, unrouted>>

MutantRouteEvent ==       \* counts the event before it looks at the error
  /\ pc = "route" /\ batch # <<>>
  /\ \/ /\ up
        /\ teamQueues' = [teamQueues EXCEPT ![Team(Head(batch))] = Append(@, Head(batch))]
        /\ UNCHANGED unrouted
     \/ unrouted' = unrouted \cup {Head(batch)} /\ UNCHANGED teamQueues
  /\ routed' = routed + 1
  /\ batch' = Tail(batch)
  /\ UNCHANGED <<consumerVars, arrived, pc, pq, stamped>>

\* Setup has bound every team queue to the exchange under the team's name.  A
\* publish that fails, for want of a connection or of a channel, is logged,
\* and the event is gone.
RouteEvent ==
  /\ pc = "route" /\ batch # <<>>
  /\ \/ /\ up
        /\ teamQueues' = [teamQueues EXCEPT ![Team(Head(batch))] = Append(@, Head(batch))]
        /\ routed' = routed + 1
        /\ UNCHANGED unrouted
     \/ unrouted' = unrouted \cup {Head(batch)} /\ UNCHANGED <<teamQueues, routed>>
  /\ batch' = Tail(batch)
  /\ UNCHANGED <<consumerVars, arrived, pc, pq, stamped>>

EndOfBatch ==
  /\ pc = "route" /\ batch = <<>>
  /\ pc' = "select"
  /\ UNCHANGED <<consumerVars, arrived, pq, batch, stamped, teamQueues, routed, unrouted>>

Run == \/ Start \/ RecvDone \/ RecvClosed \/ HandleDelivery \/ RouteEvent \/ EndOfBatch

-----------------------------------------------------------------------------
Init ==
  /\ Validated!Init
  /\ arrived = <<>>
  /\ pc = "start" /\ pq = <<>> /\ batch = <<>>
  /\ stamped = {}
  /\ teamQueues = [t \in AllTeams |-> <<>>]
  /\ routed = 0 /\ unrouted = {}

Next == \/ \E m \in Messages : Arrive(m)
        \/ Deliver \/ ConsumerCloses \/ Disturb
        \/ Run

Spec == Init /\ [][Next]_vars

FairSpec == /\ Spec
            /\ WF_vars(Deliver) /\ WF_vars(ConsumerCloses)
            /\ WF_vars(Start) /\ WF_vars(RouteEvent) /\ WF_vars(EndOfBatch)
            /\ SF_vars(RecvDone) /\ SF_vars(RecvClosed) /\ SF_vars(HandleDelivery)

-----------------------------------------------------------------------------
(* Properties *)

\* Every variable has its type; what has entered the heap has a team, so the
\* exchange has a queue for it.
TypeOK ==
  /\ Validated!TypeOK
  /\ arrived \in Seq(Messages)
  /\ pc \in {"start", "select", "route", "returned"}
  /\ pq \in Seq(Events) /\ batch \in Seq(Events) /\ stamped \subseteq Events
  /\ \A e \in Range(pq \o batch) : Team(e) \in AllTeams
  /\ teamQueues \in [AllTeams -> Seq(Events)]
  /\ routed \in Nat /\ unrouted \subseteq Events

\* No event is left behind in the heap when the organizer waits for another:
\* without one it might wait there for ever.
NothingLeftInHeap == pq = <<>> /\ (pc # "route" => batch = <<>>)

\* organizer.go:46-47, "the highest priority is dequeued first", whatever
\* sequence of events has been pushed: the heap keeps its order at each push
\* and a drain returns all of it, sorted.  Since no run puts a second event
\* into the heap, this is checked of the functions and not of a state.
HeapSorts ==
  pc = "start" /\ arrived = <<>> =>
    \A pushes \in SetToAllKPermutations(DOMAIN PriorityOf) :
      LET h == Heapified(pushes)
      IN  HeapOrdered(h) /\ SortedByUrgency(drainLocked(h).out, pushes)

\* Each team gets its events in the order they were validated, each once, none
\* that is not its own and none without a deadline, which any worker would
\* take for expired; and the counter counts exactly these.
RoutedInArrivalOrder ==
  /\ \A t \in AllTeams :
       \A i, j \in DOMAIN teamQueues[t] :
         i < j => \E m, n \in DOMAIN arrived :
                    m < n /\ arrived[m] = teamQueues[t][i] /\ arrived[n] = teamQueues[t][j]
  /\ \A t \in AllTeams : \A e \in Range(teamQueues[t]) : Team(e) = t /\ e \in stamped
  /\ routed = Cardinality(UNION {Range(teamQueues[t]) : t \in AllTeams})

\* Run has returned the error of Subscribe.
NeverStarted == pc = "returned" /\ subscription = "none"

\* An event that has a team reaches it, whatever is in the queue around it,
\* unless the organizer could not start, the run is disturbed or the log says
\* that this event could not be published.
EveryEventRouted ==
  \A e \in {f \in Events : Team(f) # "unknown"} :
    e \in Range(arrived) ~>
      \/ NeverStarted \/ cancelled \/ ~up
      \/ e \in Range(teamQueues[Team(e)]) \/ e \in unrouted

\* organizer.go:93-94, "sorts them by priority, and routes each event to the
\* appropriate team queue": an event that goes out is at least as urgent as
\* every event the organizer has been handed.
UrgentFirst ==
  [][RouteEvent => \A e \in Range(deliveries) \ Malformed : ~MoreUrgent(e, Head(batch))]_vars
=============================================================================

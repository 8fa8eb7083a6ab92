------------------------- MODULE TeamWorkersProofs -------------------------
(***************************************************************************)
(* What TeamWorkers guarantees for every number of teams, workers and      *)
(* events, every routine and every deadline: the types, the verdicts, the  *)
(* flag of each worker, where the copies of an event are, and that         *)
(* TeamWorkers implements EventLedger.                                     *)
(***************************************************************************)
EXTENDS TeamWorkers, SequenceLemmas

-----------------------------------------------------------------------------
(* Lemmas about the data *)

\* A deadline is a positive number of ticks, the one of Low at most.
LEMMA DeadlineBounds ==
  ASSUME NEW p
  PROVE  DeadlineDuration(p) \in 1..Deadlines["Low"]
BY DeadlinesAssumption DEF DeadlineDuration, Priorities

\* Every event has a team that was set up.
LEMMA EventHasTeam ==
  ASSUME NEW e \in Events
  PROVE  Team(e) \in Teams
BY EventsAssumption

\* A phase lasts at least a tick.
LEMMA RoutineTyped ==
  ASSUME NEW w \in Workers
  PROVE  Routine(w).work \in Nat /\ Routine(w).idle \in Nat
BY PoolAssumption DEF Routine, teamRoutine, RoutineTypes

\* A job stays a job as it ages.
LEMMA AgedTyped ==
  ASSUME NEW j \in Job
  PROVE  /\ Aged(j) \in Job
         /\ Aged(j).worker = j.worker /\ Aged(j).ev = j.ev
         /\ Aged(j).status = j.status /\ Aged(j).slack = j.slack
         /\ Aged(j).left = Countdown(j.left)
BY PoolAssumption DEF Aged, Countdown, Job

\* A job stays a job when it is judged: its slack is the time then left.
LEMMA JudgedTyped ==
  ASSUME NEW j \in Job, ttl \in [Events -> -1..Deadlines["Low"]]
  PROVE  /\ Judged(j) \in Job
         /\ Judged(j).worker = j.worker /\ Judged(j).ev = j.ev
         /\ Judged(j).left = j.left
         /\ IsExpired(j.ev) => Judged(j).status = "Expired" /\ Judged(j).slack = j.slack
         /\ ~IsExpired(j.ev) => Judged(j).status = "Completed" /\ Judged(j).slack = ttl[j.ev]
BY PoolAssumption DEF Judged, Job

\* Publishing adds at most the published result.
LEMMA PublishedResults ==
  ASSUME results \in Seq(Result), NEW r \in Result, PublishResult(r),
         NEW i \in DOMAIN results'
  PROVE  \/ results'[i] = r
         \/ i \in DOMAIN results /\ results'[i] = results[i]
<1>1. CASE results' = Append(results, r)
  <2>2. /\ Len(results') = Len(results) + 1
        /\ \A k \in 1..Len(results) : results'[k] = results[k]
        /\ results'[Len(results) + 1] = r
    BY <1>1, AppendProperties
  <2>3. DOMAIN results' = 1..Len(results') /\ DOMAIN results = 1..Len(results)
    BY <1>1, AppendProperties, LenProperties
  <2> QED BY <2>2, <2>3, LenProperties
<1>2. CASE results' = results
  BY <1>2
<1> QED BY <1>1, <1>2 DEF PublishResult

\* What is published to a team is appended to its queue, or the queue stays as
\* it is; then the connection is gone, or the event is among the refused.
LEMMA PublishedToTeam ==
  ASSUME NEW t, NEW e, PublishToTeam(t, e)
  PROVE  /\ \/ teamQueue' = [teamQueue EXCEPT ![t] = Append(@, e)] /\ refused' = refused
            \/ teamQueue' = teamQueue /\ (~up \/ e \in refused')
         /\ refused \subseteq refused' /\ refused' \subseteq refused \cup {e}
BY DEF PublishToTeam, NotPublished

\* The same of a result.
LEMMA PublishedResult ==
  ASSUME NEW r, PublishResult(r)
  PROVE  /\ \/ results' = Append(results, r) /\ refused' = refused
            \/ results' = results /\ (~up \/ r.ev \in refused')
         /\ refused \subseteq refused' /\ refused' \subseteq refused \cup {r.ev}
BY DEF PublishResult, NotPublished

\* A publish to a team keeps the type of its queues.
LEMMA TeamPublishTyped ==
  ASSUME NEW D, teamQueue \in [Teams -> Seq(D)], NEW t \in Teams, NEW e \in D,
         PublishToTeam(t, e)
  PROVE  teamQueue' \in [Teams -> Seq(D)]
<1>1. CASE teamQueue' = [teamQueue EXCEPT ![t] = Append(@, e)]
  <2>1. Append(teamQueue[t], e) \in Seq(D)
    BY AppendProperties
  <2> QED BY <1>1, <2>1
<1>2. CASE teamQueue' = teamQueue
  BY <1>2
<1> QED BY <1>1, <1>2, PublishedToTeam

\* A publish of a result keeps the type of the queue of results.
LEMMA ResultPublishTyped ==
  ASSUME results \in Seq(Result), NEW r \in Result, PublishResult(r)
  PROVE  results' \in Seq(Result)
<1>1. CASE results' = Append(results, r)
  BY <1>1, AppendProperties
<1>2. CASE results' = results
  BY <1>2
<1> QED BY <1>1, <1>2, PublishedResult

\* Only events are refused.
LEMMA RefusedTyped ==
  ASSUME refused \subseteq Events, NEW e \in Events,
         \/ \E t : PublishToTeam(t, e)
         \/ \E r : PublishResult(r) /\ r.ev = e
  PROVE  refused' \subseteq Events
BY PublishedToTeam, PublishedResult

\* An event is no foreign message.
LEMMA EventIsEvent ==
  ASSUME NEW e \in Events
  PROVE  e \in Messages /\ e \notin Malformed
BY PoolAssumption DEF Messages

-----------------------------------------------------------------------------
(* Type correctness *)

\* The initial state is well typed.
LEMMA TypeInit == Init => TypeOK
BY PoolAssumption, DeadlinesAssumption DEF Init, TypeOK, Priorities

\* Every step keeps the types; the channel idleCh never holds two values.
LEMMA TypeStep ==
  ASSUME TypeOK, [Next]_vars
  PROVE  TypeOK'
<1> USE PoolAssumption, DeadlinesAssumption DEF Priorities, TypeOK, loopVars, brokerVars, togglerVars, clocks
<1>1. CASE Tick
  <2>1. ttl' \in [Events -> -1..Deadlines["Low"]]
    BY <1>1 DEF Tick
  <2>2. phaseLeft' \in [Workers -> Nat]
    BY <1>1 DEF Tick, Countdown
  <2>3. jobs' \subseteq Job
    BY <1>1, AgedTyped DEF Tick
  <2> QED BY <1>1, <2>1, <2>2, <2>3 DEF Tick
<1>2. CASE Disconnect
  BY <1>2 DEF Disconnect
<1>3. ASSUME NEW e \in Events, RouteEvent(e) PROVE TypeOK'
  <2>1. ttl' \in [Events -> -1..Deadlines["Low"]]
    BY <1>3, DeadlineBounds DEF RouteEvent, SetReceived
  <2>2. PublishToTeam(Team(e), e) /\ Team(e) \in Teams /\ e \in Messages
    BY <1>3, EventHasTeam, EventIsEvent DEF RouteEvent
  <2>3. teamQueue' \in [Teams -> Seq(Messages)] /\ refused' \subseteq Events
    BY <2>2, TeamPublishTyped, RefusedTyped, e \in Events,
            teamQueue \in [Teams -> Seq(Messages)], refused \subseteq Events
  <2> QED BY <1>3, <2>1, <2>3 DEF RouteEvent, SetReceived
<1>4. ASSUME NEW t \in Teams, ShutdownTeam(t) PROVE TypeOK'
  BY <1>4 DEF ShutdownTeam
<1>5. ASSUME NEW w \in Workers, WorkerStep(w) PROVE TypeOK'
  <2>1. CASE Start(w)
    <3>1. /\ pc' \in [Workers -> {"start", "select", "handle", "returned"}]
          /\ \A v \in Workers : pc'[v] = "handle" <=> inHand'[v] # NoEvent
      <4>1. /\ pc[w] = "start" /\ inHand' = inHand
            /\ \/ pc' = [pc EXCEPT ![w] = "select"]
               \/ pc' = [pc EXCEPT ![w] = "returned"]
        BY <2>1 DEF Start
      <4> QED BY <4>1
    <3>2. subscription' \in [Workers -> {"none", "open", "closed"}]
      BY <2>1 DEF Start
    <3>3. toggler' \in [Workers -> {"none", "top", "sendWork", "work",
                                    "sendIdle", "idle", "exited"}]
      BY <2>1 DEF Start
    <3> QED BY <2>1, <3>1, <3>2, <3>3 DEF Start
  <2>2. CASE RecvDone(w) \/ RecvClosed(w)
    <3>1. /\ pc' \in [Workers -> {"start", "select", "handle", "returned"}]
          /\ \A v \in Workers : pc'[v] = "handle" <=> inHand'[v] # NoEvent
      <4>1. /\ pc[w] = "select" /\ inHand' = inHand
            /\ pc' = [pc EXCEPT ![w] = "returned"]
        BY <2>2 DEF RecvDone, RecvClosed, Return
      <4> QED BY <4>1
    <3>2. deliveries' \in [Workers -> Seq(Messages)]
      <4>1. deliveries' = [deliveries EXCEPT ![w] = <<>>]
        BY <2>2 DEF RecvDone, RecvClosed, Return
      <4> QED BY <4>1
    <3> QED BY <2>2, <3>1, <3>2 DEF RecvDone, RecvClosed, Return
  <2>3. CASE RecvIdle(w)
    <3>1. Head(idleCh[w]) \in BOOLEAN /\ Tail(idleCh[w]) = <<>>
      <4>1. idleCh[w] \in {<<TRUE>>, <<FALSE>>}
        BY <2>3 DEF RecvIdle
      <4>2. CASE idleCh[w] = <<TRUE>>
        BY <4>2
      <4>3. CASE idleCh[w] = <<FALSE>>
        BY <4>3
      <4> QED BY <4>1, <4>2, <4>3
    <3>2. idle' \in [Workers -> BOOLEAN]
      BY <2>3, <3>1, Zenon DEF RecvIdle
    <3>3. idleCh' \in [Workers -> {<<>>, <<TRUE>>, <<FALSE>>}]
      BY <2>3, <3>1 DEF RecvIdle
    <3> QED BY <2>3, <3>2, <3>3 DEF RecvIdle
  <2>4. CASE RecvDelivery(w)
    <3>1. /\ Head(deliveries[w]) \in Messages
          /\ Tail(deliveries[w]) \in Seq(Messages)
      BY <2>4, HeadTailProperties DEF RecvDelivery
    <3>2. /\ pc' \in [Workers -> {"start", "select", "handle", "returned"}]
          /\ inHand' \in [Workers -> Events \cup {NoEvent}]
          /\ \A v \in Workers : pc'[v] = "handle" <=> inHand'[v] # NoEvent
      <4>1. CASE Head(deliveries[w]) \in Malformed
        BY <2>4, <4>1 DEF RecvDelivery
      <4>2. CASE Head(deliveries[w]) \notin Malformed
        <5>1. Head(deliveries[w]) \in Events
          BY <3>1, <4>2 DEF Messages
        <5>2. /\ pc' = [pc EXCEPT ![w] = "handle"]
              /\ inHand' = [inHand EXCEPT ![w] = Head(deliveries[w])]
          BY <2>4, <4>2 DEF RecvDelivery
        <5> QED BY <5>1, <5>2
      <4> QED BY <4>1, <4>2
    <3>3. deliveries' \in [Workers -> Seq(Messages)]
      BY <2>4, <3>1 DEF RecvDelivery
    <3>4. idleCh[w] # <<>> => idleCh[w][Len(idleCh[w])] \in BOOLEAN
      <4>1. CASE idleCh[w] = <<TRUE>>
        BY <4>1
      <4>2. CASE idleCh[w] = <<FALSE>>
        BY <4>2
      <4> QED BY <4>1, <4>2
    <3>5. idle' \in [Workers -> BOOLEAN]
      BY <2>4, <3>4, Zenon DEF RecvDelivery, updateIdle
    <3>6. idleCh' \in [Workers -> {<<>>, <<TRUE>>, <<FALSE>>}]
      BY <2>4 DEF RecvDelivery, updateIdle
    <3> QED BY <2>4, <3>2, <3>3, <3>5, <3>6 DEF RecvDelivery
  <2>5. CASE AcceptEvent(w)
    <3>1. jobs' \subseteq Job
      BY <2>5 DEF AcceptEvent, NewJob, Job
    <3> QED BY <2>5, <3>1 DEF AcceptEvent, BackToSelect
  <2>6. CASE ReportExpired(w)
    <3> DEFINE r == [ev |-> inHand[w], status |-> "Expired", slack |-> -1]
    <3>1. results' \in Seq(Result) /\ refused' \subseteq Events
      <4>1. r \in Result /\ r.ev \in Events
        BY <2>6 DEF ReportExpired, Result
      <4>2. PublishResult(r)
        BY <2>6 DEF ReportExpired
      <4> HIDE DEF r
      <4> QED BY <4>1, <4>2, ResultPublishTyped, RefusedTyped
    <3> QED BY <2>6, <3>1 DEF ReportExpired, BackToSelect
  <2>7. CASE Republish(w)
    <3>1. /\ PublishToTeam(TeamOfWorker[w], inHand[w])
          /\ inHand[w] \in Messages /\ inHand[w] \in Events
      BY <2>7, EventIsEvent DEF Republish
    <3>2. teamQueue' \in [Teams -> Seq(Messages)] /\ refused' \subseteq Events
      BY <3>1, TeamPublishTyped, RefusedTyped
    <3> QED BY <2>7, <3>2 DEF Republish, BackToSelect
  <2>8. CASE TopOfLoop(w)
    BY <2>8 DEF TopOfLoop
  <2>9. CASE BeginWork(w)
    <3>1. idleCh[w] = <<>>
      BY <2>9 DEF BeginWork, SendPhase
    <3>2. idleCh' \in [Workers -> {<<>>, <<TRUE>>, <<FALSE>>}]
      <4>1. Append(idleCh[w], FALSE) = <<FALSE>>
        BY <3>1
      <4> QED BY <2>9, <4>1 DEF BeginWork, SendPhase
    <3>3. phaseLeft' \in [Workers -> Nat]
      BY <2>9, RoutineTyped DEF BeginWork, SendPhase
    <3> QED BY <2>9, <3>2, <3>3 DEF BeginWork, SendPhase
  <2>10. CASE BeginIdle(w)
    <3>1. idleCh[w] = <<>>
      BY <2>10 DEF BeginIdle, SendPhase
    <3>2. idleCh' \in [Workers -> {<<>>, <<TRUE>>, <<FALSE>>}]
      <4>1. Append(idleCh[w], TRUE) = <<TRUE>>
        BY <3>1
      <4> QED BY <2>10, <4>1 DEF BeginIdle, SendPhase
    <3>3. phaseLeft' \in [Workers -> Nat]
      BY <2>10, RoutineTyped DEF BeginIdle, SendPhase
    <3> QED BY <2>10, <3>2, <3>3 DEF BeginIdle, SendPhase
  <2>11. CASE EndWork(w)
    BY <2>11 DEF EndWork, EndPhase
  <2>12. CASE EndIdle(w)
    BY <2>12 DEF EndIdle, EndPhase
  <2>13. CASE StopWaiting(w)
    BY <2>13 DEF StopWaiting
  <2>14. CASE Deliver(w)
    <3> DEFINE t == TeamOfWorker[w]
    <3>1. /\ Head(teamQueue[t]) \in Messages
          /\ Tail(teamQueue[t]) \in Seq(Messages)
      BY <2>14, HeadTailProperties DEF Deliver
    <3>2. teamQueue' \in [Teams -> Seq(Messages)]
      BY <2>14, <3>1 DEF Deliver
    <3>3. deliveries' \in [Workers -> Seq(Messages)]
      BY <2>14, <3>1 DEF Deliver
    <3> QED BY <2>14, <3>2, <3>3 DEF Deliver
  <2>15. CASE ConsumerCloses(w)
    <3>1. PICK n \in 0..Len(deliveries[w]) :
            deliveries' = [deliveries EXCEPT ![w] = SubSeq(@, 1, n)]
      BY <2>15 DEF ConsumerCloses
    <3>2. SubSeq(deliveries[w], 1, n) \in Seq(Messages)
      BY SubSeqProperties
    <3>3. deliveries' \in [Workers -> Seq(Messages)]
      BY <3>1, <3>2
    <3> QED BY <2>15, <3>3 DEF ConsumerCloses
  <2> QED
    BY <1>5, <2>1, <2>2, <2>3, <2>4, <2>5, <2>6, <2>7, <2>8, <2>9, <2>10,
       <2>11, <2>12, <2>13, <2>14, <2>15 DEF WorkerStep, MainLoop, Toggler
<1>6. ASSUME NEW j \in jobs, JobStep(j) PROVE TypeOK'
  <2>1. CASE FinishJob(j)
    <3>1. jobs' \subseteq Job
      BY <2>1, JudgedTyped DEF FinishJob
    <3> QED BY <2>1, <3>1 DEF FinishJob
  <2>2. CASE AbortJob(j)
    BY <2>2 DEF AbortJob
  <2>3. CASE PublishJob(j)
    <3> DEFINE r == [ev |-> j.ev, status |-> j.status, slack |-> j.slack]
    <3>1. results' \in Seq(Result) /\ refused' \subseteq Events
      <4>1. r \in Result /\ r.ev \in Events
        BY <2>3 DEF PublishJob, Result, Job
      <4>2. PublishResult(r)
        BY <2>3 DEF PublishJob
      <4> HIDE DEF r
      <4> QED BY <4>1, <4>2, ResultPublishTyped, RefusedTyped
    <3> QED BY <2>3, <3>1 DEF PublishJob
  <2> QED BY <1>6, <2>1, <2>2, <2>3 DEF JobStep
<1>7. CASE UNCHANGED vars
  BY <1>7 DEF vars
<1>8. ASSUME NEW t \in Teams, NEW m \in Malformed, ForeignMessage(t, m) PROVE TypeOK'
  <2>1. teamQueue' \in [Teams -> Seq(Messages)]
    BY <1>8 DEF ForeignMessage, Messages
  <2> QED BY <1>8, <2>1 DEF ForeignMessage
<1> QED BY <1>1, <1>2, <1>3, <1>4, <1>5, <1>6, <1>7, <1>8 DEF Next

\* The types of TeamWorkers hold in every reachable state.
THEOREM TypeCorrect == Spec => []TypeOK
<1>1. Init => TypeOK
  BY TypeInit
<1>2. TypeOK /\ [Next]_vars => TypeOK'
  BY TypeStep
<1> QED BY <1>1, <1>2, PTL DEF Spec
-----------------------------------------------------------------------------
(* Verdicts *)

Deadline(e) == DeadlineDuration(PriorityOf[e])

\* No event circulates that has not been stamped by the organizer.
OnlyReceived ==
  /\ teamQueue \in [Teams -> Seq(received \cup Malformed)]
  /\ deliveries \in [Workers -> Seq(received \cup Malformed)]
  /\ inHand \in [Workers -> received \cup {NoEvent}]
  /\ \A j \in jobs : j.ev \in received
  /\ \A i \in DOMAIN results : results[i].ev \in received

\* No event has more time left than it was granted, and an event in a job has
\* used up what the job has already spent.
TimeSpent ==
  /\ \A e \in Events : ttl[e] <= Deadline(e)
  /\ \A j \in jobs : j.status = "Processing" /\ ttl[j.ev] >= 0 =>
                       ttl[j.ev] <= Deadline(j.ev) - ProcessingTime + j.left

\* The verdict of a job that has not published it yet.
JobsHonest ==
  \A j \in jobs :
    /\ j.status = "Completed" => j.slack \in 0..(Deadline(j.ev) - ProcessingTime)
    /\ j.status = "Expired" => ttl[j.ev] < 0

\* The inductive invariant behind VerdictsHonest: a verdict is the last link
\* of a chain that starts with the stamp of the organizer, so each link is
\* part of it.
VerdictInv == TypeOK /\ OnlyReceived /\ TimeSpent /\ JobsHonest /\ VerdictsHonest

\* Only stamped events circulate: each place is filled from another place.
LEMMA OnlyReceivedStep ==
  ASSUME TypeOK, OnlyReceived, [Next]_vars
  PROVE  OnlyReceived'
<1> USE DEF OnlyReceived
<1>0. /\ TeamOfWorker \in [Workers -> Teams]
      /\ jobs \subseteq Job
      /\ results \in Seq(Result)
  BY PoolAssumption DEF TypeOK
<1>1. CASE Tick
  <2>1. ASSUME NEW j \in jobs' PROVE j.ev \in received'
    <3>1. PICK k \in jobs : j = Aged(k)
      BY <1>1 DEF Tick
    <3>2. j.ev = k.ev
      BY <1>0, <3>1, AgedTyped
    <3> QED BY <1>1, <3>2 DEF Tick
  <2> QED BY <1>1, <2>1 DEF Tick, brokerVars, loopVars
<1>2. CASE Disconnect
  BY <1>2 DEF Disconnect, loopVars
<1>3. ASSUME NEW e \in Events, RouteEvent(e) PROVE OnlyReceived'
  <2>1. received' = received \cup {e}
    BY <1>3 DEF RouteEvent, SetReceived
  <2>2. \A s \in Seq(received \cup Malformed) : s \in Seq(received' \cup Malformed)
    <3>1. received \cup Malformed \subseteq received' \cup Malformed
      BY <2>1
    <3> QED BY <3>1, SeqMonotonic
  <2>3. teamQueue' \in [Teams -> Seq(received' \cup Malformed)]
    <3>1. PublishToTeam(Team(e), e) /\ e \in received' \cup Malformed /\ Team(e) \in Teams
      BY <1>3, <2>1, EventHasTeam DEF RouteEvent
    <3>2. teamQueue \in [Teams -> Seq(received' \cup Malformed)]
      BY <2>2
    <3> QED BY <3>1, <3>2, TeamPublishTyped
  <2>4. deliveries' \in [Workers -> Seq(received' \cup Malformed)]
    BY <1>3, <2>2 DEF RouteEvent
  <2> QED BY <1>3, <2>1, <2>3, <2>4 DEF RouteEvent, loopVars
<1>4. ASSUME NEW t \in Teams, ShutdownTeam(t) PROVE OnlyReceived'
  BY <1>4 DEF ShutdownTeam, brokerVars, loopVars
<1>5. ASSUME NEW w \in Workers, WorkerStep(w) PROVE OnlyReceived'
  <2>1. CASE Start(w)
    BY <2>1 DEF Start
  <2>2. CASE RecvDone(w) \/ RecvClosed(w)
    <3>1. deliveries' = [deliveries EXCEPT ![w] = <<>>]
      BY <2>2 DEF RecvDone, RecvClosed, Return
    <3>2. deliveries' \in [Workers -> Seq(received \cup Malformed)]
      BY <3>1
    <3> QED BY <2>2, <3>2 DEF RecvDone, RecvClosed, Return
  <2>3. CASE RecvIdle(w)
    BY <2>3 DEF RecvIdle, brokerVars
  <2>4. CASE RecvDelivery(w)
    <3>1. /\ Head(deliveries[w]) \in received \cup Malformed
          /\ Tail(deliveries[w]) \in Seq(received \cup Malformed)
      BY <2>4, HeadTailProperties DEF RecvDelivery
    <3>2. deliveries' \in [Workers -> Seq(received \cup Malformed)]
      BY <2>4, <3>1 DEF RecvDelivery
    <3>3. inHand' \in [Workers -> received \cup {NoEvent}]
      BY <2>4, <3>1 DEF RecvDelivery
    <3> QED BY <2>4, <3>2, <3>3 DEF RecvDelivery
  <2>5. CASE AcceptEvent(w)
    <3>1. inHand[w] \in received
      BY <2>5 DEF AcceptEvent, TypeOK
    <3>2. \A j \in jobs' : j.ev \in received
      BY <2>5, <3>1 DEF AcceptEvent, NewJob
    <3> QED BY <2>5, <3>2 DEF AcceptEvent, BackToSelect, brokerVars
  <2>6. CASE ReportExpired(w)
    <3>1. inHand[w] \in received /\ inHand[w] \in Events
      BY <2>6 DEF ReportExpired, TypeOK
    <3> DEFINE r == [ev |-> inHand[w], status |-> "Expired", slack |-> -1]
    <3>2. r \in Result
      BY <3>1, DeadlinesAssumption DEF Result, Priorities
    <3>4. PublishResult(r) /\ r.ev \in received
      BY <2>6, <3>1 DEF ReportExpired
    <3>5. ASSUME NEW i \in DOMAIN results'
          PROVE  results'[i] = r \/ (i \in DOMAIN results /\ results'[i] = results[i])
      BY <1>0, <3>2, <3>4, PublishedResults
    <3>3. \A i \in DOMAIN results' : results'[i].ev \in received
      BY <3>4, <3>5
    <3> QED BY <2>6, <3>3 DEF ReportExpired, BackToSelect
  <2>7. CASE Republish(w)
    <3>1. inHand[w] \in received
      BY <2>7 DEF Republish, TypeOK
    <3>2. teamQueue' \in [Teams -> Seq(received \cup Malformed)]
      <4>1. PublishToTeam(TeamOfWorker[w], inHand[w]) /\ TeamOfWorker[w] \in Teams
        BY <1>0, <2>7 DEF Republish
      <4> QED BY <3>1, <4>1, TeamPublishTyped
    <3> QED BY <2>7, <3>2 DEF Republish, BackToSelect
  <2>8. CASE Toggler(w)
    BY <2>8 DEF Toggler, TopOfLoop, BeginWork, EndWork, BeginIdle, EndIdle,
                SendPhase, EndPhase, StopWaiting, brokerVars, loopVars
  <2>9. CASE Deliver(w)
    <3> DEFINE t == TeamOfWorker[w]
    <3>1. /\ Head(teamQueue[t]) \in received \cup Malformed
          /\ Tail(teamQueue[t]) \in Seq(received \cup Malformed)
      BY <1>0, <2>9, HeadTailProperties DEF Deliver
    <3>2. teamQueue' \in [Teams -> Seq(received \cup Malformed)]
      BY <2>9, <3>1 DEF Deliver
    <3>3. deliveries' \in [Workers -> Seq(received \cup Malformed)]
      BY <2>9, <3>1, AppendProperties DEF Deliver
    <3> QED BY <2>9, <3>2, <3>3 DEF Deliver, loopVars
  <2>10. CASE ConsumerCloses(w)
    <3>1. PICK n \in 0..Len(deliveries[w]) :
            deliveries' = [deliveries EXCEPT ![w] = SubSeq(@, 1, n)]
      BY <2>10 DEF ConsumerCloses
    <3>2. SubSeq(deliveries[w], 1, n) \in Seq(received \cup Malformed)
      BY SubSeqProperties, ElementOfSeq
    <3>3. deliveries' \in [Workers -> Seq(received \cup Malformed)]
      BY <3>1, <3>2
    <3> QED BY <2>10, <3>3 DEF ConsumerCloses, loopVars
  <2> QED
    BY <1>5, <2>1, <2>2, <2>3, <2>4, <2>5, <2>6, <2>7, <2>8, <2>9, <2>10
       DEF WorkerStep, MainLoop
<1>6. ASSUME NEW j \in jobs, JobStep(j) PROVE OnlyReceived'
  <2>1. CASE FinishJob(j)
    <3>1. Judged(j).ev = j.ev
      <4>1. ttl \in [Events -> -1..Deadlines["Low"]] /\ j \in Job
        BY <1>0 DEF TypeOK
      <4> QED BY <4>1, JudgedTyped
    <3> QED BY <2>1, <3>1 DEF FinishJob, brokerVars, loopVars
  <2>2. CASE AbortJob(j)
    BY <2>2 DEF AbortJob, brokerVars, loopVars
  <2>3. CASE PublishJob(j)
    <3> DEFINE r == [ev |-> j.ev, status |-> j.status, slack |-> j.slack]
    <3>1. r \in Result
      BY <1>0, <2>3 DEF PublishJob, Result, Job
    <3>2. PublishResult(r) /\ r.ev \in received
      BY <2>3 DEF PublishJob
    <3>3. ASSUME NEW i \in DOMAIN results'
          PROVE  results'[i] = r \/ (i \in DOMAIN results /\ results'[i] = results[i])
      BY <1>0, <3>1, <3>2, PublishedResults
    <3>4. \A i \in DOMAIN results' : results'[i].ev \in received
      BY <3>2, <3>3
    <3> QED BY <2>3, <3>4 DEF PublishJob, loopVars
  <2> QED BY <1>6, <2>1, <2>2, <2>3 DEF JobStep
<1>7. CASE UNCHANGED vars
  BY <1>7 DEF vars
<1>8. ASSUME NEW t \in Teams, NEW m \in Malformed, ForeignMessage(t, m) PROVE OnlyReceived'
  <2>1. teamQueue' \in [Teams -> Seq(received \cup Malformed)]
    BY <1>8, AppendProperties DEF ForeignMessage
  <2> QED BY <1>8, <2>1 DEF ForeignMessage, loopVars
<1> QED BY <1>1, <1>2, <1>3, <1>4, <1>5, <1>6, <1>7, <1>8 DEF Next

\* A tick takes as much from the event as from its job, and the organizer
\* never stamps an event twice.
LEMMA TimeSpentStep ==
  ASSUME TypeOK, OnlyReceived, TimeSpent, [Next]_vars
  PROVE  TimeSpent'
<1>0. /\ jobs \subseteq Job
      /\ ttl \in [Events -> -1..Deadlines["Low"]]
      /\ ProcessingTime \in Nat
      /\ \A e \in Events : Deadline(e) \in Nat /\ Deadline(e)' = Deadline(e)
  BY PoolAssumption, DeadlinesAssumption, DeadlineBounds DEF TypeOK, Deadline, Priorities
<1>1. CASE Tick
  <2>1. \A e \in Events : ttl'[e] = ttl[e] \/ (ttl'[e] = ttl[e] - 1 /\ ttl[e] >= 0)
    BY <1>0, <1>1 DEF Tick
  <2>2. \A e \in received : ttl[e] >= 0 => ttl'[e] = ttl[e] - 1
    BY <1>0, <1>1 DEF Tick, TypeOK
  <2>3. ASSUME NEW j \in jobs', j.status = "Processing", ttl'[j.ev] >= 0
        PROVE  ttl'[j.ev] <= Deadline(j.ev) - ProcessingTime + j.left
    <3>1. PICK k \in jobs : j = Aged(k)
      BY <1>1 DEF Tick
    <3>2. /\ k \in Job /\ j.ev = k.ev /\ j.status = k.status
          /\ j.left = Countdown(k.left)
      BY <1>0, <3>1, AgedTyped
    <3>3. /\ k.ev \in received /\ k.ev \in Events /\ k.left \in Nat
      BY <1>0, <3>2 DEF OnlyReceived, Job
    <3>4. ttl[k.ev] >= 0 /\ ttl'[k.ev] = ttl[k.ev] - 1
      BY <1>0, <2>1, <2>2, <2>3, <3>2, <3>3
    <3>5. ttl[k.ev] <= Deadline(k.ev) - ProcessingTime + k.left
      BY <2>3, <3>2, <3>4 DEF TimeSpent
    <3> QED BY <1>0, <3>2, <3>3, <3>4, <3>5 DEF Countdown
  <2> QED BY <1>0, <2>1, <2>3 DEF TimeSpent
<1>2. ASSUME NEW e \in Events, RouteEvent(e) PROVE TimeSpent'
  <2>1. e \notin received /\ ttl' = [ttl EXCEPT ![e] = Deadline(e)] /\ jobs' = jobs
    BY <1>2 DEF RouteEvent, SetReceived, Deadline
  <2>2. \A j \in jobs : j.ev # e
    BY <2>1 DEF OnlyReceived
  <2> QED BY <1>0, <2>1, <2>2 DEF TimeSpent
<1>3. ASSUME NEW w \in Workers, AcceptEvent(w) PROVE TimeSpent'
  <2>1. ttl' = ttl /\ jobs' = jobs \cup {NewJob(w)} /\ inHand[w] \in Events
    BY <1>3 DEF AcceptEvent, TypeOK
  <2>2. NewJob(w).left = ProcessingTime /\ NewJob(w).ev = inHand[w]
    BY DEF NewJob
  <2> QED BY <1>0, <2>1, <2>2 DEF TimeSpent
<1>4. ASSUME NEW j \in jobs, FinishJob(j) PROVE TimeSpent'
  <2>1. ttl' = ttl /\ jobs' = (jobs \ {j}) \cup {Judged(j)}
    BY <1>4 DEF FinishJob
  <2>2. Judged(j).status # "Processing"
    BY <1>0, JudgedTyped
  <2> QED BY <1>0, <2>1, <2>2 DEF TimeSpent
<1>5. ASSUME ttl' = ttl, jobs' \subseteq jobs PROVE TimeSpent'
  BY <1>0, <1>5 DEF TimeSpent
<1>6. ASSUME NEW w \in Workers, WorkerStep(w), ~AcceptEvent(w)
      PROVE  ttl' = ttl /\ jobs' \subseteq jobs
  BY <1>6 DEF WorkerStep, Start, MainLoop, RecvDone, RecvClosed, Return, RecvIdle,
              RecvDelivery, ReportExpired, Republish, Toggler, TopOfLoop,
              BeginWork, EndWork, BeginIdle, EndIdle, SendPhase, EndPhase,
              StopWaiting, Deliver, ConsumerCloses, clocks
<1>7. ASSUME NEW j \in jobs, JobStep(j), ~FinishJob(j)
      PROVE  ttl' = ttl /\ jobs' \subseteq jobs
  BY <1>7 DEF JobStep, AbortJob, PublishJob
<1>8. ASSUME \/ Disconnect \/ (\E t \in Teams : ShutdownTeam(t)) \/ UNCHANGED vars
             \/ \E t \in Teams, m \in Malformed : ForeignMessage(t, m)
      PROVE  ttl' = ttl /\ jobs' \subseteq jobs
  BY <1>8 DEF Disconnect, ShutdownTeam, ForeignMessage, vars
<1> QED BY <1>1, <1>2, <1>3, <1>4, <1>5, <1>6, <1>7, <1>8 DEF Next

\* A received event that is past its deadline stays so.
LEMMA ExpiredStays ==
  ASSUME TypeOK, [Next]_vars, NEW e \in received, ttl[e] < 0
  PROVE  ttl'[e] < 0
<1>1. ttl \in [Events -> -1..Deadlines["Low"]] /\ e \in Events
  BY DEF TypeOK
<1>2. CASE Tick
  BY <1>1, <1>2 DEF Tick
<1>3. ASSUME NEW f \in Events, RouteEvent(f) PROVE ttl'[e] < 0
  BY <1>1, <1>3 DEF RouteEvent, SetReceived
<1>4. ASSUME ttl' = ttl PROVE ttl'[e] < 0
  BY <1>4
<1>5. ASSUME NEW w \in Workers, WorkerStep(w) PROVE ttl' = ttl
  BY <1>5 DEF WorkerStep, Start, MainLoop, RecvDone, RecvClosed, Return, RecvIdle,
              RecvDelivery, AcceptEvent, ReportExpired, Republish, Toggler, TopOfLoop,
              BeginWork, EndWork, BeginIdle, EndIdle, SendPhase, EndPhase,
              StopWaiting, Deliver, ConsumerCloses, clocks
<1>6. ASSUME NEW j \in jobs, JobStep(j) PROVE ttl' = ttl
  BY <1>6 DEF JobStep, FinishJob, AbortJob, PublishJob
<1>7. ASSUME \/ Disconnect \/ (\E t \in Teams : ShutdownTeam(t)) \/ UNCHANGED vars
             \/ \E t \in Teams, m \in Malformed : ForeignMessage(t, m)
      PROVE  ttl' = ttl
  BY <1>7 DEF Disconnect, ShutdownTeam, ForeignMessage, vars
<1> QED BY <1>2, <1>3, <1>4, <1>5, <1>6, <1>7 DEF Next

HonestJob(j) == /\ j.status = "Completed" => j.slack \in 0..(Deadline(j.ev) - ProcessingTime)
                /\ j.status = "Expired" => ttl[j.ev] < 0

HonestResult(r) == \/ r.status = "Completed" /\ r.slack \in 0..(Deadline(r.ev) - ProcessingTime)
                   \/ r.status = "Expired" /\ ttl[r.ev] < 0

\* A verdict is right when it is taken, and time does not make it wrong.
LEMMA VerdictStep ==
  ASSUME VerdictInv, [Next]_vars
  PROVE  JobsHonest' /\ VerdictsHonest'
<1> USE DEF VerdictInv
<1>0. /\ jobs \subseteq Job
      /\ results \in Seq(Result)
      /\ ttl \in [Events -> -1..Deadlines["Low"]]
      /\ ProcessingTime \in Nat
      /\ \A e \in Events : Deadline(e) \in Nat
      /\ \A e : Deadline(e)' = Deadline(e)
  BY PoolAssumption, DeadlinesAssumption, DeadlineBounds DEF TypeOK, Deadline, Priorities
<1>1. ASSUME \A j \in jobs' : HonestJob(j)',
             \A i \in DOMAIN results' : HonestResult(results[i])'
      PROVE  JobsHonest' /\ VerdictsHonest'
  BY <1>1 DEF JobsHonest, VerdictsHonest, HonestJob, HonestResult, Deadline
<1>2. ASSUME NEW j \in jobs PROVE HonestJob(j)'
  <2>1. HonestJob(j) /\ j.ev \in received
    BY DEF JobsHonest, HonestJob, OnlyReceived
  <2> QED BY <1>0, <2>1, ExpiredStays DEF HonestJob
<1>3. ASSUME NEW i \in DOMAIN results
      PROVE  /\ results[i].status = "Completed" =>
                  results[i].slack \in 0..(Deadline(results[i].ev) - ProcessingTime)
             /\ results[i].status = "Expired" => ttl'[results[i].ev] < 0
             /\ results[i].status \in {"Completed", "Expired"}
  <2>1. HonestResult(results[i]) /\ results[i].ev \in received
    BY DEF VerdictsHonest, HonestResult, OnlyReceived, Deadline
  <2> QED BY <2>1, ExpiredStays DEF HonestResult
<1>4. ASSUME NEW i \in DOMAIN results', i \in DOMAIN results, results'[i] = results[i]
      PROVE  HonestResult(results[i])'
  BY <1>0, <1>3, <1>4 DEF HonestResult
<1>5. CASE Tick
  <2>1. ASSUME NEW j \in jobs' PROVE HonestJob(j)'
    <3>1. PICK k \in jobs : j = Aged(k)
      BY <1>5 DEF Tick
    <3>2. j.ev = k.ev /\ j.status = k.status /\ j.slack = k.slack
      BY <1>0, <3>1, AgedTyped
    <3> QED BY <1>0, <1>2, <3>2 DEF HonestJob
  <2>2. results' = results
    BY <1>5 DEF Tick, brokerVars
  <2> QED BY <1>1, <1>4, <2>1, <2>2
<1>6. ASSUME NEW w \in Workers, AcceptEvent(w) PROVE JobsHonest' /\ VerdictsHonest'
  <2>1. jobs' = jobs \cup {NewJob(w)} /\ results' = results
    BY <1>6 DEF AcceptEvent, brokerVars
  <2>2. ASSUME NEW k, k = NewJob(w) PROVE HonestJob(k)'
    BY <2>2 DEF HonestJob, NewJob
  <2> QED BY <1>1, <1>2, <1>4, <2>1, <2>2
<1>7. ASSUME NEW w \in Workers, ReportExpired(w) PROVE JobsHonest' /\ VerdictsHonest'
  <2> DEFINE r == [ev |-> inHand[w], status |-> "Expired", slack |-> -1]
  <2>1. /\ PublishResult(r) /\ jobs' = jobs
        /\ ttl' = ttl /\ ttl[r.ev] < 0 /\ r.ev \in Events
    BY <1>7 DEF ReportExpired, IsExpired, TypeOK
  <2>2. r \in Result
    BY <2>1, DeadlinesAssumption DEF Result, Priorities
  <2>3. ASSUME NEW i \in DOMAIN results', results'[i] = r
        PROVE  HonestResult(results[i])'
    BY <2>1, <2>3 DEF HonestResult
  <2> QED BY <1>0, <1>1, <1>2, <1>4, <2>1, <2>2, <2>3, PublishedResults
<1>8. ASSUME NEW j \in jobs, FinishJob(j) PROVE JobsHonest' /\ VerdictsHonest'
  <2>1. /\ jobs' = (jobs \ {j}) \cup {Judged(j)} /\ results' = results /\ ttl' = ttl
        /\ j.status = "Processing" /\ j.left = 0 /\ j \in Job /\ j.ev \in Events
    BY <1>0, <1>8 DEF FinishJob, brokerVars, Job
  <2>2. ASSUME NEW k, k = Judged(j) PROVE HonestJob(k)'
    <3>1. CASE IsExpired(j.ev)
      <4>1. k.status = "Expired" /\ k.ev = j.ev
        BY <1>0, <2>1, <2>2, <3>1, JudgedTyped
      <4> QED BY <2>1, <3>1, <4>1 DEF HonestJob, IsExpired
    <3>2. CASE ~IsExpired(j.ev)
      <4>1. /\ k.status = "Completed" /\ k.ev = j.ev
            /\ k.slack = ttl[j.ev]
        BY <1>0, <2>1, <2>2, <3>2, JudgedTyped
      <4>2. ttl[j.ev] \in 0..(Deadline(j.ev) - ProcessingTime)
        BY <1>0, <2>1, <3>2 DEF TimeSpent, IsExpired
      <4> QED BY <1>0, <4>1, <4>2 DEF HonestJob
    <3> QED BY <3>1, <3>2
  <2> QED BY <1>1, <1>2, <1>4, <2>1, <2>2
<1>9. ASSUME NEW j \in jobs, PublishJob(j) PROVE JobsHonest' /\ VerdictsHonest'
  <2> DEFINE r == [ev |-> j.ev, status |-> j.status, slack |-> j.slack]
  <2>1. PublishResult(r) /\ jobs' \subseteq jobs /\ j \in Job /\ j.status # "Processing"
    BY <1>0, <1>9 DEF PublishJob
  <2>2. r \in Result
    BY <2>1 DEF Result, Job
  <2>3. ASSUME NEW i \in DOMAIN results', results'[i] = r
        PROVE  HonestResult(results[i])'
    <3>1. j.status \in {"Completed", "Expired"}
      BY <2>1 DEF Job
    <3> QED BY <1>0, <1>2, <2>3, <3>1 DEF HonestJob, HonestResult
  <2> QED BY <1>0, <1>1, <1>2, <1>4, <2>1, <2>2, <2>3, PublishedResults
<1>10. ASSUME jobs' \subseteq jobs, results' = results PROVE JobsHonest' /\ VerdictsHonest'
  BY <1>1, <1>2, <1>4, <1>10
<1>11. ASSUME NEW w \in Workers, WorkerStep(w), ~AcceptEvent(w), ~ReportExpired(w)
       PROVE  jobs' \subseteq jobs /\ results' = results
  BY <1>11 DEF WorkerStep, Start, MainLoop, RecvDone, RecvClosed, Return, RecvIdle,
               RecvDelivery, Republish, Toggler, TopOfLoop, BeginWork, EndWork,
               BeginIdle, EndIdle, SendPhase, EndPhase, StopWaiting, Deliver,
               ConsumerCloses, brokerVars
<1>12. ASSUME NEW j \in jobs, AbortJob(j) PROVE jobs' \subseteq jobs /\ results' = results
  BY <1>12 DEF AbortJob, brokerVars
<1>13. ASSUME \/ Disconnect \/ UNCHANGED vars
              \/ \E e \in Events : RouteEvent(e)
              \/ \E t \in Teams : ShutdownTeam(t)
              \/ \E t \in Teams, m \in Malformed : ForeignMessage(t, m)
       PROVE  jobs' \subseteq jobs /\ results' = results
  BY <1>13 DEF Disconnect, RouteEvent, ShutdownTeam, ForeignMessage, brokerVars, vars
<1> QED BY <1>5, <1>6, <1>7, <1>8, <1>9, <1>10, <1>11, <1>12, <1>13 DEF Next, JobStep

\* The initial state has nothing to judge.
LEMMA VerdictInit == Init => VerdictInv
<1> SUFFICES ASSUME Init PROVE VerdictInv
  OBVIOUS
<1>1. TypeOK
  BY TypeInit
<1>2. OnlyReceived
  BY DEF Init, OnlyReceived
<1>3. TimeSpent
  BY DeadlineBounds DEF Init, TimeSpent, Deadline
<1>4. JobsHonest /\ VerdictsHonest
  BY DEF Init, JobsHonest, VerdictsHonest
<1> QED BY <1>1, <1>2, <1>3, <1>4 DEF VerdictInv

\* Every result says Completed only of an event that was handled for the whole
\* processing time within its deadline, and Expired only of one that is late.
THEOREM VerdictsAreHonest == Spec => []VerdictsHonest
<1>1. Init => VerdictInv
  BY VerdictInit
<1>2. VerdictInv /\ [Next]_vars => VerdictInv'
  BY TypeStep, OnlyReceivedStep, TimeSpentStep, VerdictStep DEF VerdictInv
<1>3. VerdictInv => VerdictsHonest
  BY DEF VerdictInv
<1> QED BY <1>1, <1>2, <1>3, PTL DEF Spec

-----------------------------------------------------------------------------
(* The phase of a worker and the flag of its main loop *)

\* What the main loop believes once it has read its channel.
Announced(w) == IF idleCh[w] = <<>> THEN idle[w] ELSE idleCh[w] = <<TRUE>>

\* The flag can only be behind the toggler by the value in the channel.
FlagInv == \A w \in Workers :
  /\ Announced(w) => Offered(w) \/ toggler[w] = "exited"
  /\ toggler[w] = "idle" => Announced(w)

\* A channel that holds one value.
LEMMA OneValue ==
  ASSUME NEW b
  PROVE  /\ Head(<<b>>) = b /\ Tail(<<b>>) = <<>> /\ <<b>>[Len(<<b>>)] = b
         /\ Append(<<>>, b) = <<b>> /\ <<b>> # <<>>
OBVIOUS

\* The channels of the two kinds of phase differ.
LEMMA FlagsDiffer == <<TRUE>> # <<FALSE>> /\ TRUE # FALSE
<1>1. <<TRUE>>[1] = TRUE /\ <<FALSE>>[1] = FALSE
  OBVIOUS
<1> QED BY <1>1

\* A delivery is read with the flag that was announced last.
LEMMA ReadsAnnounced ==
  ASSUME TypeOK, NEW w \in Workers, RecvDelivery(w)
  PROVE  idle' = [idle EXCEPT ![w] = Announced(w)]
<1>1. idleCh[w] \in {<<>>, <<TRUE>>, <<FALSE>>}
  BY DEF TypeOK
<1>2. idle' = [idle EXCEPT ![w] = IF idleCh[w] = <<>> THEN idle[w]
                                 ELSE idleCh[w][Len(idleCh[w])]]
  BY DEF RecvDelivery, updateIdle
<1>3. CASE idleCh[w] = <<>>
  BY <1>2, <1>3 DEF Announced
<1>4. CASE idleCh[w] = <<TRUE>>
  BY <1>2, <1>4, OneValue, Zenon DEF Announced
<1>5. CASE idleCh[w] = <<FALSE>>
  <2>1. Announced(w) = FALSE
    BY <1>5, OneValue, FlagsDiffer, Zenon DEF Announced
  <2> QED BY <1>2, <1>5, <2>1, OneValue, Zenon
<1> QED BY <1>1, <1>3, <1>4, <1>5

\* Reading the channel does not change what is announced; writing to it comes
\* with the step of the toggler that makes it true.
LEMMA FlagStep ==
  ASSUME TypeOK, FlagInv, [Next]_vars
  PROVE  FlagInv'
<1> USE DEF FlagInv
<1>0. /\ idle \in [Workers -> BOOLEAN]
      /\ idleCh \in [Workers -> {<<>>, <<TRUE>>, <<FALSE>>}]
      /\ toggler \in [Workers -> {"none", "top", "sendWork", "work", "sendIdle",
                                  "idle", "exited"}]
  BY DEF TypeOK
<1>1. ASSUME idle' = idle, idleCh' = idleCh, toggler' = toggler PROVE FlagInv'
  BY <1>1 DEF Announced, Offered
<1>2. ASSUME NEW w \in Workers, WorkerStep(w) PROVE FlagInv'
  <2>1. CASE Start(w)
    <3>1. idle' = idle /\ idleCh' = idleCh
      BY <2>1 DEF Start
    <3>2. toggler' = toggler \/ toggler' = [toggler EXCEPT ![w] = "top"]
      BY <2>1 DEF Start
    <3> QED BY <1>0, <3>1, <3>2 DEF Announced, Offered
  <2>2. CASE RecvIdle(w)
    <3>1. /\ idleCh[w] # <<>> /\ toggler' = toggler
          /\ idle' = [idle EXCEPT ![w] = Head(idleCh[w])]
          /\ idleCh' = [idleCh EXCEPT ![w] = Tail(idleCh[w])]
      BY <2>2 DEF RecvIdle, togglerVars
    <3>2. /\ idleCh[w] = <<TRUE>> => Head(idleCh[w]) = TRUE /\ Tail(idleCh[w]) = <<>>
          /\ idleCh[w] = <<FALSE>> => Head(idleCh[w]) = FALSE /\ Tail(idleCh[w]) = <<>>
      BY OneValue
    <3> QED BY <1>0, <3>1, <3>2 DEF Announced, Offered
  <2>3. CASE RecvDelivery(w)
    <3>1. /\ idle' = [idle EXCEPT ![w] = Announced(w)]
          /\ idleCh' = [idleCh EXCEPT ![w] = <<>>] /\ toggler' = toggler
      BY <2>3, ReadsAnnounced DEF RecvDelivery, updateIdle, togglerVars
    <3> QED BY <1>0, <3>1 DEF Announced, Offered
  <2>4. CASE TopOfLoop(w) \/ StopWaiting(w) \/ EndWork(w) \/ EndIdle(w)
    BY <1>0, <2>4 DEF TopOfLoop, StopWaiting, EndWork, EndIdle, EndPhase, loopVars, Announced, Offered
  <2>5. CASE BeginWork(w)
    <3>1. /\ idleCh[w] = <<>> /\ idleCh' = [idleCh EXCEPT ![w] = <<FALSE>>]
          /\ toggler' = [toggler EXCEPT ![w] = "work"] /\ idle' = idle
      <4>1. idleCh[w] = <<>>
        BY <1>0, <2>5 DEF BeginWork, SendPhase
      <4> QED BY <2>5, <4>1, OneValue DEF BeginWork, SendPhase, loopVars
    <3> QED BY <1>0, <3>1 DEF Announced, Offered
  <2>6. CASE BeginIdle(w)
    <3>1. /\ idleCh[w] = <<>> /\ idleCh' = [idleCh EXCEPT ![w] = <<TRUE>>]
          /\ toggler' = [toggler EXCEPT ![w] = "idle"] /\ idle' = idle
      <4>1. idleCh[w] = <<>>
        BY <1>0, <2>6 DEF BeginIdle, SendPhase
      <4> QED BY <2>6, <4>1, OneValue DEF BeginIdle, SendPhase, loopVars
    <3> QED BY <1>0, <3>1 DEF Announced, Offered
  <2>7. CASE \/ RecvDone(w) \/ RecvClosed(w) \/ AcceptEvent(w) \/ ReportExpired(w)
             \/ Republish(w) \/ Deliver(w) \/ ConsumerCloses(w)
    BY <1>1, <2>7 DEF RecvDone, RecvClosed, Return, AcceptEvent, ReportExpired, Republish,
                      Deliver, ConsumerCloses, loopVars, togglerVars
  <2> QED BY <1>2, <2>1, <2>2, <2>3, <2>4, <2>5, <2>6, <2>7 DEF WorkerStep, MainLoop, Toggler
<1>3. ASSUME NEW j \in jobs, JobStep(j) PROVE FlagInv'
  BY <1>1, <1>3 DEF JobStep, FinishJob, AbortJob, PublishJob, loopVars, togglerVars
<1>4. ASSUME \/ Tick \/ Disconnect \/ UNCHANGED vars
             \/ \E e \in Events : RouteEvent(e)
             \/ \E t \in Teams : ShutdownTeam(t)
             \/ \E t \in Teams, m \in Malformed : ForeignMessage(t, m)
      PROVE  FlagInv'
  BY <1>1, <1>4 DEF Tick, Disconnect, RouteEvent, ShutdownTeam, ForeignMessage, loopVars,
                    togglerVars, vars
<1> QED BY <1>2, <1>3, <1>4 DEF Next

\* When the loop takes a delivery its flag tells the phase of the toggler.
THEOREM FlagIsFresh == Spec => FlagFreshWhenRead
<1>1. Init => TypeOK /\ FlagInv
  BY TypeInit DEF Init, FlagInv, Announced
<1>2. TypeOK /\ FlagInv /\ [Next]_vars => TypeOK' /\ FlagInv'
  BY TypeStep, FlagStep
<1>3. TypeOK /\ FlagInv /\ [Next]_vars =>
        [\A w \in Workers : RecvDelivery(w) =>
           /\ idle'[w] => Offered(w) \/ toggler[w] = "exited"
           /\ toggler[w] = "idle" => idle'[w]]_vars
  <2> SUFFICES ASSUME TypeOK, FlagInv, NEW w \in Workers, RecvDelivery(w)
               PROVE  /\ idle'[w] => Offered(w) \/ toggler[w] = "exited"
                      /\ toggler[w] = "idle" => idle'[w]
    OBVIOUS
  <2>1. idle'[w] = Announced(w)
    BY ReadsAnnounced DEF TypeOK
  <2> QED BY <2>1 DEF FlagInv
<1> QED BY <1>1, <1>2, <1>3, PTL DEF Spec, FlagFreshWhenRead

\* A worker accepts an event only while it is available, or in the window
\* in which the news that it no longer is has not been read.
THEOREM AcceptsWhenOffered == Spec => AcceptsOnlyWhenOffered
<1> DEFINE Ok(j) == \/ Offered(j.worker)
                    \/ toggler[j.worker] = "exited"
                    \/ idleCh[j.worker] = <<FALSE>>
           New(j) == j.status = "Processing" /\ (\A k \in jobs : k.ev # j.ev)
<1>1. Init => TypeOK /\ FlagInv
  BY TypeInit DEF Init, FlagInv, Announced
<1>2. TypeOK /\ FlagInv /\ [Next]_vars => TypeOK' /\ FlagInv'
  BY TypeStep, FlagStep
<1>3. ASSUME TypeOK, FlagInv, Next, NEW j \in jobs' \ jobs, New(j) PROVE Ok(j)
  <2>1. CASE Tick
    <3>1. PICK k \in jobs : j = Aged(k)
      BY <2>1 DEF Tick
    <3>2. j.ev = k.ev
      BY <1>3, <3>1, AgedTyped DEF TypeOK
    <3> QED BY <1>3, <3>2
  <2>2. ASSUME NEW w \in Workers, AcceptEvent(w) PROVE Ok(j)
    <3>1. j.worker = w /\ idle[w]
      BY <2>2 DEF AcceptEvent, NewJob
    <3>2. idleCh[w] \in {<<>>, <<TRUE>>, <<FALSE>>}
      BY <1>3 DEF TypeOK
    <3>3. Announced(w) \/ idleCh[w] = <<FALSE>>
      BY <3>1, <3>2 DEF Announced
    <3> QED BY <1>3, <3>1, <3>3 DEF FlagInv
  <2>3. ASSUME NEW k \in jobs, FinishJob(k) PROVE Ok(j)
    <3>1. j = Judged(k)
      BY <2>3 DEF FinishJob
    <3>2. k \in Job /\ ttl \in [Events -> -1..Deadlines["Low"]]
      BY <1>3 DEF TypeOK
    <3> QED BY <1>3, <3>1, <3>2, JudgedTyped
  <2>4. ASSUME NEW w \in Workers, WorkerStep(w), ~AcceptEvent(w) PROVE jobs' = jobs
    BY <2>4 DEF WorkerStep, Start, MainLoop, RecvDone, RecvClosed, Return, RecvIdle,
                RecvDelivery, ReportExpired, Republish, Toggler, TopOfLoop, BeginWork,
                EndWork, BeginIdle, EndIdle, SendPhase, EndPhase, StopWaiting, Deliver,
                ConsumerCloses
  <2>5. ASSUME NEW k \in jobs, JobStep(k), ~FinishJob(k) PROVE jobs' \subseteq jobs
    BY <2>5 DEF JobStep, AbortJob, PublishJob
  <2>6. ASSUME \/ Disconnect \/ \E e \in Events : RouteEvent(e)
               \/ \E t \in Teams : ShutdownTeam(t)
               \/ \E t \in Teams, m \in Malformed : ForeignMessage(t, m)
        PROVE  jobs' = jobs
    BY <2>6 DEF Disconnect, RouteEvent, ShutdownTeam, ForeignMessage
  <2> QED BY <1>3, <2>1, <2>2, <2>3, <2>4, <2>5, <2>6 DEF Next
<1>4. TypeOK /\ FlagInv /\ [Next]_vars =>
        [\A j \in jobs' \ jobs : New(j) => Ok(j)]_vars
  BY <1>3
<1> QED BY <1>1, <1>2, <1>4, PTL DEF Spec, AcceptsOnlyWhenOffered

-----------------------------------------------------------------------------
(* Places *)

\* What it means that a copy is in a place, before and after a step.
LEMMA PlacesNow ==
  ASSUME NEW e, NEW p
  PROVE  p \in Places(e) <=>
           \/ \E t \in Teams : \E i \in DOMAIN teamQueue[t] :
                p = <<"queue", t, i>> /\ teamQueue[t][i] = e
           \/ \E w \in Workers : \E i \in DOMAIN deliveries[w] :
                p = <<"deliveries", w, i>> /\ deliveries[w][i] = e
           \/ \E w \in Workers : p = <<"hand", w>> /\ inHand[w] = e
           \/ \E j \in jobs : p = <<"job", j>> /\ j.ev = e
           \/ \E i \in DOMAIN results : p = <<"result", i>> /\ results[i].ev = e
<1> DEFINE InQueue == UNION {{<<"queue", t, i>> : i \in {k \in DOMAIN teamQueue[t] : teamQueue[t][k] = e}}
                               : t \in Teams}
           Delivered == UNION {{<<"deliveries", w, i>> : i \in {k \in DOMAIN deliveries[w] : deliveries[w][k] = e}}
                                 : w \in Workers}
           InHand == {<<"hand", w>> : w \in {v \in Workers : inHand[v] = e}}
           InJob == {<<"job", j>> : j \in {k \in jobs : k.ev = e}}
           Published == {<<"result", i>> : i \in {k \in DOMAIN results : results[k].ev = e}}
<1>1. p \in InQueue <=> \E t \in Teams : \E i \in DOMAIN teamQueue[t] :
                           p = <<"queue", t, i>> /\ teamQueue[t][i] = e
  OBVIOUS
<1>2. p \in Delivered <=> \E w \in Workers : \E i \in DOMAIN deliveries[w] :
                             p = <<"deliveries", w, i>> /\ deliveries[w][i] = e
  OBVIOUS
<1>3. p \in InHand <=> \E w \in Workers : p = <<"hand", w>> /\ inHand[w] = e
  OBVIOUS
<1>4. p \in InJob <=> \E j \in jobs : p = <<"job", j>> /\ j.ev = e
  OBVIOUS
<1>5. p \in Published <=> \E i \in DOMAIN results : p = <<"result", i>> /\ results[i].ev = e
  OBVIOUS
<1>6. Places(e) = InQueue \cup Delivered \cup InHand \cup InJob \cup Published
  BY DEF Places
<1> HIDE DEF InQueue, Delivered, InHand, InJob, Published
<1> QED BY <1>1, <1>2, <1>3, <1>4, <1>5, <1>6

\* The same of the state after a step.
LEMMA PlacesNext ==
  ASSUME NEW e, NEW p
  PROVE  p \in Places(e)' <=>
           \/ \E t \in Teams : \E i \in DOMAIN teamQueue'[t] :
                p = <<"queue", t, i>> /\ teamQueue'[t][i] = e
           \/ \E w \in Workers : \E i \in DOMAIN deliveries'[w] :
                p = <<"deliveries", w, i>> /\ deliveries'[w][i] = e
           \/ \E w \in Workers : p = <<"hand", w>> /\ inHand'[w] = e
           \/ \E j \in jobs' : p = <<"job", j>> /\ j.ev = e
           \/ \E i \in DOMAIN results' : p = <<"result", i>> /\ results'[i].ev = e
<1> DEFINE InQueue == UNION {{<<"queue", t, i>> : i \in {k \in DOMAIN teamQueue'[t] : teamQueue'[t][k] = e}}
                               : t \in Teams}
           Delivered == UNION {{<<"deliveries", w, i>> : i \in {k \in DOMAIN deliveries'[w] : deliveries'[w][k] = e}}
                                 : w \in Workers}
           InHand == {<<"hand", w>> : w \in {v \in Workers : inHand'[v] = e}}
           InJob == {<<"job", j>> : j \in {k \in jobs' : k.ev = e}}
           Published == {<<"result", i>> : i \in {k \in DOMAIN results' : results'[k].ev = e}}
<1>1. p \in InQueue <=> \E t \in Teams : \E i \in DOMAIN teamQueue'[t] :
                           p = <<"queue", t, i>> /\ teamQueue'[t][i] = e
  OBVIOUS
<1>2. p \in Delivered <=> \E w \in Workers : \E i \in DOMAIN deliveries'[w] :
                             p = <<"deliveries", w, i>> /\ deliveries'[w][i] = e
  OBVIOUS
<1>3. p \in InHand <=> \E w \in Workers : p = <<"hand", w>> /\ inHand'[w] = e
  OBVIOUS
<1>4. p \in InJob <=> \E j \in jobs' : p = <<"job", j>> /\ j.ev = e
  OBVIOUS
<1>5. p \in Published <=> \E i \in DOMAIN results' : p = <<"result", i>> /\ results'[i].ev = e
  OBVIOUS
<1>6. Places(e)' = InQueue \cup Delivered \cup InHand \cup InJob \cup Published
  BY DEF Places
<1> HIDE DEF InQueue, Delivered, InHand, InJob, Published
<1> QED BY <1>1, <1>2, <1>3, <1>4, <1>5, <1>6

\* A step that puts an event nowhere but in the places Q.
LEMMA PlacesGrow ==
  ASSUME NEW e, NEW Q,
         \A t \in Teams : \A i \in DOMAIN teamQueue'[t] : teamQueue'[t][i] = e =>
           (i \in DOMAIN teamQueue[t] /\ teamQueue[t][i] = e) \/ <<"queue", t, i>> \in Q,
         \A w \in Workers : \A i \in DOMAIN deliveries'[w] : deliveries'[w][i] = e =>
           (i \in DOMAIN deliveries[w] /\ deliveries[w][i] = e) \/ <<"deliveries", w, i>> \in Q,
         \A w \in Workers : inHand'[w] = e => inHand[w] = e \/ <<"hand", w>> \in Q,
         \A j \in jobs' : j.ev = e => j \in jobs \/ <<"job", j>> \in Q,
         \A i \in DOMAIN results' : results'[i].ev = e =>
           (i \in DOMAIN results /\ results[i].ev = e) \/ <<"result", i>> \in Q
  PROVE  Places(e)' \subseteq Places(e) \cup Q
<1> SUFFICES ASSUME NEW p \in Places(e)' PROVE p \in Places(e) \/ p \in Q
  OBVIOUS
<1>1. CASE \E t \in Teams : \E i \in DOMAIN teamQueue'[t] :
             p = <<"queue", t, i>> /\ teamQueue'[t][i] = e
  BY <1>1, PlacesNow
<1>2. CASE \E w \in Workers : \E i \in DOMAIN deliveries'[w] :
             p = <<"deliveries", w, i>> /\ deliveries'[w][i] = e
  BY <1>2, PlacesNow
<1>3. CASE \E w \in Workers : p = <<"hand", w>> /\ inHand'[w] = e
  BY <1>3, PlacesNow
<1>4. CASE \E j \in jobs' : p = <<"job", j>> /\ j.ev = e
  BY <1>4, PlacesNow
<1>5. CASE \E i \in DOMAIN results' : p = <<"result", i>> /\ results'[i].ev = e
  BY <1>5, PlacesNow
<1> QED BY <1>1, <1>2, <1>3, <1>4, <1>5, PlacesNext

\* An event is in one place at most.
OnePlace(e) == \A p, q \in Places(e) : p = q

\* It is still so when the event leaves its place for another, or for none.
LEMMA MovedOn ==
  ASSUME NEW e, OnePlace(e), NEW p \in Places(e), NEW q,
         p \notin Places(e)', Places(e)' \subseteq Places(e) \cup {q}
  PROVE  OnePlace(e)'
BY DEF OnePlace

\* And when it stays.
LEMMA Stayed ==
  ASSUME NEW e, OnePlace(e), Places(e)' \subseteq Places(e) \cup {}
  PROVE  OnePlace(e)'
BY DEF OnePlace

\* Nothing is in the hand of a worker that waits.
LEMMA EmptyHand ==
  ASSUME TypeOK, NEW w \in Workers, NEW e \in Events, pc[w] # "handle"
  PROVE  inHand[w] # e
BY PoolAssumption DEF TypeOK

\* When a worker has dealt with its event its hand is empty.
LEMMA HandEmptied ==
  ASSUME TypeOK, NEW w \in Workers, BackToSelect(w), NEW e \in Events
  PROVE  /\ inHand'[w] # e
         /\ \A v \in Workers : inHand'[v] = e => inHand[v] = e
BY PoolAssumption DEF TypeOK, BackToSelect

\* A result that is published has a place of its own.
LEMMA PublishPlaces ==
  ASSUME TypeOK, NEW r \in Result, PublishResult(r), NEW e \in Events
  PROVE  \A i \in DOMAIN results' : results'[i].ev = e =>
           (i \in DOMAIN results /\ results[i].ev = e) \/ (i = Len(results) + 1 /\ e = r.ev)
<1>1. results \in Seq(Result)
  BY DEF TypeOK
<1>2. CASE results' = Append(results, r)
  BY <1>1, <1>2, AppendElements
<1>3. CASE results' = results
  BY <1>3
<1> QED BY <1>2, <1>3, PublishedResult

\* The message d is appended to the queue of the team t, or to none.
Queued(t, d) == \/ teamQueue' = [teamQueue EXCEPT ![t] = Append(@, d)]
                \/ teamQueue' = teamQueue

\* So has an event that is published to a team.
LEMMA TeamPlaces ==
  ASSUME TypeOK, NEW t \in Teams, NEW d \in Messages, Queued(t, d), NEW e \in Events
  PROVE  \A u \in Teams : \A i \in DOMAIN teamQueue'[u] : teamQueue'[u][i] = e =>
           \/ i \in DOMAIN teamQueue[u] /\ teamQueue[u][i] = e
           \/ u = t /\ i = Len(teamQueue[t]) + 1 /\ e = d
<1>1. teamQueue \in [Teams -> Seq(Messages)]
  BY DEF TypeOK
<1>2. CASE teamQueue' = [teamQueue EXCEPT ![t] = Append(@, d)]
  BY <1>1, <1>2, AppendElements
<1>3. CASE teamQueue' = teamQueue
  BY <1>3
<1> QED BY <1>2, <1>3 DEF Queued

\* The broker hands the oldest message of a queue on; the others move up.
LEMMA DeliverOnce ==
  ASSUME TypeOK, NEW e \in Events, OnePlace(e), NEW w \in Workers, Deliver(w)
  PROVE  OnePlace(e)'
<1> DEFINE t == TeamOfWorker[w]
           h == Head(teamQueue[t])
           new == <<"deliveries", w, Len(deliveries[w]) + 1>>
<1>1. /\ t \in Teams /\ teamQueue[t] \in Seq(Messages) /\ teamQueue[t] # <<>>
      /\ deliveries[w] \in Seq(Messages) /\ h \in Messages
      /\ teamQueue' = [teamQueue EXCEPT ![t] = Tail(teamQueue[t])]
      /\ deliveries' = [deliveries EXCEPT ![w] = Append(deliveries[w], h)]
      /\ UNCHANGED <<inHand, jobs, results>>
  BY PoolAssumption, HeadTailProperties DEF Deliver, TypeOK, loopVars
<1> HIDE DEF t, h
<1>2. /\ 1 \in DOMAIN teamQueue[t] /\ h = teamQueue[t][1]
      /\ \A i \in DOMAIN teamQueue'[t] : /\ i \in Nat \ {0} /\ i + 1 \in DOMAIN teamQueue[t]
                                         /\ teamQueue'[t][i] = teamQueue[t][i + 1]
      /\ \A u \in Teams \ {t} : teamQueue'[u] = teamQueue[u]
  BY <1>1, TailElements DEF TypeOK, h
<1>3. \A v \in Workers : \A i \in DOMAIN deliveries'[v] : deliveries'[v][i] = e =>
        \/ i \in DOMAIN deliveries[v] /\ deliveries[v][i] = e
        \/ v = w /\ i = Len(deliveries[w]) + 1 /\ e = h
  <2>1. /\ \A i \in DOMAIN deliveries'[w] : i \in DOMAIN deliveries[w] \/ i = Len(deliveries[w]) + 1
        /\ \A i \in DOMAIN deliveries[w] : deliveries'[w][i] = deliveries[w][i]
        /\ deliveries'[w][Len(deliveries[w]) + 1] = h
    BY <1>1, AppendElements DEF TypeOK
  <2>2. \A v \in Workers \ {w} : deliveries'[v] = deliveries[v]
    BY <1>1 DEF TypeOK
  <2> QED BY <2>1, <2>2
<1>4. CASE e = h
  <2>1. <<"queue", t, 1>> \in Places(e)
    BY <1>1, <1>2, <1>4, PlacesNow
  <2>2. ASSUME NEW p \in Places(e)' PROVE p = new
    <3>1. ASSUME NEW u \in Teams, NEW i \in DOMAIN teamQueue'[u],
                 p = <<"queue", u, i>>, teamQueue'[u][i] = e
          PROVE  FALSE
      <4>1. CASE u = t
        <5>1. /\ i \in Nat \ {0} /\ i + 1 \in DOMAIN teamQueue[t] /\ teamQueue[t][i + 1] = e
          BY <1>2, <3>1, <4>1
        <5>2. <<"queue", t, i + 1>> \in Places(e)
          BY <1>1, <5>1, PlacesNow
        <5>3. <<"queue", t, i + 1>> = <<"queue", t, 1>>
          BY <2>1, <5>2 DEF OnePlace
        <5> QED BY <5>1, <5>3
      <4>2. CASE u # t
        <5>1. <<"queue", u, i>> \in Places(e)
          BY <1>2, <3>1, <4>2, PlacesNow
        <5> QED BY <2>1, <4>2, <5>1 DEF OnePlace
      <4> QED BY <4>1, <4>2
    <3>2. ASSUME p \in Places(e) PROVE p = <<"queue", t, 1>>
      BY <2>1, <3>2 DEF OnePlace
    <3>3. ASSUME NEW v \in Workers, NEW i \in DOMAIN deliveries'[v],
                 p = <<"deliveries", v, i>>, deliveries'[v][i] = e
          PROVE  p = new
      <4>1. i \in DOMAIN deliveries[v] /\ deliveries[v][i] = e => FALSE
        BY <3>2, <3>3, PlacesNow
      <4> QED BY <1>3, <3>3, <4>1
    <3>4. ASSUME NEW v \in Workers, p = <<"hand", v>>, inHand'[v] = e PROVE FALSE
      BY <1>1, <3>2, <3>4, PlacesNow
    <3>5. ASSUME NEW j \in jobs', p = <<"job", j>>, j.ev = e PROVE FALSE
      BY <1>1, <3>2, <3>5, PlacesNow
    <3>6. ASSUME NEW i \in DOMAIN results', p = <<"result", i>>, results'[i].ev = e PROVE FALSE
      BY <1>1, <3>2, <3>6, PlacesNow
    <3> QED BY <3>1, <3>3, <3>4, <3>5, <3>6, PlacesNext
  <2> QED BY <2>2 DEF OnePlace
<1>5. CASE e # h
  <2> DEFINE Src(p, q) ==
        \/ \E i \in Nat : p = <<"queue", t, i>> /\ q = <<"queue", t, i + 1>>
        \/ (\A i \in Nat : p # <<"queue", t, i>>) /\ q = p
  <2>1. ASSUME NEW p \in Places(e)' PROVE \E q \in Places(e) : Src(p, q)
    <3>1. ASSUME NEW u \in Teams, NEW i \in DOMAIN teamQueue'[u],
                 p = <<"queue", u, i>>, teamQueue'[u][i] = e
          PROVE  \E q \in Places(e) : Src(p, q)
      <4>1. CASE u = t
        <5>1. i \in Nat /\ i + 1 \in DOMAIN teamQueue[t] /\ teamQueue[t][i + 1] = e
          BY <1>2, <3>1, <4>1
        <5>2. <<"queue", t, i + 1>> \in Places(e)
          BY <1>1, <5>1, PlacesNow
        <5> QED BY <3>1, <4>1, <5>1, <5>2
      <4>2. CASE u # t
        <5>1. p \in Places(e)
          BY <1>2, <3>1, <4>2, PlacesNow
        <5>2. \A k \in Nat : p # <<"queue", t, k>>
          BY <3>1, <4>2
        <5> QED BY <5>1, <5>2
      <4> QED BY <4>1, <4>2
    <3>2. ASSUME NEW v \in Workers, NEW i \in DOMAIN deliveries'[v],
                 p = <<"deliveries", v, i>>, deliveries'[v][i] = e
          PROVE  \E q \in Places(e) : Src(p, q)
      <4>1. p \in Places(e)
        BY <1>3, <1>5, <3>2, PlacesNow
      <4> QED BY <3>2, <4>1
    <3>3. ASSUME NEW v \in Workers, p = <<"hand", v>>, inHand'[v] = e
          PROVE  \E q \in Places(e) : Src(p, q)
      BY <1>1, <3>3, PlacesNow
    <3>4. ASSUME NEW j \in jobs', p = <<"job", j>>, j.ev = e
          PROVE  \E q \in Places(e) : Src(p, q)
      BY <1>1, <3>4, PlacesNow
    <3>5. ASSUME NEW i \in DOMAIN results', p = <<"result", i>>, results'[i].ev = e
          PROVE  \E q \in Places(e) : Src(p, q)
      BY <1>1, <3>5, PlacesNow
    <3> HIDE DEF Src
    <3> QED BY <3>1, <3>2, <3>3, <3>4, <3>5, PlacesNext
  <2>2. ASSUME NEW p1, NEW p2, NEW q, Src(p1, q), Src(p2, q) PROVE p1 = p2
    BY <2>2
  <2> HIDE DEF Src
  <2> QED BY <2>1, <2>2 DEF OnePlace
<1> QED BY <1>4, <1>5

\* The loop takes the oldest delivery in hand; the others move up.
LEMMA RecvDeliveryOnce ==
  ASSUME TypeOK, NEW e \in Events, OnePlace(e), NEW w \in Workers, RecvDelivery(w)
  PROVE  OnePlace(e)'
<1> DEFINE Src(p, q) ==
      \/ p = <<"hand", w>> /\ q = <<"deliveries", w, 1>>
      \/ \E i \in Nat \ {0} : p = <<"deliveries", w, i>> /\ q = <<"deliveries", w, i + 1>>
      \/ p # <<"hand", w>> /\ (\A i \in Nat : p # <<"deliveries", w, i>>) /\ q = p
<1>1. /\ deliveries[w] \in Seq(Messages) /\ deliveries[w] # <<>>
      /\ deliveries' = [deliveries EXCEPT ![w] = Tail(deliveries[w])]
      /\ inHand' = inHand \/ inHand' = [inHand EXCEPT ![w] = Head(deliveries[w])]
      /\ UNCHANGED <<teamQueue, jobs, results>>
  BY DEF RecvDelivery, TypeOK
<1>2. /\ 1 \in DOMAIN deliveries[w] /\ Head(deliveries[w]) = deliveries[w][1]
      /\ \A i \in DOMAIN deliveries'[w] : /\ i \in Nat \ {0} /\ i + 1 \in DOMAIN deliveries[w]
                                          /\ deliveries'[w][i] = deliveries[w][i + 1]
      /\ \A v \in Workers \ {w} : deliveries'[v] = deliveries[v]
  BY <1>1, TailElements DEF TypeOK
<1>3. /\ inHand'[w] = e => deliveries[w][1] = e
      /\ \A v \in Workers \ {w} : inHand'[v] = inHand[v]
  <2>1. inHand[w] # e
    BY EmptyHand DEF RecvDelivery
  <2> QED BY <1>1, <1>2, <2>1 DEF TypeOK
<1>4. ASSUME NEW p \in Places(e)' PROVE \E q \in Places(e) : Src(p, q)
  <2>1. ASSUME NEW u \in Teams, NEW i \in DOMAIN teamQueue'[u],
               p = <<"queue", u, i>>, teamQueue'[u][i] = e
        PROVE  \E q \in Places(e) : Src(p, q)
    BY <1>1, <2>1, PlacesNow
  <2>2. ASSUME NEW v \in Workers, NEW i \in DOMAIN deliveries'[v],
               p = <<"deliveries", v, i>>, deliveries'[v][i] = e
        PROVE  \E q \in Places(e) : Src(p, q)
    <3>1. CASE v = w
      <4>1. i \in Nat \ {0} /\ i + 1 \in DOMAIN deliveries[w] /\ deliveries[w][i + 1] = e
        BY <1>2, <2>2, <3>1
      <4>2. <<"deliveries", w, i + 1>> \in Places(e)
        BY <4>1, PlacesNow
      <4> QED BY <2>2, <3>1, <4>1, <4>2
    <3>2. CASE v # w
      <4>1. p \in Places(e)
        BY <1>2, <2>2, <3>2, PlacesNow
      <4>2. p # <<"hand", w>> /\ \A k \in Nat : p # <<"deliveries", w, k>>
        BY <2>2, <3>2
      <4> QED BY <4>1, <4>2
    <3> QED BY <3>1, <3>2
  <2>3. ASSUME NEW v \in Workers, p = <<"hand", v>>, inHand'[v] = e
        PROVE  \E q \in Places(e) : Src(p, q)
    <3>1. CASE v = w
      <4>1. <<"deliveries", w, 1>> \in Places(e)
        BY <1>2, <1>3, <2>3, <3>1, PlacesNow
      <4> QED BY <2>3, <3>1, <4>1
    <3>2. CASE v # w
      <4>1. p \in Places(e)
        BY <1>3, <2>3, <3>2, PlacesNow
      <4> QED BY <2>3, <3>2, <4>1
    <3> QED BY <3>1, <3>2
  <2>4. ASSUME NEW j \in jobs', p = <<"job", j>>, j.ev = e
        PROVE  \E q \in Places(e) : Src(p, q)
    BY <1>1, <2>4, PlacesNow
  <2>5. ASSUME NEW i \in DOMAIN results', p = <<"result", i>>, results'[i].ev = e
        PROVE  \E q \in Places(e) : Src(p, q)
    BY <1>1, <2>5, PlacesNow
  <2> HIDE DEF Src
  <2> QED BY <2>1, <2>2, <2>3, <2>4, <2>5, PlacesNext
<1>5. ASSUME NEW p1, NEW p2, NEW q, Src(p1, q), Src(p2, q) PROVE p1 = p2
  BY <1>5
<1> HIDE DEF Src
<1> QED BY <1>4, <1>5 DEF OnePlace

\* Time ages the jobs and moves nothing.
LEMMA TickOnce ==
  ASSUME TypeOK, NEW e \in Events, OnePlace(e), Tick
  PROVE  OnePlace(e)'
<1> DEFINE Src(p, q) == \/ \E j \in jobs : p = <<"job", Aged(j)>> /\ q = <<"job", j>>
                        \/ (\A j : p # <<"job", j>>) /\ q = p
<1>1. /\ UNCHANGED <<teamQueue, deliveries, inHand, results>>
      /\ jobs' = {Aged(j) : j \in jobs} /\ jobs \subseteq Job
  BY DEF Tick, brokerVars, loopVars, TypeOK
<1>2. ASSUME NEW p \in Places(e)' PROVE \E q \in Places(e) : Src(p, q)
  <2>1. ASSUME NEW j \in jobs', p = <<"job", j>>, j.ev = e
        PROVE  \E q \in Places(e) : Src(p, q)
    <3>1. PICK k \in jobs : j = Aged(k)
      BY <1>1
    <3>2. k.ev = e
      BY <1>1, <2>1, <3>1, AgedTyped
    <3>3. <<"job", k>> \in Places(e)
      BY <3>2, PlacesNow
    <3> QED BY <2>1, <3>1, <3>3
  <2>2. ASSUME p \in Places(e), \A j : p # <<"job", j>>
        PROVE  \E q \in Places(e) : Src(p, q)
    BY <2>2
  <2> HIDE DEF Src
  <2>3. ASSUME NEW u \in Teams, NEW i \in DOMAIN teamQueue'[u],
               p = <<"queue", u, i>>, teamQueue'[u][i] = e
        PROVE  p \in Places(e) /\ \A j : p # <<"job", j>>
    BY <1>1, <2>3, PlacesNow
  <2>4. ASSUME NEW v \in Workers, NEW i \in DOMAIN deliveries'[v],
               p = <<"deliveries", v, i>>, deliveries'[v][i] = e
        PROVE  p \in Places(e) /\ \A j : p # <<"job", j>>
    BY <1>1, <2>4, PlacesNow
  <2>5. ASSUME NEW v \in Workers, p = <<"hand", v>>, inHand'[v] = e
        PROVE  p \in Places(e) /\ \A j : p # <<"job", j>>
    BY <1>1, <2>5, PlacesNow
  <2>6. ASSUME NEW i \in DOMAIN results', p = <<"result", i>>, results'[i].ev = e
        PROVE  p \in Places(e) /\ \A j : p # <<"job", j>>
    BY <1>1, <2>6, PlacesNow
  <2> QED BY <2>1, <2>2, <2>3, <2>4, <2>5, <2>6, PlacesNext
<1>3. ASSUME NEW p1, NEW p2, NEW q, Src(p1, q), Src(p2, q) PROVE p1 = p2
  BY <1>3
<1> HIDE DEF Src
<1> QED BY <1>2, <1>3 DEF OnePlace

\* A worker that returns, and a consumer that closes, drop deliveries.
LEMMA DroppedOnce ==
  ASSUME TypeOK, NEW e \in Events, OnePlace(e), NEW w \in Workers,
         RecvDone(w) \/ RecvClosed(w) \/ ConsumerCloses(w)
  PROVE  OnePlace(e)'
<1>1. UNCHANGED <<teamQueue, inHand, jobs, results>>
  BY DEF RecvDone, RecvClosed, Return, ConsumerCloses, loopVars
<1>2. \E n \in 0..Len(deliveries[w]) :
        deliveries' = [deliveries EXCEPT ![w] = SubSeq(deliveries[w], 1, n)]
  <2>1. CASE RecvDone(w) \/ RecvClosed(w)
    <3>1. deliveries' = [deliveries EXCEPT ![w] = <<>>]
      BY <2>1 DEF RecvDone, RecvClosed, Return
    <3>2. deliveries[w] \in Seq(Messages)
      BY DEF TypeOK
    <3>3. 0 \in 0..Len(deliveries[w]) /\ SubSeq(deliveries[w], 1, 0) = <<>>
      BY <3>2, LenProperties
    <3> QED BY <3>1, <3>3
  <2>2. CASE ConsumerCloses(w)
    BY <2>2 DEF ConsumerCloses
  <2> QED BY <2>1, <2>2
<1>3. PICK n \in 0..Len(deliveries[w]) :
        deliveries' = [deliveries EXCEPT ![w] = SubSeq(deliveries[w], 1, n)]
  BY <1>2
<1>4. \A v \in Workers : \A i \in DOMAIN deliveries'[v] :
        i \in DOMAIN deliveries[v] /\ deliveries'[v][i] = deliveries[v][i]
  BY <1>3, PrefixElements DEF TypeOK
<1>5. Places(e)' \subseteq Places(e) \cup {}
  BY <1>1, <1>4, PlacesGrow
<1> QED BY <1>5, Stayed

\* An event in hand goes to a job, to the results or back to a queue.
LEMMA HandledOnce ==
  ASSUME TypeOK, NEW e \in Events, OnePlace(e), NEW w \in Workers,
         AcceptEvent(w) \/ ReportExpired(w) \/ Republish(w)
  PROVE  OnePlace(e)'
<1>1. /\ TeamOfWorker[w] \in Teams /\ inHand[w] \in Events /\ BackToSelect(w)
      /\ deliveries' = deliveries
  BY PoolAssumption DEF AcceptEvent, ReportExpired, Republish, TypeOK, brokerVars
<1>2. /\ inHand'[w] # e
      /\ \A v \in Workers : inHand'[v] = e => inHand[v] = e
  BY <1>1, HandEmptied
<1>3. ASSUME NEW q, Places(e)' \subseteq Places(e) \cup (IF inHand[w] = e THEN {q} ELSE {})
      PROVE  OnePlace(e)'
  <2>1. CASE inHand[w] = e
    <3>1. <<"hand", w>> \in Places(e)
      BY <2>1, PlacesNow
    <3>2. <<"hand", w>> \notin Places(e)'
      BY <1>2, PlacesNext
    <3> QED BY <1>3, <2>1, <3>1, <3>2, MovedOn
  <2>2. CASE inHand[w] # e
    BY <1>3, <2>2, Stayed
  <2> QED BY <2>1, <2>2
<1>4. CASE AcceptEvent(w)
  <2> DEFINE Q == IF inHand[w] = e THEN {<<"job", NewJob(w)>>} ELSE {}
  <2>1. UNCHANGED <<teamQueue, results>> /\ jobs' = jobs \cup {NewJob(w)}
    BY <1>4 DEF AcceptEvent, brokerVars
  <2>2. \A j \in jobs' : j.ev = e => j \in jobs \/ <<"job", j>> \in Q
    BY <2>1 DEF NewJob
  <2> HIDE DEF Q
  <2>3. Places(e)' \subseteq Places(e) \cup Q
    BY <1>1, <1>2, <2>1, <2>2, PlacesGrow
  <2> QED BY <1>3, <2>3 DEF Q
<1>5. CASE ReportExpired(w)
  <2> DEFINE r == [ev |-> inHand[w], status |-> "Expired", slack |-> -1]
             Q == IF inHand[w] = e THEN {<<"result", Len(results) + 1>>} ELSE {}
  <2>1. UNCHANGED <<teamQueue, jobs>> /\ PublishResult(r)
    BY <1>5 DEF ReportExpired
  <2>2. r \in Result
    BY <1>1, DeadlinesAssumption DEF Result, Priorities
  <2>3. \A i \in DOMAIN results' : results'[i].ev = e =>
          (i \in DOMAIN results /\ results[i].ev = e) \/ (i = Len(results) + 1 /\ e = r.ev)
    BY <2>1, <2>2, PublishPlaces
  <2>4. \A i \in DOMAIN results' : results'[i].ev = e =>
          (i \in DOMAIN results /\ results[i].ev = e) \/ <<"result", i>> \in Q
    BY <2>3
  <2> HIDE DEF Q, r
  <2>5. Places(e)' \subseteq Places(e) \cup Q
    BY <1>1, <1>2, <2>1, <2>4, PlacesGrow
  <2> QED BY <1>3, <2>5 DEF Q
<1>6. CASE Republish(w)
  <2> DEFINE t == TeamOfWorker[w]
             Q == IF inHand[w] = e THEN {<<"queue", t, Len(teamQueue[t]) + 1>>} ELSE {}
  <2>1. UNCHANGED <<results, jobs>> /\ PublishToTeam(t, inHand[w])
    BY <1>6 DEF Republish
  <2>2. Queued(t, inHand[w]) /\ inHand[w] \in Messages
    BY <1>1, <2>1, PublishedToTeam, EventIsEvent DEF Queued
  <2>4. \A u \in Teams : \A i \in DOMAIN teamQueue'[u] : teamQueue'[u][i] = e =>
          \/ i \in DOMAIN teamQueue[u] /\ teamQueue[u][i] = e
          \/ <<"queue", u, i>> \in Q
    BY <1>1, <2>2, TeamPlaces
  <2> HIDE DEF Q, t
  <2>3. Places(e)' \subseteq Places(e) \cup Q
    BY <1>1, <1>2, <2>1, <2>4, PlacesGrow
  <2> QED BY <1>3, <2>3 DEF Q
<1> QED BY <1>4, <1>5, <1>6

\* A job keeps its event until it publishes the result, or takes it along.
LEMMA JobOnce ==
  ASSUME TypeOK, NEW e \in Events, OnePlace(e), NEW j \in jobs, JobStep(j)
  PROVE  OnePlace(e)'
<1>1. UNCHANGED <<teamQueue, deliveries, inHand>> /\ j \in Job /\ j.ev \in Events
  BY DEF JobStep, FinishJob, AbortJob, PublishJob, brokerVars, loopVars, TypeOK, Job
<1>2. ASSUME NEW q, <<"job", j>> \notin Places(e)',
             Places(e)' \subseteq Places(e) \cup (IF j.ev = e THEN {q} ELSE {})
      PROVE  OnePlace(e)'
  <2>1. CASE j.ev = e
    <3>1. <<"job", j>> \in Places(e)
      BY <2>1, PlacesNow
    <3> QED BY <1>2, <2>1, <3>1, MovedOn
  <2>2. CASE j.ev # e
    BY <1>2, <2>2, Stayed
  <2> QED BY <2>1, <2>2
<1>3. CASE FinishJob(j)
  <2> DEFINE k == Judged(j)
             Q == IF j.ev = e THEN {<<"job", k>>} ELSE {}
  <2>1. jobs' = (jobs \ {j}) \cup {k} /\ results' = results /\ j.status = "Processing"
    BY <1>3 DEF FinishJob, brokerVars
  <2>2. k.ev = j.ev /\ k.status # "Processing"
    BY <1>1, JudgedTyped DEF TypeOK
  <2> HIDE DEF k
  <2>3. \A i \in jobs' : i.ev = e => i \in jobs \/ <<"job", i>> \in Q
    BY <2>1, <2>2
  <2>4. <<"job", j>> \notin Places(e)'
    BY <2>1, <2>2, PlacesNext
  <2> HIDE DEF Q
  <2>5. Places(e)' \subseteq Places(e) \cup Q
    BY <1>1, <2>1, <2>3, PlacesGrow
  <2> QED BY <1>2, <2>4, <2>5 DEF Q
<1>4. CASE AbortJob(j)
  <2>1. jobs' = jobs \ {j} /\ results' = results
    BY <1>4 DEF AbortJob, brokerVars
  <2>2. Places(e)' \subseteq Places(e) \cup {}
    BY <1>1, <2>1, PlacesGrow
  <2> QED BY <2>2, Stayed
<1>5. CASE PublishJob(j)
  <2> DEFINE r == [ev |-> j.ev, status |-> j.status, slack |-> j.slack]
             Q == IF j.ev = e THEN {<<"result", Len(results) + 1>>} ELSE {}
  <2>1. jobs' = jobs \ {j} /\ PublishResult(r) /\ j.status # "Processing"
    BY <1>5 DEF PublishJob
  <2>2. r \in Result
    BY <1>1, <2>1 DEF Result, Job
  <2>3. \A i \in DOMAIN results' : results'[i].ev = e =>
          (i \in DOMAIN results /\ results[i].ev = e) \/ (i = Len(results) + 1 /\ e = r.ev)
    BY <2>1, <2>2, PublishPlaces
  <2>4. \A i \in DOMAIN results' : results'[i].ev = e =>
          (i \in DOMAIN results /\ results[i].ev = e) \/ <<"result", i>> \in Q
    BY <2>3
  <2>5. <<"job", j>> \notin Places(e)'
    BY <2>1, PlacesNext
  <2> HIDE DEF Q, r
  <2>6. Places(e)' \subseteq Places(e) \cup Q
    BY <1>1, <2>1, <2>4, PlacesGrow
  <2> QED BY <1>2, <2>5, <2>6 DEF Q
<1> QED BY <1>3, <1>4, <1>5 DEF JobStep

\* An event that has not been received is nowhere.
LEMMA UnseenNowhere ==
  ASSUME TypeOK, OnlyReceived, NEW e \in Events, e \notin received
  PROVE  Places(e) = {}
<1> SUFFICES ASSUME NEW p \in Places(e) PROVE FALSE
  OBVIOUS
<1>0. e \notin received \cup Malformed
  BY EventIsEvent
<1>1. /\ \A t \in Teams : \A i \in DOMAIN teamQueue[t] :
           teamQueue[t][i] \in received \cup Malformed
      /\ \A w \in Workers : \A i \in DOMAIN deliveries[w] :
           deliveries[w][i] \in received \cup Malformed
  BY ElementOfSeq, LenProperties DEF OnlyReceived
<1>2. ASSUME NEW w \in Workers, inHand[w] = e PROVE FALSE
  BY <1>2, PoolAssumption DEF OnlyReceived
<1>3. ASSUME NEW j \in jobs, j.ev = e PROVE FALSE
  BY <1>3 DEF OnlyReceived
<1>4. ASSUME NEW i \in DOMAIN results, results[i].ev = e PROVE FALSE
  BY <1>4 DEF OnlyReceived
<1> QED BY <1>0, <1>1, <1>2, <1>3, <1>4, PlacesNow

\* The organizer routes an event once.
LEMMA RouteOnce ==
  ASSUME TypeOK, OnlyReceived, NEW e \in Events, OnePlace(e), NEW d \in Events, RouteEvent(d)
  PROVE  OnePlace(e)'
<1> DEFINE t == Team(d)
           Q == IF d = e THEN {<<"queue", t, Len(teamQueue[t]) + 1>>} ELSE {}
<1>1. /\ UNCHANGED <<deliveries, inHand, jobs, results>>
      /\ PublishToTeam(t, d) /\ d \notin received /\ t \in Teams
  BY EventHasTeam DEF RouteEvent, loopVars
<1>6. Queued(t, d) /\ d \in Messages
  BY <1>1, PublishedToTeam, EventIsEvent DEF Queued
<1>2. \A u \in Teams : \A i \in DOMAIN teamQueue'[u] : teamQueue'[u][i] = e =>
          \/ i \in DOMAIN teamQueue[u] /\ teamQueue[u][i] = e
          \/ <<"queue", u, i>> \in Q
  BY <1>1, <1>6, TeamPlaces
<1> HIDE DEF Q, t
<1>3. Places(e)' \subseteq Places(e) \cup Q
  BY <1>1, <1>2, PlacesGrow
<1>4. CASE d = e
  BY <1>1, <1>3, <1>4, UnseenNowhere DEF OnePlace, Q
<1>5. CASE d # e
  BY <1>3, <1>5, Stayed DEF Q
<1> QED BY <1>4, <1>5

\* A message that is no event is not in the place of one.
LEMMA ForeignOnce ==
  ASSUME TypeOK, NEW e \in Events, OnePlace(e), NEW t \in Teams, NEW m \in Malformed,
         ForeignMessage(t, m)
  PROVE  OnePlace(e)'
<1>1. Queued(t, m) /\ UNCHANGED <<deliveries, inHand, jobs, results>>
  BY DEF ForeignMessage, Queued, loopVars
<1>2. m \in Messages /\ m # e
  BY EventIsEvent DEF Messages
<1>3. \A u \in Teams : \A i \in DOMAIN teamQueue'[u] : teamQueue'[u][i] = e =>
        i \in DOMAIN teamQueue[u] /\ teamQueue[u][i] = e
  BY <1>1, <1>2, TeamPlaces
<1>4. Places(e)' \subseteq Places(e) \cup {}
  BY <1>1, <1>3, PlacesGrow
<1> QED BY <1>4, Stayed

\* No step makes a second copy of an event.
LEMMA SinglePlaceStep ==
  ASSUME TypeOK, OnlyReceived, SinglePlace, [Next]_vars
  PROVE  SinglePlace'
<1>1. SUFFICES ASSUME NEW e \in Events, OnePlace(e) PROVE OnePlace(e)'
  BY DEF SinglePlace, OnePlace
<1>2. ASSUME UNCHANGED <<teamQueue, deliveries, inHand, jobs, results>> PROVE OnePlace(e)'
  <2>1. Places(e)' \subseteq Places(e) \cup {}
    BY <1>2, PlacesGrow
  <2> QED BY <1>1, <2>1, Stayed
<1>3. ASSUME NEW w \in Workers, WorkerStep(w) PROVE OnePlace(e)'
  <2>1. CASE Start(w) \/ RecvIdle(w) \/ Toggler(w)
    BY <1>2, <2>1 DEF Start, RecvIdle, Toggler, TopOfLoop, BeginWork, EndWork,
                      BeginIdle, EndIdle, SendPhase, EndPhase, StopWaiting, brokerVars, loopVars
  <2>2. CASE RecvDone(w) \/ RecvClosed(w) \/ ConsumerCloses(w)
    BY <1>1, <2>2, DroppedOnce
  <2>3. CASE RecvDelivery(w)
    BY <1>1, <2>3, RecvDeliveryOnce
  <2>4. CASE AcceptEvent(w) \/ ReportExpired(w) \/ Republish(w)
    BY <1>1, <2>4, HandledOnce
  <2>5. CASE Deliver(w)
    BY <1>1, <2>5, DeliverOnce
  <2> QED BY <1>3, <2>1, <2>2, <2>3, <2>4, <2>5 DEF WorkerStep, MainLoop
<1>4. ASSUME NEW j \in jobs, JobStep(j) PROVE OnePlace(e)'
  BY <1>1, <1>4, JobOnce
<1>5. CASE Tick
  BY <1>1, <1>5, TickOnce
<1>6. ASSUME NEW d \in Events, RouteEvent(d) PROVE OnePlace(e)'
  BY <1>1, <1>6, RouteOnce
<1>7. ASSUME Disconnect \/ UNCHANGED vars \/ \E t \in Teams : ShutdownTeam(t)
      PROVE  OnePlace(e)'
  BY <1>2, <1>7 DEF Disconnect, ShutdownTeam, brokerVars, loopVars, vars
<1>8. ASSUME NEW t \in Teams, NEW m \in Malformed, ForeignMessage(t, m) PROVE OnePlace(e)'
  BY <1>1, <1>8, ForeignOnce
<1> QED BY <1>3, <1>4, <1>5, <1>6, <1>7, <1>8 DEF Next

\* In the beginning there is no event anywhere.
LEMMA PlacesInit == Init => OnlyReceived /\ SinglePlace
<1> SUFFICES ASSUME Init PROVE OnlyReceived /\ SinglePlace
  OBVIOUS
<1>1. TypeOK /\ OnlyReceived
  BY TypeInit, VerdictInit DEF VerdictInv
<1>2. \A e \in Events : Places(e) = {}
  BY <1>1, UnseenNowhere DEF Init
<1> QED BY <1>1, <1>2 DEF SinglePlace

\* Republishing, redelivery, parallel jobs and shutdown never make a second
\* copy of an event.
THEOREM EventsHaveOnePlace == Spec => []SinglePlace
<1>1. Init => TypeOK /\ OnlyReceived /\ SinglePlace
  BY TypeInit, PlacesInit
<1>2. TypeOK /\ OnlyReceived /\ SinglePlace /\ [Next]_vars =>
        TypeOK' /\ OnlyReceived' /\ SinglePlace'
  BY TypeStep, OnlyReceivedStep, SinglePlaceStep
<1> QED BY <1>1, <1>2, PTL DEF Spec

-----------------------------------------------------------------------------
(* Teams *)

\* An event is only ever with its own team.
RightTeam ==
  /\ \A t \in Teams : \A e \in Range(teamQueue[t]) \ Malformed : Team(e) = t
  /\ \A w \in Workers : \A e \in Range(deliveries[w]) \ Malformed : Team(e) = TeamOfWorker[w]
  /\ \A w \in Workers : inHand[w] # NoEvent => Team(inHand[w]) = TeamOfWorker[w]
  /\ \A j \in jobs : Team(j.ev) = TeamOfWorker[j.worker]

\* What the queues hold after a message has been appended to one.
LEMMA TeamRanges ==
  ASSUME TypeOK, NEW t \in Teams, NEW d \in Messages, Queued(t, d)
  PROVE  /\ \/ Range(teamQueue'[t]) = Range(teamQueue[t]) \cup {d}
            \/ teamQueue' = teamQueue
         /\ \A u \in Teams \ {t} : teamQueue'[u] = teamQueue[u]
         /\ \A u \in Teams : \A x \in Range(teamQueue'[u]) :
              x \in Range(teamQueue[u]) \/ (u = t /\ x = d)
<1>1. teamQueue \in [Teams -> Seq(Messages)]
  BY DEF TypeOK
<1>2. CASE teamQueue' = [teamQueue EXCEPT ![t] = Append(@, d)]
  <2>1. /\ teamQueue'[t] = Append(teamQueue[t], d)
        /\ \A u \in Teams \ {t} : teamQueue'[u] = teamQueue[u]
    BY <1>1, <1>2
  <2>2. Range(teamQueue'[t]) = Range(teamQueue[t]) \cup {d}
    BY <1>1, <2>1, RangeAppend
  <2>3. \A u \in Teams : \A x \in Range(teamQueue'[u]) :
          x \in Range(teamQueue[u]) \/ (u = t /\ x = d)
    BY <2>1, <2>2
  <2> QED BY <2>1, <2>2, <2>3
<1>3. CASE teamQueue' = teamQueue
  BY <1>3
<1> QED BY <1>2, <1>3 DEF Queued

\* A delivery leaves the queue of a team for a worker of that team.
LEMMA DeliverRanges ==
  ASSUME TypeOK, NEW w \in Workers, Deliver(w)
  PROVE  LET t == TeamOfWorker[w] IN
         /\ t \in Teams
         /\ \A u \in Teams \ {t} : teamQueue'[u] = teamQueue[u]
         /\ \A v \in Workers \ {w} : deliveries'[v] = deliveries[v]
         /\ \E h \in Messages : /\ Range(teamQueue[t]) = Range(teamQueue'[t]) \cup {h}
                              /\ Range(deliveries'[w]) = Range(deliveries[w]) \cup {h}
         /\ UNCHANGED <<inHand, jobs, results, received, refused, up, cancelled>>
<1> DEFINE t == TeamOfWorker[w]
           h == Head(teamQueue[t])
<1>1. /\ t \in Teams /\ teamQueue[t] \in Seq(Messages) /\ teamQueue[t] # <<>>
      /\ deliveries[w] \in Seq(Messages)
      /\ teamQueue' = [teamQueue EXCEPT ![t] = Tail(teamQueue[t])]
      /\ deliveries' = [deliveries EXCEPT ![w] = Append(deliveries[w], h)]
      /\ UNCHANGED <<inHand, jobs, results, received, refused, up, cancelled>>
  BY PoolAssumption DEF Deliver, TypeOK, loopVars
<1>2. h \in Messages /\ Range(teamQueue[t]) = {h} \cup Range(Tail(teamQueue[t]))
  BY <1>1, RangeTail
<1> HIDE DEF t, h
<1>3. Range(Append(deliveries[w], h)) = Range(deliveries[w]) \cup {h}
  BY <1>1, <1>2, RangeAppend
<1>4. /\ teamQueue'[t] = Tail(teamQueue[t]) /\ deliveries'[w] = Append(deliveries[w], h)
      /\ \A u \in Teams \ {t} : teamQueue'[u] = teamQueue[u]
      /\ \A v \in Workers \ {w} : deliveries'[v] = deliveries[v]
  BY <1>1 DEF TypeOK
<1>5. /\ Range(teamQueue[t]) = Range(teamQueue'[t]) \cup {h}
      /\ Range(deliveries'[w]) = Range(deliveries[w]) \cup {h}
  BY <1>2, <1>3, <1>4
<1>6. \E g \in Messages : /\ Range(teamQueue[t]) = Range(teamQueue'[t]) \cup {g}
                        /\ Range(deliveries'[w]) = Range(deliveries[w]) \cup {g}
  BY <1>2, <1>5
<1> QED BY <1>1, <1>4, <1>6 DEF t

\* The loop takes an event from its deliveries in hand, and drops what is no
\* event.
LEMMA RecvDeliveryRanges ==
  ASSUME TypeOK, NEW w \in Workers, RecvDelivery(w)
  PROVE  /\ \/ /\ Range(deliveries[w]) = {inHand'[w]} \cup Range(deliveries'[w])
               /\ inHand'[w] \in Events
               /\ \A v \in Workers \ {w} : inHand'[v] = inHand[v]
            \/ /\ \E m \in Malformed : Range(deliveries[w]) = {m} \cup Range(deliveries'[w])
               /\ inHand' = inHand
         /\ \A v \in Workers \ {w} : deliveries'[v] = deliveries[v]
         /\ inHand[w] = NoEvent
         /\ UNCHANGED <<teamQueue, jobs, results, received, refused, up, cancelled>>
<1>1. /\ deliveries[w] \in Seq(Messages) /\ deliveries[w] # <<>> /\ inHand[w] = NoEvent
      /\ deliveries' = [deliveries EXCEPT ![w] = Tail(deliveries[w])]
      /\ UNCHANGED <<teamQueue, jobs, results, received, refused, up, cancelled>>
  BY DEF RecvDelivery, TypeOK
<1>2. /\ deliveries'[w] = Tail(deliveries[w])
      /\ \A v \in Workers \ {w} : deliveries'[v] = deliveries[v]
  BY <1>1 DEF TypeOK
<1>3. /\ Range(deliveries[w]) = {Head(deliveries[w])} \cup Range(deliveries'[w])
      /\ Head(deliveries[w]) \in Messages
  BY <1>1, <1>2, RangeTail
<1>4. CASE Head(deliveries[w]) \in Malformed
  <2>1. inHand' = inHand
    BY <1>4 DEF RecvDelivery
  <2> QED BY <1>1, <1>2, <1>3, <1>4, <2>1
<1>5. CASE Head(deliveries[w]) \notin Malformed
  <2>1. inHand' = [inHand EXCEPT ![w] = Head(deliveries[w])]
    BY <1>5 DEF RecvDelivery
  <2>2. inHand'[w] = Head(deliveries[w]) /\ \A v \in Workers \ {w} : inHand'[v] = inHand[v]
    BY <2>1 DEF TypeOK
  <2>3. Head(deliveries[w]) \in Events
    BY <1>3, <1>5 DEF Messages
  <2> QED BY <1>1, <1>2, <1>3, <2>2, <2>3
<1> QED BY <1>4, <1>5

\* A consumer that ends may drop deliveries of its worker, which is at risk.
LEMMA DroppedRanges ==
  ASSUME TypeOK, NEW w \in Workers, RecvDone(w) \/ RecvClosed(w) \/ ConsumerCloses(w)
  PROVE  /\ \A v \in Workers : Range(deliveries'[v]) \subseteq Range(deliveries[v])
         /\ \A v \in Workers : \A e \in Range(deliveries[v]) \ Range(deliveries'[v]) :
              v = w /\ (Cancelled(w) \/ ~up)
         /\ UNCHANGED <<teamQueue, inHand, jobs, results, received, refused, up, cancelled>>
<1>0. UNCHANGED <<teamQueue, inHand, jobs, results, received, refused, up, cancelled>>
  BY DEF RecvDone, RecvClosed, Return, ConsumerCloses, loopVars
<1>1. deliveries[w] \in Seq(Messages) /\ Range(<<>>) = {}
  BY DEF TypeOK, Range
<1>2. CASE RecvDone(w)
  <2>1. deliveries'[w] = <<>> /\ Cancelled(w) /\ \A v \in Workers \ {w} : deliveries'[v] = deliveries[v]
    BY <1>2 DEF RecvDone, Return, TypeOK
  <2> QED BY <1>0, <1>1, <2>1
<1>3. CASE RecvClosed(w)
  <2>1. deliveries'[w] = <<>> /\ deliveries[w] = <<>> /\ \A v \in Workers \ {w} : deliveries'[v] = deliveries[v]
    BY <1>3 DEF RecvClosed, Return, TypeOK
  <2> QED BY <1>0, <1>1, <2>1
<1>4. CASE ConsumerCloses(w)
  <2>1. PICK n \in 0..Len(deliveries[w]) :
          deliveries' = [deliveries EXCEPT ![w] = SubSeq(deliveries[w], 1, n)]
    BY <1>4 DEF ConsumerCloses
  <2>2. /\ deliveries'[w] = SubSeq(deliveries[w], 1, n)
        /\ \A v \in Workers \ {w} : deliveries'[v] = deliveries[v]
    BY <2>1 DEF TypeOK
  <2>3. Cancelled(w) \/ ~up
    BY <1>4 DEF ConsumerCloses
  <2> QED BY <1>0, <1>1, <2>2, <2>3, RangePrefix
<1> QED BY <1>2, <1>3, <1>4

\* Nobody hands an event to another team.
LEMMA RightTeamStep ==
  ASSUME TypeOK, RightTeam, [Next]_vars
  PROVE  RightTeam'
<1> USE DEF RightTeam
<1>1. ASSUME UNCHANGED <<teamQueue, deliveries, inHand>>,
             \A j \in jobs' : Team(j.ev) = TeamOfWorker[j.worker]
      PROVE  RightTeam'
  BY <1>1
<1>2. CASE Tick
  <2>1. jobs' = {Aged(j) : j \in jobs} /\ jobs \subseteq Job
        /\ UNCHANGED <<teamQueue, deliveries, inHand>>
    BY <1>2 DEF Tick, brokerVars, loopVars, TypeOK
  <2> QED BY <1>1, <2>1, AgedTyped
<1>3. ASSUME NEW w \in Workers, WorkerStep(w) PROVE RightTeam'
  <2>0. TeamOfWorker[w] \in Teams
    BY PoolAssumption
  <2>1. CASE Start(w) \/ RecvIdle(w) \/ Toggler(w)
    BY <1>1, <2>1 DEF Start, RecvIdle, Toggler, TopOfLoop, BeginWork, EndWork,
                      BeginIdle, EndIdle, SendPhase, EndPhase, StopWaiting, brokerVars, loopVars
  <2>2. CASE RecvDone(w) \/ RecvClosed(w) \/ ConsumerCloses(w)
    BY <2>2, DroppedRanges
  <2>3. CASE RecvDelivery(w)
    <3>1. \A x \in Events : x \notin Malformed
      BY EventIsEvent
    <3> QED BY <2>3, <3>1, RecvDeliveryRanges
  <2>4. ASSUME AcceptEvent(w) \/ ReportExpired(w) \/ Republish(w)
        PROVE  /\ inHand[w] \in Events /\ Team(inHand[w]) = TeamOfWorker[w]
               /\ deliveries' = deliveries
               /\ \A v \in Workers : inHand'[v] # NoEvent => inHand'[v] = inHand[v]
    BY <2>4 DEF AcceptEvent, ReportExpired, Republish, BackToSelect, TypeOK, brokerVars
  <2>5. CASE AcceptEvent(w)
    <3>1. teamQueue' = teamQueue /\ jobs' = jobs \cup {NewJob(w)}
      BY <2>5 DEF AcceptEvent, brokerVars
    <3>2. Team(NewJob(w).ev) = TeamOfWorker[NewJob(w).worker]
      BY <2>4, <2>5 DEF NewJob
    <3> QED BY <2>4, <2>5, <3>1, <3>2
  <2>6. CASE ReportExpired(w)
    <3>1. teamQueue' = teamQueue /\ jobs' = jobs
      BY <2>6 DEF ReportExpired
    <3> QED BY <2>4, <2>6, <3>1
  <2>7. CASE Republish(w)
    <3>1. PublishToTeam(TeamOfWorker[w], inHand[w]) /\ jobs' = jobs
      BY <2>7 DEF Republish
    <3>4. Queued(TeamOfWorker[w], inHand[w]) /\ inHand[w] \in Messages
      BY <2>4, <2>7, <3>1, PublishedToTeam, EventIsEvent DEF Queued
    <3>2. \A u \in Teams : \A x \in Range(teamQueue'[u]) :
            x \in Range(teamQueue[u]) \/ (u = TeamOfWorker[w] /\ x = inHand[w])
      BY <2>0, <3>4, TeamRanges
    <3>3. \A u \in Teams : \A x \in Range(teamQueue'[u]) \ Malformed : Team(x) = u
      BY <2>4, <2>7, <3>2
    <3> QED BY <2>4, <2>7, <3>1, <3>3
  <2>8. CASE Deliver(w)
    BY <2>8, DeliverRanges
  <2> QED BY <1>3, <2>1, <2>2, <2>3, <2>5, <2>6, <2>7, <2>8 DEF WorkerStep, MainLoop
<1>4. ASSUME NEW j \in jobs, JobStep(j) PROVE RightTeam'
  <2>1. UNCHANGED <<teamQueue, deliveries, inHand>>
    BY <1>4 DEF JobStep, FinishJob, AbortJob, PublishJob, brokerVars, loopVars
  <2>2. \A k \in jobs' : k \in jobs \/ k = Judged(j)
    BY <1>4 DEF JobStep, FinishJob, AbortJob, PublishJob
  <2>3. Judged(j).ev = j.ev /\ Judged(j).worker = j.worker
    BY JudgedTyped DEF TypeOK
  <2> QED BY <1>1, <2>1, <2>2, <2>3
<1>5. ASSUME NEW d \in Events, RouteEvent(d) PROVE RightTeam'
  <2>1. PublishToTeam(Team(d), d) /\ Team(d) \in Teams /\ UNCHANGED <<deliveries, inHand, jobs>>
    BY <1>5, EventHasTeam DEF RouteEvent, loopVars
  <2>4. Queued(Team(d), d) /\ d \in Messages
    BY <2>1, PublishedToTeam, EventIsEvent DEF Queued
  <2>2. \A u \in Teams : \A x \in Range(teamQueue'[u]) :
          x \in Range(teamQueue[u]) \/ (u = Team(d) /\ x = d)
    BY <2>1, <2>4, TeamRanges
  <2>3. \A u \in Teams : \A x \in Range(teamQueue'[u]) \ Malformed : Team(x) = u
    BY <2>2
  <2> QED BY <2>1, <2>3
<1>6. CASE Disconnect \/ UNCHANGED vars \/ \E t \in Teams : ShutdownTeam(t)
  BY <1>1, <1>6 DEF Disconnect, ShutdownTeam, brokerVars, loopVars, vars
<1>7. ASSUME NEW t \in Teams, NEW m \in Malformed, ForeignMessage(t, m) PROVE RightTeam'
  <2>1. Queued(t, m) /\ m \in Messages /\ UNCHANGED <<deliveries, inHand, jobs>>
    BY <1>7 DEF ForeignMessage, Queued, Messages, loopVars
  <2>2. \A u \in Teams : \A x \in Range(teamQueue'[u]) :
          x \in Range(teamQueue[u]) \/ (u = t /\ x = m)
    BY <2>1, TeamRanges
  <2>3. \A u \in Teams : \A x \in Range(teamQueue'[u]) \ Malformed : Team(x) = u
    BY <2>2
  <2> QED BY <2>1, <2>3
<1> QED BY <1>2, <1>3, <1>4, <1>5, <1>6, <1>7 DEF Next

-----------------------------------------------------------------------------
(* The refinement of EventLedger *)

\* The inductive invariant of the refinement: an event that is held is not
\* reported, has been received, and is at risk when its own worker is.
LedgerInv == TypeOK /\ OnlyReceived /\ SinglePlace /\ RightTeam

\* A held event is in a place, and the place is not the results.
LEMMA HeldPlace ==
  ASSUME TypeOK, NEW e \in Events, Held(e)
  PROVE  \E p \in Places(e) : \A i : p # <<"result", i>>
<1>1. CASE \E t \in Teams : e \in Range(teamQueue[t])
  <2>1. PICK t \in Teams : \E i \in DOMAIN teamQueue[t] : teamQueue[t][i] = e
    BY <1>1 DEF Range
  <2> PICK i \in DOMAIN teamQueue[t] : teamQueue[t][i] = e
    BY <2>1
  <2>2. <<"queue", t, i>> \in Places(e) /\ \A k : <<"queue", t, i>> # <<"result", k>>
    BY <2>1, PlacesNow
  <2> QED BY <2>2
<1>2. CASE \E w \in Workers : e \in Range(deliveries[w])
  <2>1. PICK w \in Workers : \E i \in DOMAIN deliveries[w] : deliveries[w][i] = e
    BY <1>2 DEF Range
  <2> PICK i \in DOMAIN deliveries[w] : deliveries[w][i] = e
    BY <2>1
  <2>2. <<"deliveries", w, i>> \in Places(e) /\ \A k : <<"deliveries", w, i>> # <<"result", k>>
    BY <2>1, PlacesNow
  <2> QED BY <2>2
<1>3. ASSUME NEW w \in Workers, inHand[w] = e
      PROVE  \E p \in Places(e) : \A i : p # <<"result", i>>
  <2>1. <<"hand", w>> \in Places(e) /\ \A k : <<"hand", w>> # <<"result", k>>
    BY <1>3, PlacesNow
  <2> QED BY <2>1
<1>4. ASSUME NEW j \in jobs, j.ev = e
      PROVE  \E p \in Places(e) : \A i : p # <<"result", i>>
  <2>1. <<"job", j>> \in Places(e) /\ \A k : <<"job", j>> # <<"result", k>>
    BY <1>4, PlacesNow
  <2> QED BY <2>1
<1> QED BY <1>1, <1>2, <1>3, <1>4 DEF Held

\* An event has been received when it is held, and is not reported yet.
LEMMA HeldOrReported ==
  ASSUME LedgerInv, NEW e \in Events
  PROVE  /\ Held(e) => e \in received /\ ~Reported(e)
         /\ Reported(e) => e \in received
<1>1. ASSUME Held(e) PROVE e \in received
  <2>1. Places(e) # {}
    BY <1>1, HeldPlace DEF LedgerInv
  <2> QED BY <2>1, UnseenNowhere DEF LedgerInv
<1>2. ASSUME Held(e), NEW i \in DOMAIN results, results[i].ev = e PROVE FALSE
  <2>1. <<"result", i>> \in Places(e)
    BY <1>2, PlacesNow
  <2>2. PICK p \in Places(e) : p # <<"result", i>>
    BY <1>2, HeldPlace DEF LedgerInv
  <2> QED BY <2>1, <2>2 DEF LedgerInv, SinglePlace
<1>3. ASSUME Reported(e) PROVE e \in received
  BY <1>3 DEF Reported, LedgerInv, OnlyReceived
<1> QED BY <1>1, <1>2, <1>3 DEF Reported

\* The fate of a reported event is what its only result says.
LEMMA FateReported ==
  ASSUME SinglePlace, NEW e \in Events, NEW i \in DOMAIN results, results[i].ev = e
  PROVE  Fate(e) = results[i].status
<1> DEFINE k == CHOOSE k \in DOMAIN results : results[k].ev = e
<1>1. k \in DOMAIN results /\ results[k].ev = e
  OBVIOUS
<1> HIDE DEF k
<1>2. <<"result", i>> \in Places(e) /\ <<"result", k>> \in Places(e)
  BY <1>1, PlacesNow
<1>3. i = k
  BY <1>2 DEF SinglePlace
<1>4. Fate(e) = results[k].status
  BY DEF Fate, Reported, k
<1> QED BY <1>3, <1>4

\* The same of the state after a step.
LEMMA FateReportedNext ==
  ASSUME SinglePlace', NEW e \in Events, NEW i \in DOMAIN results', results'[i].ev = e
  PROVE  Fate(e)' = results'[i].status
<1> DEFINE k == CHOOSE k \in DOMAIN results' : results'[k].ev = e
<1>1. k \in DOMAIN results' /\ results'[k].ev = e
  OBVIOUS
<1> HIDE DEF k
<1>2. <<"result", i>> \in Places(e)' /\ <<"result", k>> \in Places(e)'
  BY <1>1, PlacesNext
<1>3. i = k
  BY <1>2 DEF SinglePlace
<1>4. Fate(e)' = results'[k].status
  BY DEF Fate, Reported, k
<1> QED BY <1>3, <1>4

\* The fate of any other event.
LEMMA FateUnreported ==
  ASSUME NEW e, ~Reported(e)
  PROVE  Fate(e) = IF e \notin received THEN "unseen" ELSE IF Held(e) THEN "open" ELSE "lost"
BY DEF Fate

\* The same of the state after a step.
LEMMA FateUnreportedNext ==
  ASSUME NEW e, ~Reported(e)'
  PROVE  Fate(e)' = IF e \notin received' THEN "unseen" ELSE IF Held(e)' THEN "open" ELSE "lost"
BY DEF Fate

fate == [e \in Events |-> Fate(e)]
atRisk == {e \in Events : ~up \/ Team(e) \in cancelled \/ e \in refused}

\* A step that reports nothing and receives nothing can only lose events,
\* and loses only those at risk: it is a step of the ledger.
LEMMA LosingStep ==
  ASSUME LedgerInv, UNCHANGED <<results, received, up, cancelled>>, refused \subseteq refused',
         \A e \in Events : Held(e)' => Held(e),
         \A e \in Events : Held(e) /\ ~Held(e)' => e \in atRisk'
  PROVE  Ledger!Next
<1> DEFINE S == {e \in Events : Held(e) /\ ~Held(e)'}
           X == refused' \cap Events
<1>1. S \in SUBSET Events /\ S \subseteq atRisk'
  OBVIOUS
<1>7. X \in SUBSET Events /\ atRisk' = atRisk \cup X
  BY DEF atRisk
<1>2. \A e \in S : Fate(e) = "open"
  BY HeldOrReported, FateUnreported
<1>3. ASSUME NEW e \in Events
      PROVE  Fate(e)' = IF e \in S THEN "lost" ELSE Fate(e)
  <2>1. CASE Reported(e)
    <3>1. e \notin S
      BY <2>1, HeldOrReported
    <3>2. Fate(e)' = Fate(e)
      BY <2>1 DEF Fate, Reported
    <3> QED BY <3>1, <3>2
  <2>2. CASE ~Reported(e)
    <3>1. ~Reported(e)'
      BY <2>2 DEF Reported
    <3>2. Held(e) => e \in received
      BY HeldOrReported
    <3> QED BY <2>2, <3>1, <3>2, FateUnreported, FateUnreportedNext
  <2> QED BY <2>1, <2>2
<1> HIDE DEF S, X
<1>4. fate' = [e \in Events |-> IF e \in S THEN "lost" ELSE fate[e]]
  BY <1>1, <1>3 DEF fate
<1>5. \A e \in S : fate[e] \in {"unseen", "open"}
  BY <1>1, <1>2 DEF fate
<1>6. PICK T, Y \in SUBSET Events : T = S /\ Y = X
  BY <1>1, <1>7
<1>8. Ledger!Lose(T, Y)
  BY <1>1, <1>4, <1>5, <1>6, <1>7 DEF Ledger!Lose, fate, atRisk
<1> QED BY <1>8 DEF Ledger!Next

\* A step that publishes the result of a held event closes it, or loses it
\* when the publish fails.
LEMMA ReportingStep ==
  ASSUME LedgerInv, SinglePlace', NEW r \in Result, PublishResult(r), Held(r.ev),
         UNCHANGED <<received, up, cancelled>>,
         \A e \in Events : Held(e)' => Held(e),
         \A e \in Events : Held(e) /\ ~Held(e)' => e = r.ev
  PROVE  Ledger!Next
<1>1. r.ev \in Events /\ r.status \in {"Completed", "Expired"} /\ results \in Seq(Result)
  BY DEF Result, LedgerInv, TypeOK
<1>2. CASE results' = results /\ (~up \/ r.ev \in refused')
  <2>1. r.ev \in atRisk' /\ refused \subseteq refused'
    BY <1>1, <1>2, PublishedResult DEF atRisk
  <2> QED BY <1>2, <2>1, LosingStep
<1>3. CASE results' = Append(results, r) /\ refused' = refused
  <2>1. results' = Append(results, r)
    BY <1>3
  <2>2. /\ \A i : i \in DOMAIN results' <=> i \in DOMAIN results \/ i = Len(results) + 1
        /\ \A i \in DOMAIN results : results'[i] = results[i]
        /\ results'[Len(results) + 1] = r
    BY <1>1, <2>1, AppendElements
  <2>3. Fate(r.ev) = "open"
    BY <1>1, HeldOrReported, FateUnreported
  <2>4. Fate(r.ev)' = r.status
    BY <1>1, <2>2, FateReportedNext
  <2>5. ASSUME NEW e \in Events, e # r.ev PROVE Fate(e)' = Fate(e)
    <3>1. CASE Reported(e)
      <4>1. PICK i \in DOMAIN results : results[i].ev = e
        BY <3>1 DEF Reported
      <4>2. i \in DOMAIN results' /\ results'[i] = results[i]
        BY <2>2
      <4>3. Fate(e) = results[i].status
        BY <4>1, FateReported DEF LedgerInv
      <4>4. Fate(e)' = results'[i].status
        BY <4>1, <4>2, FateReportedNext
      <4> QED BY <4>2, <4>3, <4>4
    <3>2. CASE ~Reported(e)
      <4>1. ~Reported(e)'
        BY <2>2, <2>5, <3>2 DEF Reported
      <4>2. Held(e)' <=> Held(e)
        BY <2>5
      <4> QED BY <3>2, <4>1, <4>2, FateUnreported, FateUnreportedNext
    <3> QED BY <3>1, <3>2
  <2>6. fate' = [fate EXCEPT ![r.ev] = r.status]
    BY <1>1, <2>4, <2>5 DEF fate
  <2>7. fate[r.ev] = "open"
    BY <1>1, <2>3 DEF fate
  <2>8. atRisk' = atRisk
    BY <1>3 DEF atRisk
  <2>9. Ledger!Close(r.ev, r.status)
    BY <2>6, <2>7, <2>8 DEF Ledger!Close, fate, atRisk
  <2> QED BY <1>1, <2>9 DEF Ledger!Next
<1> QED BY <1>2, <1>3, PublishedResult

\* An event is received as it is routed, or lost when the publish fails.
LEMMA RoutingStep ==
  ASSUME LedgerInv, NEW d \in Events, RouteEvent(d)
  PROVE  Ledger!Next
<1>1. /\ UNCHANGED <<up, cancelled, deliveries, inHand, jobs, results>>
      /\ PublishToTeam(Team(d), d) /\ d \notin received /\ Team(d) \in Teams
      /\ received' = received \cup {d} /\ TypeOK
  BY EventHasTeam DEF RouteEvent, SetReceived, loopVars, LedgerInv
<1>2. Queued(Team(d), d) /\ d \in Messages
  BY <1>1, PublishedToTeam, EventIsEvent DEF Queued
<1>3. ~Reported(d) /\ ~Held(d) /\ Fate(d) = "unseen"
  BY <1>1, HeldOrReported, FateUnreported
<1>4. \A e \in Events : Reported(e)' <=> Reported(e)
  BY <1>1 DEF Reported
<1>5. \A e \in Events \ {d} : Held(e)' <=> Held(e)
  <2>1. \A u \in Teams : \A e \in Events \ {d} :
          e \in Range(teamQueue'[u]) <=> e \in Range(teamQueue[u])
    <3>1. /\ \/ Range(teamQueue'[Team(d)]) = Range(teamQueue[Team(d)]) \cup {d}
             \/ teamQueue' = teamQueue
          /\ \A u \in Teams \ {Team(d)} : teamQueue'[u] = teamQueue[u]
      BY <1>1, <1>2, TeamRanges
    <3> QED BY <3>1
  <2> QED BY <1>1, <2>1 DEF Held
<1>6. \A e \in Events \ {d} : Fate(e)' = Fate(e)
  <2> SUFFICES ASSUME NEW e \in Events \ {d} PROVE Fate(e)' = Fate(e)
    OBVIOUS
  <2>1. CASE Reported(e)
    BY <1>1, <2>1 DEF Fate, Reported
  <2>2. CASE ~Reported(e)
    BY <1>1, <1>4, <1>5, <2>2, FateUnreported, FateUnreportedNext
  <2> QED BY <2>1, <2>2
<1>7. CASE teamQueue' = [teamQueue EXCEPT ![Team(d)] = Append(@, d)] /\ refused' = refused
  <2>1. Held(d)'
    <3>1. teamQueue'[Team(d)] = Append(teamQueue[Team(d)], d) /\ teamQueue[Team(d)] \in Seq(Messages)
      BY <1>1, <1>7 DEF TypeOK
    <3>2. d \in Range(teamQueue'[Team(d)])
      BY <1>2, <3>1, RangeAppend
    <3> QED BY <1>1, <3>2 DEF Held
  <2>2. Fate(d)' = "open"
    BY <1>1, <1>3, <1>4, <2>1, FateUnreportedNext
  <2>3. fate' = [fate EXCEPT ![d] = "open"] /\ fate[d] = "unseen"
    BY <1>3, <1>6, <2>2 DEF fate
  <2>5. atRisk' = atRisk
    BY <1>1, <1>7 DEF atRisk
  <2>4. Ledger!Receive(d)
    BY <2>3, <2>5 DEF Ledger!Receive, fate, atRisk
  <2> QED BY <2>4 DEF Ledger!Next
<1>8. CASE teamQueue' = teamQueue /\ (~up \/ d \in refused')
  <2>1. ~Held(d)'
    BY <1>1, <1>3, <1>8 DEF Held
  <2>2. Fate(d)' = "lost"
    BY <1>1, <1>3, <1>4, <2>1, FateUnreportedNext
  <2>3. /\ fate' = [e \in Events |-> IF e \in {d} THEN "lost" ELSE fate[e]]
        /\ fate[d] = "unseen"
    BY <1>3, <1>6, <2>2 DEF fate
  <2> DEFINE X == refused' \cap Events
  <2>4. X \in SUBSET Events /\ atRisk' = atRisk \cup X
    BY <1>1, PublishedToTeam DEF atRisk
  <2>5. {d} \subseteq atRisk' /\ {d} \in SUBSET Events
    BY <1>1, <1>8 DEF atRisk
  <2> HIDE DEF X
  <2>6. PICK Y \in SUBSET Events : Y = X
    BY <2>4
  <2>7. Ledger!Lose({d}, Y)
    BY <2>3, <2>4, <2>5, <2>6 DEF Ledger!Lose, fate, atRisk
  <2> QED BY <2>5, <2>7 DEF Ledger!Next
<1> QED BY <1>1, <1>7, <1>8, PublishedToTeam

\* A disturbance puts events at risk, and changes the fate of none.
LEMMA ExposingStep ==
  ASSUME NEW S \in SUBSET Events, atRisk' = atRisk \cup S,
         UNCHANGED <<teamQueue, deliveries, inHand, jobs, results, received>>
  PROVE  Ledger!Next
<1>1. \A e : (Held(e)' <=> Held(e)) /\ (Reported(e)' <=> Reported(e))
  BY DEF Held, Reported
<1>2. \A e : Fate(e)' = Fate(e)
  BY <1>1 DEF Fate
<1>3. fate' = fate
  BY <1>2 DEF fate
<1>4. Ledger!Expose(S)
  BY <1>3 DEF Ledger!Expose, fate, atRisk
<1> QED BY <1>4 DEF Ledger!Next

\* Every step of the main loop, of the toggler and of the broker is a step of
\* the ledger.
LEMMA WorkerLedgerStep ==
  ASSUME LedgerInv, SinglePlace', NEW w \in Workers, WorkerStep(w)
  PROVE  Ledger!Next
<1>1. TypeOK /\ RightTeam /\ TeamOfWorker[w] \in Teams
  BY PoolAssumption DEF LedgerInv
<1>2. CASE Start(w) \/ RecvIdle(w) \/ Toggler(w)
  <2>1. UNCHANGED <<up, cancelled, received, refused, teamQueue, deliveries, inHand, jobs, results>>
    BY <1>2 DEF Start, RecvIdle, Toggler, TopOfLoop, BeginWork, EndWork,
                BeginIdle, EndIdle, SendPhase, EndPhase, StopWaiting, brokerVars, loopVars
  <2>2. \A e \in Events : Held(e)' <=> Held(e)
    BY <2>1 DEF Held
  <2> QED BY <2>1, <2>2, LosingStep
<1>3. CASE RecvDone(w) \/ RecvClosed(w) \/ ConsumerCloses(w)
  <2>1. /\ \A v \in Workers : Range(deliveries'[v]) \subseteq Range(deliveries[v])
        /\ \A v \in Workers : \A e \in Range(deliveries[v]) \ Range(deliveries'[v]) :
             v = w /\ (Cancelled(w) \/ ~up)
        /\ UNCHANGED <<teamQueue, inHand, jobs, results, received, refused, up, cancelled>>
    BY <1>1, <1>3, DroppedRanges
  <2>2. \A e \in Events : Held(e)' => Held(e)
    BY <2>1 DEF Held
  <2>3. \A e \in Events : Held(e) /\ ~Held(e)' => e \in Range(deliveries[w]) \ Range(deliveries'[w])
    BY <2>1 DEF Held
  <2>4. \A e \in Events : Held(e) /\ ~Held(e)' => e \in atRisk'
    BY <1>1, <2>1, <2>3, EventIsEvent DEF atRisk, RightTeam, Cancelled
  <2> QED BY <2>1, <2>2, <2>4, LosingStep
<1>4. CASE RecvDelivery(w)
  <2>1. /\ \/ /\ Range(deliveries[w]) = {inHand'[w]} \cup Range(deliveries'[w])
              /\ inHand'[w] \in Events
              /\ \A v \in Workers \ {w} : inHand'[v] = inHand[v]
           \/ /\ \E m \in Malformed : Range(deliveries[w]) = {m} \cup Range(deliveries'[w])
              /\ inHand' = inHand
        /\ \A v \in Workers \ {w} : deliveries'[v] = deliveries[v]
        /\ inHand[w] = NoEvent
        /\ UNCHANGED <<teamQueue, jobs, results, received, refused, up, cancelled>>
    BY <1>1, <1>4, RecvDeliveryRanges
  <2>2. \A e \in Events : inHand[w] # e /\ e \notin Malformed
    BY <2>1, PoolAssumption
  <2>3. \A e \in Events :
          /\ e \in Range(deliveries[w]) <=> e \in Range(deliveries'[w]) \/ e = inHand'[w]
          /\ \A v \in Workers \ {w} : inHand'[v] = inHand[v]
    BY <2>1, <2>2
  <2>4. \A e \in Events : Held(e)' <=> Held(e)
    BY <2>1, <2>2, <2>3 DEF Held
  <2> QED BY <2>1, <2>4, LosingStep
<1>5. CASE Deliver(w)
  <2> DEFINE t == TeamOfWorker[w]
  <2>1. /\ t \in Teams
        /\ \A u \in Teams \ {t} : teamQueue'[u] = teamQueue[u]
        /\ \A v \in Workers \ {w} : deliveries'[v] = deliveries[v]
        /\ \E h \in Messages : /\ Range(teamQueue[t]) = Range(teamQueue'[t]) \cup {h}
                               /\ Range(deliveries'[w]) = Range(deliveries[w]) \cup {h}
        /\ UNCHANGED <<inHand, jobs, results, received, refused, up, cancelled>>
    BY <1>1, <1>5, DeliverRanges
  <2>2. \A e \in Events : Held(e)' <=> Held(e)
    BY <2>1 DEF Held
  <2> QED BY <2>1, <2>2, LosingStep
<1>6. ASSUME AcceptEvent(w) \/ ReportExpired(w) \/ Republish(w)
      PROVE  /\ inHand[w] \in Events /\ Team(inHand[w]) = TeamOfWorker[w] /\ Held(inHand[w])
             /\ UNCHANGED <<deliveries, received, up, cancelled>>
             /\ \A e \in Events : \A v \in Workers : inHand'[v] = e => inHand[v] = e
             /\ \A e \in Events : \A v \in Workers : inHand[v] = e => inHand'[v] = e \/ e = inHand[w]
  <2>1. inHand[w] \in Events /\ Team(inHand[w]) = TeamOfWorker[w]
    BY <1>1, <1>6 DEF AcceptEvent, ReportExpired, Republish, TypeOK, RightTeam
  <2>2. BackToSelect(w) /\ UNCHANGED <<deliveries, received, up, cancelled>>
    BY <1>6 DEF AcceptEvent, ReportExpired, Republish, brokerVars
  <2>3. \A e \in Events : \A v \in Workers : inHand[v] = e => inHand'[v] = e \/ e = inHand[w]
    BY <1>1, <2>2 DEF BackToSelect, TypeOK
  <2>4. Held(inHand[w])
    BY DEF Held
  <2> QED BY <1>1, <2>1, <2>2, <2>3, <2>4, HandEmptied
<1>7. CASE AcceptEvent(w)
  <2>1. UNCHANGED <<teamQueue, results, refused>> /\ jobs' = jobs \cup {NewJob(w)}
    BY <1>7 DEF AcceptEvent, brokerVars
  <2>2. NewJob(w).ev = inHand[w]
    BY DEF NewJob
  <2>3. \A e \in Events : (\E j \in jobs' : j.ev = e) <=> (\E j \in jobs : j.ev = e) \/ e = inHand[w]
    BY <2>1, <2>2
  <2>4. \A e \in Events : Held(e)' <=> Held(e)
    BY <1>6, <1>7, <2>1, <2>3 DEF Held
  <2> QED BY <1>6, <1>7, <2>1, <2>4, LosingStep
<1>8. CASE ReportExpired(w)
  <2> DEFINE r == [ev |-> inHand[w], status |-> "Expired", slack |-> -1]
  <2>1. UNCHANGED <<teamQueue, jobs>> /\ PublishResult(r)
    BY <1>8 DEF ReportExpired
  <2>2. r \in Result /\ r.ev = inHand[w]
    BY <1>6, <1>8, DeadlinesAssumption DEF Result, Priorities
  <2> HIDE DEF r
  <2>3. \A e \in Events : Held(e)' => Held(e)
    BY <1>6, <1>8, <2>1 DEF Held
  <2>4. \A e \in Events : Held(e) /\ ~Held(e)' => e = r.ev
    BY <1>6, <1>8, <2>1, <2>2 DEF Held
  <2> QED BY <1>6, <1>8, <2>1, <2>2, <2>3, <2>4, ReportingStep
<1>9. CASE Republish(w)
  <2> DEFINE t == TeamOfWorker[w]
  <2>0. PICK h \in Events : h = inHand[w]
    BY <1>6, <1>9
  <2>1. UNCHANGED <<results, jobs>> /\ PublishToTeam(t, h) /\ t \in Teams
    BY <1>1, <1>9, <2>0 DEF Republish
  <2>2. /\ Queued(t, h) /\ h \in Messages /\ refused \subseteq refused'
        /\ \/ teamQueue' = [teamQueue EXCEPT ![t] = Append(@, h)]
           \/ teamQueue' = teamQueue /\ (~up \/ h \in refused')
    BY <1>6, <1>9, <2>0, <2>1, PublishedToTeam, EventIsEvent DEF Queued
  <2>3. \A e \in Events : Held(e)' => Held(e)
    <3>1. \A u \in Teams : \A x \in Range(teamQueue'[u]) :
            x \in Range(teamQueue[u]) \/ (u = t /\ x = h)
      BY <1>1, <2>1, <2>2, TeamRanges
    <3> HIDE DEF t
    <3> QED BY <1>6, <1>9, <2>0, <2>1, <3>1 DEF Held
  <2>4. \A u \in Teams : Range(teamQueue[u]) \subseteq Range(teamQueue'[u])
    BY <1>1, <2>1, <2>2, TeamRanges
  <2>5. \A e \in Events : Held(e) /\ ~Held(e)' => e = h
    BY <1>6, <1>9, <2>0, <2>1, <2>4 DEF Held
  <2>6. CASE teamQueue' = [teamQueue EXCEPT ![t] = Append(@, h)]
    <3>1. teamQueue'[t] = Append(teamQueue[t], h) /\ teamQueue[t] \in Seq(Messages)
      BY <1>1, <2>1, <2>6 DEF TypeOK
    <3>2. h \in Range(teamQueue'[t])
      BY <2>2, <3>1, RangeAppend
    <3>3. Held(h)'
      BY <2>1, <3>2 DEF Held
    <3>4. \A e \in Events : Held(e)' <=> Held(e)
      BY <1>6, <1>9, <2>0, <2>3, <2>5, <3>3
    <3> QED BY <1>6, <1>9, <2>0, <2>1, <2>2, <3>4, LosingStep
  <2>7. CASE ~up \/ h \in refused'
    <3>1. h \in atRisk'
      BY <1>6, <1>9, <2>0, <2>7 DEF atRisk
    <3> QED BY <1>6, <1>9, <2>0, <2>1, <2>2, <2>3, <2>5, <3>1, LosingStep
  <2> QED BY <2>2, <2>6, <2>7
<1> QED BY <1>2, <1>3, <1>4, <1>5, <1>7, <1>8, <1>9 DEF WorkerStep, MainLoop

\* So is every step of a job.
LEMMA JobLedgerStep ==
  ASSUME LedgerInv, SinglePlace', NEW j \in jobs, JobStep(j)
  PROVE  Ledger!Next
<1>1. /\ UNCHANGED <<teamQueue, deliveries, inHand, received, up, cancelled>>
      /\ TypeOK /\ j \in Job /\ j.ev \in Events /\ Team(j.ev) = TeamOfWorker[j.worker]
      /\ Held(j.ev)
  BY DEF JobStep, FinishJob, AbortJob, PublishJob, brokerVars, loopVars, LedgerInv,
         TypeOK, Job, RightTeam, Held
<1>2. CASE FinishJob(j)
  <2>1. jobs' = (jobs \ {j}) \cup {Judged(j)} /\ UNCHANGED <<results, refused>>
    BY <1>2 DEF FinishJob, brokerVars
  <2>2. Judged(j).ev = j.ev
    BY <1>1, JudgedTyped DEF TypeOK
  <2>3. \A e : (\E k \in jobs' : k.ev = e) <=> (\E k \in jobs : k.ev = e)
    BY <2>1, <2>2
  <2>4. \A e \in Events : Held(e)' <=> Held(e)
    BY <1>1, <2>3 DEF Held
  <2> QED BY <1>1, <2>1, <2>4, LosingStep
<1>3. CASE AbortJob(j)
  <2>1. jobs' = jobs \ {j} /\ UNCHANGED <<results, refused>> /\ TeamOfWorker[j.worker] \in cancelled
    BY <1>3 DEF AbortJob, brokerVars, Cancelled
  <2>2. \A e \in Events : Held(e)' => Held(e)
    BY <1>1, <2>1 DEF Held
  <2>3. \A e \in Events : Held(e) /\ ~Held(e)' => e = j.ev
    BY <1>1, <2>1 DEF Held
  <2>4. j.ev \in atRisk'
    BY <1>1, <2>1 DEF atRisk
  <2> QED BY <1>1, <2>1, <2>2, <2>3, <2>4, LosingStep
<1>4. CASE PublishJob(j)
  <2> DEFINE r == [ev |-> j.ev, status |-> j.status, slack |-> j.slack]
  <2>1. jobs' = jobs \ {j} /\ PublishResult(r) /\ j.status # "Processing"
    BY <1>4 DEF PublishJob
  <2>2. r \in Result /\ r.ev = j.ev
    BY <1>1, <2>1 DEF Result, Job
  <2> HIDE DEF r
  <2>3. \A e \in Events : Held(e)' => Held(e)
    BY <1>1, <2>1 DEF Held
  <2>4. \A e \in Events : Held(e) /\ ~Held(e)' => e = r.ev
    BY <1>1, <2>1, <2>2 DEF Held
  <2> QED BY <1>1, <2>1, <2>2, <2>3, <2>4, ReportingStep
<1> QED BY <1>2, <1>3, <1>4 DEF JobStep

\* Every step of the pools is a step of the ledger.
LEMMA LedgerStep ==
  ASSUME LedgerInv, SinglePlace', [Next]_vars
  PROVE  [Ledger!Next]_(Ledger!ledgerVars)
<1>1. CASE Tick
  <2>1. UNCHANGED <<up, cancelled, received, refused, teamQueue, deliveries, inHand, results>>
        /\ jobs' = {Aged(j) : j \in jobs} /\ jobs \subseteq Job
    BY <1>1 DEF Tick, brokerVars, loopVars, LedgerInv, TypeOK
  <2>2. \A e \in Events : (\E j \in jobs' : j.ev = e) <=> (\E j \in jobs : j.ev = e)
    BY <2>1, AgedTyped
  <2>3. \A e \in Events : Held(e)' <=> Held(e)
    BY <2>1, <2>2 DEF Held
  <2> QED BY <2>1, <2>3, LosingStep
<1>2. CASE Disconnect
  <2>1. UNCHANGED <<teamQueue, deliveries, inHand, jobs, results, received, refused>> /\ ~up'
    BY <1>2 DEF Disconnect, loopVars
  <2>2. atRisk' = atRisk \cup Events
    BY <2>1 DEF atRisk
  <2> QED BY <2>1, <2>2, ExposingStep
<1>3. ASSUME NEW t \in Teams, ShutdownTeam(t) PROVE Ledger!Next
  <2>1. UNCHANGED <<teamQueue, deliveries, inHand, jobs, results, received, refused, up>>
        /\ cancelled' = cancelled \cup {t}
    BY <1>3 DEF ShutdownTeam, brokerVars, loopVars
  <2> DEFINE S == {e \in Events : Team(e) = t}
  <2>2. atRisk' = atRisk \cup S /\ S \in SUBSET Events
    BY <2>1 DEF atRisk
  <2> HIDE DEF S
  <2> QED BY <2>1, <2>2, ExposingStep
<1>4. CASE UNCHANGED vars
  <2>1. UNCHANGED <<up, cancelled, received, refused, teamQueue, deliveries, inHand, jobs, results>>
    BY <1>4 DEF vars
  <2>2. \A e \in Events : Held(e)' <=> Held(e)
    BY <2>1 DEF Held
  <2> QED BY <2>1, <2>2, LosingStep
<1>5. ASSUME NEW t \in Teams, NEW m \in Malformed, ForeignMessage(t, m) PROVE Ledger!Next
  <2>1. /\ Queued(t, m) /\ m \in Messages /\ TypeOK
        /\ UNCHANGED <<up, cancelled, received, refused, deliveries, inHand, jobs, results>>
    BY <1>5 DEF ForeignMessage, Queued, Messages, loopVars, LedgerInv
  <2>2. /\ \/ Range(teamQueue'[t]) = Range(teamQueue[t]) \cup {m}
           \/ teamQueue' = teamQueue
        /\ \A u \in Teams \ {t} : teamQueue'[u] = teamQueue[u]
    BY <2>1, TeamRanges
  <2>3. \A u \in Teams : \A e \in Events :
          e \in Range(teamQueue'[u]) <=> e \in Range(teamQueue[u])
    BY <2>2, EventIsEvent
  <2>4. \A e \in Events : Held(e)' <=> Held(e)
    BY <2>1, <2>3 DEF Held
  <2> QED BY <2>1, <2>4, LosingStep
<1> QED BY <1>1, <1>2, <1>3, <1>4, <1>5, RoutingStep, WorkerLedgerStep, JobLedgerStep DEF Next

\* In the beginning no event has been seen and none is at risk.
LEMMA LedgerStart == Init => LedgerInv /\ Ledger!Init
<1> SUFFICES ASSUME Init PROVE LedgerInv /\ Ledger!Init
  OBVIOUS
<1>1. RightTeam
  BY DEF Init, RightTeam, Range
<1>2. LedgerInv
  BY <1>1, TypeInit, PlacesInit DEF LedgerInv
<1>3. \A e \in Events : Fate(e) = "unseen"
  <2>1. results = <<>> /\ received = {}
    BY DEF Init
  <2>2. \A e \in Events : ~Reported(e)
    BY <1>2, <2>1, HeldOrReported
  <2> QED BY <2>1, <2>2, FateUnreported
<1>4. atRisk = {}
  BY DEF Init, atRisk
<1>5. Ledger!Init
  BY <1>3, <1>4 DEF Ledger!Init, atRisk
<1> QED BY <1>2, <1>5

\* The worker pools implement the ledger: each received event gets one verdict
\* that never changes, and is lost only if its own team is shut down, its own
\* publish failed or the connection goes.
THEOREM PoolsKeepLedger == Spec => KeepsLedger
<1>1. Init => LedgerInv /\ Ledger!Init
  BY LedgerStart
<1>2. LedgerInv /\ [Next]_vars => LedgerInv'
  BY TypeStep, OnlyReceivedStep, SinglePlaceStep, RightTeamStep DEF LedgerInv
<1>3. LedgerInv /\ LedgerInv' /\ [Next]_vars => [Ledger!Next]_(Ledger!ledgerVars)
  BY LedgerStep DEF LedgerInv
<1> QED BY <1>1, <1>2, <1>3, PTL DEF Spec, KeepsLedger, Ledger!Spec
=============================================================================

---------------------------- MODULE TeamWorkers ----------------------------
(***************************************************************************)
(* The worker pools of packages internal/team and internal/worker, with    *)
(* the RabbitMQ queues they consume from and publish to.                   *)
(*                                                                         *)
(* A worker is two goroutines that share the channel idleCh (capacity 1):  *)
(* the main loop of Worker.Run, and the toggler that alternates the work   *)
(* and idle phases of the routine.  The main loop starts one more          *)
(* goroutine, a job, for every event it accepts.                           *)
(*                                                                         *)
(* Time.  There is no absolute clock: each deadline and each timer is the  *)
(* number of ticks left until it is reached, and Tick advances them all.   *)
(* An expired deadline stays at -1 and a fired timer at 0.  Nothing forces *)
(* a goroutine to run as soon as its timer fires, since the Go scheduler   *)
(* does not.                                                               *)
(***************************************************************************)
EXTENDS WeddingEvents, Integers, Sequences, FiniteSets, Functions

CONSTANTS Teams,            \* the teams set up by Manager.Setup
          Workers,          \* all workers of all teams
          TeamOfWorker,     \* Worker.Team
          DefaultRoutines,  \* ticks of each phase, by kind of routine
          ProcessingTime,   \* ticks to handle an event (3s divided by speed)
          Faults,           \* the disturbances that may happen in a behaviour
          Malformed,        \* messages in a team queue that are no JSON event
          NoEvent           \* the content of an empty hand

RoutineTypes == {"standard", "intermittent", "concentrated"}

ASSUME PoolAssumption ==
  /\ Teams \subseteq AllTeams
  /\ TeamOfWorker \in [Workers -> Teams]
  /\ DefaultRoutines \in [RoutineTypes -> [work : Nat \ {0}, idle : Nat \ {0}]]
  /\ ProcessingTime \in Nat \ {0}
  /\ Faults \subseteq {"shutdown", "disconnect", "channels"}
  /\ NoEvent \notin Events
  /\ Malformed \cap Events = {}

\* Only validated events reach the team queues, and every team has a queue.
ASSUME EventsAssumption == \A e \in Events : Validate(e) /\ Team(e) \in Teams

Messages == Events \cup Malformed

VARIABLES
  up,            \* the AMQP connection is open
  cancelled,     \* the teams whose context has been cancelled
  received,      \* the events whose ReceivedAt and Deadline are set
  ttl,           \* ticks left until the Deadline of an event, -1 once past
  teamQueue,     \* the queue team.<t> inside RabbitMQ
  subscription,  \* the state of a worker's subscription
  deliveries,    \* messages delivered to a worker that it has not read yet
  pc,            \* where the main loop of a worker is
  inHand,        \* the event the main loop is handling
  idle,          \* the local variable idle of the main loop
  idleCh,        \* the channel from the toggler to the main loop
  toggler,       \* where the toggler goroutine of a worker is
  phaseLeft,     \* ticks left in the phase the toggler is timing
  jobs,          \* the processing goroutines that have not ended
  results,       \* the queue events.results inside RabbitMQ
  refused        \* the events whose publish has failed on the open connection

clocks     == <<ttl, phaseLeft>>
brokerVars == <<up, teamQueue, subscription, deliveries, results, refused>>
loopVars   == <<pc, inHand, idle>>
togglerVars == <<toggler, phaseLeft>>
vars == <<up, cancelled, received, ttl, teamQueue, subscription, deliveries,
          pc, inHand, idle, idleCh, toggler, phaseLeft, jobs, results, refused>>

Job == [worker : Workers, ev : Events,
        status : {"Processing", "Completed", "Expired"},
        left : 0..ProcessingTime,       \* ticks until time.After fires
        slack : -1..Deadlines["Low"]]   \* ttl at CompletedAt, -1 if unset

Result == [ev : Events, status : {"Completed", "Expired"},
           slack : -1..Deadlines["Low"]]

-----------------------------------------------------------------------------
(* Events and clocks *)

MutantIsExpired(e) == ttl[e] < -1      \* grants a tick of grace

\* now.After(Deadline): at the deadline itself an event is still in time.
IsExpired(e) == ttl[e] < 0

\* The routine a team is given by the manager.
teamRoutine(t) ==
  DefaultRoutines[IF t \in {"catering", "coordinator"} THEN "concentrated"
                  ELSE IF t \in {"venue", "medical"} THEN "intermittent"
                  ELSE "standard"]

Routine(w) == teamRoutine(TeamOfWorker[w])

MutantCancelled(w) == cancelled # {}   \* one context for all teams

Cancelled(w) == TeamOfWorker[w] \in cancelled

ClockRunning == \/ \E e \in received : ttl[e] >= 0
                \/ \E w \in Workers : phaseLeft[w] > 0
                \/ \E j \in jobs : j.left > 0

Countdown(n) == IF n > 0 THEN n - 1 ELSE n

Aged(j) == [j EXCEPT !.left = Countdown(@)]

Tick ==
  /\ ClockRunning
  /\ ttl' = [e \in Events |-> IF e \in received /\ ttl[e] >= 0
                              THEN ttl[e] - 1 ELSE ttl[e]]
  /\ phaseLeft' = [w \in Workers |-> Countdown(phaseLeft[w])]
  /\ jobs' = {Aged(j) : j \in jobs}
  /\ UNCHANGED <<brokerVars, cancelled, received, loopVars, idleCh, toggler>>

-----------------------------------------------------------------------------
(* RabbitMQ, as the workers use it *)

\* A publish needs the connection and a channel of its own, of which the
\* connection has a limited number.  Workers ignore the error they get, so
\* the message is then gone.
NotPublished(e) ==
  /\ ~up \/ "channels" \in Faults
  /\ refused' = IF up THEN refused \cup {e} ELSE refused

\* Publish to the default exchange.
PublishToTeam(t, e) ==
  \/ /\ up
     /\ teamQueue' = [teamQueue EXCEPT ![t] = Append(@, e)]
     /\ UNCHANGED refused
  \/ NotPublished(e) /\ UNCHANGED teamQueue

PublishResult(r) ==
  \/ up /\ results' = Append(results, r) /\ UNCHANGED refused
  \/ NotPublished(r.ev) /\ UNCHANGED results

\* Anyone may publish to a team queue what is no event.  Bound: each such
\* message is in one place at a time.
ForeignMessage(t, m) ==
  /\ up
  /\ \A u \in Teams : m \notin Range(teamQueue[u])
  /\ \A w \in Workers : m \notin Range(deliveries[w])
  /\ teamQueue' = [teamQueue EXCEPT ![t] = Append(@, m)]
  /\ UNCHANGED <<up, cancelled, received, ttl, subscription, deliveries, results,
                 refused, loopVars, idleCh, togglerVars, jobs>>

\* The broker pushes the oldest message of a team queue to one of the open
\* consumers of the queue.  Consumers use AutoAck, so the message is no
\* longer the broker's, however long the worker takes to read it.
Deliver(w) ==
  LET t == TeamOfWorker[w] IN
  /\ up
  /\ subscription[w] = "open"
  /\ teamQueue[t] # <<>>
  /\ teamQueue' = [teamQueue EXCEPT ![t] = Tail(@)]
  /\ deliveries' = [deliveries EXCEPT ![w] = Append(@, Head(teamQueue[t]))]
  /\ UNCHANGED <<up, cancelled, received, ttl, subscription, results, refused,
                 loopVars, idleCh, togglerVars, jobs>>

\* The consumer ends: the goroutine of Subscribe cancels it when the context
\* is done, or the connection is gone.  The deliveries that the client had
\* not yet forwarded to the channel of the worker are dropped.
ConsumerCloses(w) ==
  /\ subscription[w] = "open"
  /\ Cancelled(w) \/ ~up
  /\ subscription' = [subscription EXCEPT ![w] = "closed"]
  /\ \E n \in 0..Len(deliveries[w]) :
       deliveries' = [deliveries EXCEPT ![w] = SubSeq(@, 1, n)]
  /\ UNCHANGED <<up, cancelled, received, ttl, teamQueue, results, refused,
                 loopVars, idleCh, togglerVars, jobs>>

Disconnect ==
  /\ "disconnect" \in Faults
  /\ up
  /\ up' = FALSE
  /\ UNCHANGED <<cancelled, received, ttl, teamQueue, subscription, deliveries,
                 results, refused, loopVars, idleCh, togglerVars, jobs>>

-----------------------------------------------------------------------------
(* The organizer, as the pools see it *)

SetReceived(e) ==
  /\ received' = received \cup {e}
  /\ ttl' = [ttl EXCEPT ![e] = DeadlineDuration(PriorityOf[e])]

\* The organizer stamps an event and routes it to the queue of its team.  It
\* may still hold events when the connection goes; routing them then fails.
RouteEvent(e) ==
  /\ e \notin received
  /\ SetReceived(e)
  /\ PublishToTeam(Team(e), e)
  /\ UNCHANGED <<up, cancelled, subscription, deliveries, results, loopVars,
                 idleCh, togglerVars, jobs>>

-----------------------------------------------------------------------------
(* The manager *)

\* One turn of the loop of Manager.Shutdown: the context of a team is
\* cancelled, the contexts of the others are not yet.
ShutdownTeam(t) ==
  /\ "shutdown" \in Faults
  /\ t \notin cancelled
  /\ cancelled' = cancelled \cup {t}
  /\ UNCHANGED <<brokerVars, received, ttl, loopVars, idleCh, togglerVars, jobs>>

-----------------------------------------------------------------------------
(* Worker.Run: the main loop *)

\* Subscribing needs an open connection and a channel; without them Run
\* returns an error.  Otherwise the toggler is started and the loop entered
\* with idle = false.
Start(w) ==
  /\ pc[w] = "start"
  /\ \/ /\ up
        /\ pc' = [pc EXCEPT ![w] = "select"]
        /\ subscription' = [subscription EXCEPT ![w] = "open"]
        /\ toggler' = [toggler EXCEPT ![w] = "top"]
     \/ /\ ~up \/ "channels" \in Faults
        /\ pc' = [pc EXCEPT ![w] = "returned"]
        /\ UNCHANGED <<subscription, toggler>>
  /\ UNCHANGED <<up, cancelled, received, ttl, teamQueue, deliveries, results,
                 refused, inHand, idle, idleCh, phaseLeft, jobs>>

\* Leaving Run cancels the subscription; nobody reads its deliveries again.
Return(w) ==
  /\ pc' = [pc EXCEPT ![w] = "returned"]
  /\ subscription' = [subscription EXCEPT ![w] = "closed"]
  /\ deliveries' = [deliveries EXCEPT ![w] = <<>>]
  /\ UNCHANGED <<up, cancelled, received, ttl, teamQueue, results, refused,
                 inHand, idle, idleCh, togglerVars, jobs>>

RecvDone(w) == /\ pc[w] = "select"
               /\ Cancelled(w)
               /\ Return(w)

\* Takes the closed channel for an empty delivery and waits on.
MutantRecvClosed(w) == /\ pc[w] = "select"
                       /\ subscription[w] = "closed"
                       /\ deliveries[w] = <<>>
                       /\ UNCHANGED vars

RecvClosed(w) == /\ pc[w] = "select"
                 /\ subscription[w] = "closed"
                 /\ deliveries[w] = <<>>
                 /\ Return(w)

RecvIdle(w) ==
  /\ pc[w] = "select"
  /\ idleCh[w] # <<>>
  /\ idle' = [idle EXCEPT ![w] = Head(idleCh[w])]
  /\ idleCh' = [idleCh EXCEPT ![w] = Tail(@)]
  /\ UNCHANGED <<brokerVars, cancelled, received, ttl, pc, inHand,
                 togglerVars, jobs>>

MutantNoDrain(w) == UNCHANGED <<idle, idleCh>>

\* The loop takes what is in the channel at a glance, but not what the
\* toggler sends while it handles the event.
updateIdle(w) ==
  /\ idle' = [idle EXCEPT ![w] = IF idleCh[w] = <<>> THEN @
                                 ELSE idleCh[w][Len(idleCh[w])]]
  /\ idleCh' = [idleCh EXCEPT ![w] = <<>>]

\* What is no event is dropped as soon as it has been read.
RecvDelivery(w) ==
  /\ pc[w] = "select"
  /\ deliveries[w] # <<>>
  /\ deliveries' = [deliveries EXCEPT ![w] = Tail(@)]
  /\ updateIdle(w)
  /\ IF Head(deliveries[w]) \in Malformed
     THEN UNCHANGED <<pc, inHand>>
     ELSE /\ pc' = [pc EXCEPT ![w] = "handle"]
          /\ inHand' = [inHand EXCEPT ![w] = Head(deliveries[w])]
  /\ UNCHANGED <<up, cancelled, received, ttl, teamQueue, subscription,
                 results, refused, togglerVars, jobs>>

\* The event in hand has been dealt with: back to the select.
BackToSelect(w) == /\ pc' = [pc EXCEPT ![w] = "select"]
                   /\ inHand' = [inHand EXCEPT ![w] = NoEvent]

NewJob(w) == [worker |-> w, ev |-> inHand[w], status |-> "Processing",
              left |-> ProcessingTime, slack |-> -1]

MutantAcceptEvent(w) ==     \* does not look at the flag
  /\ pc[w] = "handle"
  /\ jobs' = jobs \cup {NewJob(w)}
  /\ BackToSelect(w)
  /\ UNCHANGED <<brokerVars, cancelled, received, ttl, idle, idleCh, togglerVars>>

AcceptEvent(w) ==
  /\ pc[w] = "handle"
  /\ idle[w]
  /\ jobs' = jobs \cup {NewJob(w)}
  /\ BackToSelect(w)
  /\ UNCHANGED <<brokerVars, cancelled, received, ttl, idle, idleCh, togglerVars>>

MutantReportExpired(w) ==   \* drops a late event without a report
  /\ pc[w] = "handle"
  /\ ~idle[w]
  /\ IsExpired(inHand[w])
  /\ BackToSelect(w)
  /\ UNCHANGED <<brokerVars, cancelled, received, ttl, idle, idleCh, togglerVars, jobs>>

ReportExpired(w) ==
  /\ pc[w] = "handle"
  /\ ~idle[w]
  /\ IsExpired(inHand[w])
  /\ PublishResult([ev |-> inHand[w], status |-> "Expired", slack |-> -1])
  /\ BackToSelect(w)
  /\ UNCHANGED <<up, cancelled, received, ttl, teamQueue, subscription,
                 deliveries, idle, idleCh, togglerVars, jobs>>

MutantFallsThrough(w) ==    \* forgets the continue after republishing
  /\ pc[w] = "handle"
  /\ ~idle[w]
  /\ ~IsExpired(inHand[w])
  /\ PublishToTeam(TeamOfWorker[w], inHand[w])
  /\ jobs' = jobs \cup {NewJob(w)}
  /\ BackToSelect(w)
  /\ UNCHANGED <<up, cancelled, received, ttl, subscription, deliveries,
                 results, idle, idleCh, togglerVars>>

Republish(w) ==
  /\ pc[w] = "handle"
  /\ ~idle[w]
  /\ ~IsExpired(inHand[w])
  /\ PublishToTeam(TeamOfWorker[w], inHand[w])
  /\ BackToSelect(w)
  /\ UNCHANGED <<up, cancelled, received, ttl, subscription, deliveries,
                 results, idle, idleCh, togglerVars, jobs>>

MainLoop(w) == \/ RecvDone(w) \/ RecvClosed(w) \/ RecvIdle(w) \/ RecvDelivery(w)
               \/ AcceptEvent(w) \/ ReportExpired(w) \/ Republish(w)

-----------------------------------------------------------------------------
(* Worker.Run: the toggler *)

\* Only the two timed waits and the top of the loop look at the context: the
\* sends do not, and they block while the channel is full.
TopOfLoop(w) ==
  /\ toggler[w] = "top"
  /\ toggler' = [toggler EXCEPT ![w] = IF Cancelled(w) THEN "exited" ELSE "sendWork"]
  /\ UNCHANGED <<brokerVars, cancelled, received, clocks, loopVars, idleCh, jobs>>

MutantSendPhase(w, at, flag, next, length) ==   \* an unbounded channel
  /\ toggler[w] = at
  /\ idleCh' = [idleCh EXCEPT ![w] = Append(@, flag)]
  /\ toggler' = [toggler EXCEPT ![w] = next]
  /\ phaseLeft' = [phaseLeft EXCEPT ![w] = length]
  /\ UNCHANGED <<brokerVars, cancelled, received, ttl, loopVars, jobs>>

SendPhase(w, at, flag, next, length) ==
  /\ toggler[w] = at
  /\ Len(idleCh[w]) < 1
  /\ idleCh' = [idleCh EXCEPT ![w] = Append(@, flag)]
  /\ toggler' = [toggler EXCEPT ![w] = next]
  /\ phaseLeft' = [phaseLeft EXCEPT ![w] = length]
  /\ UNCHANGED <<brokerVars, cancelled, received, ttl, loopVars, jobs>>

BeginWork(w) == SendPhase(w, "sendWork", FALSE, "work", Routine(w).work)
BeginIdle(w) == SendPhase(w, "sendIdle", TRUE, "idle", Routine(w).idle)

\* The timer of the phase fires, or the context is done first; when both are
\* ready the select takes either.
EndPhase(w, at, next) ==
  /\ toggler[w] = at
  /\ phaseLeft[w] = 0
  /\ toggler' = [toggler EXCEPT ![w] = next]
  /\ UNCHANGED <<brokerVars, cancelled, received, clocks, loopVars, idleCh, jobs>>

EndWork(w) == EndPhase(w, "work", "sendIdle")
EndIdle(w) == EndPhase(w, "idle", "top")

StopWaiting(w) ==
  /\ toggler[w] \in {"work", "idle"}
  /\ Cancelled(w)
  /\ toggler' = [toggler EXCEPT ![w] = "exited"]
  /\ phaseLeft' = [phaseLeft EXCEPT ![w] = 0]
  /\ UNCHANGED <<brokerVars, cancelled, received, ttl, loopVars, idleCh, jobs>>

Toggler(w) == \/ TopOfLoop(w) \/ BeginWork(w) \/ EndWork(w)
              \/ BeginIdle(w) \/ EndIdle(w) \/ StopWaiting(w)

-----------------------------------------------------------------------------
(* Worker.Run: the goroutine of an accepted event *)

Judged(j) == IF IsExpired(j.ev)
             THEN [j EXCEPT !.status = "Expired"]
             ELSE [j EXCEPT !.status = "Completed", !.slack = ttl[j.ev]]

MutantFinishJob(j) ==       \* goes on to the verdict when the context is done
  /\ j.status = "Processing"
  /\ j.left = 0 \/ Cancelled(j.worker)
  /\ jobs' = (jobs \ {j}) \cup {Judged(j)}
  /\ UNCHANGED <<brokerVars, cancelled, received, ttl, loopVars, idleCh, togglerVars>>

\* The handling time is over: the verdict is taken at that instant.
FinishJob(j) ==
  /\ j.status = "Processing"
  /\ j.left = 0
  /\ jobs' = (jobs \ {j}) \cup {Judged(j)}
  /\ UNCHANGED <<brokerVars, cancelled, received, ttl, loopVars, idleCh, togglerVars>>

\* The context is done: the goroutine ends and publishes nothing.
AbortJob(j) ==
  /\ j.status = "Processing"
  /\ Cancelled(j.worker)
  /\ jobs' = jobs \ {j}
  /\ UNCHANGED <<brokerVars, cancelled, received, ttl, loopVars, idleCh, togglerVars>>

\* Publishing uses a context of its own, so a shutdown does not stop it.
PublishJob(j) ==
  /\ j.status # "Processing"
  /\ PublishResult([ev |-> j.ev, status |-> j.status, slack |-> j.slack])
  /\ jobs' = jobs \ {j}
  /\ UNCHANGED <<up, cancelled, received, ttl, teamQueue, subscription,
                 deliveries, loopVars, idleCh, togglerVars>>

JobStep(j) == FinishJob(j) \/ AbortJob(j) \/ PublishJob(j)

-----------------------------------------------------------------------------
Init ==
  /\ up = TRUE
  /\ cancelled = {}
  /\ received = {}
  /\ ttl = [e \in Events |-> 0]
  /\ teamQueue = [t \in Teams |-> <<>>]
  /\ subscription = [w \in Workers |-> "none"]
  /\ deliveries = [w \in Workers |-> <<>>]
  /\ pc = [w \in Workers |-> "start"]
  /\ inHand = [w \in Workers |-> NoEvent]
  /\ idle = [w \in Workers |-> FALSE]
  /\ idleCh = [w \in Workers |-> <<>>]
  /\ toggler = [w \in Workers |-> "none"]
  /\ phaseLeft = [w \in Workers |-> 0]
  /\ jobs = {}
  /\ results = <<>>
  /\ refused = {}

WorkerStep(w) == \/ Start(w) \/ MainLoop(w) \/ Toggler(w)
                 \/ Deliver(w) \/ ConsumerCloses(w)

Next == \/ Tick
        \/ Disconnect
        \/ \E t \in Teams, m \in Malformed : ForeignMessage(t, m)
        \/ \E e \in Events : RouteEvent(e)
        \/ \E t \in Teams : ShutdownTeam(t)
        \/ \E w \in Workers : WorkerStep(w)
        \/ \E j \in jobs : JobStep(j)

Spec == Init /\ [][Next]_vars

\* Time passes, the broker hands out what it has queued, and every goroutine
\* that can run is run in the end.
SchedulerFairness ==
  /\ WF_vars(Tick)
  /\ \A t \in Teams : WF_vars(\E w \in Workers : TeamOfWorker[w] = t /\ Deliver(w))
  /\ \A w \in Workers :
       /\ WF_vars(Start(w))
       /\ WF_vars(Toggler(w))
       /\ WF_vars(ConsumerCloses(w))
       /\ WF_vars(AcceptEvent(w) \/ ReportExpired(w) \/ Republish(w))
  /\ \A e \in Events : WF_vars(\E j \in jobs : j.ev = e /\ JobStep(j))

\* A Go select takes one of its ready cases at random: a case that is ready
\* again and again is taken in the end.
SelectFairness ==
  \A w \in Workers : /\ SF_vars(RecvDone(w))
                     /\ SF_vars(RecvIdle(w))
                     /\ SF_vars(RecvDelivery(w))
                     /\ SF_vars(RecvClosed(w))

FairSpec == Spec /\ SchedulerFairness /\ SelectFairness

-----------------------------------------------------------------------------
(* Properties *)

\* Every variable has its type; in particular idleCh never holds more than
\* the one value make(chan bool, 1) has room for, and a worker has an event
\* in hand exactly while it handles one.
TypeOK ==
  /\ up \in BOOLEAN
  /\ cancelled \subseteq Teams
  /\ received \subseteq Events
  /\ ttl \in [Events -> -1..Deadlines["Low"]]
  /\ teamQueue \in [Teams -> Seq(Messages)]
  /\ subscription \in [Workers -> {"none", "open", "closed"}]
  /\ deliveries \in [Workers -> Seq(Messages)]
  /\ pc \in [Workers -> {"start", "select", "handle", "returned"}]
  /\ inHand \in [Workers -> Events \cup {NoEvent}]
  /\ \A w \in Workers : pc[w] = "handle" <=> inHand[w] # NoEvent
  /\ idle \in [Workers -> BOOLEAN]
  /\ idleCh \in [Workers -> {<<>>, <<TRUE>>, <<FALSE>>}]
  /\ toggler \in [Workers -> {"none", "top", "sendWork", "work", "sendIdle",
                              "idle", "exited"}]
  /\ phaseLeft \in [Workers -> Nat]
  /\ jobs \subseteq Job
  /\ results \in Seq(Result)
  /\ refused \subseteq Events

\* Where the copies of an event are.
Places(e) ==
  (UNION {{<<"queue", t, i>> : i \in {k \in DOMAIN teamQueue[t] : teamQueue[t][k] = e}}
            : t \in Teams})
  \cup (UNION {{<<"deliveries", w, i>> : i \in {k \in DOMAIN deliveries[w] : deliveries[w][k] = e}}
                 : w \in Workers})
  \cup {<<"hand", w>> : w \in {v \in Workers : inHand[v] = e}}
  \cup {<<"job", j>> : j \in {k \in jobs : k.ev = e}}
  \cup {<<"result", i>> : i \in {k \in DOMAIN results : results[k].ev = e}}

\* Republishing, redelivery, parallel jobs and shutdown never make a second
\* copy of an event: no event is ever handled by two goroutines, or reported
\* twice to the tracker.
SinglePlace == \A e \in Events : \A p, q \in Places(e) : p = q

\* The verdict of a result is the right one whenever it was reached: a
\* completed event was handled for the whole processing time and was then
\* still in time; an expired one is past its deadline.
VerdictsHonest ==
  \A i \in DOMAIN results :
    LET r == results[i]
        deadline == DeadlineDuration(PriorityOf[r.ev])
    IN  \/ r.status = "Completed" /\ r.slack \in 0..(deadline - ProcessingTime)
        \/ r.status = "Expired" /\ ttl[r.ev] < 0

\* The toggler considers the worker available.
Offered(w) == toggler[w] \in {"idle", "top", "sendWork"}

\* worker.go:113 "Make sure we have the latest state before accepting": when
\* the loop takes a delivery, its flag tells the phase the toggler is in,
\* although the two goroutines only share a channel.
FlagFreshWhenRead ==
  [][\A w \in Workers : RecvDelivery(w) =>
       /\ idle'[w] => Offered(w) \/ toggler[w] = "exited"
       /\ toggler[w] = "idle" => idle'[w]]_vars

\* What is left of worker.go:51-52, "It accepts events only during the idle
\* phase of its routine", in every interleaving: an event is accepted only by
\* a worker that is available, or that ceased to be while the event was in hand
\* and has the news waiting in its channel.
AcceptsOnlyWhenOffered ==
  [][\A j \in jobs' \ jobs :
       j.status = "Processing" /\ (\A k \in jobs : k.ev # j.ev) =>
         \/ Offered(j.worker)
         \/ toggler[j.worker] = "exited"
         \/ idleCh[j.worker] = <<FALSE>>]_vars

Reported(e) == \E i \in DOMAIN results : results[i].ev = e

Held(e) == \/ \E t \in Teams : e \in Range(teamQueue[t])
           \/ \E w \in Workers : inHand[w] = e \/ e \in Range(deliveries[w])
           \/ \E j \in jobs : j.ev = e

\* The fate of an event as EventLedger tells it.
Fate(e) ==
  IF Reported(e)
  THEN results[CHOOSE i \in DOMAIN results : results[i].ev = e].status
  ELSE IF e \notin received THEN "unseen"
  ELSE IF Held(e) THEN "open" ELSE "lost"

Ledger == INSTANCE EventLedger
            WITH fate <- [e \in Events |-> Fate(e)],
                 atRisk <- {e \in Events : ~up \/ Team(e) \in cancelled \/ e \in refused}

\* Each received event gets one verdict that never changes, and is lost
\* only if its own team is shut down, its own publish failed or the
\* connection goes: shutting down a team never costs another team an event,
\* and a publish that fails costs no other event.
KeepsLedger == Ledger!Spec

\* Every received event is reported, however its deliveries and the phases of
\* the workers fall, unless its team is shut down, it could not be published
\* or the connection goes.
EveryEventReported ==
  \A e \in Events :
    e \in received ~> Reported(e) \/ ~up \/ Team(e) \in cancelled \/ e \in refused

\* A worker whose context is cancelled, or whose connection is lost, leaves
\* its loop, and no goroutine of an accepted event outlives it for ever.
WorkersStop ==
  \A w \in Workers :
    Cancelled(w) \/ ~up ~> pc[w] = "returned" /\ \A j \in jobs : j.worker # w

\* README.md, Design Decisions: "Context cancellation: Graceful shutdown
\* propagated through all goroutines".
TogglersStop == \A w \in Workers : Cancelled(w) ~> toggler[w] \in {"none", "exited"}

=============================================================================

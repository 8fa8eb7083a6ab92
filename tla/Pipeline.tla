------------------------------ MODULE Pipeline ------------------------------
(***************************************************************************)
(* The program cmd/marry-me as a whole: main, which sets up the pipeline,  *)
(* starts its stages, stops them and takes the report; the stages between  *)
(* the queues; and the broker, whose durable queues outlive the process.   *)
(* The program may be killed and started again, and RabbitMQ may restart.  *)
(*                                                                         *)
(* Each stage is reduced to where its messages are.  What it does with     *)
(* them in detail is in Coordinator, Organizer, TeamWorkers and            *)
(* StressTracker; one team stands for all, and the order within a queue is *)
(* left out.  The pool does with an event whatever some worker might.      *)
(***************************************************************************)
EXTENDS Naturals, Sequences, Functions

CONSTANT Datasets   \* the valid events of the dataset of each run; its length
                    \* bounds how often the program is started

ASSUME RunsAssumption == Datasets \in Seq(SUBSET UNION Range(Datasets)) \ {<<>>}

VARIABLES
  declared,   \* what the broker has of queues, exchange and binding
  queue,      \* the messages in each queue
  run,        \* the number of the present run
  main,       \* "alive", "finalizing" or "ended"
  step,       \* the step of Program main is at
  up,         \* the broker connection is open
  cancelled,  \* the context of main is done
  todo,       \* the events Ingest has still to publish
  sub,        \* where the subscription of a stage is
  buffer,     \* delivered to a stage and not yet read
  held,       \* read by a stage and not yet published; recorded by the tracker
  refused,    \* the events given up in this run for want of an AMQP channel
  reports     \* what the report of each run has counted

processVars == <<run, main, step, up, cancelled, todo>>
stageVars == <<sub, buffer, held, refused>>
vars == <<declared, queue, processVars, stageVars, reports>>

Runs == DOMAIN Datasets

\* Each run publishes its own copy of an event of its dataset.
Copies == UNION {{r} \X Datasets[r] : r \in Runs}

Stages == {"organizer", "pool", "tracker"}
Input == [organizer |-> "validated", pool |-> "team", tracker |-> "results"]
Queues == {Input[s] : s \in Stages}
Declarations == Queues \cup {"exchange", "binding"}

MutantProgramEager ==      \* starts the pool before the organizer is set up
  <<"validated", "pool", "exchange", "team", "binding", "validated", "results",
    "organizer", "tracker", "ingest">>

MutantProgramUnbound ==    \* forgets to bind the team queue
  <<"validated", "exchange", "team", "validated", "results",
    "pool", "organizer", "tracker", "ingest">>

\* What main does before it waits: Setup of coordinator and organizer, which
\* declare, then each stage and Ingest in goroutines of their own.
Program ==
  <<"validated", "exchange", "team", "binding", "validated", "results",
    "pool", "organizer", "tracker", "ingest">>

Nowhere(S) == [x \in S |-> {}]

-----------------------------------------------------------------------------
(* main *)

\* The memory of the process is gone; what is in the queues stays.
EndProcess ==
  /\ main' = "ended"
  /\ step' = 1 /\ up' = FALSE /\ cancelled' = FALSE /\ todo' = {}
  /\ sub' = [s \in Stages |-> "off"]
  /\ buffer' = Nowhere(Stages) /\ held' = Nowhere(Stages) /\ refused' = {}
  /\ UNCHANGED run

\* DeclareQueue, DeclareExchange and BindQueue fail without a connection, a
\* binding also without its ends; main ends the process then.  No other
\* channel is open yet, so the limit on channels is no concern here.
Declare(d) ==
  /\ d \in Declarations
  /\ IF up /\ (d = "binding" => {"exchange", "team"} \subseteq declared)
     THEN /\ declared' = declared \cup {d}
          /\ step' = step + 1
          /\ UNCHANGED <<run, main, up, cancelled, todo, stageVars>>
     ELSE EndProcess /\ UNCHANGED declared

Launch(s) ==
  /\ s \in Stages
  /\ sub' = [sub EXCEPT ![s] = "starting"]
  /\ step' = step + 1
  /\ UNCHANGED <<declared, run, main, up, cancelled, todo, buffer, held, refused>>

LaunchIngest ==
  /\ todo' = Datasets[run]
  /\ step' = step + 1
  /\ UNCHANGED <<declared, run, main, up, cancelled, stageVars>>

MainStep ==
  /\ main = "alive" /\ step <= Len(Program)
  /\ \/ Declare(Program[step])
     \/ Launch(Program[step])
     \/ Program[step] = "ingest" /\ LaunchIngest
  /\ UNCHANGED <<queue, reports>>

\* A signal, or the end of the simulation.  A signal that comes before main
\* waits for it is kept until then.
Stop ==
  /\ main = "alive" /\ step > Len(Program)
  /\ main' = "finalizing"
  /\ cancelled' = TRUE
  /\ UNCHANGED <<declared, queue, run, step, up, todo, stageVars, reports>>

\* main waits half a second for whatever the stages do in it, takes the
\* report and returns.
TakeReport ==
  /\ main = "finalizing"
  /\ reports' = [reports EXCEPT ![run] = held["tracker"]]
  /\ EndProcess
  /\ UNCHANGED <<declared, queue>>

\* The process is killed or panics.
Crash ==
  /\ main # "ended"
  /\ EndProcess
  /\ UNCHANGED <<declared, queue, reports>>

StartAgain ==
  /\ main = "ended" /\ run + 1 \in Runs
  /\ run' = run + 1
  /\ main' = "alive"
  /\ up' = TRUE
  /\ UNCHANGED <<declared, queue, step, cancelled, todo, stageVars, reports>>

-----------------------------------------------------------------------------
(* The broker *)

\* The client does not reconnect.
Disconnect ==
  /\ up
  /\ up' = FALSE
  /\ UNCHANGED <<declared, queue, run, main, step, cancelled, todo, stageVars, reports>>

\* All declarations are durable, but no message is: DeliveryMode is left 0.
BrokerRestarts ==
  /\ queue' = Nowhere(Queues)
  /\ up' = FALSE
  /\ UNCHANGED <<declared, run, main, step, cancelled, todo, stageVars, reports>>

\* A message for a queue that does not exist is dropped without an error.
Enqueue(q, c) ==
  queue' = IF up /\ q \in declared THEN [queue EXCEPT ![q] = @ \cup {c}] ELSE queue

\* A stage goes on, and the event is gone, when openChannel returns an error:
\* without a connection, or when all channels of the connection are in use.
Publish(q, c) ==
  \/ Enqueue(q, c) /\ UNCHANGED refused
  \/ refused' = refused \cup {c} /\ UNCHANGED queue

Deliver(s) ==
  /\ up /\ sub[s] = "open"
  /\ \E c \in queue[Input[s]] :
       /\ queue' = [queue EXCEPT ![Input[s]] = @ \ {c}]
       /\ buffer' = [buffer EXCEPT ![s] = @ \cup {c}]
  /\ UNCHANGED <<declared, processVars, sub, held, refused, reports>>

-----------------------------------------------------------------------------
(* The stages *)

\* A stage that cannot subscribe, to a queue that is not there or for want of
\* a channel, returns.
Subscribe(s) ==
  /\ sub[s] = "starting"
  /\ \E new \in {IF up /\ Input[s] \in declared THEN "open" ELSE "returned", "refused"} :
       sub' = [sub EXCEPT ![s] = new]
  /\ UNCHANGED <<declared, queue, processVars, buffer, held, refused, reports>>

\* Deliveries that were not forwarded are dropped.
Close(s) ==
  /\ sub[s] = "open"
  /\ cancelled \/ ~up
  /\ sub' = [sub EXCEPT ![s] = "closed"]
  /\ \E kept \in SUBSET buffer[s] : buffer' = [buffer EXCEPT ![s] = kept]
  /\ UNCHANGED <<declared, queue, processVars, held, refused, reports>>

\* The organizer routes one event before it looks at anything else.
Receptive(s) == sub[s] \in {"open", "closed"} /\ (s = "organizer" => held[s] = {})

Leave(s) ==
  /\ Receptive(s)
  /\ cancelled \/ (sub[s] = "closed" /\ buffer[s] = {})
  /\ sub' = [sub EXCEPT ![s] = "returned"]
  /\ buffer' = [buffer EXCEPT ![s] = {}]
  /\ UNCHANGED <<declared, queue, processVars, held, refused, reports>>

MutantTake(s) ==       \* handles deliveries in goroutines of their own
  /\ sub[s] \in {"open", "closed"}
  /\ \E c \in buffer[s] :
       /\ buffer' = [buffer EXCEPT ![s] = @ \ {c}]
       /\ held' = [held EXCEPT ![s] = @ \cup {c}]
  /\ UNCHANGED <<declared, queue, processVars, sub, refused, reports>>

Take(s) ==
  /\ Receptive(s)
  /\ \E c \in buffer[s] :
       /\ buffer' = [buffer EXCEPT ![s] = @ \ {c}]
       /\ held' = [held EXCEPT ![s] = @ \cup {c}]
  /\ UNCHANGED <<declared, queue, processVars, sub, refused, reports>>

Release(s, c) == /\ c \in held[s]
                 /\ held' = [held EXCEPT ![s] = @ \ {c}]
                 /\ UNCHANGED <<declared, processVars, sub, buffer, reports>>

\* The exchange has the team queue once it is bound.
Route(c) ==
  /\ Release("organizer", c)
  /\ IF {"exchange", "binding"} \subseteq declared THEN Publish("team", c)
     ELSE UNCHANGED <<queue, refused>>

MutantRepublish(c) ==  \* processes the event it has put back
  /\ sub["pool"] \in {"open", "closed"}
  /\ c \in held["pool"]
  /\ Publish("team", c)
  /\ UNCHANGED <<declared, processVars, sub, buffer, held, reports>>

\* A busy worker, which still reads, puts the event back.
Republish(c) ==
  /\ sub["pool"] \in {"open", "closed"}
  /\ Release("pool", c)
  /\ Publish("team", c)

\* A worker publishes the result; a goroutine that handles an event does so
\* also after the worker has returned, or gives up when it is cancelled.
PublishResult(c) == Release("pool", c) /\ Publish("results", c)
Abort(c) == cancelled /\ Release("pool", c) /\ UNCHANGED <<queue, refused>>

\* Ingest publishes what is due whatever the context says; it stops at an
\* error, or when the context ends while it waits.
Dispatch(e) ==
  /\ e \in todo
  /\ \/ up /\ Enqueue("validated", <<run, e>>) /\ todo' = todo \ {e}
     \/ UNCHANGED queue /\ todo' = {}
  /\ UNCHANGED <<declared, run, main, step, up, cancelled, stageVars, reports>>

IngestStops ==
  /\ cancelled /\ todo # {}
  /\ todo' = {}
  /\ UNCHANGED <<declared, queue, run, main, step, up, cancelled, stageVars, reports>>

-----------------------------------------------------------------------------
Init ==
  /\ declared = {} /\ queue = Nowhere(Queues)
  /\ run = 1 /\ main = "alive" /\ step = 1
  /\ up = TRUE /\ cancelled = FALSE /\ todo = {}
  /\ sub = [s \in Stages |-> "off"]
  /\ buffer = Nowhere(Stages) /\ held = Nowhere(Stages) /\ refused = {}
  /\ reports = Nowhere(Runs)

Flow == \/ \E s \in Stages : Subscribe(s) \/ Deliver(s) \/ Take(s)
        \/ \E c \in Copies : Route(c)

Next == \/ MainStep \/ Stop \/ TakeReport \/ Crash \/ StartAgain
        \/ Disconnect \/ BrokerRestarts
        \/ Flow
        \/ \E s \in Stages : Close(s) \/ Leave(s)
        \/ \E c \in Copies : Republish(c) \/ PublishResult(c) \/ Abort(c)
        \/ \E e \in todo : Dispatch(e)
        \/ IngestStops

Spec == Init /\ [][Next]_vars

\* The goroutines run and messages flow.  The pool reports an event it is
\* handed again and again, as TeamWorkers!EveryEventReported says.
FairSpec == /\ Spec
            /\ WF_vars(MainStep) /\ WF_vars(Flow)
            /\ SF_vars(\E c \in Copies : PublishResult(c))

-----------------------------------------------------------------------------
(* Properties *)

\* Every variable has its type; the organizer handles one event at a time, and
\* a process that has ended has nothing left to publish.
TypeOK ==
  /\ declared \subseteq Declarations
  /\ queue \in [Queues -> SUBSET Copies]
  /\ run \in Runs
  /\ main \in {"alive", "finalizing", "ended"}
  /\ step \in 1..Len(Program) + 1
  /\ up \in BOOLEAN /\ cancelled \in BOOLEAN
  /\ todo \subseteq Datasets[run]
  /\ main = "ended" => todo = {}
  /\ sub \in [Stages -> {"off", "starting", "open", "closed", "returned", "refused"}]
  /\ buffer \in [Stages -> SUBSET Copies]
  /\ held \in [Stages -> SUBSET Copies]
  /\ \A c, d \in held["organizer"] : c = d
  /\ refused \subseteq Copies
  /\ reports \in [Runs -> SUBSET Copies]

\* The places that hold a copy.
Places(c) == {<<"queue", q>> : q \in {q \in Queues : c \in queue[q]}}
             \cup {<<"buffer", s>> : s \in {s \in Stages : c \in buffer[s]}}
             \cup {<<"held", s>> : s \in {s \in Stages : c \in held[s]}}
             \cup {<<"report", r>> : r \in {r \in Runs : c \in reports[r]}}

\* An event is counted once, in the report of one run, although runs end with
\* events in every queue and the next run goes on with them.
CountedOnce == \A c \in Copies : \A p, q \in Places(c) : p = q

\* A stage finds what it reads from and publishes to, in the first run as in
\* any other: a worker whose queue is not there would return for good, and an
\* event routed to no queue would vanish without an error.
Needs == [organizer |-> {"validated", "exchange", "team", "binding"},
          pool |-> {"team", "results"},
          tracker |-> {"results"}]

SetupFirst ==
  /\ \A s \in Stages : sub[s] # "off" => Needs[s] \subseteq declared
  /\ todo # {} => "validated" \in declared

\* Once published, an event disappears from a queue only when the broker
\* restarts, whatever happens to the program; and from the memory of the
\* program only when that is being stopped, has lost its connection or ends,
\* or is refused a channel to publish it with.
LostOnlyIfDisturbed ==
  [][\A c \in Copies :
       Places(c) # {} /\ Places(c)' = {} =>
         IF \E q \in Queues : c \in queue[q] THEN BrokerRestarts
         ELSE cancelled \/ ~up \/ main' = "ended" \/ c \in refused']_vars

\* An event in any queue while the program runs, its own or one that an
\* earlier run has left there, reaches the tracker of this run, unless the
\* run is stopped, crashes or loses the connection, or a stage or the event
\* itself is refused a channel.
LeftoversCounted ==
  \A c \in Copies :
    main = "alive" /\ (\E q \in Queues : c \in queue[q])
      ~> c \in held["tracker"] \/ cancelled \/ ~up
         \/ c \in refused \/ \E s \in Stages : sub[s] = "refused"
=============================================================================

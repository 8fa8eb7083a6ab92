--------------------------- MODULE PipelineProofs ---------------------------
(***************************************************************************)
(* What Pipeline guarantees for every number of runs and every dataset.    *)
(***************************************************************************)
EXTENDS Pipeline, TLAPS

-----------------------------------------------------------------------------
(* Lemmas about the constants *)

\* Runs are numbered from 1.
LEMMA RunsAreNumbers ==
  /\ Runs \subseteq Nat \ {0}
  /\ 1 \in Runs
<1> PICK S : Datasets \in Seq(S) /\ Datasets # <<>>
  BY RunsAssumption
<1>1. Len(Datasets) \in Nat /\ Runs = 1..Len(Datasets)
  BY DEF Runs
<1>2. Len(Datasets) # 0
  OBVIOUS
<1> QED BY <1>1, <1>2

\* An event of the dataset of a run has a copy.
LEMMA CopyOfEvent ==
  ASSUME NEW r \in Runs, NEW e \in Datasets[r]
  PROVE  <<r, e>> \in Copies
BY DEF Copies

\* The three queues.
LEMMA InputsAndQueues ==
  /\ Queues = {"validated", "team", "results"}
  /\ \A s \in Stages : Input[s] \in Queues
BY DEF Queues, Input, Stages

\* What the steps of Program are, and which come before which.
LEMMA ProgramSteps ==
  /\ Len(Program) = 10
  /\ Program[1] = "validated" /\ Program[2] = "exchange" /\ Program[3] = "team"
  /\ Program[4] = "binding" /\ Program[5] = "validated" /\ Program[6] = "results"
  /\ Program[7] = "pool" /\ Program[8] = "organizer" /\ Program[9] = "tracker"
  /\ Program[10] = "ingest"
BY DEF Program

\* Nowhere is the placement of no copies.
LEMMA NowhereTyped ==
  ASSUME NEW S
  PROVE  /\ Nowhere(S) \in [S -> SUBSET Copies]
         /\ \A x \in S : Nowhere(S)[x] = {}
BY DEF Nowhere

-----------------------------------------------------------------------------
(* Type correctness *)

\* The initial state is well typed.
LEMMA TypeInit == Init => TypeOK
<1> SUFFICES ASSUME Init PROVE TypeOK
  OBVIOUS
<1>1. /\ queue = Nowhere(Queues) /\ reports = Nowhere(Runs)
      /\ buffer = Nowhere(Stages) /\ held = Nowhere(Stages)
  BY DEF Init
<1>2. /\ queue \in [Queues -> SUBSET Copies] /\ reports \in [Runs -> SUBSET Copies]
      /\ buffer \in [Stages -> SUBSET Copies] /\ held \in [Stages -> SUBSET Copies]
  BY <1>1, NowhereTyped
<1>3. sub \in [Stages -> {"off", "starting", "open", "closed", "returned", "refused"}]
  BY DEF Init
<1>4. \A c, d \in held["organizer"] : c = d
  BY <1>1, NowhereTyped DEF Stages
<1>5. step \in 1..Len(Program) + 1 /\ run \in Runs
  BY RunsAreNumbers, ProgramSteps DEF Init
<1> QED BY <1>2, <1>3, <1>4, <1>5 DEF Init, TypeOK

\* A process that ends leaves a well-typed state behind.
LEMMA EndTyped ==
  ASSUME TypeOK, EndProcess, declared' \subseteq Declarations,
         queue' \in [Queues -> SUBSET Copies],
         reports' \in [Runs -> SUBSET Copies]
  PROVE  TypeOK'
<1>1. buffer' = Nowhere(Stages) /\ held' = Nowhere(Stages)
  BY DEF EndProcess
<1>2. buffer' \in [Stages -> SUBSET Copies] /\ held' \in [Stages -> SUBSET Copies]
  BY <1>1, NowhereTyped
<1>3. sub' \in [Stages -> {"off", "starting", "open", "closed", "returned", "refused"}]
  BY DEF EndProcess
<1>4. \A c, d \in held'["organizer"] : c = d
  BY <1>1, NowhereTyped DEF Stages
<1>5. step' \in 1..Len(Program) + 1
  BY ProgramSteps DEF EndProcess
<1> QED BY <1>2, <1>3, <1>4, <1>5 DEF EndProcess, TypeOK

\* A message that is published is in the queue or nowhere.
LEMMA EnqueueTyped ==
  ASSUME TypeOK, NEW q \in Queues, NEW c \in Copies, Enqueue(q, c)
  PROVE  queue' \in [Queues -> SUBSET Copies]
BY DEF TypeOK, Enqueue

\* One that a stage publishes may be refused instead.
LEMMA PublishTyped ==
  ASSUME TypeOK, NEW q \in Queues, NEW c \in Copies,
         Publish(q, c) \/ UNCHANGED <<queue, refused>>
  PROVE  queue' \in [Queues -> SUBSET Copies] /\ refused' \subseteq Copies
BY EnqueueTyped DEF TypeOK, Publish

\* Every step keeps the types.
LEMMA TypeStep ==
  ASSUME TypeOK, [Next]_vars
  PROVE  TypeOK'
<1> USE InputsAndQueues, ProgramSteps DEF vars, processVars, stageVars
<1>1. CASE MainStep
  <2>1. ASSUME Declare(Program[step]) PROVE TypeOK'
    <3>1. CASE EndProcess
      BY <1>1, <2>1, <3>1, EndTyped DEF MainStep, Declare, TypeOK
    <3>2. CASE ~EndProcess
      BY <1>1, <2>1, <3>2 DEF MainStep, Declare, TypeOK
    <3> QED BY <3>1, <3>2
  <2>2. ASSUME Launch(Program[step]) PROVE TypeOK'
    BY <1>1, <2>2 DEF MainStep, Launch, TypeOK
  <2>3. ASSUME LaunchIngest PROVE TypeOK'
    BY <1>1, <2>3 DEF MainStep, LaunchIngest, TypeOK
  <2> QED BY <1>1, <2>1, <2>2, <2>3 DEF MainStep
<1>2. CASE Stop
  BY <1>2 DEF Stop, TypeOK
<1>3. CASE TakeReport
  BY <1>3, EndTyped DEF TakeReport, TypeOK, Stages
<1>4. CASE Crash
  BY <1>4, EndTyped DEF Crash, TypeOK
<1>5. CASE StartAgain
  BY <1>5 DEF StartAgain, TypeOK
<1>6. CASE Disconnect
  BY <1>6 DEF Disconnect, TypeOK
<1>7. CASE BrokerRestarts
  BY <1>7 DEF BrokerRestarts, TypeOK, Nowhere
<1>8. ASSUME NEW s \in Stages, Subscribe(s) PROVE TypeOK'
  BY <1>8 DEF Subscribe, TypeOK
<1>9. ASSUME NEW s \in Stages, Deliver(s) PROVE TypeOK'
  BY <1>9 DEF Deliver, TypeOK
<1>10. ASSUME NEW s \in Stages, Take(s) PROVE TypeOK'
  <2>1. PICK c \in buffer[s] :
          /\ buffer' = [buffer EXCEPT ![s] = @ \ {c}]
          /\ held' = [held EXCEPT ![s] = @ \cup {c}]
    BY <1>10 DEF Take
  <2>2. held' \in [Stages -> SUBSET Copies] /\ buffer' \in [Stages -> SUBSET Copies]
    BY <2>1 DEF TypeOK
  <2>3. \A a, b \in held'["organizer"] : a = b
    BY <1>10, <2>1 DEF Take, Receptive, TypeOK
  <2> QED BY <1>10, <2>2, <2>3 DEF Take, TypeOK
<1>11. ASSUME NEW c \in Copies, NEW s \in Stages, Release(s, c),
              queue' \in [Queues -> SUBSET Copies], refused' \subseteq Copies
       PROVE  TypeOK'
  BY <1>11 DEF Release, TypeOK
<1>12. ASSUME NEW c \in Copies, Route(c) PROVE TypeOK'
  <2>1. queue' \in [Queues -> SUBSET Copies] /\ refused' \subseteq Copies
    BY <1>12, PublishTyped DEF Route
  <2> QED BY <1>11, <1>12, <2>1 DEF Route, Stages
<1>13. ASSUME NEW s \in Stages, Close(s) PROVE TypeOK'
  BY <1>13 DEF Close, TypeOK
<1>14. ASSUME NEW s \in Stages, Leave(s) PROVE TypeOK'
  BY <1>14 DEF Leave, TypeOK
<1>15. ASSUME NEW c \in Copies, Republish(c) \/ PublishResult(c) \/ Abort(c) PROVE TypeOK'
  <2>1. queue' \in [Queues -> SUBSET Copies] /\ refused' \subseteq Copies
    BY <1>15, PublishTyped DEF Republish, PublishResult, Abort
  <2> QED BY <1>11, <1>15, <2>1 DEF Republish, PublishResult, Abort, Stages
<1>16. ASSUME NEW e \in todo, Dispatch(e) PROVE TypeOK'
  <2>1. /\ queue' \in [Queues -> SUBSET Copies]
        /\ todo' \subseteq todo /\ run' = run
    BY <1>16, EnqueueTyped, CopyOfEvent DEF Dispatch, TypeOK
  <2> QED BY <1>16, <2>1 DEF Dispatch, TypeOK
<1>17. CASE IngestStops
  BY <1>17 DEF IngestStops, TypeOK
<1>18. CASE UNCHANGED vars
  BY <1>18 DEF TypeOK
<1> QED
  BY <1>1, <1>2, <1>3, <1>4, <1>5, <1>6, <1>7, <1>8, <1>9, <1>10, <1>12, <1>13,
     <1>14, <1>15, <1>16, <1>17, <1>18 DEF Next, Flow

\* For any datasets and any number of runs every variable keeps its type, and
\* the organizer never handles two events at once.
THEOREM TypeCorrect == Spec => []TypeOK
<1>1. Init => TypeOK
  BY TypeInit
<1>2. TypeOK /\ [Next]_vars => TypeOK'
  BY TypeStep
<1> QED BY <1>1, <1>2, PTL DEF Spec

-----------------------------------------------------------------------------
(* Setup before use *)

\* What main has declared is there, a stage runs or holds something only after
\* its step, and Ingest publishes only after the last one.
SetupInv ==
  /\ \A i \in 1..Len(Program) :
       i < step /\ Program[i] \in Declarations => Program[i] \in declared
  /\ sub["pool"] # "off" => step > 7
  /\ sub["organizer"] # "off" => step > 8
  /\ sub["tracker"] # "off" => step > 9
  /\ \A s \in Stages : held[s] # {} => sub[s] # "off"
  /\ todo # {} => step > 10

\* The three subscriptions are the only ones.
LEMMA ThreeStages ==
  ASSUME NEW s \in Stages
  PROVE  s \in {"organizer", "pool", "tracker"} /\ s \notin Declarations
BY DEF Stages, Declarations, Queues, Input

\* The invariant says what the property says, of each stage in turn.
LEMMA SetupSuffices ==
  ASSUME TypeOK, SetupInv
  PROVE  SetupFirst
<1> USE ProgramSteps, InputsAndQueues DEF SetupInv, Declarations
<1>1. sub["organizer"] # "off" => {"validated", "exchange", "team", "binding"} \subseteq declared
  BY DEF TypeOK
<1>2. sub["pool"] # "off" => {"team", "results"} \subseteq declared
  BY DEF TypeOK
<1>3. sub["tracker"] # "off" => {"results"} \subseteq declared
  BY DEF TypeOK
<1>4. todo # {} => "validated" \in declared
  BY DEF TypeOK
<1> QED BY <1>1, <1>2, <1>3, <1>4 DEF SetupFirst, Needs, Stages

\* When the process ends there is nothing to set up.
LEMMA EndSetup ==
  ASSUME EndProcess
  PROVE  SetupInv'
<1>1. \A s \in Stages : sub'[s] = "off" /\ held'[s] = {}
  BY DEF EndProcess, Nowhere
<1>2. step' = 1 /\ todo' = {}
  BY DEF EndProcess
<1> QED BY <1>1, <1>2, ProgramSteps DEF SetupInv, Stages

\* A step that leaves main, the subscriptions and what is declared alone, and
\* gives nothing to a stage that has not subscribed, keeps the invariant.
LEMMA SetupKept ==
  ASSUME TypeOK, SetupInv, UNCHANGED <<declared, step, sub>>, todo' \subseteq todo,
         \A s \in Stages : held'[s] # {} => sub[s] # "off"
  PROVE  SetupInv'
BY DEF SetupInv

\* Every step keeps the invariant.
LEMMA SetupStep ==
  ASSUME TypeOK, SetupInv, [Next]_vars
  PROVE  SetupInv'
<1> USE DEF vars, processVars, stageVars
<1>1. CASE MainStep
  <2>1. step \in 1..10 /\ Program[step] \in Declarations \cup Stages \cup {"ingest"}
    BY <1>1, ProgramSteps DEF MainStep, Declare, Launch, LaunchIngest, TypeOK
  <2>2. ASSUME Declare(Program[step]), ~EndProcess PROVE SetupInv'
    <3>1. /\ declared' = declared \cup {Program[step]} /\ step' = step + 1
          /\ UNCHANGED <<todo, sub, held>>
      BY <2>2 DEF Declare
    <3>2. \A i \in 1..Len(Program) :
            i < step' /\ Program[i] \in Declarations => Program[i] \in declared'
      BY <2>1, <3>1, ProgramSteps DEF SetupInv
    <3> QED BY <2>1, <3>1, <3>2 DEF SetupInv
  <2>3. ASSUME Launch(Program[step]) PROVE SetupInv'
    <3>1. /\ sub' = [sub EXCEPT ![Program[step]] = "starting"] /\ step' = step + 1
          /\ UNCHANGED <<declared, todo, held>> /\ Program[step] \in Stages
      BY <2>3 DEF Launch
    <3>2. Program[step] \notin Declarations
      BY <3>1, ThreeStages
    <3>3. \A i \in 1..Len(Program) :
            i < step' /\ Program[i] \in Declarations => Program[i] \in declared'
      BY <2>1, <3>1, <3>2, ProgramSteps DEF SetupInv
    <3>4. \A s \in Stages : sub'[s] # "off" => sub[s] # "off" \/ s = Program[step]
      BY <3>1 DEF TypeOK
    <3>5. \A s \in Stages : sub[s] # "off" => sub'[s] # "off"
      BY <3>1 DEF TypeOK
    <3>6. /\ Program[step] = "pool" => step = 7
          /\ Program[step] = "organizer" => step = 8
          /\ Program[step] = "tracker" => step = 9
      BY <2>1, ProgramSteps
    <3>7. \A s \in Stages : held'[s] # {} => sub'[s] # "off"
      BY <3>1, <3>5 DEF SetupInv
    <3>8. /\ sub'["pool"] # "off" => step' > 7
          /\ sub'["organizer"] # "off" => step' > 8
          /\ sub'["tracker"] # "off" => step' > 9
      BY <2>1, <3>1, <3>4, <3>6 DEF SetupInv, Stages
    <3> QED BY <2>1, <3>1, <3>3, <3>7, <3>8 DEF SetupInv
  <2>4. ASSUME Program[step] = "ingest", LaunchIngest PROVE SetupInv'
    <3>1. step = 10 /\ step' = 11 /\ UNCHANGED <<declared, sub, held>>
      BY <2>1, <2>4, ProgramSteps DEF LaunchIngest
    <3>2. "ingest" \notin Declarations
      BY InputsAndQueues DEF Declarations
    <3> QED BY <2>4, <3>1, <3>2, ProgramSteps DEF SetupInv
  <2> QED BY <1>1, <2>2, <2>3, <2>4, EndSetup DEF MainStep
<1>2. CASE TakeReport \/ Crash
  BY <1>2, EndSetup DEF TakeReport, Crash
<1>3. CASE Stop \/ StartAgain \/ Disconnect \/ BrokerRestarts \/ IngestStops
  BY <1>3, SetupKept DEF Stop, StartAgain, Disconnect, BrokerRestarts, IngestStops, SetupInv
<1>4. ASSUME NEW s \in Stages, Deliver(s) PROVE SetupInv'
  BY <1>4, SetupKept DEF Deliver, SetupInv
<1>5. ASSUME NEW s \in Stages, Take(s) PROVE SetupInv'
  <2>1. /\ sub[s] # "off"
        /\ \A t \in Stages \ {s} : held'[t] = held[t]
        /\ UNCHANGED <<declared, step, sub, todo>>
    BY <1>5 DEF Take, Receptive, TypeOK
  <2> QED BY <2>1, SetupKept DEF SetupInv
<1>6. ASSUME NEW s \in Stages, Subscribe(s) \/ Close(s) \/ Leave(s) PROVE SetupInv'
  <2>1. /\ \A t \in Stages : sub[t] # "off" <=> sub'[t] # "off"
        /\ UNCHANGED <<declared, step, held, todo>>
    BY <1>6 DEF Subscribe, Close, Leave, Receptive, TypeOK
  <2> QED BY <2>1 DEF SetupInv, Stages
<1>7. ASSUME NEW c \in Copies, NEW s \in Stages, Release(s, c) PROVE SetupInv'
  <2>1. /\ \A t \in Stages : held'[t] \subseteq held[t]
        /\ UNCHANGED <<declared, step, sub, todo>>
    BY <1>7 DEF Release, TypeOK
  <2> QED BY <2>1, SetupKept DEF SetupInv
<1>8. ASSUME NEW c \in Copies, Route(c) \/ Republish(c) \/ PublishResult(c) \/ Abort(c)
      PROVE  SetupInv'
  BY <1>7, <1>8 DEF Route, Republish, PublishResult, Abort, Stages
<1>9. ASSUME NEW e \in todo, Dispatch(e) PROVE SetupInv'
  BY <1>9, SetupKept DEF Dispatch, SetupInv
<1>10. CASE UNCHANGED vars
  BY <1>10, SetupKept DEF SetupInv
<1> QED
  BY <1>1, <1>2, <1>3, <1>4, <1>5, <1>6, <1>8, <1>9, <1>10 DEF Next, Flow

\* Both invariants hold in every reachable state.
LEMMA SetupAlways == Spec => [](TypeOK /\ SetupInv)
<1>1. Init => TypeOK /\ SetupInv
  <2> SUFFICES ASSUME Init PROVE SetupInv
    BY TypeInit
  <2>1. \A s \in Stages : sub[s] = "off" /\ held[s] = {}
    BY DEF Init, Nowhere
  <2> QED BY <2>1, ProgramSteps DEF Init, SetupInv, Stages
<1>2. TypeOK /\ SetupInv /\ [Next]_vars => (TypeOK /\ SetupInv)'
  BY TypeStep, SetupStep
<1> QED BY <1>1, <1>2, PTL DEF Spec

\* In every run a stage finds the queues, the exchange and the binding it
\* needs, whatever is killed, disconnected or restarted before.
THEOREM AlwaysSetUpFirst == Spec => []SetupFirst
<1>1. TypeOK /\ SetupInv => SetupFirst
  BY SetupSuffices
<1> QED BY <1>1, SetupAlways, PTL

-----------------------------------------------------------------------------
(* Where a copy is *)

\* A copy moves to one place, or to none.
Moves(c) == Places(c) # {} /\ \E t : Places(c)' \subseteq {t}

\* Only Ingest brings in a copy, that of an event it has not published yet.
Enters(c) == \E e \in todo :
  Dispatch(e) /\ c = <<run, e>> /\ Places(c)' \subseteq Places(c) \cup {<<"queue", "validated">>}

\* What it means that a place holds a copy, before and after a step.
LEMMA PlacesNow ==
  ASSUME NEW c, NEW p
  PROVE  p \in Places(c) <=>
           \/ \E q \in Queues : p = <<"queue", q>> /\ c \in queue[q]
           \/ \E s \in Stages : p = <<"buffer", s>> /\ c \in buffer[s]
           \/ \E s \in Stages : p = <<"held", s>> /\ c \in held[s]
           \/ \E r \in Runs : p = <<"report", r>> /\ c \in reports[r]
BY DEF Places

\* The same of the state after a step.
LEMMA PlacesNext ==
  ASSUME NEW c, NEW p
  PROVE  p \in Places(c)' <=>
           \/ \E q \in Queues : p = <<"queue", q>> /\ c \in queue'[q]
           \/ \E s \in Stages : p = <<"buffer", s>> /\ c \in buffer'[s]
           \/ \E s \in Stages : p = <<"held", s>> /\ c \in held'[s]
           \/ \E r \in Runs : p = <<"report", r>> /\ c \in reports'[r]
BY DEF Places

\* A step that adds the copy nowhere leaves it where it is or drops it.
LEMMA Dropped ==
  ASSUME NEW c,
         \A q \in Queues : c \in queue'[q] => c \in queue[q],
         \A s \in Stages : c \in buffer'[s] => c \in buffer[s],
         \A s \in Stages : c \in held'[s] => c \in held[s],
         \A r \in Runs : c \in reports'[r] => c \in reports[r]
  PROVE  Places(c)' \subseteq Places(c)
BY PlacesNow, PlacesNext

\* A copy that is in one place only, leaves it and is put in another, moves.
LEMMA Moved ==
  ASSUME NEW c \in Copies, CountedOnce, NEW p \in Places(c), NEW t,
         p \notin Places(c)', Places(c)' \subseteq Places(c) \cup {t}
  PROVE  Moves(c)
BY DEF CountedOnce, Moves

\* Every step leaves a copy, moves it, or brings it in.
LEMMA Traced ==
  ASSUME TypeOK, CountedOnce, [Next]_vars, NEW c \in Copies
  PROVE  Places(c)' \subseteq Places(c) \/ Moves(c) \/ Enters(c)
<1> USE DEF vars, processVars, stageVars
<1>0. ASSUME EndProcess, UNCHANGED <<queue, reports>> PROVE Places(c)' \subseteq Places(c)
  <2>1. \A s \in Stages : buffer'[s] = {} /\ held'[s] = {}
    BY <1>0 DEF EndProcess, Nowhere
  <2> QED BY <1>0, <2>1, Dropped
<1>1. ASSUME UNCHANGED <<queue, buffer, held, reports>> PROVE Places(c)' \subseteq Places(c)
  BY <1>1, Dropped
<1>2. CASE MainStep
  BY <1>0, <1>1, <1>2 DEF MainStep, Declare, Launch, LaunchIngest
<1>3. CASE Crash
  BY <1>0, <1>3 DEF Crash
<1>4. CASE Stop \/ StartAgain \/ Disconnect \/ IngestStops \/ UNCHANGED vars
  BY <1>1, <1>4 DEF Stop, StartAgain, Disconnect, IngestStops
<1>5. CASE TakeReport
  <2>1. /\ \A s \in Stages : buffer'[s] = {} /\ held'[s] = {}
        /\ \A r \in Runs : c \in reports'[r] => c \in reports[r] \/ (r = run /\ c \in held["tracker"])
        /\ UNCHANGED queue
    BY <1>5 DEF TakeReport, EndProcess, Nowhere, TypeOK
  <2>2. CASE c \notin held["tracker"]
    BY <2>1, <2>2, Dropped
  <2>3. CASE c \in held["tracker"]
    <3>1. <<"held", "tracker">> \in Places(c)
      BY <2>3, PlacesNow DEF Stages
    <3>2. <<"held", "tracker">> \notin Places(c)'
      BY <2>1, PlacesNext
    <3>3. Places(c)' \subseteq Places(c) \cup {<<"report", run>>}
      BY <2>1, PlacesNow, PlacesNext
    <3> QED BY <3>1, <3>2, <3>3, Moved
  <2> QED BY <2>2, <2>3
<1>6. CASE BrokerRestarts
  <2>1. (\A q \in Queues : queue'[q] = {}) /\ UNCHANGED <<buffer, held, reports>>
    BY <1>6 DEF BrokerRestarts, Nowhere
  <2> QED BY <2>1, Dropped
<1>7. ASSUME NEW s \in Stages, Subscribe(s) \/ Close(s) \/ Leave(s)
      PROVE  Places(c)' \subseteq Places(c)
  <2>1. /\ \A t \in Stages : buffer'[t] \subseteq buffer[t]
        /\ UNCHANGED <<queue, held, reports>>
    BY <1>7 DEF Subscribe, Close, Leave, TypeOK
  <2> QED BY <2>1, Dropped
<1>8. ASSUME NEW s \in Stages, Deliver(s) PROVE Places(c)' \subseteq Places(c) \/ Moves(c)
  <2>1. PICK d \in queue[Input[s]] :
          /\ queue' = [queue EXCEPT ![Input[s]] = @ \ {d}]
          /\ buffer' = [buffer EXCEPT ![s] = @ \cup {d}]
    BY <1>8 DEF Deliver
  <2>2. /\ \A q \in Queues : queue'[q] \subseteq queue[q]
        /\ d \notin queue'[Input[s]]
        /\ \A t \in Stages : c \in buffer'[t] => c \in buffer[t] \/ (t = s /\ c = d)
        /\ UNCHANGED <<held, reports>>
    BY <1>8, <2>1, InputsAndQueues DEF Deliver, TypeOK
  <2>3. CASE c # d
    BY <2>2, <2>3, Dropped
  <2>4. CASE c = d
    <3>1. <<"queue", Input[s]>> \in Places(c)
      BY <2>1, <2>4, PlacesNow, InputsAndQueues
    <3>2. <<"queue", Input[s]>> \notin Places(c)'
      BY <2>2, <2>4, PlacesNext
    <3>3. Places(c)' \subseteq Places(c) \cup {<<"buffer", s>>}
      BY <2>2, PlacesNow, PlacesNext
    <3> QED BY <3>1, <3>2, <3>3, Moved
  <2> QED BY <2>3, <2>4
<1>9. ASSUME NEW s \in Stages, Take(s) PROVE Places(c)' \subseteq Places(c) \/ Moves(c)
  <2>1. PICK d \in buffer[s] :
          /\ buffer' = [buffer EXCEPT ![s] = @ \ {d}]
          /\ held' = [held EXCEPT ![s] = @ \cup {d}]
    BY <1>9 DEF Take
  <2>2. /\ \A t \in Stages : buffer'[t] \subseteq buffer[t]
        /\ d \notin buffer'[s]
        /\ \A t \in Stages : c \in held'[t] => c \in held[t] \/ (t = s /\ c = d)
        /\ UNCHANGED <<queue, reports>>
    BY <1>9, <2>1 DEF Take, TypeOK
  <2>3. CASE c # d
    BY <2>2, <2>3, Dropped
  <2>4. CASE c = d
    <3>1. <<"buffer", s>> \in Places(c)
      BY <2>1, <2>4, PlacesNow
    <3>2. <<"buffer", s>> \notin Places(c)'
      BY <2>2, <2>4, PlacesNext
    <3>3. Places(c)' \subseteq Places(c) \cup {<<"held", s>>}
      BY <2>2, PlacesNow, PlacesNext
    <3> QED BY <3>1, <3>2, <3>3, Moved
  <2> QED BY <2>3, <2>4
<1>10. ASSUME NEW d \in Copies, NEW s \in Stages, NEW q \in Queues, Release(s, d),
              Publish(q, d) \/ UNCHANGED queue
       PROVE  Places(c)' \subseteq Places(c) \/ Moves(c)
  <2>1. /\ \A t \in Stages : held'[t] \subseteq held[t]
        /\ d \in held[s] /\ d \notin held'[s]
        /\ \A r \in Queues : c \in queue'[r] => c \in queue[r] \/ (r = q /\ c = d)
        /\ UNCHANGED <<buffer, reports>>
    BY <1>10 DEF Release, Publish, Enqueue, TypeOK
  <2>3. CASE c # d
    BY <2>1, <2>3, Dropped
  <2>4. CASE c = d
    <3>1. <<"held", s>> \in Places(c)
      BY <2>1, <2>4, PlacesNow
    <3>2. <<"held", s>> \notin Places(c)'
      BY <2>1, <2>4, PlacesNext
    <3>3. Places(c)' \subseteq Places(c) \cup {<<"queue", q>>}
      BY <2>1, PlacesNow, PlacesNext
    <3> QED BY <3>1, <3>2, <3>3, Moved
  <2> QED BY <2>3, <2>4
<1>11. ASSUME NEW d \in Copies, Route(d) \/ Republish(d) \/ PublishResult(d) \/ Abort(d)
       PROVE  Places(c)' \subseteq Places(c) \/ Moves(c)
  BY <1>10, <1>11, InputsAndQueues DEF Route, Republish, PublishResult, Abort, Stages
<1>12. ASSUME NEW e \in todo, Dispatch(e) PROVE Places(c)' \subseteq Places(c) \/ Enters(c)
  <2>1. /\ \A q \in Queues :
             c \in queue'[q] => c \in queue[q] \/ (q = "validated" /\ c = <<run, e>>)
        /\ UNCHANGED <<buffer, held, reports>>
    BY <1>12, InputsAndQueues DEF Dispatch, Enqueue, TypeOK
  <2>2. CASE c # <<run, e>>
    BY <2>1, <2>2, Dropped
  <2>3. CASE c = <<run, e>>
    <3>1. Places(c)' \subseteq Places(c) \cup {<<"queue", "validated">>}
      BY <2>1, PlacesNow, PlacesNext
    <3> QED BY <1>12, <2>3, <3>1 DEF Enters
  <2> QED BY <2>2, <2>3
<1> QED
  BY <1>2, <1>3, <1>4, <1>5, <1>6, <1>7, <1>8, <1>9, <1>11, <1>12 DEF Next, Flow

-----------------------------------------------------------------------------
(* Counted once *)

\* No copy of a run is anywhere before Ingest of that run has published it.
FreshInv ==
  \A c \in Copies : Places(c) # {} =>
    \/ c[1] < run
    \/ c[1] = run /\ main = "ended"
    \/ c[1] = run /\ step > Len(Program) /\ c[2] \notin todo

\* The run of a copy and its event.
LEMMA CopyParts ==
  ASSUME NEW c \in Copies
  PROVE  c[1] \in Runs /\ c = <<c[1], c[2]>>
BY DEF Copies

\* Nothing is anywhere in the beginning.
LEMMA NothingYet == Init => \A c \in Copies : Places(c) = {}
<1> SUFFICES ASSUME Init, NEW c \in Copies PROVE Places(c) = {}
  OBVIOUS
<1>1. /\ \A q \in Queues : queue[q] = {}
      /\ \A s \in Stages : buffer[s] = {} /\ held[s] = {}
      /\ \A r \in Runs : reports[r] = {}
  BY DEF Init, Nowhere
<1> QED BY <1>1, PlacesNow

\* What Ingest has still to publish is not anywhere yet, so that publishing it
\* puts it in one place.
LEMMA OnceStep ==
  ASSUME TypeOK, CountedOnce, FreshInv, [Next]_vars
  PROVE  CountedOnce'
<1> SUFFICES ASSUME NEW c \in Copies PROVE \A p, q \in Places(c)' : p = q
  BY DEF CountedOnce
<1>1. CASE Places(c)' \subseteq Places(c)
  BY <1>1 DEF CountedOnce
<1>2. CASE Moves(c)
  BY <1>2 DEF Moves
<1>3. CASE Enters(c)
  <2>1. PICK e \in todo :
          c = <<run, e>> /\ Places(c)' \subseteq Places(c) \cup {<<"queue", "validated">>}
    BY <1>3 DEF Enters
  <2>2. run \in Nat /\ main # "ended"
    BY <2>1, RunsAreNumbers DEF TypeOK
  <2>3. c[1] = run /\ c[2] = e
    BY <2>1
  <2>4. Places(c) = {}
    BY <2>1, <2>2, <2>3 DEF FreshInv
  <2> QED BY <2>1, <2>4
<1> QED BY <1>1, <1>2, <1>3, Traced

\* A copy that appears is one that Ingest has just published.
LEMMA FreshStep ==
  ASSUME TypeOK, CountedOnce, SetupInv, FreshInv, [Next]_vars
  PROVE  FreshInv'
<1> SUFFICES ASSUME NEW c \in Copies, Places(c)' # {}
             PROVE  \/ c[1] < run'
                    \/ c[1] = run' /\ main' = "ended"
                    \/ c[1] = run' /\ step' > Len(Program) /\ c[2] \notin todo'
  BY DEF FreshInv
<1> USE ProgramSteps DEF vars, processVars, stageVars
<1>1. c[1] \in Nat /\ run \in Nat /\ step \in Nat
  BY CopyParts, RunsAreNumbers DEF TypeOK
<1>2. CASE Enters(c)
  <2>1. PICK e \in todo : Dispatch(e) /\ c = <<run, e>>
    BY <1>2 DEF Enters
  <2>2. c[1] = run /\ c[2] = e /\ step > 10
    BY <2>1 DEF SetupInv
  <2> QED BY <2>1, <2>2 DEF Dispatch
<1>3. CASE Places(c) # {}
  <2>0. \/ c[1] < run
        \/ c[1] = run /\ main = "ended"
        \/ c[1] = run /\ step > 10 /\ c[2] \notin todo
    BY <1>3 DEF FreshInv
  <2>1. CASE EndProcess
    BY <1>1, <2>0, <2>1 DEF EndProcess
  <2>2. CASE StartAgain
    BY <1>1, <2>0, <2>2 DEF StartAgain
  <2>3. CASE MainStep /\ ~EndProcess
    BY <1>1, <2>0, <2>3 DEF MainStep, Declare, Launch, LaunchIngest
  <2>4. ASSUME UNCHANGED <<run, step>>, main' = main \/ main # "ended", todo' \subseteq todo
        PROVE  \/ c[1] < run'
               \/ c[1] = run' /\ main' = "ended"
               \/ c[1] = run' /\ step' > Len(Program) /\ c[2] \notin todo'
    BY <2>0, <2>4
  <2>5. CASE Stop \/ Disconnect \/ BrokerRestarts \/ IngestStops \/ UNCHANGED vars
    BY <2>4, <2>5 DEF Stop, Disconnect, BrokerRestarts, IngestStops
  <2>6. CASE \E s \in Stages : Subscribe(s) \/ Deliver(s) \/ Take(s) \/ Close(s) \/ Leave(s)
    BY <2>4, <2>6 DEF Subscribe, Deliver, Take, Close, Leave
  <2>7. CASE \E d \in Copies : Route(d) \/ Republish(d) \/ PublishResult(d) \/ Abort(d)
    BY <2>4, <2>7 DEF Route, Republish, PublishResult, Abort, Release
  <2>8. CASE \E e \in todo : Dispatch(e)
    BY <2>4, <2>8 DEF Dispatch
  <2>9. CASE TakeReport \/ Crash
    BY <2>1, <2>9 DEF TakeReport, Crash
  <2> QED
    BY <2>1, <2>2, <2>3, <2>5, <2>6, <2>7, <2>8, <2>9 DEF Next, Flow
<1> QED BY <1>2, <1>3, Traced DEF Moves

\* The inductive invariant holds in every reachable state.
LEMMA PlacesAlways == Spec => [](CountedOnce /\ FreshInv)
<1>1. Init => CountedOnce /\ FreshInv
  BY NothingYet DEF CountedOnce, FreshInv
<1>2. TypeOK /\ SetupInv /\ CountedOnce /\ FreshInv /\ [Next]_vars
        => (CountedOnce /\ FreshInv)'
  BY OnceStep, FreshStep
<1> QED BY <1>1, <1>2, SetupAlways, PTL DEF Spec

\* No event is counted in two reports, or counted while it is still in a queue
\* or under way, however often the program or the broker is stopped.
THEOREM NeverCountedTwice == Spec => []CountedOnce
BY PlacesAlways, PTL

-----------------------------------------------------------------------------
(* What can be lost *)

\* When a copy is gone, who is to blame.
Excused(c) == IF \E q \in Queues : c \in queue[q] THEN BrokerRestarts
              ELSE cancelled \/ ~up \/ main' = "ended" \/ c \in refused'

\* A message that is published while the connection is open, to a queue that is
\* there, is in that queue.
LEMMA Enqueued ==
  ASSUME TypeOK, NEW q \in Queues, NEW c, Enqueue(q, c), up, q \in declared
  PROVE  Places(c)' # {}
<1>1. c \in queue'[q]
  BY DEF Enqueue, TypeOK
<1> QED BY <1>1, PlacesNext

\* A copy that is gone although the queues are as before was in none of them.
LEMMA KeptInQueue ==
  ASSUME NEW c, Places(c)' = {}, UNCHANGED queue
  PROVE  ~ \E q \in Queues : c \in queue[q]
BY PlacesNext

\* Every step that drops a copy is excused.
LEMMA LossStep ==
  ASSUME TypeOK, SetupInv, [Next]_vars,
         NEW c \in Copies, Places(c) # {}, Places(c)' = {}
  PROVE  Excused(c)
<1> USE DEF vars, processVars, stageVars
<1>0. /\ \A q \in Queues : c \notin queue'[q]
      /\ \A s \in Stages : c \notin buffer'[s] /\ c \notin held'[s]
      /\ \A r \in Runs : c \notin reports'[r]
  BY PlacesNext
<1>1. ASSUME UNCHANGED <<queue, buffer, held, reports>> PROVE FALSE
  BY <1>0, <1>1, PlacesNow
<1>2. ASSUME EndProcess, UNCHANGED queue PROVE Excused(c)
  BY <1>0, <1>2, KeptInQueue DEF EndProcess, Excused
<1>3. CASE MainStep
  BY <1>1, <1>2, <1>3 DEF MainStep, Declare, Launch, LaunchIngest
<1>4. CASE TakeReport \/ Crash
  BY <1>2, <1>4 DEF TakeReport, Crash
<1>5. CASE Stop \/ StartAgain \/ Disconnect \/ IngestStops \/ UNCHANGED vars
  BY <1>1, <1>5 DEF Stop, StartAgain, Disconnect, IngestStops
<1>6. CASE BrokerRestarts
  <2>1. CASE \E q \in Queues : c \in queue[q]
    BY <1>6, <2>1 DEF Excused
  <2>2. CASE ~ \E q \in Queues : c \in queue[q]
    BY <1>0, <1>6, <2>2, PlacesNow DEF BrokerRestarts
  <2> QED BY <2>1, <2>2
<1>7. ASSUME NEW s \in Stages, Subscribe(s) PROVE Excused(c)
  BY <1>1, <1>7 DEF Subscribe
<1>8. ASSUME NEW s \in Stages, Close(s) PROVE Excused(c)
  BY <1>8, KeptInQueue DEF Close, Excused
<1>9. ASSUME NEW s \in Stages, Leave(s) PROVE Excused(c)
  <2>1. CASE cancelled
    BY <1>9, <2>1, KeptInQueue DEF Leave, Excused
  <2>2. CASE ~cancelled
    <3>1. buffer[s] = {} /\ buffer' = [buffer EXCEPT ![s] = {}]
      BY <1>9, <2>2 DEF Leave
    <3>2. \A t \in Stages : buffer'[t] = buffer[t]
      BY <3>1 DEF TypeOK
    <3> QED BY <1>0, <1>9, <3>2, PlacesNow DEF Leave
  <2> QED BY <2>1, <2>2
<1>10. ASSUME NEW s \in Stages, Deliver(s) PROVE FALSE
  <2>1. PICK d \in queue[Input[s]] :
          /\ queue' = [queue EXCEPT ![Input[s]] = @ \ {d}]
          /\ buffer' = [buffer EXCEPT ![s] = @ \cup {d}]
    BY <1>10 DEF Deliver
  <2>2. /\ d \in buffer'[s]
        /\ \A t \in Stages : buffer[t] \subseteq buffer'[t]
        /\ \A q \in Queues : c \in queue[q] => c \in queue'[q] \/ c = d
    BY <2>1, InputsAndQueues DEF TypeOK
  <2> QED BY <1>0, <1>10, <2>2, PlacesNow DEF Deliver
<1>11. ASSUME NEW s \in Stages, Take(s) PROVE FALSE
  <2>1. PICK d \in buffer[s] :
          /\ buffer' = [buffer EXCEPT ![s] = @ \ {d}]
          /\ held' = [held EXCEPT ![s] = @ \cup {d}]
    BY <1>11 DEF Take
  <2>2. /\ d \in held'[s]
        /\ \A t \in Stages : held[t] \subseteq held'[t]
        /\ \A t \in Stages : c \in buffer[t] => c \in buffer'[t] \/ c = d
    BY <2>1 DEF TypeOK
  <2> QED BY <1>0, <1>11, <2>2, PlacesNow DEF Take
<1>12. ASSUME NEW s \in Stages, NEW d \in Copies, NEW q \in Queues, Release(s, d),
              Publish(q, d), up => q \in declared
       PROVE  Excused(c)
  <2>1. /\ \A r \in Queues : queue[r] \subseteq queue'[r]
        /\ \A t \in Stages : c \in held[t] => c \in held'[t] \/ c = d
        /\ UNCHANGED <<buffer, reports>>
    BY <1>12 DEF Release, Publish, Enqueue, TypeOK
  <2>2. c = d
    BY <1>0, <2>1, PlacesNow
  <2>3. ~up \/ c \in refused'
    BY <1>12, <2>2, Enqueued DEF Publish
  <2>4. ~ \E r \in Queues : c \in queue[r]
    BY <1>0, <2>1
  <2> QED BY <2>3, <2>4 DEF Excused
<1>13. ASSUME NEW s \in Stages, NEW d \in held[s]
       PROVE  Needs[s] \subseteq declared
  BY SetupSuffices DEF SetupFirst, SetupInv
<1>14. ASSUME NEW d \in Copies, Route(d) PROVE Excused(c)
  <2>1. d \in held["organizer"] /\ "organizer" \in Stages
    BY <1>14 DEF Route, Release, Stages
  <2>2. {"exchange", "team", "binding"} \subseteq declared
    BY <1>13, <2>1 DEF Needs
  <2> QED BY <1>12, <1>14, <2>1, <2>2, InputsAndQueues DEF Route
<1>15. ASSUME NEW d \in Copies, Republish(d) \/ PublishResult(d) PROVE Excused(c)
  <2>1. d \in held["pool"] /\ "pool" \in Stages
    BY <1>15 DEF Republish, PublishResult, Release, Stages
  <2>2. {"team", "results"} \subseteq declared
    BY <1>13, <2>1 DEF Needs
  <2> QED BY <1>12, <1>15, <2>1, <2>2, InputsAndQueues DEF Republish, PublishResult
<1>16. ASSUME NEW d \in Copies, Abort(d) PROVE Excused(c)
  BY <1>16, KeptInQueue DEF Abort, Excused
<1>17. ASSUME NEW e \in todo, Dispatch(e) PROVE FALSE
  <2>1. (\A q \in Queues : queue[q] \subseteq queue'[q]) /\ UNCHANGED <<buffer, held, reports>>
    BY <1>17 DEF Dispatch, Enqueue, TypeOK
  <2> QED BY <1>0, <2>1, PlacesNow
<1> QED
  BY <1>3, <1>4, <1>5, <1>6, <1>7, <1>8, <1>9, <1>10, <1>11, <1>14, <1>15, <1>16, <1>17
     DEF Next, Flow

\* A queue loses an event only when the broker restarts, and the program only
\* when it is stopped, disconnected, refused a channel or ends; no publication
\* goes nowhere unnoticed.
THEOREM NothingVanishes == Spec => LostOnlyIfDisturbed
<1>1. TypeOK /\ SetupInv /\ [Next]_vars
        => [\A c \in Copies :
              Places(c) # {} /\ Places(c)' = {} =>
                IF \E q \in Queues : c \in queue[q] THEN BrokerRestarts
                ELSE cancelled \/ ~up \/ main' = "ended" \/ c \in refused']_vars
  BY LossStep DEF Excused
<1> QED BY <1>1, SetupAlways, PTL DEF Spec, LostOnlyIfDisturbed
=============================================================================

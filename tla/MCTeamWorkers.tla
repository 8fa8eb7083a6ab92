--------------------------- MODULE MCTeamWorkers ---------------------------
(***************************************************************************)
(* Values for the constants of TeamWorkers.  A tick stands for 5 seconds:  *)
(* the deadlines of 5, 10 and 15 seconds and the phases of 5 and 20 are    *)
(* exact.  The 60 seconds of a concentrated phase are cut to 4 ticks, one  *)
(* more than the longest deadline, and the 3 seconds of handling are       *)
(* rounded up to one tick.                                                 *)
(***************************************************************************)
EXTENDS TeamWorkers, TLC

CONSTANTS w1, w2

MCDeadlines == [High |-> 1, Medium |-> 2, Low |-> 3]

MCRoutines == [standard     |-> [work |-> 4, idle |-> 1],
               intermittent |-> [work |-> 1, idle |-> 1],
               concentrated |-> [work |-> 4, idle |-> 4]]

MedicalOnly == {"medical"}
CateringOnly == {"catering"}
TwoTeams == {"medical", "venue"}

OneWorker == {w1}
TwoWorkers == {w1, w2}

OneMedical   == [w \in OneWorker |-> "medical"]
OneCatering  == [w \in OneWorker |-> "catering"]
BothMedical  == [w \in TwoWorkers |-> "medical"]
OneEach == [w \in TwoWorkers |-> IF w = w1 THEN "medical" ELSE "venue"]

\* Two workers of one team are interchangeable.
WorkerSymmetry == Permutations(TwoWorkers)

One == {1}
Two == 1..2
AllIll == [e \in 1..3 |-> "feeling_ill"]
AllHungry == [e \in 1..3 |-> "bad_food"]

AllHigh == [e \in 1..3 |-> "High"]
EachPriority == [e \in 1..3 |-> IF e = 1 THEN "High" ELSE IF e = 2 THEN "Low" ELSE "Medium"]
=============================================================================

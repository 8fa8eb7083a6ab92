--------------------------- MODULE MCCoordinator ---------------------------
(***************************************************************************)
(* Datasets of four events for Coordinator: every assignment of the times  *)
(* 0..2 or of no time to them.  The third event has a type that no team    *)
(* handles.                                                                *)
(***************************************************************************)
EXTENDS Coordinator

NoTime == -1
MCEvents == 1..4
MCDeadlines == [High |-> 1, Medium |-> 2, Low |-> 3]
MCPriorities == [e \in MCEvents |-> "High"]
MCTypes == [e \in MCEvents |-> IF e = 3 THEN "juggling" ELSE "brawl"]
=============================================================================

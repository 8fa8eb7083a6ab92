---------------------------- MODULE MCOrganizer ----------------------------
(***************************************************************************)
(* Four events for the organizer: two of the security team and one of the  *)
(* medical team with different priorities, and one that no team handles;   *)
(* and a message, 0, that is no event.                                     *)
(* The fifth priority, an unknown one, is for the heap alone: with five    *)
(* elements it has three levels.                                           *)
(***************************************************************************)
EXTENDS Organizer

MCEvents == 1..4
MCDeadlines == [High |-> 1, Medium |-> 2, Low |-> 3]
MCPriorities == <<"Low", "High", "Medium", "High", "Urgent">>
MCMalformed == {0}
MCTypes == <<"brawl", "accident", "feeling_ill", "juggling">>
=============================================================================

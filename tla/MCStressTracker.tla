-------------------------- MODULE MCStressTracker --------------------------
(* Two events of different teams and priorities for the tracker. *)
EXTENDS StressTracker

MCEvents == 1..2
MCDeadlines == [High |-> 1, Medium |-> 2, Low |-> 3]
MCPriorities == <<"Low", "High">>
MCTypes == <<"brawl", "feeling_ill">>
=============================================================================

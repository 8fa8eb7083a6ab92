---------------------------- MODULE MCMockBroker ----------------------------
(* Values for the constants of MockBroker. *)
EXTENDS MockBroker, TLC

CONSTANTS s1, s2, p1, p2

TwoSubs == {s1, s2}
TwoPublishers == {p1, p2}
Interchangeable == Permutations(TwoSubs) \cup Permutations(TwoPublishers)
=============================================================================

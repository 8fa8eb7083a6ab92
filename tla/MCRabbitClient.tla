--------------------------- MODULE MCRabbitClient ---------------------------
(***************************************************************************)
(* Two publishers, one of which publishes twice, so that a message can be  *)
(* overtaken; out holds one delivery, so that the third finds it full with *)
(* another in the hand of the forwarder; two channels for three owners.    *)
(***************************************************************************)
EXTENDS RabbitClient

CONSTANTS p1, p2, consumer

MCPublishers == {p1, p2}
MCMaxCalls == [p \in MCPublishers |-> IF p = p1 THEN 2 ELSE 1]
=============================================================================

---------------------------- MODULE Consumption ----------------------------
(***************************************************************************)
(* What a consumer of the pipeline sees of broker.Broker: a queue inside   *)
(* RabbitMQ, and one subscription to it with automatic acknowledgement.    *)
(*                                                                         *)
(* A delivered message is no longer the broker's.  A subscription ends     *)
(* when its context is done or the connection is lost; the deliveries that *)
(* the client has not forwarded by then are dropped, and a consumer that   *)
(* leaves drops the rest.  The organizer and the tracker are built on this *)
(* module, and RabbitClient implements it.                                 *)
(***************************************************************************)
EXTENDS Naturals, Sequences

CONSTANT Messages

VARIABLES
  up,            \* the connection is open
  cancelled,     \* the context of the subscription is done
  queue,         \* the queue inside RabbitMQ
  subscription,  \* "none", "open" or "closed"
  deliveries     \* delivered and not read yet

\* Anyone may publish to the queue.
Enqueue(m) == /\ queue' = Append(queue, m)
              /\ UNCHANGED <<up, cancelled, subscription, deliveries>>

Cancel == /\ ~cancelled
          /\ cancelled' = TRUE
          /\ UNCHANGED <<up, queue, subscription, deliveries>>

Disconnect == /\ up
              /\ up' = FALSE
              /\ UNCHANGED <<cancelled, queue, subscription, deliveries>>

Subscribe == /\ up
             /\ subscription = "none"
             /\ subscription' = "open"
             /\ UNCHANGED <<up, cancelled, queue, deliveries>>

Deliver == /\ up
           /\ subscription = "open"
           /\ queue # <<>>
           /\ deliveries' = Append(deliveries, Head(queue))
           /\ queue' = Tail(queue)
           /\ UNCHANGED <<up, cancelled, subscription>>

Close == /\ subscription = "open"
         /\ cancelled \/ ~up
         /\ subscription' = "closed"
         /\ \E n \in 0..Len(deliveries) : deliveries' = SubSeq(deliveries, 1, n)
         /\ UNCHANGED <<up, cancelled, queue>>

Read == /\ deliveries # <<>>
        /\ deliveries' = Tail(deliveries)
        /\ UNCHANGED <<up, cancelled, queue, subscription>>

\* The consumer finds its deliveries closed and read to the end.
Ended == subscription = "closed" /\ deliveries = <<>>

Leave == /\ cancelled \/ Ended
         /\ subscription' = "closed"
         /\ deliveries' = <<>>
         /\ UNCHANGED <<up, cancelled, queue>>

Init == /\ up = TRUE /\ cancelled = FALSE
        /\ queue = <<>>
        /\ subscription = "none" /\ deliveries = <<>>

Next == \/ \E m \in Messages : Enqueue(m)
        \/ Cancel \/ Disconnect
        \/ Subscribe \/ Deliver \/ Close \/ Read \/ Leave

Spec == Init /\ [][Next]_<<up, cancelled, queue, subscription, deliveries>>

\* Every variable has its type.
TypeOK == /\ up \in BOOLEAN /\ cancelled \in BOOLEAN
          /\ queue \in Seq(Messages) /\ deliveries \in Seq(Messages)
          /\ subscription \in {"none", "open", "closed"}
=============================================================================

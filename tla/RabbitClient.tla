---------------------------- MODULE RabbitClient ----------------------------
(***************************************************************************)
(* The client of RabbitMQ (internal/broker/rabbitmq.go): goroutines that   *)
(* publish, each over an AMQP channel of its own, and one subscription     *)
(* with the goroutines Subscribe starts.                                   *)
(*                                                                         *)
(* A delivery passes from the broker into the buffer of the library, from  *)
(* there into the hand of the forwarding goroutine, into the Go channel    *)
(* out, and to the reader.  The cancel function is called by the reader    *)
(* and by the goroutine that waits for the context; a sync.Once lets one   *)
(* of them run its body and the other wait for it.                         *)
(*                                                                         *)
(* A message is <<p, n>>, the n-th that publisher p sends.                 *)
(***************************************************************************)
EXTENDS Naturals, Sequences, FiniteSets, SequencesExt

CONSTANTS Publishers,   \* the goroutines that call Publish
          Consumer,     \* the owner of the channel of the subscription
          OutSize,      \* capacity of out, 128 in the code
          ChannelMax,   \* channels the connection allows
          MaxCalls      \* bound on the calls of Publish of each publisher

ASSUME ClientAssumption ==
  /\ Consumer \notin Publishers
  /\ OutSize \in Nat \ {0} /\ ChannelMax \in Nat \ {0}
  /\ MaxCalls \in [Publishers -> Nat]

VARIABLES
  closed,       \* RabbitMQ.closed
  up,           \* the connection of the library is open
  channels,     \* the owners of the open AMQP channels
  calls,        \* how often a publisher has called Publish
  op,           \* where its present call is
  inFlight,     \* messages sent that the broker has not handled
  returned,     \* messages whose Publish has returned nil
  arrived,      \* messages the broker has put into the queue, in order
  queue,        \* the queue inside RabbitMQ
  sub,          \* where Subscribe is
  cancelled,    \* the context of the subscription is done
  once,         \* how far the body of cancelOnce has come
  waiter,       \* the goroutine that waits for the context
  reader,       \* the consumer of the subscription
  buffer,       \* deliveries the library holds
  bufferOpen,   \* its channel of deliveries is open
  forwarder,    \* the forwarding goroutine
  hand,         \* the delivery it is about to send
  out           \* the channel it sends to

publishVars == <<calls, op, inFlight, returned, arrived>>
flowVars == <<buffer, bufferOpen, forwarder, hand, out>>
cancelVars == <<once, waiter, reader>>
vars == <<closed, up, channels, publishVars, queue, sub, cancelled, cancelVars, flowVars>>

Message == UNION {{p} \X (1..MaxCalls[p]) : p \in Publishers}

-----------------------------------------------------------------------------
(* The connection *)

\* openChannel holds the mutex until the broker has answered.
CanOpen == ~closed /\ up /\ Cardinality(channels) < ChannelMax

\* Under the mutex; the connection ends later.
Close == /\ ~closed
         /\ closed' = TRUE
         /\ UNCHANGED <<up, channels, publishVars, queue, sub, cancelled, cancelVars, flowVars>>

\* Close has reached the library, or the broker or the network ends it.
ConnectionEnds ==
  /\ up
  /\ up' = FALSE
  /\ channels' = {}
  /\ UNCHANGED <<closed, publishVars, queue, sub, cancelled, cancelVars, flowVars>>

\* The owner of the context, main in the program, cancels it.
CancelContext ==
  /\ ~cancelled
  /\ cancelled' = TRUE
  /\ UNCHANGED <<closed, up, channels, publishVars, queue, sub, cancelVars, flowVars>>

-----------------------------------------------------------------------------
(* Publish *)

publishEnv == <<closed, up, queue, arrived, sub, cancelled, cancelVars, flowVars>>

OpenChannel(p) ==
  /\ op[p] = "idle"
  /\ calls[p] < MaxCalls[p]
  /\ calls' = [calls EXCEPT ![p] = @ + 1]
  /\ IF CanOpen THEN op' = [op EXCEPT ![p] = "opened"] /\ channels' = channels \cup {p}
                ELSE UNCHANGED <<op, channels>>
  /\ UNCHANGED <<publishEnv, inFlight, returned>>

\* Nothing is confirmed: the send succeeds once the frame is written.
SendFrame(p) ==
  /\ op[p] = "opened"
  /\ IF up THEN op' = [op EXCEPT ![p] = "sent"] /\ inFlight' = inFlight \cup {<<p, calls[p]>>}
           ELSE op' = [op EXCEPT ![p] = "failed"] /\ UNCHANGED inFlight
  /\ UNCHANGED <<publishEnv, channels, calls, returned>>

MutantCloseChannel(p) ==      \* does not wait for the answer of the broker
  /\ op[p] \in {"sent", "failed"}
  /\ channels' = channels \ {p}
  /\ op' = [op EXCEPT ![p] = "idle"]
  /\ returned' = IF op[p] = "sent" THEN returned \cup {<<p, calls[p]>>} ELSE returned
  /\ UNCHANGED <<publishEnv, calls, inFlight>>

\* The deferred closeChannel: the broker answers after it has handled what
\* came before on the channel.
CloseChannel(p) ==
  /\ op[p] \in {"sent", "failed"}
  /\ up => <<p, calls[p]>> \notin inFlight
  /\ channels' = channels \ {p}
  /\ op' = [op EXCEPT ![p] = "idle"]
  /\ returned' = IF op[p] = "sent" THEN returned \cup {<<p, calls[p]>>} ELSE returned
  /\ UNCHANGED <<publishEnv, calls, inFlight>>

\* Frames on different channels are handled in any order.  What the broker
\* has read it handles, although the client may see the connection end.
HandleFrame(m) ==
  /\ m \in inFlight
  /\ inFlight' = inFlight \ {m}
  /\ queue' = Append(queue, m)
  /\ arrived' = Append(arrived, m)
  /\ UNCHANGED <<closed, up, channels, calls, op, returned, sub, cancelled, cancelVars, flowVars>>

LoseFrame(m) ==
  /\ ~up
  /\ m \in inFlight
  /\ inFlight' = inFlight \ {m}
  /\ UNCHANGED <<publishEnv, channels, calls, op, returned>>

-----------------------------------------------------------------------------
(* Subscribe *)

SubscribeOpen ==
  /\ sub = "none"
  /\ IF CanOpen THEN sub' = "opened" /\ channels' = channels \cup {Consumer}
                ELSE sub' = "refused" /\ UNCHANGED channels
  /\ UNCHANGED <<closed, up, publishVars, queue, cancelled, cancelVars, flowVars>>

MutantRefuse ==               \* returns the error and forgets the channel
  /\ sub = "opened"
  /\ sub' = "refused"
  /\ UNCHANGED <<closed, up, channels, publishVars, queue, cancelled, cancelVars, flowVars>>

\* Qos or Consume fails: there is no such queue, or the connection has ended.
Refuse ==
  /\ sub = "opened"
  /\ sub' = "refused"
  /\ channels' = channels \ {Consumer}
  /\ UNCHANGED <<closed, up, publishVars, queue, cancelled, cancelVars, flowVars>>

Consume ==
  /\ sub = "opened"
  /\ up
  /\ sub' = "consuming"
  /\ waiter' = "waiting" /\ reader' = "reading"
  /\ bufferOpen' = TRUE /\ forwarder' = "running"
  /\ UNCHANGED <<closed, up, channels, publishVars, queue, cancelled, once, buffer, hand, out>>

BrokerDelivers ==
  /\ up
  /\ sub = "consuming" /\ once \in {"armed", "cancelling"}
  /\ queue # <<>>
  /\ buffer' = Append(buffer, Head(queue))
  /\ queue' = Tail(queue)
  /\ UNCHANGED <<closed, up, channels, publishVars, sub, cancelled, cancelVars, bufferOpen,
                 forwarder, hand, out>>

-----------------------------------------------------------------------------
(* The forwarding goroutine *)

forwardEnv == <<closed, up, channels, publishVars, queue, sub, cancelled, cancelVars>>

ForwarderReceives ==
  /\ forwarder = "running"
  /\ hand = <<>> /\ buffer # <<>>
  /\ hand' = <<Head(buffer)>>
  /\ buffer' = Tail(buffer)
  /\ UNCHANGED <<forwardEnv, bufferOpen, forwarder, out>>

MutantForwarderSends ==       \* takes out for an unbounded channel
  /\ hand # <<>>
  /\ out' = out \o hand
  /\ hand' = <<>>
  /\ UNCHANGED <<forwardEnv, buffer, bufferOpen, forwarder>>

ForwarderSends ==
  /\ hand # <<>>
  /\ Len(out) < OutSize
  /\ out' = out \o hand
  /\ hand' = <<>>
  /\ UNCHANGED <<forwardEnv, buffer, bufferOpen, forwarder>>

MutantForwarderEnds ==        \* leaves out open
  /\ forwarder = "running"
  /\ ~bufferOpen /\ hand = <<>>
  /\ forwarder' = "gone"
  /\ UNCHANGED <<forwardEnv, buffer, bufferOpen, hand, out>>

\* The deliveries are exhausted: out is closed.
ForwarderEnds ==
  /\ forwarder = "running"
  /\ ~bufferOpen /\ hand = <<>>
  /\ forwarder' = "ended"
  /\ UNCHANGED <<forwardEnv, buffer, bufferOpen, hand, out>>

\* The library drops what it holds when the connection ends; a consumer that
\* is cancelled may run dry before its channel is closed.
BufferCloses ==
  /\ bufferOpen
  /\ ~up \/ (once = "closing" /\ buffer = <<>>)
  /\ bufferOpen' = FALSE
  /\ buffer' = <<>>
  /\ UNCHANGED <<forwardEnv, forwarder, hand, out>>

-----------------------------------------------------------------------------
(* The reader and the cancel function *)

cancelEnv == <<closed, up, publishVars, queue, sub, cancelled>>

ReaderReceives ==
  /\ reader = "reading"
  /\ out # <<>>
  /\ out' = Tail(out)
  /\ UNCHANGED <<cancelEnv, channels, cancelVars, buffer, bufferOpen, forwarder, hand>>

\* cancelOnce.Do: the first caller begins the body.
Begin == once' = IF once = "armed" THEN "cancelling" ELSE once

ReaderSeesDone ==
  /\ reader = "reading"
  /\ cancelled
  /\ reader' = "cancel"
  /\ Begin
  /\ UNCHANGED <<cancelEnv, channels, waiter, flowVars>>

\* The worker and the tracker cancel as they return, the organizer does not.
ReaderSeesClosed ==
  /\ reader = "reading"
  /\ forwarder = "ended" /\ out = <<>>
  /\ \/ reader' = "cancel" /\ Begin
     \/ reader' = "gone" /\ UNCHANGED once
  /\ UNCHANGED <<cancelEnv, channels, waiter, flowVars>>

WaiterSeesDone ==
  /\ waiter = "waiting"
  /\ cancelled
  /\ waiter' = "cancel"
  /\ Begin
  /\ UNCHANGED <<cancelEnv, channels, reader, flowVars>>

\* ch.Cancel: once the broker has answered it delivers no more.  Without a
\* connection both calls return ErrClosed.
CancelConsumer ==
  /\ once = "cancelling"
  /\ once' = "closing"
  /\ UNCHANGED <<cancelEnv, channels, waiter, reader, flowVars>>

\* ch.Close: the library drops what it still holds.
CloseConsumerChannel ==
  /\ once = "closing"
  /\ once' = "done"
  /\ channels' = channels \ {Consumer}
  /\ buffer' = <<>> /\ bufferOpen' = FALSE
  /\ UNCHANGED <<cancelEnv, waiter, reader, forwarder, hand, out>>

MutantMayReturn == once = "done" /\ forwarder = "ended"   \* waits for the forwarder

MutantNoOnce == once # "armed"   \* a flag in place of the sync.Once

\* Every call of cancel waits for the body.
MayReturn == once = "done"

WaiterReturns ==
  /\ waiter = "cancel" /\ MayReturn
  /\ waiter' = "ended"
  /\ UNCHANGED <<cancelEnv, channels, once, reader, flowVars>>

ReaderReturns ==
  /\ reader = "cancel" /\ MayReturn
  /\ reader' = "gone"
  /\ UNCHANGED <<cancelEnv, channels, once, waiter, flowVars>>

-----------------------------------------------------------------------------
Init ==
  /\ closed = FALSE /\ up = TRUE /\ channels = {}
  /\ calls = [p \in Publishers |-> 0] /\ op = [p \in Publishers |-> "idle"]
  /\ inFlight = {} /\ returned = {} /\ arrived = <<>> /\ queue = <<>>
  /\ sub = "none" /\ cancelled = FALSE
  /\ once = "armed" /\ waiter = "none" /\ reader = "none"
  /\ buffer = <<>> /\ bufferOpen = FALSE
  /\ forwarder = "none" /\ hand = <<>> /\ out = <<>>

PublishStep(p) == OpenChannel(p) \/ SendFrame(p) \/ CloseChannel(p)
Forwarder == ForwarderReceives \/ ForwarderSends \/ ForwarderEnds
Reader == ReaderReceives \/ ReaderSeesDone \/ ReaderSeesClosed \/ ReaderReturns
CancelBody == CancelConsumer \/ CloseConsumerChannel
Waiter == WaiterSeesDone \/ WaiterReturns

Next == \/ Close \/ ConnectionEnds \/ CancelContext
        \/ \E p \in Publishers : PublishStep(p)
        \/ \E m \in inFlight : HandleFrame(m) \/ LoseFrame(m)
        \/ SubscribeOpen \/ Refuse \/ Consume
        \/ BrokerDelivers \/ BufferCloses
        \/ Forwarder \/ Reader \/ CancelBody \/ Waiter

Spec == Init /\ [][Next]_vars

\* The goroutines run, and the broker answers or the connection ends.  The
\* select of the reader is fair to its case of the context.
FairSpec == /\ Spec
            /\ WF_vars(BufferCloses) /\ WF_vars(Forwarder) /\ WF_vars(Reader)
            /\ WF_vars(CancelBody) /\ WF_vars(Waiter)
            /\ SF_vars(ReaderSeesDone)

-----------------------------------------------------------------------------
(* Properties *)

\* Every variable has its type; in particular out never holds more than its
\* capacity and the connection never more channels than it allows.
TypeOK ==
  /\ closed \in BOOLEAN /\ up \in BOOLEAN /\ cancelled \in BOOLEAN
  /\ channels \subseteq Publishers \cup {Consumer}
  /\ Cardinality(channels) <= ChannelMax
  /\ calls \in [Publishers -> Nat]
  /\ op \in [Publishers -> {"idle", "opened", "sent", "failed"}]
  /\ inFlight \subseteq Message /\ returned \subseteq Message
  /\ arrived \in Seq(Message) /\ queue \in Seq(Message)
  /\ sub \in {"none", "opened", "refused", "consuming"}
  /\ once \in {"armed", "cancelling", "closing", "done"}
  /\ waiter \in {"none", "waiting", "cancel", "ended"}
  /\ reader \in {"none", "reading", "cancel", "gone"}
  /\ bufferOpen \in BOOLEAN /\ buffer \in Seq(Message)
  /\ forwarder \in {"none", "running", "ended"}
  /\ hand \in Seq(Message) /\ Len(hand) <= 1
  /\ out \in Seq(Message) /\ Len(out) <= OutSize

\* Although each message travels on a channel of its own and nothing is
\* confirmed, the messages of one goroutine enter the queue in the order it
\* published them, and what Publish has returned nil for is there, as long
\* as the connection lives.
PublishIsSynchronous ==
  /\ \A i, j \in DOMAIN arrived :
       i < j => /\ arrived[i] # arrived[j]
                /\ arrived[i][1] = arrived[j][1] => arrived[i][2] < arrived[j][2]
  /\ up => returned \subseteq Range(arrived)

\* No path through Publish, Subscribe or cancel leaves a channel behind: the
\* open channels are those of the calls under way and of the live
\* subscription.  A leak would end in calls that fail for ever.
NoChannelLeaked ==
  up => channels = {p \in Publishers : op[p] # "idle"}
                   \cup {c \in {Consumer} : \/ sub = "opened"
                                            \/ sub = "consuming" /\ once # "done"}

\* What the organizer and the tracker assume of a subscription holds: nothing
\* is delivered twice, out of order or after cancel has returned, whoever
\* called it, and only the end of the context or connection drops deliveries.
Subscription ==
  INSTANCE Consumption
    WITH Messages <- Message,
         subscription <- IF sub # "consuming" THEN "none"
                         ELSE IF bufferOpen THEN "open" ELSE "closed",
         deliveries <- IF reader = "gone" THEN <<>> ELSE out \o hand \o buffer

ImplementsConsumption == Subscription!Spec

\* A subscription whose context is done, or whose connection is lost, lets
\* its reader go.  Its forwarder ends, or else is stuck with a delivery that
\* nobody will read: the goroutine that Subscribe may leak.
ConsumerReleased ==
  sub = "consuming" /\ (cancelled \/ ~up)
    ~> reader = "gone" /\ (forwarder = "ended" \/ hand # <<>>)

\* Both calls of cancel return: waiting for each other's sync.Once, and with
\* out full and nobody reading it, neither blocks the other.
CancelReturns ==
  sub = "consuming" /\ cancelled ~> waiter = "ended" /\ reader = "gone"
=============================================================================

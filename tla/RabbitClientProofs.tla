------------------------- MODULE RabbitClientProofs -------------------------
(***************************************************************************)
(* What RabbitClient guarantees for every number of publishers and calls,  *)
(* every capacity of out and every limit on the channels.                  *)
(***************************************************************************)
EXTENDS RabbitClient, SequenceLemmas

-----------------------------------------------------------------------------
(* Lemmas about the data *)

\* A message names its publisher and the number of a call of it.
LEMMA MessageParts ==
  ASSUME NEW m \in Message
  PROVE  m[1] \in Publishers /\ m[2] \in 1..MaxCalls[m[1]] /\ m = <<m[1], m[2]>>
BY DEF Message

\* And every call of a publisher has its message.
LEMMA MessageOf ==
  ASSUME NEW p \in Publishers, NEW n \in 1..MaxCalls[p]
  PROVE  <<p, n>> \in Message
BY DEF Message

\* One more channel fits when openChannel finds room.
LEMMA ChannelFits ==
  ASSUME IsFiniteSet(channels), NEW c, CanOpen
  PROVE  /\ IsFiniteSet(channels \cup {c})
         /\ Cardinality(channels \cup {c}) <= ChannelMax
<1>1. Cardinality(channels) \in Nat /\ Cardinality(channels) < ChannelMax
  BY FS_CardinalityType DEF CanOpen
<1>2. /\ IsFiniteSet(channels \cup {c})
      /\ \/ Cardinality(channels \cup {c}) = Cardinality(channels)
         \/ Cardinality(channels \cup {c}) = Cardinality(channels) + 1
  BY FS_AddElement
<1> QED BY <1>1, <1>2, ClientAssumption

\* Closing a channel makes room.
LEMMA ChannelCloses ==
  ASSUME IsFiniteSet(channels), Cardinality(channels) <= ChannelMax, NEW c
  PROVE  /\ IsFiniteSet(channels \ {c})
         /\ Cardinality(channels \ {c}) <= ChannelMax
<1>1. /\ Cardinality(channels) \in Nat
      /\ Cardinality(channels \ {c}) \in Nat
      /\ IsFiniteSet(channels \ {c})
      /\ Cardinality(channels \ {c}) <= Cardinality(channels)
  BY FS_CardinalityType, FS_Subset, FS_RemoveElement
<1> QED BY <1>1, ClientAssumption

-----------------------------------------------------------------------------
(* Type correctness *)

\* What makes the types inductive: the channels can be counted, and a call
\* that is under way has been counted.
Counted ==
  /\ IsFiniteSet(channels)
  /\ \A p \in Publishers : /\ calls[p] <= MaxCalls[p]
                           /\ op[p] # "idle" => calls[p] >= 1

\* The initial state is well typed.
LEMMA TypeInit == Init => TypeOK /\ Counted
<1> SUFFICES ASSUME Init PROVE TypeOK /\ Counted
  OBVIOUS
<1>1. IsFiniteSet(channels) /\ Cardinality(channels) = 0
  BY FS_EmptySet DEF Init
<1>2. arrived = <<>> /\ queue = <<>> /\ buffer = <<>> /\ hand = <<>> /\ out = <<>>
  BY DEF Init
<1>3. /\ arrived \in Seq(Message) /\ queue \in Seq(Message) /\ buffer \in Seq(Message)
      /\ hand \in Seq(Message) /\ out \in Seq(Message)
      /\ Len(hand) <= 1 /\ Len(out) <= OutSize
  BY <1>2, EmptySeq, ClientAssumption
<1>4. /\ calls \in [Publishers -> Nat]
      /\ op \in [Publishers -> {"idle", "opened", "sent", "failed"}]
      /\ Cardinality(channels) <= ChannelMax /\ channels = {}
  BY <1>1, ClientAssumption DEF Init
<1>6. TypeOK
  BY <1>3, <1>4 DEF Init, TypeOK
<1>5. Counted
  BY <1>1, ClientAssumption DEF Init, Counted
<1> QED BY <1>5, <1>6

\* Every step keeps the types: a send waits for room in out, and a channel is
\* opened only below the limit.
LEMMA TypeStep ==
  ASSUME TypeOK, Counted, [Next]_vars
  PROVE  TypeOK' /\ Counted'
<1> USE DEF publishVars, flowVars, cancelVars, publishEnv, forwardEnv, cancelEnv
<1>1. ASSUME Close \/ CancelContext \/ UNCHANGED vars PROVE TypeOK' /\ Counted'
  <2>1. CASE Close
    BY <2>1 DEF Close, TypeOK, Counted
  <2>2. CASE CancelContext
    BY <2>2 DEF CancelContext, TypeOK, Counted
  <2>3. CASE UNCHANGED vars
    BY <2>3 DEF vars, TypeOK, Counted
  <2> QED BY <1>1, <2>1, <2>2, <2>3
<1>2. CASE ConnectionEnds
  <2>1. /\ IsFiniteSet(channels') /\ Cardinality(channels') <= ChannelMax
        /\ channels' \subseteq Publishers \cup {Consumer}
    BY <1>2, FS_EmptySet, ClientAssumption DEF ConnectionEnds
  <2>2. /\ UNCHANGED <<closed, calls, op, inFlight, returned, arrived, queue, sub, cancelled,
                       once, waiter, reader, buffer, bufferOpen, forwarder, hand, out>>
        /\ up' \in BOOLEAN
    BY <1>2 DEF ConnectionEnds
  <2> QED BY <2>1, <2>2 DEF TypeOK, Counted
<1>3. ASSUME NEW p \in Publishers, OpenChannel(p) PROVE TypeOK' /\ Counted'
  <2>1. /\ calls' \in [Publishers -> Nat] /\ calls'[p] = calls[p] + 1 /\ calls[p] \in Nat
        /\ calls'[p] <= MaxCalls[p]
        /\ \A q \in Publishers \ {p} : calls'[q] = calls[q]
    <3>1. /\ calls \in [Publishers -> Nat] /\ calls' = [calls EXCEPT ![p] = calls[p] + 1]
          /\ calls[p] < MaxCalls[p] /\ MaxCalls[p] \in Nat
      BY <1>3, ClientAssumption DEF OpenChannel, TypeOK
    <3> QED BY <3>1
  <2>2. /\ op' \in [Publishers -> {"idle", "opened", "sent", "failed"}]
        /\ \A q \in Publishers \ {p} : op'[q] = op[q]
    BY <1>3 DEF OpenChannel, TypeOK
  <2>3. /\ IsFiniteSet(channels') /\ Cardinality(channels') <= ChannelMax
        /\ channels' \subseteq Publishers \cup {Consumer}
    <3>1. CASE CanOpen
      BY <1>3, <3>1, ChannelFits DEF OpenChannel, Counted, TypeOK
    <3>2. CASE ~CanOpen
      BY <1>3, <3>2 DEF OpenChannel, Counted, TypeOK
    <3> QED BY <3>1, <3>2
  <2>4. TypeOK'
    BY <1>3, <2>1, <2>2, <2>3 DEF OpenChannel, TypeOK
  <2>5. Counted'
    BY <2>1, <2>2, <2>3 DEF Counted
  <2> QED BY <2>4, <2>5
<1>4. ASSUME NEW p \in Publishers, SendFrame(p) PROVE TypeOK' /\ Counted'
  <2>1. <<p, calls[p]>> \in Message
    <3>1. calls[p] \in 1..MaxCalls[p]
      BY <1>4, ClientAssumption DEF SendFrame, TypeOK, Counted
    <3> QED BY <3>1, MessageOf
  <2>2. inFlight' \subseteq Message
    BY <1>4, <2>1 DEF SendFrame, TypeOK
  <2>3. op' \in [Publishers -> {"idle", "opened", "sent", "failed"}]
    BY <1>4 DEF SendFrame, TypeOK
  <2>4. \A q \in Publishers : op'[q] # "idle" => op[q] # "idle"
    BY <1>4 DEF SendFrame, TypeOK
  <2> QED BY <1>4, <2>2, <2>3, <2>4 DEF SendFrame, TypeOK, Counted
<1>5. ASSUME NEW p \in Publishers, CloseChannel(p) PROVE TypeOK' /\ Counted'
  <2>1. <<p, calls[p]>> \in Message
    <3>1. calls[p] \in 1..MaxCalls[p]
      BY <1>5, ClientAssumption DEF CloseChannel, TypeOK, Counted
    <3> QED BY <3>1, MessageOf
  <2>2. returned' \subseteq Message
    BY <1>5, <2>1 DEF CloseChannel, TypeOK
  <2>3. IsFiniteSet(channels') /\ Cardinality(channels') <= ChannelMax
    BY <1>5, ChannelCloses DEF CloseChannel, TypeOK, Counted
  <2> QED BY <1>5, <2>2, <2>3 DEF CloseChannel, TypeOK, Counted
<1>6. ASSUME NEW m \in inFlight, HandleFrame(m) \/ LoseFrame(m) PROVE TypeOK' /\ Counted'
  <2>1. m \in Message
    BY DEF TypeOK
  <2>2. CASE HandleFrame(m)
    <3>1. arrived' \in Seq(Message) /\ queue' \in Seq(Message)
      BY <2>1, <2>2, AppendProperties DEF HandleFrame, TypeOK
    <3> QED BY <2>2, <3>1 DEF HandleFrame, TypeOK, Counted
  <2>3. CASE LoseFrame(m)
    BY <2>3 DEF LoseFrame, TypeOK, Counted
  <2> QED BY <1>6, <2>2, <2>3
<1>7. CASE SubscribeOpen
  <2>1. CASE CanOpen
    <3>1. IsFiniteSet(channels') /\ Cardinality(channels') <= ChannelMax
      BY <1>7, <2>1, ChannelFits DEF SubscribeOpen, Counted
    <3> QED BY <1>7, <2>1, <3>1 DEF SubscribeOpen, TypeOK, Counted
  <2>2. CASE ~CanOpen
    BY <1>7, <2>2 DEF SubscribeOpen, TypeOK, Counted
  <2> QED BY <2>1, <2>2
<1>8. ASSUME Refuse \/ CloseConsumerChannel PROVE TypeOK' /\ Counted'
  <2>1. IsFiniteSet(channels') /\ Cardinality(channels') <= ChannelMax
    BY <1>8, ChannelCloses DEF Refuse, CloseConsumerChannel, TypeOK, Counted
  <2>2. CASE Refuse
    BY <2>1, <2>2 DEF Refuse, TypeOK, Counted
  <2>3. CASE CloseConsumerChannel
    <3>1. buffer' \in Seq(Message)
      BY <2>3, EmptySeq DEF CloseConsumerChannel
    <3> QED BY <2>1, <2>3, <3>1 DEF CloseConsumerChannel, TypeOK, Counted
  <2> QED BY <1>8, <2>2, <2>3
<1>9. CASE Consume
  BY <1>9 DEF Consume, TypeOK, Counted
<1>10. CASE BrokerDelivers
  <2>1. queue' \in Seq(Message) /\ buffer' \in Seq(Message)
    BY <1>10, HeadTailProperties, AppendProperties DEF BrokerDelivers, TypeOK
  <2> QED BY <1>10, <2>1 DEF BrokerDelivers, TypeOK, Counted
<1>11. CASE BufferCloses
  <2>1. buffer' \in Seq(Message)
    BY <1>11, EmptySeq DEF BufferCloses
  <2>2. /\ UNCHANGED <<closed, up, channels, calls, op, inFlight, returned, arrived, queue, sub,
                       cancelled, once, waiter, reader, forwarder, hand, out>>
        /\ bufferOpen' \in BOOLEAN
    BY <1>11 DEF BufferCloses
  <2> QED BY <2>1, <2>2 DEF TypeOK, Counted
<1>12. CASE ForwarderReceives
  <2>1. Head(buffer) \in Message /\ buffer' \in Seq(Message)
    BY <1>12, HeadTailProperties DEF ForwarderReceives, TypeOK
  <2>2. hand' \in Seq(Message) /\ Len(hand') <= 1
    BY <1>12, <2>1 DEF ForwarderReceives
  <2> QED BY <1>12, <2>1, <2>2 DEF ForwarderReceives, TypeOK, Counted
<1>13. CASE ForwarderSends
  <2>1. /\ out' \in Seq(Message) /\ Len(out') = Len(out) + Len(hand)
        /\ Len(out) \in Nat /\ Len(hand) \in Nat
    BY <1>13, ConcatProperties, LenProperties DEF ForwarderSends, TypeOK
  <2>2. Len(out') <= OutSize
    BY <1>13, <2>1, ClientAssumption DEF ForwarderSends, TypeOK
  <2>3. hand' \in Seq(Message) /\ Len(hand') <= 1
    <3>1. hand' = <<>>
      BY <1>13 DEF ForwarderSends
    <3> QED BY <3>1
  <2> QED BY <1>13, <2>1, <2>2, <2>3 DEF ForwarderSends, TypeOK, Counted
<1>14. CASE ForwarderEnds
  BY <1>14 DEF ForwarderEnds, TypeOK, Counted
<1>15. CASE ReaderReceives
  <2>1. out' \in Seq(Message) /\ Len(out') <= OutSize
    BY <1>15, HeadTailProperties, LenProperties, ClientAssumption DEF ReaderReceives, TypeOK
  <2> QED BY <1>15, <2>1 DEF ReaderReceives, TypeOK, Counted
<1>16. ASSUME ReaderSeesDone \/ ReaderSeesClosed \/ ReaderReturns \/ CancelConsumer \/ Waiter
       PROVE  TypeOK' /\ Counted'
  BY <1>16 DEF ReaderSeesDone, ReaderSeesClosed, ReaderReturns, CancelConsumer, Waiter,
               WaiterSeesDone, WaiterReturns, Begin, TypeOK, Counted
<1> QED
  BY <1>1, <1>2, <1>3, <1>4, <1>5, <1>6, <1>7, <1>8, <1>9, <1>10, <1>11, <1>12,
     <1>13, <1>14, <1>15, <1>16 DEF Next, PublishStep, Forwarder, Reader, CancelBody

\* The types of RabbitClient hold in every reachable state.
THEOREM TypeCorrect == Spec => []TypeOK
<1>1. TypeOK /\ Counted /\ [Next]_vars => TypeOK' /\ Counted'
  BY TypeStep
<1> QED BY <1>1, TypeInit, PTL DEF Spec

-----------------------------------------------------------------------------
(* Publish *)

\* How far the calls of Publish are, told by the frames: a publisher has one
\* frame in flight at most, the one of the call it waits in; it is the last
\* that the publisher has sent, and a call that opens its channel comes after
\* everything that has arrived of the publisher.
FramesInv ==
  /\ \A m \in inFlight : /\ m[2] <= calls[m[1]]
                         /\ op[m[1]] # "opened"
                         /\ up => op[m[1]] = "sent" /\ m[2] = calls[m[1]]
                         /\ \A i \in DOMAIN arrived :
                              arrived[i][1] = m[1] => arrived[i][2] < m[2]
  /\ \A m, k \in inFlight : m[1] = k[1] => m = k
  /\ \A i \in DOMAIN arrived :
       LET p == arrived[i][1] IN
       /\ arrived[i][2] <= calls[p]
       /\ op[p] = "opened" => arrived[i][2] < calls[p]
  /\ \A p \in Publishers : up /\ op[p] = "sent" => <<p, calls[p]>> \in inFlight \cup Range(arrived)

PublishInv == FramesInv /\ PublishIsSynchronous

\* A message that has arrived is a message.
LEMMA ArrivedTyped ==
  ASSUME TypeOK, NEW i \in DOMAIN arrived
  PROVE  /\ arrived[i] \in Message
         /\ arrived[i][1] \in Publishers /\ arrived[i][2] \in Nat
         /\ arrived[i] = <<arrived[i][1], arrived[i][2]>>
         /\ i \in Nat /\ DOMAIN arrived = 1..Len(arrived) /\ Len(arrived) \in Nat
<1>1. /\ DOMAIN arrived = 1..Len(arrived) /\ Len(arrived) \in Nat
      /\ arrived[i] \in Message
  BY LenProperties, ElementOfSeq DEF TypeOK
<1> QED BY <1>1, MessageParts, ClientAssumption

\* So is a message in flight.
LEMMA FlightTyped ==
  ASSUME TypeOK, NEW m \in inFlight
  PROVE  m \in Message /\ m[1] \in Publishers /\ m[2] \in Nat /\ m = <<m[1], m[2]>>
<1>1. m \in Message
  BY DEF TypeOK
<1> QED BY <1>1, MessageParts, ClientAssumption

\* A call that begins has a number of its own.
LEMMA OpenFrames ==
  ASSUME TypeOK, PublishInv, NEW p \in Publishers, OpenChannel(p)
  PROVE  PublishInv'
<1>1. /\ calls' = [calls EXCEPT ![p] = calls[p] + 1] /\ op[p] = "idle"
      /\ \/ up /\ op' = [op EXCEPT ![p] = "opened"]
         \/ op' = op
      /\ UNCHANGED <<up, inFlight, returned, arrived>>
      /\ calls \in [Publishers -> Nat]
      /\ op \in [Publishers -> {"idle", "opened", "sent", "failed"}]
  BY DEF OpenChannel, CanOpen, publishEnv, TypeOK
<1>2. /\ \A q \in Publishers : calls'[q] = (IF q = p THEN calls[p] + 1 ELSE calls[q])
      /\ \A q \in Publishers \ {p} : op'[q] = op[q]
      /\ op'[p] = "idle" \/ (up /\ op'[p] = "opened")
      /\ \A q \in Publishers : calls[q] \in Nat
  BY <1>1
<1>3. ASSUME NEW m \in inFlight, up PROVE m[1] # p
  BY <1>1, <1>3 DEF PublishInv, FramesInv
<1>4. ASSUME NEW m \in inFlight'
      PROVE  /\ m[2] <= calls'[m[1]]
             /\ op'[m[1]] # "opened"
             /\ up => op'[m[1]] = "sent" /\ m[2] = calls'[m[1]]
             /\ \A i \in DOMAIN arrived : arrived[i][1] = m[1] => arrived[i][2] < m[2]
  <2>1. m \in inFlight /\ m[1] \in Publishers /\ m[2] \in Nat
    BY <1>1, <1>4, FlightTyped
  <2> QED BY <1>1, <1>2, <1>3, <2>1 DEF PublishInv, FramesInv
<1>5. ASSUME NEW i \in DOMAIN arrived
      PROVE  /\ arrived[i][2] <= calls'[arrived[i][1]]
             /\ op'[arrived[i][1]] = "opened" => arrived[i][2] < calls'[arrived[i][1]]
  <2>1. arrived[i][1] \in Publishers /\ arrived[i][2] \in Nat
    BY ArrivedTyped
  <2> QED BY <1>1, <1>2, <2>1 DEF PublishInv, FramesInv
<1>6. FramesInv'
  BY <1>1, <1>2, <1>4, <1>5 DEF PublishInv, FramesInv
<1> QED BY <1>1, <1>6 DEF PublishInv, PublishIsSynchronous

\* The frame of a call is the latest of its publisher.
LEMMA SendFrames ==
  ASSUME TypeOK, PublishInv, NEW p \in Publishers, SendFrame(p)
  PROVE  PublishInv'
<1>1. /\ op[p] = "opened"
      /\ \/ up /\ op' = [op EXCEPT ![p] = "sent"] /\ inFlight' = inFlight \cup {<<p, calls[p]>>}
         \/ ~up /\ op' = [op EXCEPT ![p] = "failed"] /\ inFlight' = inFlight
      /\ UNCHANGED <<up, calls, returned, arrived>>
      /\ calls \in [Publishers -> Nat]
      /\ op \in [Publishers -> {"idle", "opened", "sent", "failed"}]
  BY DEF SendFrame, publishEnv, TypeOK
<1>2. ASSUME NEW m \in inFlight PROVE m[1] # p /\ m[1] \in Publishers
  BY <1>1, FlightTyped DEF PublishInv, FramesInv
<1>3. \A q \in Publishers \ {p} : op'[q] = op[q]
  BY <1>1
<1>4. ASSUME NEW m \in inFlight'
      PROVE  /\ m[2] <= calls[m[1]]
             /\ op'[m[1]] # "opened"
             /\ up => op'[m[1]] = "sent" /\ m[2] = calls[m[1]]
             /\ \A i \in DOMAIN arrived : arrived[i][1] = m[1] => arrived[i][2] < m[2]
  <2>1. CASE m \in inFlight
    BY <1>2, <1>3, <2>1 DEF PublishInv, FramesInv
  <2>2. CASE m = <<p, calls[p]>> /\ up /\ op'[p] = "sent"
    <3>1. m[1] = p /\ m[2] = calls[p] /\ calls[p] \in Nat
      BY <1>1, <2>2
    <3> QED BY <1>1, <2>2, <3>1 DEF PublishInv, FramesInv
  <2> QED BY <1>1, <1>4, <2>1, <2>2
<1>5. \A m, k \in inFlight' : m[1] = k[1] => m = k
  BY <1>1, <1>2 DEF PublishInv, FramesInv
<1>6. \A q \in Publishers : op'[q] = "opened" => op[q] = "opened"
  BY <1>1
<1>7. ASSUME NEW i \in DOMAIN arrived
      PROVE  /\ arrived[i][2] <= calls[arrived[i][1]]
             /\ op'[arrived[i][1]] = "opened" => arrived[i][2] < calls[arrived[i][1]]
  <2>1. arrived[i][1] \in Publishers
    BY ArrivedTyped
  <2> QED BY <1>6, <2>1 DEF PublishInv, FramesInv
<1>8. \A q \in Publishers : up /\ op'[q] = "sent" => <<q, calls[q]>> \in inFlight' \cup Range(arrived)
  BY <1>1, <1>3 DEF PublishInv, FramesInv
<1>9. FramesInv'
  BY <1>1, <1>4, <1>5, <1>7, <1>8 DEF FramesInv
<1> QED BY <1>1, <1>9 DEF PublishInv, PublishIsSynchronous

\* A call that returns nil while the connection lives has arrived.
LEMMA CloseFrames ==
  ASSUME TypeOK, PublishInv, NEW p \in Publishers, CloseChannel(p)
  PROVE  PublishInv'
<1>1. /\ op[p] \in {"sent", "failed"} /\ op' = [op EXCEPT ![p] = "idle"]
      /\ up => <<p, calls[p]>> \notin inFlight
      /\ returned' = returned \/ (op[p] = "sent" /\ returned' = returned \cup {<<p, calls[p]>>})
      /\ UNCHANGED <<up, calls, inFlight, arrived>>
      /\ op \in [Publishers -> {"idle", "opened", "sent", "failed"}]
  BY DEF CloseChannel, publishEnv, TypeOK
<1>2. /\ op'[p] = "idle"
      /\ \A q \in Publishers \ {p} : op'[q] = op[q]
  BY <1>1
<1>3. ASSUME NEW m \in inFlight, up PROVE m[1] # p
  <2>1. m = <<m[1], m[2]>> /\ m[2] = calls[m[1]]
    BY <1>3, FlightTyped DEF PublishInv, FramesInv
  <2> QED BY <1>1, <1>3, <2>1
<1>4. ASSUME NEW m \in inFlight
      PROVE  /\ op'[m[1]] # "opened"
             /\ up => op'[m[1]] = "sent"
  <2>1. m[1] \in Publishers
    BY FlightTyped
  <2> QED BY <1>2, <1>3, <2>1 DEF PublishInv, FramesInv
<1>5. ASSUME NEW i \in DOMAIN arrived
      PROVE  op'[arrived[i][1]] = "opened" => arrived[i][2] < calls[arrived[i][1]]
  <2>1. arrived[i][1] \in Publishers
    BY ArrivedTyped
  <2> QED BY <1>2, <2>1 DEF PublishInv, FramesInv
<1>6. FramesInv'
  BY <1>1, <1>2, <1>4, <1>5 DEF PublishInv, FramesInv
<1>7. up => returned' \subseteq Range(arrived)
  BY <1>1 DEF PublishInv, FramesInv, PublishIsSynchronous
<1> QED BY <1>1, <1>6, <1>7 DEF PublishInv, PublishIsSynchronous

\* What arrives comes after what has arrived of the same publisher.
LEMMA HandleFrames ==
  ASSUME TypeOK, PublishInv, NEW m \in inFlight, HandleFrame(m)
  PROVE  PublishInv'
<1>1. /\ inFlight' = inFlight \ {m} /\ arrived' = Append(arrived, m)
      /\ UNCHANGED <<up, calls, op, returned>>
      /\ m \in Message /\ m[1] \in Publishers /\ m[2] \in Nat /\ arrived \in Seq(Message)
  BY FlightTyped DEF HandleFrame, TypeOK
<1> DEFINE n == Len(arrived) + 1
<1>2. /\ n \in Nat /\ DOMAIN arrived = 1..Len(arrived) /\ DOMAIN arrived' = 1..n
      /\ \A i \in DOMAIN arrived : i < n /\ arrived'[i] = arrived[i]
      /\ \A i \in DOMAIN arrived' : i \in DOMAIN arrived \/ i = n
      /\ n \in DOMAIN arrived' /\ arrived'[n] = m
      /\ DOMAIN arrived \subseteq DOMAIN arrived'
  BY <1>1, AppendProperties, LenProperties
<1> HIDE DEF n
<1>3. \A i \in DOMAIN arrived : arrived[i][1] = m[1] => arrived[i][2] < m[2]
  BY DEF PublishInv, FramesInv
<1>4. ASSUME NEW k \in inFlight', NEW i \in DOMAIN arrived', arrived'[i][1] = k[1]
      PROVE  arrived'[i][2] < k[2]
  BY <1>1, <1>2, <1>4 DEF PublishInv, FramesInv
<1>5. ASSUME NEW i \in DOMAIN arrived'
      PROVE  /\ arrived'[i][2] <= calls[arrived'[i][1]]
             /\ op[arrived'[i][1]] = "opened" => arrived'[i][2] < calls[arrived'[i][1]]
  BY <1>1, <1>2 DEF PublishInv, FramesInv
<1>6. Range(arrived) \cup {m} \subseteq Range(arrived')
  BY <1>2 DEF Range
<1>7. \A p \in Publishers : up /\ op[p] = "sent" => <<p, calls[p]>> \in inFlight' \cup Range(arrived')
  BY <1>1, <1>6 DEF PublishInv, FramesInv
<1>8. FramesInv'
  BY <1>1, <1>4, <1>5, <1>7 DEF PublishInv, FramesInv
<1>9. ASSUME NEW i \in DOMAIN arrived', NEW j \in DOMAIN arrived', i < j
      PROVE  /\ arrived'[i] # arrived'[j]
             /\ arrived'[i][1] = arrived'[j][1] => arrived'[i][2] < arrived'[j][2]
  <2>1. i \in DOMAIN arrived
    BY <1>2, <1>9
  <2>2. CASE j \in DOMAIN arrived
    BY <1>2, <1>9, <2>1, <2>2 DEF PublishInv, PublishIsSynchronous
  <2>3. CASE j = n
    <3>1. arrived'[i] = arrived[i] /\ arrived'[j] = m /\ arrived[i][2] \in Nat
      BY <1>2, <2>1, <2>3, ArrivedTyped
    <3>2. arrived[i][1] = m[1] => arrived[i][2] < m[2]
      BY <1>3, <2>1
    <3> QED BY <1>1, <3>1, <3>2
  <2> QED BY <1>2, <2>2, <2>3
<1>10. up' => returned' \subseteq Range(arrived')
  BY <1>1, <1>6 DEF PublishInv, PublishIsSynchronous
<1> QED BY <1>8, <1>9, <1>10 DEF PublishInv, PublishIsSynchronous

\* The steps outside of Publish leave its frames alone.
LEMMA PublishUntouched ==
  ASSUME [Next]_vars,
         ~\E p \in Publishers : PublishStep(p),
         ~\E m \in inFlight : HandleFrame(m) \/ LoseFrame(m)
  PROVE  UNCHANGED publishVars /\ (up' => up)
<1>1. CASE Close \/ ConnectionEnds \/ CancelContext
  BY <1>1 DEF Close, ConnectionEnds, CancelContext
<1>2. CASE SubscribeOpen \/ Refuse \/ Consume \/ BrokerDelivers \/ BufferCloses
  BY <1>2 DEF SubscribeOpen, Refuse, Consume, BrokerDelivers, BufferCloses, forwardEnv
<1>3. CASE Forwarder \/ Reader \/ CancelBody \/ Waiter
  BY <1>3 DEF Forwarder, ForwarderReceives, ForwarderSends, ForwarderEnds, Reader,
              ReaderReceives, ReaderSeesDone, ReaderSeesClosed, ReaderReturns, CancelBody,
              CancelConsumer, CloseConsumerChannel, Waiter, WaiterSeesDone, WaiterReturns,
              forwardEnv, cancelEnv
<1>4. CASE UNCHANGED vars
  BY <1>4 DEF vars
<1> QED BY <1>1, <1>2, <1>3, <1>4 DEF Next

\* Every step keeps what is known of the frames and of the order of arrival.
LEMMA PublishStepInv ==
  ASSUME TypeOK, PublishInv, [Next]_vars
  PROVE  PublishInv'
<1>1. ASSUME NEW m \in inFlight, LoseFrame(m) PROVE PublishInv'
  BY <1>1 DEF LoseFrame, publishEnv, PublishInv, FramesInv, PublishIsSynchronous
<1>2. ASSUME UNCHANGED publishVars, up' => up PROVE PublishInv'
  BY <1>2 DEF publishVars, PublishInv, FramesInv, PublishIsSynchronous
<1> QED BY <1>1, <1>2, OpenFrames, SendFrames, CloseFrames, HandleFrames, PublishUntouched
        DEF PublishStep

\* The messages of one goroutine enter the queue in the order it published
\* them, and what Publish has returned nil for is there, as long as the
\* connection lives.
THEOREM PublishSynchronous == Spec => []PublishIsSynchronous
<1>1. Init => TypeOK /\ Counted /\ PublishInv
  <2>1. Init => FramesInv /\ PublishIsSynchronous
    BY DEF Init, FramesInv, PublishIsSynchronous
  <2> QED BY <2>1, TypeInit DEF PublishInv
<1>2. TypeOK /\ Counted /\ PublishInv /\ [Next]_vars => TypeOK' /\ Counted' /\ PublishInv'
  BY TypeStep, PublishStepInv
<1>3. PublishInv => PublishIsSynchronous
  BY DEF PublishInv
<1> QED BY <1>1, <1>2, <1>3, PTL DEF Spec

-----------------------------------------------------------------------------
(* The subscription *)

\* Where the goroutines of a subscription are relative to each other: the
\* body of cancel begins for a context that is done or a channel of
\* deliveries that is closed, and who has left has nothing more to come.
SubscriptionInv ==
  /\ sub # "consuming" => /\ once = "armed" /\ waiter = "none" /\ reader = "none"
                          /\ ~bufferOpen /\ forwarder = "none"
  /\ sub = "consuming" => reader # "none"
  /\ ~bufferOpen => buffer = <<>>
  /\ sub = "consuming" /\ ~bufferOpen => ~up \/ once \in {"closing", "done"}
  /\ once = "done" => ~bufferOpen
  /\ once # "armed" /\ bufferOpen => cancelled
  /\ forwarder = "ended" => ~bufferOpen /\ hand = <<>>
  /\ reader = "cancel" => cancelled \/ (forwarder = "ended" /\ out = <<>>)
  /\ reader = "gone" => ~bufferOpen

\* The goroutines of a subscription keep to their order.
LEMMA SubscriptionStep ==
  ASSUME TypeOK, SubscriptionInv, [Next]_vars
  PROVE  SubscriptionInv'
<1> USE DEF SubscriptionInv
<1>0. /\ bufferOpen \in BOOLEAN /\ up \in BOOLEAN /\ cancelled \in BOOLEAN
      /\ once \in {"armed", "cancelling", "closing", "done"}
  BY DEF TypeOK
<1>1. ASSUME Close \/ ConnectionEnds \/ CancelContext PROVE SubscriptionInv'
  BY <1>1 DEF Close, ConnectionEnds, CancelContext, cancelVars, flowVars
<1>2. ASSUME NEW p \in Publishers, PublishStep(p) PROVE SubscriptionInv'
  BY <1>2 DEF PublishStep, OpenChannel, SendFrame, CloseChannel, publishEnv, cancelVars, flowVars
<1>3. ASSUME NEW m \in inFlight, HandleFrame(m) \/ LoseFrame(m) PROVE SubscriptionInv'
  BY <1>3 DEF HandleFrame, LoseFrame, publishEnv, cancelVars, flowVars
<1>4. ASSUME SubscribeOpen \/ Refuse PROVE SubscriptionInv'
  BY <1>4 DEF SubscribeOpen, Refuse, cancelVars, flowVars
<1>5. CASE Consume
  BY <1>5 DEF Consume
<1>6. CASE BrokerDelivers
  <2>1. bufferOpen
    BY <1>0, <1>6 DEF BrokerDelivers
  <2> QED BY <1>6, <2>1 DEF BrokerDelivers, cancelVars
<1>7. CASE BufferCloses
  BY <1>0, <1>7 DEF BufferCloses, forwardEnv, cancelVars
<1>8. CASE ForwarderReceives
  BY <1>0, <1>8 DEF ForwarderReceives, forwardEnv, cancelVars
<1>9. CASE ForwarderSends \/ ForwarderEnds
  BY <1>0, <1>9 DEF ForwarderSends, ForwarderEnds, forwardEnv, cancelVars
<1>10. CASE ReaderReceives
  BY <1>0, <1>10 DEF ReaderReceives, cancelEnv, cancelVars
<1>11. CASE ReaderSeesDone
  BY <1>0, <1>11 DEF ReaderSeesDone, Begin, cancelEnv, flowVars
<1>12. CASE ReaderSeesClosed
  BY <1>0, <1>12 DEF ReaderSeesClosed, Begin, cancelEnv, flowVars
<1>13. CASE CancelBody
  BY <1>0, <1>13 DEF CancelBody, CancelConsumer, CloseConsumerChannel, cancelEnv, flowVars
<1>14. CASE Waiter
  BY <1>0, <1>14 DEF Waiter, WaiterSeesDone, WaiterReturns, Begin, cancelEnv, flowVars
<1>15. CASE ReaderReturns
  BY <1>0, <1>15 DEF ReaderReturns, MayReturn, cancelEnv, flowVars
<1>16. CASE UNCHANGED vars
  BY <1>16 DEF vars, cancelVars, flowVars
<1> QED BY <1>1, <1>2, <1>3, <1>4, <1>5, <1>6, <1>7, <1>8, <1>9, <1>10, <1>11, <1>12,
           <1>13, <1>14, <1>15, <1>16 DEF Next, Forwarder, Reader

\* The owners of the open channels, as Publish and Subscribe leave them.
Owners == {p \in Publishers : op[p] # "idle"}
          \cup {c \in {Consumer} : \/ sub = "opened"
                                   \/ sub = "consuming" /\ once # "done"}

\* Each path opens a channel for one owner and closes it for the same.
LEMMA ChannelsStep ==
  ASSUME TypeOK, SubscriptionInv, NoChannelLeaked, [Next]_vars
  PROVE  NoChannelLeaked'
<1>0. /\ op \in [Publishers -> {"idle", "opened", "sent", "failed"}]
      /\ Consumer \notin Publishers
      /\ up => channels = Owners
  BY ClientAssumption DEF TypeOK, NoChannelLeaked, Owners
<1>1. SUFFICES ASSUME up' PROVE channels' = Owners'
  BY DEF NoChannelLeaked, Owners
<1>2. ASSUME UNCHANGED <<up, channels, op, sub, once>> PROVE channels' = Owners'
  BY <1>0, <1>1, <1>2 DEF Owners
<1>3. CASE Close \/ CancelContext \/ ConnectionEnds
  BY <1>1, <1>2, <1>3 DEF Close, CancelContext, ConnectionEnds, publishVars, cancelVars
<1>4. ASSUME NEW p \in Publishers, OpenChannel(p) PROVE channels' = Owners'
  <2>1. /\ up /\ UNCHANGED <<sub, once>> /\ op[p] = "idle"
        /\ \/ op' = [op EXCEPT ![p] = "opened"] /\ channels' = channels \cup {p}
           \/ UNCHANGED <<op, channels>>
    BY <1>1, <1>4 DEF OpenChannel, publishEnv, cancelVars
  <2> QED BY <1>0, <2>1 DEF Owners
<1>5. ASSUME NEW p \in Publishers, SendFrame(p) PROVE channels' = Owners'
  <2>1. /\ up /\ UNCHANGED <<sub, once, channels>> /\ op[p] # "idle"
        /\ op' = [op EXCEPT ![p] = "sent"]
    BY <1>1, <1>5 DEF SendFrame, publishEnv, cancelVars
  <2> QED BY <1>0, <2>1 DEF Owners
<1>6. ASSUME NEW p \in Publishers, CloseChannel(p) PROVE channels' = Owners'
  <2>1. /\ up /\ UNCHANGED <<sub, once>>
        /\ op' = [op EXCEPT ![p] = "idle"] /\ channels' = channels \ {p}
    BY <1>1, <1>6 DEF CloseChannel, publishEnv, cancelVars
  <2> QED BY <1>0, <2>1 DEF Owners
<1>7. ASSUME NEW m \in inFlight, HandleFrame(m) \/ LoseFrame(m) PROVE channels' = Owners'
  BY <1>2, <1>7 DEF HandleFrame, LoseFrame, publishEnv, cancelVars
<1>8. CASE SubscribeOpen
  <2>1. /\ up /\ UNCHANGED <<op, once>> /\ sub = "none"
        /\ \/ sub' = "opened" /\ channels' = channels \cup {Consumer}
           \/ sub' = "refused" /\ channels' = channels
    BY <1>1, <1>8 DEF SubscribeOpen, publishVars, cancelVars
  <2> QED BY <1>0, <2>1 DEF Owners
<1>9. CASE Refuse
  <2>1. /\ up /\ UNCHANGED <<op, once>> /\ sub' = "refused"
        /\ channels' = channels \ {Consumer}
    BY <1>1, <1>9 DEF Refuse, publishVars, cancelVars
  <2> QED BY <1>0, <2>1 DEF Owners
<1>10. CASE Consume
  <2>1. /\ up /\ UNCHANGED <<op, once, channels>> /\ sub = "opened" /\ sub' = "consuming"
        /\ once # "done"
    BY <1>1, <1>10 DEF Consume, publishVars, SubscriptionInv
  <2> QED BY <1>0, <2>1 DEF Owners
<1>11. CASE BrokerDelivers \/ BufferCloses \/ Forwarder \/ ReaderReceives \/ ReaderReturns \/ WaiterReturns
  BY <1>2, <1>11 DEF BrokerDelivers, BufferCloses, Forwarder, ForwarderReceives, ForwarderSends,
                     ForwarderEnds, ReaderReceives, ReaderReturns, WaiterReturns, forwardEnv,
                     cancelEnv, publishVars, cancelVars
<1>12. CASE ReaderSeesDone \/ ReaderSeesClosed \/ WaiterSeesDone \/ CancelConsumer
  <2>1. /\ up /\ UNCHANGED <<op, sub, channels>>
        /\ once' = once \/ (once = "armed" /\ once' = "cancelling")
                        \/ (once = "cancelling" /\ once' = "closing")
    BY <1>1, <1>12 DEF ReaderSeesDone, ReaderSeesClosed, WaiterSeesDone, CancelConsumer, Begin,
                       cancelEnv, publishVars
  <2> QED BY <1>0, <2>1 DEF Owners
<1>13. CASE CloseConsumerChannel
  <2>1. /\ up /\ UNCHANGED <<op, sub>> /\ once' = "done" /\ sub = "consuming"
        /\ channels' = channels \ {Consumer}
    BY <1>1, <1>13 DEF CloseConsumerChannel, cancelEnv, publishVars, SubscriptionInv
  <2> QED BY <1>0, <2>1 DEF Owners
<1>14. CASE UNCHANGED vars
  BY <1>2, <1>14 DEF vars, publishVars, cancelVars
<1> QED BY <1>3, <1>4, <1>5, <1>6, <1>7, <1>8, <1>9, <1>10, <1>11, <1>12, <1>13, <1>14
        DEF Next, PublishStep, Reader, CancelBody, Waiter

\* No channel is open in the initial state.
LEMMA SubscriptionInit == Init => SubscriptionInv /\ NoChannelLeaked
BY DEF Init, SubscriptionInv, NoChannelLeaked

\* No path through Publish, Subscribe or cancel leaves a channel behind.
THEOREM ChannelsAccounted == Spec => []NoChannelLeaked
<1>1. Init => TypeOK /\ Counted /\ SubscriptionInv /\ NoChannelLeaked
  BY TypeInit, SubscriptionInit
<1>2. TypeOK /\ Counted /\ SubscriptionInv /\ NoChannelLeaked /\ [Next]_vars
        => TypeOK' /\ Counted' /\ SubscriptionInv' /\ NoChannelLeaked'
  BY TypeStep, SubscriptionStep, ChannelsStep
<1> QED BY <1>1, <1>2, PTL DEF Spec

-----------------------------------------------------------------------------
(* The refinement of Consumption *)

subscription == IF sub # "consuming" THEN "none" ELSE IF bufferOpen THEN "open" ELSE "closed"
deliveries == IF reader = "gone" THEN <<>> ELSE out \o hand \o buffer

\* What is on its way to the reader is a sequence of messages.
LEMMA DeliveriesTyped ==
  ASSUME TypeOK
  PROVE  /\ out \in Seq(Message) /\ hand \in Seq(Message) /\ buffer \in Seq(Message)
         /\ out \o hand \in Seq(Message)
         /\ deliveries \in Seq(Message)
<1>1. out \in Seq(Message) /\ hand \in Seq(Message) /\ buffer \in Seq(Message)
  BY DEF TypeOK
<1>2. out \o hand \in Seq(Message)
  BY <1>1, ConcatProperties
<1>3. (out \o hand) \o buffer \in Seq(Message)
  BY <1>1, <1>2, ConcatProperties
<1> QED BY <1>1, <1>2, <1>3, EmptySeq DEF deliveries

\* A buffer that closes drops what has not been forwarded: the consumer ends.
LEMMA BufferDropped ==
  ASSUME TypeOK, SubscriptionInv, bufferOpen, cancelled \/ ~up,
         bufferOpen' = FALSE, buffer' = <<>>,
         UNCHANGED <<up, cancelled, queue, sub, reader, hand, out>>
  PROVE  Subscription!Close
<1>1. subscription = "open" /\ subscription' = "closed"
  BY DEF SubscriptionInv, subscription
<1>2. \E n \in 0..Len(deliveries) : deliveries' = SubSeq(deliveries, 1, n)
  <2>1. CASE reader = "gone"
    <3>1. deliveries = <<>> /\ deliveries' = <<>>
      BY <2>1 DEF deliveries
    <3>2. Len(<<>>) = 0 /\ SubSeq(<<>>, 1, 0) = <<>>
      BY SubSeqEmpty
    <3> QED BY <3>1, <3>2
  <2>2. CASE reader # "gone"
    <3>1. deliveries = (out \o hand) \o buffer /\ deliveries' = (out \o hand) \o <<>>
      BY <2>2 DEF deliveries
    <3>2. deliveries' = out \o hand
      BY <3>1, DeliveriesTyped, ConcatEmptySeq
    <3> QED BY <3>1, <3>2, DeliveriesTyped, ConcatPrefix
  <2> QED BY <2>1, <2>2
<1> QED BY <1>1, <1>2 DEF Subscription!Close, subscription, deliveries

\* A reader that leaves drops the rest.
LEMMA ReaderLeaves ==
  ASSUME cancelled \/ (subscription = "closed" /\ deliveries = <<>>),
         sub = "consuming", ~bufferOpen, reader' = "gone",
         UNCHANGED <<up, cancelled, queue, sub, bufferOpen>>
  PROVE  Subscription!Leave
BY DEF Subscription!Leave, Subscription!Ended, subscription, deliveries

\* The frame of the steps that the consumer does not see.
Unseen == UNCHANGED <<up, cancelled, queue, sub, bufferOpen, reader, hand, out, buffer>>

\* Every step of the client is a step of the consumption or invisible in it.
LEMMA ConsumptionStep ==
  ASSUME TypeOK, SubscriptionInv, [Next]_vars
  PROVE  \/ Subscription!Next
         \/ UNCHANGED <<up, cancelled, queue, subscription, deliveries>>
<1> DEFINE Goal == \/ Subscription!Next
                   \/ UNCHANGED <<up, cancelled, queue, subscription, deliveries>>
<1>0. /\ bufferOpen \in BOOLEAN /\ once \in {"armed", "cancelling", "closing", "done"}
      /\ out \in Seq(Message) /\ hand \in Seq(Message) /\ buffer \in Seq(Message)
      /\ out \o hand \in Seq(Message) /\ queue \in Seq(Message)
  BY DeliveriesTyped DEF TypeOK
<1>1. ASSUME Unseen PROVE Goal
  BY <1>1 DEF Unseen, subscription, deliveries
<1>2. CASE Close \/ UNCHANGED vars
  BY <1>1, <1>2 DEF Close, vars, publishVars, cancelVars, flowVars, Unseen
<1>3. CASE ConnectionEnds
  BY <1>3 DEF ConnectionEnds, Subscription!Next, Subscription!Disconnect, publishVars,
              cancelVars, flowVars, subscription, deliveries
<1>4. CASE CancelContext
  BY <1>4 DEF CancelContext, Subscription!Next, Subscription!Cancel, publishVars,
              cancelVars, flowVars, subscription, deliveries
<1>5. ASSUME NEW p \in Publishers, PublishStep(p) PROVE Goal
  BY <1>1, <1>5 DEF PublishStep, OpenChannel, SendFrame, CloseChannel, publishEnv,
                    cancelVars, flowVars, Unseen
<1>6. ASSUME NEW m \in inFlight, HandleFrame(m) PROVE Goal
  <2>1. m \in Message
    BY DEF TypeOK
  <2>2. Subscription!Enqueue(m)
    BY <1>6 DEF HandleFrame, Subscription!Enqueue, cancelVars, flowVars
  <2> QED BY <2>1, <2>2 DEF Subscription!Next
<1>7. ASSUME NEW m \in inFlight, LoseFrame(m) PROVE Goal
  BY <1>1, <1>7 DEF LoseFrame, publishEnv, cancelVars, flowVars, Unseen
<1>8. CASE SubscribeOpen \/ Refuse
  BY <1>8 DEF SubscribeOpen, Refuse, publishVars, cancelVars, flowVars, subscription, deliveries
<1>9. CASE Consume
  <2>1. /\ subscription = "none" /\ subscription' = "open" /\ up /\ deliveries' = deliveries
        /\ UNCHANGED <<up, cancelled, queue>>
    BY <1>9 DEF Consume, SubscriptionInv, subscription, deliveries
  <2>2. Subscription!Subscribe
    BY <2>1 DEF Subscription!Subscribe, subscription, deliveries
  <2> QED BY <2>2 DEF Subscription!Next
<1>10. CASE BrokerDelivers
  <2>1. /\ up /\ queue # <<>> /\ sub = "consuming"
        /\ buffer' = Append(buffer, Head(queue)) /\ queue' = Tail(queue)
        /\ UNCHANGED <<up, cancelled, sub, bufferOpen, reader, hand, out>>
    BY <1>10 DEF BrokerDelivers, cancelVars
  <2>2. bufferOpen /\ reader # "gone"
    BY <1>0, <1>10 DEF BrokerDelivers, SubscriptionInv
  <2>3. Head(queue) \in Message
    BY <1>0, <2>1, HeadTailProperties
  <2>4. (out \o hand) \o Append(buffer, Head(queue)) = Append((out \o hand) \o buffer, Head(queue))
    <3> DEFINE h == Head(queue)
               o == out \o hand
    <3>1. h \in Message /\ <<h>> \in Seq(Message) /\ o \in Seq(Message) /\ buffer \in Seq(Message)
      BY <1>0, <2>3
    <3> HIDE DEF h, o
    <3>2. Append(buffer, h) = buffer \o <<h>>
      BY <3>1, AppendIsConcat
    <3>3. (o \o buffer) \o <<h>> = o \o (buffer \o <<h>>)
      BY <3>1, ConcatAssociative
    <3>4. o \o buffer \in Seq(Message)
      BY <3>1, ConcatProperties
    <3>5. Append(o \o buffer, h) = (o \o buffer) \o <<h>>
      BY <3>1, <3>4, AppendIsConcat
    <3> QED BY <3>2, <3>3, <3>5 DEF h, o
  <2>5. deliveries' = Append(deliveries, Head(queue)) /\ subscription = "open" /\ subscription' = "open"
    BY <2>1, <2>2, <2>4 DEF deliveries, subscription
  <2>6. Subscription!Deliver
    BY <2>1, <2>5 DEF Subscription!Deliver, deliveries, subscription
  <2> QED BY <2>6 DEF Subscription!Next
<1>11. CASE BufferCloses
  <2>1. /\ bufferOpen' = FALSE /\ buffer' = <<>>
        /\ UNCHANGED <<up, cancelled, queue, sub, reader, hand, out>>
    BY <1>11 DEF BufferCloses, SubscriptionInv, forwardEnv, cancelVars
  <2>2. bufferOpen /\ (cancelled \/ ~up)
    BY <1>11 DEF BufferCloses, SubscriptionInv
  <2> QED BY <2>1, <2>2, BufferDropped DEF Subscription!Next
<1>12. CASE ForwarderReceives
  <2>1. /\ hand = <<>> /\ buffer # <<>> /\ hand' = <<Head(buffer)>> /\ buffer' = Tail(buffer)
        /\ UNCHANGED <<up, cancelled, queue, sub, bufferOpen, reader, out>>
    BY <1>12 DEF ForwarderReceives, forwardEnv, cancelVars
  <2>2. (out \o <<Head(buffer)>>) \o Tail(buffer) = (out \o <<>>) \o buffer
    <3>1. Head(buffer) \in Message /\ <<Head(buffer)>> \in Seq(Message) /\ Tail(buffer) \in Seq(Message)
      BY <1>0, <2>1, HeadTailProperties
    <3>2. (out \o <<Head(buffer)>>) \o Tail(buffer) = out \o (<<Head(buffer)>> \o Tail(buffer))
      BY <1>0, <3>1, ConcatAssociative
    <3>3. <<Head(buffer)>> \o Tail(buffer) = buffer
      BY <1>0, <2>1, HeadAndTail
    <3>4. out \o <<>> = out
      BY <1>0, ConcatEmptySeq
    <3> QED BY <3>2, <3>3, <3>4
  <2> QED BY <2>1, <2>2 DEF subscription, deliveries
<1>13. CASE ForwarderSends
  <2>1. /\ out' = out \o hand /\ hand' = <<>>
        /\ UNCHANGED <<up, cancelled, queue, sub, bufferOpen, reader, buffer>>
    BY <1>13 DEF ForwarderSends, forwardEnv, cancelVars
  <2>2. (out \o hand) \o <<>> = out \o hand
    BY <1>0, ConcatEmptySeq
  <2> QED BY <2>1, <2>2 DEF subscription, deliveries
<1>14. CASE ForwarderEnds
  BY <1>1, <1>14 DEF ForwarderEnds, forwardEnv, cancelVars, Unseen
<1>15. CASE ReaderReceives
  <2>1. /\ reader = "reading" /\ out # <<>> /\ out' = Tail(out)
        /\ UNCHANGED <<up, cancelled, queue, sub, bufferOpen, reader, hand, buffer>>
    BY <1>15 DEF ReaderReceives, cancelEnv, cancelVars
  <2>2. out \o hand # <<>> /\ Tail(out \o hand) = Tail(out) \o hand
    BY <1>0, <2>1, ConcatTail
  <2>3. /\ (out \o hand) \o buffer # <<>>
        /\ Tail((out \o hand) \o buffer) = Tail(out \o hand) \o buffer
    BY <1>0, <2>2, ConcatTail
  <2>4. Subscription!Read
    BY <2>1, <2>2, <2>3 DEF Subscription!Read
  <2> QED BY <2>4 DEF Subscription!Next
<1>16. CASE ReaderSeesDone
  BY <1>16 DEF ReaderSeesDone, cancelEnv, flowVars, subscription, deliveries
<1>17. CASE ReaderSeesClosed
  <2>1. /\ forwarder = "ended" /\ out = <<>> /\ reader = "reading"
        /\ reader' \in {"cancel", "gone"}
        /\ UNCHANGED <<up, cancelled, queue, sub, bufferOpen, out, hand, buffer>>
    BY <1>17 DEF ReaderSeesClosed, cancelEnv, flowVars
  <2>2. hand = <<>> /\ buffer = <<>> /\ ~bufferOpen /\ sub = "consuming"
    BY <2>1 DEF SubscriptionInv
  <2>3. subscription = "closed" /\ deliveries = <<>>
    <3>1. (<<>> \o <<>>) \o <<>> = <<>>
      BY ConcatEmptySeq, EmptySeq
    <3> QED BY <2>1, <2>2, <3>1 DEF subscription, deliveries
  <2>4. CASE reader' = "gone"
    BY <2>1, <2>2, <2>3, <2>4, ReaderLeaves DEF Subscription!Next
  <2>5. CASE reader' = "cancel"
    BY <2>1, <2>5 DEF subscription, deliveries
  <2> QED BY <2>1, <2>4, <2>5
<1>18. CASE ReaderReturns
  <2>1. /\ reader = "cancel" /\ once = "done" /\ reader' = "gone"
        /\ UNCHANGED <<up, cancelled, queue, sub, bufferOpen, out, hand, buffer>>
    BY <1>18 DEF ReaderReturns, MayReturn, cancelEnv, flowVars
  <2>2. ~bufferOpen /\ buffer = <<>> /\ sub = "consuming"
    BY <2>1 DEF SubscriptionInv
  <2>3. cancelled \/ (subscription = "closed" /\ deliveries = <<>>)
    <3>1. (<<>> \o <<>>) \o <<>> = <<>>
      BY ConcatEmptySeq, EmptySeq
    <3> QED BY <2>1, <2>2, <3>1 DEF SubscriptionInv, subscription, deliveries
  <2> QED BY <2>1, <2>2, <2>3, ReaderLeaves DEF Subscription!Next
<1>19. CASE CancelConsumer
  BY <1>1, <1>19 DEF CancelConsumer, cancelEnv, flowVars, Unseen
<1>20. CASE CloseConsumerChannel
  <2>1. /\ bufferOpen' = FALSE /\ buffer' = <<>> /\ once = "closing"
        /\ UNCHANGED <<up, cancelled, queue, sub, reader, hand, out>>
    BY <1>20 DEF CloseConsumerChannel, cancelEnv
  <2>2. CASE bufferOpen
    BY <2>1, <2>2, BufferDropped DEF SubscriptionInv, Subscription!Next
  <2>3. CASE ~bufferOpen
    BY <1>0, <1>1, <2>1, <2>3 DEF SubscriptionInv, Unseen
  <2> QED BY <2>2, <2>3
<1>21. CASE Waiter
  BY <1>1, <1>21 DEF Waiter, WaiterSeesDone, WaiterReturns, cancelEnv, flowVars, Unseen
<1> QED BY <1>2, <1>3, <1>4, <1>5, <1>6, <1>7, <1>8, <1>9, <1>10, <1>11, <1>12, <1>13, <1>14,
           <1>15, <1>16, <1>17, <1>18, <1>19, <1>20, <1>21
        DEF Next, Forwarder, Reader, CancelBody

\* Nothing is delivered twice, out of order or after cancel has returned, and
\* only the end of the context or of the connection drops deliveries.
THEOREM ClientImplementsConsumption == Spec => ImplementsConsumption
<1>1. Init => TypeOK /\ Counted /\ SubscriptionInv /\ Subscription!Init
  <2>1. Init => Subscription!Init
    <3>1. (<<>> \o <<>>) \o <<>> = <<>>
      BY ConcatEmptySeq, EmptySeq
    <3> QED BY <3>1 DEF Init, Subscription!Init
  <2> QED BY <2>1, TypeInit, SubscriptionInit
<1>2. TypeOK /\ Counted /\ SubscriptionInv /\ [Next]_vars
        => TypeOK' /\ Counted' /\ SubscriptionInv'
  BY TypeStep, SubscriptionStep
<1>3. TypeOK /\ SubscriptionInv /\ [Next]_vars =>
        \/ Subscription!Next
        \/ UNCHANGED <<up, cancelled, queue, subscription, deliveries>>
  BY ConsumptionStep
<1> QED BY <1>1, <1>2, <1>3, PTL DEF Spec, ImplementsConsumption, Subscription!Spec, subscription, deliveries
=============================================================================

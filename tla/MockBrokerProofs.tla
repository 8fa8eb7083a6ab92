-------------------------- MODULE MockBrokerProofs --------------------------
(***************************************************************************)
(* What MockBroker guarantees for every number of subscriptions,           *)
(* publishers, queues and bindings and every capacity of the channels.     *)
(***************************************************************************)
EXTENDS MockBroker, SequenceLemmas

Delivery == [to : Subs, message : 1..Len(published)]
Publication == [by : Publishers, exchange : Exchanges \cup {NoExchange},
                key : RoutingKeys \cup Queues]

-----------------------------------------------------------------------------
(* Lists of queues and of channels *)

\* The lists under the mutex repeat nothing, and no channel is on two queues.
ListsDistinct ==
  /\ \A q \in Queues : Distinct(queues[q])
  /\ \A q, r \in Queues : q # r => Range(queues[q]) \cap Range(queues[r]) = {}
  /\ \A x \in Exchanges, k \in RoutingKeys : Distinct(bindings[x][k])

\* What the lists, the channels and the cancel functions know of each other: a
\* listed channel has not been cancelled, and an open broker has closed only
\* the channels whose cancel function has run to its end.
ChannelsAlive ==
  /\ \A s \in Subs : channel[s] = "none" <=> cancelOnce[s] = "none"
  /\ \A s \in closing : channel[s] # "none"
  /\ \A q \in Queues : \A s \in Range(queues[q]) : cancelOnce[s] = "armed"
  /\ ~closed => /\ closing = {}
                /\ \A s \in Subs : cancelOnce[s] \in {"armed", "removed"} => channel[s] = "open"
  /\ closed => \A q \in Queues : queues[q] = <<>>

BrokerInv == TypeOK /\ ListsDistinct /\ ChannelsAlive

\* An append that skips what is there keeps a list of queues distinct.
LEMMA AppendUniqueElements ==
  ASSUME NEW S, NEW s \in Seq(S), NEW e \in S, Distinct(s)
  PROVE  appendUnique(s, e) \in Seq(S) /\ Distinct(appendUnique(s, e))
<1>1. CASE e \in Range(s)
  BY <1>1 DEF appendUnique
<1>2. CASE e \notin Range(s)
  BY <1>2, AppendProperties, DistinctAppend DEF appendUnique
<1> QED BY <1>1, <1>2

\* A message goes to each of its queues once.
LEMMA TargetsDistinct ==
  ASSUME TypeOK, ListsDistinct, NEW x, NEW k,
         \/ x \in Exchanges /\ k \in RoutingKeys
         \/ x = NoExchange /\ k \in Queues
  PROVE  resolveTargets(x, k) \in Seq(Queues) /\ Distinct(resolveTargets(x, k))
<1>1. CASE x \in Exchanges /\ k \in RoutingKeys
  <2>1. resolveTargets(x, k) = bindings[x][k]
    BY <1>1, MockAssumption DEF resolveTargets
  <2> QED BY <1>1, <2>1 DEF TypeOK, ListsDistinct
<1>2. CASE x = NoExchange /\ k \in Queues
  <2>1. resolveTargets(x, k) = <<k>>
    BY <1>2 DEF resolveTargets
  <2>2. <<k>> \in Seq(Queues) /\ DOMAIN <<k>> = {1}
    BY <1>2
  <2> QED BY <2>1, <2>2 DEF Distinct
<1> QED BY <1>1, <1>2

\* A snapshot of the subscribers of distinct queues holds each channel once.
LEMMA SubscribersDistinct ==
  ASSUME TypeOK, ListsDistinct, NEW targets \in Seq(Queues), Distinct(targets)
  PROVE  /\ collectSubscribers(targets) \in Seq(Subs)
         /\ Distinct(collectSubscribers(targets))
<1> DEFINE lists == [i \in DOMAIN targets |->
                      IF targets[i] \in Queues THEN queues[targets[i]] ELSE <<>>]
<1>1. Len(targets) \in Nat /\ DOMAIN targets = 1..Len(targets)
      /\ \A i \in DOMAIN targets : targets[i] \in Queues
  BY LenProperties, ElementOfSeq
<1>2. /\ DOMAIN lists = DOMAIN targets
      /\ \A i \in DOMAIN targets : lists[i] = queues[targets[i]] /\ lists[i] \in Seq(Subs)
  BY <1>1 DEF TypeOK
<1>3. collectSubscribers(targets) = FlattenSeq(lists)
  BY DEF collectSubscribers
<1> HIDE DEF lists
<1>4. lists \in Seq(Seq(Subs))
  <2> DEFINE n == Len(targets)
  <2>1. n \in Nat /\ lists \in [1..n -> Seq(Subs)]
    BY <1>1, <1>2 DEF lists
  <2> HIDE DEF n
  <2> QED BY <2>1
<1>5. \A i \in DOMAIN lists : Distinct(lists[i])
  BY <1>1, <1>2 DEF ListsDistinct
<1>6. ASSUME NEW i \in DOMAIN lists, NEW j \in DOMAIN lists, i # j
      PROVE  Range(lists[i]) \cap Range(lists[j]) = {}
  <2>1. targets[i] # targets[j] /\ targets[i] \in Queues /\ targets[j] \in Queues
    BY <1>1, <1>2, <1>6 DEF Distinct
  <2> QED BY <1>2, <2>1 DEF ListsDistinct
<1> QED BY <1>3, <1>4, <1>5, <1>6, FlattenElements

-----------------------------------------------------------------------------
(* Types *)

\* The part of the type invariant that the maps and the channels have apart
\* from the messages.
MapsTyped ==
  /\ closed \in BOOLEAN
  /\ bindings \in [Exchanges -> [RoutingKeys -> Seq(Queues)]]
  /\ queues \in [Queues -> Seq(Subs)]
  /\ channel \in [Subs -> {"none", "open", "closed"}]
  /\ cancelOnce \in [Subs -> {"none", "armed", "removed", "done"}]
  /\ closing \subseteq Subs
  /\ panic \in Panics

\* The part that names messages.
MessagesTyped ==
  /\ published \in Seq(Publication)
  /\ sending \in [Publishers -> Seq(Delivery)]
  /\ buffer \in [Subs -> Seq(1..Len(published))]
  /\ \A s \in Subs : Len(buffer[s]) <= BufferSize
  /\ received \in [Subs -> Seq(1..Len(published))]

\* The two parts make the type invariant.
LEMMA TypeParts == TypeOK <=> MapsTyped /\ MessagesTyped
BY DEF TypeOK, MapsTyped, MessagesTyped, Publication, Delivery

\* The maps and the channels keep their types.
LEMMA MapsTypedStep ==
  ASSUME TypeOK, ListsDistinct, [Next]_vars
  PROVE  MapsTyped'
<1>0. MapsTyped
  BY TypeParts
<1> USE <1>0 DEF MapsTyped
<1>1. ASSUME NEW q \in Queues, NEW x \in Exchanges, NEW k \in RoutingKeys, BindQueue(q, x, k)
      PROVE  MapsTyped'
  <2>1. appendUnique(bindings[x][k], q) \in Seq(Queues)
    BY AppendUniqueElements DEF ListsDistinct
  <2>2. bindings' \in [Exchanges -> [RoutingKeys -> Seq(Queues)]]
    BY <1>1, <2>1 DEF BindQueue
  <2> QED BY <1>1, <2>2 DEF BindQueue, chanVars
<1>2. ASSUME NEW p \in Publishers, NEW x, NEW k, Publish(p, x, k) PROVE MapsTyped'
  BY <1>2 DEF Publish, chanVars
<1>3. ASSUME NEW p \in Publishers, Send(p) PROVE MapsTyped'
  BY <1>3 DEF Send, mapVars, Panics
<1>4. ASSUME NEW s \in Subs, NEW q \in Queues, Subscribe(s, q) PROVE MapsTyped'
  <2>1. Append(queues[q], s) \in Seq(Subs)
    BY AppendProperties
  <2> QED BY <1>4, <2>1 DEF Subscribe
<1>5. ASSUME NEW s \in Subs, Cancel(s) PROVE MapsTyped'
  <2>1. \A q \in Queues : Without(queues[q], s) \in Seq(Subs)
    BY RemoveFirstElements DEF Without, ListsDistinct
  <2> QED BY <1>5, <2>1 DEF Cancel, chanVars
<1>6. ASSUME NEW s \in Subs, FinishCancel(s) PROVE MapsTyped'
  BY <1>6 DEF FinishCancel, CloseChannel, mapVars, Panics
<1>7. CASE Close
  <2>1. UNION {Range(queues[q]) : q \in Queues} \subseteq Subs
    BY RangeOfSeq
  <2> QED BY <1>7, <2>1 DEF Close, chanVars
<1>8. ASSUME NEW s \in Subs, CloseNext(s) PROVE MapsTyped'
  BY <1>8 DEF CloseNext, CloseChannel, mapVars, Panics
<1>9. ASSUME NEW s \in Subs, Receive(s) PROVE MapsTyped'
  BY <1>9 DEF Receive, mapVars
<1>10. CASE UNCHANGED vars
  BY <1>10 DEF vars, mapVars, chanVars
<1> QED BY <1>1, <1>2, <1>3, <1>4, <1>5, <1>6, <1>7, <1>8, <1>9, <1>10 DEF Next

\* So do the messages on their way.
LEMMA MessagesTypedStep ==
  ASSUME TypeOK, ListsDistinct, [Next]_vars
  PROVE  MessagesTyped'
<1>0. MessagesTyped /\ MapsTyped /\ BufferSize \in Nat \ {0}
  BY TypeParts, MockAssumption
<1>1. ASSUME UNCHANGED <<published, sending, buffer, received>> PROVE MessagesTyped'
  BY <1>0, <1>1 DEF MessagesTyped, Delivery
<1>2. ASSUME NEW p \in Publishers, NEW x, NEW k, Publish(p, x, k),
             \/ x \in Exchanges /\ k \in RoutingKeys
             \/ x = NoExchange /\ k \in Queues
      PROVE  MessagesTyped'
  <2> DEFINE n == Len(published)
             new == [by |-> p, exchange |-> x, key |-> k]
             subscribers == collectSubscribers(resolveTargets(x, k))
             entries == [i \in DOMAIN subscribers |-> [to |-> subscribers[i], message |-> n + 1]]
  <2>1. /\ published' = Append(published, new) /\ sending' = [sending EXCEPT ![p] = entries]
        /\ UNCHANGED <<buffer, received>>
    BY <1>2 DEF Publish, chanVars
  <2>2. new \in Publication
    BY <1>2 DEF Publication
  <2>3. n \in Nat /\ Len(published') = n + 1 /\ published' \in Seq(Publication)
    <3> HIDE DEF new
    <3> QED BY <1>0, <2>1, <2>2, AppendProperties, LenProperties DEF MessagesTyped
  <2>4. subscribers \in Seq(Subs)
    BY <1>2, TargetsDistinct, SubscribersDistinct
  <2> HIDE DEF n, new, subscribers
  <2>5. entries \in Seq([to : Subs, message : 1..(n + 1)])
    <3>1. Len(subscribers) \in Nat /\ DOMAIN subscribers = 1..Len(subscribers)
          /\ \A i \in DOMAIN subscribers : subscribers[i] \in Subs
      BY <2>4, LenProperties, ElementOfSeq
    <3> DEFINE L == Len(subscribers)
               D == [to : Subs, message : 1..(n + 1)]
    <3>2. entries \in [1..L -> D]
      BY <2>3, <3>1
    <3> HIDE DEF entries, L, D
    <3>3. L \in Nat
      BY <3>1 DEF L
    <3>4. entries \in Seq(D)
      BY <3>2, <3>3
    <3> QED BY <3>4 DEF D
  <2> HIDE DEF entries
  <2>6. /\ [to : Subs, message : 1..n] \subseteq [to : Subs, message : 1..(n + 1)]
        /\ 1..n \subseteq 1..(n + 1)
    <3>1. 1..n \subseteq 1..(n + 1)
      BY <2>3
    <3> QED BY <3>1
  <2>7. \A r \in Publishers : sending[r] \in Seq([to : Subs, message : 1..(n + 1)])
    <3> DEFINE D == [to : Subs, message : 1..n]
               E == [to : Subs, message : 1..(n + 1)]
    <3>1. sending \in [Publishers -> Seq(D)] /\ D \subseteq E
      BY <1>0, <2>6 DEF MessagesTyped, Delivery, n
    <3> HIDE DEF D, E
    <3>2. \A r \in Publishers : sending[r] \in Seq(E)
      BY <3>1, SeqMonotonic
    <3> QED BY <3>2 DEF E
  <2>8. sending' \in [Publishers -> Seq([to : Subs, message : 1..(n + 1)])]
    BY <1>0, <2>1, <2>5, <2>7 DEF MessagesTyped
  <2>9. /\ buffer' \in [Subs -> Seq(1..(n + 1))] /\ received' \in [Subs -> Seq(1..(n + 1))]
        /\ \A s \in Subs : Len(buffer'[s]) <= BufferSize
    <3>1. \A s \in Subs : buffer[s] \in Seq(1..(n + 1)) /\ received[s] \in Seq(1..(n + 1))
      BY <1>0, <2>6, SeqMonotonic DEF MessagesTyped, n
    <3> QED BY <1>0, <2>1, <3>1 DEF MessagesTyped
  <2> QED BY <2>3, <2>8, <2>9 DEF MessagesTyped, Delivery
<1>3. ASSUME NEW p \in Publishers, Send(p) PROVE MessagesTyped'
  <2> DEFINE next == Head(sending[p])
  <2>1. next \in Delivery /\ Tail(sending[p]) \in Seq(Delivery)
    BY <1>0, <1>3, HeadTailProperties DEF MessagesTyped, Send
  <2> HIDE DEF next
  <2>2. next.to \in Subs /\ next.message \in 1..Len(published)
    BY <2>1 DEF Delivery
  <2>3. /\ Offer(buffer[next.to], next.message) \in Seq(1..Len(published))
        /\ Len(Offer(buffer[next.to], next.message)) <= BufferSize
    <3>1. buffer[next.to] \in Seq(1..Len(published)) /\ Len(buffer[next.to]) \in Nat
          /\ Len(buffer[next.to]) <= BufferSize
      BY <1>0, <2>2, LenProperties DEF MessagesTyped
    <3>2. CASE Len(buffer[next.to]) < BufferSize
      <4>1. /\ Append(buffer[next.to], next.message) \in Seq(1..Len(published))
            /\ Len(Append(buffer[next.to], next.message)) = Len(buffer[next.to]) + 1
        BY <2>2, <3>1, AppendProperties
      <4> QED BY <1>0, <3>1, <3>2, <4>1 DEF Offer
    <3> QED BY <3>1, <3>2 DEF Offer
  <2>4. UNCHANGED <<published, received>>
    BY <1>3 DEF Send, mapVars
  <2>5. CASE UNCHANGED <<sending, buffer>>
    BY <1>1, <2>4, <2>5
  <2>6. CASE /\ buffer' = [buffer EXCEPT ![next.to] = Offer(@, next.message)]
             /\ sending' = [sending EXCEPT ![p] = Tail(@)]
    <3>1. sending' \in [Publishers -> Seq(Delivery)]
      BY <1>0, <2>1, <2>6 DEF MessagesTyped
    <3>2. buffer' \in [Subs -> Seq(1..Len(published))]
          /\ \A s \in Subs : Len(buffer'[s]) <= BufferSize
      BY <1>0, <2>2, <2>3, <2>6 DEF MessagesTyped
    <3> QED BY <1>0, <2>4, <3>1, <3>2 DEF MessagesTyped, Delivery
  <2> QED BY <1>3, <2>5, <2>6 DEF Send, next
<1>4. ASSUME NEW s \in Subs, Receive(s) PROVE MessagesTyped'
  <2>1. /\ buffer[s] # <<>> /\ UNCHANGED <<published, sending>>
        /\ received' = [received EXCEPT ![s] = Append(@, Head(buffer[s]))]
        /\ buffer' = [buffer EXCEPT ![s] = Tail(@)]
    BY <1>4 DEF Receive, mapVars
  <2>2. /\ Head(buffer[s]) \in 1..Len(published)
        /\ Tail(buffer[s]) \in Seq(1..Len(published))
        /\ Len(Tail(buffer[s])) = Len(buffer[s]) - 1 /\ Len(buffer[s]) \in Nat
    BY <1>0, <2>1, HeadTailProperties, LenProperties DEF MessagesTyped
  <2>3. Append(received[s], Head(buffer[s])) \in Seq(1..Len(published))
    BY <1>0, <2>2, AppendProperties DEF MessagesTyped
  <2>4. received' \in [Subs -> Seq(1..Len(published))]
    BY <1>0, <2>1, <2>3 DEF MessagesTyped
  <2>5. buffer' \in [Subs -> Seq(1..Len(published))]
    BY <1>0, <2>1, <2>2 DEF MessagesTyped
  <2>6. ASSUME NEW c \in Subs PROVE Len(buffer'[c]) <= BufferSize
    <3>1. Len(buffer[c]) <= BufferSize
      BY <1>0 DEF MessagesTyped
    <3>2. CASE c = s
      <4>1. Len(buffer'[c]) = Len(buffer[s]) - 1
        BY <1>0, <2>1, <2>2, <3>2 DEF MessagesTyped
      <4> QED BY <1>0, <2>2, <3>1, <3>2, <4>1
    <3>3. CASE c # s
      BY <1>0, <2>1, <3>1, <3>3 DEF MessagesTyped
    <3> QED BY <3>2, <3>3
  <2> QED BY <1>0, <2>1, <2>4, <2>5, <2>6 DEF MessagesTyped, Delivery
<1>5. ASSUME NEW s \in Subs,
             \/ \E q \in Queues : Subscribe(s, q)
             \/ Cancel(s) \/ FinishCancel(s) \/ CloseNext(s)
      PROVE  MessagesTyped'
  BY <1>1, <1>5 DEF Subscribe, Cancel, FinishCancel, CloseNext, mapVars, chanVars
<1>6. ASSUME NEW q \in Queues, NEW x \in Exchanges, NEW k \in RoutingKeys, BindQueue(q, x, k)
      PROVE  MessagesTyped'
  BY <1>1, <1>6 DEF BindQueue, chanVars
<1>7. CASE Close \/ UNCHANGED vars
  BY <1>1, <1>7 DEF Close, vars, mapVars, chanVars
<1> QED BY <1>2, <1>3, <1>4, <1>5, <1>6, <1>7 DEF Next

-----------------------------------------------------------------------------
(* The lists and the channels, step by step *)

\* No operation lists a queue or a channel twice.
LEMMA ListsDistinctStep ==
  ASSUME TypeOK, ListsDistinct, ChannelsAlive, [Next]_vars
  PROVE  ListsDistinct'
<1>0. MapsTyped
  BY TypeParts
<1>1. ASSUME UNCHANGED <<queues, bindings>> PROVE ListsDistinct'
  BY <1>1 DEF ListsDistinct
<1>2. ASSUME NEW q \in Queues, NEW x \in Exchanges, NEW k \in RoutingKeys, BindQueue(q, x, k)
      PROVE  ListsDistinct'
  <2>1. Distinct(appendUnique(bindings[x][k], q))
    BY <1>0, AppendUniqueElements DEF ListsDistinct, MapsTyped
  <2>2. bindings' = [bindings EXCEPT ![x][k] = appendUnique(@, q)] /\ UNCHANGED queues
    BY <1>2 DEF BindQueue
  <2>3. \A y \in Exchanges, l \in RoutingKeys :
          bindings'[y][l] = IF y = x /\ l = k THEN appendUnique(bindings[x][k], q) ELSE bindings[y][l]
    BY <1>0, <2>2 DEF MapsTyped
  <2>4. \A y \in Exchanges, l \in RoutingKeys : Distinct(bindings'[y][l])
    BY <2>1, <2>3 DEF ListsDistinct
  <2> QED BY <2>2, <2>4 DEF ListsDistinct
<1>3. ASSUME NEW s \in Subs, NEW q \in Queues, Subscribe(s, q) PROVE ListsDistinct'
  <2>1. /\ queues' = [queues EXCEPT ![q] = Append(@, s)] /\ UNCHANGED bindings
        /\ cancelOnce[s] = "none"
    BY <1>3 DEF Subscribe, ChannelsAlive
  <2>2. \A r \in Queues : s \notin Range(queues[r])
    BY <2>1 DEF ChannelsAlive
  <2>3. /\ Distinct(Append(queues[q], s))
        /\ Range(Append(queues[q], s)) = Range(queues[q]) \cup {s}
    BY <1>0, <2>2, DistinctAppend, RangeAppend DEF ListsDistinct, MapsTyped
  <2>4. \A r \in Queues : queues'[r] = IF r = q THEN Append(queues[q], s) ELSE queues[r]
    BY <1>0, <2>1 DEF MapsTyped
  <2>5. \A r \in Queues : Distinct(queues'[r])
    BY <2>3, <2>4 DEF ListsDistinct
  <2>6. ASSUME NEW r \in Queues, NEW t \in Queues, r # t
        PROVE  Range(queues'[r]) \cap Range(queues'[t]) = {}
    BY <2>2, <2>3, <2>4, <2>6 DEF ListsDistinct
  <2> QED BY <2>1, <2>5, <2>6 DEF ListsDistinct
<1>4. ASSUME NEW s \in Subs, Cancel(s) PROVE ListsDistinct'
  <2>1. \A q \in Queues : queues'[q] = Without(queues[q], s) /\ UNCHANGED bindings
    BY <1>4 DEF Cancel
  <2>2. \A q \in Queues : /\ Distinct(Without(queues[q], s))
                         /\ Range(Without(queues[q], s)) \subseteq Range(queues[q])
    BY <1>0, RemoveFirstElements DEF Without, ListsDistinct, MapsTyped
  <2>3. UNCHANGED bindings
    BY <1>4 DEF Cancel
  <2> QED BY <2>1, <2>2, <2>3 DEF ListsDistinct
<1>5. CASE Close
  <2>1. (\A q \in Queues : queues'[q] = <<>>) /\ UNCHANGED bindings
    BY <1>5 DEF Close
  <2>2. Distinct(<<>>) /\ Range(<<>>) = {}
    BY DEF Distinct, Range
  <2> QED BY <2>1, <2>2 DEF ListsDistinct
<1>6. ASSUME NEW p \in Publishers, NEW x, NEW k, Publish(p, x, k) PROVE ListsDistinct'
  BY <1>1, <1>6 DEF Publish
<1>7. ASSUME NEW p \in Publishers, Send(p) PROVE ListsDistinct'
  BY <1>1, <1>7 DEF Send, mapVars
<1>8. ASSUME NEW s \in Subs, FinishCancel(s) \/ CloseNext(s) \/ Receive(s) PROVE ListsDistinct'
  BY <1>1, <1>8 DEF FinishCancel, CloseNext, Receive, mapVars
<1>9. CASE UNCHANGED vars
  BY <1>1, <1>9 DEF vars, mapVars
<1> QED BY <1>2, <1>3, <1>4, <1>5, <1>6, <1>7, <1>8, <1>9 DEF Next

\* A channel is closed after its cancel function or Close has unlisted it.
LEMMA ChannelsAliveStep ==
  ASSUME TypeOK, ListsDistinct, ChannelsAlive, [Next]_vars
  PROVE  ChannelsAlive'
<1>0. MapsTyped
  BY TypeParts
<1>1. ASSUME UNCHANGED <<queues, channel, cancelOnce, closing, closed>> PROVE ChannelsAlive'
  BY <1>1 DEF ChannelsAlive
<1>2. ASSUME NEW q \in Queues, NEW x, NEW k, BindQueue(q, x, k) PROVE ChannelsAlive'
  BY <1>1, <1>2 DEF BindQueue, chanVars
<1>3. ASSUME NEW p \in Publishers, NEW x, NEW k, Publish(p, x, k) PROVE ChannelsAlive'
  BY <1>1, <1>3 DEF Publish, chanVars
<1>4. ASSUME NEW p \in Publishers, Send(p) PROVE ChannelsAlive'
  BY <1>1, <1>4 DEF Send, mapVars
<1>5. ASSUME NEW s \in Subs, Receive(s) PROVE ChannelsAlive'
  BY <1>1, <1>5 DEF Receive, mapVars
<1>6. ASSUME NEW s \in Subs, NEW q \in Queues, Subscribe(s, q) PROVE ChannelsAlive'
  <2>1. /\ channel[s] = "none" /\ ~closed /\ UNCHANGED <<closed, closing>>
        /\ channel' = [channel EXCEPT ![s] = "open"]
        /\ cancelOnce' = [cancelOnce EXCEPT ![s] = "armed"]
        /\ queues' = [queues EXCEPT ![q] = Append(@, s)]
    BY <1>6 DEF Subscribe
  <2>2. Range(Append(queues[q], s)) = Range(queues[q]) \cup {s}
    BY <1>0, RangeAppend DEF MapsTyped
  <2>3. \A c \in Subs : /\ channel'[c] = IF c = s THEN "open" ELSE channel[c]
                       /\ cancelOnce'[c] = IF c = s THEN "armed" ELSE cancelOnce[c]
    BY <1>0, <2>1 DEF MapsTyped
  <2>4. \A r \in Queues : Range(queues'[r]) \subseteq Range(queues[r]) \cup {s}
    BY <1>0, <2>1, <2>2 DEF MapsTyped
  <2>5. \A r \in Queues : Range(queues[r]) \subseteq Subs
    BY <1>0, RangeOfSeq DEF MapsTyped
  <2>6. \A r \in Queues : \A c \in Range(queues'[r]) : cancelOnce'[c] = "armed"
    BY <2>3, <2>4, <2>5 DEF ChannelsAlive
  <2> QED BY <2>1, <2>3, <2>6 DEF ChannelsAlive
<1>7. ASSUME NEW s \in Subs, Cancel(s) PROVE ChannelsAlive'
  <2>1. /\ cancelOnce[s] = "armed" /\ UNCHANGED <<closed, closing, channel>>
        /\ cancelOnce' = [cancelOnce EXCEPT ![s] = "removed"]
        /\ \A q \in Queues : queues'[q] = Without(queues[q], s)
    BY <1>7 DEF Cancel, chanVars
  <2>2. \A q \in Queues : Range(queues'[q]) = Range(queues[q]) \ {s}
    BY <1>0, <2>1, RemoveFirstElements DEF Without, ListsDistinct, MapsTyped
  <2>3. \A c \in Subs : cancelOnce'[c] = IF c = s THEN "removed" ELSE cancelOnce[c]
    BY <1>0, <2>1 DEF MapsTyped
  <2>4. \A r \in Queues : Range(queues[r]) \subseteq Subs
    BY <1>0, RangeOfSeq DEF MapsTyped
  <2>5. \A r \in Queues : \A c \in Range(queues'[r]) : cancelOnce'[c] = "armed"
    BY <2>2, <2>3, <2>4 DEF ChannelsAlive
  <2>6. closed => \A q \in Queues : queues'[q] = <<>>
    <3>1. ASSUME closed, NEW q \in Queues PROVE queues'[q] = <<>>
      <4>1. queues[q] = <<>> /\ Len(<<>>) = 0 /\ 1..0 = {}
        BY <3>1 DEF ChannelsAlive
      <4>2. RemoveFirst(<<>>, s) = <<>>
        BY <4>1 DEF RemoveFirst
      <4> QED BY <2>1, <4>1, <4>2 DEF Without
    <3> QED BY <3>1
  <2> QED BY <2>1, <2>3, <2>5, <2>6 DEF ChannelsAlive
<1>8. ASSUME NEW s \in Subs, FinishCancel(s) PROVE ChannelsAlive'
  <2>1. /\ cancelOnce[s] = "removed" /\ UNCHANGED <<closed, closing, queues>>
        /\ cancelOnce' = [cancelOnce EXCEPT ![s] = "done"]
        /\ \/ UNCHANGED channel
           \/ channel' = [channel EXCEPT ![s] = "closed"]
    BY <1>8 DEF FinishCancel, CloseChannel, mapVars
  <2>2. channel[s] # "none" /\ channel'[s] # "none" /\ cancelOnce'[s] = "done"
    BY <1>0, <2>1 DEF MapsTyped, ChannelsAlive
  <2>3. \A c \in Subs : c # s => cancelOnce'[c] = cancelOnce[c] /\ channel'[c] = channel[c]
    BY <1>0, <2>1 DEF MapsTyped
  <2>4. \A r \in Queues : Range(queues[r]) \subseteq Subs /\ s \notin Range(queues[r])
    BY <1>0, <2>1, RangeOfSeq DEF MapsTyped, ChannelsAlive
  <2>5. ASSUME NEW c \in Subs
        PROVE  /\ channel'[c] = "none" <=> cancelOnce'[c] = "none"
               /\ channel[c] # "none" => channel'[c] # "none"
               /\ ~closed /\ cancelOnce'[c] \in {"armed", "removed"} => channel'[c] = "open"
    <3>1. CASE c = s
      BY <2>2, <3>1
    <3>2. CASE c # s
      BY <2>3, <3>2 DEF ChannelsAlive
    <3> QED BY <3>1, <3>2
  <2>6. \A q \in Queues : \A c \in Range(queues'[q]) : cancelOnce'[c] = "armed"
    BY <2>1, <2>3, <2>4 DEF ChannelsAlive
  <2>7. \A c \in closing' : channel'[c] # "none"
    BY <1>0, <2>1, <2>5 DEF ChannelsAlive, MapsTyped
  <2>8. closed' => \A q \in Queues : queues'[q] = <<>>
    BY <2>1 DEF ChannelsAlive
  <2>9. ~closed' => closing' = {} /\ ~closed
    BY <2>1 DEF ChannelsAlive
  <2> QED BY <2>5, <2>6, <2>7, <2>8, <2>9 DEF ChannelsAlive
<1>9. CASE Close
  <2>1. /\ closed' /\ UNCHANGED <<channel, cancelOnce>>
        /\ \A q \in Queues : queues'[q] = <<>>
    BY <1>9 DEF Close, chanVars
  <2>2. Range(<<>>) = {}
    BY DEF Range
  <2>3. \A r \in Queues : Range(queues[r]) \subseteq Subs
    BY <1>0, RangeOfSeq DEF MapsTyped
  <2>4. closing' = (UNION {Range(queues[q]) : q \in Queues})
    BY <1>9 DEF Close
  <2>5. \A c \in closing' : channel'[c] # "none"
    BY <2>1, <2>3, <2>4 DEF ChannelsAlive
  <2>6. \A q \in Queues : \A c \in Range(queues'[q]) : cancelOnce'[c] = "armed"
    BY <2>1, <2>2
  <2> QED BY <2>1, <2>5, <2>6 DEF ChannelsAlive
<1>10. ASSUME NEW s \in Subs, CloseNext(s) PROVE ChannelsAlive'
  <2>1. /\ s \in closing /\ UNCHANGED <<closed, queues, cancelOnce>>
        /\ \/ UNCHANGED channel
           \/ channel' = [channel EXCEPT ![s] = "closed"]
    BY <1>10 DEF CloseNext, CloseChannel, mapVars
  <2>2. closed /\ closing' \subseteq closing /\ closing \subseteq Subs
    BY <1>0, <1>10, <2>1 DEF CloseNext, ChannelsAlive, MapsTyped
  <2>3. channel[s] # "none"
    BY <2>1 DEF ChannelsAlive
  <2>4. ASSUME NEW c \in Subs PROVE channel'[c] = "none" <=> channel[c] = "none"
    <3>1. CASE c = s
      BY <1>0, <2>1, <2>3, <3>1 DEF MapsTyped
    <3>2. CASE c # s
      BY <1>0, <2>1, <3>2 DEF MapsTyped
    <3> QED BY <3>1, <3>2
  <2>5. \A c \in closing' : channel'[c] # "none"
    BY <2>2, <2>4 DEF ChannelsAlive
  <2> QED BY <2>1, <2>2, <2>4, <2>5 DEF ChannelsAlive
<1>11. CASE UNCHANGED vars
  BY <1>1, <1>11 DEF vars, mapVars, chanVars
<1> QED BY <1>2, <1>3, <1>4, <1>5, <1>6, <1>7, <1>8, <1>9, <1>10, <1>11 DEF Next

-----------------------------------------------------------------------------
(* Theorems on the lists and the channels *)

\* A new broker has empty lists and no channel.
LEMMA BrokerInit == Init => BrokerInv
<1> SUFFICES ASSUME Init PROVE BrokerInv
  OBVIOUS
<1>1. /\ Range(<<>>) = {} /\ Distinct(<<>>) /\ Len(<<>>) = 0
      /\ \A S : <<>> \in Seq(S)
  BY EmptySeq DEF Range, Distinct
<1>2. MapsTyped
  BY <1>1 DEF Init, MapsTyped, Panics
<1>3. MessagesTyped
  BY <1>1, MockAssumption DEF Init, MessagesTyped
<1>4. ListsDistinct
  BY <1>1 DEF Init, ListsDistinct
<1>5. ChannelsAlive
  BY <1>1 DEF Init, ChannelsAlive
<1> QED BY <1>2, <1>3, <1>4, <1>5, TypeParts DEF BrokerInv

\* The lists stay as the channels need them.
LEMMA BrokerStep == BrokerInv /\ [Next]_vars => BrokerInv'
BY TypeParts, MapsTypedStep, MessagesTypedStep, ListsDistinctStep, ChannelsAliveStep
   DEF BrokerInv, TypeOK, MapsTyped, MessagesTyped, Publication, Delivery

\* What the theorems of this part rest on.
LEMMA BrokerInvariant == Spec => []BrokerInv
BY BrokerInit, BrokerStep, PTL DEF Spec

\* Every variable has its type, and no channel holds more than its capacity:
\* the drop in Publish is the only thing that keeps a send from blocking.
THEOREM TypeCorrect == Spec => []TypeOK
<1>1. BrokerInv => TypeOK
  BY DEF BrokerInv
<1> QED BY <1>1, BrokerInvariant, PTL

\* Under the mutex of the broker only channels are found that are open, listed
\* once, not cancelled and not about to be closed.
THEOREM ListedAreLive == Spec => []OnlyLiveChannelsListed
<1>1. ASSUME BrokerInv PROVE OnlyLiveChannelsListed
  <2>1. \A q \in Queues : Range(queues[q]) \subseteq Subs
    BY <1>1, TypeParts, RangeOfSeq DEF BrokerInv, MapsTyped
  <2>2. ASSUME NEW q \in Queues, NEW s \in Range(queues[q])
        PROVE  channel[s] = "open" /\ cancelOnce[s] = "armed" /\ s \notin closing
    <3>1. queues[q] # <<>>
      BY <2>2 DEF Range
    <3>2. ~closed
      BY <1>1, <3>1 DEF BrokerInv, ChannelsAlive
    <3> QED BY <1>1, <2>1, <2>2, <3>2 DEF BrokerInv, ChannelsAlive
  <2>3. \A q \in Queues : \A i, j \in DOMAIN queues[q] : queues[q][i] = queues[q][j] => i = j
    BY <1>1 DEF BrokerInv, ListsDistinct, Distinct
  <2> QED BY <2>2, <2>3 DEF OnlyLiveChannelsListed
<1> QED BY <1>1, BrokerInvariant, PTL

\* A second close of a channel needs a Close of the broker: the cancel
\* function alone, whoever calls it and how often, closes a channel once.
THEOREM CancelSafe == Spec => []CancelIsSafe
<1>1. Init => CancelIsSafe
  BY DEF Init, CancelIsSafe
<1>2. ASSUME BrokerInv, CancelIsSafe, [Next]_vars PROVE CancelIsSafe'
  <2>0. MapsTyped
    BY <1>2, TypeParts DEF BrokerInv
  <2>1. closed => closed'
    <3>1. CASE Next
      BY <2>0, <3>1 DEF Next, BindQueue, Publish, Send, Subscribe, Cancel, FinishCancel,
                        CloseNext, Receive, Close, mapVars, MapsTyped
    <3>2. CASE UNCHANGED vars
      BY <3>2 DEF vars, mapVars
    <3> QED BY <1>2, <3>1, <3>2
  <2>2. CASE panic' = panic
    BY <1>2, <2>1, <2>2 DEF CancelIsSafe
  <2>3. ASSUME NEW p \in Publishers, Send(p), panic' # panic PROVE CancelIsSafe'
    BY <2>3 DEF Send, CancelIsSafe
  <2>4. ASSUME NEW s \in Subs, FinishCancel(s) PROVE CancelIsSafe'
    <3>1. cancelOnce[s] = "removed" /\ (panic' = panic \/ channel[s] = "closed")
      BY <2>4 DEF FinishCancel, CloseChannel
    <3>2. channel[s] = "closed" => closed
      BY <1>2, <3>1 DEF BrokerInv, ChannelsAlive
    <3> QED BY <1>2, <2>1, <3>1, <3>2 DEF CancelIsSafe
  <2>5. ASSUME NEW s \in Subs, CloseNext(s) PROVE CancelIsSafe'
    <3>1. closed
      BY <1>2, <2>5 DEF BrokerInv, ChannelsAlive, CloseNext
    <3> QED BY <2>1, <3>1 DEF CancelIsSafe
  <2>6. ASSUME NEW s \in Subs, \/ \E q \in Queues : Subscribe(s, q)
                              \/ Cancel(s) \/ Receive(s)
        PROVE  panic' = panic
    BY <2>6 DEF Subscribe, Cancel, Receive
  <2>7. ASSUME NEW p \in Publishers, NEW x, NEW k, Publish(p, x, k) PROVE panic' = panic
    BY <2>7 DEF Publish
  <2>8. ASSUME NEW q \in Queues, NEW x, NEW k, BindQueue(q, x, k) PROVE panic' = panic
    BY <2>8 DEF BindQueue
  <2>9. CASE Close \/ UNCHANGED vars
    BY <2>2, <2>9 DEF Close, vars
  <2> QED BY <1>2, <2>2, <2>3, <2>4, <2>5, <2>6, <2>7, <2>8, <2>9 DEF Next
<1> QED BY <1>1, <1>2, BrokerInvariant, PTL DEF Spec

\* A channel that disappears from a queue is the one that is cancelled, or the
\* broker is closed.
THEOREM CancelTakesNoOther == Spec => CancelKeepsOthers
<1> DEFINE Kept == \A q \in Queues : \A s \in Range(queues[q]) :
                     s \notin Range(queues'[q]) => closed' \/ cancelOnce'[s] = "removed"
<1>1. ASSUME BrokerInv, [Next]_vars PROVE [Kept]_vars
  <2>0. MapsTyped
    BY <1>1, TypeParts DEF BrokerInv
  <2>1. CASE UNCHANGED queues
    BY <2>1
  <2>2. ASSUME NEW s \in Subs, NEW q \in Queues, Subscribe(s, q) PROVE Kept
    <3>1. Range(Append(queues[q], s)) = Range(queues[q]) \cup {s}
      BY <2>0, RangeAppend DEF MapsTyped
    <3>2. \A r \in Queues : Range(queues[r]) \subseteq Range(queues'[r])
      BY <2>0, <2>2, <3>1 DEF Subscribe, MapsTyped
    <3> QED BY <3>2
  <2>3. ASSUME NEW s \in Subs, Cancel(s) PROVE Kept
    <3>1. \A q \in Queues : Range(queues'[q]) = Range(queues[q]) \ {s}
      BY <1>1, <2>0, <2>3, RemoveFirstElements DEF Cancel, Without, BrokerInv, ListsDistinct, MapsTyped
    <3>2. cancelOnce'[s] = "removed"
      BY <2>0, <2>3 DEF Cancel, MapsTyped
    <3> QED BY <3>1, <3>2
  <2>4. CASE Close
    BY <2>4 DEF Close
  <2>5. ASSUME NEW s \in Subs, FinishCancel(s) \/ CloseNext(s) \/ Receive(s) PROVE UNCHANGED queues
    BY <2>5 DEF FinishCancel, CloseNext, Receive, mapVars
  <2>6. ASSUME NEW p \in Publishers, NEW x, NEW k, Publish(p, x, k) \/ Send(p)
        PROVE  UNCHANGED queues
    BY <2>6 DEF Publish, Send, mapVars
  <2>7. ASSUME NEW q \in Queues, NEW x, NEW k, BindQueue(q, x, k) PROVE UNCHANGED queues
    BY <2>7 DEF BindQueue
  <2>8. CASE UNCHANGED vars
    BY <2>8
  <2> QED BY <1>1, <2>1, <2>2, <2>3, <2>4, <2>5, <2>6, <2>7, <2>8 DEF Next
<1> QED BY <1>1, BrokerInvariant, PTL DEF Spec, CancelKeepsOthers

-----------------------------------------------------------------------------
(* The order of the messages *)

\* A publisher sends a message of its own, to each channel once, and later
\* than every message of its that has reached the channel.
SendsInOrder ==
  \A p \in Publishers :
    /\ \A i, j \in DOMAIN sending[p] : sending[p][i].to = sending[p][j].to => i = j
    /\ \A i \in DOMAIN sending[p] :
         /\ published[sending[p][i].message].by = p
         /\ \A s \in Subs : \A m \in Range(Reached(s)) :
              sending[p][i].to = s /\ published[m].by = p => m < sending[p][i].message

\* What InOrderOnce says of the messages that have reached one channel.
Ordered(r) ==
  \A i, j \in DOMAIN r :
    i < j => r[i] # r[j] /\ (published[r[i]].by = published[r[j]].by => r[i] < r[j])

OrderInv == SendsInOrder /\ InOrderOnce

\* InOrderOnce, channel by channel.
LEMMA ChannelByChannel ==
  ASSUME TypeOK
  PROVE  /\ InOrderOnce <=> \A s \in Subs : Ordered(Reached(s))
         /\ \A s \in Subs : Reached(s) \in Seq(1..Len(published))
         /\ Len(published) \in Nat
<1>1. InOrderOnce <=> \A s \in Subs : Ordered(Reached(s))
  BY DEF InOrderOnce, Ordered
<1>2. /\ \A s \in Subs : received[s] \in Seq(1..Len(published)) /\ buffer[s] \in Seq(1..Len(published))
      /\ Len(published) \in Nat
  BY TypeParts, LenProperties DEF MessagesTyped
<1>3. \A s \in Subs : Reached(s) \in Seq(1..Len(published))
  BY <1>2, ConcatProperties DEF Reached
<1> QED BY <1>1, <1>2, <1>3

\* A message behind all that it must follow keeps the order.
LEMMA OrderedAppend ==
  ASSUME NEW r \in Seq(Nat), NEW m \in Nat, Ordered(r),
         \A a \in Range(r) : a # m /\ (published[a].by = published[m].by => a < m)
  PROVE  Ordered(Append(r, m))
<1> DEFINE t == Append(r, m)
<1>1. /\ Len(r) \in Nat /\ DOMAIN r = 1..Len(r) /\ DOMAIN t = 1..(Len(r) + 1)
      /\ \A i \in DOMAIN r : t[i] = r[i]
      /\ t[Len(r) + 1] = m
  <2>1. t \in Seq(Nat) /\ Len(t) = Len(r) + 1
    BY AppendProperties
  <2>2. DOMAIN t = 1..(Len(r) + 1)
    BY <2>1, LenProperties
  <2> QED BY <2>2, AppendElements, LenProperties
<1> HIDE DEF t
<1>2. ASSUME NEW i \in DOMAIN t, NEW j \in DOMAIN t, i < j
      PROVE  t[i] # t[j] /\ (published[t[i]].by = published[t[j]].by => t[i] < t[j])
  <2>1. i \in DOMAIN r /\ t[i] = r[i] /\ r[i] \in Range(r)
    <3>1. i \in DOMAIN r
      BY <1>1, <1>2
    <3> QED BY <1>1, <3>1 DEF Range
  <2>2. CASE j \in DOMAIN r
    BY <1>1, <1>2, <2>1, <2>2 DEF Ordered
  <2>3. CASE j \notin DOMAIN r
    <3>1. t[j] = m
      BY <1>1, <2>3
    <3> QED BY <2>1, <3>1
  <2> QED BY <2>2, <2>3
<1> QED BY <1>2 DEF Ordered, t

\* Nothing that is published later disturbs what has been sent.
LEMMA PublishOrder ==
  ASSUME TypeOK, ListsDistinct, OrderInv, NEW p \in Publishers, NEW x, NEW k, Publish(p, x, k),
         \/ x \in Exchanges /\ k \in RoutingKeys
         \/ x = NoExchange /\ k \in Queues
  PROVE  OrderInv'
<1> DEFINE n == Len(published)
           new == [by |-> p, exchange |-> x, key |-> k]
           subscribers == collectSubscribers(resolveTargets(x, k))
           entries == [i \in DOMAIN subscribers |-> [to |-> subscribers[i], message |-> n + 1]]
<1>0. MessagesTyped
  BY TypeParts
<1>1. /\ published' = Append(published, new) /\ sending' = [sending EXCEPT ![p] = entries]
      /\ UNCHANGED <<buffer, received>>
  BY DEF Publish, chanVars
<1>2. new \in Publication /\ new.by = p
  BY DEF Publication
<1>3. subscribers \in Seq(Subs) /\ Distinct(subscribers)
  BY TargetsDistinct, SubscribersDistinct
<1>4. /\ DOMAIN entries = DOMAIN subscribers
      /\ \A i \in DOMAIN entries : entries[i].to = subscribers[i] /\ entries[i].message = n + 1
  OBVIOUS
<1> HIDE DEF new, subscribers, entries
<1>5. /\ \A m \in 1..n : published'[m] = published[m]
      /\ published'[n + 1].by = p /\ n \in Nat
  <2>1. published \in Seq(Publication)
    BY <1>0 DEF MessagesTyped
  <2>2. n \in Nat /\ DOMAIN published = 1..n
    BY <2>1, LenProperties
  <2> QED BY <1>1, <1>2, <2>1, <2>2, AppendElements
<1>6. \A s \in Subs : Reached(s)' = Reached(s) /\ Reached(s) \in Seq(1..n)
  BY <1>1, ChannelByChannel DEF Reached
<1>7. \A s \in Subs : Range(Reached(s)) \subseteq 1..n
  BY <1>6, RangeOfSeq
<1> HIDE DEF n
<1>8. ASSUME NEW r \in Publishers
      PROVE  /\ \A i, j \in DOMAIN sending'[r] : sending'[r][i].to = sending'[r][j].to => i = j
             /\ \A i \in DOMAIN sending'[r] :
                  /\ published'[sending'[r][i].message].by = r
                  /\ \A s \in Subs : \A m \in Range(Reached(s)') :
                       sending'[r][i].to = s /\ published'[m].by = r => m < sending'[r][i].message
  <2>1. CASE r = p
    <3>1. sending'[r] = entries
      BY <1>0, <1>1, <2>1 DEF MessagesTyped
    <3>2. \A i, j \in DOMAIN entries : entries[i].to = entries[j].to => i = j
      BY <1>3, <1>4 DEF Distinct
    <3>3. ASSUME NEW s \in Subs, NEW m \in Range(Reached(s)') PROVE m < n + 1
      <4>1. m \in 1..n
        BY <1>6, <1>7
      <4> QED BY <1>5, <4>1
    <3> QED BY <1>4, <1>5, <2>1, <3>1, <3>2, <3>3
  <2>2. CASE r # p
    <3>1. sending'[r] = sending[r] /\ sending[r] \in Seq(Delivery)
      BY <1>0, <1>1, <2>2 DEF MessagesTyped
    <3>2. ASSUME NEW i \in DOMAIN sending[r]
          PROVE  published'[sending[r][i].message] = published[sending[r][i].message]
      <4>1. sending[r][i] \in Delivery
        BY <3>1, ElementOfSeq, LenProperties
      <4>2. sending[r][i].message \in 1..n
        BY <4>1 DEF Delivery, n
      <4> QED BY <1>5, <4>2
    <3>3. ASSUME NEW s \in Subs, NEW m \in Range(Reached(s)')
          PROVE  m \in Range(Reached(s)) /\ published'[m] = published[m]
      BY <1>5, <1>6, <1>7
    <3> QED BY <3>1, <3>2, <3>3 DEF OrderInv, SendsInOrder
  <2> QED BY <2>1, <2>2
<1>9. ASSUME NEW s \in Subs PROVE Ordered(Reached(s))'
  <2>1. Ordered(Reached(s))
    BY ChannelByChannel DEF OrderInv
  <2>2. \A i \in DOMAIN Reached(s) : Reached(s)[i] \in 1..n
    BY <1>6, ElementOfSeq, LenProperties
  <2>3. \A i \in DOMAIN Reached(s) : published'[Reached(s)[i]] = published[Reached(s)[i]]
    BY <1>5, <2>2
  <2> QED BY <1>6, <2>1, <2>3 DEF Ordered
<1>10. InOrderOnce'
  BY <1>9 DEF InOrderOnce, Ordered
<1>11. SendsInOrder'
  BY <1>8 DEF SendsInOrder
<1> QED BY <1>10, <1>11 DEF OrderInv

\* Only what has reached the channels and what is being sent matters.
LEMMA OrderKept ==
  ASSUME OrderInv, UNCHANGED <<published, sending>>, \A s \in Subs : Reached(s)' = Reached(s)
  PROVE  OrderInv'
<1>1. SendsInOrder'
  BY DEF OrderInv, SendsInOrder
<1>2. InOrderOnce'
  BY DEF OrderInv, InOrderOnce
<1> QED BY <1>1, <1>2 DEF OrderInv

\* A send puts its message behind everything its publisher has sent before.
LEMMA SendOrder ==
  ASSUME TypeOK, OrderInv, NEW p \in Publishers, Send(p)
  PROVE  OrderInv'
<1> DEFINE next == Head(sending[p])
           c == next.to
           m == next.message
           n == Len(published)
<1>0. MessagesTyped /\ InOrderOnce /\ n \in Nat
  BY TypeParts, ChannelByChannel DEF OrderInv
<1>1. /\ sending[p] # <<>> /\ sending[p] \in Seq(Delivery) /\ sending \in [Publishers -> Seq(Delivery)]
      /\ UNCHANGED <<published, received>>
  BY <1>0 DEF Send, mapVars, MessagesTyped
<1>2. next \in Delivery /\ 1 \in DOMAIN sending[p] /\ next = sending[p][1]
  <2>1. sending[p] \in Seq(Delivery) /\ sending[p] # <<>>
    BY <1>1
  <2> QED BY <2>1, TailElements, HeadTailProperties
<1> HIDE DEF next
<1>3. c \in Subs /\ m \in 1..n
  BY <1>2 DEF Delivery
<1> HIDE DEF c, m, n
<1>4. CASE UNCHANGED <<sending, buffer>>
  BY <1>1, <1>4, OrderKept DEF Reached
<1>5. CASE /\ buffer' = [buffer EXCEPT ![c] = Offer(@, m)]
           /\ sending' = [sending EXCEPT ![p] = Tail(@)]
  <2>1. ASSUME NEW s \in Subs
        PROVE  \/ Reached(s)' = Reached(s)
               \/ s = c /\ Reached(s)' = Append(Reached(s), m)
    <3>1. buffer'[s] = buffer[s] \/ (s = c /\ buffer'[s] = Append(buffer[s], m))
      <4>1. \/ Offer(buffer[c], m) = buffer[c]
            \/ Offer(buffer[c], m) = Append(buffer[c], m)
        BY DEF Offer
      <4>2. buffer'[s] = IF s = c THEN Offer(buffer[c], m) ELSE buffer[s]
        BY <1>0, <1>3, <1>5 DEF MessagesTyped
      <4> QED BY <4>1, <4>2
    <3>2. received[s] \in Seq(1..n) /\ buffer[s] \in Seq(1..n)
      BY <1>0 DEF MessagesTyped, n
    <3>3. received[s] \o Append(buffer[s], m) = Append(received[s] \o buffer[s], m)
      <4> DEFINE r == received[s]
                 b == buffer[s]
                 S == 1..n
      <4>1. r \in Seq(S) /\ b \in Seq(S) /\ m \in S
        BY <1>3, <3>2
      <4> HIDE DEF r, b, S
      <4>2. r \o Append(b, m) = Append(r \o b, m)
        BY <4>1, ConcatAppend
      <4> QED BY <4>2 DEF r, b
    <3> QED BY <1>1, <3>1, <3>3 DEF Reached
  <2>2. \A s \in Subs : Reached(s) \in Seq(1..n) /\ Ordered(Reached(s))
    BY <1>0, ChannelByChannel DEF n
  <2>3. \A a \in Range(Reached(c)) : published[a].by = p => a < m
    BY <1>2, <1>3 DEF OrderInv, SendsInOrder, c, m
  <2>4. published[m].by = p
    BY <1>2 DEF OrderInv, SendsInOrder, m
  <2>5. ASSUME NEW s \in Subs PROVE Ordered(Reached(s))'
    <3>1. CASE Reached(s)' = Reached(s)
      BY <1>1, <2>2, <3>1 DEF Ordered
    <3>2. CASE s = c /\ Reached(s)' = Append(Reached(s), m)
      <4>1. Reached(c) \in Seq(Nat) /\ m \in Nat
        <5>1. 1..n \subseteq Nat
          BY <1>0
        <5> QED BY <1>3, <2>2, <5>1, SeqMonotonic
      <4>2. \A a \in Range(Reached(c)) : a # m /\ (published[a].by = published[m].by => a < m)
        <5>1. Range(Reached(c)) \subseteq Nat
          BY <4>1, RangeOfSeq
        <5> QED BY <2>3, <2>4, <4>1, <5>1
      <4>3. Ordered(Append(Reached(c), m))
        BY <1>3, <2>2, <4>1, <4>2, OrderedAppend
      <4> QED BY <1>1, <3>2, <4>3 DEF Ordered
    <3> QED BY <2>1, <3>1, <3>2
  <2>6. ASSUME NEW r \in Publishers, NEW i \in DOMAIN sending'[r]
        PROVE  \E k \in DOMAIN sending[r] :
                 /\ sending'[r][i] = sending[r][k]
                 /\ k = IF r = p THEN i + 1 ELSE i
                 /\ r = p => k # 1 /\ i \in Nat
    <3>1. CASE r = p
      <4>1. sending'[r] = Tail(sending[p])
        BY <1>1, <1>5, <3>1
      <4>2. i \in Nat \ {0} /\ i + 1 \in DOMAIN sending[p] /\ Tail(sending[p])[i] = sending[p][i + 1]
        BY <1>1, <2>6, <4>1, TailElements
      <4> QED BY <3>1, <4>1, <4>2
    <3>2. CASE r # p
      BY <1>1, <1>5, <2>6, <3>2
    <3> QED BY <3>1, <3>2
  <2>7. ASSUME NEW r \in Publishers, NEW i \in DOMAIN sending'[r], NEW j \in DOMAIN sending'[r],
               sending'[r][i].to = sending'[r][j].to
        PROVE  i = j
    <3>1. PICK k \in DOMAIN sending[r] : /\ sending'[r][i] = sending[r][k]
                                         /\ k = IF r = p THEN i + 1 ELSE i
                                         /\ r = p => k # 1 /\ i \in Nat
      BY <2>6
    <3>2. PICK l \in DOMAIN sending[r] : /\ sending'[r][j] = sending[r][l]
                                         /\ l = IF r = p THEN j + 1 ELSE j
                                         /\ r = p => l # 1 /\ j \in Nat
      BY <2>6
    <3>3. k = l
      BY <2>7, <3>1, <3>2 DEF OrderInv, SendsInOrder
    <3> QED BY <3>1, <3>2, <3>3
  <2>8. ASSUME NEW r \in Publishers, NEW i \in DOMAIN sending'[r]
        PROVE  /\ published'[sending'[r][i].message].by = r
               /\ \A s \in Subs : \A a \in Range(Reached(s)') :
                    sending'[r][i].to = s /\ published'[a].by = r => a < sending'[r][i].message
    <3>1. PICK k \in DOMAIN sending[r] : /\ sending'[r][i] = sending[r][k]
                                         /\ r = p => k # 1
      BY <2>6
    <3>2. published[sending[r][k].message].by = r
      BY DEF OrderInv, SendsInOrder
    <3>3. ASSUME NEW s \in Subs, NEW a \in Range(Reached(s)'),
                 sending[r][k].to = s, published[a].by = r
          PROVE  a < sending[r][k].message
      <4>1. CASE a \in Range(Reached(s))
        BY <3>3, <4>1 DEF OrderInv, SendsInOrder
      <4>2. CASE a \notin Range(Reached(s))
        <5>1. s = c /\ Reached(s)' = Append(Reached(s), m)
          BY <2>1, <3>3, <4>2
        <5>2. a = m
          <6> DEFINE had == Reached(c)
                     S == 1..n
          <6>0. had \in Seq(S) /\ m \in S
            BY <1>3, <2>2
          <6> HIDE DEF had, S
          <6>1. Range(Append(had, m)) = Range(had) \cup {m}
            BY <6>0, RangeAppend
          <6> QED BY <3>3, <4>2, <5>1, <6>1 DEF had
        <5>3. r = p /\ k # 1
          BY <2>4, <3>1, <3>3, <5>2
        <5>4. k = 1
          BY <1>2, <3>3, <5>1, <5>3 DEF OrderInv, SendsInOrder, c
        <5> QED BY <5>3, <5>4
      <4> QED BY <4>1, <4>2
    <3> QED BY <1>1, <3>1, <3>2, <3>3
  <2>9. SendsInOrder'
    BY <2>7, <2>8 DEF SendsInOrder
  <2>10. InOrderOnce'
    BY <2>5 DEF InOrderOnce, Ordered
  <2> QED BY <2>9, <2>10 DEF OrderInv
<1> QED BY <1>4, <1>5 DEF Send, next, c, m

\* Reading a channel moves a message from its buffer to what was received.
LEMMA ReceiveOrder ==
  ASSUME TypeOK, OrderInv, NEW c \in Subs, Receive(c)
  PROVE  OrderInv'
<1>1. /\ buffer[c] # <<>> /\ UNCHANGED <<published, sending>>
      /\ received' = [received EXCEPT ![c] = Append(@, Head(buffer[c]))]
      /\ buffer' = [buffer EXCEPT ![c] = Tail(@)]
  BY DEF Receive, mapVars
<1>2. /\ received \in [Subs -> Seq(1..Len(published))]
      /\ buffer \in [Subs -> Seq(1..Len(published))]
  BY TypeParts DEF MessagesTyped
<1>3. Append(received[c], Head(buffer[c])) \o Tail(buffer[c]) = received[c] \o buffer[c]
  <2> DEFINE S == 1..Len(published)
             r == received[c]
             b == buffer[c]
  <2>1. r \in Seq(S) /\ b \in Seq(S) /\ b # <<>>
    BY <1>1, <1>2
  <2> HIDE DEF S, r, b
  <2>2. Append(r, Head(b)) \o Tail(b) = r \o b
    BY <2>1, ConcatMove, Zenon
  <2> QED BY <2>2 DEF r, b
<1>4. \A s \in Subs : Reached(s)' = Reached(s)
  BY <1>1, <1>2, <1>3 DEF Reached
<1> QED BY <1>1, <1>4, OrderKept

\* The other operations touch no message.
LEMMA OrderStep ==
  ASSUME TypeOK, ListsDistinct, OrderInv, [Next]_vars
  PROVE  OrderInv'
<1>1. ASSUME UNCHANGED <<published, sending, buffer, received>> PROVE OrderInv'
  BY <1>1, OrderKept DEF Reached
<1>2. ASSUME NEW s \in Subs, \/ \E q \in Queues : Subscribe(s, q)
                            \/ Cancel(s) \/ FinishCancel(s) \/ CloseNext(s)
      PROVE  OrderInv'
  BY <1>1, <1>2 DEF Subscribe, Cancel, FinishCancel, CloseNext, mapVars, chanVars
<1>3. ASSUME NEW q \in Queues, NEW x, NEW k, BindQueue(q, x, k) PROVE OrderInv'
  BY <1>1, <1>3 DEF BindQueue, chanVars
<1>4. CASE Close \/ UNCHANGED vars
  BY <1>1, <1>4 DEF Close, vars, mapVars, chanVars
<1> QED BY <1>2, <1>3, <1>4, PublishOrder, SendOrder, ReceiveOrder DEF Next

\* No subscription gets a message twice, and the messages of one publisher
\* reach it in the order they were published, however the sends of Publish
\* overlap with each other, with Subscribe, Cancel and Close.
THEOREM DeliveredInOrderOnce == Spec => []InOrderOnce
<1>1. Init => OrderInv
  <2>1. Init => (\A s \in Subs : Reached(s) = <<>>) /\ \A p \in Publishers : sending[p] = <<>>
    BY ConcatEmptySeq, EmptySeq DEF Init, Reached
  <2> QED BY <2>1 DEF OrderInv, SendsInOrder, InOrderOnce
<1>2. BrokerInv /\ OrderInv /\ [Next]_vars => OrderInv'
  BY OrderStep DEF BrokerInv
<1>3. OrderInv => InOrderOnce
  BY DEF OrderInv
<1> QED BY <1>1, <1>2, <1>3, BrokerInvariant, PTL DEF Spec

=============================================================================

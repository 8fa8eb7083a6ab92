----------------------------- MODULE MockBroker -----------------------------
(***************************************************************************)
(* The in-memory broker of the unit tests (internal/broker/mock.go).       *)
(*                                                                         *)
(* Its maps are guarded by a mutex, its channels are not: Publish takes a  *)
(* snapshot of the subscribers under the mutex and sends to them after it  *)
(* has released it, and Cancel and Close detach channels under the mutex   *)
(* and close them afterwards.  Each operation is therefore one step under  *)
(* the mutex and one step for every channel it touches.                    *)
(*                                                                         *)
(* A send on a closed channel and a second close of a channel panic, which *)
(* ends the process.  A message is named by its position in published.     *)
(***************************************************************************)
EXTENDS Naturals, Sequences, FiniteSets, SequencesExt

CONSTANTS Subs,          \* the subscriptions that may be made, one channel each
          Publishers,    \* the goroutines that call Publish
          Queues, Exchanges, RoutingKeys,
          BufferSize,    \* 128 in the code
          MaxPublished   \* bound on the number of calls of Publish

NoExchange == ""

ASSUME MockAssumption ==
  /\ BufferSize \in Nat \ {0}
  /\ MaxPublished \in Nat
  /\ NoExchange \notin Exchanges

VARIABLES
  closed,      \* m.closed
  bindings,    \* m.bindings: the queues bound to an exchange by routing key
  queues,      \* m.queues: the channels that subscribe to a queue
  published,   \* m.published
  sending,     \* what a publisher has yet to send, and to which channels
  channel,     \* state of each channel
  buffer,      \* its contents
  cancelOnce,  \* how far the cancel function of a subscription has come
  closing,     \* the channels that Close has yet to close
  received,    \* what the consumer of a subscription has read
  panic        \* the panic that has ended the process

mapVars == <<closed, bindings, queues, published>>
chanVars == <<channel, buffer>>
vars == <<mapVars, sending, chanVars, cancelOnce, closing, received, panic>>

Panics == {"none", "send on closed channel", "close of closed channel"}

Running == panic = "none"

-----------------------------------------------------------------------------
(* Routing *)

MutantAppendUnique(values, value) == Append(values, value)

appendUnique(values, value) ==
  IF value \in Range(values) THEN values ELSE Append(values, value)

\* The default exchange routes to the queue the key names, whether or not it
\* was declared.
resolveTargets(exchange, key) ==
  IF exchange = NoExchange THEN <<key>> ELSE bindings[exchange][key]

collectSubscribers(targets) ==
  FlattenSeq([i \in DOMAIN targets |->
               IF targets[i] \in Queues THEN queues[targets[i]] ELSE <<>>])

BindQueue(q, exchange, key) ==
  /\ ~closed
  /\ bindings' = [bindings EXCEPT ![exchange][key] = appendUnique(@, q)]
  /\ UNCHANGED <<closed, queues, published, sending, chanVars, cancelOnce,
                 closing, received, panic>>

-----------------------------------------------------------------------------
(* Publish *)

\* Under the mutex: the message is recorded and its subscribers looked up.
Publish(p, exchange, key) ==
  /\ sending[p] = <<>>
  /\ ~closed
  /\ Len(published) < MaxPublished
  /\ published' = Append(published, [by |-> p, exchange |-> exchange, key |-> key])
  /\ LET subscribers == collectSubscribers(resolveTargets(exchange, key)) IN
       sending' = [sending EXCEPT ![p] =
                     [i \in DOMAIN subscribers |->
                        [to |-> subscribers[i], message |-> Len(published) + 1]]]
  /\ UNCHANGED <<closed, bindings, queues, chanVars, cancelOnce, closing,
                 received, panic>>

MutantOffer(b, m) == Append(b, m)   \* takes the channel for an unbounded one

\* A full buffer drops the message.
Offer(b, m) == IF Len(b) < BufferSize THEN Append(b, m) ELSE b

\* Outside the mutex: the next send of the publisher.
Send(p) ==
  /\ sending[p] # <<>>
  /\ LET next == Head(sending[p]) IN
       IF channel[next.to] = "closed"
       THEN /\ panic' = "send on closed channel"
            /\ UNCHANGED <<sending, buffer>>
       ELSE /\ buffer' = [buffer EXCEPT ![next.to] = Offer(@, next.message)]
            /\ sending' = [sending EXCEPT ![p] = Tail(@)]
            /\ UNCHANGED panic
  /\ UNCHANGED <<mapVars, channel, cancelOnce, closing, received>>

-----------------------------------------------------------------------------
(* Subscribe, the cancel function and Close *)

Subscribe(s, q) ==
  /\ channel[s] = "none"
  /\ ~closed
  /\ channel' = [channel EXCEPT ![s] = "open"]
  /\ queues' = [queues EXCEPT ![q] = Append(@, s)]
  /\ cancelOnce' = [cancelOnce EXCEPT ![s] = "armed"]
  /\ UNCHANGED <<closed, bindings, published, sending, buffer, closing,
                 received, panic>>

MutantRemove(subs, s) == IF s \in Range(subs) THEN Tail(subs) ELSE subs

\* removeSubscriber: the first place of s in the list of a queue, if it has
\* one, is cut out of it.
Without(subs, s) == RemoveFirst(subs, s)

\* The first call of cancel, by the client or by the goroutine that waits for
\* the context, runs the body of the sync.Once; the others do nothing.
Cancel(s) ==
  /\ cancelOnce[s] = "armed"
  /\ queues' = [q \in Queues |-> Without(queues[q], s)]
  /\ cancelOnce' = [cancelOnce EXCEPT ![s] = "removed"]
  /\ UNCHANGED <<closed, bindings, published, sending, chanVars, closing,
                 received, panic>>

CloseChannel(s) ==
  IF channel[s] = "closed"
  THEN panic' = "close of closed channel" /\ UNCHANGED channel
  ELSE channel' = [channel EXCEPT ![s] = "closed"] /\ UNCHANGED panic

MutantFinishCancel(s) ==        \* a cancel function without the sync.Once
  /\ cancelOnce[s] \in {"removed", "done"}
  /\ CloseChannel(s)
  /\ cancelOnce' = [cancelOnce EXCEPT ![s] = "done"]
  /\ UNCHANGED <<mapVars, sending, buffer, closing, received>>

FinishCancel(s) ==
  /\ cancelOnce[s] = "removed"
  /\ CloseChannel(s)
  /\ cancelOnce' = [cancelOnce EXCEPT ![s] = "done"]
  /\ UNCHANGED <<mapVars, sending, buffer, closing, received>>

MutantClose ==                  \* keeps the map it is about to close
  /\ ~closed
  /\ closed' = TRUE
  /\ closing' = UNION {Range(queues[q]) : q \in Queues}
  /\ UNCHANGED <<bindings, queues, published, sending, chanVars, cancelOnce,
                 received, panic>>

Close ==
  /\ ~closed
  /\ closed' = TRUE
  /\ closing' = UNION {Range(queues[q]) : q \in Queues}
  /\ queues' = [q \in Queues |-> <<>>]
  /\ UNCHANGED <<bindings, published, sending, chanVars, cancelOnce, received, panic>>

\* Close walks a Go map, so the order of the queues is arbitrary.
CloseNext(s) ==
  /\ s \in closing
  /\ CloseChannel(s)
  /\ closing' = closing \ {s}
  /\ UNCHANGED <<mapVars, sending, buffer, cancelOnce, received>>

\* The consumer of a subscription reads its channel, closed or not.
Receive(s) ==
  /\ buffer[s] # <<>>
  /\ received' = [received EXCEPT ![s] = Append(@, Head(buffer[s]))]
  /\ buffer' = [buffer EXCEPT ![s] = Tail(@)]
  /\ UNCHANGED <<mapVars, sending, channel, cancelOnce, closing, panic>>

-----------------------------------------------------------------------------
Init ==
  /\ closed = FALSE
  /\ bindings = [x \in Exchanges |-> [k \in RoutingKeys |-> <<>>]]
  /\ queues = [q \in Queues |-> <<>>]
  /\ published = <<>>
  /\ sending = [p \in Publishers |-> <<>>]
  /\ channel = [s \in Subs |-> "none"]
  /\ buffer = [s \in Subs |-> <<>>]
  /\ cancelOnce = [s \in Subs |-> "none"]
  /\ closing = {}
  /\ received = [s \in Subs |-> <<>>]
  /\ panic = "none"

Next ==
  /\ Running
  /\ \/ \E q \in Queues, x \in Exchanges, k \in RoutingKeys : BindQueue(q, x, k)
     \/ \E p \in Publishers :
          \/ \E x \in Exchanges, k \in RoutingKeys : Publish(p, x, k)
          \/ \E q \in Queues : Publish(p, NoExchange, q)
          \/ Send(p)
     \/ \E s \in Subs : \/ \E q \in Queues : Subscribe(s, q)
                        \/ Cancel(s) \/ FinishCancel(s)
                        \/ CloseNext(s) \/ Receive(s)
     \/ Close

Spec == Init /\ [][Next]_vars

-----------------------------------------------------------------------------
(* Properties *)

\* Every variable has its type, and no channel holds more than its capacity.
TypeOK ==
  /\ closed \in BOOLEAN
  /\ bindings \in [Exchanges -> [RoutingKeys -> Seq(Queues)]]
  /\ queues \in [Queues -> Seq(Subs)]
  /\ published \in Seq([by : Publishers, exchange : Exchanges \cup {NoExchange},
                        key : RoutingKeys \cup Queues])
  /\ sending \in [Publishers -> Seq([to : Subs, message : 1..Len(published)])]
  /\ channel \in [Subs -> {"none", "open", "closed"}]
  /\ buffer \in [Subs -> Seq(1..Len(published))]
  /\ \A s \in Subs : Len(buffer[s]) <= BufferSize
  /\ cancelOnce \in [Subs -> {"none", "armed", "removed", "done"}]
  /\ closing \subseteq Subs
  /\ received \in [Subs -> Seq(1..Len(published))]
  /\ panic \in Panics

\* The messages that have reached the channel of a subscription, in order.
Reached(s) == received[s] \o buffer[s]

\* However often a queue is bound, and however publishers overlap, a
\* subscription gets no message twice, and gets the messages of one publisher
\* in the order they were published.
InOrderOnce ==
  \A s \in Subs : \A i, j \in DOMAIN Reached(s) :
    i < j => LET a == Reached(s)[i]
                 b == Reached(s)[j]
             IN  a # b /\ (published[a].by = published[b].by => a < b)

\* The channels a mutex holder can find are the live ones: each is open, is
\* listed once, and is neither cancelled nor about to be closed.  It is what
\* lets a Publish that starts after Cancel or Close send safely.
OnlyLiveChannelsListed ==
  \A q \in Queues :
    /\ \A i, j \in DOMAIN queues[q] : queues[q][i] = queues[q][j] => i = j
    /\ Running => \A s \in Range(queues[q]) : /\ channel[s] = "open"
                                              /\ cancelOnce[s] = "armed"
                                              /\ s \notin closing

\* Cancelling takes nobody else's channel off its queue.
CancelKeepsOthers ==
  [][\A q \in Queues : \A s \in Range(queues[q]) :
       s \notin Range(queues'[q]) => closed' \/ cancelOnce'[s] = "removed"]_vars

\* mock_test.go:253, "Double cancel should be safe": no channel is closed
\* twice, whoever calls cancel, the client or the goroutine of the context,
\* unless the broker itself was closed: Close does not go through cancelOnce.
CancelIsSafe == panic = "close of closed channel" => closed
=============================================================================

# Verification of the Marry-Me wedding event simulator

TLA+ modules of the event pipeline in `internal/` and `cmd/marry-me`, the TLC
runs that check them on small instances, and TLAPS proofs of every safety property
for instances of any size. `PROJECT.json` lists components,
runs, mutants, the source lines behind every definition, hazards, findings and
theorems.

## 1. Inventory

```
dataset -> coordinator -> [events.validated] -> organizer -> (events.organized)
        -> [team.<t>] x10 -> worker pools -> [events.results] -> stress tracker -> report
```

Everything runs in one process; the parts talk only through RabbitMQ queues (or
the mock broker in unit tests). Every consumer acknowledges automatically, so a
message is the consumer's as soon as it is delivered. Every call of the client opens an
AMQP channel of its own, so it fails without a connection, and also with one
when all its channels are in use (`rabbitmq.go:279-282`; the limit is configurable).
All modules allow for both.

| Component | State | Operations | Interacts through | What is hard | What makes it correct |
|---|---|---|---|---|---|
| `event` | none | deadlines, team mapping, validation | used by all | defaults for unknown values | one team per type |
| `worker`, `team` | per worker: main loop, toggler, jobs, flag `idle`, channel `idleCh` (capacity 1), context | accept, republish, report as expired, change phase, shut down | team queue, results queue, context of the team | two goroutines sharing one value of a channel; verdicts against timers; republishing; shutdown | no event duplicated, each reported with the right verdict, flag agrees with the phase, goroutines stop |
| `organizer` | heap, counters | stamp, push, drain, route | `events.validated`, exchange | heap laws, errors of publish, shutdown | events leave the heap, reach their own team once, by urgency |
| `coordinator` | counters, loop over the sorted dataset | sort, reject, wait, publish | `events.validated`, context | comparator, clock, cancellation, half-done runs | nothing early, order, counters true |
| `broker` mock | maps under a mutex, channels outside it | bind, publish, subscribe, cancel, close | used by unit tests | steps taken after the unlock | each message once and in order, no channel closed twice |
| `broker` RabbitMQ | connection and flag under a mutex, one AMQP channel per operation, two goroutines per subscription, `cancelOnce` | the same | AMQP | one channel per message and no confirms, two callers of cancel, forwarding into a bounded channel, lost connection | order kept, channels returned, deliveries end when the context or connection does, cancel returns |
| `stress` | recorded results, two counters | record, report | results queue, mutex | two copies of the totals, forms of messages, the end of the run | report agrees with the counters and covers every result |
| `cmd/marry-me` | contexts, goroutines; the durable queues outlive it | set up, ingest, stop, report, run again | all | order of setup and shutdown, a kill at any point, what earlier runs have left | each event in one report at most, nothing forgotten in a queue, final report complete |
| `config`, `logger`, `cmd/demo-watcher`, `main.go`, `generate_datasets.py` | - | flags, log lines, display, health endpoint, data generation | - | nothing concurrent that the pipeline depends on | not modelled |

Each hazard of `PROJECT.json` names the source line where it bites and the
properties that watch it, or why none does.

## 2. Modules

| Module | Source | Contents |
|---|---|---|
| `WeddingEvents` | `event/types.go` | priorities, deadlines, types and teams, `Validate`; the constants that describe a dataset |
| `EventLedger` | - | abstract specification: the fate of each event, and when it may be lost |
| `TeamWorkers` | `worker/worker.go`, `team/manager.go`, as seen by them `rabbitmq.go` and `organizer.go` | the worker pools |
| `TeamWorkersProofs` | - | theorems about `TeamWorkers` |
| `Consumption` | `broker/broker.go:76-80`, `rabbitmq.go` as its users see it | a queue and one subscription: the state and the actions of `Organizer` and `StressTracker`, and the abstract specification of `RabbitClient` |
| `RabbitClient` | `broker/rabbitmq.go` | connection, AMQP channels, `Publish`, `Subscribe` with its goroutines, `Close` |
| `RabbitClientProofs` | - | theorems about `RabbitClient`, and that it implements `Consumption` |
| `PriorityQueue` | `organizer.go:43-81, 197-205` | the heap as operators, and what a priority queue is for |
| `Organizer` | `organizer.go` | `Run`, `handleDelivery`, `routeEvent`; extends `PriorityQueue`, instantiates `Consumption` |
| `OrganizerProofs` | - | theorems about the heap and about `Organizer` |
| `Coordinator` | `coordinator.go`, `cmd/marry-me/main.go:96-105` | `Ingest` and its goroutine |
| `CoordinatorProofs` | - | theorems about `Ingest` |
| `MockBroker` | `broker/mock.go` | the in-memory broker of the unit tests |
| `MockBrokerProofs` | - | theorems about `MockBroker` |
| `StressTracker` | `stress/tracker.go`, `cmd/marry-me/main.go:107-123` | `Consume`, `Record`, `Report`, the end of main; instantiates `Consumption` |
| `StressTrackerProofs` | - | theorems about the report and the order of the records |
| `Pipeline` | `cmd/marry-me/main.go`, the `Setup` and the outer loops of every package, `rabbitmq.go:93-172` | all stages together, through several runs of the program over the same broker |
| `PipelineProofs` | - | theorems about `Pipeline` |
| `SequenceLemmas` | - | induction over numbers, and facts about sequences that several proofs need |
| `MC...` | - | values of the constants for TLC |

### How state and actions correspond to the code

**Events.** An event is a member of `Events`; the fields the program branches on
are functions of it (`PriorityOf`, `TypeOf`, `Numbered` for a positive ID).
Descriptions and JSON are abstracted away.

**TeamWorkers.** `pc[w]` is the main loop of `Worker.Run`: `select` (line 104),
`handle` (between `updateIdle` and the test of `idle`, with the event in
`inHand[w]`), `returned`. `toggler[w]` is the goroutine at lines 62-87; `top` is
its check of the context, `sendWork` and `sendIdle` are the two sends on
`idleCh`, `work` and `idle` the two timed selects. `jobs` holds the goroutines of
lines 139-167. The gap between `updateIdle` and `if !idle` is a state of its
own, because the toggler runs in it. Closing a subscription drops an arbitrary
suffix of the deliveries: those the client had not yet forwarded. The
organizer is one action, `RouteEvent`, which stamps an event and publishes it. A publish
or a `Start` may fail for want of a channel (fault `channels`); workers ignore the
error of a publish, and `refused` remembers the event. A message that is no JSON event (`Malformed`,
put in a team queue by `ForeignMessage`) is dropped after `updateIdle`, as at lines 114-120.

*Time.* Deadlines and timers are countdowns, decremented together by `Tick`. Nothing
forces a goroutine to run when its timer fires, as nothing does in Go, so
verdicts and phases may be arbitrarily late. `ttl` stops at -1, one tick past the
deadline, which is what `now.After(Deadline)` tells apart from the deadline itself.

**PriorityQueue.** `HeapPush` and `HeapRest` state where the elements are after
the swaps of `container/heap`; index `i` of the slice is `i + 1` here. `Ancestors` are the indices
that `up` may pass, `SinkPath` those that `down` does.

**Organizer.** `HandleDelivery` is `handleDelivery` up to the unlock, `RouteEvent`
one turn of its loop. The mutex is only ever taken by this goroutine, so
push and drain are one step (`PushAndDrain`). A message that is no event is dropped before it is
stamped (172-175), and an event whose publish fails is logged and gone (`unrouted`). Deliveries, cancellation and disconnection are
actions of `Consumption` on the queue `events.validated`.

**RabbitClient.** `op[p]` is where a call of `Publish` is: `OpenChannel`, `SendFrame`,
and the deferred `CloseChannel`, which waits for the answer of the broker. The
frames of different channels are handled by the broker in any order
(`HandleFrame`). A delivery moves from `queue` to `buffer` (the library), `hand` (the
forwarder at line 263), `out` (capacity `OutSize`) and the reader. `once` is the body of
`cancelOnce` between its two calls to the library; `waiter` is the goroutine at
256-259, `reader` the organizer, tracker or worker. `Subscription` maps this state to
`Consumption`: the three places of a delivery are one sequence, and the subscription
is closed when the library has closed its channel.

**Pipeline.** `step` is the step of `Program` that `main` is at on its way to its `select`: the
declarations of `coordinator.Setup` and `organizer.Setup`, then one step for each goroutine
it starts. `queue[q]`, `buffer[s]` and `held[s]` say where a message is, in the
broker, delivered to a stage, or read by it; what the tracker holds is what it has
recorded. They are sets: order is the subject of other modules. `Publish` may be refused a channel, which
`refused` remembers until the process ends, and so may `Subscribe` (`sub[s] = "refused"`). `EndProcess` empties everything but
`declared` and `queue`. The pool puts an event back, reports it or drops it as some worker might; when it does
which is the subject of `TeamWorkers`. A copy `<<r, e>>` is event `e` as run `r` publishes
it: starting the program again publishes its dataset again.

**Coordinator.** `SortSlice` is the set of the orders that `sort.Slice` may leave the dataset in.
It is not stable, so equal timestamps end in any order; and it promises something only for a
comparator that is an ordering, which that of the code is not when a timestamp does not
parse (`IsOrdering`): then the set is all orders. No sorting algorithm is assumed. `Publish`
and `CountAccepted` are the call at lines 106-113 and the counter at 115: a state in
between has the event in the queue and not in the counter. `clock` is the elapsed time multiplied by the speed.

**MockBroker.** One action per critical section, and one for each channel operation
after it: `Publish` takes its snapshot of subscribers, `Send` delivers to one;
`Cancel` detaches, `FinishCancel` closes; `Close` detaches, `CloseNext` closes.
A panic ends the process (`panic`, `Running`).

**StressTracker.** A message has one of the four forms `parseResultEvent` tells
apart. `StopRun` is `cancel()` and `Shutdown`, `TakeReport` the call after the wait.

## 3. Runs

| Run | Shows |
|---|---|
| `PoolRoutine` | types, `SinglePlace`, `VerdictsHonest`, `FlagFreshWhenRead`, `AcceptsOnlyWhenOffered` with two medical workers, two events and messages that are no event, undisturbed |
| `PoolFaults` | with two teams shut down in turn, the connection lost and channels running out at any moment: no copies, right verdicts, and the pools implement `EventLedger`, so an event is lost only after its own team was shut down, its own publish failed or the connection went |
| `PoolProgress` | one worker of a concentrated team, two events: every received event is reported unless disturbed; after a cancellation or disconnection main loops return and jobs end |
| `Routing` | drains of the heap are sorted by urgency, whatever was pushed; the organizer leaves nothing in it and routes each event once, to its team, in order of arrival, and in the end unless its publish fails |
| `Ingest` | nothing early, no event before an earlier one if all timestamps parse, true counters; a cancelled ingest returns |
| `MockDelivery` | delivery once and in order, no double close before `Close`, cancel touches nobody else, listed channels are live |
| `Tracking` | counters and report agree, messages recorded once in order, every result recorded in the end |
| `ClientUse` | messages of one goroutine stay in order without confirms, no AMQP channel is leaked, the subscription implements `Consumption`; a reader whose context or connection ends is released, and both callers of cancel return |
| `Pipeline` | an event is counted in one report at most; the stages find their queues; events leave a queue unread only when RabbitMQ restarts and the program's memory only when it is disturbed or refused a channel for that event; leftovers of an earlier run are counted by the next |

Runs that TLC refutes, each the statement of a comment or of the README:

| Run | Statement | What happens |
|---|---|---|
| `TogglerLeak` | shutdown reaches all goroutines (`README.md:180`) | a toggler blocks in `idleCh <-` when nobody reads any more |
| `PriorityInversion` | events are sorted by priority (`organizer.go:93-94`) | the heap is drained after each push, so a High event waits behind a Low one |
| `UnfinalizedReport` | the tracker is given a moment to finalize (`main.go:118`) | its context was cancelled before the wait, so it leaves results in the queue |

The models show other behaviours that a reader of the code may not expect, for which no run is
kept. The comparator of `coordinator.go:66-73` is no strict weak order when a timestamp
does not parse, and `sort.Slice` then promises no order, against
"Sort by timestamp so we can schedule them in order" (`coordinator.go:63`);
`EarlierFirst` states that sentence for datasets whose timestamps all parse, as those of the
repository do. `AcceptsOnlyWhenOffered` is what holds of "It accepts events only during the idle
phase" (`worker.go:51-52`): an event may be accepted in the work phase when the
phase ends between `updateIdle` and the test. `CancelIsSafe` excepts a mock broker that was
closed, since `Close` does not go through `cancelOnce` and a later cancel closes
the channel again; and a `Publish` of the mock that has taken its snapshot panics if a channel in it
is closed before it sends. A lost connection ends the pool without a word: every main loop
returns nil (`worker.go:111`). Events with unparseable timestamps wait behind the timed
events before them (`coordinator.go:57` says they are published immediately), and main logs
"All events dispatched" also after a cancelled ingest (`main.go:99-104`). The sample
log of the README shows it: `README.md:146` has "992 accepted, 0 rejected", and
`dataset_1.json` holds 1000 events, 8 of them at 06:00, when the simulation ends. A
report may count more events than the dataset has, namely those an earlier run has left
behind (`Pipeline`). The goroutine at `rabbitmq.go:261-266` never ends if its reader
leaves with `out` full: `ConsumerReleased` allows for it.

Deadlock is checked where the system cannot stop (`PoolRoutine`).
The other runs let the environment close connections, cancel contexts or run out
of events, and then everything may come to rest.

Every property of a passing run has a mutant: a definition with a plausible
defect (`Mutant...` in the modules) under which TLC finds the property violated.

### Bounds, and why they are enough

* **Pools.** A tick is 5 s, so deadlines of 1, 2, 3 ticks and phases of 1 and 4 are
  exact; the 60 s phases of a concentrated team are cut to 4 ticks, one more than the
  longest deadline, after which nothing about an event changes, and the 3 s of handling
  are rounded up to a tick. Two workers and two events
  suffice for an event to go back and forth between workers, for two to be handled at once
  and for one to overtake another; channels and phases concern one worker at a time. One message that
is no event is in one place at a time, and comes again as often as it likes.
  `PoolFaults` trades the second event for the second team, and `PoolProgress` the second
  worker for temporal properties with two events. So its worker hands a busy event to itself; that a
  hand-over between two workers neither loses nor copies the event is checked by `PoolRoutine`. It has no
  fault `channels`: a pool none of whose workers could subscribe serves nobody. `PoolProgress` has a concentrated team, whose work phase
  outlasts the deadlines of its events; the others are intermittent. The proofs hold for
  every routine. Republishing needs no bound, since it makes no copies.
* **Organizer.** Four events, of two teams and none, and one message that is no event; each arrives
  once. Any publish may fail. For the heap, every order of pushing five
  priorities, two equal and one unknown: three levels, so both directions of a sift are taken.
* **Client.** Two publishers, one of which publishes twice, so that a message can be
  overtaken; two AMQP channels for three owners; `OutSize = 1`, so that the third delivery
  finds one in `out` and another in the hand of the forwarder.
* **Pipeline.** Two runs, the first with two events and the second with one: when the first ends
  an event may be anywhere while another is still on its way, and both can meet one of the second. One
  team stands for ten: their queues are declared and bound in turn and share nothing.
* **Coordinator.** Four events, every assignment of three times or none, one event invalid, and
  every order `sort.Slice` may return for it; `MaxClock = 2` is the last of these times.
* **Mock broker.** Two publishers, two subscriptions, two queues, `MaxPublished = 2`, buffers
  of 1 in place of 128, so that a buffer overflows.
* **Tracker.** `MaxResults = 2`, two events of different teams and priorities: one message
  after another of every pair of forms.

Workers of one team are interchangeable, as are publishers and subscriptions of the mock; the
runs with `SYMMETRY` (`PoolRoutine`, `MockDelivery`) check no liveness.

### Fairness

`SchedulerFairness` (weak): time passes, RabbitMQ hands on what it has queued,
and a goroutine that can continue does. `SelectFairness` (strong, for each
case of a `select`): Go chooses among ready cases at random, so a case that is
ready infinitely often is taken. Strong fairness is needed: a worker that
reads its own republished events keeps the case of `idleCh` from being
continuously the only one. Delivery is fair to the queue of a team, not to each of its workers.
`Ingest` needs weak fairness only, and no tick is assumed: a cancelled wait
must end without the clock. `RabbitClient` is weakly fair to its goroutines and strongly to
the case of the context in the reader's `select`, and assumes nothing of the
publishers and the broker. `Pipeline` is weakly fair to the flow of messages and
strongly to the publication of results, which `PoolProgress` shows of the pools.

## 4. Proofs

Every safety property that a passing run checks is also proved, for all values of
the constants that satisfy the assumptions of the modules.

| Module | Theorem | Property |
|---|---|---|
| `TeamWorkersProofs` | `TypeCorrect`, `VerdictsAreHonest`, `FlagIsFresh`, `AcceptsWhenOffered` | `TypeOK`, `VerdictsHonest`, `FlagFreshWhenRead`, `AcceptsOnlyWhenOffered` |
| | `EventsHaveOnePlace` | `SinglePlace` |
| | `PoolsKeepLedger` | `KeepsLedger`: the pools implement `EventLedger` |
| `RabbitClientProofs` | `TypeCorrect`, `PublishSynchronous`, `ChannelsAccounted` | `TypeOK`, `PublishIsSynchronous`, `NoChannelLeaked` |
| | `ClientImplementsConsumption` | `ImplementsConsumption`: the client implements `Consumption` |
| `OrganizerProofs` | `TypeCorrect`, `HeapNeverHoldsBack`, `RoutedInOrder` | `TypeOK`, `NothingLeftInHeap`, `RoutedInArrivalOrder` |
| | `HeapSortsPushes`, `HeapAlwaysSorts` | the first for every sequence of pushes, the second is `HeapSorts` |
| `CoordinatorProofs` | `TypeCorrect`, `PublishedOnTime`, `PublishedInOrder`, `StatsCorrect` | `TypeOK`, `NeverEarly`, `EarlierFirst`, `StatsAddUp` |
| `StressTrackerProofs` | `TypeCorrect`, `ReportTrue`, `RecordedInOrder` | `TypeOK`, `ReportAgrees`, `RecordsInOrder` |
| `MockBrokerProofs` | `TypeCorrect`, `ListedAreLive`, `CancelSafe`, `CancelTakesNoOther`, `DeliveredInOrderOnce` | `TypeOK`, `OnlyLiveChannelsListed`, `CancelIsSafe`, `CancelKeepsOthers`, `InOrderOnce` |
| `PipelineProofs` | `TypeCorrect`, `AlwaysSetUpFirst`, `NeverCountedTwice`, `NothingVanishes` | `TypeOK`, `SetupFirst`, `CountedOnce`, `LostOnlyIfDisturbed` |

`SequenceLemmas` holds what several of them need: sequences by their positions, without
repetitions, concatenated; and induction over the natural numbers.

### Assumptions

* `DeadlinesAssumption`: deadlines are positive and grow from High to Low.
* `PoolAssumption`, `EventsAssumption`: every worker has a team, events are valid and belong to
  a team with a queue, phases and handling time are positive, no event is malformed.
* `MalformedAssumption`: what is no event for the organizer is not among the events.
* `ScheduleAssumption`: a dataset has finitely many events, and timestamps are times of the clock or
  do not parse.
* `ClientAssumption`: the consumer is none of the publishers, `out` and the limit of AMQP channels
  have room for one, and each publisher makes some number of calls.
* `MockAssumption`: buffers have room for one message, and the absent exchange is none of the exchanges.
* `RunsAssumption`: there is a first run.
* `HeapAlwaysSorts` also assumes in its statement that there are finitely many events.

Nothing else is assumed of the numbers of teams, workers, events, messages, publishers, subscriptions,
queues and runs.

### The pools

*Verdicts.* `VerdictsHonest` speaks of results, so its strengthening follows an
event through a job. `VerdictInv` adds that jobs and queues hold
received events only (a countdown starts when an event is received), that a
job that has waited for `ProcessingTime - left` ticks belongs to an event whose
`ttl` is at most the deadline less these ticks, and that a finished job already
satisfies what is asked of its result. It is kept because `Tick`
decrements both sides, and because `ttl` never rises again (`ExpiredStays`).

*Flags.* `FlagFreshWhenRead` compares two goroutines that share one channel. `FlagInv`
says that the value the main loop will have once it has drained `idleCh` (the
flag itself if the channel is empty, its only value otherwise) is the one the
toggler announced last, for each position of the toggler. A send changes
both at once; a receive moves the value from the channel to the flag; since the
capacity is one, two announcements never overlap. From it, that an
accepted event is accepted by an available worker, or one whose `false` is the one value in the
channel, follows in the same induction.

*One place.* The operator `Places` names every place of an event, and `OnePlace` says
that it names one at most. `SinglePlace` then is inductive together with `OnlyReceived`: each action either moves an
event from the place that its guard shows it to be in, and `OnePlace` excludes all others, or
creates the first place of an event that has not been received. The sequences need
that an event occurs in them once (`Distinct`), so that taking out the head or cutting off
a suffix leaves it nowhere.

*Ledger.* `LedgerInv` adds `RightTeam`: an event is only ever with its own team. A step is
matched with `EventLedger` by the places of the event it touches: a place before and after is a
stutter, a result closes the event, and an event without a place afterwards is
lost, which by `RightTeam` happens only where the team was shut down, where the publish of this event
failed, or without the connection.

### The RabbitMQ client

*Publish.* The broker handles the frames of different channels in any order, so what
keeps the messages of a publisher in order is that it has one in flight at most.
`FramesInv` says so: a frame in flight is the one of the call its publisher waits
in, is later than everything of this publisher that has arrived, and a call that opens a channel is later too.

*Consumption.* `SubscriptionInv` orders the goroutines: the body of `cancelOnce` begins only for
a context that is done or a closed channel, a forwarder ends with an empty hand, and a reader
that has left finds nothing more to come. It makes the state function that lays `out`, `hand` and `buffer`
end to end a refinement mapping: delivery appends at one end, the forwarder stutters
(`ConcatMove`), the reader takes the head, and a closing library cuts off a suffix.

### The organizer

*Order.* `LineInv` describes the way from the exchange as one line: each place keeps the order of arrival
(`InTurn`), and what is further down arrived before what is behind it (`Ahead`). It is kept as events
move from the end of one place to the front of the next. That the heap does not
reorder uses that it holds one event at a time (`PushIntoEmpty`, `DrainOfOne`).

*Heap.* `HeapSorts` is a property of the operators and is proved of them. `Rank` makes the order of `Less`
one of numbers, and `RankOrder` relates it to the deadlines. `WayToRoot` describes the ancestors of an index as a
chain, `SinkPathSteps` the path of the element that sinks. For a push or a pop, the order of
a child and its parent afterwards is shown by cases on which of them lies on the path
(`PushKeepsHeap`, `PopKeepsHeap`): elements on it move by one level, and the element that has moved stops where it
is in order with both neighbours. Both also keep the elements. As the root of an ordered heap
is least (`TopIsLeast`), a drain returns an ordered sequence, with nothing left in the heap that should come
before its last (`DrainSorts`).

### The coordinator

Nothing is known of the slice but that it is a permutation of the dataset, and sorted if the comparator is an
ordering. `IngestInv` says that the slice stays the one of the beginning, that the published events are the valid
ones before `next` in its order (`InPlace`), each at a time that had come (`OnTime`), and that the counters count
them up to the one just published (`Counted`). `EarlierFirst` follows from the state alone: when all timestamps
parse the comparator is an ordering, so an earlier event stands before a published one in the slice, and every
valid event that stands there is published, since a publish that fails ends the loop.

### The stress tracker

*Report.* A breakdown is added up in any order, as Go ranges over a map. `BreakdownAddsUp` gives the solution of
the equation of that fold, the figures of the results with one of the keys taken so far, so that in the end it gives
the overall figures; `Sound` says so of both breakdowns of a report, and `Counters` ties the two counters to the
recorded results.

*Order.* `OrderInv` says that there is a number `n` of messages read, that the deliveries and the queue are windows of
what was published after these `n`, and that the records are exactly the messages that
parse among the first `n`, in order. Only the end of the subscription makes a gap between the windows.

### The mock broker

`ListsDistinct` and `ChannelsAlive` relate the lists under the mutex to the channels outside it: nothing is listed twice or
on two queues, a listed channel has not been cancelled, and while the broker is open only a cancel function that has run to its end
has closed a channel. The order of delivery needs `SendsInOrder`: the snapshot a
publisher still has to send goes to each channel once, and is later than all messages of this publisher that have
reached the channel.

### The pipeline

*Setup.* `SetupInv` ties each subscription to a step of `Program`: what the steps before
`step` declare is there, and a stage is started, holds something, or publishes only when
`main` is past the step that starts it. An end of the process makes all of it vacuous, and what
is declared is never removed; so it holds in the second run as in the first.

*Places.* `Traced` says of every step and every copy that it leaves the copy (or drops it),
moves it from its one place to another, or is the publication by `Ingest` of that
copy. `CountedOnce` is kept by the first two. For the third, `FreshInv` says that a
copy of the present run is nowhere before `Ingest` has started in it and while its event is still
in `todo`; it needs that an ended process has an empty `todo`, which is part of `TypeOK`.

*Losses.* `LossStep` takes a copy that has a place before a step and none after it.
Moving actions are excluded because their destination exists: a stage that holds an event has
been started (`SetupInv`), so what it needs is declared, and a publication goes nowhere only
without a connection, or without a channel, and then the event is in `refused`.

### Induction and folds

The induction theorems of the library take a predicate as a parameter, which the provers cannot
instantiate. `LeastNumber` derives the least element of a set of numbers from the well-foundedness of
inclusion on finite sets, and `SetInduction` and `StrongInduction` follow for *sets* of
numbers. The folds of the community modules are recursive functions on subsets, defined with `CHOOSE`: that the function
exists is itself proved by induction (`FlattenSteps`, `AncestorSteps`,
`HeapifiedSteps`, `DrainedSteps`), and from there a fold is a sequence of steps that
an invariant can follow.

### Model-checked only

* Liveness, which rests on fairness and `ENABLED` and is outside the prover's reach: `EveryEventReported`,
  `WorkersStop`, `EveryEventRouted`, `StopsWhenCancelled`, `EveryResultRecorded`, `ConsumerReleased`,
  `CancelReturns`, `LeftoversCounted`.
* The three statements that TLC refutes.

## 5. Not modelled

* The JSON text itself. Decoding is modelled by its outcome: the organizer, the workers and the tracker meet messages
  that do not parse, and the tracker those of four forms. Encoding cannot fail: an `Event` and a `ResultEvent` hold
  integers, strings and times that were read from JSON or from the clock, so the branches for an error of
  `json.Marshal` (`coordinator.go:99-104`, `organizer.go:208-212`) are never taken and have no action.
* The kinds and options of queues and exchanges, which the program leaves at the
  same values everywhere, and AMQP below channels and frames.
* Two programs running at the same time over one broker.
* In the mock broker, `DeclareExchange` and `DeclareQueue`: they store options
  that nothing reads. The mock routes to undeclared queues as to declared ones.
* `publishExpired` of the organizer: no code but its test calls it.
* Configuration: a sequential computation before anything runs, whose results are
  constants of the modules. The package `logger`: nothing calls it.
* The demo watcher: a program of its own that polls the management API and prints;
  nothing it does is seen by the pipeline.
* The health endpoint, the generator and the datasets: no state in common with the
  pipeline, or data.

## 6. Plan

1. `TeamWorkers`, `EventLedger`, first proofs - done.
2. `MockBroker`, `Coordinator`, `PriorityQueue`, `Organizer`, `StressTracker` - done.
3. `Consumption`, `RabbitClient` and the refinement, `Pipeline` with its proofs - done.
4. The safety properties of every module, and the two refinements, proved - done.
5. `SortSlice` in place of one sorting algorithm, refused AMQP channels and malformed messages
   in every module that meets them, with all proofs redone - done.
6. To prove next: what follows from the refinements without a run of its own (every
   behaviour of the client keeps the invariants of its abstract subscription).

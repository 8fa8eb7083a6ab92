-------------------------- MODULE CoordinatorProofs --------------------------
(***************************************************************************)
(* What Coordinator guarantees for every dataset, every assignment of      *)
(* timestamps and every bound on the clock.                                *)
(***************************************************************************)
EXTENDS Coordinator, SequenceLemmas

N == Cardinality(Events)

-----------------------------------------------------------------------------
(* Sorting *)

\* Every timestamp of the dataset parses.
Timed == \A e \in Events : Parses(e)

\* A slice that holds each event of the dataset once.
Permuted(s) ==
  /\ s \in Seq(Events) /\ Len(s) = N
  /\ Distinct(s)
  /\ \A e \in Events : \E a \in 1..N : s[a] = e

\* The timestamps of a dataset that has them all never decrease along s.
InOrder(s) ==
  Timed => \A i, j \in 1..N : i < j => timestampOf[s[i]] <= timestampOf[s[j]]

\* The assumption on the dataset.
LEMMA Dataset == N \in Nat /\ Cardinality(Events) = N /\ MaxClock \in Nat
BY ScheduleAssumption, FS_CardinalityType DEF N

\* A timestamp that parses is a number.
LEMMA TimesAreNumbers ==
  ASSUME timestampOf \in [Events -> Times \cup {Unparseable}], NEW e \in Events, Parses(e)
  PROVE  timestampOf[e] \in Nat
<1>1. timestampOf[e] \in Times \cup {Unparseable}
  OBVIOUS
<1>2. Times \subseteq Nat
  BY ScheduleAssumption
<1> QED BY <1>1, <1>2 DEF Parses

\* When every timestamp parses the comparison is an ordering of the dataset.
LEMMA TimedIsOrdered ==
  ASSUME timestampOf \in [Events -> Times \cup {Unparseable}], Timed
  PROVE  IsOrdering
<1> SUFFICES ASSUME NEW e \in Events, NEW f \in Events, NEW g \in Events, Less(e, f)
             PROVE  Less(e, g) \/ Less(g, f)
  BY DEF IsOrdering
<1>1. Parses(e) /\ Parses(f) /\ Parses(g)
  BY DEF Timed
<1>2. timestampOf[e] \in Nat /\ timestampOf[f] \in Nat /\ timestampOf[g] \in Nat
  BY <1>1, TimesAreNumbers
<1>3. timestampOf[e] < timestampOf[f]
  BY DEF Less
<1>4. timestampOf[e] < timestampOf[g] \/ timestampOf[g] < timestampOf[f]
  BY <1>2, <1>3
<1> QED BY <1>1, <1>4 DEF Less

\* Whatever sort.Slice makes of the dataset has each event once, in the order
\* of the timestamps if these all parse.
LEMMA SortSliceSorts ==
  ASSUME timestampOf \in [Events -> Times \cup {Unparseable}], NEW s \in SortSlice
  PROVE  Permuted(s) /\ InOrder(s)
<1>0. N \in Nat
  BY Dataset
<1>1. s \in Bijection(1..N, Events)
  BY DEF SortSlice, N
<1>2. s \in [1..N -> Events] /\ IsInjective(s) /\ \A e \in Events : \E a \in 1..N : s[a] = e
  BY <1>1 DEF Bijection, Injection, Surjection
<1>3. s \in Seq(Events) /\ Len(s) = N /\ DOMAIN s = 1..N
  BY <1>0, <1>2
<1>4. Permuted(s)
  BY <1>2, <1>3 DEF Permuted, Distinct, IsInjective
<1>5. ASSUME Timed, NEW i \in 1..N, NEW j \in 1..N, i < j
      PROVE  timestampOf[s[i]] <= timestampOf[s[j]]
  <2>1. ~Less(s[j], s[i])
    BY <1>3, <1>5, TimedIsOrdered DEF SortSlice
  <2>2. s[i] \in Events /\ s[j] \in Events
    BY <1>2
  <2>3. Parses(s[i]) /\ Parses(s[j])
    BY <1>5, <2>2 DEF Timed
  <2>4. timestampOf[s[i]] \in Nat /\ timestampOf[s[j]] \in Nat
    BY <2>2, <2>3, TimesAreNumbers
  <2> QED BY <2>1, <2>3, <2>4 DEF Less
<1> QED BY <1>4, <1>5 DEF InOrder

-----------------------------------------------------------------------------
(* The invariants *)

\* The slice Ingest runs over is the sorted dataset throughout.
InSchedule == Permuted(schedule) /\ InOrder(schedule)

\* An event is waited for, published or counted only when it is valid, and
\* published only when it is due.
InHand ==
  /\ pc \in {"wait", "publish", "count"} => next <= N /\ Validate(Current)
  /\ pc = "publish" => Due(Current)

\* One event is published and not counted yet.
Uncounted == IF pc = "count" THEN 1 ELSE 0

\* A record is of a valid event before index k of s.
Taken(r, s, k) ==
  /\ \E a \in 1..(k - 1) : r.ev = s[a]
  /\ Validate(r.ev)

\* Two records are of events before index k of s, in the order of s.
TakenInTurn(q, r, s, k) ==
  \E a, b \in 1..(k - 1) : a < b /\ q.ev = s[a] /\ r.ev = s[b]

\* An event has a record in v.
Recorded(e, v) == \E i \in 1..Len(v) : v[i].ev = e

\* The records of v are those of the valid events before index k of s, all of
\* them and in the order of s.
Placed(v, s, k) ==
  /\ \A i \in 1..Len(v) : Taken(v[i], s, k)
  /\ \A i, j \in 1..Len(v) : i < j => TakenInTurn(v[i], v[j], s, k)
  /\ \A a \in 1..(k - 1) : Validate(s[a]) => Recorded(s[a], v)

InPlace == Placed(validated, schedule, next + Uncounted)

Counted == accepted + rejected = next - 1 /\ Len(validated) = accepted + Uncounted

\* Nothing that is published was early: NeverEarly over the positions of the
\* queue.
OnTime == \A i \in 1..Len(validated) :
            Parses(validated[i].ev) => timestampOf[validated[i].ev] <= validated[i].at

IngestInv == TypeOK /\ InSchedule /\ InHand /\ InPlace /\ Counted /\ OnTime

\* Before the first event the invariant holds, as the slice has been sorted.
LEMMA IngestInit == Init => IngestInv
<1> SUFFICES ASSUME Init PROVE IngestInv
  OBVIOUS
<1>1. InSchedule
  BY SortSliceSorts DEF Init, InSchedule
<1>2. TypeOK
  <2>1. schedule \in Seq(Events) /\ Len(schedule) = Cardinality(Events)
    BY <1>1 DEF InSchedule, Permuted, N
  <2>2. <<>> \in Seq([ev : Events, at : 0..MaxClock])
    OBVIOUS
  <2>3. 0 \in 0..MaxClock /\ 1 \in 1..(Cardinality(Events) + 1)
    BY Dataset
  <2> QED BY <2>1, <2>2, <2>3 DEF Init, TypeOK
<1>3. Uncounted = 0 /\ next = 1 /\ accepted = 0 /\ rejected = 0 /\ validated = <<>>
  BY DEF Init, Uncounted
<1>4. 1..Len(validated) = {}
  BY <1>3
<1>5. InPlace
  <2>1. next + Uncounted = 1 /\ 1..(1 - 1) = {}
    BY <1>3
  <2>2. Placed(validated, schedule, 1)
    BY <1>4, <2>1 DEF Placed
  <2> QED BY <2>1, <2>2 DEF InPlace
<1>6. InHand /\ Counted /\ OnTime
  BY <1>3, <1>4 DEF Init, InHand, Counted, OnTime
<1> QED BY <1>1, <1>2, <1>5, <1>6 DEF IngestInv

\* The event under the loop's index.
LEMMA CurrentEvent ==
  ASSUME TypeOK, next <= N
  PROVE  Current \in Events /\ next \in 1..N
<1>1. next \in 1..N
  <2>1. next \in 1..(Cardinality(Events) + 1)
    BY DEF TypeOK
  <2> QED BY <2>1, Dataset
<1>2. schedule \in Seq(Events) /\ Len(schedule) = N
  BY DEF TypeOK, N
<1> QED BY <1>1, <1>2, ElementOfSeq DEF Current

\* What the type invariant says of the loop, in the terms of the proofs.
LEMMA LoopTypes ==
  ASSUME TypeOK
  PROVE  /\ schedule \in Seq(Events) /\ Len(schedule) = N /\ DOMAIN schedule = 1..N
         /\ N \in Nat /\ next \in 1..(N + 1) /\ next \in Nat \ {0}
         /\ clock \in 0..MaxClock /\ clock \in Nat /\ MaxClock \in Nat
         /\ accepted \in Nat /\ rejected \in Nat
         /\ validated \in Seq([ev : Events, at : 0..MaxClock])
         /\ DOMAIN validated = 1..Len(validated) /\ Len(validated) \in Nat
         /\ \A x \in Events : Parses(x) => timestampOf[x] \in Nat
<1>1. schedule \in Seq(Events) /\ Len(schedule) = N /\ N \in Nat
  BY Dataset DEF TypeOK
<1>2. DOMAIN schedule = 1..N
  BY <1>1, LenProperties
<1>3. next \in 1..(N + 1)
  BY Dataset DEF TypeOK
<1>4. next \in Nat \ {0}
  BY <1>1, <1>3
<1>5. clock \in 0..MaxClock /\ MaxClock \in Nat
  BY Dataset DEF TypeOK
<1>6. clock \in Nat
  BY <1>5
<1>7. accepted \in Nat /\ rejected \in Nat /\ validated \in Seq([ev : Events, at : 0..MaxClock])
  BY DEF TypeOK
<1>8. DOMAIN validated = 1..Len(validated) /\ Len(validated) \in Nat
  BY <1>7, LenProperties
<1>9. ASSUME NEW x \in Events, Parses(x) PROVE timestampOf[x] \in Nat
  BY <1>9, TimesAreNumbers DEF TypeOK
<1> QED BY <1>1, <1>2, <1>3, <1>4, <1>5, <1>6, <1>7, <1>8, <1>9

\* Moving the index past an event that is not valid leaves the published
\* events behind it.
LEMMA StillPlaced ==
  ASSUME NEW v, NEW s, NEW k \in Nat \ {0}, Placed(v, s, k), ~Validate(s[k])
  PROVE  Placed(v, s, k + 1)
<1>1. \A a \in 1..(k - 1) : a \in 1..(k + 1 - 1)
  OBVIOUS
<1>2. ASSUME NEW i \in 1..Len(v) PROVE Taken(v[i], s, k + 1)
  BY <1>1 DEF Placed, Taken
<1>3. ASSUME NEW i \in 1..Len(v), NEW j \in 1..Len(v), i < j
      PROVE  TakenInTurn(v[i], v[j], s, k + 1)
  <2>1. PICK a \in 1..(k - 1), b \in 1..(k - 1) : a < b /\ v[i].ev = s[a] /\ v[j].ev = s[b]
    BY <1>3 DEF Placed, TakenInTurn
  <2> QED BY <1>1, <2>1 DEF TakenInTurn
<1>4. ASSUME NEW a \in 1..(k + 1 - 1), Validate(s[a]) PROVE Recorded(s[a], v)
  <2>1. a \in 1..(k - 1)
    <3>1. a # k
      BY <1>4
    <3> QED BY <3>1
  <2> QED BY <1>4, <2>1 DEF Placed
<1> QED BY <1>2, <1>3, <1>4 DEF Placed

\* The event under the index may follow those that have been published.
LEMMA NextPlaced ==
  ASSUME NEW S, NEW v \in Seq(S), NEW x \in S, NEW s, NEW k \in Nat \ {0},
         Placed(v, s, k), x.ev = s[k], Validate(s[k])
  PROVE  Placed(Append(v, x), s, k + 1)
<1> DEFINE n == Len(v)
           w == Append(v, x)
<1>0. n \in Nat
  BY LenProperties
<1>1. Len(w) = n + 1 /\ w[n + 1] = x /\ \A i \in 1..n : w[i] = v[i]
  <2>1. DOMAIN v = 1..n
    BY LenProperties
  <2>2. Len(w) = n + 1
    OBVIOUS
  <2> QED BY <2>1, <2>2, AppendElements
<1> HIDE DEF w
<1>2. k \in 1..(k + 1 - 1) /\ \A a \in 1..(k - 1) : a \in 1..(k + 1 - 1) /\ a < k
  OBVIOUS
<1>3. ASSUME NEW i \in 1..(n + 1) PROVE Taken(w[i], s, k + 1)
  <2>1. CASE i \in 1..n
    <3>1. PICK a \in 1..(k - 1) : v[i].ev = s[a]
      BY <2>1 DEF Placed, Taken
    <3>2. Validate(v[i].ev)
      BY <2>1 DEF Placed, Taken
    <3> QED BY <1>1, <1>2, <2>1, <3>1, <3>2 DEF Taken
  <2>2. CASE i = n + 1
    <3>1. w[i].ev = s[k] /\ Validate(w[i].ev)
      BY <1>1, <2>2
    <3> QED BY <1>2, <3>1 DEF Taken
  <2> QED BY <1>0, <2>1, <2>2
<1>4. ASSUME NEW i \in 1..(n + 1), NEW j \in 1..(n + 1), i < j
      PROVE  TakenInTurn(w[i], w[j], s, k + 1)
  <2>1. i \in 1..n /\ (j \in 1..n \/ j = n + 1)
    BY <1>0, <1>4
  <2>2. CASE j \in 1..n
    <3>1. PICK a \in 1..(k - 1), b \in 1..(k - 1) :
            a < b /\ v[i].ev = s[a] /\ v[j].ev = s[b]
      BY <1>4, <2>1, <2>2 DEF Placed, TakenInTurn
    <3> QED BY <1>1, <1>2, <2>1, <2>2, <3>1 DEF TakenInTurn
  <2>3. CASE j = n + 1
    <3>1. PICK a \in 1..(k - 1) : v[i].ev = s[a]
      BY <2>1 DEF Placed, Taken
    <3> QED BY <1>1, <1>2, <2>1, <2>3, <3>1 DEF TakenInTurn
  <2> QED BY <2>1, <2>2, <2>3
<1>5. ASSUME NEW a \in 1..(k + 1 - 1), Validate(s[a]) PROVE Recorded(s[a], w)
  <2>1. \A i \in 1..n : i \in 1..Len(w)
    BY <1>0, <1>1
  <2>2. n + 1 \in 1..Len(w)
    BY <1>0, <1>1
  <2>3. CASE a = k
    BY <1>1, <2>2, <2>3 DEF Recorded
  <2>4. CASE a # k
    <3>1. a \in 1..(k - 1)
      BY <2>4
    <3>2. PICK i \in 1..n : v[i].ev = s[a]
      BY <1>5, <3>1 DEF Placed, Recorded
    <3> QED BY <1>1, <2>1, <3>2 DEF Recorded
  <2> QED BY <2>3, <2>4
<1>6. Placed(w, s, k + 1)
  <2> HIDE DEF n
  <2>1. Len(w) = n + 1
    BY <1>1
  <2> QED BY <1>3, <1>4, <1>5, <2>1 DEF Placed
<1> QED BY <1>6 DEF w

\* The sorted slice and the timestamps are read and never written.
LEMMA ScheduleStays ==
  ASSUME InSchedule, UNCHANGED <<schedule, timestampOf>>
  PROVE  InSchedule'
BY DEF InSchedule, Permuted, Distinct, InOrder, Timed, Parses

\* A step of the loop that publishes and counts nothing and keeps the index.
LEMMA IndexKept ==
  ASSUME IngestInv, UNCHANGED <<schedule, timestampOf, next, accepted, rejected, validated>>,
         Uncounted' = Uncounted
  PROVE  InSchedule' /\ InPlace' /\ Counted' /\ OnTime'
<1>1. InSchedule'
  BY ScheduleStays DEF IngestInv
<1>2. InPlace' /\ Counted'
  <2> HIDE DEF Uncounted
  <2> QED BY DEF IngestInv, InPlace, Counted
<1>3. OnTime'
  BY DEF IngestInv, OnTime, Parses
<1> QED BY <1>1, <1>2, <1>3

\* Every step of the loop keeps the invariant.
LEMMA IngestKeeps == IngestInv /\ Ingest => IngestInv'
<1> SUFFICES ASSUME IngestInv, Ingest PROVE IngestInv'
  OBVIOUS
<1>0. /\ TypeOK /\ InSchedule /\ InHand /\ InPlace /\ Counted /\ OnTime
      /\ Len(schedule) = N /\ next \in Nat \ {0} /\ N \in Nat
  BY LoopTypes DEF IngestInv
<1>1. CASE Reject
  <2>0. /\ pc = "next" /\ next <= N /\ rejected' = rejected + 1 /\ next' = next + 1
        /\ UNCHANGED <<env, pc, accepted, validated, outcome>>
    BY <1>0, <1>1 DEF Reject
  <2>1. TypeOK'
    <3>1. next' \in 1..(Cardinality(Events) + 1) /\ rejected' \in Nat
      BY <1>0, <2>0, LoopTypes, Dataset
    <3> QED BY <1>0, <2>0, <3>1 DEF TypeOK, env
  <2>2. InSchedule'
    BY <1>0, <1>1, ScheduleStays DEF Reject, env
  <2>3. Uncounted = 0 /\ Uncounted' = 0
    BY <2>0 DEF Uncounted
  <2>4. InPlace'
    <3>1. ~Validate(schedule[next]) /\ Placed(validated, schedule, next)
      BY <1>0, <1>1, <2>3 DEF Reject, InPlace, Current
    <3>2. Placed(validated, schedule, next + 1)
      BY <1>0, <3>1, StillPlaced
    <3> QED BY <1>0, <2>0, <2>3, <3>2 DEF env, InPlace
  <2>5. InHand'
    BY <2>0 DEF InHand
  <2>6. Counted'
    <3>1. accepted \in Nat /\ rejected \in Nat
      BY <1>0, LoopTypes
    <3> QED BY <1>0, <2>0, <2>3, <3>1 DEF Counted
  <2>7. OnTime'
    BY <1>0, <2>0 DEF OnTime, env, Parses
  <2> QED BY <2>1, <2>2, <2>4, <2>5, <2>6, <2>7 DEF IngestInv
<1>2. CASE Schedule
  <2>1. TypeOK'
    BY <1>0, <1>2 DEF Schedule, TypeOK, env
  <2>2. InHand'
    BY <1>0, <1>2 DEF Schedule, InHand, env, Current, Due, Parses
  <2>3. InSchedule' /\ InPlace' /\ Counted' /\ OnTime'
    <3>1. Uncounted = 0 /\ Uncounted' = 0
      BY <1>2 DEF Schedule, Uncounted
    <3> QED BY <1>2, <3>1, IndexKept DEF Schedule, env
  <2> QED BY <2>1, <2>2, <2>3 DEF IngestInv
<1>3. CASE TimerFires
  <2>1. TypeOK'
    BY <1>0, <1>3 DEF TimerFires, TypeOK, env
  <2>2. InHand'
    BY <1>0, <1>3 DEF TimerFires, InHand, env, Current, Due, Parses
  <2>3. InSchedule' /\ InPlace' /\ Counted' /\ OnTime'
    <3>1. Uncounted = 0 /\ Uncounted' = 0
      BY <1>3 DEF TimerFires, Uncounted
    <3> QED BY <1>3, <3>1, IndexKept DEF TimerFires, env
  <2> QED BY <2>1, <2>2, <2>3 DEF IngestInv
<1>4. CASE WaitCancelled
  <2>1. TypeOK' /\ InHand'
    BY <1>0, <1>4 DEF WaitCancelled, ReturnWith, TypeOK, InHand, env
  <2>2. InSchedule' /\ InPlace' /\ Counted' /\ OnTime'
    <3>1. Uncounted = 0 /\ Uncounted' = 0
      BY <1>4 DEF WaitCancelled, ReturnWith, Uncounted
    <3> QED BY <1>4, <3>1, IndexKept DEF WaitCancelled, env
  <2> QED BY <2>1, <2>2 DEF IngestInv
<1>5. CASE Publish /\ pc' = "count"
  <2> DEFINE x == [ev |-> Current, at |-> clock]
  <2>1. /\ pc = "publish"
        /\ validated' = Append(validated, x) /\ pc' = "count"
        /\ UNCHANGED <<env, next, accepted, rejected, outcome>>
    BY <1>5 DEF Publish, ReturnWith
  <2>2. pc = "publish" /\ next <= N /\ Validate(Current) /\ Due(Current)
    BY <1>0, <2>1 DEF InHand
  <2>3. Current \in Events /\ next \in 1..N
    BY <1>0, <2>2, CurrentEvent
  <2>4. x \in [ev : Events, at : 0..MaxClock] /\ x.ev = Current /\ x.at = clock
    BY <1>0, <2>3 DEF TypeOK
  <2> HIDE DEF x
  <2>5. validated \in Seq([ev : Events, at : 0..MaxClock])
    BY <1>0 DEF TypeOK
  <2>6. TypeOK'
    <3>1. validated' \in Seq([ev : Events, at : 0..MaxClock])
      BY <2>1, <2>4, <2>5
    <3>2. /\ UNCHANGED <<timestampOf, schedule, clock, cancelled, up, logged>>
          /\ UNCHANGED <<next, accepted, rejected, outcome>> /\ pc' = "count"
      BY <2>1 DEF env
    <3> QED BY <1>0, <3>1, <3>2 DEF TypeOK
  <2>7. InSchedule'
    BY <1>0, <2>1, ScheduleStays DEF env
  <2>8. Uncounted = 0 /\ Uncounted' = 1
    BY <2>1 DEF Uncounted
  <2>9. InPlace'
    <3>1. Placed(validated, schedule, next)
      BY <1>0, <2>8 DEF InPlace
    <3>2. Placed(Append(validated, x), schedule, next + 1)
      BY <1>0, <2>2, <2>4, <2>5, <3>1, NextPlaced DEF Current
    <3> QED BY <2>1, <2>8, <3>2 DEF InPlace, env
  <2>10. Counted'
    <3>1. Len(validated') = Len(validated) + 1
      BY <2>1, <2>4, <2>5
    <3>2. accepted \in Nat /\ rejected \in Nat /\ next \in Nat \ {0}
      BY <1>0, LoopTypes
    <3> QED BY <1>0, <2>1, <2>8, <3>1, <3>2 DEF Counted
  <2>11. OnTime'
    <3>1. /\ Len(validated') = Len(validated) + 1 /\ Len(validated) \in Nat
          /\ validated'[Len(validated) + 1] = x
          /\ \A i \in 1..Len(validated) : validated'[i] = validated[i]
      <4>1. DOMAIN validated = 1..Len(validated) /\ Len(validated) \in Nat
        BY <2>5, LenProperties
      <4>2. Len(validated') = Len(validated) + 1
        BY <2>1, <2>4, <2>5
      <4> QED BY <2>1, <2>4, <2>5, <4>1, <4>2, AppendElements
    <3>2. ASSUME NEW i \in 1..Len(validated'), Parses(validated'[i].ev)
          PROVE  timestampOf[validated'[i].ev] <= validated'[i].at
      <4>1. CASE i \in 1..Len(validated)
        BY <1>0, <3>1, <3>2, <4>1 DEF OnTime
      <4>2. CASE i = Len(validated) + 1
        BY <2>2, <2>4, <3>1, <3>2, <4>2 DEF Due
      <4> QED BY <3>1, <4>1, <4>2
    <3> QED BY <2>1, <3>2 DEF OnTime, Parses, env
  <2>12. InHand'
    BY <2>1, <2>2 DEF InHand, env, Current
  <2> QED BY <2>6, <2>7, <2>9, <2>10, <2>11, <2>12 DEF IngestInv
<1>6. CASE Publish /\ pc' # "count"
  <2>1. TypeOK' /\ InHand'
    BY <1>0, <1>6 DEF Publish, ReturnWith, TypeOK, InHand, env
  <2>2. InSchedule' /\ InPlace' /\ Counted' /\ OnTime'
    <3>1. Uncounted = 0 /\ Uncounted' = 0 /\ UNCHANGED validated
      BY <1>6 DEF Publish, Uncounted
    <3> QED BY <1>6, <3>1, IndexKept DEF Publish, env
  <2> QED BY <2>1, <2>2 DEF IngestInv
<1>7. CASE CountAccepted
  <2>1. /\ pc = "count" /\ accepted' = accepted + 1 /\ next' = next + 1 /\ pc' = "next"
        /\ UNCHANGED <<env, rejected, validated, outcome>>
    BY <1>7 DEF CountAccepted
  <2>2. next \in 1..N /\ accepted \in Nat /\ rejected \in Nat
    BY <1>0, <2>1, CurrentEvent, LoopTypes DEF InHand
  <2>3. TypeOK'
    <3>1. next' \in 1..(Cardinality(Events) + 1) /\ accepted' \in Nat
      BY <2>1, <2>2, Dataset
    <3> QED BY <1>0, <2>1, <3>1 DEF TypeOK, env
  <2>4. InSchedule'
    BY <1>0, <2>1, ScheduleStays DEF env
  <2>5. Uncounted = 1 /\ Uncounted' = 0
    BY <2>1 DEF Uncounted
  <2>6. InPlace'
    <3>1. Placed(validated, schedule, next + 1)
      BY <1>0, <2>5 DEF InPlace
    <3> QED BY <2>1, <2>2, <2>5, <3>1 DEF InPlace, env
  <2>7. Counted'
    BY <1>0, <2>1, <2>2, <2>5 DEF Counted
  <2>8. InHand' /\ OnTime'
    BY <1>0, <2>1 DEF InHand, OnTime, env, Parses
  <2> QED BY <2>3, <2>4, <2>6, <2>7, <2>8 DEF IngestInv
<1>8. CASE Finish
  <2>1. TypeOK' /\ InHand'
    BY <1>0, <1>8 DEF Finish, ReturnWith, TypeOK, InHand, env
  <2>2. InSchedule' /\ InPlace' /\ Counted' /\ OnTime'
    <3>1. Uncounted = 0 /\ Uncounted' = 0
      BY <1>8 DEF Finish, ReturnWith, Uncounted
    <3> QED BY <1>8, <3>1, IndexKept DEF Finish, env
  <2> QED BY <2>1, <2>2 DEF IngestInv
<1> QED BY <1>1, <1>2, <1>3, <1>4, <1>5, <1>6, <1>7, <1>8 DEF Ingest

\* main, the broker and the clock leave the loop alone; time only makes more
\* events due.
LEMMA OthersKeep ==
  IngestInv /\ (LogOutcome \/ Cancel \/ Disconnect \/ Tick \/ UNCHANGED vars) => IngestInv'
<1> SUFFICES ASSUME IngestInv,
                    LogOutcome \/ Cancel \/ Disconnect \/ Tick \/ UNCHANGED vars
             PROVE  IngestInv'
  OBVIOUS
<1>1. UNCHANGED <<schedule, timestampOf, next, pc, accepted, rejected, validated, outcome>>
  BY DEF LogOutcome, Cancel, Disconnect, Tick, vars, loopVars
<1>2. TypeOK /\ MaxClock \in Nat
  BY Dataset DEF IngestInv
<1>3. clock' \in 0..MaxClock /\ clock <= clock' /\ clock \in 0..MaxClock
  <2>1. clock \in 0..MaxClock /\ clock \in Nat /\ MaxClock \in Nat
    BY <1>2, LoopTypes
  <2>2. clock' = clock \/ (clock < MaxClock /\ clock' = clock + 1)
    <3>1. CASE Tick
      BY <3>1 DEF Tick
    <3>2. ASSUME LogOutcome \/ Cancel \/ Disconnect \/ UNCHANGED vars PROVE clock' = clock
      BY <3>2 DEF LogOutcome, Cancel, Disconnect, vars
    <3> HIDE DEF vars
    <3> QED BY <3>1, <3>2
  <2> QED BY <2>1, <2>2
<1>4. /\ cancelled' \in BOOLEAN /\ up' \in BOOLEAN
      /\ logged' \in {"nothing", "ingest error", "All events dispatched"}
  BY <1>2 DEF TypeOK, LogOutcome, Cancel, Disconnect, Tick, vars, loopVars
<1>5. TypeOK'
  BY <1>1, <1>2, <1>3, <1>4 DEF TypeOK
<1>6. InSchedule' /\ InPlace' /\ Counted' /\ OnTime'
  <2>1. Uncounted' = Uncounted
    BY <1>1 DEF Uncounted
  <2> QED BY <1>1, <2>1, IndexKept
<1>7. InHand'
  <2>1. Current' = Current
    BY <1>1 DEF Current
  <2>2. ASSUME pc = "publish" PROVE Due(Current)'
    <3>1. next <= N /\ Due(Current) /\ Current \in Events
      BY <1>2, <2>2, CurrentEvent DEF IngestInv, InHand
    <3>2. Parses(Current) => timestampOf[Current] \in Nat
      BY <1>2, <3>1, LoopTypes
    <3>3. Parses(Current) => timestampOf[Current] <= clock'
      BY <1>3, <3>1, <3>2 DEF Due
    <3> QED BY <1>1, <2>1, <3>3 DEF Due, Parses
  <2>3. pc \in {"wait", "publish", "count"} => next <= N /\ Validate(Current)
    BY DEF IngestInv, InHand
  <2> QED BY <1>1, <2>1, <2>2, <2>3 DEF InHand
<1> QED BY <1>5, <1>6, <1>7 DEF IngestInv

\* The invariant of the coordinator.
LEMMA IngestInvariant == Spec => []IngestInv
<1>1. IngestInv /\ [Next]_vars => IngestInv'
  BY IngestKeeps, OthersKeep DEF Next
<1> QED BY IngestInit, <1>1, PTL DEF Spec

-----------------------------------------------------------------------------
(* The theorems *)

\* Every variable of the coordinator keeps its type.
THEOREM TypeCorrect == Spec => []TypeOK
<1>1. IngestInv => TypeOK
  BY DEF IngestInv
<1> QED BY IngestInvariant, <1>1, PTL

\* No event of any dataset is published before its timestamp, however the
\* ticks, the cancellation and the loss of the connection fall.
THEOREM PublishedOnTime == Spec => []NeverEarly
<1>1. IngestInv => NeverEarly
  <2> SUFFICES ASSUME IngestInv PROVE NeverEarly
    OBVIOUS
  <2>1. DOMAIN validated = 1..Len(validated)
    BY LenProperties DEF IngestInv, TypeOK
  <2> QED BY <2>1 DEF IngestInv, OnTime, NeverEarly
<1> QED BY IngestInvariant, <1>1, PTL

\* No event of a dataset whose timestamps all parse gets ahead of an earlier
\* one, in whatever order the sort leaves equal timestamps.
THEOREM PublishedInOrder == Spec => []EarlierFirst
<1>1. IngestInv => EarlierFirst
  <2> SUFFICES ASSUME IngestInv, Timed, NEW j \in DOMAIN validated, NEW e \in Events,
                      Validate(e), timestampOf[e] < timestampOf[validated[j].ev]
               PROVE  \E i \in 1..(j - 1) : validated[i].ev = e
    BY DEF EarlierFirst, Timed
  <2> DEFINE k == next + Uncounted
             f == validated[j].ev
  <2>0. /\ TypeOK /\ N \in Nat /\ j \in 1..Len(validated) /\ Len(validated) \in Nat
        /\ schedule \in Seq(Events) /\ DOMAIN schedule = 1..N
        /\ Permuted(schedule) /\ InOrder(schedule) /\ Placed(validated, schedule, k)
    BY LoopTypes DEF IngestInv, InSchedule, InPlace
  <2>1. k \in 1..(N + 1)
    <3>1. next \in 1..(N + 1) /\ (pc = "count" => next <= N)
      BY <2>0, LoopTypes DEF IngestInv, InHand
    <3> QED BY <2>0, <3>1 DEF Uncounted
  <2> HIDE DEF k
  <2>2. PICK b \in 1..(k - 1) : f = schedule[b]
    BY <2>0 DEF Placed, Taken
  <2>3. PICK a \in 1..N : schedule[a] = e
    BY <2>0 DEF Permuted
  <2>4. b \in 1..N /\ f \in Events
    <3>1. b \in 1..N
      BY <2>0, <2>1
    <3> QED BY <2>0, <2>2, <3>1, ElementOfSeq, LenProperties
  <2>5. timestampOf[e] \in Nat /\ timestampOf[f] \in Nat
    BY <2>0, <2>4, TimesAreNumbers DEF Timed, TypeOK
  <2>6. a < b
    <3>1. a # b
      BY <2>2, <2>3, <2>5
    <3>2. ~(b < a)
      <4>1. b < a => timestampOf[f] <= timestampOf[e]
        BY <2>0, <2>2, <2>3, <2>4 DEF InOrder
      <4> QED BY <2>5, <4>1
    <3> QED BY <2>3, <2>4, <3>1, <3>2
  <2>7. a \in 1..(k - 1)
    BY <2>1, <2>3, <2>6
  <2>8. PICK i \in 1..Len(validated) : validated[i].ev = e
    BY <2>0, <2>3, <2>7 DEF Placed, Recorded
  <2>9. i < j
    <3>1. i # j
      BY <2>5, <2>8
    <3>2. ASSUME j < i PROVE FALSE
      <4>1. TakenInTurn(validated[j], validated[i], schedule, k)
        BY <2>0, <3>2 DEF Placed
      <4>2. PICK c \in 1..(k - 1), d \in 1..(k - 1) :
              c < d /\ f = schedule[c] /\ e = schedule[d]
        BY <2>8, <4>1 DEF TakenInTurn
      <4>3. c \in 1..N /\ d \in 1..N
        BY <2>0, <2>1, <4>2
      <4>4. c = b /\ d = a
        <5>1. /\ Distinct(schedule) /\ schedule[c] = schedule[b] /\ schedule[d] = schedule[a]
              /\ {a, b, c, d} \subseteq DOMAIN schedule
          BY <2>0, <2>2, <2>3, <2>4, <4>2, <4>3 DEF Permuted
        <5> QED BY <5>1 DEF Distinct
      <4> QED BY <2>3, <2>4, <2>6, <4>2, <4>4
    <3> QED BY <2>0, <2>8, <3>1, <3>2
  <2>10. i \in 1..(j - 1)
    BY <2>0, <2>8, <2>9
  <2> QED BY <2>8, <2>10
<1> QED BY IngestInvariant, <1>1, PTL

\* Stats never counts an event that is not in the queue and is one behind at
\* most, and no event is published twice or invalid.
THEOREM StatsCorrect == Spec => []StatsAddUp
<1>1. IngestInv => StatsAddUp
  <2> SUFFICES ASSUME IngestInv PROVE StatsAddUp
    OBVIOUS
  <2> DEFINE k == next + Uncounted
  <2>0. /\ TypeOK /\ N \in Nat /\ DOMAIN schedule = 1..N
        /\ DOMAIN validated = 1..Len(validated) /\ Len(validated) \in Nat
        /\ Distinct(schedule) /\ Placed(validated, schedule, k)
    BY LoopTypes DEF IngestInv, InSchedule, InPlace, Permuted
  <2>1. k \in 1..(N + 1)
    <3>1. next \in 1..(N + 1) /\ (pc = "count" => next <= N)
      BY <2>0, LoopTypes DEF IngestInv, InHand
    <3> QED BY <2>0, <3>1 DEF Uncounted
  <2> HIDE DEF k
  <2>2. ASSUME NEW i \in 1..Len(validated), NEW j \in 1..Len(validated), i < j,
               validated[i].ev = validated[j].ev
        PROVE  FALSE
    <3>1. PICK a \in 1..(k - 1), b \in 1..(k - 1) :
            a < b /\ validated[i].ev = schedule[a] /\ validated[j].ev = schedule[b]
      BY <2>0, <2>2 DEF Placed, TakenInTurn
    <3>2. a \in DOMAIN schedule /\ b \in DOMAIN schedule /\ a # b
      BY <2>0, <2>1, <3>1
    <3>3. schedule[a] = schedule[b]
      BY <2>2, <3>1, Zenon
    <3> QED BY <2>0, <3>2, <3>3 DEF Distinct
  <2>3. \A i, j \in DOMAIN validated : validated[i].ev = validated[j].ev => i = j
    BY <2>0, <2>2
  <2>4. \A i \in DOMAIN validated : Validate(validated[i].ev)
    BY <2>0 DEF Placed, Taken
  <2> QED BY <2>3, <2>4 DEF IngestInv, Counted, Uncounted, StatsAddUp
<1> QED BY IngestInvariant, <1>1, PTL

=============================================================================

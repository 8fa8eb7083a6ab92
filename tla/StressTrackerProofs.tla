------------------------ MODULE StressTrackerProofs ------------------------
(***************************************************************************)
(* What StressTracker guarantees for every set of events, any number of    *)
(* messages of every form, and every end of the run.                       *)
(***************************************************************************)
EXTENDS StressTracker, SequenceLemmas

-----------------------------------------------------------------------------
(* The figures of the report *)

\* How many of the results at some indices have one of the statuses.
Number(recorded, at, statuses) == Cardinality({i \in at : recorded[i].status \in statuses})

Zero == [total |-> 0, completed |-> 0, expired |-> 0]

\* The figures are three such numbers.
LEMMA StatsFields ==
  ASSUME NEW r, NEW at
  PROVE  /\ StatsOf(r, at) = [total |-> Number(r, at, {"Completed", "Expired"}),
                              completed |-> Number(r, at, {"Completed"}),
                              expired |-> Number(r, at, {"Expired"})]
         /\ DOMAIN StatsOf(r, at) = {"total", "completed", "expired"}
         /\ StatsOf(r, at).total = Number(r, at, {"Completed", "Expired"})
         /\ StatsOf(r, at).completed = Number(r, at, {"Completed"})
         /\ StatsOf(r, at).expired = Number(r, at, {"Expired"})
<1>1. StatsOf(r, at) = [total |-> Number(r, at, {"Completed", "Expired"}),
                        completed |-> Number(r, at, {"Completed"}),
                        expired |-> Number(r, at, {"Expired"})]
  BY DEF StatsOf, Number
<1> HIDE DEF Number
<1> QED BY <1>1

\* The numbers of disjoint sets of indices add up, and so do those of
\* different statuses.
LEMMA NumbersAdd ==
  ASSUME NEW r, NEW A, NEW B, IsFiniteSet(A), IsFiniteSet(B), A \cap B = {}, NEW X
  PROVE  /\ Number(r, A, X) \in Nat /\ Number(r, B, X) \in Nat
         /\ Number(r, A \cup B, X) = Number(r, A, X) + Number(r, B, X)
<1> DEFINE a == {i \in A : r[i].status \in X}
           b == {i \in B : r[i].status \in X}
<1>1. a \in SUBSET A /\ b \in SUBSET B /\ a \cap b = {}
  OBVIOUS
<1>2. {i \in A \cup B : r[i].status \in X} = a \cup b
  OBVIOUS
<1> HIDE DEF a, b
<1>3. IsFiniteSet(a) /\ IsFiniteSet(b)
  BY <1>1, FS_Subset
<1>4. Cardinality(a) \in Nat /\ Cardinality(b) \in Nat /\ Cardinality({}) = 0
  BY <1>3, FS_CardinalityType, FS_EmptySet
<1>5. Cardinality(a \cup b) = Cardinality(a) + Cardinality(b) - Cardinality(a \cap b)
  BY <1>3, FS_Union
<1>6. Cardinality(a \cap b) = 0
  BY <1>1, <1>4
<1>7. Cardinality(a \cup b) = Cardinality(a) + Cardinality(b)
  BY <1>4, <1>5, <1>6
<1> QED BY <1>2, <1>4, <1>7 DEF Number, a, b

\* The closed results are the completed and the expired ones.
LEMMA StatusesAdd ==
  ASSUME NEW r, NEW A, IsFiniteSet(A)
  PROVE  /\ Number(r, A, {"Completed"}) \in Nat /\ Number(r, A, {"Expired"}) \in Nat
         /\ Number(r, A, {"Completed", "Expired"}) =
              Number(r, A, {"Completed"}) + Number(r, A, {"Expired"})
<1> DEFINE a == {i \in A : r[i].status \in {"Completed"}}
           b == {i \in A : r[i].status \in {"Expired"}}
<1>1. a \in SUBSET A /\ b \in SUBSET A /\ a \cap b = {}
  OBVIOUS
<1>2. {i \in A : r[i].status \in {"Completed", "Expired"}} = a \cup b
  OBVIOUS
<1> HIDE DEF a, b
<1>3. IsFiniteSet(a) /\ IsFiniteSet(b)
  BY <1>1, FS_Subset
<1>4. Cardinality(a) \in Nat /\ Cardinality(b) \in Nat /\ Cardinality({}) = 0
  BY <1>3, FS_CardinalityType, FS_EmptySet
<1>5. Cardinality(a \cup b) = Cardinality(a) + Cardinality(b) - Cardinality(a \cap b)
  BY <1>3, FS_Union
<1>6. Cardinality(a \cap b) = 0
  BY <1>1, <1>4
<1>7. Cardinality(a \cup b) = Cardinality(a) + Cardinality(b)
  BY <1>4, <1>5, <1>6
<1> QED BY <1>2, <1>4, <1>7 DEF Number, a, b

\* So the figures of disjoint sets of results add up.
LEMMA StatsAdd ==
  ASSUME NEW r, NEW A, NEW B, IsFiniteSet(A), IsFiniteSet(B), A \cap B = {}
  PROVE  Plus(StatsOf(r, A), StatsOf(r, B)) = StatsOf(r, A \cup B)
<1> DEFINE all == {"Completed", "Expired"}
<1>1. \A X : Number(r, A \cup B, X) = Number(r, B, X) + Number(r, A, X)
  BY NumbersAdd
<1>2. Plus(StatsOf(r, A), StatsOf(r, B)) =
        [f \in {"total", "completed", "expired"} |-> StatsOf(r, B)[f] + StatsOf(r, A)[f]]
  BY StatsFields DEF Plus
<1>3. StatsOf(r, A \cup B) = [f \in {"total", "completed", "expired"} |-> StatsOf(r, A \cup B)[f]]
  BY StatsFields
<1>4. ASSUME NEW f \in {"total", "completed", "expired"}
      PROVE  StatsOf(r, B)[f] + StatsOf(r, A)[f] = StatsOf(r, A \cup B)[f]
  <2>1. CASE f = "total"
    BY <1>1, <2>1, StatsFields
  <2>2. CASE f = "completed"
    BY <1>1, <2>2, StatsFields
  <2>3. CASE f = "expired"
    BY <1>1, <2>3, StatsFields
  <2> QED BY <2>1, <2>2, <2>3
<1> QED BY <1>2, <1>3, <1>4

\* The figures of no results are zero.
LEMMA StatsOfNone ==
  ASSUME NEW r
  PROVE  StatsOf(r, {}) = Zero
<1>1. \A X : Number(r, {}, X) = 0
  <2>1. \A X : {i \in {} : r[i].status \in X} = {}
    OBVIOUS
  <2> QED BY <2>1, FS_EmptySet DEF Number
<1> QED BY <1>1, StatsFields DEF Zero

\* The fold of AddsUp over a breakdown yields the figures of all results that
\* the breakdown is of, in whatever order it takes the keys: the figures of the
\* results with a key in s solve the equation of the fold.
LEMMA BreakdownAddsUp ==
  ASSUME NEW r, NEW C, IsFiniteSet(C), NEW key, DOMAIN key = C
  PROVE  AddsUp(Breakdown(r, C, key), StatsOf(r, C))
<1> DEFINE parts == Breakdown(r, C, key)
           S == {key[i] : i \in C}
           with(s) == {i \in C : key[i] \in s}
           zero == [total |-> 0, completed |-> 0, expired |-> 0]
           pick(s) == CHOOSE x \in s : TRUE
           Step(it, s) == IF s = {} THEN zero ELSE Plus(parts[pick(s)], it[s \ {pick(s)}])
           F == CHOOSE it : it = [s \in SUBSET (DOMAIN parts) |-> Step(it, s)]
           h == [s \in SUBSET S |-> StatsOf(r, with(s))]
<1>1. AddsUp(parts, StatsOf(r, C)) <=> F[DOMAIN parts] = StatsOf(r, C)
  BY DEF AddsUp, FoldFunctionOnSet, MapThenFoldSet
<1>2. DOMAIN parts = S /\ \A k \in S : parts[k] = StatsOf(r, {i \in C : key[i] = k})
  BY DEF Breakdown
<1>3. \A s \in SUBSET S : IsFiniteSet(with(s))
  BY FS_Subset
<1>4. ASSUME NEW s \in SUBSET S, s # {}
      PROVE  /\ pick(s) \in s
             /\ StatsOf(r, with(s)) = Plus(parts[pick(s)], StatsOf(r, with(s \ {pick(s)})))
  <2>1. pick(s) \in s
    BY <1>4
  <2> DEFINE k == pick(s)
             A == {i \in C : key[i] = k}
             B == with(s \ {k})
  <2> HIDE DEF k
  <2>2. k \in s /\ k \in S
    BY <2>1 DEF k
  <2>3. with(s) = A \cup B /\ A \cap B = {}
    BY <2>2
  <2>4. IsFiniteSet(A) /\ IsFiniteSet(B)
    BY FS_Subset
  <2>5. parts[k] = StatsOf(r, A)
    BY <1>2, <2>2
  <2> HIDE DEF A, B, with, parts
  <2>6. StatsOf(r, with(s)) = Plus(StatsOf(r, A), StatsOf(r, B))
    BY <2>3, <2>4, StatsAdd
  <2> QED BY <2>2, <2>5, <2>6 DEF B, k
<1>5. StatsOf(r, with({})) = zero
  <2>1. with({}) = {}
    OBVIOUS
  <2> QED BY <2>1, StatsOfNone DEF Zero
<1>6. h = [s \in SUBSET (DOMAIN parts) |-> Step(h, s)]
  <2>1. ASSUME NEW s \in SUBSET S PROVE h[s] = Step(h, s)
    <3>1. CASE s = {}
      <4>1. h[s] = StatsOf(r, with({}))
        BY <3>1
      <4> HIDE DEF h, with
      <4> QED BY <1>5, <3>1, <4>1
    <3>2. CASE s # {}
      <4>1. s \ {pick(s)} \in SUBSET S
        OBVIOUS
      <4>2. h[s] = StatsOf(r, with(s)) /\ h[s \ {pick(s)}] = StatsOf(r, with(s \ {pick(s)}))
        BY <4>1
      <4> HIDE DEF h, with, pick, parts
      <4> QED BY <1>4, <3>2, <4>2
    <3> QED BY <3>1, <3>2
  <2>2. h = [s \in SUBSET S |-> h[s]]
    OBVIOUS
  <2> HIDE DEF h, Step, parts, S
  <2> QED BY <1>2, <2>1, <2>2
<1>7. F = [s \in SUBSET (DOMAIN parts) |-> Step(F, s)]
  <2> HIDE DEF h, Step, parts
  <2> QED BY <1>6
<1> HIDE DEF F
<1>8. IsFiniteSet(S)
  <2>1. key \in Surjection(C, S) \/ [i \in C |-> key[i]] \in Surjection(C, S)
    BY DEF Surjection
  <2> QED BY <2>1, FS_Surjection
<1> DEFINE T == {n \in Nat : \A s \in SUBSET S : Cardinality(s) = n => F[s] = h[s]}
<1>9. \A s \in SUBSET S : IsFiniteSet(s) /\ Cardinality(s) \in Nat
  BY <1>8, FS_Subset, FS_CardinalityType
<1>10. 0 \in T
  <2>1. ASSUME NEW s \in SUBSET S, Cardinality(s) = 0 PROVE F[s] = h[s]
    <3>1. s = {}
      BY <1>9, <2>1, FS_EmptySet
    <3>2. F[s] = Step(F, s) /\ h[s] = Step(h, s)
      <4> HIDE DEF Step, parts, S, h
      <4> QED BY <1>2, <1>6, <1>7
    <3> HIDE DEF h
    <3> QED BY <3>1, <3>2
  <2> QED BY <2>1
<1>11. ASSUME NEW n \in Nat, n \in T PROVE n + 1 \in T
  <2>1. ASSUME NEW s \in SUBSET S, Cardinality(s) = n + 1 PROVE F[s] = h[s]
    <3>1. s # {}
      BY <2>1, FS_EmptySet
    <3>2. s \ {pick(s)} \in SUBSET S /\ pick(s) \in s
      BY <3>1
    <3>3. Cardinality(s \ {pick(s)}) = n
      <4> HIDE DEF pick
      <4> QED BY <1>9, <2>1, <3>2, FS_RemoveElement
    <3>4. F[s \ {pick(s)}] = h[s \ {pick(s)}]
      <4> HIDE DEF pick, h
      <4> QED BY <1>11, <3>2, <3>3
    <3>5. F[s] = Step(F, s) /\ h[s] = Step(h, s)
      <4> HIDE DEF Step, parts, S, h
      <4> QED BY <1>2, <1>6, <1>7
    <3>6. F[s] = Plus(parts[pick(s)], F[s \ {pick(s)}])
      <4> HIDE DEF h, pick, parts, S, zero
      <4> QED BY <3>1, <3>5
    <3>7. h[s] = Plus(parts[pick(s)], h[s \ {pick(s)}])
      <4> HIDE DEF h, pick, parts, S, zero
      <4> QED BY <3>1, <3>5
    <3> HIDE DEF h, pick, parts, S
    <3> QED BY <3>4, <3>6, <3>7
  <2> HIDE DEF h, S
  <2> QED BY <2>1
<1>12. F[S] = h[S]
  <2>1. Cardinality(S) \in T
    <3> HIDE DEF T
    <3> QED BY <1>9, <1>10, <1>11, SetInduction
  <2> QED BY <2>1
<1>13. h[S] = StatsOf(r, C)
  <2>1. with(S) = C
    OBVIOUS
  <2>2. h[S] = StatsOf(r, with(S))
    <3> HIDE DEF with, S
    <3> QED OBVIOUS
  <2> HIDE DEF h, S, with
  <2> QED BY <2>1, <2>2
<1>14. AddsUp(parts, StatsOf(r, C))
  <2> HIDE DEF h, S, parts
  <2> QED BY <1>1, <1>2, <1>12, <1>13
<1> QED BY <1>14

\* A report of any sequence of results, and the one main starts with, is
\* consistent in itself.
Sound(q) == /\ AddsUp(q.byPriority, q.overall)
            /\ AddsUp(q.byTeam, q.overall)
            /\ q.overall.total = q.overall.completed + q.overall.expired

\* Report makes sound reports.
LEMMA ReportSound ==
  ASSUME NEW s, IsFiniteSet(DOMAIN s)
  PROVE  /\ Sound(Report(s))
         /\ Report(s).overall =
              [total |-> Number(s, DOMAIN s, {"Completed"}) + Number(s, DOMAIN s, {"Expired"}),
               completed |-> Number(s, DOMAIN s, {"Completed"}),
               expired |-> Number(s, DOMAIN s, {"Expired"})]
<1> DEFINE C == {i \in DOMAIN s : Closed(s[i])}
           prio == [i \in C |-> PriorityOf[s[i].ev]]
           team == [i \in C |-> Team(s[i].ev)]
<1>1. IsFiniteSet(C)
  BY FS_Subset
<1>2. /\ Report(s).overall = StatsOf(s, C)
      /\ Report(s).byPriority = Breakdown(s, C, prio)
      /\ Report(s).byTeam = Breakdown(s, C, team)
  BY DEF Report
<1>3. /\ Number(s, C, {"Completed"}) = Number(s, DOMAIN s, {"Completed"})
      /\ Number(s, C, {"Expired"}) = Number(s, DOMAIN s, {"Expired"})
  <2>1. /\ {i \in C : s[i].status \in {"Completed"}} = {i \in DOMAIN s : s[i].status \in {"Completed"}}
        /\ {i \in C : s[i].status \in {"Expired"}} = {i \in DOMAIN s : s[i].status \in {"Expired"}}
    BY DEF Closed
  <2> HIDE DEF C
  <2> QED BY <2>1 DEF Number
<1>4. DOMAIN prio = C /\ DOMAIN team = C
  OBVIOUS
<1> HIDE DEF C, prio, team
<1>5. AddsUp(Breakdown(s, C, prio), StatsOf(s, C)) /\ AddsUp(Breakdown(s, C, team), StatsOf(s, C))
  BY <1>1, <1>4, BreakdownAddsUp
<1>6. /\ StatsOf(s, C).completed = Number(s, DOMAIN s, {"Completed"})
      /\ StatsOf(s, C).expired = Number(s, DOMAIN s, {"Expired"})
      /\ StatsOf(s, C).total =
           Number(s, DOMAIN s, {"Completed"}) + Number(s, DOMAIN s, {"Expired"})
      /\ StatsOf(s, C) = [total |-> Number(s, C, {"Completed", "Expired"}),
                          completed |-> Number(s, C, {"Completed"}),
                          expired |-> Number(s, C, {"Expired"})]
  BY <1>1, <1>3, StatusesAdd, StatsFields
<1>7. Number(s, C, {"Completed", "Expired"}) =
        Number(s, DOMAIN s, {"Completed"}) + Number(s, DOMAIN s, {"Expired"})
  BY <1>1, <1>3, StatusesAdd
<1>8. Sound(Report(s))
  BY <1>2, <1>5, <1>6 DEF Sound
<1> QED BY <1>2, <1>3, <1>6, <1>7, <1>8

\* The report main starts with is the report of no results.
LEMMA NoReportSound == Sound(NoReport)
<1> DEFINE none == [i \in {} |-> 0]
           b == Breakdown(<<>>, {}, none)
<1>1. AddsUp(b, Zero)
  <2>1. IsFiniteSet({}) /\ DOMAIN none = {}
    BY FS_EmptySet
  <2> HIDE DEF none
  <2>2. AddsUp(b, StatsOf(<<>>, {}))
    BY <2>1, BreakdownAddsUp
  <2> HIDE DEF b
  <2> QED BY <2>2, StatsOfNone
<1>2. b = <<>>
  <2>1. DOMAIN b = {} /\ b = [k \in {} |-> b[k]]
    BY DEF Breakdown
  <2> HIDE DEF b
  <2>2. b \in [1..0 -> {}]
    BY <2>1
  <2>3. b \in Seq({}) /\ DOMAIN b = 1..0
    BY <2>1, <2>2
  <2> QED BY <2>3, EmptySeq
<1> HIDE DEF b
<1> QED BY <1>1, <1>2 DEF Sound, NoReport, Zero

-----------------------------------------------------------------------------
(* Types *)

\* What the tracker records is a message that parses.
Result == {m \in Message : m.form \in {"wrapped", "raw"}}

\* A sequence without its first element, and with one more at its end.
LEMMA QueueSteps ==
  ASSUME NEW S, NEW s \in Seq(S)
  PROVE  /\ s # <<>> => Head(s) \in S /\ Tail(s) \in Seq(S)
         /\ \A m \in S : Append(s, m) \in Seq(S)
         /\ \A n \in 0..Len(s) : SubSeq(s, 1, n) \in Seq(S)
<1>1. ASSUME NEW n \in 0..Len(s) PROVE SubSeq(s, 1, n) \in Seq(S)
  <2>1. Len(s) \in Nat /\ \A i \in 1..n : s[i] \in S
    BY LenProperties, ElementOfSeq
  <2> QED BY <2>1, SubSeqProperties
<1> QED BY <1>1, HeadTailProperties, AppendProperties

\* The initial state is well typed.
LEMMA TypeInit == Init => TypeOK
<1> SUFFICES ASSUME Init PROVE TypeOK
  OBVIOUS
<1>1. /\ up = TRUE /\ cancelled = FALSE /\ queueResults = <<>>
      /\ subscription = "none" /\ deliveries = <<>>
  BY DEF Init, Results!Init
<1>2. /\ published = <<>> /\ pc = "start" /\ events = <<>> /\ completed = 0 /\ expired = 0
      /\ main = "waiting" /\ beforeStop = 0
  BY DEF Init
<1>3. Len(<<>>) = 0 /\ \A S : <<>> \in Seq(S)
  OBVIOUS
<1>4. Results!TypeOK
  BY <1>1, <1>3 DEF Results!TypeOK
<1>5. beforeStop \in 0..Len(published)
  BY <1>2, <1>3
<1> QED BY <1>2, <1>3, <1>4, <1>5 DEF TypeOK

\* Recording a result keeps the types.
LEMMA RecordTyped ==
  ASSUME TypeOK, NEW m \in Result, Record(m)
  PROVE  events' \in Seq(Result) /\ completed' \in Nat /\ expired' \in Nat
<1>1. events \in Seq(Result) /\ completed \in Nat /\ expired \in Nat
  BY DEF TypeOK, Result
<1>2. events' \in Seq(Result)
  BY <1>1, QueueSteps DEF Record
<1>3. CASE m.status = "Completed"
  BY <1>1, <1>2, <1>3 DEF Record
<1>4. CASE m.status # "Completed"
  BY <1>1, <1>2, <1>4 DEF Record
<1> QED BY <1>3, <1>4

\* Every step keeps the types.
LEMMA TypeStep ==
  ASSUME TypeOK, [Next]_vars
  PROVE  TypeOK'
<1>0. /\ up \in BOOLEAN /\ cancelled \in BOOLEAN
      /\ queueResults \in Seq(Message) /\ deliveries \in Seq(Message)
      /\ subscription \in {"none", "open", "closed"}
      /\ published \in Seq(Message) /\ Len(published) \in Nat
      /\ pc \in {"start", "select", "returned"}
      /\ events \in Seq(Result) /\ completed \in Nat /\ expired \in Nat
      /\ main \in {"waiting", "finalizing", "reported"}
      /\ beforeStop \in 0..Len(published)
  BY LenProperties DEF TypeOK, Results!TypeOK, Result
<1> DEFINE Client == Results!TypeOK'
           Rest == /\ pc' \in {"start", "select", "returned"}
                   /\ events' \in Seq(Result) /\ completed' \in Nat /\ expired' \in Nat
                   /\ main' \in {"waiting", "finalizing", "reported"}
           Out == /\ published' \in Seq(Message)
                  /\ beforeStop' \in 0..Len(published')
<1>a. SUFFICES Client /\ Rest /\ Out
  BY DEF TypeOK, Result
<1> USE DEF consumerVars, trackerVars, mainVars
<1>1. ASSUME NEW m \in Message, PublishResult(m) PROVE Client /\ Rest /\ Out
  <2>1. /\ queueResults' \in Seq(Message) /\ published' \in Seq(Message)
        /\ Len(published') = Len(published) + 1
    BY <1>0, <1>1, QueueSteps, AppendProperties DEF PublishResult, Results!Enqueue
  <2>2. Client
    BY <1>0, <1>1, <2>1 DEF PublishResult, Results!Enqueue, Results!TypeOK
  <2>3. Rest /\ beforeStop' = beforeStop
    BY <1>0, <1>1 DEF PublishResult
  <2> QED BY <1>0, <2>1, <2>2, <2>3
<1>2. ASSUME UNCHANGED <<published, beforeStop>> PROVE Out
  BY <1>0, <1>2
<1>3. ASSUME UNCHANGED <<pc, trackerVars, main>> PROVE Rest
  BY <1>0, <1>3
<1>4. CASE Deliver
  <2>1. queueResults' \in Seq(Message) /\ deliveries' \in Seq(Message)
    BY <1>0, <1>4, QueueSteps DEF Deliver, Results!Deliver
  <2>2. Client
    BY <1>0, <1>4, <2>1 DEF Deliver, Results!Deliver, Results!TypeOK
  <2> HIDE DEF Client, Rest, Out
  <2> QED BY <1>2, <1>3, <1>4, <2>2 DEF Deliver
<1>5. CASE ConsumerCloses
  <2>1. deliveries' \in Seq(Message)
    BY <1>0, <1>5, QueueSteps DEF ConsumerCloses, Results!Close
  <2>2. Client
    BY <1>0, <1>5, <2>1 DEF ConsumerCloses, Results!Close, Results!TypeOK
  <2> HIDE DEF Client, Rest, Out
  <2> QED BY <1>2, <1>3, <1>5, <2>2 DEF ConsumerCloses
<1>6. CASE Disconnect
  <2>2. Client
    BY <1>0, <1>6 DEF Disconnect, Results!Disconnect, Results!TypeOK
  <2> HIDE DEF Client, Rest, Out
  <2> QED BY <1>2, <1>3, <1>6, <2>2 DEF Disconnect
<1>7. CASE Start
  <2>1. Client
    BY <1>0, <1>7 DEF Start, Results!Subscribe, Results!TypeOK
  <2>2. Rest /\ Out
    BY <1>0, <1>7 DEF Start
  <2> QED BY <2>1, <2>2
<1>8. CASE RecvDone \/ RecvClosed
  <2>1. Return
    BY <1>8 DEF RecvDone, RecvClosed
  <2>2. deliveries' \in Seq(Message)
    BY <2>1 DEF Return, Results!Leave
  <2>3. Client
    BY <1>0, <2>1, <2>2 DEF Return, Results!Leave, Results!TypeOK
  <2>4. Rest /\ Out
    BY <1>0, <2>1 DEF Return
  <2> QED BY <2>3, <2>4
<1>9. CASE RecvDelivery
  <2>1. Head(deliveries) \in Message /\ deliveries' \in Seq(Message)
    BY <1>0, <1>9, QueueSteps DEF RecvDelivery, Results!Read
  <2>2. Client
    BY <1>0, <1>9, <2>1 DEF RecvDelivery, Results!Read, Results!TypeOK
  <2>3. events' \in Seq(Result) /\ completed' \in Nat /\ expired' \in Nat
    <3>1. CASE Parses(Head(deliveries))
      <4>1. Head(deliveries) \in Result
        BY <2>1, <3>1 DEF Parses, Result
      <4> QED BY <1>9, <3>1, <4>1, RecordTyped DEF RecvDelivery
    <3>2. CASE ~Parses(Head(deliveries))
      BY <1>0, <1>9, <3>2 DEF RecvDelivery
    <3> QED BY <3>1, <3>2
  <2>4. Rest
    BY <1>0, <1>9, <2>3 DEF RecvDelivery
  <2>5. Out
    BY <1>0, <1>9 DEF RecvDelivery
  <2> QED BY <2>2, <2>4, <2>5
<1>10. CASE StopRun
  <2>1. Client
    BY <1>0, <1>10 DEF StopRun, Results!Cancel, Results!TypeOK
  <2>2. Rest /\ Out
    BY <1>0, <1>10 DEF StopRun
  <2> QED BY <2>1, <2>2
<1>11. CASE TakeReport
  <2>1. Client
    BY <1>0, <1>11 DEF TakeReport, Results!TypeOK
  <2>2. Rest /\ Out
    BY <1>0, <1>11 DEF TakeReport
  <2> QED BY <2>1, <2>2
<1>12. CASE UNCHANGED vars
  <2>1. Client
    BY <1>0, <1>12 DEF vars, Results!TypeOK
  <2>2. Rest /\ Out
    BY <1>0, <1>12 DEF vars
  <2> QED BY <2>1, <2>2
<1> HIDE DEF Client, Rest, Out
<1> QED BY <1>1, <1>4, <1>5, <1>6, <1>7, <1>8, <1>9, <1>10, <1>11, <1>12 DEF Next, Consume

\* The types of StressTracker hold in every reachable state.
THEOREM TypeCorrect == Spec => []TypeOK
<1>1. TypeOK /\ [Next]_vars => TypeOK'
  BY TypeStep
<1> QED BY <1>1, TypeInit, PTL DEF Spec

-----------------------------------------------------------------------------
(* The report agrees with the counters *)

\* The two counters of Record count the recorded results of their status.
Counters ==
  /\ completed = Number(events, DOMAIN events, {"Completed"})
  /\ expired = Number(events, DOMAIN events, {"Expired"})

ReportInv == Counters /\ Sound(report)

\* One more result adds one to the numbers it has the status of.
LEMMA NumberAppend ==
  ASSUME NEW S, NEW s \in Seq(S), NEW m \in S, NEW X
  PROVE  /\ Number(Append(s, m), DOMAIN Append(s, m), X) =
              Number(s, DOMAIN s, X) + (IF m.status \in X THEN 1 ELSE 0)
         /\ Number(s, DOMAIN s, X) \in Nat
<1> DEFINE n == Len(s)
           t == Append(s, m)
           A == {i \in 1..n : s[i].status \in X}
<1>1. /\ n \in Nat /\ DOMAIN s = 1..n /\ DOMAIN t = 1..(n + 1)
      /\ \A i \in 1..n : t[i] = s[i]
      /\ t[n + 1] = m
  BY LenProperties, AppendProperties
<1> HIDE DEF n, t
<1>2. IsFiniteSet(A) /\ Cardinality(A) \in Nat
  <2>1. IsFiniteSet(1..n) /\ A \subseteq 1..n
    BY <1>1, FS_Interval
  <2> HIDE DEF A
  <2> QED BY <2>1, FS_Subset, FS_CardinalityType
<1>3. n + 1 \notin A /\ 1..(n + 1) = 1..n \cup {n + 1}
  BY <1>1
<1>4. Number(s, DOMAIN s, X) = Cardinality(A)
  BY <1>1 DEF Number
<1>5. CASE m.status \in X
  <2>1. {i \in 1..(n + 1) : t[i].status \in X} = A \cup {n + 1}
    BY <1>1, <1>3, <1>5
  <2>2. Cardinality(A \cup {n + 1}) = Cardinality(A) + 1
    BY <1>2, <1>3, FS_AddElement
  <2>3. Number(t, DOMAIN t, X) = Cardinality(A \cup {n + 1})
    BY <1>1, <2>1 DEF Number
  <2> HIDE DEF A, Number
  <2> QED BY <1>2, <1>4, <1>5, <2>2, <2>3 DEF t
<1>6. CASE m.status \notin X
  <2>1. {i \in 1..(n + 1) : t[i].status \in X} = A
    BY <1>1, <1>3, <1>6
  <2>2. Number(t, DOMAIN t, X) = Cardinality(A)
    BY <1>1, <2>1 DEF Number
  <2> HIDE DEF A, Number
  <2> QED BY <1>2, <1>4, <1>6, <2>2 DEF t
<1> QED BY <1>5, <1>6

\* No result has been counted before one is recorded.
LEMMA ReportInit == Init => ReportInv
<1> SUFFICES ASSUME Init PROVE ReportInv
  OBVIOUS
<1>1. events = <<>> /\ completed = 0 /\ expired = 0 /\ report = NoReport
  BY DEF Init
<1>2. \A X : Number(<<>>, DOMAIN <<>>, X) = 0
  <2>1. \A X : {i \in DOMAIN <<>> : <<>>[i].status \in X} = {}
    OBVIOUS
  <2>2. Cardinality({}) = 0
    BY FS_EmptySet
  <2> QED BY <2>1, <2>2 DEF Number
<1> HIDE DEF Number
<1> QED BY <1>1, <1>2, NoReportSound DEF ReportInv, Counters

\* Every step keeps the counters at the number of the recorded results.
LEMMA ReportStep ==
  ASSUME TypeOK, ReportInv, [Next]_vars
  PROVE  ReportInv'
<1> USE DEF consumerVars, trackerVars, mainVars
<1>1. events \in Seq(Result) /\ IsFiniteSet(DOMAIN events)
  <2>1. events \in Seq(Result) /\ Len(events) \in Nat /\ DOMAIN events = 1..Len(events)
    BY LenProperties DEF TypeOK, Result
  <2> QED BY <2>1, FS_Interval
<1>2. ASSUME UNCHANGED <<trackerVars, report>> PROVE ReportInv'
  BY <1>2 DEF ReportInv, Counters
<1>3. CASE RecvDelivery
  <2> DEFINE m == Head(deliveries)
  <2>1. CASE Parses(m)
    <3>1. deliveries \in Seq(Message) /\ deliveries # <<>>
      BY <1>3 DEF RecvDelivery, Results!Read, TypeOK, Results!TypeOK
    <3>2. m \in Message
      BY <3>1, HeadTailProperties
    <3>3. m \in Result
      BY <2>1, <3>2 DEF Parses, Result
    <3>4. Record(m) /\ report' = report
      BY <1>3, <2>1 DEF RecvDelivery
    <3> HIDE DEF m
    <3>5. \A X : Number(events', DOMAIN events', X) =
                   Number(events, DOMAIN events, X) + (IF m.status \in X THEN 1 ELSE 0)
      BY <1>1, <3>3, <3>4, NumberAppend DEF Record
    <3>6. /\ completed' = completed + (IF m.status = "Completed" THEN 1 ELSE 0)
          /\ expired' = expired + (IF m.status = "Expired" THEN 1 ELSE 0)
      BY <3>4 DEF Record
    <3>7. /\ m.status \in {"Completed"} <=> m.status = "Completed"
          /\ m.status \in {"Expired"} <=> m.status = "Expired"
      OBVIOUS
    <3>8. Counters'
      <4>1. completed' = Number(events', DOMAIN events', {"Completed"})
        BY <3>5, <3>6, <3>7 DEF ReportInv, Counters
      <4>2. expired' = Number(events', DOMAIN events', {"Expired"})
        BY <3>5, <3>6, <3>7 DEF ReportInv, Counters
      <4> QED BY <4>1, <4>2 DEF Counters
    <3> QED BY <3>4, <3>8 DEF ReportInv
  <2>2. CASE ~Parses(m)
    BY <1>2, <1>3, <2>2 DEF RecvDelivery
  <2> QED BY <2>1, <2>2
<1>4. CASE TakeReport
  <2>1. report' = Report(events) /\ UNCHANGED trackerVars
    BY <1>4 DEF TakeReport
  <2>2. Sound(Report(events))
    BY <1>1, ReportSound
  <2> QED BY <2>1, <2>2 DEF ReportInv, Counters
<1>5. ASSUME NEW m \in Message, PublishResult(m) PROVE ReportInv'
  BY <1>2, <1>5 DEF PublishResult
<1>6. CASE Deliver \/ ConsumerCloses \/ Disconnect
  BY <1>2, <1>6 DEF Deliver, ConsumerCloses, Disconnect
<1>7. CASE Start
  BY <1>2, <1>7 DEF Start
<1>8. CASE RecvDone \/ RecvClosed
  BY <1>2, <1>8 DEF RecvDone, RecvClosed, Return
<1>9. CASE StopRun
  BY <1>2, <1>9 DEF StopRun
<1>10. CASE UNCHANGED vars
  BY <1>2, <1>10 DEF vars
<1> QED BY <1>3, <1>4, <1>5, <1>6, <1>7, <1>8, <1>9, <1>10 DEF Next, Consume

\* StressLevel and Report never disagree, and both breakdowns of every report
\* add up to its overall figures, however many results of whatever form and
\* status were recorded.
THEOREM ReportTrue == Spec => []ReportAgrees
<1>1. TypeOK /\ ReportInv /\ [Next]_vars => (TypeOK /\ ReportInv)'
  BY TypeStep, ReportStep
<1>2. TypeOK /\ ReportInv => ReportAgrees
  <2> SUFFICES ASSUME TypeOK, ReportInv PROVE ReportAgrees
    OBVIOUS
  <2>1. IsFiniteSet(DOMAIN events)
    <3>1. Len(events) \in Nat /\ DOMAIN events = 1..Len(events)
      BY LenProperties DEF TypeOK
    <3> QED BY <3>1, FS_Interval
  <2>2. /\ Sound(Report(events)) /\ Sound(report)
        /\ Report(events).overall =
             [total |-> completed + expired, completed |-> completed, expired |-> expired]
    BY <2>1, ReportSound DEF ReportInv, Counters
  <2> QED BY <2>2 DEF ReportAgrees, Sound
<1> QED BY <1>1, <1>2, TypeInit, ReportInit, PTL DEF Spec

-----------------------------------------------------------------------------
(* The order of what is recorded *)

\* A sequence holds the elements of another one that follow the first n.
Window(s, n, pub) == /\ n + Len(s) <= Len(pub)
                     /\ \A k \in 1..Len(s) : s[k] = pub[n + k]

\* A window moves on as its first element is taken.
LEMMA WindowTail ==
  ASSUME NEW S, NEW s \in Seq(S), s # <<>>, NEW n \in Nat, NEW pub \in Seq(S), Window(s, n, pub)
  PROVE  /\ Len(Tail(s)) = Len(s) - 1 /\ Len(s) \in Nat
         /\ Window(Tail(s), n + 1, pub)
         /\ Head(s) = pub[n + 1] /\ n + 1 <= Len(pub)
<1>1. /\ Len(s) \in Nat \ {0} /\ Head(s) = s[1] /\ Tail(s) \in Seq(S)
      /\ Len(Tail(s)) = Len(s) - 1
      /\ \A i \in 1..Len(Tail(s)) : Tail(s)[i] = s[i + 1]
      /\ Len(pub) \in Nat
  BY EmptySeq, HeadTailProperties, LenProperties
<1> DEFINE t == Tail(s)
           l == Len(t)
           h == Head(s)
<1> HIDE DEF t, h
<1>2. l \in Nat /\ Len(s) = l + 1 /\ \A i \in 1..l : t[i] = s[i + 1]
  BY <1>1 DEF t
<1>3. n + (l + 1) <= Len(pub) /\ \A k \in 1..(l + 1) : s[k] = pub[n + k]
  BY <1>2 DEF Window
<1> HIDE DEF l
<1>4. \A i \in 1..l : i + 1 \in 1..(l + 1) /\ n + (i + 1) = (n + 1) + i
  BY <1>2
<1>5. \A i \in 1..l : t[i] = pub[(n + 1) + i]
  BY <1>2, <1>3, <1>4
<1>6. 1 \in 1..(l + 1) /\ n + 1 + l <= Len(pub) /\ n + 1 <= Len(pub)
  BY <1>1, <1>2, <1>3
<1>7. Window(t, n + 1, pub)
  BY <1>5, <1>6 DEF Window, l
<1>8. h = pub[n + 1]
  BY <1>1, <1>3, <1>6 DEF h
<1> QED BY <1>1, <1>6, <1>7, <1>8 DEF t, h

\* A window grows by the element that follows it.
LEMMA WindowAppend ==
  ASSUME NEW S, NEW s \in Seq(S), NEW n \in Nat, NEW pub \in Seq(S), NEW e \in S,
         n + Len(s) + 1 <= Len(pub), e = pub[n + Len(s) + 1],
         \A k \in 1..Len(s) : s[k] = pub[n + k]
  PROVE  Window(Append(s, e), n, pub) /\ Len(Append(s, e)) = Len(s) + 1
<1> DEFINE t == Append(s, e)
           l == Len(s)
<1>1. /\ l \in Nat /\ Len(t) = l + 1
      /\ \A i \in 1..l : t[i] = s[i]
      /\ t[l + 1] = e
  BY AppendProperties, LenProperties
<1>2. \A k \in 1..l : s[k] = pub[n + k]
  OBVIOUS
<1>3. e = pub[n + (l + 1)] /\ n + (l + 1) <= Len(pub)
  <2>1. n + Len(s) + 1 = n + (l + 1)
    BY <1>1
  <2> HIDE DEF l
  <2> QED BY <2>1
<1> HIDE DEF t, l
<1>4. ASSUME NEW k \in 1..(l + 1) PROVE t[k] = pub[n + k]
  <2>1. CASE k = l + 1
    BY <1>1, <1>3, <2>1
  <2>2. CASE k # l + 1
    <3>1. k \in 1..l
      BY <1>1, <2>2
    <3> QED BY <1>1, <1>2, <3>1
  <2> QED BY <2>1, <2>2
<1>5. Window(t, n, pub)
  BY <1>1, <1>3, <1>4 DEF Window
<1> QED BY <1>1, <1>5 DEF t, l

\* What is left of a window when its end is dropped is a window.
LEMMA WindowPrefix ==
  ASSUME NEW S, NEW s \in Seq(S), NEW n \in Nat, NEW pub \in Seq(S), Window(s, n, pub),
         NEW j \in 0..Len(s)
  PROVE  Window(SubSeq(s, 1, j), n, pub) /\ Len(SubSeq(s, 1, j)) = j /\ j <= Len(s)
<1>1. Len(s) \in Nat /\ Len(pub) \in Nat
  BY LenProperties
<1>2. SubSeq(s, 1, j) = [k \in 1..j |-> s[k]] /\ Len(SubSeq(s, 1, j)) = j
  BY <1>1
<1> DEFINE t == SubSeq(s, 1, j)
<1> HIDE DEF t
<1>3. n + j <= Len(pub) /\ \A k \in 1..j : t[k] = pub[n + k]
  BY <1>1, <1>2 DEF Window, t
<1>4. Len(t) = j
  BY <1>2 DEF t
<1>5. Window(t, n, pub)
  BY <1>3, <1>4 DEF Window
<1> QED BY <1>1, <1>4, <1>5 DEF t

\* A window stays one when more is published.
LEMMA WindowStays ==
  ASSUME NEW S, NEW s \in Seq(S), NEW n \in Nat, NEW pub \in Seq(S), NEW m \in S,
         Window(s, n, pub)
  PROVE  Window(s, n, Append(pub, m)) /\ Len(Append(pub, m)) = Len(pub) + 1
<1> DEFINE new == Append(pub, m)
           l == Len(s)
<1>1. /\ l \in Nat /\ Len(pub) \in Nat /\ Len(new) = Len(pub) + 1
      /\ \A i \in 1..Len(pub) : new[i] = pub[i]
  BY AppendProperties, LenProperties
<1>2. n + l <= Len(pub) /\ \A k \in 1..l : s[k] = pub[n + k]
  BY DEF Window
<1> HIDE DEF new, l
<1>3. \A k \in 1..l : n + k \in 1..Len(pub)
  BY <1>1, <1>2
<1>4. n + l <= Len(new) /\ \A k \in 1..l : s[k] = new[n + k]
  BY <1>1, <1>2, <1>3
<1>5. Window(s, n, new)
  BY <1>4 DEF Window, l
<1> QED BY <1>1, <1>5 DEF new

\* at says where the recorded messages were published: they are, in order,
\* the messages that parse among the first n.
Recorded(at, n, evs, pub) ==
  /\ n \in 0..Len(pub)
  /\ at \in [DOMAIN evs -> DOMAIN pub]
  /\ \A i, j \in DOMAIN evs : i < j => at[i] < at[j]
  /\ \A i \in DOMAIN evs : evs[i] = pub[at[i]]
  /\ Range(at) = {k \in 1..n : Parses(pub[k])}

\* What was recorded stays in place when more is published.
LEMMA RecordedStays ==
  ASSUME NEW S, NEW pub \in Seq(S), NEW m \in S, NEW at, NEW n, NEW evs, Recorded(at, n, evs, pub)
  PROVE  Recorded(at, n, evs, Append(pub, m))
<1> DEFINE new == Append(pub, m)
<1>1. /\ Len(pub) \in Nat /\ Len(new) = Len(pub) + 1
      /\ DOMAIN pub = 1..Len(pub) /\ DOMAIN new = 1..(Len(pub) + 1)
      /\ \A i \in 1..Len(pub) : new[i] = pub[i]
  BY AppendProperties, LenProperties
<1> HIDE DEF new
<1>2. n \in 0..Len(new) /\ \A k \in 1..n : k \in 1..Len(pub) /\ new[k] = pub[k]
  BY <1>1 DEF Recorded
<1>3. at \in [DOMAIN evs -> DOMAIN new] /\ \A i \in DOMAIN evs : evs[i] = new[at[i]]
  BY <1>1 DEF Recorded
<1>4. {k \in 1..n : Parses(new[k])} = {k \in 1..n : Parses(pub[k])}
  BY <1>2
<1> QED BY <1>2, <1>3, <1>4 DEF Recorded, new

\* A message that does not parse is read and not recorded.
LEMMA RecordedSkips ==
  ASSUME NEW S, NEW pub \in Seq(S), NEW at, NEW n, NEW evs, Recorded(at, n, evs, pub),
         n + 1 <= Len(pub), ~Parses(pub[n + 1])
  PROVE  Recorded(at, n + 1, evs, pub)
<1>1. n \in Nat /\ n + 1 \in 0..Len(pub)
  BY LenProperties DEF Recorded
<1>2. 1..(n + 1) = 1..n \cup {n + 1}
  BY <1>1
<1>3. {k \in 1..(n + 1) : Parses(pub[k])} = {k \in 1..n : Parses(pub[k])}
  BY <1>2
<1> QED BY <1>1, <1>3 DEF Recorded

\* A message that parses is recorded after all that were read before it.
LEMMA RecordedGrows ==
  ASSUME NEW S, NEW pub \in Seq(S), NEW T, NEW evs \in Seq(T), NEW at, NEW n,
         Recorded(at, n, evs, pub), n + 1 <= Len(pub), Parses(pub[n + 1]), pub[n + 1] \in T
  PROVE  \E new : Recorded(new, n + 1, Append(evs, pub[n + 1]), pub)
<1> DEFINE e == pub[n + 1]
           l == Len(evs)
           all == Append(evs, e)
           new == [i \in 1..(l + 1) |-> IF i = l + 1 THEN n + 1 ELSE at[i]]
<1>1. /\ l \in Nat /\ DOMAIN evs = 1..l /\ DOMAIN all = 1..(l + 1)
      /\ \A i \in 1..l : all[i] = evs[i]
      /\ all[l + 1] = e
  BY AppendProperties, LenProperties
<1>2. n \in Nat /\ n + 1 \in 0..Len(pub) /\ n + 1 \in DOMAIN pub /\ DOMAIN pub \subseteq Nat
  BY LenProperties DEF Recorded
<1>3. /\ at \in [1..l -> DOMAIN pub]
      /\ \A i, j \in 1..l : i < j => at[i] < at[j]
      /\ \A i \in 1..l : evs[i] = pub[at[i]]
      /\ {at[i] : i \in 1..l} = {k \in 1..n : Parses(pub[k])}
  BY <1>1 DEF Recorded, Range
<1> HIDE DEF l, all, e
<1>4. /\ DOMAIN new = 1..(l + 1) /\ new[l + 1] = n + 1
      /\ \A i \in 1..l : new[i] = at[i] /\ i \in 1..(l + 1)
      /\ \A i \in 1..(l + 1) : i = l + 1 \/ i \in 1..l
      /\ l + 1 \in 1..(l + 1)
  BY <1>1
<1>4a. new = [i \in 1..(l + 1) |-> new[i]]
  OBVIOUS
<1> HIDE DEF new
<1>5. new \in [1..(l + 1) -> DOMAIN pub]
  <2>1. \A i \in 1..(l + 1) : new[i] \in DOMAIN pub
    BY <1>2, <1>3, <1>4
  <2> QED BY <1>4a, <2>1
<1>6. \A i \in 1..l : at[i] \in 1..n
  BY <1>3
<1>7. ASSUME NEW i \in 1..(l + 1), NEW j \in 1..(l + 1), i < j PROVE new[i] < new[j]
  <2>1. i \in 1..l
    BY <1>1, <1>4, <1>7
  <2>2. CASE j \in 1..l
    BY <1>3, <1>4, <1>7, <2>1, <2>2
  <2>3. CASE j = l + 1
    BY <1>2, <1>4, <1>6, <2>1, <2>3
  <2> QED BY <1>4, <2>2, <2>3
<1>8. \A i \in 1..(l + 1) : all[i] = pub[new[i]]
  BY <1>1, <1>3, <1>4 DEF e
<1>9. Range(new) = {k \in 1..(n + 1) : Parses(pub[k])}
  <2>1. 1..(n + 1) = 1..n \cup {n + 1}
    BY <1>2
  <2>2. {k \in 1..(n + 1) : Parses(pub[k])} = {k \in 1..n : Parses(pub[k])} \cup {n + 1}
    BY <2>1
  <2>3. Range(new) = {at[i] : i \in 1..l} \cup {n + 1}
    BY <1>4 DEF Range
  <2> QED BY <1>3, <2>2, <2>3
<1>10. Recorded(new, n + 1, all, pub)
  BY <1>1, <1>2, <1>5, <1>7, <1>8, <1>9 DEF Recorded
<1> QED BY <1>10 DEF all, e

-----------------------------------------------------------------------------
\* Where the n messages that the tracker has read and the messages that wait
\* are among the published ones: only what is lost at the end of the
\* subscription is neither.
Waiting(n) ==
  LET gone == Len(published) - Len(queueResults) IN
  /\ n \in Nat /\ gone \in Nat
  /\ n + Len(deliveries) <= gone
  /\ subscription # "closed" => n + Len(deliveries) = gone
  /\ Window(deliveries, n, published)
  /\ Window(queueResults, gone, published)

OrderInv ==
  /\ subscription = "closed" => cancelled \/ ~up
  /\ \E n, at : Waiting(n) /\ Recorded(at, n, events, published)

\* Nothing has been read or recorded in the initial state.
LEMMA OrderInit == Init => OrderInv
<1> SUFFICES ASSUME Init PROVE OrderInv
  OBVIOUS
<1>1. /\ queueResults = <<>> /\ subscription = "none" /\ deliveries = <<>>
      /\ published = <<>> /\ events = <<>>
  BY DEF Init, Results!Init
<1>2. Len(<<>>) = 0 /\ DOMAIN <<>> = {} /\ 1..0 = {}
  OBVIOUS
<1>3. Waiting(0)
  BY <1>1, <1>2 DEF Waiting, Window
<1>4. Recorded(<<>>, 0, <<>>, <<>>)
  BY <1>2 DEF Recorded, Range
<1> QED BY <1>1, <1>3, <1>4 DEF OrderInv

\* Every step keeps the order: one message moves on at a time, and the end of
\* a subscription only drops deliveries.
LEMMA OrderStep ==
  ASSUME TypeOK, OrderInv, [Next]_vars
  PROVE  OrderInv'
<1> USE DEF consumerVars, trackerVars, mainVars
<1>0. /\ queueResults \in Seq(Message) /\ deliveries \in Seq(Message)
      /\ published \in Seq(Message) /\ Len(published) \in Nat
      /\ events \in Seq(Result)
      /\ Len(deliveries) \in Nat /\ Len(queueResults) \in Nat
  BY LenProperties DEF TypeOK, Results!TypeOK, Result
<1>1. PICK n, at : Waiting(n) /\ Recorded(at, n, events, published)
  BY DEF OrderInv
<1> DEFINE gone == Len(published) - Len(queueResults)
<1>2. /\ n \in Nat /\ gone \in Nat /\ n + Len(deliveries) <= gone
      /\ subscription # "closed" => n + Len(deliveries) = gone
      /\ Window(deliveries, n, published)
      /\ Window(queueResults, gone, published)
  BY <1>1 DEF Waiting
<1>3. subscription = "closed" => cancelled \/ ~up
  BY DEF OrderInv
<1> HIDE DEF gone
<1>4. ASSUME UNCHANGED <<queueResults, deliveries, published, events, subscription>>,
             subscription' = "closed" => cancelled' \/ ~up'
      PROVE  OrderInv'
  BY <1>1, <1>4 DEF OrderInv, Waiting
<1>5. ASSUME NEW m \in Message, PublishResult(m) PROVE OrderInv'
  <2>1. /\ queueResults' = Append(queueResults, m) /\ published' = Append(published, m)
        /\ UNCHANGED <<up, cancelled, subscription, deliveries, events>>
    BY <1>5 DEF PublishResult, Results!Enqueue
  <2>2. Len(queueResults') = Len(queueResults) + 1 /\ Len(published') = Len(published) + 1
    BY <1>0, <2>1, AppendProperties
  <2>3. Len(published') - Len(queueResults') = gone
    BY <1>0, <2>2 DEF gone
  <2>4. Window(deliveries, n, published')
    BY <1>0, <1>2, <2>1, WindowStays
  <2>5. Window(queueResults', gone, published')
    <3>1. Window(queueResults, gone, published')
      BY <1>0, <1>2, <2>1, WindowStays
    <3>2. published' \in Seq(Message) /\ published'[Len(published) + 1] = m
      BY <1>0, <2>1, AppendProperties
    <3>3. gone + Len(queueResults) + 1 = Len(published) + 1
      BY <1>0 DEF gone
    <3>4. /\ gone + Len(queueResults) + 1 <= Len(published')
          /\ m = published'[gone + Len(queueResults) + 1]
      <4>1. Len(published) + 1 <= Len(published')
        BY <1>0, <2>2
      <4> QED BY <3>2, <3>3, <4>1
    <3>5. \A k \in 1..Len(queueResults) : queueResults[k] = published'[gone + k]
      BY <3>1 DEF Window
    <3> QED BY <1>0, <1>2, <2>1, <3>2, <3>4, <3>5, WindowAppend
  <2>6. Waiting(n)'
    BY <1>2, <2>1, <2>3, <2>4, <2>5 DEF Waiting
  <2>7. Recorded(at, n, events, published')
    BY <1>0, <1>1, <2>1, RecordedStays
  <2> QED BY <1>3, <2>1, <2>6, <2>7 DEF OrderInv
<1>6. CASE Deliver
  <2>1. /\ subscription = "open" /\ queueResults # <<>>
        /\ deliveries' = Append(deliveries, Head(queueResults))
        /\ queueResults' = Tail(queueResults)
        /\ UNCHANGED <<up, cancelled, subscription, published, events>>
    BY <1>6 DEF Deliver, Results!Deliver
  <2>2. /\ Len(queueResults') = Len(queueResults) - 1
        /\ Window(queueResults', gone + 1, published)
        /\ Head(queueResults) = published[gone + 1] /\ gone + 1 <= Len(published)
        /\ Head(queueResults) \in Message
    BY <1>0, <1>2, <2>1, WindowTail, HeadTailProperties
  <2>3. Len(published) - Len(queueResults') = gone + 1
    BY <1>0, <2>2 DEF gone
  <2>4. n + Len(deliveries) = gone
    BY <1>2, <2>1
  <2>5. Window(deliveries', n, published) /\ Len(deliveries') = Len(deliveries) + 1
    <3>1. /\ n + Len(deliveries) + 1 <= Len(published)
          /\ Head(queueResults) = published[n + Len(deliveries) + 1]
      BY <2>2, <2>4
    <3>2. \A k \in 1..Len(deliveries) : deliveries[k] = published[n + k]
      BY <1>2 DEF Window
    <3> QED BY <1>0, <1>2, <2>1, <2>2, <3>1, <3>2, WindowAppend
  <2>6. n + Len(deliveries') = gone + 1 /\ gone + 1 \in Nat
    BY <1>0, <1>2, <2>4, <2>5
  <2>7. Waiting(n)'
    BY <1>2, <2>1, <2>2, <2>3, <2>5, <2>6 DEF Waiting
  <2> QED BY <1>1, <1>3, <2>1, <2>7 DEF OrderInv
<1>7. CASE ConsumerCloses
  <2>1. PICK j \in 0..Len(deliveries) : deliveries' = SubSeq(deliveries, 1, j)
    BY <1>7 DEF ConsumerCloses, Results!Close
  <2>2. /\ subscription' = "closed" /\ (cancelled \/ ~up)
        /\ UNCHANGED <<up, cancelled, queueResults, published, events>>
    BY <1>7 DEF ConsumerCloses, Results!Close
  <2>3. Window(deliveries', n, published) /\ Len(deliveries') = j /\ j <= Len(deliveries)
    BY <1>0, <1>2, <2>1, WindowPrefix
  <2>4. n + Len(deliveries') <= gone
    BY <1>0, <1>2, <2>1, <2>3
  <2>5. Waiting(n)'
    BY <1>2, <2>2, <2>3, <2>4 DEF Waiting, gone
  <2> QED BY <1>1, <2>2, <2>5 DEF OrderInv
<1>8. CASE Disconnect
  BY <1>3, <1>4, <1>8 DEF Disconnect, Results!Disconnect
<1>9. CASE Start
  <2>1. /\ UNCHANGED <<queueResults, deliveries, published, events, up, cancelled>>
        /\ \/ subscription = "none" /\ subscription' = "open"
           \/ subscription' = subscription
    BY <1>9 DEF Start, Results!Subscribe
  <2>2. Waiting(n)'
    BY <1>2, <2>1 DEF Waiting, gone
  <2> QED BY <1>1, <1>3, <2>1, <2>2 DEF OrderInv
<1>10. CASE RecvDone \/ RecvClosed
  <2>1. Return
    BY <1>10 DEF RecvDone, RecvClosed
  <2>2. /\ deliveries' = <<>> /\ subscription' = "closed"
        /\ UNCHANGED <<queueResults, published, events, up, cancelled>>
        /\ cancelled \/ Results!Ended
    BY <2>1 DEF Return, Results!Leave
  <2>3. cancelled \/ ~up
    BY <1>3, <2>2 DEF Results!Ended
  <2>4. Len(deliveries') = 0 /\ n + 0 <= gone /\ n + Len(deliveries') <= gone
    <3>1. Len(deliveries') = 0
      BY <2>2
    <3>2. n <= gone
      BY <1>0, <1>2
    <3> QED BY <1>2, <3>1, <3>2
  <2>5. Window(deliveries', n, published)
    <3>1. n <= Len(published)
      BY <1>0, <1>2 DEF gone
    <3>2. n + Len(deliveries') <= Len(published) /\ 1..Len(deliveries') = {}
      BY <1>2, <2>4, <3>1
    <3> QED BY <3>2 DEF Window
  <2>6. Waiting(n)'
    BY <1>2, <2>2, <2>4, <2>5 DEF Waiting, gone
  <2> QED BY <1>1, <2>2, <2>3, <2>6 DEF OrderInv
<1>11. CASE RecvDelivery
  <2> DEFINE m == Head(deliveries)
  <2>1. /\ deliveries # <<>> /\ deliveries' = Tail(deliveries)
        /\ UNCHANGED <<queueResults, published, up, cancelled, subscription>>
    BY <1>11 DEF RecvDelivery, Results!Read
  <2>2. /\ Len(deliveries') = Len(deliveries) - 1
        /\ Window(deliveries', n + 1, published)
        /\ m = published[n + 1] /\ n + 1 <= Len(published)
        /\ m \in Message
    BY <1>0, <1>2, <2>1, WindowTail, HeadTailProperties
  <2>3. n + 1 \in Nat /\ (n + 1) + Len(deliveries') = n + Len(deliveries)
    BY <1>0, <1>2, <2>2
  <2>4. Waiting(n + 1)'
    BY <1>2, <2>1, <2>2, <2>3 DEF Waiting, gone
  <2>5. \E new : Recorded(new, n + 1, events', published)
    <3>1. CASE Parses(m)
      <4>1. m \in Result /\ events' = Append(events, m)
        BY <1>11, <2>2, <3>1 DEF RecvDelivery, Record, Parses, Result
      <4> HIDE DEF m
      <4>2. \E new : Recorded(new, n + 1, Append(events, published[n + 1]), published)
        BY <1>0, <1>1, <2>2, <3>1, <4>1, RecordedGrows
      <4> QED BY <2>2, <4>1, <4>2
    <3>2. CASE ~Parses(m)
      <4>1. events' = events
        BY <1>11, <3>2 DEF RecvDelivery
      <4> HIDE DEF m
      <4>2. Recorded(at, n + 1, events, published)
        BY <1>0, <1>1, <2>2, <3>2, RecordedSkips
      <4> QED BY <4>1, <4>2
    <3> QED BY <3>1, <3>2
  <2> QED BY <1>3, <2>1, <2>4, <2>5 DEF OrderInv
<1>12. CASE StopRun
  BY <1>3, <1>4, <1>12 DEF StopRun, Results!Cancel
<1>13. CASE TakeReport
  BY <1>3, <1>4, <1>13 DEF TakeReport
<1>14. CASE UNCHANGED vars
  BY <1>3, <1>4, <1>14 DEF vars
<1> QED BY <1>5, <1>6, <1>7, <1>8, <1>9, <1>10, <1>11, <1>12, <1>13, <1>14 DEF Next, Consume

\* What the tracker records are messages that were published, in that order and
\* each once; while the run lasts it has recorded every event it has read and
\* the rest of the messages waits for it, for any number of messages.
THEOREM RecordedInOrder == Spec => []RecordsInOrder
<1>1. TypeOK /\ OrderInv /\ [Next]_vars => (TypeOK /\ OrderInv)'
  BY TypeStep, OrderStep
<1>2. TypeOK /\ OrderInv => RecordsInOrder
  <2> SUFFICES ASSUME TypeOK, OrderInv PROVE RecordsInOrder
    OBVIOUS
  <2> DEFINE waiting == deliveries \o queueResults
             gone == Len(published) - Len(queueResults)
  <2>1. PICK n, at : Waiting(n) /\ Recorded(at, n, events, published)
    BY DEF OrderInv
  <2>2. /\ queueResults \in Seq(Message) /\ deliveries \in Seq(Message)
        /\ Len(deliveries) \in Nat /\ Len(queueResults) \in Nat /\ Len(published) \in Nat
    BY LenProperties DEF TypeOK, Results!TypeOK
  <2>3. /\ waiting \in Seq(Message) /\ Len(waiting) = Len(deliveries) + Len(queueResults)
        /\ DOMAIN waiting = 1..Len(waiting)
        /\ \A k \in 1..Len(deliveries) : waiting[k] = deliveries[k]
        /\ \A k \in 1..Len(queueResults) : waiting[Len(deliveries) + k] = queueResults[k]
    <3>1. /\ waiting \in Seq(Message) /\ Len(waiting) = Len(deliveries) + Len(queueResults)
          /\ \A k \in 1..Len(waiting) : waiting[k] = IF k <= Len(deliveries) THEN deliveries[k]
                                        ELSE queueResults[k - Len(deliveries)]
      BY <2>2, ConcatProperties
    <3> HIDE DEF waiting
    <3>2. DOMAIN waiting = 1..Len(waiting)
      BY <3>1, LenProperties
    <3>3. ASSUME NEW k \in 1..Len(deliveries) PROVE waiting[k] = deliveries[k]
      <4>1. k \in 1..Len(waiting) /\ k <= Len(deliveries)
        BY <2>2, <3>1
      <4> QED BY <3>1, <4>1
    <3>4. ASSUME NEW k \in 1..Len(queueResults)
          PROVE  waiting[Len(deliveries) + k] = queueResults[k]
      <4>1. /\ Len(deliveries) + k \in 1..Len(waiting) /\ ~(Len(deliveries) + k <= Len(deliveries))
            /\ Len(deliveries) + k - Len(deliveries) = k
        BY <2>2, <3>1
      <4> QED BY <3>1, <4>1
    <3>5. waiting \in Seq(Message) /\ Len(waiting) = Len(deliveries) + Len(queueResults)
      BY <3>1
    <3> QED BY <3>2, <3>3, <3>4, <3>5
  <2>4. /\ at \in [DOMAIN events -> DOMAIN published]
        /\ \A i, j \in DOMAIN events : i < j => at[i] < at[j]
        /\ \A i \in DOMAIN events : events[i] = published[at[i]]
    BY <2>1 DEF Recorded
  <2> HIDE DEF waiting
  <2>5. ASSUME ~cancelled, up
        PROVE  /\ Range(at) = {k \in 1..(Len(published) - Len(waiting)) : Parses(published[k])}
               /\ \A k \in DOMAIN waiting :
                    waiting[k] = published[(Len(published) - Len(waiting)) + k]
    <3>1. n \in Nat /\ gone \in Nat /\ n + Len(deliveries) = gone
      <4>1. subscription # "closed"
        BY <2>5 DEF OrderInv
      <4> QED BY <2>1, <4>1 DEF Waiting
    <3>2. Len(published) - Len(waiting) = n
      <4>1. Len(waiting) = Len(deliveries) + Len(queueResults)
        BY <2>3
      <4>2. n + Len(deliveries) = Len(published) - Len(queueResults)
        BY <3>1
      <4> HIDE DEF gone
      <4> QED BY <2>2, <3>1, <4>1, <4>2
    <3>3. Range(at) = {k \in 1..n : Parses(published[k])}
      BY <2>1 DEF Recorded
    <3>4. /\ \A k \in 1..Len(deliveries) : deliveries[k] = published[n + k]
          /\ \A k \in 1..Len(queueResults) : queueResults[k] = published[gone + k]
      <4>1. Window(deliveries, n, published) /\ Window(queueResults, gone, published)
        BY <2>1 DEF Waiting
      <4> HIDE DEF gone
      <4> QED BY <4>1 DEF Window
    <3> HIDE DEF gone
    <3>5. ASSUME NEW k \in DOMAIN waiting PROVE waiting[k] = published[n + k]
      <4>1. CASE k <= Len(deliveries)
        <5>1. k \in 1..Len(deliveries)
          BY <2>2, <2>3, <4>1
        <5> QED BY <2>3, <3>4, <5>1
      <4>2. CASE ~(k <= Len(deliveries))
        <5> DEFINE j == k - Len(deliveries)
        <5>1. /\ j \in 1..Len(queueResults) /\ Len(deliveries) + j = k
              /\ gone + j = n + k
          BY <2>2, <2>3, <3>1, <4>2
        <5> HIDE DEF j
        <5>2. waiting[Len(deliveries) + j] = queueResults[j] /\ queueResults[j] = published[gone + j]
          BY <2>3, <3>4, <5>1
        <5> QED BY <5>1, <5>2
      <4> QED BY <4>1, <4>2
    <3> QED BY <3>2, <3>3, <3>5
  <2>6. \E f \in [DOMAIN events -> DOMAIN published] :
          /\ \A i, j \in DOMAIN events : i < j => f[i] < f[j]
          /\ \A i \in DOMAIN events : events[i] = published[f[i]]
          /\ ~cancelled /\ up =>
               /\ Range(f) = {k \in 1..(Len(published) - Len(waiting)) : Parses(published[k])}
               /\ \A k \in DOMAIN waiting :
                    waiting[k] = published[(Len(published) - Len(waiting)) + k]
    BY <2>4, <2>5
  <2> QED BY <2>6 DEF RecordsInOrder, waiting
<1> QED BY <1>1, <1>2, TypeInit, OrderInit, PTL DEF Spec

=============================================================================

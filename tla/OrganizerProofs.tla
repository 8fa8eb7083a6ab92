--------------------------- MODULE OrganizerProofs ---------------------------
(***************************************************************************)
(* What Organizer guarantees for every set of events, every assignment of  *)
(* types and priorities, and every end of the run.                         *)
(***************************************************************************)
EXTENDS Organizer, SequenceLemmas

-----------------------------------------------------------------------------
(* Parents and ancestors *)

\* The parent of an index is above it, and the index is one of its children.
LEMMA ParentBelow ==
  ASSUME NEW i \in Nat, i >= 2
  PROVE  /\ Parent(i) \in Nat /\ 1 <= Parent(i) /\ Parent(i) < i
         /\ i = 2 * Parent(i) \/ i = 2 * Parent(i) + 1
BY DEF Parent

\* The recursive function of Ancestors exists, so that it satisfies its
\* equation.
LEMMA AncestorSteps ==
  ASSUME NEW n \in Nat
  PROVE  /\ \A i \in 1..n : i = 1 => Ancestors(n)[i] = {}
         /\ \A i \in 1..n : i # 1 => Ancestors(n)[i] = {Parent(i)} \cup Ancestors(n)[Parent(i)]
<1> DEFINE Step(f, i) == IF i = 1 THEN {} ELSE {Parent(i)} \cup f[Parent(i)]
           Upto(f, k) == f = [i \in 1..k |-> Step(f, i)]
           T == {k \in Nat : \E f : Upto(f, k)}
<1>1. 0 \in T
  <2>1. Upto([i \in 1..0 |-> 0], 0)
    OBVIOUS
  <2> QED BY <2>1
<1>2. ASSUME NEW k \in Nat, k \in T PROVE k + 1 \in T
  <2>1. PICK f : Upto(f, k)
    BY <1>2
  <2> DEFINE g == [i \in 1..(k + 1) |-> Step(f, i)]
  <2>2. ASSUME NEW i \in 1..(k + 1) PROVE Step(f, i) = Step(g, i)
    <3>1. CASE i = 1
      BY <3>1
    <3>2. CASE i # 1
      <4> DEFINE p == Parent(i)
      <4>1. p \in 1..k /\ p \in 1..(k + 1)
        BY <3>2, ParentBelow
      <4> HIDE DEF p
      <4>2. f[p] = Step(f, p) /\ g[p] = Step(f, p)
        <5>1. f[p] = Step(f, p)
          <6> HIDE DEF Step
          <6> QED BY <2>1, <4>1
        <5> HIDE DEF Step
        <5> QED BY <4>1, <5>1
      <4> QED BY <3>2, <4>2 DEF p
    <3> QED BY <3>1, <3>2
  <2>3. Upto(g, k + 1)
    <3> HIDE DEF Step
    <3> QED BY <2>2
  <2> HIDE DEF g, Upto
  <2> QED BY <2>3
<1>3. n \in T
  <2> HIDE DEF T
  <2> QED BY <1>1, <1>2, SetInduction
<1> DEFINE F == CHOOSE f : Upto(f, n)
<1>4. Upto(F, n)
  <2>1. \E f : Upto(f, n)
    BY <1>3
  <2> HIDE DEF Upto
  <2> QED BY <2>1
<1>5. Ancestors(n) = F
  BY DEF Ancestors
<1> HIDE DEF F
<1>6. ASSUME NEW i \in 1..n PROVE F[i] = Step(F, i)
  <2> HIDE DEF Step
  <2> QED BY <1>4
<1> QED BY <1>5, <1>6

\* The way from an index to the root: it goes from child to parent, and takes
\* in nothing else.
LEMMA WayToRoot ==
  ASSUME NEW n \in Nat, NEW i \in 1..n
  PROVE  LET A == Ancestors(n)[i] IN
         /\ A \subseteq 1..(i - 1)
         /\ \A j \in A \cup {i} : j # 1 => Parent(j) \in A
         /\ \A a \in A : \E c \in A \cup {i} : c # 1 /\ Parent(c) = a
         /\ \A j, b \in A \cup {i} : b < j => b <= Parent(j)
<1> DEFINE A(k) == Ancestors(n)[k]
           Good(k) == /\ A(k) \subseteq 1..(k - 1)
                      /\ \A j \in A(k) \cup {k} : j # 1 => Parent(j) \in A(k)
                      /\ \A a \in A(k) : \E c \in A(k) \cup {k} : c # 1 /\ Parent(c) = a
                      /\ \A j, b \in A(k) \cup {k} : b < j => b <= Parent(j)
           T == {k \in Nat : k \in 1..n => Good(k)}
<1>1. ASSUME NEW k \in Nat, \A j \in Nat : j < k => j \in T PROVE k \in T
  <2>1. SUFFICES ASSUME k \in 1..n PROVE Good(k)
    OBVIOUS
  <2>2. CASE k = 1
    <3>1. A(k) = {}
      BY <2>1, <2>2, AncestorSteps
    <3> HIDE DEF A
    <3> QED BY <2>2, <3>1
  <2>3. CASE k # 1
    <3> DEFINE p == Parent(k)
    <3>1. p \in Nat /\ 1 <= p /\ p < k /\ p \in 1..n /\ p \in 1..(k - 1)
      BY <2>1, <2>3, ParentBelow
    <3>2. A(k) = {p} \cup A(p)
      BY <2>1, <2>3, AncestorSteps
    <3> HIDE DEF p, A
    <3>3. Good(p)
      <4> HIDE DEF Good
      <4> QED BY <1>1, <3>1
    <3>4. A(p) \subseteq 1..(p - 1)
      BY <3>3
    <3>5. A(k) \subseteq 1..(k - 1)
      BY <3>1, <3>2, <3>4
    <3>6. ASSUME NEW j \in A(k) \cup {k}, j # 1 PROVE Parent(j) \in A(k)
      <4>1. CASE j = k
        BY <3>2, <4>1 DEF p
      <4>2. CASE j # k
        BY <3>2, <3>3, <3>6, <4>2
      <4> QED BY <4>1, <4>2
    <3>7. ASSUME NEW a \in A(k) PROVE \E c \in A(k) \cup {k} : c # 1 /\ Parent(c) = a
      <4>1. CASE a = p
        BY <2>3, <4>1 DEF p
      <4>2. CASE a # p
        BY <3>2, <3>3, <4>2
      <4> QED BY <4>1, <4>2
    <3>8. ASSUME NEW j \in A(k) \cup {k}, NEW b \in A(k) \cup {k}, b < j PROVE b <= Parent(j)
      <4>1. CASE j = k
        <5>1. b \in A(p) \cup {p} /\ p \in Nat
          BY <3>1, <3>2, <3>5, <3>8, <4>1
        <5>2. b <= p
          BY <3>4, <5>1
        <5> QED BY <4>1, <5>2 DEF p
      <4>2. CASE j # k
        <5>1. j \in A(p) \cup {p} /\ j < k
          BY <3>2, <3>5, <4>2
        <5>2. b # k
          BY <2>1, <3>5, <3>8, <5>1
        <5>3. b \in A(p) \cup {p}
          BY <3>2, <5>2
        <5> QED BY <3>3, <3>8, <5>1, <5>3
      <4> QED BY <4>1, <4>2
    <3> QED BY <3>5, <3>6, <3>7, <3>8
  <2> QED BY <2>2, <2>3
<1>2. i \in T
  <2>1. i \in Nat
    OBVIOUS
  <2> HIDE DEF T
  <2> QED BY <1>1, <2>1, StrongInduction
<1>3. Good(i)
  <2> HIDE DEF Good
  <2> QED BY <1>2
<1> QED BY <1>3

-----------------------------------------------------------------------------
(* The order of the events in the heap *)

\* The place of an event in the order of Less.
Rank(e) == priorityIndex(PriorityOf[e])

\* Less compares ranks, and what the deadlines make more urgent is less.
LEMMA RankOrder ==
  /\ \A e : Rank(e) \in Nat
  /\ \A e, f : Less(e, f) <=> ~(Rank(f) <= Rank(e))
  /\ \A e, f : MoreUrgent(e, f) => ~(Rank(f) <= Rank(e))
<1>1. ASSUME NEW e PROVE Rank(e) \in {0, 1, 2, 3}
  BY DEF Rank, priorityIndex
<1>2. ASSUME NEW e, NEW f PROVE Less(e, f) <=> ~(Rank(f) <= Rank(e))
  <2>1. Rank(e) \in Nat /\ Rank(f) \in Nat
    BY <1>1
  <2> QED BY <2>1 DEF Less, Rank
<1>3. ASSUME NEW e, NEW f, MoreUrgent(e, f) PROVE ~(Rank(f) <= Rank(e))
  <2>1. /\ Deadlines["High"] \in Nat /\ Deadlines["Medium"] \in Nat /\ Deadlines["Low"] \in Nat
        /\ Deadlines["High"] < Deadlines["Medium"] /\ Deadlines["Medium"] < Deadlines["Low"]
    BY DeadlinesAssumption DEF Priorities
  <2>2. /\ PriorityOf[e] \in {"High", "Medium", "Low"}
        /\ PriorityOf[f] \in {"High", "Medium", "Low"} =>
             Deadlines[PriorityOf[e]] < Deadlines[PriorityOf[f]]
    BY <1>3 DEF MoreUrgent, Priorities
  <2>3. CASE PriorityOf[f] \notin {"High", "Medium", "Low"}
    <3>1. Rank(f) = 3
      BY <2>3 DEF Rank, priorityIndex
    <3>2. Rank(e) \in {0, 1, 2}
      BY <2>2 DEF Rank, priorityIndex
    <3> QED BY <3>1, <3>2
  <2>4. CASE PriorityOf[f] = "High"
    BY <2>1, <2>2, <2>4
  <2>5. CASE PriorityOf[f] = "Medium"
    <3>1. PriorityOf[e] = "High"
      BY <2>1, <2>2, <2>5
    <3> QED BY <2>5, <3>1 DEF Rank, priorityIndex
  <2>6. CASE PriorityOf[f] = "Low"
    <3>1. PriorityOf[e] = "High" \/ PriorityOf[e] = "Medium"
      BY <2>1, <2>2, <2>6
    <3> QED BY <2>6, <3>1 DEF Rank, priorityIndex
  <2> QED BY <2>3, <2>4, <2>5, <2>6
<1>4. \A e : Rank(e) \in Nat
  BY <1>1
<1> HIDE DEF Rank
<1> QED BY <1>2, <1>3, <1>4

\* A sequence whose elements are at least as urgent as their children.
RankOrdered(h, n) == \A i \in 2..n : Rank(h[Parent(i)]) <= Rank(h[i])

\* It is what HeapOrdered says.
LEMMA HeapByRank ==
  ASSUME NEW h
  PROVE  HeapOrdered(h) <=> RankOrdered(h, Len(h))
BY RankOrder DEF HeapOrdered, RankOrdered

\* heap.Push keeps the order of the heap and its elements, and adds one.
LEMMA PushKeepsHeap ==
  ASSUME NEW S, NEW h \in Seq(S), NEW e \in S, HeapOrdered(h)
  PROVE  /\ HeapPush(h, e) \in Seq(S)
         /\ Len(HeapPush(h, e)) = Len(h) + 1
         /\ Range(HeapPush(h, e)) = Range(h) \cup {e}
         /\ HeapOrdered(HeapPush(h, e))
<1> DEFINE l == Len(h)
           last == l + 1
           above == Ancestors(last)[last]
           passed == {a \in above : \A b \in above : b >= a => Less(e, h[b])}
           P == passed \cup {last}
           t == [i \in 1..last |-> IF i \in P THEN IF Parent(i) \in passed THEN h[Parent(i)] ELSE e
                                   ELSE h[i]]
<1>1. HeapPush(h, e) = t
  BY DEF HeapPush
<1>2. /\ l \in Nat /\ last \in Nat /\ last \in 1..last /\ DOMAIN h = 1..l
      /\ \A i \in 1..l : h[i] \in S
  BY LenProperties, ElementOfSeq
<1>3. RankOrdered(h, l)
  BY HeapByRank
<1>4. /\ above \subseteq 1..l
      /\ \A j \in above \cup {last} : j # 1 => Parent(j) \in above
      /\ \A a \in above : \E c \in above \cup {last} : c # 1 /\ Parent(c) = a
      /\ \A j, b \in above \cup {last} : b < j => b <= Parent(j)
  <2>1. last - 1 = l
    BY <1>2
  <2> HIDE DEF l, last
  <2> QED BY <1>2, <2>1, WayToRoot
<1> HIDE DEF above
<1>5. /\ passed \subseteq above
      /\ \A a \in passed : \A b \in above : b >= a => ~(Rank(h[b]) <= Rank(e))
      /\ \A a \in above : (\A b \in above : b >= a => ~(Rank(h[b]) <= Rank(e))) => a \in passed
  BY RankOrder
<1> HIDE DEF passed
<1>6. /\ DOMAIN t = 1..last
      /\ \A i \in 1..last : i \in P /\ Parent(i) \in passed => t[i] = h[Parent(i)]
      /\ \A i \in 1..last : i \in P /\ Parent(i) \notin passed => t[i] = e
      /\ \A i \in 1..last : i \notin P => t[i] = h[i] /\ i \in 1..l
      /\ t = [i \in 1..last |-> t[i]]
  BY <1>2
<1> HIDE DEF t, P
<1>7. P = passed \cup {last} /\ passed \subseteq 1..l /\ P \subseteq above \cup {last}
  BY <1>4, <1>5 DEF P
<1> HIDE DEF last
<1>8. last = l + 1
  BY DEF last
<1> HIDE DEF l
<1>9. ASSUME NEW i \in 1..last PROVE t[i] \in S
  BY <1>2, <1>6, <1>7, <1>9
<1>10. t \in Seq(S) /\ Len(t) = last
  <2>1. t \in [1..last -> S]
    BY <1>6, <1>9
  <2> QED BY <1>2, <2>1
<1>11. Range(t) \subseteq Range(h) \cup {e}
  <2>1. ASSUME NEW i \in 1..last PROVE t[i] \in Range(h) \cup {e}
    BY <1>2, <1>6, <1>7 DEF Range
  <2> QED BY <1>6, <2>1 DEF Range
<1>12. Range(h) \subseteq Range(t)
  <2>1. ASSUME NEW j \in 1..l PROVE h[j] \in Range(t)
    <3>1. CASE j \in passed
      <4>1. PICK c \in above \cup {last} : c # 1 /\ Parent(c) = j
        BY <1>4, <1>5, <3>1
      <4>2. c \in P
        <5>1. CASE c = last
          BY <1>7, <5>1
        <5>2. CASE c # last
          <6>1. c \in above /\ c \in Nat /\ j \in Nat /\ j < c
            BY <1>2, <1>4, <4>1, <5>2, ParentBelow
          <6>2. \A b \in above : b >= c => b >= j
            BY <1>2, <1>4, <6>1
          <6>3. c \in passed
            BY <1>5, <3>1, <6>1, <6>2
          <6> QED BY <1>7, <6>3
        <5> QED BY <5>1, <5>2
      <4>3. c \in 1..last
        BY <1>2, <1>4, <1>8
      <4>4. t[c] = h[j]
        BY <1>6, <3>1, <4>1, <4>2, <4>3
      <4> QED BY <1>6, <4>3, <4>4 DEF Range
    <3>2. CASE j \notin passed
      <4>1. j \in 1..last /\ j \notin P
        BY <1>2, <1>7, <1>8, <3>2
      <4> QED BY <1>6, <4>1 DEF Range
    <3> QED BY <3>1, <3>2
  <2> QED BY <1>2, <2>1 DEF Range
<1>13. e \in Range(t)
  <2>1. PICK i \in P : \A y \in P : i <= y
    <3>1. P \subseteq Nat /\ P # {}
      BY <1>2, <1>4, <1>7
    <3> QED BY <3>1, LeastNumber
  <2>2. i \in 1..last
    BY <1>2, <1>4, <1>7, <1>8
  <2>3. Parent(i) \notin passed
    <3>1. CASE i = 1
      <4>1. Parent(1) = 0
        BY DEF Parent
      <4> QED BY <1>7, <3>1, <4>1
    <3>2. CASE i # 1
      <4>1. Parent(i) \in Nat /\ Parent(i) < i
        BY <2>2, <3>2, ParentBelow
      <4>2. Parent(i) \notin P
        BY <2>1, <2>2, <4>1
      <4> QED BY <1>7, <4>2
    <3> QED BY <3>1, <3>2
  <2> QED BY <1>6, <2>2, <2>3 DEF Range
<1>14. ASSUME NEW i \in 2..last PROVE Rank(t[Parent(i)]) <= Rank(t[i])
  <2> DEFINE p == Parent(i)
             pp == Parent(p)
  <2>a. SUFFICES Rank(t[p]) <= Rank(t[i])
    OBVIOUS
  <2>0. i \in Nat /\ i >= 2 /\ i \in 1..last
    BY <1>2
  <2>1. p \in Nat /\ 1 <= p /\ p < i /\ p \in 1..last /\ p \in 1..l
    <3>1. p \in Nat /\ 1 <= p /\ p < i
      BY <2>0, ParentBelow
    <3> HIDE DEF p
    <3> QED BY <1>2, <1>8, <2>0, <3>1
  <2> HIDE DEF p, pp
  <2>2. \A f : Rank(f) \in Nat
    BY RankOrder
  <2>3. p \in passed /\ pp \in passed => Rank(h[pp]) <= Rank(h[p])
    <3>1. pp \in passed => p # 1
      <4>1. Parent(1) = 0
        BY DEF Parent
      <4> QED BY <1>7, <4>1 DEF pp
    <3>2. p # 1 => p \in 2..l
      BY <2>1
    <3> QED BY <1>3, <3>1, <3>2 DEF RankOrdered, pp
  <2>4. p \in passed => Rank(e) <= Rank(h[p]) /\ Rank(e) \in Nat /\ Rank(h[p]) \in Nat
    <3>1. p \in passed => ~(Rank(h[p]) <= Rank(e))
      <4>1. p >= p
        BY <2>1
      <4> QED BY <1>5, <4>1
    <3> QED BY <2>2, <3>1
  <2>5. p \in P => p \in passed
    BY <1>7, <1>8, <1>2, <2>1
  <2>6. p \in P => (t[p] = h[pp] /\ pp \in passed) \/ t[p] = e
    BY <1>6, <2>1 DEF pp
  <2>7. CASE i \in P
    <3>1. p \in above
      <4>1. i # 1
        BY <2>0
      <4> QED BY <1>4, <1>7, <2>7, <4>1 DEF p
    <3>2. CASE p \in passed
      <4>1. t[i] = h[p] /\ p \in P
        BY <1>6, <1>7, <2>0, <2>7, <3>2 DEF p
      <4> QED BY <2>3, <2>4, <2>6, <3>2, <4>1
    <3>3. CASE p \notin passed
      <4>1. t[i] = e /\ t[p] = h[p]
        BY <1>6, <2>0, <2>1, <2>5, <2>7, <3>3 DEF p
      <4>2. ~(\A b \in above : b >= p => ~(Rank(h[b]) <= Rank(e)))
        BY <1>5, <3>1, <3>3
      <4>3. PICK b \in above : b >= p /\ Rank(h[b]) <= Rank(e)
        BY <4>2
      <4>4. b = p
        <5>1. b \in 1..l
          BY <1>4
        <5>2. ASSUME b >= i PROVE FALSE
          <6>1. CASE i = last
            BY <1>2, <1>8, <5>1, <5>2, <6>1
          <6>2. CASE i # last
            <7>1. i \in passed
              BY <1>7, <2>7, <6>2
            <7> QED BY <1>5, <4>3, <5>2, <7>1
          <6> QED BY <6>1, <6>2
        <5>3. b < i
          BY <1>2, <2>0, <5>1, <5>2
        <5>4. b <= p
          BY <1>4, <1>7, <2>7, <5>3 DEF p
        <5> QED BY <1>2, <2>1, <4>3, <5>1, <5>4
      <4> QED BY <4>1, <4>3, <4>4
    <3> QED BY <3>2, <3>3
  <2>8. CASE i \notin P
    <3>1. t[i] = h[i] /\ i \in 1..l
      BY <1>6, <2>0, <2>8
    <3>2. Rank(h[p]) <= Rank(h[i]) /\ Rank(h[i]) \in Nat /\ Rank(h[p]) \in Nat
      <4>1. i \in 2..l
        BY <1>2, <2>0, <3>1
      <4>2. Rank(h[p]) <= Rank(h[i])
        BY <1>3, <4>1 DEF RankOrdered, p
      <4> QED BY <2>2, <4>2
    <3>3. CASE p \in P
      <4>1. p \in passed
        BY <2>5, <3>3
      <4>2. CASE t[p] = e
        <5> QED BY <2>4, <3>1, <3>2, <4>1, <4>2
      <4>3. CASE t[p] = h[pp] /\ pp \in passed
        <5>1. Rank(h[pp]) <= Rank(h[p]) /\ Rank(h[pp]) \in Nat
          BY <2>2, <2>3, <4>1, <4>3
        <5> QED BY <3>1, <3>2, <4>3, <5>1
      <4> QED BY <2>6, <3>3, <4>2, <4>3
    <3>4. CASE p \notin P
      <4>1. t[p] = h[p]
        BY <1>6, <2>1, <3>4
      <4> QED BY <3>1, <3>2, <4>1
    <3> QED BY <3>3, <3>4
  <2> QED BY <2>7, <2>8
<1>15. HeapOrdered(t)
  BY <1>10, <1>14, HeapByRank DEF RankOrdered
<1>16. Len(t) = Len(h) + 1 /\ Range(t) = Range(h) \cup {e}
  BY <1>8, <1>10, <1>11, <1>12, <1>13 DEF l
<1> QED BY <1>1, <1>10, <1>15, <1>16


\* The smaller child is one of the two, and not less urgent than either.
LEMMA SmallerOfTwo ==
  ASSUME NEW S, NEW h \in Seq(S), NEW n \in Nat, NEW p \in Nat, p >= 1, 2 * p <= n
  PROVE  LET s == SmallerChild(h, n, p) IN
         /\ s \in 2..n /\ Parent(s) = p /\ p < s
         /\ \A i \in 2..n : Parent(i) = p => Rank(h[s]) <= Rank(h[i])
<1> DEFINE a == 2 * p
           b == 2 * p + 1
<1>1. a \in 2..n /\ Parent(a) = p /\ p < a /\ Parent(b) = p /\ p < b
  BY DEF Parent
<1>2. \A i \in 2..n : Parent(i) = p => i = a \/ i = b
  BY ParentBelow
<1>3. /\ Rank(h[a]) \in Nat /\ Rank(h[b]) \in Nat
      /\ Less(h[b], h[a]) <=> ~(Rank(h[a]) <= Rank(h[b]))
  BY RankOrder
<1>4. CASE b <= n /\ Less(h[b], h[a])
  <2>1. SmallerChild(h, n, p) = b /\ b \in 2..n
    BY <1>4 DEF SmallerChild
  <2>2. Rank(h[b]) <= Rank(h[a]) /\ Rank(h[b]) <= Rank(h[b])
    BY <1>3, <1>4
  <2> HIDE DEF a, b
  <2> QED BY <1>1, <1>2, <2>1, <2>2
<1>5. CASE ~(b <= n /\ Less(h[b], h[a]))
  <2>1. SmallerChild(h, n, p) = a
    BY <1>5 DEF SmallerChild
  <2>2. Rank(h[a]) <= Rank(h[a]) /\ (b <= n => Rank(h[a]) <= Rank(h[b]))
    BY <1>3, <1>5
  <2>3. \A i \in 2..n : i <= n
    OBVIOUS
  <2> HIDE DEF a, b
  <2> QED BY <1>1, <1>2, <2>1, <2>2, <2>3
<1> QED BY <1>4, <1>5

\* The path of the sinking element starts at the root, goes from each index to
\* its smaller child, and stops only where that is not less.
LEMMA SinkPathSteps ==
  ASSUME NEW h, NEW n \in Nat \ {0}, NEW e
  PROVE  LET path == SinkPath(h, n, e) IN
         /\ path \subseteq 1..n /\ 1 \in path
         /\ \A i \in path : i # 1 => /\ Parent(i) \in path
                                     /\ i = SmallerChild(h, n, Parent(i))
                                     /\ ~(Rank(e) <= Rank(h[i]))
         /\ \A i \in 1..n : /\ i # 1 /\ Parent(i) \in path
                            /\ i = SmallerChild(h, n, Parent(i))
                            /\ ~(Rank(e) <= Rank(h[i]))
                            => i \in path
<1> DEFINE path == SinkPath(h, n, e)
           Passed(b) == b = SmallerChild(h, n, Parent(b)) /\ Less(h[b], e)
<1>1. /\ path \subseteq 1..n
      /\ \A i \in 1..n : i \in path <=> \A b \in (Ancestors(n)[i] \cup {i}) \ {1} : Passed(b)
  BY DEF SinkPath
<1>2. 1 \in 1..n
  OBVIOUS
<1>3. \A b : Passed(b) <=> /\ b = SmallerChild(h, n, Parent(b))
                           /\ ~(Rank(e) <= Rank(h[b]))
  BY RankOrder
<1> HIDE DEF path, Passed
<1>4. 1 \in path
  <2>1. Ancestors(n)[1] = {}
    BY <1>2, AncestorSteps
  <2> QED BY <1>1, <1>2, <2>1
<1>5. ASSUME NEW i \in 1..n, i # 1
      PROVE  i \in path <=> Parent(i) \in path /\ Passed(i)
  <2> DEFINE p == Parent(i)
  <2>1. p \in 1..n
    <3>1. i \in Nat /\ i >= 2
      BY <1>5
    <3>2. p \in Nat /\ 1 <= p /\ p < i
      BY <3>1, ParentBelow
    <3> HIDE DEF p
    <3> QED BY <3>1, <3>2
  <2>2. Ancestors(n)[i] = {p} \cup Ancestors(n)[p]
    BY <1>5, AncestorSteps
  <2>a. SUFFICES i \in path <=> p \in path /\ Passed(i)
    OBVIOUS
  <2> HIDE DEF p
  <2>3. (Ancestors(n)[i] \cup {i}) \ {1} = ((Ancestors(n)[p] \cup {p}) \ {1}) \cup {i}
    BY <1>5, <2>2
  <2> QED BY <1>1, <2>1, <2>3
<1> QED BY <1>1, <1>3, <1>4, <1>5 DEF path

\* heap.Pop keeps the order of the heap, and what it leaves is what the heap
\* held, without the root.
LEMMA PopKeepsHeap ==
  ASSUME NEW S, NEW h \in Seq(S), HeapOrdered(h), Len(h) >= 2
  PROVE  /\ HeapRest(h) \in Seq(S)
         /\ Len(HeapRest(h)) = Len(h) - 1
         /\ Range(h) = Range(HeapRest(h)) \cup {h[1]}
         /\ HeapOrdered(HeapRest(h))
<1> DEFINE l == Len(h)
           n == l - 1
           e == h[l]
           path == SinkPath(h, n, e)
           sc(i) == SmallerChild(h, n, i)
           t == [i \in 1..n |-> IF i \notin path THEN h[i]
                                ELSE IF sc(i) \in path THEN h[sc(i)] ELSE e]
<1>1. HeapRest(h) = t
  BY DEF HeapRest
<1>2. /\ l \in Nat /\ n \in Nat \ {0} /\ l = n + 1 /\ 1 \in 1..n /\ DOMAIN h = 1..l
      /\ \A i \in 1..l : h[i] \in S
  BY LenProperties, ElementOfSeq
<1>3. RankOrdered(h, l)
  BY HeapByRank
<1>4. /\ path \subseteq 1..n /\ 1 \in path
      /\ \A i \in path : i # 1 => Parent(i) \in path /\ i = sc(Parent(i)) /\ ~(Rank(e) <= Rank(h[i]))
      /\ \A i \in 1..n : /\ i # 1 /\ Parent(i) \in path
                         /\ i = sc(Parent(i)) /\ ~(Rank(e) <= Rank(h[i]))
                         => i \in path
  <2> HIDE DEF n, e
  <2> QED BY <1>2, SinkPathSteps
<1>5. /\ DOMAIN t = 1..n /\ t = [i \in 1..n |-> t[i]]
      /\ \A i \in 1..n : i \notin path => t[i] = h[i]
      /\ \A i \in 1..n : i \in path /\ sc(i) \in path => t[i] = h[sc(i)]
      /\ \A i \in 1..n : i \in path /\ sc(i) \notin path => t[i] = e
  <2> HIDE DEF path, e, n
  <2> QED OBVIOUS
<1>6. \A p \in 1..n : 2 * p <= n =>
        /\ sc(p) \in 2..n /\ Parent(sc(p)) = p /\ p < sc(p)
        /\ \A i \in 2..n : Parent(i) = p => Rank(h[sc(p)]) <= Rank(h[i])
  <2>1. \A p \in 1..n : p \in Nat /\ p >= 1
    BY <1>2
  <2> HIDE DEF n
  <2> QED BY <1>2, <2>1, SmallerOfTwo
<1>e. e = h[l] /\ l \in 1..l
  BY <1>2
<1> HIDE DEF path, t, e, n, l, sc
<1>7. ASSUME NEW i \in 1..n PROVE t[i] \in S
  <2>1. i \in 1..l /\ path \subseteq 1..l
    BY <1>2, <1>4
  <2> QED BY <1>2, <1>5, <1>e, <2>1
<1>8. t \in Seq(S) /\ Len(t) = n
  <2>1. t \in [1..n -> S]
    BY <1>5, <1>7
  <2> QED BY <1>2, <2>1
<1>9. Range(t) \cup {h[1]} \subseteq Range(h)
  <2>1. 1..n \subseteq 1..l /\ path \subseteq 1..l
    BY <1>2, <1>4
  <2>2. ASSUME NEW i \in 1..n PROVE t[i] \in Range(h)
    BY <1>2, <1>5, <1>e, <2>1 DEF Range
  <2>3. h[1] \in Range(h)
    BY <1>2, <2>1 DEF Range
  <2> QED BY <1>5, <2>2, <2>3 DEF Range
<1>10. e \in Range(t)
  <2>1. path \subseteq 0..n /\ path # {} /\ n \in Nat
    BY <1>2, <1>4
  <2>2. PICK m \in path : \A y \in path : y <= m
    BY <2>1, GreatestNumber
  <2>3. sc(m) \notin path
    <3>1. ASSUME sc(m) \in path PROVE FALSE
      <4>1. sc(m) \in 1..n /\ sc(m) <= m /\ m \in 1..n
        BY <1>4, <2>2, <3>1
      <4>2. sc(m) = 2 * m \/ sc(m) = 2 * m + 1
        BY DEF sc, SmallerChild
      <4> QED BY <1>2, <4>1, <4>2
    <3> QED BY <3>1
  <2> QED BY <1>4, <1>5, <2>2, <2>3 DEF Range
<1>11. Range(h) \subseteq Range(t) \cup {h[1]}
  <2>1. ASSUME NEW j \in 1..l PROVE h[j] \in Range(t) \cup {h[1]}
    <3>1. CASE j = l
      BY <1>10, <1>e, <3>1
    <3>2. CASE j # l /\ j \notin path
      <4>1. j \in 1..n
        BY <1>2, <3>2
      <4> QED BY <1>5, <3>2, <4>1 DEF Range
    <3>3. CASE j \in path /\ j # 1
      <4>1. Parent(j) \in path /\ j = sc(Parent(j)) /\ Parent(j) \in 1..n
        BY <1>4, <3>3
      <4>2. t[Parent(j)] = h[j]
        BY <1>5, <3>3, <4>1
      <4> QED BY <1>5, <4>1, <4>2 DEF Range
    <3> QED BY <3>1, <3>2, <3>3
  <2> QED BY <1>2, <2>1 DEF Range
<1>12. ASSUME NEW i \in 2..n PROVE Rank(t[Parent(i)]) <= Rank(t[i])
  <2> DEFINE p == Parent(i)
             s == sc(p)
  <2>a. SUFFICES Rank(t[p]) <= Rank(t[i])
    OBVIOUS
  <2>1. i \in Nat /\ i # 1 /\ i \in 1..n /\ i \in 2..l
    BY <1>2
  <2>2. p \in 1..n /\ 2 * p <= n /\ (i \in path => p \in path /\ i = s /\ ~(Rank(e) <= Rank(h[i])))
    <3>1. p \in Nat /\ 1 <= p /\ p < i /\ (i = 2 * p \/ i = 2 * p + 1)
      BY <1>2, ParentBelow
    <3>2. i \in path => p \in path /\ i = s /\ ~(Rank(e) <= Rank(h[i]))
      BY <1>4, <2>1
    <3> HIDE DEF p, s
    <3> QED BY <1>2, <2>1, <3>1, <3>2
  <2>3. s \in 2..n /\ Parent(s) = p /\ Rank(h[s]) <= Rank(h[i])
    BY <1>6, <2>2
  <2>4. Rank(h[p]) <= Rank(h[i])
    BY <1>3, <2>1 DEF RankOrdered
  <2>5. i \in path /\ sc(i) \in path => Rank(h[i]) <= Rank(h[sc(i)])
    <3>1. ASSUME i \in path, sc(i) \in path PROVE Rank(h[i]) <= Rank(h[sc(i)])
      <4>1. sc(i) = 2 * i \/ sc(i) = 2 * i + 1
        BY DEF sc, SmallerChild
      <4>2. sc(i) \in 1..n
        BY <1>4, <3>1
      <4>3. 2 * i <= n
        BY <1>2, <2>1, <4>1, <4>2
      <4>4. sc(i) \in 2..l /\ Parent(sc(i)) = i
        BY <1>2, <1>6, <2>1, <4>3
      <4> QED BY <1>3, <4>4 DEF RankOrdered
    <3> QED BY <3>1
  <2>6. p \in path /\ s \notin path => Rank(e) <= Rank(h[s])
    <3>1. s \in 1..n /\ s # 1
      BY <1>2, <2>3
    <3> QED BY <1>4, <2>3, <3>1
  <2>7. /\ \A f : Rank(f) \in Nat
        /\ Rank(h[s]) \in Nat /\ Rank(h[i]) \in Nat /\ Rank(e) \in Nat
    BY RankOrder
  <2> HIDE DEF p, s
  <2>8. CASE p \in path /\ s \in path
    <3>1. t[p] = h[s]
      BY <1>5, <2>2, <2>8 DEF s
    <3>2. CASE i \in path
      <4>1. i = s
        BY <2>2, <3>2
      <4>2. CASE sc(i) \in path
        BY <1>5, <2>1, <2>5, <3>1, <3>2, <4>1, <4>2
      <4>3. CASE sc(i) \notin path
        <5>1. t[i] = e
          BY <1>5, <2>1, <3>2, <4>3
        <5>2. Rank(h[s]) <= Rank(e)
          BY <2>2, <2>7, <3>2, <4>1
        <5> QED BY <3>1, <5>1, <5>2
      <4> QED BY <4>2, <4>3
    <3>3. CASE i \notin path
      BY <1>5, <2>1, <2>3, <3>1, <3>3
    <3> QED BY <3>2, <3>3
  <2>9. CASE p \in path /\ s \notin path
    <3>1. t[p] = e
      BY <1>5, <2>2, <2>9 DEF s
    <3>2. t[i] = h[i]
      BY <1>5, <2>1, <2>2, <2>9
    <3>3. Rank(e) <= Rank(h[i])
      BY <2>3, <2>6, <2>7, <2>9
    <3> QED BY <3>1, <3>2, <3>3
  <2>10. CASE p \notin path
    <3>1. t[p] = h[p] /\ t[i] = h[i]
      BY <1>5, <2>1, <2>2, <2>10
    <3> QED BY <2>4, <3>1
  <2> QED BY <2>8, <2>9, <2>10
<1>13. HeapOrdered(t)
  BY <1>8, <1>12, HeapByRank DEF RankOrdered
<1> QED BY <1>1, <1>8, <1>9, <1>11, <1>13 DEF l, n

\* Nothing in the heap is more urgent than its root.
LEMMA TopIsLeast ==
  ASSUME NEW S, NEW h \in Seq(S), HeapOrdered(h)
  PROVE  \A j \in 1..Len(h) : Rank(HeapTop(h)) <= Rank(h[j])
<1> DEFINE l == Len(h)
           T == {k \in Nat : k \in 1..l => Rank(h[1]) <= Rank(h[k])}
<1>0. l \in Nat /\ RankOrdered(h, l)
  BY HeapByRank, LenProperties
<1> HIDE DEF l
<1>1. ASSUME NEW k \in Nat, \A j \in Nat : j < k => j \in T PROVE k \in T
  <2>1. SUFFICES ASSUME k \in 1..l PROVE Rank(h[1]) <= Rank(h[k])
    OBVIOUS
  <2>2. CASE k = 1
    <3>1. Rank(h[1]) \in Nat
      BY RankOrder
    <3> QED BY <2>2, <3>1
  <2>3. CASE k # 1
    <3> DEFINE p == Parent(k)
    <3>1. p \in Nat /\ 1 <= p /\ p < k /\ k \in 2..l
      BY <1>0, <2>1, <2>3, ParentBelow
    <3>2. Rank(h[p]) <= Rank(h[k])
      BY <1>0, <3>1 DEF RankOrdered
    <3> HIDE DEF p
    <3>3. p \in 1..l /\ p \in T
      BY <1>0, <1>1, <2>1, <3>1
    <3>4. Rank(h[1]) <= Rank(h[p])
      BY <3>3
    <3>5. Rank(h[1]) \in Nat /\ Rank(h[p]) \in Nat /\ Rank(h[k]) \in Nat
      BY RankOrder
    <3> QED BY <3>2, <3>4, <3>5
  <2> QED BY <2>2, <2>3
<1>2. Nat \subseteq T
  <2> HIDE DEF T
  <2> QED BY <1>1, StrongInduction
<1>3. \A j \in 1..l : Rank(h[1]) <= Rank(h[j])
  <2>1. \A j \in 1..l : j \in T
    BY <1>0, <1>2
  <2> QED BY <2>1
<1> QED BY <1>3 DEF l, HeapTop

-----------------------------------------------------------------------------
(* The folds over pushes and pops *)

\* The heaps after each of the pushes.
AfterPushes(f, pushes) ==
  /\ f[0] = <<>>
  /\ \A i \in 0..(Len(pushes) - 1) : f[i + 1] = HeapPush(f[i], pushes[i + 1])
  /\ Heapified(pushes) = f[Len(pushes)]

\* The fold by which Heapified is defined pushes one element after the other.
LEMMA HeapifiedSteps ==
  ASSUME NEW S, NEW pushes \in Seq(S)
  PROVE  \E f : AfterPushes(f, pushes)
<1> DEFINE seq == pushes
           N == Len(pushes)
<1>0. N \in Nat /\ DOMAIN seq = 1..N
  BY LenProperties
<1> HIDE DEF N
<1> DEFINE Step(it, s) == IF s = {} THEN <<>> ELSE HeapPush(it[s \ {Max(s)}], seq[Max(s)])
           Upto(it, n) == it = [s \in SUBSET (1..n) |-> Step(it, s)]
           T == {n \in Nat : \E it : Upto(it, n)}
<1>1. 0 \in T
  <2> DEFINE it == [s \in SUBSET (1..0) |-> <<>>]
  <2>1. \A s \in SUBSET (1..0) : Step(it, s) = <<>>
    OBVIOUS
  <2>2. Upto(it, 0)
    <3> HIDE DEF Step
    <3> QED BY <2>1
  <2> HIDE DEF it, Upto
  <2> QED BY <2>2
<1>2. ASSUME NEW n \in Nat, n \in T PROVE n + 1 \in T
  <2>1. PICK f : Upto(f, n)
    BY <1>2
  <2> DEFINE g == [s \in SUBSET (1..(n + 1)) |->
                     IF n + 1 \in s THEN HeapPush(f[s \ {n + 1}], seq[n + 1]) ELSE f[s]]
  <2>2. \A s \in SUBSET (1..n) : f[s] = Step(f, s) /\ g[s] = f[s]
    <3>1. \A s \in SUBSET (1..n) : f[s] = Step(f, s)
      <4> HIDE DEF Step
      <4> QED BY <2>1
    <3>2. ASSUME NEW s \in SUBSET (1..n) PROVE g[s] = f[s]
      <4>1. s \in SUBSET (1..(n + 1)) /\ n + 1 \notin s
        OBVIOUS
      <4> HIDE DEF seq
      <4> QED BY <4>1
    <3> HIDE DEF Step
    <3> QED BY <3>1, <3>2
  <2>3. ASSUME NEW s \in SUBSET (1..(n + 1)) PROVE g[s] = Step(g, s)
    <3>1. CASE s = {}
      <4>1. g[s] = f[s] /\ f[s] = Step(f, s)
        <5> HIDE DEF Step, g
        <5> QED BY <2>2, <3>1
      <4> QED BY <3>1, <4>1
    <3>2. CASE s # {}
      <4>1. Max(s) \in s /\ \A y \in s : y <= Max(s)
        <5>1. s \subseteq 0..(n + 1) /\ n + 1 \in Nat
          OBVIOUS
        <5> QED BY <3>2, <5>1, GreatestNumber
      <4>2. s \ {Max(s)} \in SUBSET (1..n)
        <5>1. ASSUME NEW y \in s \ {Max(s)} PROVE y \in 1..n
          <6>1. y <= Max(s) /\ y # Max(s) /\ Max(s) \in 1..(n + 1) /\ y \in 1..(n + 1)
            BY <4>1
          <6> QED BY <6>1
        <5> QED BY <5>1
      <4>3. g[s \ {Max(s)}] = f[s \ {Max(s)}]
        <5> HIDE DEF Step, g
        <5> QED BY <2>2, <4>2
      <4>4. CASE n + 1 \in s
        <5>1. Max(s) = n + 1
          <6>1. n + 1 <= Max(s) /\ Max(s) \in 1..(n + 1)
            BY <4>1, <4>4
          <6> QED BY <6>1
        <5>2. g[s] = HeapPush(f[s \ {n + 1}], seq[n + 1])
          BY <4>4
        <5> HIDE DEF seq, g
        <5> QED BY <3>2, <4>3, <5>1, <5>2
      <4>5. CASE n + 1 \notin s
        <5>1. s \in SUBSET (1..n)
          BY <4>5
        <5>2. g[s] = Step(f, s)
          <6> HIDE DEF Step, g
          <6> QED BY <2>2, <5>1
        <5> HIDE DEF seq, g
        <5> QED BY <3>2, <4>3, <5>2
      <4> QED BY <4>4, <4>5
    <3> QED BY <3>1, <3>2
  <2>4. Upto(g, n + 1)
    <3> HIDE DEF Step
    <3> QED BY <2>3
  <2> HIDE DEF g, Upto
  <2> QED BY <2>4
<1>3. \E it : Upto(it, N)
  <2>1. N \in T
    <3> HIDE DEF T
    <3> QED BY <1>0, <1>1, <1>2, SetInduction
  <2> QED BY <2>1
<1>4. DOMAIN seq = 1..N
  BY <1>0
<1> DEFINE F == CHOOSE it : it = [s \in SUBSET (DOMAIN seq) |-> Step(it, s)]
<1>5. Heapified(pushes) = F[DOMAIN seq]
  BY DEF Heapified, FoldLeft, MapThenFoldSet
<1>6. F = [s \in SUBSET (DOMAIN seq) |-> Step(F, s)]
  <2> HIDE DEF Step, seq
  <2>1. PICK it : Upto(it, N)
    BY <1>3
  <2>2. it = [s \in SUBSET (DOMAIN seq) |-> Step(it, s)]
    BY <1>4, <2>1
  <2> QED BY <2>2
<1> HIDE DEF F
<1> DEFINE h == [i \in 0..N |-> F[1..i]]
<1>7. \A i \in 0..N : h[i] = Step(F, 1..i)
  <2>1. \A i \in 0..N : h[i] = F[1..i]
    OBVIOUS
  <2> HIDE DEF Step, seq, h
  <2>2. \A i \in 0..N : 1..i \in SUBSET (DOMAIN seq)
    BY <1>0, <1>4
  <2>3. \A i \in 0..N : F[1..i] = Step(F, 1..i)
    BY <1>6, <2>2
  <2> QED BY <2>1, <2>3
<1>8. h[0] = <<>>
  <2>1. 1..0 = {} /\ 0 \in 0..N
    BY <1>0
  <2> HIDE DEF h, seq
  <2> QED BY <1>7, <2>1
<1>9. ASSUME NEW i \in 0..(N - 1) PROVE h[i + 1] = HeapPush(h[i], pushes[i + 1])
  <2>1. i \in 0..N /\ i + 1 \in 0..N /\ i + 1 \in 1..N /\ 1..(i + 1) # {}
    BY <1>0
  <2>2. Max(1..(i + 1)) = i + 1
    <3>1. 1..(i + 1) \subseteq 0..(i + 1) /\ i + 1 \in Nat
      BY <2>1
    <3>2. Max(1..(i + 1)) \in 1..(i + 1) /\ \A y \in 1..(i + 1) : y <= Max(1..(i + 1))
      BY <2>1, <3>1, GreatestNumber
    <3> QED BY <2>1, <3>1, <3>2
  <2>3. (1..(i + 1)) \ {i + 1} = 1..i
    BY <2>1
  <2>4. seq[i + 1] = pushes[i + 1]
    OBVIOUS
  <2>5. h[i + 1] = HeapPush(F[(1..(i + 1)) \ {Max(1..(i + 1))}], seq[Max(1..(i + 1))])
    <3> HIDE DEF h, seq
    <3> QED BY <1>7, <2>1
  <2>6. h[i] = F[1..i]
    BY <2>1
  <2> HIDE DEF h, seq
  <2> QED BY <2>2, <2>3, <2>4, <2>5, <2>6
<1>10. Heapified(pushes) = h[N]
  <2>1. N \in 0..N
    BY <1>0
  <2> QED BY <1>4, <1>5, <2>1
<1> HIDE DEF h
<1> QED BY <1>8, <1>9, <1>10 DEF N, AfterPushes

\* The heap and what has come out of it after each of the pops.
AfterPops(f, h, N) ==
  /\ f[0] = [rest |-> h, out |-> <<>>]
  /\ \A i \in 0..(N - 1) : f[i + 1] = PopNext(f[i], i + 1)
  /\ Drained(h, N) = f[N]

\* The fold by which Drained is defined pops one element after the other.
LEMMA DrainedSteps ==
  ASSUME NEW h, NEW N \in Nat
  PROVE  \E f : AfterPops(f, h, N)
<1> DEFINE full == [rest |-> h, out |-> <<>>]
           seq == [k \in 1..N |-> k]
           Step(it, s) == IF s = {} THEN full ELSE PopNext(it[s \ {Max(s)}], seq[Max(s)])
           Upto(it, n) == it = [s \in SUBSET (1..n) |-> Step(it, s)]
           T == {n \in Nat : \E it : Upto(it, n)}
<1>1. 0 \in T
  <2> DEFINE it == [s \in SUBSET (1..0) |-> full]
  <2>1. \A s \in SUBSET (1..0) : Step(it, s) = full
    OBVIOUS
  <2>2. Upto(it, 0)
    <3> HIDE DEF Step
    <3> QED BY <2>1
  <2> HIDE DEF it, Upto
  <2> QED BY <2>2
<1>2. ASSUME NEW n \in Nat, n \in T PROVE n + 1 \in T
  <2>1. PICK f : Upto(f, n)
    BY <1>2
  <2> DEFINE g == [s \in SUBSET (1..(n + 1)) |->
                     IF n + 1 \in s THEN PopNext(f[s \ {n + 1}], seq[n + 1]) ELSE f[s]]
  <2>2. \A s \in SUBSET (1..n) : f[s] = Step(f, s) /\ g[s] = f[s]
    <3>1. \A s \in SUBSET (1..n) : f[s] = Step(f, s)
      <4> HIDE DEF Step
      <4> QED BY <2>1
    <3>2. ASSUME NEW s \in SUBSET (1..n) PROVE g[s] = f[s]
      <4>1. s \in SUBSET (1..(n + 1)) /\ n + 1 \notin s
        OBVIOUS
      <4> HIDE DEF seq
      <4> QED BY <4>1
    <3> HIDE DEF Step
    <3> QED BY <3>1, <3>2
  <2>3. ASSUME NEW s \in SUBSET (1..(n + 1)) PROVE g[s] = Step(g, s)
    <3>1. CASE s = {}
      <4>1. g[s] = f[s] /\ f[s] = Step(f, s)
        <5> HIDE DEF Step, g
        <5> QED BY <2>2, <3>1
      <4> QED BY <3>1, <4>1
    <3>2. CASE s # {}
      <4>1. Max(s) \in s /\ \A y \in s : y <= Max(s)
        <5>1. s \subseteq 0..(n + 1) /\ n + 1 \in Nat
          OBVIOUS
        <5> QED BY <3>2, <5>1, GreatestNumber
      <4>2. s \ {Max(s)} \in SUBSET (1..n)
        <5>1. ASSUME NEW y \in s \ {Max(s)} PROVE y \in 1..n
          <6>1. y <= Max(s) /\ y # Max(s) /\ Max(s) \in 1..(n + 1) /\ y \in 1..(n + 1)
            BY <4>1
          <6> QED BY <6>1
        <5> QED BY <5>1
      <4>3. g[s \ {Max(s)}] = f[s \ {Max(s)}]
        <5> HIDE DEF Step, g
        <5> QED BY <2>2, <4>2
      <4>4. CASE n + 1 \in s
        <5>1. Max(s) = n + 1
          <6>1. n + 1 <= Max(s) /\ Max(s) \in 1..(n + 1)
            BY <4>1, <4>4
          <6> QED BY <6>1
        <5>2. g[s] = PopNext(f[s \ {n + 1}], seq[n + 1])
          BY <4>4
        <5> HIDE DEF seq, g
        <5> QED BY <3>2, <4>3, <5>1, <5>2
      <4>5. CASE n + 1 \notin s
        <5>1. s \in SUBSET (1..n)
          BY <4>5
        <5>2. g[s] = Step(f, s)
          <6> HIDE DEF Step, g
          <6> QED BY <2>2, <5>1
        <5> HIDE DEF seq, g
        <5> QED BY <3>2, <4>3, <5>2
      <4> QED BY <4>4, <4>5
    <3> QED BY <3>1, <3>2
  <2>4. Upto(g, n + 1)
    <3> HIDE DEF Step
    <3> QED BY <2>3
  <2> HIDE DEF g, Upto
  <2> QED BY <2>4
<1>3. \E it : Upto(it, N)
  <2>1. N \in T
    <3> HIDE DEF T
    <3> QED BY <1>1, <1>2, SetInduction
  <2> QED BY <2>1
<1>4. DOMAIN seq = 1..N
  OBVIOUS
<1> DEFINE F == CHOOSE it : it = [s \in SUBSET (DOMAIN seq) |-> Step(it, s)]
<1>5. Drained(h, N) = F[DOMAIN seq]
  BY DEF Drained, FoldLeft, MapThenFoldSet
<1>6. F = [s \in SUBSET (DOMAIN seq) |-> Step(F, s)]
  <2> HIDE DEF Step, seq
  <2>1. PICK it : Upto(it, N)
    BY <1>3
  <2>2. it = [s \in SUBSET (DOMAIN seq) |-> Step(it, s)]
    BY <1>4, <2>1
  <2> QED BY <2>2
<1> HIDE DEF F
<1> DEFINE u == [i \in 0..N |-> F[1..i]]
<1>7. \A i \in 0..N : u[i] = Step(F, 1..i)
  <2>1. \A i \in 0..N : u[i] = F[1..i]
    OBVIOUS
  <2> HIDE DEF Step, seq, u
  <2>2. \A i \in 0..N : 1..i \in SUBSET (DOMAIN seq)
    BY <1>4
  <2>3. \A i \in 0..N : F[1..i] = Step(F, 1..i)
    BY <1>6, <2>2
  <2> QED BY <2>1, <2>3
<1>8. u[0] = full
  <2>1. 1..0 = {} /\ 0 \in 0..N
    OBVIOUS
  <2> HIDE DEF u, seq
  <2> QED BY <1>7, <2>1
<1>9. ASSUME NEW i \in 0..(N - 1) PROVE u[i + 1] = PopNext(u[i], i + 1)
  <2>1. i \in 0..N /\ i + 1 \in 0..N /\ i + 1 \in 1..N /\ 1..(i + 1) # {}
    OBVIOUS
  <2>2. Max(1..(i + 1)) = i + 1
    <3>1. 1..(i + 1) \subseteq 0..(i + 1) /\ i + 1 \in Nat
      BY <2>1
    <3>2. Max(1..(i + 1)) \in 1..(i + 1) /\ \A y \in 1..(i + 1) : y <= Max(1..(i + 1))
      BY <2>1, <3>1, GreatestNumber
    <3> QED BY <2>1, <3>1, <3>2
  <2>3. (1..(i + 1)) \ {i + 1} = 1..i
    BY <2>1
  <2>4. seq[i + 1] = i + 1
    BY <2>1
  <2>5. u[i + 1] = PopNext(F[(1..(i + 1)) \ {Max(1..(i + 1))}], seq[Max(1..(i + 1))])
    <3> HIDE DEF u, seq
    <3> QED BY <1>7, <2>1
  <2>6. u[i] = F[1..i]
    BY <2>1
  <2> HIDE DEF u, seq
  <2> QED BY <2>2, <2>3, <2>4, <2>5, <2>6
<1>10. Drained(h, N) = u[N]
  <2>1. N \in 0..N
    OBVIOUS
  <2> QED BY <1>4, <1>5, <2>1
<1> HIDE DEF u
<1> QED BY <1>8, <1>9, <1>10 DEF AfterPops

\* An event that enters the empty heap is its only element.
LEMMA PushIntoEmpty ==
  ASSUME NEW e
  PROVE  HeapPush(<<>>, e) = <<e>>
<1>1. Len(<<>>) + 1 = 1 /\ 1 \in 1..1 /\ 1 \in Nat
  OBVIOUS
<1>2. Ancestors(1)[1] = {}
  BY <1>1, AncestorSteps
<1>3. HeapPush(<<>>, e) = [i \in 1..1 |-> e]
  BY <1>1, <1>2 DEF HeapPush
<1>4. <<e>> = [i \in 1..1 |-> e]
  OBVIOUS
<1> QED BY <1>3, <1>4

\* A drain of one element leaves nothing and returns that element.
LEMMA DrainOfOne ==
  ASSUME NEW e
  PROVE  drainLocked(<<e>>) = [rest |-> <<>>, out |-> <<e>>]
<1>1. Len(<<e>>) = 1 /\ 1 \in Nat /\ 0 \in 0..(1 - 1) /\ 0 + 1 = 1
  OBVIOUS
<1>2. PICK f : AfterPops(f, <<e>>, 1)
  BY <1>1, DrainedSteps
<1>3. f[1] = PopNext(f[0], 1) /\ f[0] = [rest |-> <<e>>, out |-> <<>>]
  BY <1>1, <1>2 DEF AfterPops
<1>4. PopNext([rest |-> <<e>>, out |-> <<>>], 1) = [rest |-> <<>>, out |-> <<e>>]
  BY DEF PopNext, HeapTop
<1> QED BY <1>1, <1>2, <1>3, <1>4 DEF AfterPops, drainLocked

-----------------------------------------------------------------------------
(* What a drain returns *)

\* Whatever is pushed, in whatever order, makes an ordered heap of it.
LEMMA HeapifiedOrdered ==
  ASSUME NEW S, NEW pushes \in Seq(S)
  PROVE  LET h == Heapified(pushes) IN
         /\ h \in Seq(S) /\ Len(h) = Len(pushes) /\ Range(h) = Range(pushes)
         /\ HeapOrdered(h)
<1>0. PICK f : AfterPushes(f, pushes)
  BY HeapifiedSteps
<1> DEFINE L == Len(pushes)
<1>1. /\ f[0] = <<>> /\ Heapified(pushes) = f[L]
      /\ \A i \in 0..(L - 1) : f[i + 1] = HeapPush(f[i], pushes[i + 1])
  BY <1>0 DEF AfterPushes
<1>2. L \in Nat /\ DOMAIN pushes = 1..L /\ \A i \in 1..L : pushes[i] \in S
  BY LenProperties, ElementOfSeq
<1> HIDE DEF L
<1> DEFINE Pushed(n) == {pushes[i] : i \in 1..n}
           Good(n) == /\ f[n] \in Seq(S) /\ Len(f[n]) = n /\ Range(f[n]) = Pushed(n)
                      /\ HeapOrdered(f[n])
           T == {n \in Nat : n <= L => Good(n)}
<1>3. 0 \in T
  <2>1. <<>> \in Seq(S) /\ Len(<<>>) = 0 /\ Range(<<>>) = {} /\ HeapOrdered(<<>>)
    BY DEF Range, HeapOrdered
  <2>2. Pushed(0) = {}
    OBVIOUS
  <2> HIDE DEF Pushed
  <2> QED BY <1>1, <2>1, <2>2
<1>4. ASSUME NEW n \in Nat, n \in T PROVE n + 1 \in T
  <2>1. SUFFICES ASSUME n + 1 <= L PROVE Good(n + 1)
    OBVIOUS
  <2>2. n <= L /\ n \in 0..(L - 1) /\ n + 1 \in 1..L
    BY <1>2, <2>1
  <2>3. Good(n)
    <3> HIDE DEF Good
    <3> QED BY <1>4, <2>2
  <2>4. f[n + 1] = HeapPush(f[n], pushes[n + 1]) /\ pushes[n + 1] \in S
    BY <1>1, <1>2, <2>2
  <2>5. /\ f[n + 1] \in Seq(S) /\ Len(f[n + 1]) = Len(f[n]) + 1
        /\ Range(f[n + 1]) = Range(f[n]) \cup {pushes[n + 1]}
        /\ HeapOrdered(f[n + 1])
    <3> DEFINE h == f[n]
               e == pushes[n + 1]
    <3>1. h \in Seq(S) /\ e \in S /\ HeapOrdered(h) /\ f[n + 1] = HeapPush(h, e)
      BY <2>3, <2>4
    <3> HIDE DEF h, e
    <3>2. /\ HeapPush(h, e) \in Seq(S) /\ Len(HeapPush(h, e)) = Len(h) + 1
          /\ Range(HeapPush(h, e)) = Range(h) \cup {e} /\ HeapOrdered(HeapPush(h, e))
      BY <3>1, PushKeepsHeap
    <3> QED BY <3>1, <3>2 DEF h, e
  <2>6. Pushed(n + 1) = Pushed(n) \cup {pushes[n + 1]}
    <3>1. 1..(n + 1) = 1..n \cup {n + 1}
      BY <1>2, <2>2
    <3> QED BY <3>1
  <2> QED BY <2>3, <2>5, <2>6
<1>5. Good(L)
  <2>1. L \in T
    <3> HIDE DEF T
    <3> QED BY <1>2, <1>3, <1>4, SetInduction
  <2> QED BY <1>2, <2>1
<1>6. Pushed(L) = Range(pushes)
  BY <1>2 DEF Range
<1> QED BY <1>1, <1>5, <1>6 DEF L

\* An ordered heap is drained to the last element, in the order of the ranks.
LEMMA DrainSorts ==
  ASSUME NEW S, NEW h \in Seq(S), HeapOrdered(h)
  PROVE  LET out == drainLocked(h).out IN
         /\ out \in Seq(S) /\ Len(out) = Len(h) /\ Range(out) = Range(h)
         /\ \A i, j \in DOMAIN out : i < j => Rank(out[i]) <= Rank(out[j])
<1>0. Len(h) \in Nat
  BY LenProperties
<1>d. PICK f : AfterPops(f, h, Len(h))
  BY <1>0, DrainedSteps
<1> DEFINE L == Len(h)
<1>1. L \in Nat
  BY <1>0
<1>2. /\ f[0] = [rest |-> h, out |-> <<>>] /\ Drained(h, L) = f[L]
      /\ \A i \in 0..(L - 1) : f[i + 1] = PopNext(f[i], i + 1)
  BY <1>d DEF AfterPops
<1>l. L = Len(h) /\ drainLocked(h) = f[L]
  BY <1>2 DEF drainLocked
<1> HIDE DEF L
<1> DEFINE Ranked(s) == \A i, j \in DOMAIN s : i < j => Rank(s[i]) <= Rank(s[j])
           Good(k) == /\ f[k].rest \in Seq(S) /\ Len(f[k].rest) = L - k
                      /\ HeapOrdered(f[k].rest)
                      /\ f[k].out \in Seq(S) /\ Len(f[k].out) = k /\ Ranked(f[k].out)
                      /\ Range(f[k].rest) \cup Range(f[k].out) = Range(h)
                      /\ \A x \in Range(f[k].out), y \in Range(f[k].rest) : Rank(x) <= Rank(y)
           T == {k \in Nat : k <= L => Good(k)}
<1>3. 0 \in T
  <2>1. f[0].rest = h /\ f[0].out = <<>> /\ L - 0 = L
    BY <1>1, <1>2
  <2>2. <<>> \in Seq(S) /\ Len(<<>>) = 0 /\ Range(<<>>) = {} /\ Ranked(<<>>)
    BY DEF Range
  <2> HIDE DEF Ranked
  <2> QED BY <1>l, <2>1, <2>2
<1>4. ASSUME NEW k \in Nat, k \in T PROVE k + 1 \in T
  <2>1. SUFFICES ASSUME k + 1 <= L PROVE Good(k + 1)
    OBVIOUS
  <2> DEFINE r == f[k].rest
             o == f[k].out
             s == IF Len(r) = 1 THEN <<>> ELSE HeapRest(r)
             top == HeapTop(r)
  <2>2. k <= L /\ k \in 0..(L - 1)
    BY <1>1, <2>1
  <2>3. Good(k)
    <3> HIDE DEF Good
    <3> QED BY <1>4, <2>2
  <2>4. f[k + 1].rest = s /\ f[k + 1].out = Append(o, top)
    <3>1. f[k + 1] = PopNext(f[k], k + 1)
      BY <1>2, <2>2
    <3> QED BY <3>1 DEF PopNext
  <2>5. /\ r \in Seq(S) /\ Len(r) = L - k /\ HeapOrdered(r)
        /\ o \in Seq(S) /\ Len(o) = k /\ Ranked(o)
        /\ Range(r) \cup Range(o) = Range(h)
        /\ \A x \in Range(o), y \in Range(r) : Rank(x) <= Rank(y)
    BY <2>3
  <2>s. (Len(r) = 1 => s = <<>>) /\ (Len(r) # 1 => s = HeapRest(r))
    OBVIOUS
  <2> HIDE DEF r, o, s
  <2>6. Len(r) \in Nat /\ Len(r) >= 1 /\ DOMAIN r = 1..Len(r) /\ 1 \in DOMAIN r
    BY <1>1, <2>1, <2>5, LenProperties
  <2>7. top \in S /\ top \in Range(r)
    BY <2>5, <2>6, ElementOfSeq DEF HeapTop, Range
  <2>8. \A y \in Range(r) : Rank(top) <= Rank(y)
    BY <2>5, <2>6, TopIsLeast DEF Range
  <2>9. s \in Seq(S) /\ Len(s) = Len(r) - 1 /\ HeapOrdered(s) /\ Range(r) = Range(s) \cup {top}
    <3>1. CASE Len(r) = 1
      <4>1. /\ <<>> \in Seq(S) /\ Len(<<>>) = 0 /\ Range(<<>>) = {} /\ HeapOrdered(<<>>)
        BY DEF Range, HeapOrdered
      <4>2. Range(r) = {top}
        BY <2>6, <3>1 DEF Range, HeapTop
      <4> QED BY <2>s, <3>1, <4>1, <4>2
    <3>2. CASE Len(r) # 1
      <4>1. Len(r) >= 2
        BY <2>6, <3>2
      <4> QED BY <2>5, <2>s, <3>2, <4>1, PopKeepsHeap DEF HeapTop
    <3> QED BY <3>1, <3>2
  <2> HIDE DEF top
  <2>10. /\ Append(o, top) \in Seq(S) /\ Len(Append(o, top)) = k + 1
         /\ Range(Append(o, top)) = Range(o) \cup {top}
    BY <2>5, <2>7, AppendProperties, RangeAppend
  <2>11. Ranked(Append(o, top))
    <3> DEFINE a == Append(o, top)
    <3>1. SUFFICES ASSUME NEW i \in DOMAIN a, NEW j \in DOMAIN a, i < j
                   PROVE  Rank(a[i]) <= Rank(a[j])
      OBVIOUS
    <3>2. DOMAIN o = 1..k /\ DOMAIN a = 1..(k + 1) /\ a[k + 1] = top /\ \A m \in 1..k : a[m] = o[m]
      BY <2>5, <2>7, <2>10, LenProperties, AppendElements
    <3> HIDE DEF a
    <3>3. i \in 1..k /\ a[i] = o[i] /\ o[i] \in Range(o)
      BY <3>1, <3>2 DEF Range
    <3>4. CASE j = k + 1
      BY <2>5, <2>7, <3>2, <3>3, <3>4
    <3>5. CASE j # k + 1
      <4>1. j \in 1..k /\ a[j] = o[j]
        BY <3>2, <3>5
      <4> QED BY <2>5, <3>1, <3>2, <3>3, <4>1
    <3> QED BY <3>4, <3>5
  <2> HIDE DEF Ranked
  <2>12. Len(s) = L - (k + 1)
    BY <1>1, <2>5, <2>9
  <2>13. Range(s) \cup (Range(o) \cup {top}) = Range(h)
    BY <2>5, <2>9
  <2>14. \A x \in Range(o) \cup {top}, y \in Range(s) : Rank(x) <= Rank(y)
    BY <2>5, <2>8, <2>9
  <2> QED BY <2>4, <2>9, <2>10, <2>11, <2>12, <2>13, <2>14
<1>5. Good(L)
  <2>1. L \in T
    <3> HIDE DEF T
    <3> QED BY <1>1, <1>3, <1>4, SetInduction
  <2> QED BY <1>1, <2>1
<1>6. Range(f[L].rest) = {}
  <2>1. Len(f[L].rest) = 0 /\ f[L].rest \in Seq(S)
    BY <1>1, <1>5
  <2>2. f[L].rest = <<>>
    BY <2>1, EmptySeq
  <2> QED BY <2>2 DEF Range
<1> QED BY <1>5, <1>6, <1>l

\* organizer.go:46-47, "the highest priority is dequeued first", for every
\* sequence of pushes of any length: the heap is ordered after the last push,
\* and a drain returns all that was pushed, the most urgent first.
THEOREM HeapSortsPushes ==
  ASSUME NEW S, NEW pushes \in Seq(S)
  PROVE  LET h == Heapified(pushes)
         IN  HeapOrdered(h) /\ SortedByUrgency(drainLocked(h).out, pushes)
<1> DEFINE h == Heapified(pushes)
           out == drainLocked(h).out
<1>1. h \in Seq(S) /\ Len(h) = Len(pushes) /\ Range(h) = Range(pushes) /\ HeapOrdered(h)
  BY HeapifiedOrdered
<1> HIDE DEF h
<1>2. /\ Len(out) = Len(h) /\ Range(out) = Range(h)
      /\ \A i, j \in DOMAIN out : i < j => Rank(out[i]) <= Rank(out[j])
  BY <1>1, DrainSorts
<1> HIDE DEF out
<1>3. \A i, j \in DOMAIN out : i < j => ~MoreUrgent(out[j], out[i])
  BY <1>2, RankOrder
<1>4. SortedByUrgency(out, pushes)
  BY <1>1, <1>2, <1>3 DEF SortedByUrgency
<1> QED BY <1>1, <1>4 DEF h, out

\* The heap sorts in every state of every run, whatever the events and their
\* priorities: a dataset is finite.
THEOREM HeapAlwaysSorts ==
  ASSUME IsFiniteSet(DOMAIN PriorityOf)
  PROVE  Spec => []HeapSorts
<1>1. ASSUME NEW pushes \in SetToAllKPermutations(DOMAIN PriorityOf)
      PROVE  pushes \in Seq(DOMAIN PriorityOf)
  <2>1. PICK s \in SUBSET DOMAIN PriorityOf : pushes \in SetToSeqs(s)
    BY DEF SetToAllKPermutations
  <2>2. Cardinality(s) \in Nat
    BY FS_Subset, FS_CardinalityType
  <2>3. pushes \in [1..Cardinality(s) -> s]
    BY <2>1 DEF SetToSeqs
  <2>4. pushes \in [1..Cardinality(s) -> DOMAIN PriorityOf]
    BY <2>3
  <2> QED BY <2>2, <2>4
<1>2. HeapSorts
  BY <1>1, HeapSortsPushes DEF HeapSorts
<1> QED BY <1>2, PTL

-----------------------------------------------------------------------------
(* Types, and the heap between two deliveries *)

\* An event whose type is known has a team to go to.
LEMMA KnownTeam ==
  ASSUME NEW e, Team(e) # "unknown"
  PROVE  Team(e) \in AllTeams
<1>1. IsValidEventType(TypeOf[e])
  BY DEF Team, GetTeam
<1>2. \E t \in AllTeams : TypeOf[e] \in TypesOfTeam[t]
  BY <1>1 DEF IsValidEventType, EventTypes
<1> QED BY <1>1, <1>2 DEF Team, GetTeam

\* What is in the hands of handleDelivery are the events of the batch, as the
\* heap is empty.
LEMMA InHandIsBatch ==
  ASSUME TypeOK, NothingLeftInHeap
  PROVE  /\ pq \o batch = batch /\ batch \in Seq(Events)
         /\ \A e \in Range(batch) : Team(e) \in AllTeams
<1>1. batch \in Seq(Events) /\ pq = <<>>
  BY DEF TypeOK, NothingLeftInHeap
<1>2. <<>> \o batch = batch
  BY <1>1, ConcatEmptySeq
<1> QED BY <1>1, <1>2 DEF TypeOK

\* handleDelivery takes the message at the head of its deliveries: an event
\* that has a team becomes the batch, any other is gone, and the heap stays
\* empty.
LEMMA HandleStep ==
  ASSUME TypeOK, NothingLeftInHeap, HandleDelivery
  PROVE  /\ pc = "select" /\ deliveries # <<>> /\ batch = <<>> /\ pq' = <<>>
         /\ deliveries' = Tail(deliveries) /\ Head(deliveries) \in Messages
         /\ stamped' = stamped \cup ({Head(deliveries)} \ Malformed)
         /\ UNCHANGED <<up, cancelled, queueValidated, subscription, arrived, teamQueues, routed,
                      unrouted>>
         /\ \/ pc' = "select" /\ batch' = <<>>
            \/ /\ Head(deliveries) \in Events /\ Team(Head(deliveries)) \in AllTeams
               /\ pc' = "route" /\ batch' = <<Head(deliveries)>>
<1> DEFINE e == Head(deliveries)
<1>1. /\ pc = "select" /\ deliveries # <<>> /\ deliveries' = Tail(deliveries)
      /\ stamped' = stamped \cup ({e} \ Malformed)
      /\ UNCHANGED <<up, cancelled, queueValidated, subscription, arrived, teamQueues, routed,
                      unrouted>>
  BY DEF HandleDelivery, Validated!Read
<1>2. pq = <<>> /\ batch = <<>>
  BY <1>1 DEF NothingLeftInHeap
<1>3. e \in Messages
  BY <1>1, RangeTail DEF TypeOK, Validated!TypeOK
<1>4. CASE e \in Malformed \/ Team(e) = "unknown"
  BY <1>1, <1>2, <1>3, <1>4 DEF HandleDelivery
<1>5. CASE ~(e \in Malformed \/ Team(e) = "unknown")
  <2>1. PushAndDrain(e)
    BY <1>5 DEF HandleDelivery
  <2>2. drainLocked(HeapPush(pq, e)) = [rest |-> <<>>, out |-> <<e>>]
    BY <1>2, PushIntoEmpty, DrainOfOne
  <2>3. pq' = <<>> /\ batch' = <<e>> /\ pc' = "route"
    BY <2>1, <2>2 DEF PushAndDrain
  <2>4. e \in Events
    BY <1>3, <1>5 DEF Messages
  <2> QED BY <1>1, <1>2, <1>3, <1>5, <2>3, <2>4, KnownTeam
<1> QED BY <1>4, <1>5

\* RouteEvent hands the head of the batch to its team, or notes that it could
\* not.
LEMMA RouteStep ==
  ASSUME TypeOK, NothingLeftInHeap, RouteEvent
  PROVE  /\ pc = "route" /\ batch # <<>> /\ batch' = Tail(batch)
         /\ Head(batch) \in Events /\ Team(Head(batch)) \in AllTeams
         /\ UNCHANGED <<consumerVars, arrived, pc, pq, stamped>>
         /\ unrouted' \subseteq unrouted \cup {Head(batch)}
         /\ \/ UNCHANGED <<teamQueues, routed>>
            \/ /\ routed' = routed + 1
               /\ teamQueues' = [teamQueues EXCEPT ![Team(Head(batch))] =
                                    Append(teamQueues[Team(Head(batch))], Head(batch))]
<1>1. batch # <<>> /\ batch \in Seq(Events)
  BY DEF RouteEvent, TypeOK
<1>2. Range(batch) = {Head(batch)} \cup Range(Tail(batch)) /\ Head(batch) \in Events
  BY <1>1, RangeTail
<1>3. Team(Head(batch)) \in AllTeams
  BY <1>2, InHandIsBatch
<1> QED BY <1>1, <1>2, <1>3 DEF RouteEvent

\* The initial state is well typed, and the heap is empty.
LEMMA TypeInit == Init => TypeOK /\ NothingLeftInHeap
<1> SUFFICES ASSUME Init PROVE TypeOK /\ NothingLeftInHeap
  OBVIOUS
<1>1. /\ <<>> \o <<>> = <<>> /\ Range(<<>>) = {}
      /\ <<>> \in Seq(Events) /\ <<>> \in Seq(Messages)
  BY DEF Range
<1>2. Validated!TypeOK /\ arrived \in Seq(Messages)
  BY <1>1 DEF Init, Validated!Init, Validated!TypeOK
<1>3. teamQueues \in [AllTeams -> Seq(Events)]
  BY <1>1 DEF Init
<1> QED BY <1>1, <1>2, <1>3 DEF Init, TypeOK, NothingLeftInHeap

\* The steps of the queue and the subscription are typed.
LEMMA ConsumerTyped ==
  ASSUME Validated!TypeOK,
         \/ \E m \in Messages : Validated!Enqueue(m)
         \/ Validated!Cancel \/ Validated!Disconnect \/ Validated!Subscribe
         \/ Validated!Deliver \/ Validated!Close \/ Validated!Read \/ Validated!Leave
         \/ UNCHANGED consumerVars
  PROVE  Validated!TypeOK'
<1>0. queueValidated \in Seq(Messages) /\ deliveries \in Seq(Messages)
  BY DEF Validated!TypeOK
<1>1. CASE \E m \in Messages : Validated!Enqueue(m)
  BY <1>1 DEF Validated!Enqueue, Validated!TypeOK
<1>2. CASE Validated!Deliver
  <2>1. Head(queueValidated) \in Messages /\ Tail(queueValidated) \in Seq(Messages)
    BY <1>0, <1>2 DEF Validated!Deliver
  <2> QED BY <1>0, <1>2, <2>1 DEF Validated!Deliver, Validated!TypeOK
<1>3. CASE Validated!Close
  <2>1. PICK n \in 0..Len(deliveries) : deliveries' = SubSeq(deliveries, 1, n)
    BY <1>3 DEF Validated!Close
  <2>2. deliveries' \in Seq(Messages)
    BY <1>0, <2>1
  <2> QED BY <1>3, <2>2 DEF Validated!Close, Validated!TypeOK
<1>4. CASE Validated!Read
  BY <1>4 DEF Validated!Read, Validated!TypeOK
<1>5. CASE Validated!Cancel \/ Validated!Disconnect
  BY <1>5 DEF Validated!Cancel, Validated!Disconnect, Validated!TypeOK
<1>6. CASE Validated!Subscribe \/ Validated!Leave
  <2>1. /\ UNCHANGED <<up, cancelled, queueValidated>>
        /\ subscription' \in {"open", "closed"}
        /\ deliveries' = deliveries \/ deliveries' = <<>>
    <3>1. CASE Validated!Subscribe
      BY <3>1 DEF Validated!Subscribe
    <3>2. CASE Validated!Leave
      BY <3>2 DEF Validated!Leave
    <3> QED BY <1>6, <3>1, <3>2
  <2>2. <<>> \in Seq(Messages)
    OBVIOUS
  <2>3. deliveries' \in Seq(Messages)
    BY <1>0, <2>1, <2>2, Zenon
  <2> QED BY <2>1, <2>3 DEF Validated!TypeOK
<1>7. CASE UNCHANGED consumerVars
  BY <1>7 DEF Validated!TypeOK, consumerVars
<1> QED BY <1>1, <1>2, <1>3, <1>4, <1>5, <1>6, <1>7

\* Every step keeps the types and finds and leaves the heap empty.
LEMMA TypeStep ==
  ASSUME TypeOK, NothingLeftInHeap, [Next]_vars
  PROVE  TypeOK' /\ NothingLeftInHeap'
<1>0. /\ Validated!TypeOK /\ arrived \in Seq(Messages)
      /\ teamQueues \in [AllTeams -> Seq(Events)] /\ routed \in Nat /\ stamped \subseteq Events
      /\ unrouted \subseteq Events
      /\ pq = <<>> /\ batch \in Seq(Events)
  BY DEF TypeOK, NothingLeftInHeap
<1> DEFINE Rest == /\ arrived' \in Seq(Messages)
                   /\ pc' \in {"start", "select", "route", "returned"}
                   /\ batch' \in Seq(Events) /\ stamped' \subseteq Events
                   /\ unrouted' \subseteq Events
                   /\ \A e \in Range(batch') : Team(e) \in AllTeams
                   /\ teamQueues' \in [AllTeams -> Seq(Events)] /\ routed' \in Nat
                   /\ pq' = <<>> /\ (pc' # "route" => batch' = <<>>)
<1>1. ASSUME Validated!TypeOK', Rest PROVE TypeOK' /\ NothingLeftInHeap'
  <2>1. pq' \o batch' = batch' /\ pq' \in Seq(Events)
    BY <1>1, ConcatEmptySeq
  <2> QED BY <1>1, <2>1 DEF TypeOK, NothingLeftInHeap
<1>2. \A e \in Range(batch) : Team(e) \in AllTeams
  BY InHandIsBatch
<1>3. CASE \E m \in Messages : Arrive(m)
  <2>1. PICK m \in Messages : Arrive(m)
    BY <1>3
  <2>2. Validated!TypeOK'
    BY <1>0, <2>1, ConsumerTyped DEF Arrive
  <2>3. arrived' \in Seq(Messages)
    BY <1>0, <2>1 DEF Arrive
  <2>4. Rest
    BY <1>0, <1>2, <2>1, <2>3 DEF Arrive, runVars, TypeOK, NothingLeftInHeap
  <2> QED BY <1>1, <2>2, <2>4
<1>4. CASE Deliver \/ ConsumerCloses \/ Disturb
  <2>1. Validated!TypeOK'
    BY <1>0, <1>4, ConsumerTyped DEF Deliver, ConsumerCloses, Disturb
  <2>2. UNCHANGED <<arrived, runVars>>
    BY <1>4 DEF Deliver, ConsumerCloses, Disturb
  <2>3. Rest
    BY <1>0, <1>2, <2>2 DEF runVars, TypeOK, NothingLeftInHeap
  <2> QED BY <1>1, <2>1, <2>3
<1>5. CASE Start \/ RecvDone \/ RecvClosed \/ EndOfBatch
  <2>1. Validated!TypeOK'
    BY <1>0, <1>5, ConsumerTyped DEF Start, RecvDone, RecvClosed, EndOfBatch
  <2>2. /\ UNCHANGED <<arrived, pq, batch, stamped, teamQueues, routed, unrouted>>
        /\ pc' \in {"select", "returned"} /\ batch = <<>>
    BY <1>5 DEF Start, RecvDone, RecvClosed, EndOfBatch, NothingLeftInHeap
  <2>3. Rest
    BY <1>0, <1>2, <2>2
  <2> QED BY <1>1, <2>1, <2>3
<1>6. CASE HandleDelivery
  <2> DEFINE e == Head(deliveries)
  <2>1. /\ e \in Messages /\ pq' = <<>> /\ stamped' = stamped \cup ({e} \ Malformed)
        /\ UNCHANGED <<arrived, teamQueues, routed, unrouted>>
        /\ \/ pc' = "select" /\ batch' = <<>>
           \/ (e \in Events /\ Team(e) \in AllTeams /\ pc' = "route" /\ batch' = <<e>>)
    BY <1>6, HandleStep
  <2>2. Validated!TypeOK'
    BY <1>0, <1>6, ConsumerTyped DEF HandleDelivery
  <2> HIDE DEF e
  <2>3. /\ Range(<<e>>) = {e} /\ Range(<<>>) = {} /\ <<>> \in Seq(Events)
        /\ e \in Events => <<e>> \in Seq(Events)
    BY DEF Range
  <2>4. batch' \in Seq(Events) /\ \A x \in Range(batch') : Team(x) \in AllTeams
    BY <2>1, <2>3
  <2>6. stamped' \subseteq Events
    BY <1>0, <2>1 DEF Messages
  <2>5. Rest
    BY <1>0, <2>1, <2>4, <2>6
  <2> QED BY <1>1, <2>2, <2>5
<1>7. CASE RouteEvent
  <2> DEFINE e == Head(batch)
             t == Team(e)
  <2>1. /\ pc = "route" /\ batch # <<>> /\ batch' = Tail(batch) /\ e \in Events /\ t \in AllTeams
        /\ UNCHANGED <<consumerVars, arrived, pc, pq, stamped>>
        /\ unrouted' \subseteq unrouted \cup {e}
        /\ \/ UNCHANGED <<teamQueues, routed>>
           \/ /\ routed' = routed + 1
              /\ teamQueues' = [teamQueues EXCEPT ![t] = Append(teamQueues[t], e)]
    BY <1>7, RouteStep
  <2>2. Validated!TypeOK'
    BY <1>0, <2>1, ConsumerTyped
  <2>3. Range(batch) = {e} \cup Range(Tail(batch)) /\ Tail(batch) \in Seq(Events)
    BY <1>0, <2>1, RangeTail
  <2> HIDE DEF e, t
  <2>4. Append(teamQueues[t], e) \in Seq(Events)
    BY <1>0, <2>1
  <2>5. teamQueues' \in [AllTeams -> Seq(Events)]
    BY <1>0, <2>1, <2>4
  <2>7. routed' \in Nat
    BY <1>0, <2>1
  <2>6. Rest
    BY <1>0, <1>2, <2>1, <2>3, <2>5, <2>7
  <2> QED BY <1>1, <2>2, <2>6
<1>8. CASE UNCHANGED vars
  <2>1. Validated!TypeOK'
    BY <1>0, <1>8, ConsumerTyped DEF vars
  <2>2. UNCHANGED <<arrived, runVars>>
    BY <1>8 DEF vars
  <2>3. Rest
    BY <1>0, <1>2, <2>2 DEF runVars, TypeOK, NothingLeftInHeap
  <2> QED BY <1>1, <2>1, <2>3
<1> QED BY <1>3, <1>4, <1>5, <1>6, <1>7, <1>8 DEF Next, Run

\* The organizer's state is well formed at every instant.
LEMMA WellFormed == Spec => [](TypeOK /\ NothingLeftInHeap)
<1>1. (TypeOK /\ NothingLeftInHeap) /\ [Next]_vars => (TypeOK /\ NothingLeftInHeap)'
  BY TypeStep
<1> QED BY TypeInit, <1>1, PTL DEF Spec

\* Every variable of the organizer keeps its type, and only events of a team
\* reach the heap.
THEOREM TypeCorrect == Spec => []TypeOK
BY WellFormed, PTL

\* Whenever the organizer waits for a delivery its heap is empty: what a
\* delivery pushed has come out again before the next is taken.
THEOREM HeapNeverHoldsBack == Spec => []NothingLeftInHeap
BY WellFormed, PTL

-----------------------------------------------------------------------------
(* The order of arrival *)

\* x arrived before y.
Before(a, x, y) == \E m, n \in DOMAIN a : m < n /\ a[m] = x /\ a[n] = y

Ahead(a, S, T) == \A x \in S, y \in T : Before(a, x, y)

InTurn(a, s) == \A i, j \in DOMAIN s : i < j => Before(a, s[i], s[j])

\* An arrival changes nothing about those before it, and comes after them all.
LEMMA ArrivalLast ==
  ASSUME NEW D, NEW a \in Seq(D), NEW e \in D
  PROVE  /\ \A x, y : Before(a, x, y) => Before(Append(a, e), x, y)
         /\ \A x \in Range(a) : Before(Append(a, e), x, e)
<1> DEFINE b == Append(a, e)
           n == Len(a)
<1>1. DOMAIN a = 1..n /\ n \in Nat /\ DOMAIN b = 1..(n + 1)
  BY LenProperties
<1>2. b[n + 1] = e /\ \A i \in DOMAIN a : b[i] = a[i]
  BY AppendElements
<1> HIDE DEF b, n
<1>3. ASSUME NEW x, NEW y, Before(a, x, y) PROVE Before(b, x, y)
  BY <1>1, <1>2, <1>3 DEF Before
<1>4. ASSUME NEW x \in Range(a) PROVE Before(b, x, e)
  <2>1. PICK i \in DOMAIN a : a[i] = x
    BY <1>4 DEF Range
  <2>2. i \in DOMAIN b /\ n + 1 \in DOMAIN b /\ i < n + 1
    BY <1>1, <2>1
  <2> QED BY <1>2, <2>1, <2>2 DEF Before
<1> QED BY <1>3, <1>4 DEF b

\* Nothing arrives before itself.
LEMMA BeforeAnother ==
  ASSUME NEW D, NEW a \in Seq(D), Distinct(a), NEW x, NEW y, Before(a, x, y)
  PROVE  x # y
<1>1. PICK m \in DOMAIN a, n \in DOMAIN a : m < n /\ a[m] = x /\ a[n] = y
  BY DEF Before
<1>2. m # n
  BY <1>1, LenProperties
<1> QED BY <1>1, <1>2 DEF Distinct

\* The first of a sequence in order is ahead of the rest.
LEMMA HeadAhead ==
  ASSUME NEW a, NEW D, NEW s \in Seq(D), s # <<>>, InTurn(a, s)
  PROVE  InTurn(a, Tail(s)) /\ Ahead(a, {Head(s)}, Range(Tail(s)))
<1> DEFINE t == Tail(s)
           h == Head(s)
<1>1. /\ 1 \in DOMAIN s /\ h = s[1]
      /\ \A i : i \in DOMAIN t <=> i \in Nat \ {0} /\ i + 1 \in DOMAIN s
      /\ \A i \in DOMAIN t : t[i] = s[i + 1]
  BY TailElements
<1> HIDE DEF t, h
<1>2. ASSUME NEW i \in DOMAIN t, NEW j \in DOMAIN t, i < j PROVE Before(a, t[i], t[j])
  <2>1. i + 1 \in DOMAIN s /\ j + 1 \in DOMAIN s /\ i + 1 < j + 1
    BY <1>1, <1>2
  <2> QED BY <1>1, <2>1 DEF InTurn
<1>3. ASSUME NEW y \in Range(t) PROVE Before(a, h, y)
  <2>1. PICK i \in DOMAIN t : t[i] = y
    BY <1>3 DEF Range
  <2>2. i + 1 \in DOMAIN s /\ 1 < i + 1
    BY <1>1, <2>1
  <2> QED BY <1>1, <2>1, <2>2 DEF InTurn
<1> QED BY <1>2, <1>3 DEF InTurn, Ahead, t, h

\* A sequence in order stays so when something later is appended.
LEMMA AppendInTurn ==
  ASSUME NEW a, NEW D, NEW s \in Seq(D), NEW e \in D,
         InTurn(a, s), Ahead(a, Range(s), {e})
  PROVE  InTurn(a, Append(s, e))
<1> DEFINE t == Append(s, e)
           n == Len(s)
<1>1. DOMAIN s = 1..n /\ n \in Nat /\ DOMAIN t = 1..(n + 1)
  BY LenProperties
<1>2. t[n + 1] = e /\ \A i \in DOMAIN s : t[i] = s[i]
  BY AppendElements
<1> HIDE DEF t, n
<1>3. ASSUME NEW i \in DOMAIN t, NEW j \in DOMAIN t, i < j PROVE Before(a, t[i], t[j])
  <2>1. i \in DOMAIN s /\ (j \in DOMAIN s \/ j = n + 1)
    BY <1>1, <1>3
  <2>2. CASE j \in DOMAIN s
    BY <1>2, <1>3, <2>1, <2>2 DEF InTurn
  <2>3. CASE j = n + 1
    BY <1>2, <2>1, <2>3 DEF Ahead, Range
  <2> QED BY <2>1, <2>2, <2>3
<1> QED BY <1>3 DEF InTurn, t

\* The beginning of a sequence in order is in order.
LEMMA PrefixInTurn ==
  ASSUME NEW a, NEW D, NEW s \in Seq(D), NEW n \in 0..Len(s), InTurn(a, s)
  PROVE  InTurn(a, SubSeq(s, 1, n))
<1> DEFINE t == SubSeq(s, 1, n)
<1>1. \A i \in DOMAIN t : i \in DOMAIN s /\ t[i] = s[i]
  BY PrefixElements
<1> HIDE DEF t
<1>2. InTurn(a, t)
  BY <1>1 DEF InTurn
<1> QED BY <1>2 DEF t

-----------------------------------------------------------------------------
(* The invariant of the order *)

\* The events that have gone out, and those that are on their way.
Sent == UNION {Range(teamQueues[t]) : t \in AllTeams}
Waiting == Range(deliveries) \cup Range(queueValidated)

\* Every event arrives once, and whatever moves has arrived.
OnceArrived ==
  /\ Distinct(arrived)
  /\ Sent \cup Range(batch) \cup Waiting \subseteq Range(arrived)

\* Every place keeps its events in the order of arrival, and those further
\* down the line arrived before those further up.
LineInv ==
  /\ InTurn(arrived, queueValidated) /\ InTurn(arrived, deliveries)
  /\ Ahead(arrived, Range(deliveries), Range(queueValidated))
  /\ Ahead(arrived, Range(batch), Waiting)
  /\ Ahead(arrived, Sent, Range(batch) \cup Waiting)
  /\ batch # <<>> => Len(batch) = 1

\* Every team's queue is in the order of arrival, with the team's own events,
\* each stamped, and routed counts the events of all.
TeamInv ==
  /\ \A t \in AllTeams : /\ InTurn(arrived, teamQueues[t])
                          /\ \A e \in Range(teamQueues[t]) : Team(e) = t /\ e \in stamped
  /\ Range(batch) \subseteq stamped
  /\ IsFiniteSet(Sent) /\ routed = Cardinality(Sent)

ArrivalInv == OnceArrived /\ LineInv /\ TeamInv

\* Nothing has arrived or been routed in the initial state.
LEMMA ArrivalInit == Init => ArrivalInv
<1> SUFFICES ASSUME Init PROVE ArrivalInv
  OBVIOUS
<1>1. DOMAIN <<>> = {} /\ Range(<<>>) = {}
  BY DEF Range
<1>2. \A t \in AllTeams : teamQueues[t] = <<>>
  BY DEF Init
<1>3. /\ arrived = <<>> /\ queueValidated = <<>> /\ deliveries = <<>> /\ batch = <<>>
      /\ routed = 0
  BY DEF Init, Validated!Init
<1>4. Sent = {} /\ Waiting = {}
  BY <1>1, <1>2, <1>3 DEF Sent, Waiting
<1>5. OnceArrived
  BY <1>1, <1>3, <1>4 DEF OnceArrived, Distinct
<1>6. LineInv
  BY <1>1, <1>3, <1>4 DEF LineInv, InTurn, Ahead
<1>7. TeamInv
  <2>1. \A t \in AllTeams : InTurn(arrived, teamQueues[t]) /\ Range(teamQueues[t]) = {}
    BY <1>1, <1>2 DEF InTurn
  <2> QED BY <1>1, <1>3, <1>4, <2>1, FS_EmptySet DEF TeamInv
<1> QED BY <1>5, <1>6, <1>7 DEF ArrivalInv

\* Deliveries may be read, dropped or forgotten: what is left is in order.
LEMMA DeliveriesFewer ==
  ASSUME ArrivalInv,
         UNCHANGED <<arrived, queueValidated, batch, stamped, teamQueues, routed>>,
         InTurn(arrived, deliveries'), Range(deliveries') \subseteq Range(deliveries)
  PROVE  ArrivalInv'
<1>1. Sent' = Sent /\ Waiting' \subseteq Waiting
  BY DEF Sent, Waiting
<1>2. OnceArrived'
  BY <1>1 DEF ArrivalInv, OnceArrived
<1>3. LineInv'
  BY <1>1 DEF ArrivalInv, LineInv, Ahead
<1>4. TeamInv'
  BY <1>1 DEF ArrivalInv, TeamInv
<1> QED BY <1>2, <1>3, <1>4 DEF ArrivalInv

\* A new event arrives behind all the others.
LEMMA ArriveKeeps ==
  ASSUME TypeOK, ArrivalInv, NEW m \in Messages, Arrive(m)
  PROVE  ArrivalInv'
<1>0. /\ arrived \in Seq(Messages) /\ queueValidated \in Seq(Messages)
      /\ OnceArrived /\ LineInv /\ TeamInv
  BY DEF TypeOK, Validated!TypeOK, ArrivalInv
<1>1. /\ m \notin Range(arrived) /\ arrived' = Append(arrived, m)
      /\ queueValidated' = Append(queueValidated, m)
      /\ UNCHANGED <<deliveries, batch, stamped, teamQueues, routed>>
  BY DEF Arrive, Validated!Enqueue, runVars
<1>2. /\ Range(arrived') = Range(arrived) \cup {m}
      /\ Range(queueValidated') = Range(queueValidated) \cup {m}
  BY <1>0, <1>1, RangeAppend
<1>3. Sent' = Sent /\ Waiting' = Waiting \cup {m}
  BY <1>1, <1>2 DEF Sent, Waiting
<1>4. /\ \A x, y : Before(arrived, x, y) => Before(arrived', x, y)
      /\ \A x \in Range(arrived) : Before(arrived', x, m)
  BY <1>0, <1>1, ArrivalLast
<1>5. \A s : InTurn(arrived, s) => InTurn(arrived', s)
  BY <1>4 DEF InTurn
<1>6. \A S, T : Ahead(arrived, S, T) => Ahead(arrived', S, T)
  BY <1>4 DEF Ahead
<1>7. OnceArrived'
  <2>1. Distinct(arrived')
    BY <1>0, <1>1, DistinctAppend DEF OnceArrived
  <2> QED BY <1>0, <1>1, <1>2, <1>3, <2>1 DEF OnceArrived
<1>8. LineInv'
  <2>1. InTurn(arrived', queueValidated')
    <3>1. Ahead(arrived', Range(queueValidated), {m})
      BY <1>0, <1>4 DEF Ahead, OnceArrived, Waiting
    <3>2. InTurn(arrived', queueValidated)
      BY <1>0, <1>5 DEF LineInv
    <3> QED BY <1>0, <1>1, <3>1, <3>2, AppendInTurn
  <2>2. InTurn(arrived', deliveries')
    BY <1>0, <1>1, <1>5 DEF LineInv
  <2>3. ASSUME NEW S, NEW T, Ahead(arrived, S, T), S \subseteq Range(arrived)
        PROVE  Ahead(arrived', S, T \cup {m})
    BY <1>4, <2>3 DEF Ahead
  <2>4. Ahead(arrived', Range(deliveries'), Range(queueValidated'))
    BY <1>0, <1>1, <1>2, <2>3 DEF LineInv, OnceArrived, Waiting
  <2>5. Ahead(arrived', Range(batch'), Waiting')
    BY <1>0, <1>1, <1>3, <2>3 DEF LineInv, OnceArrived
  <2>6. Ahead(arrived', Sent', Range(batch') \cup Waiting')
    <3>1. Ahead(arrived', Sent, (Range(batch) \cup Waiting) \cup {m})
      BY <1>0, <2>3 DEF LineInv, OnceArrived
    <3>2. (Range(batch) \cup Waiting) \cup {m} = Range(batch') \cup Waiting'
      BY <1>1, <1>3
    <3> QED BY <1>3, <3>1, <3>2
  <2>7. batch' # <<>> => Len(batch') = 1
    BY <1>0, <1>1 DEF LineInv
  <2> QED BY <2>1, <2>2, <2>4, <2>5, <2>6, <2>7 DEF LineInv
<1>9. TeamInv'
  <2>1. \A t \in AllTeams : InTurn(arrived', teamQueues[t])
    BY <1>0, <1>5 DEF TeamInv
  <2> QED BY <1>0, <1>1, <1>3, <2>1 DEF TeamInv
<1> QED BY <1>7, <1>8, <1>9 DEF ArrivalInv

\* The broker delivers the first event of its queue behind those delivered
\* before.
LEMMA DeliverKeeps ==
  ASSUME TypeOK, ArrivalInv, Deliver
  PROVE  ArrivalInv'
<1> DEFINE e == Head(queueValidated)
           q == Tail(queueValidated)
<1>0. /\ queueValidated \in Seq(Messages) /\ deliveries \in Seq(Messages)
      /\ OnceArrived /\ LineInv /\ TeamInv
  BY DEF TypeOK, Validated!TypeOK, ArrivalInv
<1>1. /\ queueValidated # <<>> /\ deliveries' = Append(deliveries, e)
      /\ queueValidated' = q
      /\ UNCHANGED <<arrived, batch, stamped, teamQueues, routed>>
  BY DEF Deliver, Validated!Deliver, runVars
<1>2. Range(queueValidated) = {e} \cup Range(q) /\ e \in Messages
  BY <1>0, <1>1, RangeTail
<1>3. InTurn(arrived, q) /\ Ahead(arrived, {e}, Range(q))
  BY <1>0, <1>1, HeadAhead DEF LineInv
<1> HIDE DEF e, q
<1>4. Range(deliveries') = Range(deliveries) \cup {e}
  BY <1>0, <1>1, <1>2, RangeAppend
<1>5. Sent' = Sent /\ Waiting' = Waiting
  BY <1>1, <1>2, <1>4 DEF Sent, Waiting
<1>6. InTurn(arrived, deliveries')
  <2>1. Ahead(arrived, Range(deliveries), {e})
    BY <1>0, <1>2 DEF LineInv, Ahead
  <2> QED BY <1>0, <1>1, <1>2, <2>1, AppendInTurn DEF LineInv
<1>7. Ahead(arrived, Range(deliveries'), Range(q))
  BY <1>0, <1>2, <1>3, <1>4 DEF LineInv, Ahead
<1>8. OnceArrived'
  BY <1>0, <1>1, <1>5 DEF OnceArrived
<1>9. LineInv'
  BY <1>0, <1>1, <1>3, <1>5, <1>6, <1>7 DEF LineInv
<1>10. TeamInv'
  BY <1>0, <1>1, <1>5 DEF TeamInv
<1> QED BY <1>8, <1>9, <1>10 DEF ArrivalInv

\* Reading the first delivery leaves the others in order behind it.
LEMMA ReadKeeps ==
  ASSUME TypeOK, NothingLeftInHeap, ArrivalInv, HandleDelivery
  PROVE  ArrivalInv'
<1> DEFINE e == Head(deliveries)
           d == Tail(deliveries)
<1>0. deliveries \in Seq(Messages) /\ OnceArrived /\ LineInv /\ TeamInv
  BY DEF TypeOK, Validated!TypeOK, ArrivalInv
<1>1. /\ deliveries # <<>> /\ batch = <<>> /\ deliveries' = d
      /\ stamped' = stamped \cup ({e} \ Malformed)
      /\ UNCHANGED <<queueValidated, arrived, teamQueues, routed>>
      /\ batch' = <<>> \/ (e \in Events /\ batch' = <<e>>)
  BY HandleStep
<1>2. Range(deliveries) = {e} \cup Range(d)
  BY <1>0, <1>1, RangeTail
<1>3. InTurn(arrived, d) /\ Ahead(arrived, {e}, Range(d))
  BY <1>0, <1>1, HeadAhead DEF LineInv
<1> HIDE DEF e, d
<1>4. Range(<<>>) = {} /\ Range(<<e>>) = {e} /\ Len(<<e>>) = 1
  BY DEF Range
<1>5. Range(batch') \subseteq {e} /\ (batch' # <<>> => Len(batch') = 1)
  BY <1>1, <1>4
<1>6. Sent' = Sent /\ Waiting' = Range(d) \cup Range(queueValidated)
  BY <1>1 DEF Sent, Waiting
<1>7. Range(batch') \cup Waiting' \subseteq Waiting
  BY <1>2, <1>5, <1>6 DEF Waiting
<1>8. OnceArrived'
  BY <1>0, <1>1, <1>6, <1>7 DEF OnceArrived
<1>9. LineInv'
  <2>1. Ahead(arrived, {e}, Range(queueValidated))
    BY <1>0, <1>2 DEF LineInv, Ahead
  <2>2. Ahead(arrived, Range(batch'), Waiting')
    BY <1>3, <1>5, <1>6, <2>1 DEF Ahead
  <2>3. Ahead(arrived, Sent, Range(batch') \cup Waiting')
    BY <1>0, <1>7 DEF LineInv, Ahead
  <2>4. Ahead(arrived, Range(d), Range(queueValidated))
    BY <1>0, <1>2 DEF LineInv, Ahead
  <2> QED BY <1>0, <1>1, <1>3, <1>5, <1>6, <2>2, <2>3, <2>4 DEF LineInv
<1>10. TeamInv'
  <2>1. \A t \in AllTeams : /\ InTurn(arrived, teamQueues[t])
                            /\ \A x \in Range(teamQueues[t]) : Team(x) = t /\ x \in stamped'
    BY <1>0, <1>1 DEF TeamInv
  <2>2. Range(batch') \subseteq stamped'
    BY <1>1, <1>4, MalformedAssumption
  <2> QED BY <1>0, <1>1, <1>6, <2>1, <2>2 DEF TeamInv
<1> QED BY <1>8, <1>9, <1>10 DEF ArrivalInv

\* Routing moves the one event of the batch to the end of its team's queue, or
\* loses it.
LEMMA RouteKeeps ==
  ASSUME TypeOK, NothingLeftInHeap, ArrivalInv, RouteEvent
  PROVE  ArrivalInv'
<1> DEFINE e == Head(batch)
           t == Team(e)
<1>0. /\ batch \in Seq(Events) /\ arrived \in Seq(Messages)
      /\ teamQueues \in [AllTeams -> Seq(Events)]
      /\ OnceArrived /\ LineInv /\ TeamInv
  BY DEF TypeOK, ArrivalInv
<1>1. /\ batch # <<>> /\ batch' = Tail(batch) /\ e \in Events /\ t \in AllTeams
      /\ UNCHANGED <<queueValidated, deliveries, arrived, stamped>>
      /\ \/ UNCHANGED <<teamQueues, routed>>
         \/ /\ routed' = routed + 1
            /\ teamQueues' = [teamQueues EXCEPT ![t] = Append(teamQueues[t], e)]
  BY RouteStep DEF consumerVars
<1>2. Range(batch) = {e} \cup Range(batch')
  BY <1>0, <1>1, RangeTail
<1>3. batch' = <<>> /\ Range(batch') = {}
  <2>1. Len(batch) = 1
    BY <1>0, <1>1 DEF LineInv
  <2>2. Tail(batch) = <<>>
    BY <1>0, <1>1, <2>1
  <2> QED BY <1>1, <2>2 DEF Range
<1>4. Waiting' = Waiting
  BY <1>1 DEF Waiting
<1>t. Team(e) = t
  OBVIOUS
<1> HIDE DEF e, t
<1>5. CASE UNCHANGED <<teamQueues, routed>>
  <2>1. Sent' = Sent
    BY <1>5 DEF Sent
  <2>2. OnceArrived'
    BY <1>0, <1>1, <1>3, <1>4, <2>1 DEF OnceArrived
  <2>3. LineInv'
    <3>1. Ahead(arrived, {}, Waiting) /\ Ahead(arrived, Sent, {} \cup Waiting)
      BY <1>0 DEF LineInv, Ahead
    <3> QED BY <1>0, <1>1, <1>3, <1>4, <2>1, <3>1 DEF LineInv
  <2>4. TeamInv'
    BY <1>0, <1>1, <1>3, <1>5, <2>1 DEF TeamInv
  <2> QED BY <2>2, <2>3, <2>4 DEF ArrivalInv
<1>6. CASE /\ routed' = routed + 1
           /\ teamQueues' = [teamQueues EXCEPT ![t] = Append(teamQueues[t], e)]
  <2>1. /\ teamQueues'[t] = Append(teamQueues[t], e) /\ teamQueues[t] \in Seq(Events)
        /\ \A u \in AllTeams : u # t => teamQueues'[u] = teamQueues[u]
    BY <1>0, <1>1, <1>6
  <2>2. Range(teamQueues'[t]) = Range(teamQueues[t]) \cup {e}
    BY <1>1, <2>1, RangeAppend
  <2>3. Sent' = Sent \cup {e}
    <3>1. \A u \in AllTeams : Range(teamQueues'[u]) \subseteq Range(teamQueues[u]) \cup {e}
      BY <2>1, <2>2
    <3>2. \A u \in AllTeams : Range(teamQueues[u]) \subseteq Range(teamQueues'[u])
      BY <2>1, <2>2
    <3>3. e \in Range(teamQueues'[t])
      BY <2>2
    <3>4. e \in Sent'
      BY <1>1, <3>3 DEF Sent
    <3>5. Sent \subseteq Sent' /\ Sent' \subseteq Sent \cup {e}
      BY <3>1, <3>2 DEF Sent
    <3> QED BY <3>4, <3>5
  <2>4. Ahead(arrived, Sent, {e})
    BY <1>0, <1>2 DEF LineInv, Ahead
  <2>5. e \notin Sent
    <3>1. ASSUME e \in Sent PROVE FALSE
      <4>1. Before(arrived, e, e) /\ Distinct(arrived)
        BY <1>0, <2>4, <3>1 DEF Ahead, OnceArrived
      <4> QED BY <1>0, <4>1, BeforeAnother
    <3> QED BY <3>1
  <2>6. OnceArrived'
    BY <1>0, <1>1, <1>2, <1>3, <1>4, <2>3 DEF OnceArrived
  <2>7. LineInv'
    <3>1. Ahead(arrived, {}, Waiting)
      BY DEF Ahead
    <3>2. Ahead(arrived, Sent \cup {e}, {} \cup Waiting)
      BY <1>0, <1>2 DEF LineInv, Ahead
    <3> QED BY <1>0, <1>1, <1>3, <1>4, <2>3, <3>1, <3>2 DEF LineInv
  <2>8. TeamInv'
    <3>1. InTurn(arrived, teamQueues'[t])
      <4>1. Ahead(arrived, Range(teamQueues[t]), {e})
        BY <1>1, <2>4 DEF Ahead, Sent
      <4>2. InTurn(arrived, teamQueues[t])
        BY <1>0, <1>1 DEF TeamInv
      <4>3. InTurn(arrived, Append(teamQueues[t], e))
        BY <1>1, <2>1, <4>1, <4>2, AppendInTurn
      <4> QED BY <2>1, <4>3
    <3>2. \A x \in Range(teamQueues'[t]) : Team(x) = t /\ x \in stamped
      BY <1>0, <1>1, <1>2, <1>t, <2>2 DEF TeamInv
    <3>3. ASSUME NEW u \in AllTeams
          PROVE  /\ InTurn(arrived', teamQueues'[u])
                 /\ \A x \in Range(teamQueues'[u]) : Team(x) = u /\ x \in stamped'
      <4>1. CASE u = t
        BY <1>1, <3>1, <3>2, <4>1
      <4>2. CASE u # t
        BY <1>0, <1>1, <2>1, <4>2 DEF TeamInv
      <4> QED BY <4>1, <4>2
    <3>4. IsFiniteSet(Sent \cup {e}) /\ Cardinality(Sent \cup {e}) = Cardinality(Sent) + 1
      BY <1>0, <2>5, FS_AddElement DEF TeamInv
    <3>5. Range(batch') \subseteq stamped'
      BY <1>3
    <3> QED BY <1>0, <1>6, <2>3, <3>3, <3>4, <3>5 DEF TeamInv
  <2> QED BY <2>6, <2>7, <2>8 DEF ArrivalInv
<1> QED BY <1>1, <1>5, <1>6

\* Every step keeps the order of arrival.
LEMMA ArrivalStep ==
  ASSUME TypeOK, NothingLeftInHeap, ArrivalInv, [Next]_vars
  PROVE  ArrivalInv'
<1>0. deliveries \in Seq(Messages) /\ InTurn(arrived, deliveries)
  BY DEF TypeOK, Validated!TypeOK, ArrivalInv, LineInv
<1>1. ASSUME UNCHANGED <<arrived, queueValidated, batch, stamped, teamQueues, routed>>,
             deliveries' = deliveries \/ deliveries' = <<>>
      PROVE  ArrivalInv'
  <2>1. InTurn(arrived, <<>>) /\ Range(<<>>) = {}
    BY DEF InTurn, Range
  <2>2. InTurn(arrived, deliveries') /\ Range(deliveries') \subseteq Range(deliveries)
    BY <1>0, <1>1, <2>1
  <2> QED BY <1>1, <2>2, DeliveriesFewer
<1>2. CASE ConsumerCloses
  <2>1. /\ UNCHANGED <<arrived, queueValidated, batch, stamped, teamQueues, routed>>
        /\ \E n \in 0..Len(deliveries) : deliveries' = SubSeq(deliveries, 1, n)
    BY <1>2 DEF ConsumerCloses, Validated!Close, runVars
  <2>2. InTurn(arrived, deliveries') /\ Range(deliveries') \subseteq Range(deliveries)
    BY <1>0, <2>1, PrefixInTurn, RangePrefix
  <2> QED BY <2>1, <2>2, DeliveriesFewer
<1>3. CASE Disturb \/ UNCHANGED vars
  <2>1. UNCHANGED <<arrived, queueValidated, deliveries, batch, stamped, teamQueues, routed>>
    BY <1>3 DEF Disturb, Validated!Cancel, Validated!Disconnect, runVars, consumerVars, vars
  <2> QED BY <1>1, <2>1
<1>4. CASE Start \/ RecvDone \/ RecvClosed \/ EndOfBatch
  <2>1. UNCHANGED <<arrived, queueValidated, batch, stamped, teamQueues, routed>>
    BY <1>4 DEF Start, RecvDone, RecvClosed, EndOfBatch, Validated!Subscribe,
                Validated!Leave, consumerVars
  <2>2. deliveries' = deliveries \/ deliveries' = <<>>
    BY <1>4 DEF Start, RecvDone, RecvClosed, EndOfBatch, Validated!Subscribe,
                Validated!Leave, consumerVars
  <2> QED BY <1>1, <2>1, <2>2
<1> QED BY <1>2, <1>3, <1>4, ArriveKeeps, DeliverKeeps, ReadKeeps, RouteKeeps DEF Next, Run

\* Each team gets its own events, each once and in the order in which they
\* were validated, all of them stamped, and the counter counts them.
THEOREM RoutedInOrder == Spec => []RoutedInArrivalOrder
<1>1. TypeOK /\ NothingLeftInHeap /\ ArrivalInv /\ [Next]_vars => ArrivalInv'
  BY ArrivalStep
<1>2. ArrivalInv => RoutedInArrivalOrder
  BY DEF ArrivalInv, TeamInv, InTurn, Before, Sent, RoutedInArrivalOrder
<1> QED BY WellFormed, ArrivalInit, <1>1, <1>2, PTL DEF Spec

=============================================================================

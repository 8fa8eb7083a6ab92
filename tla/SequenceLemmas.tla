--------------------------- MODULE SequenceLemmas ---------------------------
(***************************************************************************)
(* Facts about sequences that the proofs of several components need, and   *)
(* induction over the natural numbers in a form without operator           *)
(* parameters: on a set instead of on a predicate.                         *)
(***************************************************************************)
EXTENDS Integers, SequencesExt, SequenceTheorems, FiniteSetTheorems,
        WellFoundedInduction, TLAPS

-----------------------------------------------------------------------------
(* Induction *)

\* A non-empty set of numbers has a least element: its intervals from 1 are
\* finite sets, and those are well-founded by inclusion.
LEMMA LeastNumber ==
  ASSUME NEW T, T \subseteq Nat, T # {}
  PROVE  \E x \in T : \A y \in T : x <= y
<1>1. PICK n \in T : TRUE
  OBVIOUS
<1> DEFINE N == 1..n
           R == StrictSubsetOrdering(N)
           U == {u \in SUBSET N : \E x \in T : u = 1..x}
<1>2. IsFiniteSet(N)
  BY <1>1, FS_Interval
<1>3. IsWellFoundedOn(R, SUBSET N)
  BY <1>2, FS_StrictSubsetOrderingWellFounded, FS_FiniteSubsetsOfFinite
<1>4. N \in U
  BY <1>1
<1>5. PICK u \in U : \A v \in U : <<v, u>> \notin R
  <2> HIDE DEF R
  <2>1. U \subseteq SUBSET N /\ U # {}
    BY <1>4
  <2> HIDE DEF U, N
  <2> QED BY <1>3, <2>1, WFMin
<1>6. PICK x \in T : u = 1..x
  OBVIOUS
<1>7. ASSUME NEW y \in T, y < x PROVE FALSE
  <2>1. 1..y \in U /\ 1..y # u
    <3>1. x \in 1..x /\ x \notin 1..y /\ 1..y \subseteq 1..x
      BY <1>7
    <3> QED BY <1>6, <3>1
  <2>2. <<1..y, u>> \in R
    <3>1. 1..y \subseteq u
      BY <1>6, <1>7
    <3> QED BY <2>1, <3>1 DEF StrictSubsetOrdering
  <2> QED BY <1>5, <2>1, <2>2
<1> QED BY <1>7

\* Induction, for a set of numbers.
LEMMA SetInduction ==
  ASSUME NEW S, 0 \in S, \A n \in Nat : n \in S => n + 1 \in S
  PROVE  Nat \subseteq S
<1>1. SUFFICES ASSUME Nat \ S # {} PROVE FALSE
  OBVIOUS
<1>2. PICK x \in Nat \ S : \A y \in Nat \ S : x <= y
  BY <1>1, LeastNumber
<1>3. x # 0 /\ x - 1 \in Nat /\ x - 1 \in S
  BY <1>2
<1> QED BY <1>2, <1>3

\* Induction that may use all smaller numbers.
LEMMA StrongInduction ==
  ASSUME NEW S, \A k \in Nat : (\A j \in Nat : j < k => j \in S) => k \in S
  PROVE  Nat \subseteq S
<1>1. SUFFICES ASSUME Nat \ S # {} PROVE FALSE
  OBVIOUS
<1>2. PICK x \in Nat \ S : \A y \in Nat \ S : x <= y
  BY <1>1, LeastNumber
<1>3. \A j \in Nat : j < x => j \in S
  BY <1>2
<1> QED BY <1>2, <1>3

\* A bounded set of numbers has a greatest element, which is its Max.
LEMMA GreatestNumber ==
  ASSUME NEW b \in Nat, NEW T, T \subseteq 0..b, T # {}
  PROVE  Max(T) \in T /\ \A y \in T : y <= Max(T)
<1> DEFINE D == {d \in 0..b : b - d \in T}
<1>1. D \subseteq Nat /\ D # {}
  <2>1. PICK x \in T : x \in 0..b
    OBVIOUS
  <2>2. b - x \in 0..b /\ b - (b - x) = x
    BY <2>1
  <2>3. b - x \in D
    BY <2>2
  <2>4. D \subseteq Nat
    OBVIOUS
  <2> HIDE DEF D
  <2> QED BY <2>3, <2>4
<1>2. PICK d \in D : \A c \in D : d <= c
  <2> HIDE DEF D
  <2> QED BY <1>1, LeastNumber
<1>3. b - d \in T
  OBVIOUS
<1>4. ASSUME NEW y \in T PROVE b - d >= y
  <2>1. y \in 0..b /\ b - y \in 0..b /\ b - (b - y) = y
    OBVIOUS
  <2>2. d <= b - y
    BY <1>2, <2>1
  <2> QED BY <2>1, <2>2
<1>5. \E x \in T : \A y \in T : x >= y
  BY <1>3, <1>4
<1>6. Max(T) \in T /\ \A y \in T : Max(T) >= y
  BY <1>5 DEF Max
<1>7. \A y \in T : y \in Nat
  OBVIOUS
<1> QED BY <1>6, <1>7

-----------------------------------------------------------------------------
(* Sequences by their positions *)

\* The rest of a sequence is the sequence one position further on.
LEMMA TailElements ==
  ASSUME NEW S, NEW s \in Seq(S), s # <<>>
  PROVE  /\ 1 \in DOMAIN s /\ Head(s) = s[1]
         /\ \A i : i \in DOMAIN Tail(s) <=> i \in Nat \ {0} /\ i + 1 \in DOMAIN s
         /\ \A i \in DOMAIN Tail(s) : Tail(s)[i] = s[i + 1]
<1>1. /\ Head(s) = s[1] /\ Len(s) \in Nat /\ Len(s) # 0 /\ DOMAIN s = 1..Len(s)
      /\ Tail(s) \in Seq(S) /\ Len(Tail(s)) = Len(s) - 1
      /\ \A i \in 1..(Len(s) - 1) : Tail(s)[i] = s[i + 1]
  BY HeadTailProperties, LenProperties, EmptySeq
<1>2. DOMAIN Tail(s) = 1..(Len(s) - 1)
  BY <1>1, LenProperties
<1> QED BY <1>1, <1>2

\* An appended element is the last, the others keep their positions.
LEMMA AppendElements ==
  ASSUME NEW S, NEW s \in Seq(S), NEW e \in S
  PROVE  /\ Len(s) + 1 \notin DOMAIN s
         /\ \A i : i \in DOMAIN Append(s, e) <=> i \in DOMAIN s \/ i = Len(s) + 1
         /\ \A i \in DOMAIN s : Append(s, e)[i] = s[i]
         /\ Append(s, e)[Len(s) + 1] = e
<1>1. /\ Len(s) \in Nat /\ DOMAIN s = 1..Len(s)
      /\ DOMAIN Append(s, e) = 1..(Len(s) + 1)
  BY AppendProperties, LenProperties
<1> QED BY <1>1, AppendProperties

\* A prefix holds the elements of the sequence at the same positions.
LEMMA PrefixElements ==
  ASSUME NEW S, NEW s \in Seq(S), NEW n \in 0..Len(s), NEW i \in DOMAIN SubSeq(s, 1, n)
  PROVE  i \in DOMAIN s /\ SubSeq(s, 1, n)[i] = s[i]
<1>1. Len(s) \in Nat /\ DOMAIN s = 1..Len(s)
  BY LenProperties
<1>2. SubSeq(s, 1, n) = [k \in 1..n |-> s[k]]
  BY <1>1
<1> QED BY <1>1, <1>2

-----------------------------------------------------------------------------
(* Sequences as the sets of their elements *)

\* A sequence has the elements of its rest, and its head.
LEMMA RangeTail ==
  ASSUME NEW S, NEW s \in Seq(S), s # <<>>
  PROVE  Range(s) = {Head(s)} \cup Range(Tail(s)) /\ Head(s) \in S
<1>1. /\ 1 \in DOMAIN s /\ Head(s) = s[1]
      /\ \A i : i \in DOMAIN Tail(s) <=> i \in Nat \ {0} /\ i + 1 \in DOMAIN s
      /\ \A i \in DOMAIN Tail(s) : Tail(s)[i] = s[i + 1]
  BY TailElements
<1>2. ASSUME NEW i \in DOMAIN s PROVE s[i] \in {Head(s)} \cup Range(Tail(s))
  <2>1. i \in Nat \ {0}
    BY LenProperties
  <2>2. CASE i = 1
    BY <1>1, <2>2
  <2>3. CASE i # 1
    <3>1. i - 1 \in Nat \ {0} /\ (i - 1) + 1 = i
      BY <2>1, <2>3
    <3>2. i - 1 \in DOMAIN Tail(s) /\ Tail(s)[i - 1] = s[i]
      BY <1>1, <3>1
    <3> QED BY <3>2 DEF Range
  <2> QED BY <2>2, <2>3
<1>3. Range(Tail(s)) \subseteq Range(s) /\ Head(s) \in Range(s)
  BY <1>1 DEF Range
<1>4. Range(s) \subseteq {Head(s)} \cup Range(Tail(s))
  BY <1>2 DEF Range
<1>5. Head(s) \in S
  BY HeadTailProperties
<1> QED BY <1>3, <1>4, <1>5

\* Appending adds one element.
LEMMA RangeAppend ==
  ASSUME NEW S, NEW s \in Seq(S), NEW e \in S
  PROVE  Range(Append(s, e)) = Range(s) \cup {e}
<1>1. /\ \A i : i \in DOMAIN Append(s, e) <=> i \in DOMAIN s \/ i = Len(s) + 1
      /\ \A i \in DOMAIN s : Append(s, e)[i] = s[i]
      /\ Append(s, e)[Len(s) + 1] = e
  BY AppendElements
<1> QED BY <1>1 DEF Range

\* A prefix has no element that the sequence has not.
LEMMA RangePrefix ==
  ASSUME NEW S, NEW s \in Seq(S), NEW n \in 0..Len(s)
  PROVE  Range(SubSeq(s, 1, n)) \subseteq Range(s)
BY PrefixElements DEF Range

-----------------------------------------------------------------------------
(* Sequences by their ends *)

\* A sequence is its head and the rest.
LEMMA HeadAndTail ==
  ASSUME NEW S, NEW s \in Seq(S), s # <<>>
  PROVE  <<Head(s)>> \o Tail(s) = s
<1>1. /\ Len(s) \in Nat \ {0} /\ Head(s) = s[1] /\ Head(s) \in S
      /\ Tail(s) \in Seq(S) /\ Len(Tail(s)) = Len(s) - 1
      /\ \A i \in 1..Len(Tail(s)) : Tail(s)[i] = s[i + 1]
  BY EmptySeq, HeadTailProperties
<1> DEFINE h == <<Head(s)>>
           r == Tail(s)
<1>2. h \in Seq(S) /\ Len(h) = 1 /\ h[1] = s[1]
  BY <1>1
<1>3. r \in Seq(S) /\ Len(r) = Len(s) - 1 /\ \A i \in 1..Len(r) : r[i] = s[i + 1]
  BY <1>1
<1> HIDE DEF h, r
<1>4. /\ h \o r \in Seq(S) /\ Len(h \o r) = Len(h) + Len(r)
      /\ \A i \in 1..Len(h) + Len(r) : (h \o r)[i] = IF i <= Len(h) THEN h[i] ELSE r[i - Len(h)]
  <2>1. \A p \in Seq(S), q \in Seq(S) :
          /\ p \o q \in Seq(S) /\ Len(p \o q) = Len(p) + Len(q)
          /\ \A i \in 1..Len(p) + Len(q) : (p \o q)[i] = IF i <= Len(p) THEN p[i] ELSE q[i - Len(p)]
    BY ConcatProperties
  <2> QED BY <1>2, <1>3, <2>1
<1>5. \A i \in 1..Len(s) : (h \o r)[i] = s[i]
  BY <1>1, <1>2, <1>3, <1>4
<1>6. h \o r = s
  <2> DEFINE q == h \o r
  <2>1. q \in Seq(S) /\ Len(q) = Len(s) /\ \A i \in 1..Len(q) : q[i] = s[i]
    BY <1>1, <1>2, <1>3, <1>4, <1>5
  <2> HIDE DEF q
  <2>2. q = s
    BY <2>1, SeqEqual
  <2> QED BY <2>2 DEF q
<1> QED BY <1>6 DEF h, r

\* Taking the first element of a concatenation takes that of the first part.
LEMMA ConcatTail ==
  ASSUME NEW S, NEW s \in Seq(S), NEW t \in Seq(S), s # <<>>
  PROVE  s \o t # <<>> /\ Tail(s \o t) = Tail(s) \o t
<1>1. /\ Len(s) \in Nat \ {0} /\ Len(t) \in Nat
      /\ Tail(s) \in Seq(S) /\ Len(Tail(s)) = Len(s) - 1
      /\ \A i \in 1..Len(Tail(s)) : Tail(s)[i] = s[i + 1]
  BY EmptySeq, LenProperties, HeadTailProperties
<1>2. /\ s \o t \in Seq(S) /\ Len(s \o t) = Len(s) + Len(t)
      /\ \A i \in 1..Len(s) + Len(t) : (s \o t)[i] = IF i <= Len(s) THEN s[i] ELSE t[i - Len(s)]
  BY ConcatProperties
<1>3. s \o t # <<>>
  BY <1>1, <1>2, EmptySeq
<1>4. /\ Tail(s \o t) \in Seq(S) /\ Len(Tail(s \o t)) = Len(s) + Len(t) - 1
      /\ \A i \in 1..Len(Tail(s \o t)) : Tail(s \o t)[i] = (s \o t)[i + 1]
  BY <1>2, <1>3, HeadTailProperties
<1>5. /\ Tail(s) \o t \in Seq(S) /\ Len(Tail(s) \o t) = Len(s) - 1 + Len(t)
      /\ \A i \in 1..Len(s) - 1 + Len(t) :
           (Tail(s) \o t)[i] = IF i <= Len(s) - 1 THEN Tail(s)[i] ELSE t[i - (Len(s) - 1)]
  BY <1>1, ConcatProperties
<1>6. ASSUME NEW i \in 1..Len(Tail(s \o t)) PROVE Tail(s \o t)[i] = (Tail(s) \o t)[i]
  <2>1. i \in Nat /\ i \in 1..Len(s) - 1 + Len(t) /\ i + 1 \in 1..Len(s) + Len(t)
    BY <1>1, <1>4
  <2>2. Tail(s \o t)[i] = IF i + 1 <= Len(s) THEN s[i + 1] ELSE t[i + 1 - Len(s)]
    BY <1>2, <1>4, <2>1
  <2>3. CASE i <= Len(s) - 1
    <3>1. (Tail(s) \o t)[i] = Tail(s)[i] /\ Tail(s)[i] = s[i + 1] /\ i + 1 <= Len(s)
      BY <1>1, <1>5, <2>1, <2>3
    <3> QED BY <2>2, <3>1
  <2>4. CASE ~(i <= Len(s) - 1)
    <3>1. /\ (Tail(s) \o t)[i] = t[i - (Len(s) - 1)] /\ ~(i + 1 <= Len(s))
          /\ i - (Len(s) - 1) = i + 1 - Len(s)
      BY <1>1, <1>5, <2>1, <2>4
    <3> QED BY <2>2, <3>1
  <2> QED BY <2>3, <2>4
<1>7. Tail(s \o t) = Tail(s) \o t
  <2>1. Len(Tail(s \o t)) = Len(Tail(s) \o t)
    BY <1>1, <1>4, <1>5
  <2> QED BY <1>4, <1>5, <1>6, <2>1, SeqEqual
<1> QED BY <1>3, <1>7

\* Appending to the second part appends to the concatenation.
LEMMA ConcatAppend ==
  ASSUME NEW S, NEW s \in Seq(S), NEW t \in Seq(S), NEW e \in S
  PROVE  s \o Append(t, e) = Append(s \o t, e)
<1>1. <<e>> \in Seq(S)
  OBVIOUS
<1>2. Append(t, e) = t \o <<e>>
  BY AppendIsConcat
<1>3. s \o t \in Seq(S)
  BY ConcatProperties
<1>4. Append(s \o t, e) = (s \o t) \o <<e>>
  BY <1>3, AppendIsConcat
<1>5. (s \o t) \o <<e>> = s \o (t \o <<e>>)
  BY <1>1, ConcatAssociative
<1> QED BY <1>2, <1>4, <1>5

\* Moving the head of the second part to the end of the first keeps the
\* concatenation.
LEMMA ConcatMove ==
  ASSUME NEW S, NEW s \in Seq(S), NEW t \in Seq(S), t # <<>>
  PROVE  Append(s, Head(t)) \o Tail(t) = s \o t
<1>1. Head(t) \in S /\ Tail(t) \in Seq(S) /\ <<Head(t)>> \o Tail(t) = t
  BY HeadTailProperties, HeadAndTail
<1> DEFINE h == Head(t)
           r == Tail(t)
<1>2. <<h>> \in Seq(S)
  BY <1>1
<1> HIDE DEF h, r
<1>3. Append(s, h) = s \o <<h>>
  BY <1>1, AppendIsConcat DEF h
<1>4. (s \o <<h>>) \o r = s \o (<<h>> \o r)
  BY <1>1, <1>2, ConcatAssociative DEF r
<1> QED BY <1>1, <1>3, <1>4 DEF h, r

\* The first part of a concatenation is a prefix of it.
LEMMA ConcatPrefix ==
  ASSUME NEW S, NEW s \in Seq(S), NEW t \in Seq(S)
  PROVE  Len(s) \in 0..Len(s \o t) /\ SubSeq(s \o t, 1, Len(s)) = s
<1>1. Len(s) \in Nat /\ Len(t) \in Nat /\ Len(s \o t) = Len(s) + Len(t)
  BY ConcatProperties, LenProperties
<1>2. CASE s = <<>>
  <2>1. Len(s) = 0
    BY <1>2
  <2> QED BY <1>1, <1>2, <2>1, SubSeqEmpty
<1>3. CASE s # <<>>
  <2>1. Len(s) \in 1..Len(s) /\ 1 \in 1..Len(s)
    BY <1>1, <1>3, EmptySeq
  <2> QED BY <1>1, <2>1, SubSeqOfConcat1, SubSeqFull
<1> QED BY <1>2, <1>3

-----------------------------------------------------------------------------
(* Sequences without repetitions *)

\* No element is in the sequence twice.
Distinct(s) == \A i, j \in DOMAIN s : s[i] = s[j] => i = j

\* Appending what is not there repeats nothing.
LEMMA DistinctAppend ==
  ASSUME NEW S, NEW s \in Seq(S), NEW e \in S, Distinct(s), e \notin Range(s)
  PROVE  Distinct(Append(s, e))
BY AppendElements DEF Distinct, Range

\* Two sequences that share no element make one without repetitions.
LEMMA DistinctConcat ==
  ASSUME NEW S, NEW s \in Seq(S), NEW t \in Seq(S), Distinct(s), Distinct(t),
         Range(s) \cap Range(t) = {}
  PROVE  Distinct(s \o t)
<1> DEFINE c == s \o t
<1>1. /\ Len(s) \in Nat /\ DOMAIN s = 1..Len(s)
      /\ Len(t) \in Nat /\ DOMAIN t = 1..Len(t)
      /\ c \in Seq(S) /\ Len(c) = Len(s) + Len(t)
      /\ \A i \in 1..Len(c) : c[i] = IF i <= Len(s) THEN s[i] ELSE t[i - Len(s)]
  BY ConcatProperties, LenProperties
<1> HIDE DEF c
<1>2. DOMAIN c = 1..Len(c)
  BY <1>1, LenProperties
<1>3. ASSUME NEW i \in DOMAIN c
      PROVE  \/ i \in DOMAIN s /\ c[i] = s[i] /\ c[i] \in Range(s)
             \/ /\ i - Len(s) \in DOMAIN t /\ c[i] = t[i - Len(s)] /\ c[i] \in Range(t)
                /\ i \in Nat
  <2>1. CASE i <= Len(s)
    BY <1>1, <1>2, <2>1 DEF Range
  <2>2. CASE ~(i <= Len(s))
    <3>1. i \in Nat /\ i - Len(s) \in DOMAIN t /\ c[i] = t[i - Len(s)]
      BY <1>1, <1>2, <2>2
    <3> QED BY <3>1 DEF Range
  <2> QED BY <2>1, <2>2
<1>4. ASSUME NEW i \in DOMAIN c, NEW j \in DOMAIN c, c[i] = c[j] PROVE i = j
  <2>1. CASE i \in DOMAIN s /\ j \in DOMAIN s /\ c[i] = s[i] /\ c[j] = s[j]
    BY <1>4, <2>1 DEF Distinct
  <2>2. CASE /\ i - Len(s) \in DOMAIN t /\ j - Len(s) \in DOMAIN t /\ i \in Nat /\ j \in Nat
             /\ c[i] = t[i - Len(s)] /\ c[j] = t[j - Len(s)]
    <3>1. i - Len(s) = j - Len(s)
      BY <1>4, <2>2 DEF Distinct
    <3> QED BY <1>1, <2>2, <3>1
  <2> QED BY <1>3, <1>4, <2>1, <2>2
<1> QED BY <1>4 DEF Distinct, c

\* What RemoveFirst cuts out and what it keeps.
LEMMA RemoveFirstElements ==
  ASSUME NEW S, NEW s \in Seq(S), NEW e, Distinct(s)
  PROVE  /\ RemoveFirst(s, e) \in Seq(S)
         /\ Distinct(RemoveFirst(s, e))
         /\ Range(RemoveFirst(s, e)) = Range(s) \ {e}
<1>1. Len(s) \in Nat /\ DOMAIN s = 1..Len(s)
  BY LenProperties
<1>2. CASE ~ \E i \in 1..Len(s) : s[i] = e
  BY <1>1, <1>2 DEF RemoveFirst, Range
<1>3. CASE \E i \in 1..Len(s) : s[i] = e
  <2> DEFINE I == {i \in 1..Len(s) : s[i] = e}
             n == Min(I)
             a == SubSeq(s, 1, n - 1)
             b == SubSeq(s, n + 1, Len(s))
  <2>1. n \in I
    <3>1. I \subseteq Nat /\ I # {}
      BY <1>1, <1>3
    <3>2. \E x \in I : \A y \in I : x <= y
      <4> HIDE DEF I
      <4> QED BY <3>1, LeastNumber
    <3> HIDE DEF I
    <3> QED BY <3>2 DEF Min
  <2>2. RemoveFirst(s, e) = a \o b
    <3>1. I # {} /\ SelectInSeq(s, LAMBDA v : v = e) = n
      BY <1>3 DEF SelectInSeq
    <3>2. RemoveFirst(s, e) = RemoveAt(s, SelectInSeq(s, LAMBDA v : v = e))
      BY <1>3 DEF RemoveFirst
    <3> QED BY <3>1, <3>2 DEF RemoveAt
  <2> HIDE DEF n
  <2>3. n \in 1..Len(s) /\ s[n] = e
    BY <2>1
  <2>4. /\ a \in Seq(S) /\ Len(a) = n - 1 /\ DOMAIN a = 1..(n - 1)
        /\ \A i \in DOMAIN a : a[i] = s[i]
    <3>1. a \in Seq(S) /\ Len(a) = n - 1 /\ \A i \in 1..(n - 1) : a[i] = s[i]
      BY <1>1, <2>3, SubSeqProperties, ElementOfSeq
    <3> HIDE DEF a
    <3> QED BY <3>1, LenProperties
  <2>5. /\ b \in Seq(S) /\ Len(b) = Len(s) - n /\ DOMAIN b = 1..(Len(s) - n)
        /\ \A i \in DOMAIN b : b[i] = s[n + i]
    <3>1. /\ b \in Seq(S) /\ Len(b) = Len(s) - n
          /\ \A i \in 1..(Len(s) - n) : b[i] = s[n + i]
      <4> DEFINE k == n + 1
                 l == Len(s)
      <4>1. k \in Int /\ l \in Int /\ \A i \in k..l : s[i] \in S
        BY <1>1, <2>3, ElementOfSeq
      <4> HIDE DEF l
      <4>2. l - k + 1 = l - n /\ (k <= l \/ l - n = 0)
        <5>1. l \in Int /\ n \in Int /\ n <= l
          BY <1>1, <2>3 DEF l
        <5> QED BY <5>1
      <4> HIDE DEF k
      <4>3. /\ SubSeq(s, k, l) \in Seq(S)
            /\ Len(SubSeq(s, k, l)) = IF k <= l THEN l - k + 1 ELSE 0
            /\ \A i \in 1..(l - k + 1) : SubSeq(s, k, l)[i] = s[k + i - 1]
        BY <4>1, SubSeqProperties
      <4>4. \A i \in 1..(l - n) : k + i - 1 = n + i
        BY <2>3 DEF k
      <4> QED BY <4>2, <4>3, <4>4 DEF k, l
    <3> HIDE DEF b
    <3> QED BY <3>1, LenProperties
  <2> HIDE DEF a, b
  <2>6. ASSUME NEW i \in DOMAIN a PROVE i \in DOMAIN s /\ i < n /\ a[i] = s[i]
    BY <1>1, <2>3, <2>4
  <2>7. ASSUME NEW i \in DOMAIN b PROVE n + i \in DOMAIN s /\ n < n + i /\ b[i] = s[n + i]
    BY <1>1, <2>3, <2>5
  <2>8. Distinct(a)
    BY <2>6 DEF Distinct
  <2>9. Distinct(b)
    <3>1. ASSUME NEW i \in DOMAIN b, NEW j \in DOMAIN b, b[i] = b[j] PROVE i = j
      <4>1. n + i = n + j
        BY <2>7, <3>1 DEF Distinct
      <4> QED BY <1>1, <2>3, <2>5, <4>1
    <3> QED BY <3>1 DEF Distinct
  <2>10. Range(a) \cap Range(b) = {}
    <3>1. ASSUME NEW i \in DOMAIN a, NEW j \in DOMAIN b, a[i] = b[j] PROVE FALSE
      <4>1. i = n + j
        BY <2>6, <2>7, <3>1 DEF Distinct
      <4> QED BY <2>3, <2>6, <2>7, <4>1
    <3> QED BY <3>1 DEF Range
  <2>11. Range(a) \cup Range(b) = Range(s) \ {e}
    <3>1. ASSUME NEW i \in DOMAIN s, s[i] # e PROVE s[i] \in Range(a) \cup Range(b)
      <4>1. CASE i < n
        <5>1. i \in DOMAIN a /\ a[i] = s[i]
          BY <1>1, <2>3, <2>4, <4>1
        <5> QED BY <5>1 DEF Range
      <4>2. CASE n < i
        <5>1. i - n \in DOMAIN b /\ b[i - n] = s[n + (i - n)] /\ n + (i - n) = i
          BY <1>1, <2>3, <2>5, <4>2
        <5> QED BY <5>1 DEF Range
      <4> QED BY <1>1, <2>3, <3>1, <4>1, <4>2
    <3>2. ASSUME NEW i \in DOMAIN a PROVE a[i] \in Range(s) \ {e}
      BY <1>1, <2>3, <2>6 DEF Distinct, Range
    <3>3. ASSUME NEW i \in DOMAIN b PROVE b[i] \in Range(s) \ {e}
      BY <1>1, <2>3, <2>7 DEF Distinct, Range
    <3> QED BY <3>1, <3>2, <3>3 DEF Range
  <2>12. a \o b \in Seq(S) /\ Range(a \o b) = Range(a) \cup Range(b)
    BY <2>4, <2>5, ConcatProperties, RangeConcatenation
  <2>13. Distinct(a \o b)
    BY <2>4, <2>5, <2>8, <2>9, <2>10, DistinctConcat
  <2> QED BY <2>2, <2>11, <2>12, <2>13
<1> QED BY <1>2, <1>3

-----------------------------------------------------------------------------
(* A sequence of sequences, one after the other *)

\* FlattenSeq adds one sequence after the other: the function it is defined by
\* exists.
LEMMA FlattenSteps ==
  ASSUME NEW seqs, Len(seqs) \in Nat \ {0}
  PROVE  \E f : /\ FlattenSeq(seqs) = f[Len(seqs)]
                /\ 1 \in 1..Len(seqs) /\ f[1] = seqs[1]
                /\ \A i \in 1..Len(seqs) : i + 1 <= Len(seqs) => f[i + 1] = f[i] \o seqs[i + 1]
<1> DEFINE Step(f, i) == IF i = 1 THEN seqs[i] ELSE f[i - 1] \o seqs[i]
           Upto(f, n) == f = [i \in 1..n |-> Step(f, i)]
           T == {n \in Nat : \E f : Upto(f, n)}
<1>1. 0 \in T
  <2>1. Upto([i \in 1..0 |-> 0], 0)
    OBVIOUS
  <2> QED BY <2>1
<1>2. ASSUME NEW n \in Nat, n \in T PROVE n + 1 \in T
  <2>1. PICK f : Upto(f, n)
    BY <1>2
  <2> DEFINE g == [i \in 1..(n + 1) |-> Step(f, i)]
  <2>2. ASSUME NEW i \in 1..(n + 1) PROVE Step(f, i) = Step(g, i)
    <3>1. CASE i = 1
      BY <3>1
    <3>2. CASE i # 1
      <4>1. i - 1 \in 1..n /\ i - 1 \in 1..(n + 1)
        BY <3>2
      <4>2. f[i - 1] = Step(f, i - 1) /\ g[i - 1] = Step(f, i - 1)
        <5>1. f[i - 1] = Step(f, i - 1)
          <6> HIDE DEF Step
          <6> QED BY <2>1, <4>1
        <5> HIDE DEF Step
        <5> QED BY <4>1, <5>1
      <4> QED BY <3>2, <4>2
    <3> QED BY <3>1, <3>2
  <2>3. Upto(g, n + 1)
    <3> HIDE DEF Step
    <3> QED BY <2>2
  <2> HIDE DEF g, Upto
  <2> QED BY <2>3
<1>3. Len(seqs) \in T
  <2> HIDE DEF T
  <2> QED BY <1>1, <1>2, SetInduction
<1> DEFINE F == CHOOSE f : Upto(f, Len(seqs))
<1>4. Upto(F, Len(seqs))
  <2>1. \E f : Upto(f, Len(seqs))
    BY <1>3
  <2> HIDE DEF Upto
  <2> QED BY <2>1
<1>5. FlattenSeq(seqs) = F[Len(seqs)]
  BY DEF FlattenSeq
<1> HIDE DEF F
<1>6. ASSUME NEW i \in 1..Len(seqs) PROVE F[i] = Step(F, i)
  <2> HIDE DEF Step
  <2> QED BY <1>4
<1>7. F[1] = seqs[1] /\ 1 \in 1..Len(seqs)
  <2>1. 1 \in 1..Len(seqs)
    OBVIOUS
  <2> QED BY <1>6, <2>1
<1>8. ASSUME NEW i \in 1..Len(seqs), i + 1 <= Len(seqs) PROVE F[i + 1] = F[i] \o seqs[i + 1]
  <2>1. i + 1 \in 1..Len(seqs) /\ i + 1 # 1 /\ (i + 1) - 1 = i
    BY <1>8
  <2>2. F[i + 1] = Step(F, i + 1)
    <3> HIDE DEF Step
    <3> QED BY <1>6, <2>1
  <2> QED BY <2>1, <2>2
<1> HIDE DEF Step, Upto, T
<1> QED BY <1>5, <1>7, <1>8

\* A flattened sequence holds what its parts hold, and repeats nothing if no
\* part does and no two parts share an element.
LEMMA FlattenElements ==
  ASSUME NEW S, NEW seqs \in Seq(Seq(S))
  PROVE  /\ FlattenSeq(seqs) \in Seq(S)
         /\ Range(FlattenSeq(seqs)) = UNION {Range(seqs[i]) : i \in DOMAIN seqs}
         /\ /\ \A i \in DOMAIN seqs : Distinct(seqs[i])
            /\ \A i, j \in DOMAIN seqs : i # j => Range(seqs[i]) \cap Range(seqs[j]) = {}
            => Distinct(FlattenSeq(seqs))
<1> DEFINE L == Len(seqs)
           Apart == /\ \A i \in DOMAIN seqs : Distinct(seqs[i])
                    /\ \A i, j \in DOMAIN seqs : i # j => Range(seqs[i]) \cap Range(seqs[j]) = {}
<1>0. L \in Nat /\ DOMAIN seqs = 1..L /\ \A i \in 1..L : seqs[i] \in Seq(S)
  BY LenProperties, ElementOfSeq
<1>1. CASE L = 0
  <2>1. FlattenSeq(seqs) = seqs
    BY <1>1 DEF FlattenSeq
  <2>2. seqs = <<>> /\ DOMAIN seqs = {}
    BY <1>0, <1>1, EmptySeq
  <2>3. <<>> \in Seq(S) /\ Range(seqs) = {} /\ Distinct(seqs)
    BY <2>2 DEF Range, Distinct
  <2> QED BY <2>1, <2>2, <2>3
<1>2. CASE L # 0
  <2>1. PICK f : /\ FlattenSeq(seqs) = f[L]
                 /\ 1 \in 1..L /\ f[1] = seqs[1]
                 /\ \A i \in 1..L : i + 1 <= L => f[i + 1] = f[i] \o seqs[i + 1]
    BY <1>0, <1>2, FlattenSteps
  <2> HIDE DEF L
  <2> DEFINE Good(n) == /\ f[n] \in Seq(S)
                        /\ Range(f[n]) = UNION {Range(seqs[i]) : i \in 1..n}
                        /\ Apart => Distinct(f[n])
             T == {n \in Nat : 1 <= n /\ n <= L => Good(n)}
  <2>2. 0 \in T
    OBVIOUS
  <2>3. ASSUME NEW n \in Nat, n \in T PROVE n + 1 \in T
    <3>1. SUFFICES ASSUME n + 1 <= L PROVE Good(n + 1)
      OBVIOUS
    <3>2. CASE n = 0
      <4>1. 1..(n + 1) = {1} /\ f[n + 1] = seqs[1] /\ n + 1 = 1
        BY <2>1, <3>2
      <4>2. UNION {Range(seqs[i]) : i \in {1}} = Range(seqs[1])
        OBVIOUS
      <4>3. Apart => Distinct(seqs[1])
        BY <1>0, <2>1
      <4> QED BY <1>0, <2>1, <4>1, <4>2, <4>3
    <3>3. CASE n # 0
      <4>1. n \in 1..L /\ n + 1 \in 1..L /\ Good(n) /\ f[n + 1] = f[n] \o seqs[n + 1]
        <5>1. L \in Nat /\ 1 <= n /\ n <= L
          BY <1>0, <2>3, <3>1, <3>3
        <5>2. n \in 1..L /\ n + 1 \in 1..L
          BY <2>3, <3>1, <5>1
        <5>3. Good(n)
          <6> HIDE DEF Good
          <6> QED BY <2>3, <5>1
        <5>4. f[n + 1] = f[n] \o seqs[n + 1]
          BY <2>1, <3>1, <5>2
        <5> QED BY <5>2, <5>3, <5>4
      <4>2. seqs[n + 1] \in Seq(S) /\ f[n] \in Seq(S)
        BY <1>0, <4>1
      <4>3. f[n + 1] \in Seq(S) /\ Range(f[n + 1]) = Range(f[n]) \cup Range(seqs[n + 1])
        BY <4>1, <4>2, ConcatProperties, RangeConcatenation
      <4>4. 1..(n + 1) = 1..n \cup {n + 1}
        BY <4>1
      <4>5. Range(f[n + 1]) = UNION {Range(seqs[i]) : i \in 1..(n + 1)}
        BY <4>1, <4>3, <4>4
      <4>6. ASSUME Apart PROVE Distinct(f[n + 1])
        <5>1. Distinct(f[n]) /\ Distinct(seqs[n + 1])
          BY <1>0, <4>1, <4>6
        <5>2. ASSUME NEW i \in 1..n PROVE Range(seqs[i]) \cap Range(seqs[n + 1]) = {}
          <6>1. i \in DOMAIN seqs /\ n + 1 \in DOMAIN seqs /\ i # n + 1
            BY <1>0, <4>1
          <6> QED BY <4>6, <6>1
        <5>3. Range(f[n]) \cap Range(seqs[n + 1]) = {}
          BY <4>1, <5>2
        <5> QED BY <4>1, <4>2, <5>1, <5>3, DistinctConcat
      <4> QED BY <4>3, <4>5, <4>6
    <3> QED BY <3>2, <3>3
  <2>4. L \in T
    <3> HIDE DEF T
    <3> QED BY <1>0, <2>2, <2>3, SetInduction
  <2>5. Good(L)
    BY <1>0, <1>2, <2>4
  <2> QED BY <1>0, <2>1, <2>5
<1> QED BY <1>1, <1>2

=============================================================================

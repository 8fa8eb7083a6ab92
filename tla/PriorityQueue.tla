--------------------------- MODULE PriorityQueue ---------------------------
(***************************************************************************)
(* The priority queue of the organizer: a binary heap kept in a slice by   *)
(* container/heap through the methods Less, Swap, Push and Pop.  Index i   *)
(* of the slice is index i + 1 of the sequence, so that the parent of i is *)
(* i \div 2.                                                               *)
(*                                                                         *)
(* The operators say where the elements end up after the swaps of the      *)
(* library's up and down.                                                  *)
(***************************************************************************)
EXTENDS WeddingEvents, Integers, FiniteSets, SequencesExt

-----------------------------------------------------------------------------
MutantPriorityIndex(p) == CASE p = "High" -> 0 [] p = "Medium" -> 1
                            [] OTHER -> 0

priorityIndex(p) == CASE p = "High" -> 0 [] p = "Medium" -> 1
                      [] p = "Low" -> 2 [] OTHER -> 3

Less(e, f) == priorityIndex(PriorityOf[e]) < priorityIndex(PriorityOf[f])

Parent(i) == i \div 2

\* For each of n indices, those above it on its way to the root.
Ancestors(n) ==
  LET above[i \in 1..n] == IF i = 1 THEN {} ELSE {Parent(i)} \cup above[Parent(i)]
  IN  above

MutantHeapPush(h, e) == Append(h, e)    \* Push without the fix of the library

\* heap.Push: the new element rises from the end past every ancestor it is
\* less than, and stops at the first it is not.
HeapPush(h, e) ==
  LET last == Len(h) + 1
      above == Ancestors(last)[last]
      passed == {a \in above : \A b \in above : b >= a => Less(e, h[b])}
  IN  [i \in 1..last |->
         IF i \in passed \cup {last}
         THEN IF Parent(i) \in passed THEN h[Parent(i)] ELSE e
         ELSE h[i]]

\* The smaller child of i among the first n elements, the left one if equal.
SmallerChild(h, n, i) ==
  IF 2 * i + 1 <= n /\ Less(h[2 * i + 1], h[2 * i]) THEN 2 * i + 1 ELSE 2 * i

\* The indices e passes on its way down from the root: each is the smaller
\* child of the one above it, and less than e.
SinkPath(h, n, e) ==
  {i \in 1..n : \A b \in (Ancestors(n)[i] \cup {i}) \ {1} :
                  b = SmallerChild(h, n, Parent(b)) /\ Less(h[b], e)}

\* heap.Pop: the root is taken out, and the last element sinks from there.
HeapTop(h) == h[1]

HeapRest(h) ==
  LET n == Len(h) - 1
      e == h[Len(h)]
      path == SinkPath(h, n, e)
  IN  [i \in 1..n |->
         IF i \notin path THEN h[i]
         ELSE IF SmallerChild(h, n, i) \in path
              THEN h[SmallerChild(h, n, i)] ELSE e]

\* One round of the loop of drainLocked, the k-th.
PopNext(acc, k) ==
  [rest |-> IF Len(acc.rest) = 1 THEN <<>> ELSE HeapRest(acc.rest),
   out |-> Append(acc.out, HeapTop(acc.rest))]

Drained(h, count) ==
  FoldLeft(PopNext, [rest |-> h, out |-> <<>>], [k \in 1..count |-> k])

MutantDrainLocked(h) == Drained(h, Len(h) - 1)  \* stops while one is left

\* Everything the queue holds, popped until it is empty.
drainLocked(h) == Drained(h, Len(h))

-----------------------------------------------------------------------------
\* What the deadlines say about urgency; an unknown priority has none.
MoreUrgent(e, f) ==
  /\ PriorityOf[e] \in Priorities
  /\ PriorityOf[f] \in Priorities => Deadlines[PriorityOf[e]] < Deadlines[PriorityOf[f]]

Heapified(pushes) == FoldLeft(HeapPush, <<>>, pushes)

\* No element of the slice is less than its parent.
HeapOrdered(h) == \A i \in 2..Len(h) : ~Less(h[i], h[Parent(i)])

\* The events of the pushes, the most urgent first and those of unknown
\* priority last.
SortedByUrgency(batch, pushes) ==
  /\ Len(batch) = Len(pushes) /\ Range(batch) = Range(pushes)
  /\ \A i, j \in DOMAIN batch : i < j => ~MoreUrgent(batch[j], batch[i])
=============================================================================

--------------------------- MODULE PriorityQueue ---------------------------
(* The bounded binary heap of frt_priorityqueue.c, from which the scorers     *)
(* take the scorer with the lowest document and the searchers the worst hit.  *)
(* A queue is the sequence of its elements heap[1..size]; the capacity and    *)
(* the order are arguments: lt[a, b] is what less_than(a, b) returns. Growing *)
(* the array (mem_capa) is left out.                                          *)
(* hit_pq_up, hit_pq_down, hit_pq_pop and hit_pq_insert of frt_search.c are   *)
(* the same code with hit_lt in place of the function pointer.                *)
EXTENDS Integers, Sequences, TLC

\* frt_pq_up: the last element climbs while it is less than its parent.
\* Climb[i] is what the loop writes from position i on.
Up(pq, lt) ==
  LET node == pq[Len(pq)]
      Climb[i \in 1..Len(pq)] ==
        LET j == i \div 2 IN
        IF j > 0 /\ lt[node, pq[IF j > 0 THEN j ELSE 1]]
          THEN (i :> pq[j]) @@ Climb[j]
          ELSE i :> node
  IN Climb[Len(pq)] @@ pq

\* frt_pq_down: the first element sinks while the lesser child is less than it.
Down(pq, lt) ==
  LET size == Len(pq)
      Child(i) == IF 2 * i + 1 <= size /\ lt[pq[2 * i + 1], pq[2 * i]]
                    THEN 2 * i + 1 ELSE 2 * i
      Sink[i \in 1..size] ==
        IF Child(i) <= size /\ lt[pq[Child(i)], pq[1]]
          THEN (i :> pq[Child(i)]) @@ Sink[Child(i)]
          ELSE i :> pq[1]
  IN IF pq = <<>> THEN pq ELSE Sink[1] @@ pq

\* frt_pq_push
Push(pq, elem, lt) == Up(Append(pq, elem), lt)

\* frt_pq_insert: a full queue keeps elem only in place of a lesser first one.
Insert(pq, capa, elem, lt) ==
  IF Len(pq) < capa THEN Push(pq, elem, lt)
  ELSE IF pq # <<>> /\ lt[pq[1], elem]
         THEN Down([pq EXCEPT ![1] = elem], lt)
         ELSE pq

\* frt_pq_pop: the last element takes the place of the first and sinks.
\* What is returned is pq[1], frt_pq_top.
Pop(pq, lt) ==
  IF Len(pq) <= 1 THEN <<>>
  ELSE Down(SubSeq([pq EXCEPT ![1] = pq[Len(pq)]], 1, Len(pq) - 1), lt)

=============================================================================

------------------------------ MODULE MCTimeShare ------------------------------
(***************************************************************************)
(* TimeShare on a small instance, and what its heaps do, one call at a     *)
(* time, on heaps larger than those of the instance.                       *)
(***************************************************************************)
EXTENDS TimeShare, ThreadHeap

CONSTANTS MaxLen,     \* longest heap before a call
          Keys        \* the keys members have

(* The operators of ThreadHeap never compare members, so the one at        *)
(* position i may be called i: one call from every such heap covers every  *)
(* heap of that size, whichever calls produced it.                         *)
Ids(n) == 1..n
AnyHeap(n) == [at |-> <<>> \o [i \in Ids(n) |-> i], id |-> [i \in Ids(n + 1) |-> i]]

(* An ordered heap of exactly these members, heap_id in step with it.      *)
HeapOf(H, key, members) ==
  /\ HeapOrdered(H.at, key)
  /\ HeapIndexed(H)
  /\ {H.at[i] : i \in 1..Len(H.at)} = members
  /\ Len(H.at) = Cardinality(members)

(* run_heap.c, ready_heap.c, sem_time.c: whatever is inserted, removed     *)
(* from the middle or given another key, every parent still comes before   *)
(* its children, although a removal repairs the hole in one direction only,*)
(* and heap_id is the place of everyone who is left.                       *)
ASSUME HeapsAreKept ==
  \A n \in 0..MaxLen : \A key \in [Ids(n + 1) -> Keys] :
    HeapOrdered(AnyHeap(n).at, key) =>
      /\ HeapOf(HeapInsert(AnyHeap(n), key, n + 1), key, Ids(n + 1))
      /\ \A t \in Ids(n) :
           /\ HeapOf(HeapRemove(AnyHeap(n), key, t), key, Ids(n) \ {t})
           /\ \A k \in Keys :
                HeapOf(HeapRekey(AnyHeap(n), key, t, k), [key EXCEPT ![t] = k], Ids(n))
================================================================================

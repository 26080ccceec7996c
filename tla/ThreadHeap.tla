----------------------------- MODULE ThreadHeap -----------------------------
(***************************************************************************)
(* The two binary heaps of a CPU set: kernel/run_heap.c keeps the running  *)
(* threads with the worst (largest) priority at the root, and              *)
(* kernel/ready_heap.c keeps the ready threads with the best (smallest)    *)
(* priority at the root.  The two files are one algorithm with the order   *)
(* reversed, so every operator takes the key to order by: the priority for *)
(* the ready heap, its negation for the run heap.  The timers of semaphores*)
(* (kernel/sem_time.c) are a third copy, by the time they are due, which   *)
(* all semaphores are always in.                                           *)
(*                                                                         *)
(* A heap H has the array and the os_thread[].heap_id field that every     *)
(* exchange keeps in step with it:                                         *)
(*     H.at   the sequence of thread ids; position i is C's index i - 1    *)
(*     H.id   for every thread, its position (C's heap_id + 1), which is   *)
(*            left over from earlier when the thread is in no heap         *)
(***************************************************************************)
EXTENDS Integers, Sequences

Parent(i) == i \div 2

(* The child the down-deal loop compares with: the left one iff it is      *)
(* alone or strictly first.                                                *)
Child(at, key, i) ==
  LET left  == 2 * i
      right == 2 * i + 1
  IN  IF right > Len(at) \/ key[at[left]] < key[at[right]] THEN left ELSE right

(* A plausible fault: an inserted thread stays at the end.                 *)
UpNextNever(at, key, t) == [j \in DOMAIN at |-> 0]

(* Where thread t goes next from each position on its way to the root or   *)
(* to the leaves; 0 where it stays.                                        *)
UpNext(at, key, t) ==
  [j \in DOMAIN at |->
     IF j = 1 \/ key[t] >= key[at[Parent(j)]] THEN 0 ELSE Parent(j)]

DownNext(at, key, t) ==
  [j \in DOMAIN at |->
     IF 2 * j > Len(at) \/ key[t] <= key[at[Child(at, key, j)]]
     THEN 0 ELSE Child(at, key, j)]

(* The positions visited from position i on: the fewest that are closed    *)
(* under next.                                                             *)
Visited(next, i) ==
  LET closed == {D \in SUBSET DOMAIN next :
                   i \in D /\ \A j \in D : next[j] # 0 => next[j] \in D}
  IN  {j \in DOMAIN next : \A D \in closed : j \in D}

(* The exchanges on the way: the thread at position i moves to the end of  *)
(* the way, every other one on it a step back; heap_id follows for the     *)
(* threads that moved.                                                     *)
ExchangedAt(at, next, i) ==
  LET way == Visited(next, i)
  IN  [j \in DOMAIN at |-> IF j \notin way THEN at[j]
                           ELSE IF next[j] = 0 THEN at[i] ELSE at[next[j]]]

Exchange(H, next, i) ==
  LET way == Visited(next, i)
      at  == ExchangedAt(H.at, next, i)
  IN  [at |-> at,
       id |-> [t \in DOMAIN H.id |->
                 IF \E j \in way : at[j] = t THEN CHOOSE j \in way : at[j] = t
                 ELSE H.id[t]]]

UpDeal(H, key, t)   == Exchange(H, UpNext(H.at, key, t), H.id[t])
DownDeal(H, key, t) == Exchange(H, DownNext(H.at, key, t), H.id[t])

HeapInsert(H, key, t) ==
  UpDeal([at |-> Append(H.at, t),
          id |-> [H.id EXCEPT ![t] = Len(H.at) + 1]], key, t)

(* The thread leaves by an exchange with the last one, which is then put   *)
(* right in one direction only, chosen by comparing the two keys.          *)
HeapRemove(H, key, t) ==
  LET n       == Len(H.at)
      filler  == H.at[n]
      shorter == [at |-> SubSeq([H.at EXCEPT ![H.id[t]] = filler, ![n] = t], 1, n - 1),
                  id |-> [H.id EXCEPT ![t] = n, ![filler] = H.id[t]]]
  IN  IF key[filler] = key[t] THEN shorter
      ELSE IF key[filler] < key[t] THEN UpDeal(shorter, key, filler)
      ELSE DownDeal(shorter, key, filler)

(* set_semaphore_time: another key, and up or down with it.                *)
HeapRekey(H, key, t, k) ==
  LET new == [key EXCEPT ![t] = k]
  IN  IF k < key[t] THEN UpDeal(H, new, t)
      ELSE IF k > key[t] THEN DownDeal(H, new, t)
      ELSE H

-----------------------------------------------------------------------------
(* The heap order, and the agreement of heap_id with the array.            *)
HeapOrdered(at, key) == \A i \in 2..Len(at) : key[at[Parent(i)]] <= key[at[i]]
HeapIndexed(H) == \A i \in 1..Len(H.at) : H.id[H.at[i]] = i
=============================================================================

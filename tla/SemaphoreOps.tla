---------------------------- MODULE SemaphoreOps ----------------------------
(***************************************************************************)
(* The operations of kernel/p_sem.c, v_sem.c and semaphore.c on the state  *)
(* of all semaphores, as operators: a kernel function makes several of them*)
(* one after the other under the kernel lock, and modules that model such  *)
(* functions compose them.                                                 *)
(*                                                                         *)
(* A thread sleeps exactly when it has a sleep_semaphore_id: p sets the    *)
(* one and calls remove_from_heap, v clears it and calls insert_into_heap. *)
(* The ring of a semaphore is a sequence that begins with thread_ring.     *)
(* Left out are capabilities (a caller without it changes nothing) and the *)
(* number a woken thread is told; semaphore 0, the pool of idle threads,   *)
(* is part of thread creation.                                             *)
(***************************************************************************)
EXTENDS Integers, Sequences, FiniteSets, Threads

CONSTANT Semaphore

ASSUME SemaphoreAssumption == None \notin Semaphore

(* value: os_semaphore[].value        ring: the circle thread_ring enters  *)
(* stray: circles no thread_ring enters any more, for allocate_semaphore   *)
(*        sets it to -1 without looking at the sleepers                    *)
(* sleep: os_thread[].sleep_semaphore_id                                   *)
SemaphoreState ==
  [value : [Semaphore -> Int], ring : [Semaphore -> Seq(Thread)],
   stray : SUBSET Seq(Thread), sleep : [Thread -> Semaphore \cup {None}]]

Awake(Q, t)   == Q.sleep[t] = None
Members(c)    == {c[i] : i \in 1..Len(c)}
Ring(Q, s)    == Members(Q.ring[s])

-----------------------------------------------------------------------------
(* Faults a change of the code might introduce, one for every property.    *)
(* Nothing below uses them.                                                *)
SleepKeepsUnit(Q, t, s) ==
  [Q EXCEPT !.ring[s] = Append(@, t), !.sleep[t] = s]
RotatedLoses(c, t) ==
  LET i == CHOOSE j \in 1..Len(c) : c[j] = t IN SubSeq(c, i, Len(c))
EnqueuedFirst(c, t) == <<t>> \o c
WokenNoneIfNegative(Q, s, n) ==
  IF n < 0 THEN 0 ELSE IF n > Len(Q.ring[s]) THEN Len(Q.ring[s]) ELSE n

-----------------------------------------------------------------------------
(* p: the new sleeper goes in front of thread_ring, the end of the circle. *)
Enqueued(c, t) == Append(c, t)

Sleep(Q, t, s) ==
  [Q EXCEPT !.value[s] = @ - 1, !.ring[s] = Enqueued(@, t), !.sleep[t] = s]

P(Q, t, s, sleep_flag) ==
  IF ~Awake(Q, t) THEN Q
  ELSE IF Q.value[s] > 0 THEN [Q EXCEPT !.value[s] = @ - 1]
  ELSE IF sleep_flag THEN Sleep(Q, t, s) ELSE Q

(* v: so many threads it wakes, from the head of the ring; a negative      *)
(* number of steps means all of them, and then no unit is left over.       *)
Woken(Q, s, n) ==
  IF n < 0 \/ n > Len(Q.ring[s]) THEN Len(Q.ring[s]) ELSE n

V(Q, s, n) ==
  LET k == Woken(Q, s, n)
  IN  [Q EXCEPT !.value[s] = IF n < 0 THEN @ + k ELSE @ + n,
                !.ring[s]  = SubSeq(@, k + 1, Len(@)),
                !.sleep    = [t \in Thread |->
                   IF \E i \in 1..k : Q.ring[s][i] = t THEN None ELSE Q.sleep[t]]]

(* v_thread: thread_ring is set to the thread wherever it is, then v(1).   *)
(* Those ahead of it are now behind it; if its circle was astray, the one  *)
(* that was in place is astray instead.                                    *)
Rotated(c, t) ==
  LET i == CHOOSE j \in 1..Len(c) : c[j] = t
  IN  SubSeq(c, i, Len(c)) \o SubSeq(c, 1, i - 1)

SetRing(Q, t) ==
  LET s == Q.sleep[t]
      c == CHOOSE x \in Q.stray : t \in Members(x)
  IN  IF t \in Ring(Q, s)
      THEN [Q EXCEPT !.ring[s] = Rotated(@, t)]
      ELSE [Q EXCEPT !.ring[s] = Rotated(c, t),
                     !.stray = (@ \ {c}) \cup ({Q.ring[s]} \ {<<>>})]

VThread(Q, t) ==
  IF Awake(Q, t) THEN Q ELSE V(SetRing(Q, t), Q.sleep[t], 1)

(* reset_semaphore_value: without its call that switches the timer off.    *)
Emptied(Q, s) == IF Q.value[s] < 0 THEN V(Q, s, -1) ELSE Q
Reset(Q, s) ==
  [Emptied(Q, s) EXCEPT !.value[s] = IF @ > 0 THEN 0 ELSE @]

(* allocate_semaphore: the sleepers of its former life are left alone.     *)
Allocate(Q, s, value) ==
  [Q EXCEPT !.value[s] = value, !.ring[s] = <<>>,
            !.stray = @ \cup ({Q.ring[s]} \ {<<>>})]
=============================================================================

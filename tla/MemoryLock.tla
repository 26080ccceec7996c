------------------------------ MODULE MemoryLock ------------------------------
(***************************************************************************)
(* The locks of the memory body and of a device, and waiting for a block   *)
(* (driver/memory_lock.c, wait_wakeup.c, lru/wait_block.c, wakeup_block.c, *)
(* kernel/giveup_memory.c, current.c).                                     *)
(*                                                                         *)
(* A lock is a counter changed by every thread in one exchange, and a      *)
(* semaphore for those that find it taken: P comes after the exchange, in a*)
(* system call of its own, and so does the V of the one that let it go.    *)
(* A thread that waits for a block goes to the head of the block's chain,  *)
(* gives the memory lock up and sleeps in one system call; when woken it   *)
(* takes the lock again and wakes the next of the chain.  Of the block all *)
(* that matters is which thread does input or output on it, if any.        *)
(*                                                                         *)
(* place:  "out"    not in the memory body     "in"   it has the memory    *)
(*         "device" it has the device          "unlock", "lock", "call"    *)
(*         the three parts of an exchange of one lock for another          *)
(*         "wait"   it gives up the memory and sleeps     "woken" it must  *)
(*         have the memory again      "next" it has to wake the next one   *)
(*         "wakeup" it has to wake the head of the chain                   *)
(*         "leave"  then its call of the memory body ends                  *)
(***************************************************************************)
EXTENDS SemaphoreOps

CONSTANTS Own,       \* the semaphore each thread sleeps on in memory_wait
          Memory, Device,
          MaxKicks   \* how often sleepers at a lock are kicked: bounds the model

Lock == {Memory, Device}

ASSUME LockAssumption ==
  /\ IsFiniteSet(Thread) /\ None \notin Thread
  /\ Own \in [Thread -> Semaphore \ Lock]
  /\ \A t, u \in Thread : Own[t] = Own[u] => t = u
  /\ Lock \subseteq Semaphore /\ Memory # Device
  /\ MaxKicks \in Nat

VARIABLES q,        \* the semaphores: a SemaphoreState
          spin,     \* driver[].memory_spin_lock and device_spin_lock
          place,    \* where each thread is
          move,     \* the exchange of locks it is in, and the calls it owes
          busy,     \* the thread that does input or output on the block
          head,     \* b->sleep_semaphore
          next,     \* next_sema of every waiting thread, first_semaphore of a waker
          kicks     \* how many threads were kicked out of their sleep at a lock

vars == <<q, spin, place, move, busy, head, next, kicks>>

(* from, to: the locks to give back and to take, r1, r3: those for which V *)
(* and P are to be called.                                                 *)
Move(from, to) == [from |-> from, to |-> to, r1 |-> None, r3 |-> None]
NoMove         == Move(None, None)
Inside(l)      == IF l = Memory THEN "in" ELSE IF l = Device THEN "device" ELSE "out"

-----------------------------------------------------------------------------
(* Faults a change of the code might introduce, one for every property.    *)
(* Nothing below uses them.                                                *)
TakenAtZero(old)       == old < 0
PartsOfWaitApart(t)    ==
  /\ place[t] = "wait" /\ Awake(q, t)
  /\ spin' = [spin EXCEPT ![Memory] = @ + 1]
  /\ q' = P(q, t, Own[t], TRUE)
  /\ place' = [place EXCEPT ![t] = "woken"]
  /\ UNCHANGED <<move, busy, head, next, kicks>>
ChainedBehind(t, first) == head' = IF first = None THEN t ELSE first
-----------------------------------------------------------------------------
Init ==
  /\ q = [value |-> [s \in Semaphore |-> 0], ring |-> [s \in Semaphore |-> <<>>],
          stray |-> {}, sleep |-> [t \in Thread |-> None]]
  /\ spin = [l \in Lock |-> 1]
  /\ place = [t \in Thread |-> "out"]
  /\ move = [t \in Thread |-> NoMove]
  /\ busy = None
  /\ head = None
  /\ next = [t \in Thread |-> None]
  /\ kicks = 0

At(t, where) == place[t] = where /\ Awake(q, t)

(* The exchange found somebody waiting; it found the lock taken.           *)
HasWaiters(old) == old < 0
Taken(old)      == old <= 0

-----------------------------------------------------------------------------
(* memory_service_routine and operate_device: a memory call begins and     *)
(* ends, and input or output with the device lock instead of the memory's. *)
Go(t, from, to) ==
  /\ place' = [place EXCEPT ![t] = IF from = None THEN "lock" ELSE "unlock"]
  /\ move' = [move EXCEPT ![t] = Move(from, to)]
  /\ UNCHANGED <<q, spin, head, next, kicks>>

Enter(t) == At(t, "out") /\ Go(t, None, Memory) /\ UNCHANGED busy
Exit(t)  == (At(t, "in") \/ At(t, "leave")) /\ busy # t /\ Go(t, Memory, None) /\ UNCHANGED busy

(* The block is marked before the memory lock is given up, and again free  *)
(* after it was taken back.                                                *)
StartDevice(t) == At(t, "in") /\ busy = None /\ Go(t, Memory, Device) /\ busy' = t
EndDevice(t)   == At(t, "device") /\ Go(t, Device, Memory) /\ UNCHANGED busy

(* local_unlock_device_and_lock_memory, and its mirror image.              *)
Unlock(t) ==
  LET l == move[t].from
  IN  /\ At(t, "unlock")
      /\ spin' = [spin EXCEPT ![l] = @ + 1]
      /\ move' = [move EXCEPT ![t].r1 = IF HasWaiters(spin[l]) THEN l ELSE None]
      /\ place' = [place EXCEPT ![t] = IF move[t].to = None THEN "call" ELSE "lock"]
      /\ UNCHANGED <<q, busy, head, next, kicks>>

LockIt(t) ==
  LET l == move[t].to
  IN  /\ At(t, "lock")
      /\ spin' = [spin EXCEPT ![l] = @ - 1]
      /\ move' = [move EXCEPT ![t].r3 = IF Taken(spin[l]) THEN l ELSE None]
      /\ place' = [place EXCEPT ![t] = "call"]
      /\ UNCHANGED <<q, busy, head, next, kicks>>

(* SEMAPHORE_OPERATION_SYSTEM_CALL: V of the one, P of the other lock.     *)
CallV(Q, s)    == IF s = None THEN Q ELSE V(Q, s, 1)
CallP(Q, t, s) == IF s = None THEN Q ELSE P(Q, t, s, TRUE)

Call(t) ==
  /\ At(t, "call")
  /\ q' = CallP(CallV(q, move[t].r1), t, move[t].r3)
  /\ place' = [place EXCEPT ![t] = Inside(move[t].to)]
  /\ move' = [move EXCEPT ![t] = NoMove]
  /\ UNCHANGED <<spin, busy, head, next, kicks>>

-----------------------------------------------------------------------------
(* wait_at_block: the thread becomes the head of the chain.                *)
Chained(t, first) == head' = t

WaitAtBlock(t) ==
  /\ At(t, "in") /\ busy \notin {None, t}
  /\ next' = [next EXCEPT ![t] = head]
  /\ Chained(t, head)
  /\ place' = [place EXCEPT ![t] = "wait"]
  /\ UNCHANGED <<q, spin, move, busy, kicks>>

(* memory_wait: give_up_memory_body and P of its own semaphore in one      *)
(* system call.                                                            *)
GiveUpAndSleep(t) ==
  /\ At(t, "wait")
  /\ spin' = [spin EXCEPT ![Memory] = @ + 1]
  /\ q' = P(CallV(q, IF HasWaiters(spin[Memory]) THEN Memory ELSE None), t, Own[t], TRUE)
  /\ place' = [place EXCEPT ![t] = "woken"]
  /\ UNCHANGED <<move, busy, head, next, kicks>>

(* memory_body_p_operation, before the thread goes on.                     *)
Relock(t) ==
  /\ At(t, "woken")
  /\ spin' = [spin EXCEPT ![Memory] = @ - 1]
  /\ q' = IF Taken(spin[Memory]) THEN P(q, t, Memory, TRUE) ELSE q
  /\ place' = [place EXCEPT ![t] = "next"]
  /\ UNCHANGED <<move, busy, head, next, kicks>>

(* The end of memory_wait: V(-1) wakes the next one if it sleeps.          *)
WakeNext(t) ==
  /\ At(t, "next")
  /\ q' = IF next[t] = None THEN q ELSE V(q, Own[next[t]], -1)
  /\ next' = [next EXCEPT ![t] = None]
  /\ place' = [place EXCEPT ![t] = "in"]
  /\ UNCHANGED <<spin, move, busy, head, kicks>>

(* wakeup_block: when input or output is over, or early, by                *)
(* wakeup_file_window, for waiters that are no longer to wait.             *)
WakeupBlock(t) ==
  /\ At(t, "in") /\ busy # None
  /\ busy' = IF busy = t THEN None ELSE busy
  /\ next' = [next EXCEPT ![t] = head]
  /\ head' = None
  /\ place' = [place EXCEPT ![t] = "wakeup"]
  /\ UNCHANGED <<q, spin, move, kicks>>

MemoryWakeup(t) ==
  /\ At(t, "wakeup")
  /\ q' = IF next[t] = None THEN q ELSE V(q, Own[next[t]], 1)
  /\ next' = [next EXCEPT ![t] = None]
  /\ place' = [place EXCEPT ![t] = "leave"]
  /\ UNCHANGED <<spin, move, busy, head, kicks>>

(* A sleeper told to exit is woken (set_thread_attribute).  One that slept *)
(* at a lock goes on as if it had it.                                      *)
Kick(t) ==
  /\ ~Awake(q, t)
  /\ q' = VThread(q, t)
  /\ kicks' = IF q.sleep[t] \in Lock THEN kicks + 1 ELSE kicks
  /\ kicks' <= MaxKicks
  /\ UNCHANGED <<spin, place, move, busy, head, next>>

Works(t) ==
  \/ EndDevice(t) \/ Unlock(t) \/ LockIt(t) \/ Call(t)
  \/ GiveUpAndSleep(t) \/ Relock(t) \/ WakeNext(t) \/ MemoryWakeup(t)
  \/ (busy = t /\ WakeupBlock(t)) \/ Exit(t)

Next ==
  \E t \in Thread :
    Works(t) \/ Enter(t) \/ StartDevice(t) \/ WaitAtBlock(t) \/ WakeupBlock(t) \/ Kick(t)

Spec == Init /\ [][Next]_vars

(* A thread that is awake goes on with what it does, and does not stay in  *)
(* the memory body for ever.                                               *)
FairSpec == Spec /\ \A t \in Thread : WF_vars(Works(t))

-----------------------------------------------------------------------------
Places == {"out", "in", "device", "unlock", "lock", "call", "wait", "woken",
           "next", "wakeup", "leave"}

TypeOK ==
  /\ q \in SemaphoreState
  /\ spin \in [Lock -> Int]
  /\ place \in [Thread -> Places]
  /\ move \in [Thread -> [from : Lock \cup {None}, to : Lock \cup {None},
                          r1 : Lock \cup {None}, r3 : Lock \cup {None}]]
  /\ busy \in Thread \cup {None}
  /\ head \in Thread \cup {None}
  /\ next \in [Thread -> Thread \cup {None}]
  /\ kicks \in 0..MaxKicks

(* The threads that act as the one that has the lock.                      *)
Has(t, l) ==
  /\ Awake(q, t)
  /\ \/ place[t] = Inside(l)
     \/ l = Memory /\ place[t] \in {"wait", "next", "wakeup", "leave"}
     \/ place[t] = "unlock" /\ move[t].from = l
     \/ place[t] = "call" /\ move[t].to = l /\ move[t].r3 = None
Holders(l) == {t \in Thread : Has(t, l)}

(* memory_lock.c: one thread at a time is in the memory body, and one has  *)
(* the device, however exchanges, calls, and sleeps in the body interleave.*)
(* A thread kicked out of its sleep at a lock is one too many.             *)
LockExclusion == \A l \in Lock : Cardinality(Holders(l)) <= 1 + kicks

(* wait_block.c, wait_wakeup.c: whoever sleeps for a block can be reached  *)
(* from the head of its chain while somebody does input or output on the   *)
(* block, or from a thread that is awake and about to wake the next one.   *)
WillWake(t) == place[t] \in {"wakeup", "next"} \/ (place[t] = "woken" /\ Awake(q, t))
Starts == ((IF busy = None THEN {} ELSE {head})
            \cup {next[t] : t \in {u \in Thread : WillWake(u)}}) \ {None}
HandedOn(S) == Starts \subseteq S /\ \A t \in S : next[t] \in S \cup {None}
Reachable(t) == \A S \in SUBSET Thread : HandedOn(S) => t \in S
WaitersAreReachable ==
  kicks = 0 => \A t \in Thread : q.sleep[t] = Own[t] => Reachable(t)

(* The chain is handed on and the lock always comes back, so every thread  *)
(* that waits for a block is in the memory body again some time.           *)
WaitEnds ==
  \A t \in Thread : place[t] = "wait" ~> At(t, "in")
=============================================================================

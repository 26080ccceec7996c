-------------------------- MODULE MemoryLock_proofs --------------------------
(***************************************************************************)
(* Proofs about Semaphore and about MemoryLock, whose locks sleep on       *)
(* semaphores, for any threads, semaphores, parameters and kicks.          *)
(*                                                                         *)
(* Semaphore: the invariant says where every sleeping thread is: in the    *)
(* ring of the semaphore it sleeps on, or in one circle that is astray, and*)
(* then the semaphore was reused while somebody slept on it.  From it      *)
(* follows how a step may change the order in which sleepers are woken.    *)
(*                                                                         *)
(* MemoryLock: both locks exclude.                                         *)
(* Every thread has a lock, calls for one (it found the lock taken and its *)
(* P is to come), sleeps at one, or is not at the locks at all; the counter*)
(* of a lock is one less these threads.  That is not enough: a unit of the *)
(* semaphore, or a V somebody owes, lets another thread in.  So holders,   *)
(* owed calls and units together are one at most, and there is no owed call*)
(* and no unit but for somebody who calls or sleeps; each kick adds one.   *)
(***************************************************************************)
EXTENDS Semaphore, MemoryLock, Ops_proofs, FiniteSetTheorems

SInv == STypeOK /\ Sound(sems, reused)

-----------------------------------------------------------------------------
(* Timers that are set, switched off, moved by time or set again.          *)
LEMMA TimerTypes ==
  ASSUME STypeOK
  PROVE  /\ \A S \in SUBSET Semaphore :
              SwitchedOff(S) \in [Semaphore -> TimersSetTo(Int) \cup {None}]
         /\ \A s \in Semaphore : Armed(s) => /\ timer[s] \in TimersSetTo(Int)
                                             /\ timer[s].v = -1
                                             /\ Advanced(timer[s]) \in TimersSetTo(Int)
                                             /\ Rearmed(s) \in TimersSetTo(Int) \cup {None}
         /\ TimersSetTo(Delay) \subseteq TimersSetTo(Int)
  <1>1. timer \in [Semaphore -> TimersSetTo(Int) \cup {None}]
    BY DEF STypeOK
  <1>2. \A S \in SUBSET Semaphore :
          SwitchedOff(S) \in [Semaphore -> TimersSetTo(Int) \cup {None}]
    BY <1>1 DEF SwitchedOff
  <1>3. Delay \subseteq Int /\ Period \subseteq Int
    BY SemaphoreParameters
  <1>4. TimersSetTo(Delay) \subseteq TimersSetTo(Int)
    BY <1>3 DEF TimersSetTo
  <1>5. ASSUME NEW s \in Semaphore, Armed(s)
        PROVE  /\ timer[s] \in TimersSetTo(Int)
               /\ timer[s].v = -1
               /\ Advanced(timer[s]) \in TimersSetTo(Int)
               /\ Rearmed(s) \in TimersSetTo(Int) \cup {None}
    <2>1. PICK x : x = timer[s]
      OBVIOUS
    <2>2. x \in TimersSetTo(Int)
      BY <1>1, <1>5, <2>1 DEF Armed
    <2>3. /\ x.due \in Int /\ x.step \in Period /\ x.v = -1 /\ x.action \in Actions
          /\ x \in [due : Int, step : Period, v : {-1}, action : Actions]
      BY <2>2 DEF TimersSetTo
    <2>4. x.due - 1 \in Int /\ x.due + x.step \in Int
      <3>1. x.due \in Int /\ x.step \in Int
        BY <1>3, <2>3
      <3>2. \A a, b \in Int : a - 1 \in Int /\ a + b \in Int
        OBVIOUS
      <3> QED
        BY <3>1, <3>2
    <2>5. \A d \in Int : [x EXCEPT !.due = d] \in [due : Int, step : Period, v : {-1}, action : Actions]
      BY <2>3
    <2>6. Advanced(x) = [x EXCEPT !.due = x.due - 1] \/ Advanced(x) = [x EXCEPT !.due = x.due]
      BY DEF Advanced
    <2>7. Advanced(x) \in TimersSetTo(Int)
      BY <2>3, <2>4, <2>5, <2>6 DEF TimersSetTo
    <2>8. Rearmed(s) = [x EXCEPT !.due = x.due + x.step] \/ Rearmed(s) = None
      BY <2>1 DEF Rearmed
    <2>9. Rearmed(s) \in TimersSetTo(Int) \cup {None}
      BY <2>4, <2>5, <2>8 DEF TimersSetTo
    <2> QED
      BY <2>1, <2>2, <2>3, <2>7, <2>9
  <1> QED
    BY <1>2, <1>4, <1>5

(* A call that resets a semaphore and then makes V or P of it, or neither. *)
LEMMA PartsSound ==
  ASSUME NEW R \in SUBSET Semaphore, NEW Q, Sound(Q, R)
  PROVE  /\ \A x \in VCalls \cup {None} : Sound(VPart(Q, x), R)
         /\ \A y \in PCalls \cup {None}, t \in Thread : Sound(PPart(Q, t, y), R)
  <1>1. ASSUME NEW s \in Semaphore, NEW x, x.sem = s, NEW M, M = AfterReset(Q, x)
        PROVE  Sound(M, R)
    <2>1. CASE M = Q
      BY <2>1
    <2>2. CASE M = Reset(Q, s)
      <3>1. Sound(Reset(Q, s), R)
        BY ResetSound
      <3> QED
        BY <2>2, <3>1
    <2> QED
      BY <1>1, <2>1, <2>2 DEF AfterReset
  <1>2. ASSUME NEW x \in VCalls \cup {None} PROVE Sound(VPart(Q, x), R)
    <2>1. CASE x = None
      BY <2>1 DEF VPart
    <2>2. CASE x # None
      <3>1. x \in VCalls
        BY <1>2, <2>2
      <3>2. x.sem \in Semaphore /\ x.steps \in Int
        BY <3>1, SemaphoreParameters DEF VCalls
      <3>3. PICK M : M = AfterReset(Q, x)
        OBVIOUS
      <3>4. Sound(M, R)
        BY <1>1, <3>2, <3>3
      <3>5. VPart(Q, x) = V(M, x.sem, x.steps)
        BY <2>2, <3>3 DEF VPart
      <3> QED
        BY <3>2, <3>4, <3>5, VSound
    <2> QED
      BY <2>1, <2>2
  <1>3. ASSUME NEW y \in PCalls \cup {None}, NEW t \in Thread
        PROVE  Sound(PPart(Q, t, y), R)
    <2>1. CASE y = None
      BY <2>1 DEF PPart
    <2>2. CASE y # None
      <3>1. y \in PCalls
        BY <1>3, <2>2
      <3>2. y.sem \in Semaphore /\ y.sleep_flag \in BOOLEAN
        BY <3>1 DEF PCalls
      <3>3. PICK M : M = AfterReset(Q, y)
        OBVIOUS
      <3>4. Sound(M, R)
        BY <1>1, <3>2, <3>3
      <3>5. PPart(Q, t, y) = P(M, t, y.sem, y.sleep_flag)
        BY <2>2, <3>3 DEF PPart
      <3> QED
        BY <3>2, <3>4, <3>5, PSound
    <2> QED
      BY <2>1, <2>2
  <1> QED
    BY <1>2, <1>3

-----------------------------------------------------------------------------
(* The invariant holds at first and is kept by every step.                 *)
LEMMA InitSound == SInit => SInv
  <1> SUFFICES ASSUME SInit PROVE SInv
    OBVIOUS
  <1>1. PICK value \in [Semaphore -> InitialValue] :
          sems = [value |-> value, ring |-> [s \in Semaphore |-> <<>>], stray |-> {},
               sleep |-> [t \in Thread |-> None]]
    BY DEF SInit
  <1>2. /\ sems.value = value /\ sems.ring = [s \in Semaphore |-> <<>>] /\ sems.stray = {}
        /\ sems.sleep = [t \in Thread |-> None]
        /\ sems \in [value : {sems.value}, ring : {sems.ring}, stray : {sems.stray}, sleep : {sems.sleep}]
    BY <1>1
  <1>3. InitialValue \subseteq Nat /\ Entity \subseteq Semaphore
    BY SemaphoreParameters
  <1>4. sems \in SemaphoreState
    <2>1. sems.value \in [Semaphore -> Int]
      BY <1>2, <1>3
    <2>2. <<>> \in Seq(Thread)
      OBVIOUS
    <2>3. sems.ring \in [Semaphore -> Seq(Thread)]
      BY <1>2, <2>2
    <2>4. sems.stray \subseteq Seq(Thread) /\ sems.sleep \in [Thread -> Semaphore \cup {None}]
      BY <1>2
    <2> QED
      BY <1>2, <2>1, <2>3, <2>4 DEF SemaphoreState
  <1>5. STypeOK
    BY <1>3, <1>4 DEF SInit, STypeOK
  <1>6. Counted(sems, reused)
    BY <1>2, <1>3 DEF Counted
  <1>7. RingsSleep(sems)
    BY <1>2 DEF RingsSleep, Distinct, Ring, Members
  <1>8. StraySleep(sems, reused) /\ StrayApart(sems) /\ Placed(sems)
    BY <1>2 DEF StraySleep, StrayApart, Placed, Awake
  <1> QED
    BY <1>4, <1>5, <1>6, <1>7, <1>8 DEF SInv, Sound

LEMMA NextSound == SInv /\ [SNext]_sVars => SInv'
  <1> SUFFICES ASSUME SInv, [SNext]_sVars PROVE SInv'
    OBVIOUS
  <1>1. /\ STypeOK /\ Sound(sems, reused) /\ reused \in SUBSET Semaphore
        /\ free \in SUBSET (Semaphore \ Entity) /\ reused \in SUBSET (Semaphore \ Entity)
        /\ timer \in [Semaphore -> TimersSetTo(Int) \cup {None}] /\ ticking \in BOOLEAN
    BY DEF SInv, STypeOK
  (* What is left to show of a step.                                       *)
  <1>2. ASSUME Sound(sems', reused'), free' \in SUBSET (Semaphore \ Entity),
               reused' \in SUBSET (Semaphore \ Entity),
               timer' \in [Semaphore -> TimersSetTo(Int) \cup {None}], ticking' \in BOOLEAN
        PROVE  SInv'
    <2>1. sems' \in SemaphoreState
      BY <1>2 DEF Sound
    <2>2. STypeOK'
      BY <1>2, <2>1 DEF STypeOK
    <2>3. Sound(sems, reused)'
      BY <1>2 DEF Sound, Counted, RingsSleep, StraySleep, StrayApart, Placed, Ring, Awake,
                  SemaphoreState
    <2> QED
      BY <2>2, <2>3 DEF SInv
  <1>3. ASSUME NEW t \in Thread, SemaphoreOperation(t) PROVE SInv'
    <2>1. PICK x \in VCalls \cup {None}, y \in PCalls \cup {None} :
            /\ sems' = PPart(VPart(sems, x), t, y)
            /\ timer' = SwitchedOff(Resets(x) \cup Resets(y))
      BY <1>3 DEF SemaphoreOperation
    <2>2. Sound(VPart(sems, x), reused)
      BY <1>1, PartsSound
    <2>3. Sound(sems', reused)
      BY <1>1, <2>1, <2>2, PartsSound
    <2>4. Resets(x) \cup Resets(y) \in SUBSET Semaphore
      BY DEF Resets, VCalls, PCalls
    <2> QED
      BY <1>1, <1>2, <1>3, <2>1, <2>3, <2>4, TimerTypes DEF SemaphoreOperation
  <1>4. ASSUME NEW t \in Thread, SetTime(t) PROVE SInv'
    <2>1. PICK s \in Semaphore, x \in TimersSetTo(Delay), do_p \in BOOLEAN, flag \in BOOLEAN :
            /\ timer' = [timer EXCEPT ![s] = x]
            /\ sems' = IF do_p THEN P(sems, t, s, flag) ELSE sems
      BY <1>4 DEF SetTime
    <2>2. Sound(sems', reused)
      <3>1. Sound(P(sems, t, s, flag), reused)
        BY <1>1, PSound
      <3> QED
        BY <1>1, <2>1, <3>1
    <2>3. x \in TimersSetTo(Int)
      BY <1>1, TimerTypes
    <2> QED
      BY <1>1, <1>2, <1>4, <2>1, <2>2, <2>3 DEF SetTime
  <1>5. ASSUME AllocateSemaphore PROVE SInv'
    <2>1. PICK s \in free, value \in InitialValue :
            /\ sems' = Allocate(sems, s, value)
            /\ free' = free \ {s}
            /\ reused' = IF sems.ring[s] = <<>> THEN reused ELSE reused \cup {s}
            /\ timer' = SwitchedOff({s})
      BY <1>5 DEF AllocateSemaphore
    <2>2. s \in Semaphore \ Entity /\ value \in Nat
      BY <1>1, SemaphoreParameters
    <2>3. Sound(sems', reused')
      BY <1>1, <2>1, <2>2, AllocateSound
    <2>4. timer' \in [Semaphore -> TimersSetTo(Int) \cup {None}]
      BY <1>1, <2>1, <2>2, TimerTypes
    <2> QED
      BY <1>1, <1>2, <1>5, <2>1, <2>2, <2>3, <2>4 DEF AllocateSemaphore
  <1>6. ASSUME ReleaseSemaphore PROVE SInv'
    <2>1. PICK s \in Semaphore \ (Entity \cup free) :
            sems' = V(sems, s, -1) /\ free' = free \cup {s} /\ timer' = SwitchedOff({s})
      BY <1>6 DEF ReleaseSemaphore
    <2>2. Sound(sems', reused)
      BY <1>1, <2>1, VSound
    <2>3. timer' \in [Semaphore -> TimersSetTo(Int) \cup {None}]
      BY <1>1, <2>1, TimerTypes
    <2> QED
      BY <1>1, <1>2, <1>6, <2>1, <2>2, <2>3 DEF ReleaseSemaphore
  <1>7. ASSUME MandatoryExit PROVE SInv'
    <2>1. PICK t \in Thread : sems' = VThread(sems, t)
      BY <1>7 DEF MandatoryExit
    <2>2. Sound(sems', reused)
      BY <1>1, <2>1, VThreadSound
    <2> QED
      BY <1>1, <1>2, <1>7, <2>2 DEF MandatoryExit
  <1>8. ASSUME Advance PROVE SInv'
    <2>1. \A s \in Semaphore : Armed(s) => Advanced(timer[s]) \in TimersSetTo(Int)
      BY <1>1, TimerTypes
    <2>2. timer' \in [Semaphore -> TimersSetTo(Int) \cup {None}]
      BY <1>8, <2>1 DEF Advance
    <2> QED
      BY <1>1, <1>2, <1>8, <2>2 DEF Advance
  <1>9. ASSUME Fire PROVE SInv'
    <2>1. PICK s \in Semaphore, top \in BOOLEAN :
            /\ Due(s)
            /\ sems' = ActionStack(ActionV(sems, s), s, top)
            /\ timer' = [timer EXCEPT ![s] = Rearmed(s)]
      BY <1>9 DEF Fire
    <2>2. timer[s].v \in Int /\ Rearmed(s) \in TimersSetTo(Int) \cup {None}
      BY <1>1, <2>1, TimerTypes DEF Due
    <2>3. PICK M : M = ActionV(sems, s)
      OBVIOUS
    <2>4. Sound(M, reused)
      <3>1. Sound(V(sems, s, timer[s].v), reused)
        BY <1>1, <2>2, VSound
      <3> QED
        BY <1>1, <2>3, <3>1 DEF ActionV
    <2>5. Sound(sems', reused)
      <3>1. CASE sems' = M
        BY <2>4, <3>1
      <3>2. CASE Owned(s) /\ sems' = VThread(M, StackOwner[s])
        <4>1. StackOwner[s] \in Thread
          BY <3>2, SemaphoreParameters DEF Owned
        <4> QED
          BY <1>1, <2>4, <3>2, <4>1, VThreadSound
      <3> QED
        BY <2>1, <2>3, <3>1, <3>2 DEF ActionStack
    <2> QED
      BY <1>1, <1>2, <1>9, <2>1, <2>2, <2>5 DEF Fire
  <1>10. CASE StartTick \/ EndTick \/ UNCHANGED sVars
    BY <1>1, <1>2, <1>10 DEF StartTick, EndTick, sVars
  <1> QED
    BY <1>3, <1>4, <1>5, <1>6, <1>7, <1>8, <1>9, <1>10 DEF SNext

-----------------------------------------------------------------------------
(* p_sem.c, v_sem.c: however P, V, resets, timers, allocations and exits   *)
(* follow each other, every sleeper is in one ring or one circle astray,   *)
(* and the values count the sleepers of semaphores that were not reused.   *)
THEOREM SemaphoreInvariant == SSpec => []SInv
  BY InitSound, NextSound, PTL DEF SSpec

(* p_sem.c, v_sem.c: a semaphore below zero by n has n sleepers.           *)
THEOREM SemaphoreValueCountsSleepers == SSpec => []ValueCountsSleepers
  <1>1. SInv => ValueCountsSleepers
    BY DEF SInv, Sound, Counted, ValueCountsSleepers
  <1> QED
    BY <1>1, SemaphoreInvariant, PTL

(* p_sem.c, v_sem.c: no sleeper is lost, but those of a reused semaphore,  *)
(* none is queued twice and nobody that is awake is queued.                *)
THEOREM SemaphoreSleepersAreQueued == SSpec => []SleepersAreQueued
  <1>1. SInv => SleepersAreQueued
    <2> SUFFICES ASSUME SInv PROVE SleepersAreQueued
      OBVIOUS
    <2>1. RingsSleep(sems) /\ StraySleep(sems, reused) /\ Placed(sems)
      BY DEF SInv, Sound
    <2>2. ASSUME NEW s \in Semaphore, NEW i \in 1..Len(sems.ring[s]), NEW j \in 1..Len(sems.ring[s])
          PROVE  sems.sleep[sems.ring[s][i]] = s /\ (i # j => sems.ring[s][i] # sems.ring[s][j])
      <3>1. sems.ring[s][i] \in Ring(sems, s)
        BY DEF Ring, Members
      <3> QED
        BY <2>1, <3>1 DEF RingsSleep, Distinct
    <2>3. ASSUME NEW t \in Thread, ~Awake(sems, t)
          PROVE  sems.sleep[t] \in reused \/ t \in Ring(sems, sems.sleep[t])
      BY <2>1, <2>3 DEF Placed, StraySleep
    <2> QED
      BY <2>2, <2>3 DEF SleepersAreQueued
  <1> QED
    BY <1>1, SemaphoreInvariant, PTL
-----------------------------------------------------------------------------
(* The order in which sleepers are woken.  A ring without its first ones   *)
(* is Shorter; all that V and resets do is to shorten rings, P puts one    *)
(* thread behind a ring, and only v_thread rotates one before shortening.  *)
Shorter(c, d) ==
  \E k \in 0..Len(c) : Len(d) = Len(c) - k /\ \A i \in 1..Len(d) : d[i] = c[i + k]
Drained(Q, N) ==
  /\ \A s \in Semaphore : Shorter(Q.ring[s], N.ring[s])
  /\ \A t \in Thread : Awake(Q, t) => Awake(N, t)
Joined(Q, N, t) ==
  \A s \in Semaphore : N.ring[s] = Q.ring[s] \/ N.ring[s] = Enqueued(Q.ring[s], t)

(* What WakeOrderKept says of one semaphore, from a state Q to a state N.  *)
JumpedTo(Q, N, s) ==
  /\ Len(Q.ring[s]) > 1 /\ N.ring[s] # <<>>
  /\ \E i \in 2..Len(Q.ring[s]) :
       /\ Awake(N, Q.ring[s][i])
       /\ \A j \in 1..Len(Q.ring[s]) : j # i => ~Awake(N, Q.ring[s][j])
OrderKept(Q, N, s) ==
  \A t \in Ring(Q, s) \cap Ring(N, s), u \in Thread :
    /\ Before(Q, s, t, u) => Before(N, s, t, u) \/ JumpedTo(Q, N, s)
    /\ u \in Ring(N, s) \ Ring(Q, s) => Before(N, s, t, u)

LEMMA ShorterOrder ==
  /\ \A c \in Seq(Thread) : Shorter(c, c)
  /\ \A b, c, d \in Seq(Thread) : Shorter(b, c) /\ Shorter(c, d) => Shorter(b, d)
  <1>1. ASSUME NEW c \in Seq(Thread) PROVE Shorter(c, c)
    <2>1. PICK n \in Nat : n = Len(c)
      BY LenProperties
    <2>2. 0 \in 0..n /\ n = n - 0 /\ \A i \in 1..n : c[i] = c[i + 0]
      OBVIOUS
    <2> QED
      BY <2>1, <2>2 DEF Shorter
  <1>2. ASSUME NEW b \in Seq(Thread), NEW c \in Seq(Thread), NEW d \in Seq(Thread),
               Shorter(b, c), Shorter(c, d)
        PROVE  Shorter(b, d)
    <2>1. PICK n \in Nat : n = Len(b)
      BY LenProperties
    <2>2. PICK k \in 0..n : Len(c) = n - k /\ \A i \in 1..Len(c) : c[i] = b[i + k]
      BY <1>2, <2>1 DEF Shorter
    <2>3. PICK m \in 0..Len(c) : Len(d) = Len(c) - m /\ \A i \in 1..Len(d) : d[i] = c[i + m]
      BY <1>2 DEF Shorter
    <2>4. k + m \in 0..n /\ Len(d) = n - (k + m)
      BY <2>1, <2>2, <2>3
    <2>5. ASSUME NEW i \in 1..Len(d) PROVE d[i] = b[i + (k + m)]
      <3>1. i + m \in 1..Len(c) /\ (i + m) + k = i + (k + m)
        BY <2>1, <2>2, <2>3
      <3> QED
        BY <2>2, <2>3, <3>1
    <2> QED
      BY <2>1, <2>4, <2>5 DEF Shorter
  <1> QED
    BY <1>1, <1>2

LEMMA DrainedOrder ==
  ASSUME NEW Q \in SemaphoreState
  PROVE  /\ Drained(Q, Q)
         /\ \A M, N \in SemaphoreState : Drained(Q, M) /\ Drained(M, N) => Drained(Q, N)
  <1>1. \A M \in SemaphoreState : \A s \in Semaphore : M.ring[s] \in Seq(Thread)
    BY DEF SemaphoreState
  <1>2. Drained(Q, Q)
    BY <1>1, ShorterOrder DEF Drained
  <1>3. ASSUME NEW M \in SemaphoreState, NEW N \in SemaphoreState, Drained(Q, M), Drained(M, N)
        PROVE  Drained(Q, N)
    <2>1. ASSUME NEW s \in Semaphore PROVE Shorter(Q.ring[s], N.ring[s])
      <3>1. /\ Q.ring[s] \in Seq(Thread) /\ M.ring[s] \in Seq(Thread) /\ N.ring[s] \in Seq(Thread)
            /\ Shorter(Q.ring[s], M.ring[s]) /\ Shorter(M.ring[s], N.ring[s])
        BY <1>1, <1>3 DEF Drained
      <3> QED
        BY <3>1, ShorterOrder
    <2>2. \A t \in Thread : Awake(Q, t) => Awake(N, t)
      BY <1>3 DEF Drained
    <2> QED
      BY <2>1, <2>2 DEF Drained
  <1> QED
    BY <1>2, <1>3

(* V takes its threads from the head of the ring.                          *)
LEMMA VDrains ==
  ASSUME NEW R \in SUBSET Semaphore, NEW Q, Sound(Q, R), NEW s \in Semaphore, NEW n \in Int,
         NEW N, N = V(Q, s, n)
  PROVE  Drained(Q, N) /\ (n < 0 => N.ring[s] = <<>>)
  <1>1. /\ Q \in SemaphoreState
        /\ Q.ring \in [Semaphore -> Seq(Thread)]
        /\ Q.sleep \in [Thread -> Semaphore \cup {None}]
    BY DEF Sound, SemaphoreState
  <1>2. PICK c \in Seq(Thread), L \in Nat : c = Q.ring[s] /\ L = Len(c)
    BY <1>1, LenProperties
  <1>3. PICK k \in 0..L : k = Woken(Q, s, n) /\ (n < 0 => k = L)
    BY <1>2 DEF Woken
  <1>4. PICK r : r = SubSeq(c, k + 1, Len(c))
    OBVIOUS
  <1>5. r \in Seq(Thread) /\ Len(r) = L - k /\ \A i \in 1..Len(r) : r[i] = c[i + k]
    <2>1. \A i \in (k + 1)..L : c[i] \in Thread
      BY <1>2, ElementOfSeq
    <2>2. /\ r \in Seq(Thread)
          /\ Len(r) = IF k + 1 <= L THEN L - (k + 1) + 1 ELSE 0
          /\ \A i \in 1..(L - (k + 1) + 1) : r[i] = c[k + 1 + i - 1]
      BY <1>2, <1>4, <2>1, SubSeqProperties
    <2>3. Len(r) = L - k
      BY <2>2
    <2>4. \A i \in 1..Len(r) : i \in 1..(L - (k + 1) + 1) /\ k + 1 + i - 1 = i + k
      BY <2>3
    <2> QED
      BY <2>2, <2>3, <2>4
  <1>6. /\ N.ring = [Q.ring EXCEPT ![s] = r]
        /\ N.sleep = [t \in Thread |-> IF \E i \in 1..k : c[i] = t THEN None ELSE Q.sleep[t]]
    BY <1>1, <1>2, <1>3, <1>4 DEF V, SemaphoreState
  <1>7. Shorter(c, r)
    BY <1>2, <1>5 DEF Shorter
  <1>8. \A x \in Semaphore : Shorter(Q.ring[x], Q.ring[x])
    BY <1>1, ShorterOrder
  <1>9. \A x \in Semaphore : Shorter(Q.ring[x], N.ring[x])
    BY <1>1, <1>2, <1>6, <1>7, <1>8
  <1>10. \A t \in Thread : Awake(Q, t) => Awake(N, t)
    BY <1>6 DEF Awake
  <1>11. n < 0 => r = <<>>
    <2>1. n < 0 => Len(r) = 0
      BY <1>3, <1>5
    <2> QED
      BY <1>5, <2>1, EmptySeq
  <1> QED
    BY <1>1, <1>6, <1>9, <1>10, <1>11 DEF Drained

(* A reset wakes everybody or nobody; with V or without it, rings shrink.  *)
LEMMA ResetDrains ==
  ASSUME NEW R \in SUBSET Semaphore, NEW Q, Sound(Q, R), NEW s \in Semaphore,
         NEW N, N = Reset(Q, s)
  PROVE  Drained(Q, N)
  <1>1. PICK M : M = Emptied(Q, s)
    OBVIOUS
  <1>2. Sound(M, R) /\ Drained(Q, M)
    <2>1. CASE Q.value[s] < 0
      <3>1. M = V(Q, s, -1)
        BY <1>1, <2>1 DEF Emptied
      <3> QED
        BY <3>1, VSound, VDrains
    <2>2. CASE ~(Q.value[s] < 0)
      BY <1>1, <2>2, DrainedOrder DEF Emptied, Sound
    <2> QED
      BY <2>1, <2>2
  <1>3. N.ring = M.ring /\ N.sleep = M.sleep
    <2>1. M \in SemaphoreState
      BY <1>2 DEF Sound
    <2>2. N = [M EXCEPT !.value = [M.value EXCEPT ![s] = IF M.value[s] > 0 THEN 0 ELSE M.value[s]]]
      BY <1>1 DEF Reset
    <2> QED
      BY <2>1, <2>2 DEF SemaphoreState
  <1> QED
    BY <1>2, <1>3 DEF Drained, Awake
LEMMA PartsDrain ==
  ASSUME NEW R \in SUBSET Semaphore, NEW Q, Sound(Q, R)
  PROVE  /\ \A x : x.sem \in Semaphore =>
               Sound(AfterReset(Q, x), R) /\ Drained(Q, AfterReset(Q, x))
         /\ \A x \in VCalls \cup {None} : Drained(Q, VPart(Q, x))
  <1>1. ASSUME NEW x, x.sem \in Semaphore
        PROVE  Sound(AfterReset(Q, x), R) /\ Drained(Q, AfterReset(Q, x))
    <2>1. CASE AfterReset(Q, x) = Q
      BY <2>1, DrainedOrder DEF Sound
    <2>2. CASE AfterReset(Q, x) = Reset(Q, x.sem)
      BY <1>1, <2>2, ResetSound, ResetDrains
    <2> QED
      BY <2>1, <2>2 DEF AfterReset
  <1>2. ASSUME NEW x \in VCalls \cup {None} PROVE Drained(Q, VPart(Q, x))
    <2>1. CASE x = None
      BY <2>1, DrainedOrder DEF VPart, Sound
    <2>2. CASE x # None
      <3>1. x.sem \in Semaphore /\ x.steps \in Int
        BY <2>2, SemaphoreParameters DEF VCalls
      <3>2. PICK M, N : M = AfterReset(Q, x) /\ N = V(M, x.sem, x.steps)
        OBVIOUS
      <3>3. Sound(M, R) /\ Drained(Q, M)
        BY <1>1, <3>1, <3>2
      <3>4. Sound(N, R) /\ Drained(M, N)
        BY <3>1, <3>2, <3>3, VSound, VDrains
      <3>5. VPart(Q, x) = N
        BY <2>2, <3>2 DEF VPart
      <3>6. Q \in SemaphoreState /\ M \in SemaphoreState /\ N \in SemaphoreState
        BY <3>3, <3>4 DEF Sound
      <3> QED
        BY <3>3, <3>4, <3>5, <3>6, DrainedOrder
    <2> QED
      BY <2>1, <2>2
  <1> QED
    BY <1>1, <1>2

LEMMA PJoins ==
  ASSUME NEW Q \in SemaphoreState, NEW s \in Semaphore, NEW t \in Thread,
         NEW flag \in BOOLEAN, NEW N, N = P(Q, t, s, flag)
  PROVE  Joined(Q, N, t)
  <1>1. /\ Q.value \in [Semaphore -> Int] /\ Q.ring \in [Semaphore -> Seq(Thread)]
        /\ Q.sleep \in [Thread -> Semaphore \cup {None}]
    BY DEF SemaphoreState
  <1>2. CASE N.ring = Q.ring
    BY <1>2 DEF Joined
  <1>3. CASE N = Sleep(Q, t, s)
    <2>1. N.ring = [Q.ring EXCEPT ![s] = Enqueued(Q.ring[s], t)]
      BY <1>3 DEF Sleep, SemaphoreState
    <2> QED
      BY <1>1, <2>1 DEF Joined
  <1>4. [Q EXCEPT !.value[s] = Q.value[s] - 1].ring = Q.ring
    BY DEF SemaphoreState
  <1> QED
    BY <1>2, <1>3, <1>4 DEF P

(* Who joins a ring from outside of it ends up behind all those still in it*)
(* and these keep their order.                                             *)
LEMMA JoinedRing ==
  ASSUME NEW b \in Seq(Thread), NEW c \in Seq(Thread), Shorter(b, c), Distinct(b),
         NEW p \in Thread, p \notin Members(b),
         NEW d, d = c \/ d = Enqueued(c, p)
  PROVE  \A i, j \in 1..Len(b), y \in 1..Len(d) :
           i < j /\ d[y] = b[i] => \E z \in 1..Len(d) : y < z /\ d[z] = b[j]
  <1> SUFFICES ASSUME NEW i \in 1..Len(b), NEW j \in 1..Len(b), NEW y \in 1..Len(d),
                      i < j, d[y] = b[i]
               PROVE  \E z \in 1..Len(d) : y < z /\ d[z] = b[j]
    OBVIOUS
  <1>1. PICK n \in Nat : n = Len(b)
    BY LenProperties
  <1>2. PICK k \in 0..n : Len(c) = n - k /\ \A x \in 1..Len(c) : c[x] = b[x + k]
    BY <1>1 DEF Shorter
  <1>3. /\ Len(d) = n - k \/ Len(d) = n - k + 1
        /\ \A x \in 1..(n - k) : d[x] = b[x + k]
        /\ Len(d) = n - k + 1 => d[n - k + 1] = p
    <2>1. CASE d = c
      BY <1>1, <1>2, <2>1
    <2>2. CASE d = Enqueued(c, p)
      <3>1. /\ Len(d) = Len(c) + 1 /\ d[Len(c) + 1] = p
            /\ \A x \in 1..Len(c) : d[x] = c[x]
        BY <2>2, AppendProperties DEF Enqueued
      <3> QED
        BY <1>1, <1>2, <3>1
    <2> QED
      BY <2>1, <2>2
  <1>4. y <= n - k
    <2> SUFFICES ASSUME y > n - k PROVE FALSE
      BY <1>1, <1>2, <1>3
    <2>1. n - k \in Nat /\ y \in 1..Len(d)
      BY <1>2
    <2>2. y = n - k + 1 /\ Len(d) = n - k + 1
      BY <1>3, <2>1
    <2> QED
      BY <1>3, <2>2 DEF Members
  <1>5. d[y] = b[y + k] /\ y + k \in 1..n
    BY <1>1, <1>2, <1>3, <1>4
  <1>6. y + k = i
    BY <1>1, <1>5 DEF Distinct
  <1>7. j - k \in 1..(n - k) /\ j - k \in 1..Len(d) /\ y < j - k /\ (j - k) + k = j
    BY <1>1, <1>2, <1>3, <1>4, <1>6
  <1>8. d[j - k] = b[j]
    BY <1>3, <1>7
  <1> QED
    BY <1>7, <1>8

LEMMA NewestIsLast ==
  ASSUME NEW b \in Seq(Thread), NEW c \in Seq(Thread), Shorter(b, c),
         NEW p \in Thread, p \notin Members(b),
         NEW d, d = c \/ d = Enqueued(c, p),
         NEW t \in Members(b) \cap Members(d), NEW u \in Members(d) \ Members(b)
  PROVE  \E y, z \in 1..Len(d) : y < z /\ d[y] = t /\ d[z] = u
  <1>1. \A x \in Members(c) : x \in Members(b)
    <2> SUFFICES ASSUME NEW x \in 1..Len(c) PROVE c[x] \in Members(b)
      BY DEF Members
    <2>1. PICK n \in Nat : n = Len(b)
      BY LenProperties
    <2>2. PICK k \in 0..n : Len(c) = n - k /\ c[x] = b[x + k]
      BY <2>1 DEF Shorter
    <2>3. x + k \in 1..n
      BY <2>1, <2>2
    <2> QED
      BY <2>1, <2>2, <2>3 DEF Members
  <1>2. d = Enqueued(c, p)
    BY <1>1
  <1>3. PICK n \in Nat : n = Len(c)
    BY LenProperties
  <1>4. Len(d) = n + 1 /\ d[n + 1] = p /\ \A x \in 1..n : d[x] = c[x]
    BY <1>2, <1>3, AppendProperties DEF Enqueued
  <1>5. PICK y \in 1..(n + 1), z \in 1..(n + 1) : d[y] = t /\ d[z] = u
    BY <1>4 DEF Members
  <1>6. y # n + 1
    BY <1>4, <1>5
  <1>7. z = n + 1
    <2>1. CASE z \in 1..n
      BY <1>1, <1>3, <1>4, <1>5, <2>1 DEF Members
    <2> QED
      BY <1>3, <2>1
  <1> QED
    BY <1>3, <1>4, <1>5, <1>6, <1>7

(* A kernel function that wakes some, and then may put its caller to sleep.*)
LEMMA DrainedThenJoined ==
  ASSUME NEW R \in SUBSET Semaphore, NEW Q, Sound(Q, R), NEW M \in SemaphoreState, NEW N,
         NEW p \in Thread, Awake(Q, p), Drained(Q, M), Joined(M, N, p), NEW s \in Semaphore
  PROVE  OrderKept(Q, N, s)
  <1>1. PICK b, c, d : /\ b = Q.ring[s] /\ c = M.ring[s] /\ d = N.ring[s]
                       /\ b \in Seq(Thread) /\ c \in Seq(Thread)
    BY DEF Sound, SemaphoreState
  <1>2. /\ Shorter(b, c) /\ (d = c \/ d = Enqueued(c, p))
        /\ Distinct(b) /\ p \notin Members(b)
    <2>1. Distinct(b) /\ \A t \in Members(b) : Q.sleep[t] = s
      BY <1>1 DEF Sound, RingsSleep, Ring
    <2>2. p \notin Members(b)
      BY <2>1, SemaphoreAssumption DEF Awake
    <2> QED
      BY <1>1, <2>1, <2>2 DEF Drained, Joined
  <1>3. Ring(Q, s) = Members(b) /\ Ring(N, s) = Members(d)
    BY <1>1 DEF Ring
  <1>4. ASSUME NEW t \in Members(b) \cap Members(d), NEW u \in Thread, Before(Q, s, t, u)
        PROVE  Before(N, s, t, u)
    <2>1. PICK i \in 1..Len(b), j \in 1..Len(b) : i < j /\ b[i] = t /\ b[j] = u
      BY <1>1, <1>4 DEF Before
    <2>2. PICK y \in 1..Len(d) : d[y] = t
      BY DEF Members
    <2>3. \A x, w \in 1..Len(b), v \in 1..Len(d) :
            x < w /\ d[v] = b[x] => \E z \in 1..Len(d) : v < z /\ d[z] = b[w]
      <3>1. Shorter(b, c) /\ Distinct(b) /\ p \notin Members(b) /\ p \in Thread
        BY <1>2
      <3>2. b \in Seq(Thread) /\ c \in Seq(Thread)
        BY <1>1
      <3>3. CASE d = c
        BY <3>1, <3>2, <3>3, JoinedRing
      <3>4. CASE d = Enqueued(c, p)
        BY <3>1, <3>2, <3>4, JoinedRing
      <3> QED
        BY <1>2, <3>3, <3>4
    <2>4. \E z \in 1..Len(d) : y < z /\ d[z] = b[j]
      BY <2>1, <2>2, <2>3
    <2> QED
      BY <1>1, <2>1, <2>2, <2>4 DEF Before
  <1>5. ASSUME NEW t \in Members(b) \cap Members(d), NEW u \in Members(d) \ Members(b)
        PROVE  Before(N, s, t, u)
    <2>1. \E y, z \in 1..Len(d) : y < z /\ d[y] = t /\ d[z] = u
      BY <1>1, <1>2, <1>5, NewestIsLast
    <2> QED
      BY <1>1, <2>1 DEF Before
  <1> QED
    BY <1>3, <1>4, <1>5 DEF OrderKept
(* Nobody joins when a kernel function only wakes.                         *)
LEMMA DrainedKeepsOrder ==
  ASSUME NEW R \in SUBSET Semaphore, NEW Q, Sound(Q, R), NEW N \in SemaphoreState,
         Drained(Q, N), NEW s \in Semaphore
  PROVE  OrderKept(Q, N, s)
  <1>1. PICK b, d : /\ b = Q.ring[s] /\ d = N.ring[s]
                    /\ b \in Seq(Thread) /\ d \in Seq(Thread)
    BY DEF Sound, SemaphoreState
  <1>2. ASSUME NEW t \in Ring(Q, s) \cap Ring(N, s), NEW u \in Thread
        PROVE  /\ Before(Q, s, t, u) => Before(N, s, t, u)
               /\ u \notin Ring(N, s) \ Ring(Q, s)
    <2>1. PICK n \in Nat : n = Len(b)
      BY <1>1, LenProperties
    <2>2. PICK k \in 0..n : Len(d) = n - k /\ \A i \in 1..Len(d) : d[i] = b[i + k]
      BY <1>1, <2>1 DEF Drained, Shorter
    <2>3. Distinct(b)
      BY <1>1 DEF Sound, RingsSleep
    <2>4. u \notin Ring(N, s) \ Ring(Q, s)
      <3>1. ASSUME NEW i \in 1..Len(d) PROVE d[i] \in Members(b)
        <4>1. i + k \in 1..n /\ d[i] = b[i + k]
          BY <2>1, <2>2
        <4> QED
          BY <2>1, <4>1 DEF Members
      <3>2. \A w \in Members(d) : w \in Members(b)
        BY <3>1 DEF Members
      <3> QED
        BY <1>1, <3>2 DEF Ring
    <2>5. ASSUME Before(Q, s, t, u) PROVE Before(N, s, t, u)
      <3>1. PICK i \in 1..n, j \in 1..n : i < j /\ b[i] = t /\ b[j] = u
        BY <1>1, <2>1, <2>5 DEF Before
      <3>2. PICK y \in 1..Len(d) : d[y] = t
        BY <1>1, <1>2 DEF Ring, Members
      <3>3. y + k \in 1..n /\ b[y + k] = b[i]
        BY <2>1, <2>2, <3>1, <3>2
      <3>4. y + k = i
        BY <2>1, <2>3, <3>3 DEF Distinct
      <3>5. j - k \in 1..Len(d) /\ y < j - k /\ (j - k) + k = j
        BY <2>1, <2>2, <3>1, <3>2, <3>4
      <3>6. d[j - k] = u
        BY <2>2, <3>1, <3>5
      <3> QED
        BY <1>1, <3>2, <3>5, <3>6 DEF Before
    <2> QED
      BY <2>4, <2>5
  <1> QED
    BY <1>2 DEF OrderKept

(* v_thread: the head of a ring is taken as V would, anybody else after    *)
(* those ahead have been put behind the others.  What a sleeper astray     *)
(* does to the order is not said, for its semaphore was reused.            *)
LEMMA RotatedAtHead ==
  ASSUME NEW c \in Seq(Thread), Distinct(c), Len(c) > 0
  PROVE  Rotated(c, c[1]) = c
  <1>1. PICK n \in Nat : n = Len(c) /\ n > 0
    BY LenProperties
  <1>2. PICK i \in 1..n : c[i] = c[1] /\ Rotated(c, c[1]) = SubSeq(c, i, n) \o SubSeq(c, 1, i - 1)
    <2>1. \E j \in 1..n : c[j] = c[1]
      BY <1>1
    <2> QED
      BY <1>1, <2>1 DEF Rotated
  <1>3. i = 1
    BY <1>1, <1>2 DEF Distinct
  <1>4. PICK a, e : a = SubSeq(c, 1, n) /\ e = SubSeq(c, 1, 0)
    OBVIOUS
  <1>5. \A j \in 1..n : c[j] \in Thread
    BY <1>1, ElementOfSeq
  <1>6. a \in Seq(Thread) /\ Len(a) = n /\ \A j \in 1..n : a[j] = c[j]
    <2>1. /\ a \in Seq(Thread) /\ Len(a) = IF 1 <= n THEN n - 1 + 1 ELSE 0
          /\ \A j \in 1..(n - 1 + 1) : a[j] = c[1 + j - 1]
      BY <1>1, <1>4, <1>5, SubSeqProperties
    <2> QED
      BY <1>1, <2>1
  <1>7. a = c
    BY <1>1, <1>6, SeqEqual
  <1>8. e = <<>>
    <2>1. e \in Seq(Thread) /\ Len(e) = IF 1 <= 0 THEN 0 - 1 + 1 ELSE 0
      BY <1>1, <1>4, SubSeqProperties
    <2> QED
      BY <2>1, EmptySeq
  <1>9. Rotated(c, c[1]) = a \o e
    BY <1>2, <1>3, <1>4
  <1> QED
    BY <1>7, <1>8, <1>9, ConcatEmptySeq

LEMMA VThreadOrder ==
  ASSUME NEW R \in SUBSET Semaphore, NEW Q, Sound(Q, R), NEW t \in Thread,
         NEW N, N = VThread(Q, t), NEW x \in Semaphore \ R
  PROVE  OrderKept(Q, N, x)
  <1>1. /\ Q \in SemaphoreState
        /\ Q.ring \in [Semaphore -> Seq(Thread)]
        /\ Q.sleep \in [Thread -> Semaphore \cup {None}]
    BY DEF Sound, SemaphoreState
  <1>2. N \in SemaphoreState
    BY VThreadSound DEF Sound
  <1>3. CASE Awake(Q, t)
    <2>1. Drained(Q, N)
      BY <1>1, <1>3, DrainedOrder DEF VThread
    <2> QED
      BY <1>2, <2>1, DrainedKeepsOrder
  <1>4. CASE ~Awake(Q, t)
    <2>1. PICK s \in Semaphore : s = Q.sleep[t]
      BY <1>1, <1>4 DEF Awake
    <2>2. PICK M : M = SetRing(Q, t) /\ N = V(M, s, 1)
      BY <1>4, <2>1 DEF VThread
    <2>3. Sound(M, R) /\ M \in SemaphoreState
      BY <1>4, <2>2, SetRingSound DEF Sound
    <2>4. Drained(M, N)
      BY <2>2, <2>3, VDrains
    <2>5. M.sleep = Q.sleep /\ \A y \in Semaphore : y # s => M.ring[y] = Q.ring[y]
      BY <1>1, <2>1, <2>2 DEF SetRing, SemaphoreState
    <2>6. CASE M.ring[x] = Q.ring[x]
      <3>1. OrderKept(M, N, x)
        BY <1>2, <2>3, <2>4, DrainedKeepsOrder
      <3>2. Ring(M, x) = Ring(Q, x) /\ \A a, b : Before(M, x, a, b) <=> Before(Q, x, a, b)
        BY <2>6 DEF Ring, Before
      <3>3. JumpedTo(M, N, x) <=> JumpedTo(Q, N, x)
        BY <2>6 DEF JumpedTo
      <3> QED
        BY <3>1, <3>2, <3>3 DEF OrderKept
    <2>7. CASE M.ring[x] # Q.ring[x]
      <3>1. x = s
        BY <2>5, <2>7
      <3>2. t \in Ring(Q, s)
        <4>1. s \notin R
          BY <3>1
        <4> QED
          BY <1>4, <2>1, <4>1 DEF Sound, Placed, StraySleep
      <3>3. PICK c, n, r : /\ c = Q.ring[s] /\ n = Len(c) /\ r = M.ring[s]
                           /\ c \in Seq(Thread) /\ n \in Nat
        BY <1>1, LenProperties
      <3>4. r = Rotated(c, t)
        BY <1>1, <2>1, <2>2, <3>2, <3>3 DEF SetRing, SemaphoreState
      <3>5. Distinct(c) /\ t \in Members(c) /\ \A u \in Members(c) : Q.sleep[u] = s /\ u \in Thread
        <4>1. Distinct(c) /\ t \in Members(c) /\ \A u \in Members(c) : Q.sleep[u] = s
          BY <3>2, <3>3 DEF Sound, RingsSleep, Ring
        <4>2. \A u \in Members(c) : u \in Thread
          BY <3>3, ElementOfSeq DEF Members
        <4> QED
          BY <4>1, <4>2
      <3>6. r \in Seq(Thread) /\ Len(r) = n /\ Members(r) = Members(c) /\ r[1] = t
        BY <3>3, <3>4, <3>5, RotatedRing
      <3>7. PICK i \in 2..n : c[i] = t
        <4>1. PICK i \in 1..n : c[i] = t
          BY <3>3, <3>5 DEF Members
        <4>2. i # 1
          BY <2>7, <3>1, <3>3, <3>4, <3>5, <4>1, RotatedAtHead
        <4> QED
          BY <3>3, <4>1, <4>2
      <3>8. Woken(M, s, 1) = 1
        BY <3>3, <3>6, <3>7 DEF Woken
      <3>9. \A u \in Thread : N.sleep[u] = IF u = t THEN None ELSE Q.sleep[u]
        <4>1. N.sleep = [u \in Thread |-> IF \E j \in 1..1 : r[j] = u THEN None ELSE M.sleep[u]]
          <5>1. PICK k : k = Woken(M, s, 1)
            OBVIOUS
          <5>2. N.sleep = [u \in Thread |-> IF \E j \in 1..k : r[j] = u THEN None ELSE M.sleep[u]]
            BY <2>2, <2>3, <3>3, <5>1 DEF V, SemaphoreState
          <5> QED
            BY <3>8, <5>1, <5>2
        <4>2. \A u : (\E j \in 1..1 : r[j] = u) <=> u = t
          BY <3>6
        <4> QED
          BY <2>5, <4>1, <4>2
      <3>10. N.ring[s] = SubSeq(r, 2, n)
        <4>1. N.ring = [M.ring EXCEPT ![s] = SubSeq(r, 2, Len(r))]
          <5>1. PICK k : k = Woken(M, s, 1)
            OBVIOUS
          <5>2. N.ring = [M.ring EXCEPT ![s] = SubSeq(r, k + 1, Len(r))]
            BY <2>2, <2>3, <3>3, <5>1 DEF V, SemaphoreState
          <5>3. k + 1 = 2
            BY <3>8, <5>1
          <5> QED
            BY <5>2, <5>3, Zenon
        <4>2. M.ring \in [Semaphore -> Seq(Thread)]
          BY <2>3 DEF SemaphoreState
        <4> QED
          BY <3>6, <4>1, <4>2
      <3>11. PICK d : /\ d = N.ring[s] /\ Len(d) > 0
                      /\ \A u \in Members(d) : u \in Members(c)
        <4>1. \A j \in 2..n : r[j] \in Thread
          BY <3>3, <3>6, ElementOfSeq
        <4>2. PICK d : d = SubSeq(r, 2, n)
          OBVIOUS
        <4>3. /\ Len(d) = IF 2 <= n THEN n - 2 + 1 ELSE 0
              /\ \A j \in 1..(n - 2 + 1) : d[j] = r[2 + j - 1]
          BY <3>3, <4>1, <4>2, SubSeqProperties
        <4>4. Len(d) = n - 1 /\ Len(d) > 0
          BY <3>3, <3>7, <4>3
        <4>5. ASSUME NEW j \in 1..Len(d) PROVE d[j] \in Members(r)
          <5>1. j + 1 \in 1..n /\ j \in 1..(n - 2 + 1) /\ 2 + j - 1 = j + 1
            BY <3>3, <4>4
          <5> QED
            BY <3>6, <4>3, <5>1 DEF Members
        <4>6. \A u \in Members(d) : u \in Members(c)
          BY <3>6, <4>5 DEF Members
        <4> QED
          BY <3>10, <4>2, <4>4, <4>6
      <3>12. JumpedTo(Q, N, s)
        <4>1. n > 1 /\ d # <<>>
          BY <3>3, <3>7, <3>11
        <4>2. Awake(N, c[i])
          BY <3>7, <3>9 DEF Awake
        <4>3. ASSUME NEW j \in 1..n, j # i PROVE ~Awake(N, c[j])
          <5>1. c[j] # t /\ c[j] \in Members(c)
            BY <3>3, <3>5, <3>7, <4>3 DEF Distinct, Members
          <5>2. N.sleep[c[j]] = s
            BY <3>5, <3>9, <5>1
          <5> QED
            BY <5>2, SemaphoreAssumption DEF Awake
        <4> QED
          BY <3>3, <3>7, <3>11, <4>1, <4>2, <4>3 DEF JumpedTo
      <3>13. Ring(N, s) \ Ring(Q, s) = {}
        BY <3>3, <3>11 DEF Ring
      <3> QED
        BY <3>1, <3>12, <3>13 DEF OrderKept
    <2> QED
      BY <2>6, <2>7
  <1> QED
    BY <1>3, <1>4
-----------------------------------------------------------------------------
(* Every action, with what its parts do to the rings one after the other.  *)
LEMMA StepKeepsOrder ==
  SInv /\ [SNext]_sVars => \A s \in Semaphore \ reused' : OrderKept(sems, sems', s)
  <1> SUFFICES ASSUME SInv, [SNext]_sVars, NEW z \in Semaphore \ reused'
               PROVE  OrderKept(sems, sems', z)
    OBVIOUS
  <1>1. /\ STypeOK /\ Sound(sems, reused) /\ sems \in SemaphoreState
        /\ reused \in SUBSET (Semaphore \ Entity) /\ reused \in SUBSET Semaphore
    BY DEF SInv, STypeOK
  <1>2. sems' \in SemaphoreState
    BY NextSound DEF SInv, STypeOK
  <1>3. CASE sems' = sems
    <2>1. Drained(sems, sems')
      BY <1>1, <1>3, DrainedOrder
    <2> QED
      BY <1>1, <1>2, <2>1, DrainedKeepsOrder
  <1>4. ASSUME NEW t \in Thread, SemaphoreOperation(t) PROVE OrderKept(sems, sems', z)
    <2>1. PICK x \in VCalls \cup {None}, y \in PCalls \cup {None} :
            sems' = PPart(VPart(sems, x), t, y)
      BY <1>4 DEF SemaphoreOperation
    <2>2. PICK M : M = VPart(sems, x)
      OBVIOUS
    <2>3. Sound(M, reused) /\ Drained(sems, M) /\ M \in SemaphoreState
      BY <1>1, <2>2, PartsSound, PartsDrain DEF Sound
    <2>4. CASE y = None
      <3>1. sems' = M
        BY <2>1, <2>2, <2>4 DEF PPart
      <3> QED
        BY <1>1, <2>3, <3>1, DrainedKeepsOrder
    <2>5. CASE y # None
      <3>1. y.sem \in Semaphore /\ y.sleep_flag \in BOOLEAN
        BY <2>5 DEF PCalls
      <3>2. PICK W : W = AfterReset(M, y)
        OBVIOUS
      <3>3. Sound(W, reused) /\ Drained(M, W) /\ W \in SemaphoreState
        BY <1>1, <2>3, <3>1, <3>2, PartsDrain DEF Sound
      <3>4. Drained(sems, W)
        BY <1>1, <2>3, <3>3, DrainedOrder
      <3>5. sems' = P(W, t, y.sem, y.sleep_flag)
        BY <2>1, <2>2, <2>5, <3>2 DEF PPart
      <3>6. Joined(W, sems', t)
        BY <3>1, <3>3, <3>5, PJoins
      <3>7. Awake(sems, t)
        BY <1>4 DEF SemaphoreOperation
      <3> QED
        BY <1>1, <3>3, <3>4, <3>6, <3>7, DrainedThenJoined
    <2> QED
      BY <2>4, <2>5
  <1>5. ASSUME NEW t \in Thread, SetTime(t) PROVE OrderKept(sems, sems', z)
    <2>1. PICK s \in Semaphore, do_p \in BOOLEAN, flag \in BOOLEAN :
            sems' = IF do_p THEN P(sems, t, s, flag) ELSE sems
      BY <1>5 DEF SetTime
    <2>2. CASE sems' = P(sems, t, s, flag)
      <3>1. Joined(sems, sems', t) /\ Drained(sems, sems) /\ Awake(sems, t)
        BY <1>1, <1>5, <2>2, PJoins, DrainedOrder DEF SetTime
      <3> QED
        BY <1>1, <3>1, DrainedThenJoined
    <2> QED
      BY <1>3, <2>1, <2>2
  <1>6. ASSUME AllocateSemaphore PROVE OrderKept(sems, sems', z)
    <2>1. PICK s \in free, value \in InitialValue :
            /\ sems' = Allocate(sems, s, value)
            /\ reused' = IF sems.ring[s] = <<>> THEN reused ELSE reused \cup {s}
      BY <1>6 DEF AllocateSemaphore
    <2>2. s \in Semaphore /\ sems.ring \in [Semaphore -> Seq(Thread)]
      BY <1>1 DEF STypeOK, SemaphoreState
    <2>3. sems'.ring = [sems.ring EXCEPT ![s] = <<>>]
      BY <1>1, <2>1 DEF Allocate, SemaphoreState
    <2>4. sems'.ring[z] = sems.ring[z]
      BY <2>1, <2>2, <2>3
    <2>5. Ring(sems', z) = Ring(sems, z) /\ \A t, u : Before(sems, z, t, u) <=> Before(sems', z, t, u)
      BY <2>4 DEF Ring, Before
    <2> QED
      BY <2>5 DEF OrderKept
  <1>7. ASSUME ReleaseSemaphore PROVE OrderKept(sems, sems', z)
    <2>1. PICK s \in Semaphore : sems' = V(sems, s, -1)
      BY <1>7 DEF ReleaseSemaphore
    <2>2. Drained(sems, sems')
      BY <1>1, <2>1, VDrains
    <2> QED
      BY <1>1, <1>2, <2>2, DrainedKeepsOrder
  <1>8. ASSUME MandatoryExit PROVE OrderKept(sems, sems', z)
    BY <1>1, <1>8, VThreadOrder DEF MandatoryExit
  (* A timer that makes V(-1) leaves nobody that owns its semaphore asleep *)
  (* on it, so of its two actions only one wakes anybody.                  *)
  <1>9. ASSUME Fire PROVE OrderKept(sems, sems', z)
    <2>1. PICK s \in Semaphore, top \in BOOLEAN :
            Due(s) /\ sems' = ActionStack(ActionV(sems, s), s, top)
      BY <1>9 DEF Fire
    <2>2. timer[s].v = -1
      BY <1>1, <2>1, TimerTypes DEF Due
    <2>3. PICK M : M = ActionV(sems, s)
      OBVIOUS
    <2>4. reused' = reused
      BY <1>9 DEF Fire
    <2>5. CASE M = sems
      <3>1. CASE sems' = sems
        BY <1>3, <3>1
      <3>2. CASE Owned(s) /\ sems' = VThread(sems, StackOwner[s])
        <4>1. StackOwner[s] \in Thread
          BY <3>2, SemaphoreParameters DEF Owned
        <4> QED
          BY <1>1, <2>4, <3>2, <4>1, VThreadOrder
      <3> QED
        BY <2>1, <2>3, <2>5, <3>1, <3>2 DEF ActionStack
    <2>6. CASE M = V(sems, s, -1)
      <3>1. Sound(M, reused) /\ Drained(sems, M) /\ M.ring[s] = <<>>
        BY <1>1, <2>6, VSound, VDrains
      <3>2. sems' = M
        <4> SUFFICES ASSUME Owned(s), M.sleep[StackOwner[s]] = s PROVE FALSE
          BY <2>1, <2>3 DEF ActionStack
        <4>1. StackOwner[s] \in Thread /\ s \notin reused
          BY <1>1, SemaphoreParameters DEF Owned
        <4>2. ~Awake(M, StackOwner[s])
          BY SemaphoreAssumption DEF Awake
        <4>3. StackOwner[s] \in Ring(M, s)
          BY <3>1, <4>1, <4>2 DEF Sound, Placed, StraySleep
        <4> QED
          BY <3>1, <4>3 DEF Ring, Members
      <3> QED
        BY <1>1, <1>2, <3>1, <3>2, DrainedKeepsOrder
    <2> QED
      BY <2>2, <2>3, <2>5, <2>6 DEF ActionV
  <1>10. CASE Advance \/ StartTick \/ EndTick \/ UNCHANGED sVars
    BY <1>3, <1>10 DEF Advance, StartTick, EndTick, sVars
  <1> QED
    BY <1>4, <1>5, <1>6, <1>7, <1>8, <1>9, <1>10 DEF SNext

(* v_sem.c, p_sem.c: sleepers are woken in the order they came and new ones*)
(* queue behind all others, whatever else a step does; only v_thread on one*)
(* that is not the head puts those who were ahead of it behind the others. *)
THEOREM SemaphoreWakeOrderKept == SSpec => WakeOrderKept
  <1>1. SInv /\ [SNext]_sVars =>
          [\A s \in Semaphore \ reused' : \A t \in Ring(sems, s) \cap Ring(sems', s), u \in Thread :
             /\ Before(sems, s, t, u) => Before(sems', s, t, u) \/ Jumped(s)
             /\ u \in Ring(sems', s) \ Ring(sems, s) => Before(sems', s, t, u)]_sVars
    BY StepKeepsOrder DEF OrderKept, JumpedTo, Jumped
  <1> QED
    BY <1>1, SemaphoreInvariant, PTL DEF SSpec, WakeOrderKept

-----------------------------------------------------------------------------
(* The lock that a thread has that sleeps on s, is at p and in exchange m, *)
(* and so for all threads; the lock each calls for, and owes a V of.       *)
Holds(s, p, m) ==
  IF s # None THEN None
  ELSE IF p \in {"in", "wait", "next", "wakeup", "leave"} THEN Memory
  ELSE IF p = "device" THEN Device
  ELSE IF p = "unlock" THEN m.from
  ELSE IF p = "call" /\ m.r3 = None THEN m.to ELSE None
Hold(Q, pl, mv) == [t \in Thread |-> Holds(Q.sleep[t], pl[t], mv[t])]
Want(pl, mv)    == [t \in Thread |-> IF pl[t] = "call" THEN mv[t].r3 ELSE None]
Owe(mv)         == [t \in Thread |-> mv[t].r1]

Num(f, l) == Cardinality({t \in Thread : f[t] = l})
Units(v)  == IF v > 0 THEN v ELSE 0

(* The books of both locks: their counters, who has, wants or owes, the    *)
(* sleepers and values of the semaphores, the number of kicks.             *)
Books(Q, sp, pl, mv, k) ==
  [sp |-> sp, h |-> Hold(Q, pl, mv), w |-> Want(pl, mv), o |-> Owe(mv),
   sl |-> Q.sleep, v |-> Q.value, k |-> k]

Points(f) == f \in [Thread -> Semaphore \cup {None}]
Typed(B) ==
  /\ B.sp \in [Lock -> Int] /\ B.v \in [Semaphore -> Int] /\ B.k \in Nat
  /\ Points(B.h) /\ Points(B.w) /\ Points(B.o) /\ Points(B.sl)

Even(B, l) ==
  /\ B.sp[l] = 1 - Num(B.h, l) - Num(B.w, l) - Num(B.sl, l)
  /\ Num(B.h, l) + Num(B.o, l) + Units(B.v[l]) <= 1 + B.k
  /\ Num(B.o, l) + Units(B.v[l]) <= Num(B.w, l) + Num(B.sl, l) + B.k

Balanced(B) == Typed(B) /\ \A l \in Lock : Even(B, l)

(* Where a thread sleeps, and what exchange of locks it is in.             *)
Proper(s, p, m) ==
  /\ s \in Lock => p = Inside(s) \/ (s = Memory /\ p = "next")
  /\ s \notin Lock \cup {None} => p = "woken"
  /\ p = "unlock" => m.from \in Lock /\ m.r1 = None /\ m.r3 = None
  /\ p = "lock" => m.to \in Lock /\ m.r3 = None
  /\ p = "call" => m.r3 \in {None, m.to}
  /\ p \notin {"unlock", "lock", "call"} => m.r1 = None
Orderly(Q, pl, mv) == \A t \in Thread : Proper(Q.sleep[t], pl[t], mv[t])

IInv ==
  /\ TypeOK
  /\ Settled(q)
  /\ Orderly(q, place, move)
  /\ Balanced(Books(q, spin, place, move, kicks))

-----------------------------------------------------------------------------
(* The number of threads with some value, when one thread changes its.     *)
LEMMA NumType ==
  ASSUME NEW f, NEW x
  PROVE  IsFiniteSet({t \in Thread : f[t] = x}) /\ Num(f, x) \in Nat
  <1>1. IsFiniteSet(Thread)
    BY LockAssumption
  <1>2. {t \in Thread : f[t] = x} \in SUBSET Thread
    OBVIOUS
  <1>3. IsFiniteSet({t \in Thread : f[t] = x})
    BY <1>1, <1>2, FS_Subset
  <1> QED
    BY <1>3, FS_CardinalityType DEF Num

Changed(f, g, t, y) ==
  f[t] # y /\ \A u \in Thread : g[u] = IF u = t THEN y ELSE f[u]

LEMMA NumChanged ==
  ASSUME NEW f, NEW g, NEW t \in Thread, NEW y, Changed(f, g, t, y)
  PROVE  /\ Num(g, y) = Num(f, y) + 1
         /\ Num(g, f[t]) = Num(f, f[t]) - 1
         /\ \A x : x # y /\ x # f[t] => Num(g, x) = Num(f, x)
  <1>1. Num(g, y) = Num(f, y) + 1
    <2>1. {u \in Thread : g[u] = y} = {u \in Thread : f[u] = y} \cup {t}
      BY DEF Changed
    <2>2. t \notin {u \in Thread : f[u] = y}
      BY DEF Changed
    <2>3. PICK S : S = {u \in Thread : f[u] = y}
      OBVIOUS
    <2>4. IsFiniteSet(S) /\ t \notin S
      BY <2>2, <2>3, NumType
    <2>5. Cardinality(S \cup {t}) = Cardinality(S) + 1
      BY <2>4, FS_AddElement
    <2> QED
      BY <2>1, <2>3, <2>5 DEF Num
  <1>2. Num(g, f[t]) = Num(f, f[t]) - 1
    <2>1. {u \in Thread : g[u] = f[t]} = {u \in Thread : f[u] = f[t]} \ {t}
      BY DEF Changed
    <2>2. t \in {u \in Thread : f[u] = f[t]}
      BY DEF Changed
    <2>3. PICK S : S = {u \in Thread : f[u] = f[t]}
      OBVIOUS
    <2>4. IsFiniteSet(S) /\ t \in S
      BY <2>2, <2>3, NumType
    <2>5. Cardinality(S \ {t}) = Cardinality(S) - 1
      BY <2>4, FS_RemoveElement
    <2> QED
      BY <2>1, <2>3, <2>5 DEF Num
  <1>3. ASSUME NEW x, x # y, x # f[t] PROVE Num(g, x) = Num(f, x)
    <2>1. {u \in Thread : g[u] = x} = {u \in Thread : f[u] = x}
      BY <1>3 DEF Changed
    <2> QED
      BY <2>1 DEF Num
  <1> QED
    BY <1>1, <1>2, <1>3

LEMMA LocksAreSemaphores ==
  /\ Memory \in Lock /\ Device \in Lock /\ Memory # Device
  /\ Lock \subseteq Semaphore /\ None \notin Semaphore /\ None \notin Lock
  /\ Own \in [Thread -> Semaphore \ Lock]
  /\ \A l \in Lock : l = Memory \/ l = Device
  BY LockAssumption, SemaphoreAssumption DEF Lock

(* A thread comes to a lock, or goes.                                      *)
Joins(f, g, t, l)  == f[t] = None /\ g = [f EXCEPT ![t] = l]
Leaves(f, g, t, l) == f[t] = l /\ g = [f EXCEPT ![t] = None]

LEMMA Comes ==
  ASSUME NEW f, NEW g, NEW t \in Thread, NEW l \in Lock, Points(f), Joins(f, g, t, l)
  PROVE  /\ Points(g)
         /\ \A x \in Lock : Num(g, x) = IF x = l THEN Num(f, x) + 1 ELSE Num(f, x)
  <1>1. l \in Semaphore /\ None \notin Lock
    BY LocksAreSemaphores
  <1>2. Changed(f, g, t, l)
    BY <1>1 DEF Changed, Points, Joins
  <1>3. \A x \in Lock : Num(g, x) = IF x = l THEN Num(f, x) + 1 ELSE Num(f, x)
    BY <1>1, <1>2, NumChanged DEF Points, Joins
  <1>4. Points(g)
    BY <1>1 DEF Joins, Points
  <1> QED
    BY <1>3, <1>4

LEMMA Goes ==
  ASSUME NEW f, NEW g, NEW t \in Thread, NEW l \in Lock, Points(f), Leaves(f, g, t, l)
  PROVE  /\ Points(g)
         /\ \A x \in Lock : Num(g, x) = IF x = l THEN Num(f, x) - 1 ELSE Num(f, x)
  <1>1. None \notin Lock
    BY LocksAreSemaphores
  <1>2. Changed(f, g, t, None)
    BY <1>1 DEF Changed, Points, Leaves
  <1>3. \A x \in Lock : Num(g, x) = IF x = l THEN Num(f, x) - 1 ELSE Num(f, x)
    BY <1>1, <1>2, NumChanged DEF Points, Leaves
  <1>4. Points(g)
    BY DEF Leaves, Points
  <1> QED
    BY <1>3, <1>4

-----------------------------------------------------------------------------
(* What the steps of an exchange do to the books.  The lock that is not    *)
(* exchanged stays as it is.                                               *)
Same(A, B, l) ==
  \A x \in Lock \ {l} :
    /\ B.sp[x] = A.sp[x] /\ B.v[x] = A.v[x]
    /\ Num(B.h, x) = Num(A.h, x) /\ Num(B.w, x) = Num(A.w, x)
    /\ Num(B.o, x) = Num(A.o, x) /\ Num(B.sl, x) = Num(A.sl, x)

LEMMA Rebalanced ==
  ASSUME NEW A, NEW B, NEW l \in Lock, Balanced(A), Typed(B), Same(A, B, l),
         B.k \in {A.k, A.k + 1}, Even(B, l)
  PROVE  Balanced(B)
  <1> SUFFICES ASSUME NEW x \in Lock \ {l} PROVE Even(B, x)
    BY DEF Balanced
  <1>1. Num(A.h, x) \in Nat /\ Num(A.w, x) \in Nat /\ Num(A.o, x) \in Nat /\ Num(A.sl, x) \in Nat
    BY NumType
  <1>2. x \in Semaphore
    BY LocksAreSemaphores
  <1>3. A.sp[x] \in Int /\ A.v[x] \in Int /\ A.k \in Nat
    BY <1>2 DEF Balanced, Typed
  <1>4. Even(A, x)
    BY DEF Balanced
  <1> QED
    BY <1>1, <1>3, <1>4 DEF Even, Same, Units

(* The exchange finds the lock free, and then nobody sleeps or calls.      *)
LEMMA TakesFree ==
  ASSUME NEW A, NEW B, NEW t \in Thread, NEW l \in Lock, Balanced(A), A.sp[l] > 0,
         B.sp = [A.sp EXCEPT ![l] = A.sp[l] - 1], Joins(A.h, B.h, t, l), B.w = A.w,
         B.o = A.o, B.sl = A.sl, B.v = A.v, B.k = A.k
  PROVE  Balanced(B)
  <1>1. /\ Typed(A) /\ Even(A, l) /\ l \in Semaphore
        /\ Points(A.h) /\ Points(A.w) /\ Points(A.o) /\ Points(A.sl)
    BY LocksAreSemaphores DEF Balanced, Typed
  <1>2. /\ Points(B.h)
        /\ \A x \in Lock : Num(B.h, x) = IF x = l THEN Num(A.h, x) + 1 ELSE Num(A.h, x)
    BY <1>1, Comes
  <1>3. Typed(B) /\ Same(A, B, l)
    BY <1>1, <1>2 DEF Typed, Same
  <1>4. Num(A.h, l) \in Nat /\ Num(A.w, l) \in Nat /\ Num(A.o, l) \in Nat /\ Num(A.sl, l) \in Nat
    BY NumType
  <1>5. Even(B, l)
    BY <1>1, <1>2, <1>4 DEF Even, Units, Typed
  <1> QED
    BY <1>1, <1>3, <1>5, Rebalanced

(* It finds it taken: a P is to come.                                      *)
LEMMA TakesTaken ==
  ASSUME NEW A, NEW B, NEW t \in Thread, NEW l \in Lock, Balanced(A),
         B.sp = [A.sp EXCEPT ![l] = A.sp[l] - 1], Joins(A.w, B.w, t, l), B.h = A.h,
         B.o = A.o, B.sl = A.sl, B.v = A.v, B.k = A.k
  PROVE  Balanced(B)
  <1>1. /\ Typed(A) /\ Even(A, l) /\ l \in Semaphore
        /\ Points(A.h) /\ Points(A.w) /\ Points(A.o) /\ Points(A.sl)
    BY LocksAreSemaphores DEF Balanced, Typed
  <1>2. /\ Points(B.w)
        /\ \A x \in Lock : Num(B.w, x) = IF x = l THEN Num(A.w, x) + 1 ELSE Num(A.w, x)
    BY <1>1, Comes
  <1>3. Typed(B) /\ Same(A, B, l)
    BY <1>1, <1>2 DEF Typed, Same
  <1>4. Num(A.h, l) \in Nat /\ Num(A.w, l) \in Nat /\ Num(A.o, l) \in Nat /\ Num(A.sl, l) \in Nat
    BY NumType
  <1>5. Even(B, l)
    BY <1>1, <1>2, <1>4 DEF Even, Units, Typed
  <1> QED
    BY <1>1, <1>3, <1>5, Rebalanced

(* The lock is given back; who found somebody waiting owes a V.            *)
LEMMA GivesOwing ==
  ASSUME NEW A, NEW B, NEW t \in Thread, NEW l \in Lock, Balanced(A), A.sp[l] < 0,
         B.sp = [A.sp EXCEPT ![l] = A.sp[l] + 1], Leaves(A.h, B.h, t, l),
         Joins(A.o, B.o, t, l), B.w = A.w, B.sl = A.sl, B.v = A.v, B.k = A.k
  PROVE  Balanced(B)
  <1>1. /\ Typed(A) /\ Even(A, l) /\ l \in Semaphore
        /\ Points(A.h) /\ Points(A.w) /\ Points(A.o) /\ Points(A.sl)
    BY LocksAreSemaphores DEF Balanced, Typed
  <1>2. /\ Points(B.h)
        /\ \A x \in Lock : Num(B.h, x) = IF x = l THEN Num(A.h, x) - 1 ELSE Num(A.h, x)
    BY <1>1, Goes
  <1>3. /\ Points(B.o)
        /\ \A x \in Lock : Num(B.o, x) = IF x = l THEN Num(A.o, x) + 1 ELSE Num(A.o, x)
    BY <1>1, Comes
  <1>4. Typed(B) /\ Same(A, B, l)
    BY <1>1, <1>2, <1>3 DEF Typed, Same
  <1>5. Num(A.h, l) \in Nat /\ Num(A.w, l) \in Nat /\ Num(A.o, l) \in Nat /\ Num(A.sl, l) \in Nat
    BY NumType
  <1>6. Even(B, l)
    BY <1>1, <1>2, <1>3, <1>5 DEF Even, Units, Typed
  <1> QED
    BY <1>1, <1>4, <1>6, Rebalanced

(* Nobody waits.                                                           *)
LEMMA GivesFree ==
  ASSUME NEW A, NEW B, NEW t \in Thread, NEW l \in Lock, Balanced(A),
         B.sp = [A.sp EXCEPT ![l] = A.sp[l] + 1], Leaves(A.h, B.h, t, l), B.w = A.w,
         B.o = A.o, B.sl = A.sl, B.v = A.v, B.k = A.k
  PROVE  Balanced(B)
  <1>1. /\ Typed(A) /\ Even(A, l) /\ l \in Semaphore
        /\ Points(A.h) /\ Points(A.w) /\ Points(A.o) /\ Points(A.sl)
    BY LocksAreSemaphores DEF Balanced, Typed
  <1>2. /\ Points(B.h)
        /\ \A x \in Lock : Num(B.h, x) = IF x = l THEN Num(A.h, x) - 1 ELSE Num(A.h, x)
    BY <1>1, Goes
  <1>3. Typed(B) /\ Same(A, B, l)
    BY <1>1, <1>2 DEF Typed, Same
  <1>4. Num(A.h, l) \in Nat /\ Num(A.w, l) \in Nat /\ Num(A.o, l) \in Nat /\ Num(A.sl, l) \in Nat
    BY NumType
  <1>5. Even(B, l)
    BY <1>1, <1>2, <1>4 DEF Even, Units, Typed
  <1> QED
    BY <1>1, <1>3, <1>5, Rebalanced

(* V finds nobody asleep, or wakes the sleeper u.                          *)
LEMMA PaysUnit ==
  ASSUME NEW A, NEW B, NEW t \in Thread, NEW l \in Lock, Balanced(A), ~(A.v[l] < 0),
         B.v = [A.v EXCEPT ![l] = A.v[l] + 1], Leaves(A.o, B.o, t, l), B.sp = A.sp,
         B.h = A.h, B.w = A.w, B.sl = A.sl, B.k = A.k
  PROVE  Balanced(B)
  <1>1. /\ Typed(A) /\ Even(A, l) /\ l \in Semaphore
        /\ Points(A.h) /\ Points(A.w) /\ Points(A.o) /\ Points(A.sl)
    BY LocksAreSemaphores DEF Balanced, Typed
  <1>2. /\ Points(B.o)
        /\ \A x \in Lock : Num(B.o, x) = IF x = l THEN Num(A.o, x) - 1 ELSE Num(A.o, x)
    BY <1>1, Goes
  <1>3. Typed(B) /\ Same(A, B, l)
    BY <1>1, <1>2 DEF Typed, Same
  <1>4. Num(A.h, l) \in Nat /\ Num(A.w, l) \in Nat /\ Num(A.o, l) \in Nat /\ Num(A.sl, l) \in Nat
    BY NumType
  <1>5. Even(B, l)
    BY <1>1, <1>2, <1>4 DEF Even, Units, Typed
  <1> QED
    BY <1>1, <1>3, <1>5, Rebalanced

LEMMA PaysSleeper ==
  ASSUME NEW A, NEW B, NEW t \in Thread, NEW u \in Thread, NEW l \in Lock, Balanced(A), A.v[l] < 0,
         B.v = [A.v EXCEPT ![l] = A.v[l] + 1], Leaves(A.o, B.o, t, l),
         Joins(A.h, B.h, u, l), Leaves(A.sl, B.sl, u, l), B.sp = A.sp, B.w = A.w, B.k = A.k
  PROVE  Balanced(B)
  <1>1. /\ Typed(A) /\ Even(A, l) /\ l \in Semaphore
        /\ Points(A.h) /\ Points(A.w) /\ Points(A.o) /\ Points(A.sl)
    BY LocksAreSemaphores DEF Balanced, Typed
  <1>2. /\ Points(B.o)
        /\ \A x \in Lock : Num(B.o, x) = IF x = l THEN Num(A.o, x) - 1 ELSE Num(A.o, x)
    BY <1>1, Goes
  <1>3. /\ Points(B.h)
        /\ \A x \in Lock : Num(B.h, x) = IF x = l THEN Num(A.h, x) + 1 ELSE Num(A.h, x)
    BY <1>1, Comes
  <1>4. /\ Points(B.sl)
        /\ \A x \in Lock : Num(B.sl, x) = IF x = l THEN Num(A.sl, x) - 1 ELSE Num(A.sl, x)
    BY <1>1, Goes
  <1>5. Typed(B) /\ Same(A, B, l)
    BY <1>1, <1>2, <1>3, <1>4 DEF Typed, Same
  <1>6. Num(A.h, l) \in Nat /\ Num(A.w, l) \in Nat /\ Num(A.o, l) \in Nat /\ Num(A.sl, l) \in Nat
    BY NumType
  <1>7. Even(B, l)
    BY <1>1, <1>2, <1>3, <1>4, <1>6 DEF Even, Units, Typed
  <1> QED
    BY <1>1, <1>5, <1>7, Rebalanced

(* P finds a unit, or sleeps.                                              *)
LEMMA GetsUnit ==
  ASSUME NEW A, NEW B, NEW t \in Thread, NEW l \in Lock, Balanced(A), A.v[l] > 0,
         B.v = [A.v EXCEPT ![l] = A.v[l] - 1], Leaves(A.w, B.w, t, l),
         Joins(A.h, B.h, t, l), B.sp = A.sp, B.o = A.o, B.sl = A.sl, B.k = A.k
  PROVE  Balanced(B)
  <1>1. /\ Typed(A) /\ Even(A, l) /\ l \in Semaphore
        /\ Points(A.h) /\ Points(A.w) /\ Points(A.o) /\ Points(A.sl)
    BY LocksAreSemaphores DEF Balanced, Typed
  <1>2. /\ Points(B.w)
        /\ \A x \in Lock : Num(B.w, x) = IF x = l THEN Num(A.w, x) - 1 ELSE Num(A.w, x)
    BY <1>1, Goes
  <1>3. /\ Points(B.h)
        /\ \A x \in Lock : Num(B.h, x) = IF x = l THEN Num(A.h, x) + 1 ELSE Num(A.h, x)
    BY <1>1, Comes
  <1>4. Typed(B) /\ Same(A, B, l)
    BY <1>1, <1>2, <1>3 DEF Typed, Same
  <1>5. Num(A.h, l) \in Nat /\ Num(A.w, l) \in Nat /\ Num(A.o, l) \in Nat /\ Num(A.sl, l) \in Nat
    BY NumType
  <1>6. Even(B, l)
    BY <1>1, <1>2, <1>3, <1>5 DEF Even, Units, Typed
  <1> QED
    BY <1>1, <1>4, <1>6, Rebalanced

LEMMA Sleeps ==
  ASSUME NEW A, NEW B, NEW t \in Thread, NEW l \in Lock, Balanced(A), ~(A.v[l] > 0),
         B.v = [A.v EXCEPT ![l] = A.v[l] - 1], Leaves(A.w, B.w, t, l),
         Joins(A.sl, B.sl, t, l), B.sp = A.sp, B.h = A.h, B.o = A.o, B.k = A.k
  PROVE  Balanced(B)
  <1>1. /\ Typed(A) /\ Even(A, l) /\ l \in Semaphore
        /\ Points(A.h) /\ Points(A.w) /\ Points(A.o) /\ Points(A.sl)
    BY LocksAreSemaphores DEF Balanced, Typed
  <1>2. /\ Points(B.w)
        /\ \A x \in Lock : Num(B.w, x) = IF x = l THEN Num(A.w, x) - 1 ELSE Num(A.w, x)
    BY <1>1, Goes
  <1>3. /\ Points(B.sl)
        /\ \A x \in Lock : Num(B.sl, x) = IF x = l THEN Num(A.sl, x) + 1 ELSE Num(A.sl, x)
    BY <1>1, Comes
  <1>4. Typed(B) /\ Same(A, B, l)
    BY <1>1, <1>2, <1>3 DEF Typed, Same
  <1>5. Num(A.h, l) \in Nat /\ Num(A.w, l) \in Nat /\ Num(A.o, l) \in Nat /\ Num(A.sl, l) \in Nat
    BY NumType
  <1>6. Even(B, l)
    BY <1>1, <1>2, <1>3, <1>5 DEF Even, Units, Typed
  <1> QED
    BY <1>1, <1>4, <1>6, Rebalanced

(* A sleeper is kicked out.                                                *)
LEMMA Kicked ==
  ASSUME NEW A, NEW B, NEW t \in Thread, NEW l \in Lock, Balanced(A), A.v[l] < 0,
         B.k = A.k + 1, B.v = [A.v EXCEPT ![l] = A.v[l] + 1], Joins(A.h, B.h, t, l),
         Leaves(A.sl, B.sl, t, l), B.sp = A.sp, B.w = A.w, B.o = A.o
  PROVE  Balanced(B)
  <1>1. /\ Typed(A) /\ Even(A, l) /\ l \in Semaphore
        /\ Points(A.h) /\ Points(A.w) /\ Points(A.o) /\ Points(A.sl)
    BY LocksAreSemaphores DEF Balanced, Typed
  <1>2. /\ Points(B.h)
        /\ \A x \in Lock : Num(B.h, x) = IF x = l THEN Num(A.h, x) + 1 ELSE Num(A.h, x)
    BY <1>1, Comes
  <1>3. /\ Points(B.sl)
        /\ \A x \in Lock : Num(B.sl, x) = IF x = l THEN Num(A.sl, x) - 1 ELSE Num(A.sl, x)
    BY <1>1, Goes
  <1>4. Typed(B) /\ Same(A, B, l)
    BY <1>1, <1>2, <1>3 DEF Typed, Same
  <1>5. Num(A.h, l) \in Nat /\ Num(A.w, l) \in Nat /\ Num(A.o, l) \in Nat /\ Num(A.sl, l) \in Nat
    BY NumType
  <1>6. Even(B, l)
    BY <1>1, <1>2, <1>3, <1>5 DEF Even, Units, Typed
  <1> QED
    BY <1>1, <1>4, <1>6, Rebalanced

-----------------------------------------------------------------------------
(* The same of the operations on semaphores.                               *)
LEMMA WokenHolds ==
  ASSUME NEW s, NEW p, NEW m, Proper(s, p, m)
  PROVE  /\ Proper(None, p, m)
         /\ s \in Lock => Holds(s, p, m) = None /\ Holds(None, p, m) = s
         /\ s \notin Lock => Holds(None, p, m) = Holds(s, p, m)
  <1>1. None \notin Lock /\ Memory # Device /\ (s \in Lock => s = Memory \/ s = Device)
    BY LocksAreSemaphores
  <1>2. Proper(None, p, m)
    BY <1>1 DEF Proper
  <1>3. ASSUME s \in Lock PROVE Holds(s, p, m) = None /\ Holds(None, p, m) = s
    BY <1>1, <1>3 DEF Proper, Holds, Inside
  <1>4. ASSUME s \notin Lock PROVE Holds(None, p, m) = Holds(s, p, m)
    BY <1>1, <1>4 DEF Proper, Holds
  <1> QED
    BY <1>2, <1>3, <1>4

(* Nobody sleeps at another lock, or wakes up there.                       *)
LEMMA Elsewhere ==
  ASSUME NEW A, NEW B, Balanced(A), Points(B.sl), B.v \in [Semaphore -> Int],
         \A t \in Thread : B.sl[t] = A.sl[t] \/ (A.sl[t] \notin Lock /\ B.sl[t] \notin Lock),
         \A x \in Lock : B.v[x] = A.v[x],
         B.sp = A.sp, B.h = A.h, B.w = A.w, B.o = A.o, B.k = A.k
  PROVE  Balanced(B)
  <1>1. Typed(B)
    BY DEF Balanced, Typed
  <1>2. ASSUME NEW x \in Lock PROVE Even(B, x)
    <2>1. {t \in Thread : B.sl[t] = x} = {t \in Thread : A.sl[t] = x}
      OBVIOUS
    <2>2. Num(B.sl, x) = Num(A.sl, x)
      BY <2>1 DEF Num
    <2>3. Even(A, x)
      BY DEF Balanced
    <2> QED
      BY <2>2, <2>3 DEF Even
  <1> QED
    BY <1>1, <1>2 DEF Balanced

(* V of a lock, by one who owes it.                                        *)
LEMMA PaysOwed ==
  ASSUME NEW Q, Settled(Q), NEW pl, NEW mv, Orderly(Q, pl, mv),
         NEW t \in Thread, Awake(Q, t), NEW l \in Lock, NEW N, N = V(Q, l, 1),
         NEW A, NEW B, Balanced(A), A.sl = Q.sleep, A.v = Q.value, A.h = Hold(Q, pl, mv),
         B.sl = N.sleep, B.v = N.value, B.h = Hold(N, pl, mv),
         Leaves(A.o, B.o, t, l), B.sp = A.sp, B.w = A.w, B.k = A.k
  PROVE  Settled(N) /\ Orderly(N, pl, mv) /\ Awake(N, t) /\ Balanced(B)
  <1>1. l \in Semaphore /\ None \notin Lock
    BY LocksAreSemaphores
  <1>2. /\ Settled(N)
        /\ N.value = [Q.value EXCEPT ![l] = Q.value[l] + 1]
        /\ ~(Q.value[l] < 0) => N.sleep = Q.sleep
        /\ Q.value[l] < 0 => \E u \in Thread : /\ Q.sleep[u] = l
                                               /\ N.sleep = [Q.sleep EXCEPT ![u] = None]
    <2>1. /\ Settled(N)
          /\ N.value = [Q.value EXCEPT ![l] = Q.value[l] + 1]
          /\ ~(Q.value[l] < 0) => N.sleep = Q.sleep
          /\ Q.value[l] < 0 =>
               /\ Q.ring[l][1] \in Thread /\ Q.sleep[Q.ring[l][1]] = l
               /\ N.sleep = [Q.sleep EXCEPT ![Q.ring[l][1]] = None]
      BY <1>1, VOne, SMTT(30)
    <2> QED
      BY <2>1, Zenon
  <1>3. CASE ~(Q.value[l] < 0)
    <2>1. N.sleep = Q.sleep
      BY <1>2, <1>3
    <2>2. B.h = A.h /\ B.sl = A.sl /\ Orderly(N, pl, mv) /\ Awake(N, t)
      BY <2>1 DEF Hold, Orderly, Awake
    <2>3. B.v = [A.v EXCEPT ![l] = A.v[l] + 1] /\ ~(A.v[l] < 0)
      BY <1>2, <1>3
    <2>4. Balanced(B)
      BY <2>2, <2>3, PaysUnit
    <2> QED
      BY <1>2, <2>2, <2>4
  <1>4. CASE Q.value[l] < 0
    <2>1. PICK u \in Thread : Q.sleep[u] = l /\ N.sleep = [Q.sleep EXCEPT ![u] = None]
      BY <1>2, <1>4
    <2>2. Q.sleep \in [Thread -> Semaphore \cup {None}]
      BY SettledTypes
    <2>3. \A x \in Thread : N.sleep[x] = IF x = u THEN None ELSE Q.sleep[x]
      BY <2>1, <2>2
    <2>4. \A x \in Thread : Proper(Q.sleep[x], pl[x], mv[x])
      BY DEF Orderly
    <2>5. Orderly(N, pl, mv) /\ Awake(N, t)
      BY <1>1, <2>1, <2>3, <2>4, WokenHolds DEF Orderly, Awake
    <2>6. Leaves(A.sl, B.sl, u, l)
      BY <2>1 DEF Leaves
    <2>7. Joins(A.h, B.h, u, l)
      <3>1. Holds(Q.sleep[u], pl[u], mv[u]) = None /\ Holds(N.sleep[u], pl[u], mv[u]) = l
        BY <2>1, <2>3, <2>4, WokenHolds
      <3>2. \A x \in Thread : x # u =>
              Holds(N.sleep[x], pl[x], mv[x]) = Holds(Q.sleep[x], pl[x], mv[x])
        BY <2>3
      <3> QED
        BY <3>1, <3>2 DEF Joins, Hold
    <2>8. B.v = [A.v EXCEPT ![l] = A.v[l] + 1] /\ A.v[l] < 0
      BY <1>2, <1>4
    <2>9. Balanced(B)
      BY <2>6, <2>7, <2>8, PaysSleeper
    <2> QED
      BY <1>2, <2>5, <2>9
  <1> QED
    BY <1>3, <1>4

(* P of a lock, by one who called for it.                                  *)
LEMMA GetsOrSleeps ==
  ASSUME NEW Q, Settled(Q), NEW t \in Thread, Awake(Q, t), NEW l \in Lock,
         NEW N, N = PSleeping(Q, t, l),
         NEW A, NEW B, Balanced(A), A.sl = Q.sleep, A.v = Q.value, A.h[t] = None,
         B.sl = N.sleep, B.v = N.value,
         B.h = IF Q.value[l] > 0 THEN [A.h EXCEPT ![t] = l] ELSE A.h,
         Leaves(A.w, B.w, t, l), B.sp = A.sp, B.o = A.o, B.k = A.k
  PROVE  /\ Settled(N) /\ Balanced(B)
         /\ Q.value[l] > 0 => N.sleep = Q.sleep
         /\ ~(Q.value[l] > 0) => N.sleep = [Q.sleep EXCEPT ![t] = l]
  <1>1. l \in Semaphore
    BY LocksAreSemaphores
  <1>2. /\ Settled(N)
        /\ N.value = [Q.value EXCEPT ![l] = Q.value[l] - 1]
        /\ Q.value[l] > 0 => N.sleep = Q.sleep
        /\ ~(Q.value[l] > 0) => N.sleep = [Q.sleep EXCEPT ![t] = l]
    BY <1>1, PSettled, SMTT(30)
  <1>3. B.v = [A.v EXCEPT ![l] = A.v[l] - 1]
    BY <1>2
  <1>4. CASE Q.value[l] > 0
    <2>1. Joins(A.h, B.h, t, l) /\ B.sl = A.sl /\ A.v[l] > 0
      BY <1>2, <1>4 DEF Joins
    <2>2. Balanced(B)
      BY <1>3, <2>1, GetsUnit
    <2> QED
      BY <1>2, <2>2
  <1>5. CASE ~(Q.value[l] > 0)
    <2>1. Joins(A.sl, B.sl, t, l) /\ B.h = A.h /\ ~(A.v[l] > 0)
      BY <1>2, <1>5 DEF Joins, Awake
    <2>2. Balanced(B)
      BY <1>3, <2>1, Sleeps
    <2> QED
      BY <1>2, <2>2
  <1> QED
    BY <1>4, <1>5

-----------------------------------------------------------------------------
(* The actions.  What the invariant says of one thread and of the books.   *)
Movements == [from : Lock \cup {None}, to : Lock \cup {None},
              r1 : Lock \cup {None}, r3 : Lock \cup {None}]

LEMMA Facts ==
  ASSUME IInv
  PROVE  /\ Settled(q) /\ q.sleep \in [Thread -> Semaphore \cup {None}]
         /\ q.value \in [Semaphore -> Int]
         /\ spin \in [Lock -> Int] /\ place \in [Thread -> Places]
         /\ move \in [Thread -> Movements] /\ kicks \in Nat
         /\ \A t \in Thread : Proper(q.sleep[t], place[t], move[t])
         /\ Orderly(q, place, move)
         /\ Balanced(Books(q, spin, place, move, kicks))
  BY SettledTypes DEF IInv, TypeOK, Orderly, Movements

LEMMA Fields ==
  ASSUME NEW B, NEW Q, NEW sp, NEW pl, NEW mv, NEW k, B = Books(Q, sp, pl, mv, k)
  PROVE  /\ B.sp = sp /\ B.h = Hold(Q, pl, mv) /\ B.w = Want(pl, mv) /\ B.o = Owe(mv)
         /\ B.sl = Q.sleep /\ B.v = Q.value /\ B.k = k
  BY DEF Books

LEMMA Movement ==
  ASSUME NEW m \in Movements, NEW r \in Lock \cup {None}
  PROVE  /\ \A n : n = [m EXCEPT !.r1 = r] =>
              n \in Movements /\ n.from = m.from /\ n.to = m.to /\ n.r1 = r /\ n.r3 = m.r3
         /\ \A n : n = [m EXCEPT !.r3 = r] =>
              n \in Movements /\ n.from = m.from /\ n.to = m.to /\ n.r1 = m.r1 /\ n.r3 = r
  BY DEF Movements

(* A step that changes neither what a thread has nor what it wants or owes.*)
LEMMA QuietKeeps ==
  ASSUME IInv, TypeOK', NEW t \in Thread, NEW p \in Places, NEW m \in Movements,
         q' = q, spin' = spin, kicks' = kicks,
         place' = [place EXCEPT ![t] = p], move' = [move EXCEPT ![t] = m],
         Proper(q.sleep[t], p, m),
         Holds(q.sleep[t], p, m) = Holds(q.sleep[t], place[t], move[t]),
         place[t] # "call", p # "call", m.r1 = move[t].r1
  PROVE  IInv'
  <1>1. /\ \A u \in Thread : place'[u] = IF u = t THEN p ELSE place[u]
        /\ \A u \in Thread : move'[u] = IF u = t THEN m ELSE move[u]
    BY Facts
  <1>2. Hold(q, place', move') = Hold(q, place, move)
    BY <1>1 DEF Hold
  <1>3. Want(place', move') = Want(place, move)
    BY <1>1 DEF Want
  <1>4. Owe(move') = Owe(move)
    BY <1>1 DEF Owe
  <1>5. Books(q', spin', place', move', kicks') = Books(q, spin, place, move, kicks)
    BY <1>2, <1>3, <1>4 DEF Books
  <1>6. Orderly(q, place', move')
    BY <1>1, Facts DEF Orderly
  <1> QED
    BY <1>5, <1>6, Facts DEF IInv

LEMMA GoKeeps ==
  ASSUME IInv, NEW t \in Thread, NEW w \in {"out", "in", "leave", "device"}, At(t, w),
         NEW from \in Lock \cup {None}, NEW to \in Lock \cup {None},
         from = IF w = "out" THEN None ELSE IF w = "device" THEN Device ELSE Memory,
         from = None => to \in Lock, Go(t, from, to), busy' \in Thread \cup {None}
  PROVE  IInv'
  <1>1. PICK m : m = Move(from, to)
    OBVIOUS
  <1>2. m \in Movements /\ m.from = from /\ m.to = to /\ m.r1 = None /\ m.r3 = None
    BY <1>1 DEF Move, Movements
  <1>3. PICK p : p = IF from = None THEN "lock" ELSE "unlock"
    OBVIOUS
  <1>4. /\ q' = q /\ spin' = spin /\ kicks' = kicks /\ head' = head /\ next' = next
        /\ place' = [place EXCEPT ![t] = p] /\ move' = [move EXCEPT ![t] = m]
    BY <1>1, <1>3 DEF Go
  <1>5. q.sleep[t] = None /\ place[t] = w
    BY DEF At, Awake
  <1>6. p \in Places /\ p # "call" /\ w # "call"
    BY <1>3 DEF Places
  <1>7. TypeOK'
    BY <1>2, <1>4, <1>6 DEF IInv, TypeOK, Movements
  <1>8. Memory # None /\ Device # None /\ None \notin Lock /\ Memory \in Lock /\ Device \in Lock
    BY LocksAreSemaphores
  <1>9. Proper(None, p, m)
    BY <1>2, <1>3, <1>8 DEF Proper
  <1>10. Proper(None, w, move[t])
    BY <1>5, Facts
  <1>11. Holds(None, p, m) = Holds(None, w, move[t]) /\ move[t].r1 = None
    BY <1>2, <1>3, <1>8, <1>10 DEF Holds, Proper
  <1> QED
    BY <1>2, <1>4, <1>5, <1>6, <1>7, <1>9, <1>11, QuietKeeps

LEMMA WaitAtBlockKeeps ==
  ASSUME IInv, NEW t \in Thread, WaitAtBlock(t) \/ WakeupBlock(t)
  PROVE  IInv'
  <1>1. PICK p \in {"wait", "wakeup"} :
          /\ q' = q /\ spin' = spin /\ kicks' = kicks /\ move' = move
          /\ place' = [place EXCEPT ![t] = p]
    BY DEF WaitAtBlock, WakeupBlock
  <1>2. place[t] = "in" /\ q.sleep[t] = None
    BY DEF WaitAtBlock, WakeupBlock, At, Awake
  <1>3. move[t] \in Movements /\ move' = [move EXCEPT ![t] = move[t]] /\ p \in Places
    BY <1>1, Facts DEF Places
  <1>4. head' \in Thread \cup {None} /\ busy' \in Thread \cup {None}
        /\ next' \in [Thread -> Thread \cup {None}]
    BY DEF WaitAtBlock, WakeupBlock, Chained, IInv, TypeOK
  <1>5. TypeOK'
    BY <1>1, <1>3, <1>4 DEF IInv, TypeOK
  <1>6. None \notin Lock
    BY LocksAreSemaphores
  <1>7. Proper(None, "in", move[t])
    BY <1>2, Facts
  <1>8. Proper(None, p, move[t]) /\ Holds(None, p, move[t]) = Holds(None, "in", move[t])
    BY <1>6, <1>7 DEF Proper, Holds
  <1> QED
    BY <1>1, <1>2, <1>3, <1>5, <1>8, QuietKeeps

LEMMA UnlockKeeps ==
  ASSUME IInv, NEW t \in Thread, Unlock(t)
  PROVE  IInv'
  <1>1. PICK l, r, p : /\ l = move[t].from
                       /\ r = IF HasWaiters(spin[l]) THEN l ELSE None
                       /\ p = IF move[t].to = None THEN "call" ELSE "lock"
    OBVIOUS
  <1>2. /\ place[t] = "unlock" /\ q.sleep[t] = None
        /\ q' = q /\ kicks' = kicks /\ head' = head /\ next' = next /\ busy' = busy
        /\ spin' = [spin EXCEPT ![l] = spin[l] + 1]
        /\ place' = [place EXCEPT ![t] = p]
        /\ move' = [move EXCEPT ![t] = [move[t] EXCEPT !.r1 = r]]
    BY <1>1 DEF Unlock, At, Awake
  <1>3. move[t] \in Movements /\ Proper(None, "unlock", move[t]) /\ None \notin Lock
    BY <1>2, Facts, LocksAreSemaphores
  <1>4. l \in Lock /\ move[t].r1 = None /\ move[t].r3 = None /\ r \in Lock \cup {None}
    BY <1>1, <1>3 DEF Proper
  <1>5. PICK m \in Movements : /\ m = [move[t] EXCEPT !.r1 = r]
                               /\ m.to = move[t].to /\ m.r1 = r /\ m.r3 = None
    <2>0. PICK m0 \in Movements : m0 = move[t]
      BY <1>3
    <2>1. PICK m : m = [m0 EXCEPT !.r1 = r]
      OBVIOUS
    <2>2. /\ m \in Movements /\ m.to = m0.to /\ m.r1 = r
          /\ m.r3 = m0.r3
      BY <1>4, <2>0, <2>1, Movement
    <2> QED
      BY <1>3, <1>4, <2>0, <2>1, <2>2
  <1>6. /\ \A u \in Thread : place'[u] = IF u = t THEN p ELSE place[u]
        /\ \A u \in Thread : move'[u] = IF u = t THEN m ELSE move[u]
    BY <1>2, <1>5, Facts
  <1>7. TypeOK'
    <2>1. spin' \in [Lock -> Int]
      BY <1>2, <1>4, Facts
    <2>2. place' \in [Thread -> Places] /\ move' \in [Thread -> Movements]
      BY <1>1, <1>2, <1>5, Facts DEF Places
    <2> QED
      BY <1>2, <2>1, <2>2 DEF IInv, TypeOK, Movements
  <1>8. Proper(None, p, m)
    BY <1>1, <1>3, <1>5 DEF Proper, Movements
  <1>9. Orderly(q', place', move')
    BY <1>2, <1>6, <1>8, Facts DEF Orderly
  <1>10. PICK A, B : /\ A = Books(q, spin, place, move, kicks)
                     /\ B = Books(q', spin', place', move', kicks')
    OBVIOUS
  <1>11. /\ A.sp = spin /\ A.h = Hold(q, place, move) /\ A.w = Want(place, move)
         /\ A.o = Owe(move) /\ A.sl = q.sleep /\ A.v = q.value /\ A.k = kicks
    BY <1>10, Fields
  <1>12. /\ B.sp = spin' /\ B.h = Hold(q', place', move') /\ B.w = Want(place', move')
         /\ B.o = Owe(move') /\ B.sl = q'.sleep /\ B.v = q'.value /\ B.k = kicks'
    BY <1>10, Fields
  <1>13. Leaves(A.h, B.h, t, l)
    <2>1. Holds(q.sleep[t], place[t], move[t]) = l /\ Holds(q'.sleep[t], place'[t], move'[t]) = None
      BY <1>1, <1>2, <1>5, <1>6 DEF Holds
    <2>2. \A u \in Thread : u # t =>
            Holds(q'.sleep[u], place'[u], move'[u]) = Holds(q.sleep[u], place[u], move[u])
      BY <1>2, <1>6
    <2> QED
      BY <1>11, <1>12, <2>1, <2>2 DEF Leaves, Hold
  <1>14. B.w = A.w
    BY <1>2, <1>5, <1>6, <1>11, <1>12 DEF Want
  <1>15. B.o = [A.o EXCEPT ![t] = r] /\ A.o[t] = None
    <2>1. \A u \in Thread : move'[u].r1 = IF u = t THEN r ELSE move[u].r1
      BY <1>5, <1>6
    <2> QED
      BY <1>4, <1>11, <1>12, <2>1 DEF Owe
  <1>16. B.sp = [A.sp EXCEPT ![l] = A.sp[l] + 1] /\ B.sl = A.sl /\ B.v = A.v /\ B.k = A.k
    BY <1>2, <1>11, <1>12
  <1>17. Balanced(A)
    BY <1>10, Facts
  <1>18. CASE HasWaiters(spin[l])
    <2>1. Joins(A.o, B.o, t, l) /\ A.sp[l] < 0
      BY <1>1, <1>11, <1>15, <1>18 DEF Joins, HasWaiters
    <2>2. Balanced(B)
      BY <1>4, <1>13, <1>14, <1>16, <1>17, <2>1, GivesOwing
    <2> QED
      BY <1>2, <1>7, <1>9, <1>10, <2>2, Facts DEF IInv
  <1>19. CASE ~HasWaiters(spin[l])
    <2>1. B.o = A.o
      BY <1>1, <1>11, <1>15, <1>19 DEF Owe
    <2>2. Balanced(B)
      BY <1>4, <1>13, <1>14, <1>16, <1>17, <2>1, GivesFree
    <2> QED
      BY <1>2, <1>7, <1>9, <1>10, <2>2, Facts DEF IInv
  <1> QED
    BY <1>18, <1>19

LEMMA LockItKeeps ==
  ASSUME IInv, NEW t \in Thread, LockIt(t)
  PROVE  IInv'
  <1>1. PICK l, r : l = move[t].to /\ r = IF Taken(spin[l]) THEN l ELSE None
    OBVIOUS
  <1>2. /\ place[t] = "lock" /\ q.sleep[t] = None
        /\ q' = q /\ kicks' = kicks /\ head' = head /\ next' = next /\ busy' = busy
        /\ spin' = [spin EXCEPT ![l] = spin[l] - 1]
        /\ place' = [place EXCEPT ![t] = "call"]
        /\ move' = [move EXCEPT ![t] = [move[t] EXCEPT !.r3 = r]]
    BY <1>1 DEF LockIt, At, Awake
  <1>3. move[t] \in Movements /\ Proper(None, "lock", move[t]) /\ None \notin Lock
    BY <1>2, Facts, LocksAreSemaphores
  <1>4. l \in Lock /\ move[t].r3 = None /\ r \in Lock \cup {None}
    BY <1>1, <1>3 DEF Proper
  <1>5. PICK m \in Movements : /\ m = [move[t] EXCEPT !.r3 = r]
                               /\ m.to = l /\ m.r1 = move[t].r1 /\ m.r3 = r
    <2>0. PICK m0 \in Movements : m0 = move[t]
      BY <1>3
    <2>1. PICK m : m = [m0 EXCEPT !.r3 = r]
      OBVIOUS
    <2>2. /\ m \in Movements /\ m.to = m0.to /\ m.r3 = r
          /\ m.r1 = m0.r1
      BY <1>4, <2>0, <2>1, Movement
    <2> QED
      BY <1>1, <1>3, <1>4, <2>0, <2>1, <2>2
  <1>6. /\ \A u \in Thread : place'[u] = IF u = t THEN "call" ELSE place[u]
        /\ \A u \in Thread : move'[u] = IF u = t THEN m ELSE move[u]
    BY <1>2, <1>5, Facts
  <1>7. TypeOK'
    <2>1. spin' \in [Lock -> Int]
      BY <1>2, <1>4, Facts
    <2>2. place' \in [Thread -> Places] /\ move' \in [Thread -> Movements]
      BY <1>2, <1>5, Facts DEF Places
    <2> QED
      BY <1>2, <2>1, <2>2 DEF IInv, TypeOK, Movements
  <1>8. Proper(None, "call", m)
    BY <1>1, <1>3, <1>5 DEF Proper
  <1>9. Orderly(q', place', move')
    BY <1>2, <1>6, <1>8, Facts DEF Orderly
  <1>10. PICK A, B : /\ A = Books(q, spin, place, move, kicks)
                     /\ B = Books(q', spin', place', move', kicks')
    OBVIOUS
  <1>11. /\ A.sp = spin /\ A.h = Hold(q, place, move) /\ A.w = Want(place, move)
         /\ A.o = Owe(move) /\ A.sl = q.sleep /\ A.v = q.value /\ A.k = kicks
    BY <1>10, Fields
  <1>12. /\ B.sp = spin' /\ B.h = Hold(q', place', move') /\ B.w = Want(place', move')
         /\ B.o = Owe(move') /\ B.sl = q'.sleep /\ B.v = q'.value /\ B.k = kicks'
    BY <1>10, Fields
  <1>13. B.o = A.o
    <2>1. \A u \in Thread : move'[u].r1 = move[u].r1
      BY <1>5, <1>6
    <2> QED
      BY <1>11, <1>12, <2>1 DEF Owe
  <1>14. A.h[t] = None /\ A.w[t] = None
    BY <1>2, <1>11 DEF Hold, Want, Holds
  <1>15. \A u \in Thread : u # t =>
            Holds(q'.sleep[u], place'[u], move'[u]) = Holds(q.sleep[u], place[u], move[u])
    BY <1>2, <1>6
  <1>16. B.sp = [A.sp EXCEPT ![l] = A.sp[l] - 1] /\ B.sl = A.sl /\ B.v = A.v /\ B.k = A.k
    BY <1>2, <1>11, <1>12
  <1>17. Balanced(A)
    BY <1>10, Facts
  <1>18. CASE Taken(spin[l])
    <2>1. Holds(q'.sleep[t], place'[t], move'[t]) = None
      <3>1. q'.sleep[t] = None /\ place'[t] = "call" /\ move'[t] = m /\ m.r3 # None
        BY <1>1, <1>2, <1>3, <1>4, <1>5, <1>6, <1>18
      <3> QED
        BY <3>1 DEF Holds
    <2>2. B.h = A.h
      BY <1>11, <1>12, <1>14, <1>15, <2>1 DEF Hold
    <2>3. Joins(A.w, B.w, t, l)
      <3>1. \A u \in Thread : IF u = t THEN place'[u] = "call" /\ move'[u].r3 = l
                              ELSE place'[u] = place[u] /\ move'[u] = move[u]
        BY <1>1, <1>5, <1>6, <1>18
      <3> QED
        BY <1>11, <1>12, <1>14, <3>1 DEF Joins, Want
    <2>4. Balanced(B)
      BY <1>4, <1>13, <1>16, <1>17, <2>2, <2>3, TakesTaken
    <2> QED
      BY <1>2, <1>7, <1>9, <1>10, <2>4, Facts DEF IInv
  <1>19. CASE ~Taken(spin[l])
    <2>1. Holds(q'.sleep[t], place'[t], move'[t]) = l
      BY <1>1, <1>2, <1>3, <1>4, <1>5, <1>6, <1>19 DEF Holds
    <2>2. Joins(A.h, B.h, t, l)
      BY <1>11, <1>12, <1>14, <1>15, <2>1 DEF Hold, Joins
    <2>3. B.w = A.w
      <3>1. \A u \in Thread : IF u = t THEN place'[u] = "call" /\ move'[u].r3 = None
                              ELSE place'[u] = place[u] /\ move'[u] = move[u]
        BY <1>1, <1>5, <1>6, <1>19
      <3> QED
        BY <1>2, <1>11, <1>12, <3>1 DEF Want
    <2>4. A.sp[l] > 0
      BY <1>4, <1>11, <1>19, Facts DEF Taken
    <2>5. Balanced(B)
      BY <1>4, <1>13, <1>16, <1>17, <2>2, <2>3, <2>4, TakesFree
    <2> QED
      BY <1>2, <1>7, <1>9, <1>10, <2>5, Facts DEF IInv
  <1> QED
    BY <1>18, <1>19

(* The books between the two parts of the call, when the V is made.        *)
LEMMA CallVKeeps ==
  ASSUME NEW Q, Settled(Q), NEW pl, NEW mv, Orderly(Q, pl, mv), NEW t \in Thread, Awake(Q, t),
         NEW r \in Lock \cup {None}, NEW N, N = CallV(Q, r),
         NEW A, NEW B, Balanced(A), A.sl = Q.sleep, A.v = Q.value, A.h = Hold(Q, pl, mv),
         A.o[t] = r, B.sp = A.sp, B.h = Hold(N, pl, mv), B.w = A.w,
         B.o = [A.o EXCEPT ![t] = None], B.sl = N.sleep, B.v = N.value, B.k = A.k
  PROVE  Settled(N) /\ Orderly(N, pl, mv) /\ Awake(N, t) /\ Balanced(B)
  <1>1. None \notin Lock /\ Points(A.o)
    BY LocksAreSemaphores DEF Balanced, Typed
  <1>2. CASE r = None
    <2>1. N = Q
      BY <1>2 DEF CallV
    <2>2. B.o = A.o
      BY <1>1, <1>2 DEF Points
    <2>3. Typed(B)
      BY <2>1, <2>2 DEF Balanced, Typed
    <2>4. \A l \in Lock : Even(A, l) => Even(B, l)
      BY <2>1, <2>2 DEF Even
    <2>5. Balanced(B)
      BY <2>3, <2>4 DEF Balanced
    <2> QED
      BY <2>1, <2>5
  <1>3. CASE r \in Lock
    <2>1. N = V(Q, r, 1)
      BY <1>1, <1>3 DEF CallV
    <2>2. Leaves(A.o, B.o, t, r)
      BY DEF Leaves
    <2> QED
      BY <1>3, <2>1, <2>2, PaysOwed
  <1> QED
    BY <1>2, <1>3

LEMMA CallKeeps ==
  ASSUME IInv, NEW t \in Thread, Call(t)
  PROVE  IInv'
  <1>1. PICK m : m = move[t]
    OBVIOUS
  <1>2. PICK N, p : N = CallV(q, m.r1) /\ p = Inside(m.to)
    OBVIOUS
  <1>3. /\ place[t] = "call" /\ q.sleep[t] = None /\ Awake(q, t)
        /\ q' = CallP(N, t, m.r3)
        /\ spin' = spin /\ kicks' = kicks /\ head' = head /\ next' = next /\ busy' = busy
        /\ place' = [place EXCEPT ![t] = p]
        /\ move' = [move EXCEPT ![t] = NoMove]
    BY <1>1, <1>2 DEF Call, At, Awake
  <1>4. /\ m \in Movements /\ m.to \in Lock \cup {None} /\ m.r1 \in Lock \cup {None}
        /\ m.r3 \in {None, m.to}
    <2>1. m \in Movements /\ Proper(None, "call", m)
      BY <1>1, <1>3, Facts
    <2> QED
      BY <2>1 DEF Proper, Movements
  <1>5. /\ None \notin Lock /\ Memory \in Lock /\ Device \in Lock /\ Memory # Device
        /\ \A l \in Lock : l = Memory \/ l = Device
    BY LocksAreSemaphores
  <1>6. NoMove \in Movements /\ NoMove.r1 = None /\ NoMove.r3 = None
    BY DEF NoMove, Move, Movements
  <1>7. /\ \A u \in Thread : place'[u] = IF u = t THEN p ELSE place[u]
        /\ \A u \in Thread : move'[u] = IF u = t THEN NoMove ELSE move[u]
    BY <1>3, Facts
  <1>8. p \in {"in", "device", "out"}
    BY <1>2 DEF Inside
  <1>9. PICK A, B : /\ A = Books(q, spin, place, move, kicks)
                    /\ B = Books(q', spin', place', move', kicks')
    OBVIOUS
  <1>10. /\ A.sp = spin /\ A.h = Hold(q, place, move) /\ A.w = Want(place, move)
         /\ A.o = Owe(move) /\ A.sl = q.sleep /\ A.v = q.value /\ A.k = kicks
    BY <1>9, Fields
  <1>11. /\ B.sp = spin' /\ B.h = Hold(q', place', move') /\ B.w = Want(place', move')
         /\ B.o = Owe(move') /\ B.sl = q'.sleep /\ B.v = q'.value /\ B.k = kicks'
    BY <1>9, Fields
  <1>12. PICK M : M = [sp |-> A.sp, h |-> Hold(N, place, move), w |-> A.w,
                       o |-> [A.o EXCEPT ![t] = None], sl |-> N.sleep, v |-> N.value,
                       k |-> A.k]
    OBVIOUS
  <1>13. /\ M.sp = A.sp /\ M.h = Hold(N, place, move) /\ M.w = A.w
         /\ M.o = [A.o EXCEPT ![t] = None] /\ M.sl = N.sleep /\ M.v = N.value /\ M.k = A.k
    BY <1>12
  <1>14. Settled(N) /\ Orderly(N, place, move) /\ Awake(N, t) /\ Balanced(M)
    <2>1. A.o[t] = m.r1
      BY <1>1, <1>10 DEF Owe
    <2>2. Balanced(A) /\ Settled(q) /\ Orderly(q, place, move)
      BY <1>9, Facts
    <2> QED
      BY <1>2, <1>3, <1>4, <1>10, <1>13, <2>1, <2>2, CallVKeeps
  <1>15. /\ N.sleep[t] = None /\ \A u \in Thread : Proper(N.sleep[u], place[u], move[u])
         /\ N.sleep \in [Thread -> Semaphore \cup {None}]
    BY <1>14, SettledTypes DEF Awake, Orderly
  <1>16. B.o = M.o
    <2>1. \A u \in Thread : move'[u].r1 = IF u = t THEN None ELSE move[u].r1
      BY <1>6, <1>7
    <2> QED
      BY <1>10, <1>11, <1>13, <2>1 DEF Owe
  <1>17. \A u \in Thread : Want(place', move')[u] = IF u = t THEN None ELSE Want(place, move)[u]
    BY <1>6, <1>7, <1>8 DEF Want
  <1>18. B.w = [M.w EXCEPT ![t] = None] /\ M.w[t] = m.r3
    BY <1>1, <1>3, <1>10, <1>11, <1>13, <1>17 DEF Want
  (* What is left to show of the state after the P.                        *)
  <1>19. ASSUME Settled(q'), Balanced(B), q'.sleep[t] = None \/ (q'.sleep[t] = m.to /\ m.to \in Lock),
                \A u \in Thread : u # t => q'.sleep[u] = N.sleep[u]
         PROVE  IInv'
    <2>1. TypeOK'
      <3>1. q' \in SemaphoreState
        BY <1>19, SettledTypes
      <3>2. place' \in [Thread -> Places] /\ move' \in [Thread -> Movements]
        BY <1>3, <1>6, <1>8, Facts DEF Places
      <3> QED
        BY <1>3, <3>1, <3>2 DEF IInv, TypeOK, Movements
    <2>2. Proper(q'.sleep[t], p, NoMove)
      BY <1>2, <1>5, <1>6, <1>8, <1>19 DEF Proper
    <2>3. Orderly(q', place', move')
      BY <1>7, <1>15, <1>19, <2>2 DEF Orderly
    <2> QED
      BY <1>9, <1>19, <2>1, <2>3 DEF IInv
  <1>20. ASSUME \A u \in Thread : u # t => q'.sleep[u] = N.sleep[u]
         PROVE  \A u \in Thread : u # t =>
                  Holds(q'.sleep[u], place'[u], move'[u]) = Holds(N.sleep[u], place[u], move[u])
    BY <1>7, <1>20
  <1>21. CASE m.r3 = None
    <2>1. q' = N
      BY <1>3, <1>21 DEF CallP
    <2>2. Holds(None, "call", m) = Holds(None, p, NoMove)
      BY <1>2, <1>4, <1>5, <1>21 DEF Holds, Inside
    <2>3. B.h = M.h
      BY <1>1, <1>3, <1>7, <1>11, <1>13, <1>15, <1>20, <2>1, <2>2 DEF Hold
    <2>4. B.w = M.w
      BY <1>10, <1>13, <1>18, <1>21 DEF Want
    <2>5. B.sp = M.sp /\ B.k = M.k /\ B.sl = M.sl /\ B.v = M.v
      BY <1>3, <1>10, <1>11, <1>13, <2>1
    <2>6. Typed(B)
      BY <1>14, <1>16, <2>3, <2>4, <2>5 DEF Balanced, Typed
    <2>7. \A l \in Lock : Even(M, l) => Even(B, l)
      BY <1>16, <2>3, <2>4, <2>5 DEF Even
    <2>8. Balanced(B)
      BY <1>14, <2>6, <2>7 DEF Balanced
    <2> QED
      BY <1>14, <1>15, <1>19, <2>1, <2>8
  <1>22. CASE m.r3 \in Lock
    <2>1. PICK l \in Lock : l = m.r3 /\ l = m.to /\ l # None
      BY <1>4, <1>5, <1>22
    <2>2. q' = PSleeping(N, t, l)
      BY <1>3, <2>1 DEF CallP, PSleeping
    <2>3. Leaves(M.w, B.w, t, l)
      BY <1>18, <2>1 DEF Leaves
    <2>4. M.h[t] = None
      BY <1>1, <1>3, <1>13, <1>15, <2>1 DEF Hold, Holds
    <2>5. /\ N.value[l] > 0 => q'.sleep = N.sleep
          /\ ~(N.value[l] > 0) => q'.sleep = [N.sleep EXCEPT ![t] = l]
      <3>1. l \in Semaphore
        BY <2>1, LocksAreSemaphores
      <3>2. PICK Z : Z = q'
        OBVIOUS
      <3>3. Settled(N) /\ Awake(N, t) /\ Z = PSleeping(N, t, l)
        BY <1>14, <2>2, <3>2
      <3>4. /\ Settled(Z) /\ Z.value = [N.value EXCEPT ![l] = N.value[l] - 1]
            /\ N.value[l] > 0 => Z.sleep = N.sleep
            /\ ~(N.value[l] > 0) => Z.sleep = [N.sleep EXCEPT ![t] = l]
        BY <3>1, <3>3, PSettled
      <3> QED
        BY <3>2, <3>4
    <2>6. \A u \in Thread : u # t => q'.sleep[u] = N.sleep[u]
      BY <1>15, <2>5
    <2>7. N.value[l] > 0 => Holds(q'.sleep[t], place'[t], move'[t]) = l
      BY <1>2, <1>5, <1>7, <1>15, <2>1, <2>5 DEF Holds, Inside
    <2>8. ~(N.value[l] > 0) => Holds(q'.sleep[t], place'[t], move'[t]) = None
      BY <1>15, <2>1, <2>5 DEF Holds
    <2>9. B.h = IF N.value[l] > 0 THEN [M.h EXCEPT ![t] = l] ELSE M.h
      BY <1>11, <1>13, <1>20, <2>4, <2>6, <2>7, <2>8 DEF Hold
    <2>10. Settled(q') /\ Balanced(B)
      <3>1. B.sp = M.sp /\ B.k = M.k /\ B.sl = q'.sleep /\ B.v = q'.value
        BY <1>3, <1>10, <1>11, <1>13
      <3>2. PICK Z : Z = q'
        OBVIOUS
      <3>3. Settled(N) /\ Awake(N, t) /\ Z = PSleeping(N, t, l) /\ Balanced(M)
        BY <1>14, <2>2, <3>2
      <3>4. B.sl = Z.sleep /\ B.v = Z.value /\ B.o = M.o /\ M.sl = N.sleep /\ M.v = N.value
        BY <1>13, <1>16, <3>1, <3>2
      <3>5. /\ Settled(Z) /\ Balanced(B)
            /\ N.value[l] > 0 => Z.sleep = N.sleep
            /\ ~(N.value[l] > 0) => Z.sleep = [N.sleep EXCEPT ![t] = l]
        BY <2>3, <2>4, <2>9, <3>1, <3>3, <3>4, GetsOrSleeps
      <3> QED
        BY <3>2, <3>5
    <2> QED
      BY <1>15, <1>19, <2>1, <2>5, <2>6, <2>10
  <1> QED
    BY <1>4, <1>21, <1>22

(* Giving the memory up and sleeping: the lock is given back, the V made,  *)
(* and the P is at no lock.                                                *)
LEMMA GiveUpKeeps ==
  ASSUME IInv, NEW t \in Thread, GiveUpAndSleep(t)
  PROVE  IInv'
  <1>1. PICK r, N, s : /\ r = IF HasWaiters(spin[Memory]) THEN Memory ELSE None
                       /\ N = CallV(q, r) /\ s = Own[t]
    OBVIOUS
  <1>2. /\ place[t] = "wait" /\ q.sleep[t] = None /\ Awake(q, t)
        /\ q' = PSleeping(N, t, s)
        /\ kicks' = kicks /\ head' = head /\ next' = next /\ busy' = busy
        /\ spin' = [spin EXCEPT ![Memory] = spin[Memory] + 1]
        /\ place' = [place EXCEPT ![t] = "woken"] /\ move' = move
    BY <1>1 DEF GiveUpAndSleep, At, Awake, PSleeping
  <1>3. None \notin Lock /\ Memory \in Lock /\ s \in Semaphore /\ s \notin Lock
        /\ r \in Lock \cup {None}
    BY <1>1, LocksAreSemaphores
  <1>4. \A u \in Thread : place'[u] = IF u = t THEN "woken" ELSE place[u]
    BY <1>2, Facts
  <1>5. move[t].r1 = None /\ Proper(None, "wait", move[t])
    <2>1. Proper(None, "wait", move[t])
      BY <1>2, Facts
    <2> QED
      BY <2>1 DEF Proper
  <1>6. \A x \in Semaphore : x \notin Lock => Proper(x, "woken", move[t])
    BY <1>5 DEF Proper
  <1>7. Proper(None, "woken", move[t])
    BY <1>3, <1>5 DEF Proper
  <1>8. Orderly(q, place', move)
    BY <1>2, <1>4, <1>7, Facts DEF Orderly
  <1>9. PICK A, B : /\ A = Books(q, spin, place, move, kicks)
                    /\ B = Books(q', spin', place', move', kicks')
    OBVIOUS
  <1>10. /\ A.sp = spin /\ A.h = Hold(q, place, move) /\ A.w = Want(place, move)
         /\ A.o = Owe(move) /\ A.sl = q.sleep /\ A.v = q.value /\ A.k = kicks
    BY <1>9, Fields
  <1>11. /\ B.sp = spin' /\ B.h = Hold(q', place', move) /\ B.w = Want(place', move)
         /\ B.o = Owe(move) /\ B.sl = q'.sleep /\ B.v = q'.value /\ B.k = kicks
    BY <1>2, <1>9, Fields
  <1>12. PICK L : L = [sp |-> spin', h |-> Hold(q, place', move), w |-> A.w,
                       o |-> [A.o EXCEPT ![t] = r], sl |-> q.sleep, v |-> q.value,
                       k |-> kicks]
    OBVIOUS
  <1>13. PICK M : M = [sp |-> spin', h |-> Hold(N, place', move), w |-> A.w,
                       o |-> A.o, sl |-> N.sleep, v |-> N.value, k |-> kicks]
    OBVIOUS
  <1>14. /\ L.sp = spin' /\ L.h = Hold(q, place', move) /\ L.w = A.w
         /\ L.o = [A.o EXCEPT ![t] = r] /\ L.sl = q.sleep /\ L.v = q.value /\ L.k = kicks
    BY <1>12
  <1>15. /\ M.sp = spin' /\ M.h = Hold(N, place', move) /\ M.w = A.w
         /\ M.o = A.o /\ M.sl = N.sleep /\ M.v = N.value /\ M.k = kicks
    BY <1>13
  <1>16. Balanced(A) /\ Settled(q)
    BY <1>9, Facts
  <1>17. A.o[t] = None /\ Points(A.o)
    BY <1>5, <1>10, <1>16 DEF Owe, Balanced, Typed
  <1>18. Leaves(A.h, L.h, t, Memory)
    <2>1. Holds(q.sleep[t], place[t], move[t]) = Memory /\ Holds(q.sleep[t], place'[t], move[t]) = None
      BY <1>2, <1>4 DEF Holds
    <2>2. \A u \in Thread : u # t =>
            Holds(q.sleep[u], place'[u], move[u]) = Holds(q.sleep[u], place[u], move[u])
      BY <1>4
    <2> QED
      BY <1>10, <1>14, <2>1, <2>2 DEF Leaves, Hold
  <1>19. Balanced(L)
    <2>1. L.sp = [A.sp EXCEPT ![Memory] = A.sp[Memory] + 1]
      BY <1>2, <1>10, <1>14
    <2>2. L.w = A.w /\ L.sl = A.sl /\ L.v = A.v /\ L.k = A.k
      BY <1>10, <1>14
    <2>3. CASE HasWaiters(spin[Memory])
      <3>1. Joins(A.o, L.o, t, Memory) /\ A.sp[Memory] < 0
        BY <1>1, <1>10, <1>14, <1>17, <2>3 DEF Joins, HasWaiters
      <3> QED
        BY <1>3, <1>16, <1>18, <2>1, <2>2, <3>1, GivesOwing
    <2>4. CASE ~HasWaiters(spin[Memory])
      <3>1. L.o = A.o
        BY <1>1, <1>14, <1>17, <2>4 DEF Points
      <3> QED
        BY <1>3, <1>16, <1>18, <2>1, <2>2, <3>1, GivesFree
    <2> QED
      BY <2>3, <2>4
  <1>20. Settled(N) /\ Orderly(N, place', move) /\ Awake(N, t) /\ Balanced(M)
    <2>1. L.o[t] = r /\ [L.o EXCEPT ![t] = None] = A.o
      BY <1>14, <1>17 DEF Points
    <2>2. PICK pl : pl = place'
      OBVIOUS
    <2>3. Orderly(q, pl, move) /\ L.h = Hold(q, pl, move) /\ M.h = Hold(N, pl, move)
      BY <1>8, <1>14, <1>15, <2>2
    <2>4. M.o = [L.o EXCEPT ![t] = None] /\ M.sp = L.sp /\ M.w = L.w /\ M.k = L.k
      BY <1>14, <1>15, <2>1
    <2>5. Settled(N) /\ Orderly(N, pl, move) /\ Awake(N, t) /\ Balanced(M)
      BY <1>1, <1>2, <1>3, <1>14, <1>15, <1>16, <1>19, <2>1, <2>3, <2>4, CallVKeeps
    <2> QED
      BY <2>2, <2>5
  <1>21. /\ Settled(q')
         /\ q'.value = [N.value EXCEPT ![s] = N.value[s] - 1]
         /\ N.value[s] > 0 => q'.sleep = N.sleep
         /\ ~(N.value[s] > 0) => q'.sleep = [N.sleep EXCEPT ![t] = s]
    <2>1. PICK Z : Z = q'
      OBVIOUS
    <2>2. Z = PSleeping(N, t, s)
      BY <1>2, <2>1
    <2>3. /\ Settled(Z)
          /\ Z.value = [N.value EXCEPT ![s] = N.value[s] - 1]
          /\ N.value[s] > 0 => Z.sleep = N.sleep
          /\ ~(N.value[s] > 0) => Z.sleep = [N.sleep EXCEPT ![t] = s]
      <3>1. Settled(N) /\ Awake(N, t) /\ s \in Semaphore /\ Z = PSleeping(N, t, s)
        BY <1>3, <1>20, <2>2
      <3> QED
        BY <3>1, PSettled
    <2> QED
      BY <2>1, <2>3
  <1>22. /\ N.sleep \in [Thread -> Semaphore \cup {None}] /\ N.value \in [Semaphore -> Int]
         /\ q'.sleep \in [Thread -> Semaphore \cup {None}] /\ q'.value \in [Semaphore -> Int]
         /\ q' \in SemaphoreState /\ N.sleep[t] = None
    BY <1>20, <1>21, SettledTypes DEF Awake
  <1>23. /\ \A u \in Thread : u # t => q'.sleep[u] = N.sleep[u]
         /\ q'.sleep[t] = None \/ q'.sleep[t] = s
    BY <1>21, <1>22
  <1>24. B.h = M.h
    <2>1. Holds(q'.sleep[t], place'[t], move[t]) = None /\ Holds(N.sleep[t], place'[t], move[t]) = None
      BY <1>4 DEF Holds
    <2> QED
      BY <1>11, <1>15, <1>23, <2>1 DEF Hold
  <1>25. B.w = M.w
    BY <1>2, <1>4, <1>10, <1>11, <1>15 DEF Want
  <1>26. Balanced(B)
    <2>1. B.sp = M.sp /\ B.o = M.o /\ B.k = M.k /\ B.sl = q'.sleep /\ B.v = q'.value
      BY <1>10, <1>11, <1>15
    <2>2. Points(B.sl) /\ B.v \in [Semaphore -> Int]
      BY <1>22, <2>1 DEF Points
    <2>3. \A u \in Thread : B.sl[u] = M.sl[u] \/ (M.sl[u] \notin Lock /\ B.sl[u] \notin Lock)
      BY <1>3, <1>15, <1>22, <1>23, <2>1
    <2>4. \A x \in Lock : B.v[x] = M.v[x]
      BY <1>3, <1>15, <1>21, <1>22, <2>1, LocksAreSemaphores
    <2> QED
      BY <1>20, <1>24, <1>25, <2>1, <2>2, <2>3, <2>4, Elsewhere
  <1>27. Orderly(q', place', move')
    <2>1. \A u \in Thread : Proper(N.sleep[u], place'[u], move[u])
      BY <1>20 DEF Orderly
    <2>2. Proper(q'.sleep[t], place'[t], move[t])
      BY <1>3, <1>4, <1>6, <1>7, <1>23
    <2> QED
      BY <1>2, <1>23, <2>1, <2>2 DEF Orderly
  <1>28. TypeOK'
    <2>1. spin' \in [Lock -> Int] /\ place' \in [Thread -> Places]
      BY <1>2, <1>3, Facts DEF Places
    <2> QED
      BY <1>2, <1>22, <2>1 DEF IInv, TypeOK
  <1> QED
    BY <1>9, <1>21, <1>26, <1>27, <1>28 DEF IInv

(* A thread that was woken takes the memory again.                         *)
LEMMA RelockKeeps ==
  ASSUME IInv, NEW t \in Thread, Relock(t)
  PROVE  IInv'
  <1>1. /\ place[t] = "woken" /\ q.sleep[t] = None /\ Awake(q, t)
        /\ q' = IF Taken(spin[Memory]) THEN PSleeping(q, t, Memory) ELSE q
        /\ kicks' = kicks /\ head' = head /\ next' = next /\ busy' = busy
        /\ spin' = [spin EXCEPT ![Memory] = spin[Memory] - 1]
        /\ place' = [place EXCEPT ![t] = "next"] /\ move' = move
    BY DEF Relock, At, Awake, PSleeping
  <1>2. None \notin Lock /\ Memory \in Lock /\ Memory \in Semaphore
    BY LocksAreSemaphores
  <1>3. \A u \in Thread : place'[u] = IF u = t THEN "next" ELSE place[u]
    BY <1>1, Facts
  <1>4. Proper(None, "woken", move[t])
    BY <1>1, Facts
  <1>5. Proper(None, "next", move[t]) /\ Proper(Memory, "next", move[t])
    BY <1>2, <1>4 DEF Proper
  <1>6. PICK A, B : /\ A = Books(q, spin, place, move, kicks)
                    /\ B = Books(q', spin', place', move', kicks')
    OBVIOUS
  <1>7. /\ A.sp = spin /\ A.h = Hold(q, place, move) /\ A.w = Want(place, move)
        /\ A.o = Owe(move) /\ A.sl = q.sleep /\ A.v = q.value /\ A.k = kicks
    BY <1>6, Fields
  <1>8. /\ B.sp = spin' /\ B.h = Hold(q', place', move) /\ B.w = Want(place', move)
        /\ B.o = Owe(move) /\ B.sl = q'.sleep /\ B.v = q'.value /\ B.k = kicks
    BY <1>1, <1>6, Fields
  <1>9. Balanced(A) /\ Settled(q) /\ q.sleep \in [Thread -> Semaphore \cup {None}]
    BY <1>6, Facts
  <1>10. A.h[t] = None /\ A.w[t] = None
    BY <1>1, <1>7 DEF Hold, Want, Holds
  <1>11. B.w = A.w
    BY <1>1, <1>3, <1>7, <1>8 DEF Want
  <1>12. B.sp = [A.sp EXCEPT ![Memory] = A.sp[Memory] - 1] /\ B.o = A.o /\ B.k = A.k
    BY <1>1, <1>7, <1>8
  <1>13. Holds(None, "next", move[t]) = Memory /\ Holds(Memory, "next", move[t]) = None
    BY <1>2 DEF Holds
  (* What is left to show, whether the thread sleeps or not.               *)
  <1>14. ASSUME Settled(q'), Balanced(B), q'.sleep[t] \in {None, Memory},
                \A u \in Thread : u # t => q'.sleep[u] = q.sleep[u]
         PROVE  IInv'
    <2>1. TypeOK'
      <3>1. q' \in SemaphoreState
        BY <1>14, SettledTypes
      <3>2. spin' \in [Lock -> Int] /\ place' \in [Thread -> Places]
        BY <1>1, <1>2, Facts DEF Places
      <3> QED
        BY <1>1, <3>1, <3>2 DEF IInv, TypeOK
    <2>2. \A u \in Thread : Proper(q.sleep[u], place[u], move[u])
      BY Facts
    <2>3. Orderly(q', place', move')
      BY <1>1, <1>3, <1>5, <1>14, <2>2 DEF Orderly
    <2> QED
      BY <1>6, <1>14, <2>1, <2>3 DEF IInv
  <1>15. CASE ~Taken(spin[Memory])
    <2>1. q' = q
      BY <1>1, <1>15
    <2>2. Joins(A.h, B.h, t, Memory)
      BY <1>1, <1>3, <1>7, <1>8, <1>10, <1>13, <2>1 DEF Joins, Hold
    <2>3. A.sp[Memory] > 0
      BY <1>2, <1>7, <1>15, Facts DEF Taken
    <2>4. B.sl = A.sl /\ B.v = A.v
      BY <1>7, <1>8, <2>1
    <2>5. Balanced(B)
      BY <1>2, <1>9, <1>11, <1>12, <2>2, <2>3, <2>4, TakesFree
    <2> QED
      BY <1>1, <1>9, <1>14, <2>1, <2>5
  <1>16. CASE Taken(spin[Memory])
    <2>1. PICK Z : Z = q' /\ Z = PSleeping(q, t, Memory)
      BY <1>1, <1>16
    <2>2. PICK M : M = [sp |-> spin', h |-> A.h, w |-> [A.w EXCEPT ![t] = Memory],
                        o |-> A.o, sl |-> q.sleep, v |-> q.value, k |-> kicks]
      OBVIOUS
    <2>3. /\ M.sp = spin' /\ M.h = A.h /\ M.w = [A.w EXCEPT ![t] = Memory]
          /\ M.o = A.o /\ M.sl = q.sleep /\ M.v = q.value /\ M.k = kicks
      BY <2>2
    <2>4. Balanced(M)
      <3>1. Joins(A.w, M.w, t, Memory)
        BY <1>10, <2>3 DEF Joins
      <3>2. M.sp = [A.sp EXCEPT ![Memory] = A.sp[Memory] - 1]
        BY <1>8, <1>12, <2>3
      <3>3. M.h = A.h /\ M.o = A.o /\ M.sl = A.sl /\ M.v = A.v /\ M.k = A.k
        BY <1>7, <2>3
      <3> QED
        BY <1>2, <1>9, <3>1, <3>2, <3>3, TakesTaken
    <2>5. Leaves(M.w, B.w, t, Memory)
      <3>1. Points(A.w)
        BY <1>9 DEF Balanced, Typed
      <3>2. M.w[t] = Memory /\ [M.w EXCEPT ![t] = None] = A.w
        BY <1>10, <2>3, <3>1 DEF Points
      <3> QED
        BY <1>11, <3>2 DEF Leaves
    <2>6. /\ Settled(Z)
          /\ Z.value = [q.value EXCEPT ![Memory] = q.value[Memory] - 1]
          /\ q.value[Memory] > 0 => Z.sleep = q.sleep
          /\ ~(q.value[Memory] > 0) => Z.sleep = [q.sleep EXCEPT ![t] = Memory]
      <3>1. Settled(q) /\ Awake(q, t) /\ Memory \in Semaphore /\ Z = PSleeping(q, t, Memory)
        BY <1>1, <1>2, <1>9, <2>1
      <3> QED
        BY <3>1, PSettled
    <2>7. \A u \in Thread : u # t => Z.sleep[u] = q.sleep[u]
      BY <1>9, <2>6
    <2>8. Z.sleep[t] = IF q.value[Memory] > 0 THEN None ELSE Memory
      BY <1>1, <1>9, <2>6
    <2>9. B.h = IF q.value[Memory] > 0 THEN [M.h EXCEPT ![t] = Memory] ELSE M.h
      <3>1. Holds(Z.sleep[t], place'[t], move[t]) = IF q.value[Memory] > 0 THEN Memory ELSE None
        BY <1>3, <1>13, <2>8
      <3>2. \A u \in Thread : u # t =>
              Holds(Z.sleep[u], place'[u], move[u]) = Holds(q.sleep[u], place[u], move[u])
        BY <1>3, <2>7
      <3> QED
        BY <1>7, <1>8, <1>10, <2>1, <2>3, <3>1, <3>2 DEF Hold
    <2>10. B.sl = Z.sleep /\ B.v = Z.value /\ B.sp = M.sp /\ B.o = M.o /\ B.k = M.k
           /\ M.h[t] = None
      BY <1>8, <1>7, <1>10, <2>1, <2>3
    <2>11. PICK Q : Q = q
      OBVIOUS
    <2>12. /\ Settled(Q) /\ Awake(Q, t) /\ Z = PSleeping(Q, t, Memory)
           /\ M.sl = Q.sleep /\ M.v = Q.value
           /\ B.h = IF Q.value[Memory] > 0 THEN [M.h EXCEPT ![t] = Memory] ELSE M.h
      BY <1>1, <1>9, <2>1, <2>3, <2>9, <2>11
    <2>13. /\ Settled(Z) /\ Balanced(B)
           /\ Q.value[Memory] > 0 => Z.sleep = Q.sleep
           /\ ~(Q.value[Memory] > 0) => Z.sleep = [Q.sleep EXCEPT ![t] = Memory]
      BY <1>2, <2>4, <2>5, <2>10, <2>12, GetsOrSleeps
    <2> QED
      BY <1>14, <2>1, <2>7, <2>8, <2>13
  <1> QED
    BY <1>15, <1>16

(* Waking the next of the chain, or its head: nobody at a lock is woken.   *)
LEMMA WakeKeeps ==
  ASSUME IInv, NEW t \in Thread, WakeNext(t) \/ MemoryWakeup(t)
  PROVE  IInv'
  <1>1. PICK p \in {"in", "leave"}, n \in {1, -1}, u \in Thread \cup {None} :
          /\ u = next[t] /\ q.sleep[t] = None
          /\ place[t] \in {"next", "wakeup"}
          /\ q' = IF u = None THEN q ELSE V(q, Own[u], n)
          /\ next' = [next EXCEPT ![t] = None]
          /\ place' = [place EXCEPT ![t] = p]
          /\ spin' = spin /\ move' = move /\ busy' = busy /\ head' = head /\ kicks' = kicks
    <2> DEFINE Wakes(p, n, u) ==
          /\ u = next[t] /\ q.sleep[t] = None
          /\ place[t] \in {"next", "wakeup"}
          /\ q' = IF u = None THEN q ELSE V(q, Own[u], n)
          /\ next' = [next EXCEPT ![t] = None]
          /\ place' = [place EXCEPT ![t] = p]
          /\ spin' = spin /\ move' = move /\ busy' = busy /\ head' = head /\ kicks' = kicks
    <2>0. PICK u \in Thread \cup {None} : u = next[t]
      BY DEF IInv, TypeOK
    <2>1. CASE WakeNext(t)
      <3>1. Wakes("in", -1, u)
        BY <2>0, <2>1 DEF WakeNext, At, Awake
      <3> HIDE DEF Wakes
      <3>2. \E p \in {"in", "leave"}, n \in {1, -1}, x \in Thread \cup {None} : Wakes(p, n, x)
        BY <3>1
      <3> QED
        BY <3>2 DEF Wakes
    <2>2. CASE MemoryWakeup(t)
      <3>1. Wakes("leave", 1, u)
        BY <2>0, <2>2 DEF MemoryWakeup, At, Awake
      <3> HIDE DEF Wakes
      <3>2. \E p \in {"in", "leave"}, n \in {1, -1}, x \in Thread \cup {None} : Wakes(p, n, x)
        BY <3>1
      <3> QED
        BY <3>2 DEF Wakes
    <2> QED
      BY <2>1, <2>2
  <1>2. None \notin Lock /\ Lock \subseteq Semaphore
    BY LocksAreSemaphores
  <1>3. \A x \in Thread : place'[x] = IF x = t THEN p ELSE place[x]
    BY <1>1, Facts
  <1>4. q.sleep \in [Thread -> Semaphore \cup {None}] /\ q.value \in [Semaphore -> Int]
    BY Facts
  <1>5. /\ Settled(q')
        /\ \A l \in Lock : q'.value[l] = q.value[l]
        /\ \A x \in Thread : q'.sleep[x] = q.sleep[x] \/ (q.sleep[x] \notin Lock /\ q'.sleep[x] = None)
    <2>1. CASE u = None
      BY <1>1, <2>1, Facts
    <2>2. CASE u # None
      <3>1. u \in Thread
        BY <1>1, <2>2 DEF IInv, TypeOK
      <3>2. PICK s \in Semaphore : s = Own[u] /\ s \notin Lock
        BY <3>1, LocksAreSemaphores
      <3>3. n \in Int
        OBVIOUS
      <3>4. PICK Z : Z = q'
        OBVIOUS
      <3>5. Z = V(q, s, n) /\ Settled(q)
        BY <1>1, <2>2, <3>2, <3>4, Facts
      <3>6. /\ Settled(Z)
            /\ \A x \in Semaphore : x # s => Z.value[x] = q.value[x]
            /\ \A x \in Thread : Z.sleep[x] = q.sleep[x] \/ (q.sleep[x] = s /\ Z.sleep[x] = None)
        BY <3>3, <3>5, VSettled
      <3> QED
        BY <1>2, <3>2, <3>4, <3>6
    <2> QED
      BY <2>1, <2>2
  <1>6. \A x \in Thread : Proper(q.sleep[x], place[x], move[x])
    BY Facts
  <1>7. Proper(None, p, move[t]) /\ Holds(None, p, move[t]) = Holds(None, place[t], move[t])
    BY <1>1, <1>2, <1>6 DEF Proper, Holds
  <1>8. q'.sleep[t] = None
    BY <1>1, <1>5
  <1>9. \A x \in Thread : x # t =>
          /\ Proper(q'.sleep[x], place'[x], move[x])
          /\ Holds(q'.sleep[x], place'[x], move[x]) = Holds(q.sleep[x], place[x], move[x])
    BY <1>3, <1>5, <1>6, WokenHolds
  <1>10. Orderly(q', place', move')
    BY <1>1, <1>3, <1>7, <1>8, <1>9 DEF Orderly
  <1>11. PICK A, B : /\ A = Books(q, spin, place, move, kicks)
                     /\ B = Books(q', spin', place', move', kicks')
    OBVIOUS
  <1>12. /\ A.sp = spin /\ A.h = Hold(q, place, move) /\ A.w = Want(place, move)
         /\ A.o = Owe(move) /\ A.sl = q.sleep /\ A.v = q.value /\ A.k = kicks
    BY <1>11, Fields
  <1>13. /\ B.sp = spin /\ B.h = Hold(q', place', move) /\ B.w = Want(place', move)
         /\ B.o = Owe(move) /\ B.sl = q'.sleep /\ B.v = q'.value /\ B.k = kicks
    BY <1>1, <1>11, Fields
  <1>14. Balanced(B)
    <2>1. B.h = A.h
      BY <1>1, <1>3, <1>7, <1>8, <1>9, <1>12, <1>13 DEF Hold
    <2>2. B.w = A.w
      BY <1>1, <1>3, <1>12, <1>13 DEF Want
    <2>3. Balanced(A)
      BY <1>11, Facts
    <2>4. Points(B.sl) /\ B.v \in [Semaphore -> Int]
      BY <1>5, <1>13, SettledTypes DEF Points
    <2>5. \A x \in Thread : B.sl[x] = A.sl[x] \/ (A.sl[x] \notin Lock /\ B.sl[x] \notin Lock)
      BY <1>2, <1>5, <1>12, <1>13
    <2>6. \A x \in Lock : B.v[x] = A.v[x]
      BY <1>5, <1>12, <1>13
    <2> QED
      BY <1>12, <1>13, <2>1, <2>2, <2>3, <2>4, <2>5, <2>6, Elsewhere
  <1>15. TypeOK'
    <2>1. q' \in SemaphoreState
      BY <1>5, SettledTypes
    <2>2. place' \in [Thread -> Places] /\ next' \in [Thread -> Thread \cup {None}]
      BY <1>1, Facts DEF Places, IInv, TypeOK
    <2> QED
      BY <1>1, <2>1, <2>2 DEF IInv, TypeOK
  <1> QED
    BY <1>5, <1>10, <1>11, <1>14, <1>15 DEF IInv

(* A kick lets a sleeper at a lock in, and is counted then.                *)
LEMMA KickKeeps ==
  ASSUME IInv, NEW t \in Thread, Kick(t)
  PROVE  IInv'
  <1>1. /\ ~Awake(q, t) /\ q' = VThread(q, t)
        /\ kicks' = (IF q.sleep[t] \in Lock THEN kicks + 1 ELSE kicks) /\ kicks' <= MaxKicks
        /\ spin' = spin /\ place' = place /\ move' = move
        /\ busy' = busy /\ head' = head /\ next' = next
    BY DEF Kick
  <1>2. None \notin Lock /\ Lock \subseteq Semaphore
    BY LocksAreSemaphores
  <1>3. q.sleep \in [Thread -> Semaphore \cup {None}] /\ Settled(q) /\ kicks \in Nat
    BY Facts
  <1>4. PICK s \in Semaphore : s = q.sleep[t]
    BY <1>1, <1>3 DEF Awake
  <1>5. /\ Settled(q') /\ q.value[s] < 0
        /\ q'.value = [q.value EXCEPT ![s] = q.value[s] + 1]
        /\ q'.sleep = [q.sleep EXCEPT ![t] = None]
    <2>1. PICK Z : Z = q'
      OBVIOUS
    <2>2. Z = VThread(q, t)
      BY <1>1, <2>1
    <2>3. /\ Settled(Z) /\ q.value[s] < 0
          /\ Z.value = [q.value EXCEPT ![s] = q.value[s] + 1]
          /\ Z.sleep = [q.sleep EXCEPT ![t] = None]
      BY <1>1, <1>3, <1>4, <2>2, VThreadOne
    <2> QED
      BY <2>1, <2>3
  <1>6. \A u \in Thread : q'.sleep[u] = IF u = t THEN None ELSE q.sleep[u]
    BY <1>3, <1>5
  <1>7. \A u \in Thread : Proper(q.sleep[u], place[u], move[u])
    BY Facts
  <1>8. Orderly(q', place', move')
    BY <1>1, <1>6, <1>7, WokenHolds DEF Orderly
  <1>9. TypeOK'
    <2>1. q' \in SemaphoreState /\ kicks' \in 0..MaxKicks
      BY <1>1, <1>3, <1>5, SettledTypes, LockAssumption
    <2> QED
      BY <1>1, <2>1 DEF IInv, TypeOK
  <1>10. PICK A, B : /\ A = Books(q, spin, place, move, kicks)
                     /\ B = Books(q', spin', place', move', kicks')
    OBVIOUS
  <1>11. /\ A.sp = spin /\ A.h = Hold(q, place, move) /\ A.w = Want(place, move)
         /\ A.o = Owe(move) /\ A.sl = q.sleep /\ A.v = q.value /\ A.k = kicks
    BY <1>10, Fields
  <1>12. /\ B.sp = spin /\ B.h = Hold(q', place, move) /\ B.w = Want(place, move)
         /\ B.o = Owe(move) /\ B.sl = q'.sleep /\ B.v = q'.value /\ B.k = kicks'
    BY <1>1, <1>10, Fields
  <1>13. Balanced(A)
    BY <1>10, Facts
  <1>14. \A u \in Thread : u # t =>
           Holds(q'.sleep[u], place[u], move[u]) = Holds(q.sleep[u], place[u], move[u])
    BY <1>6
  <1>15. Balanced(B)
    <2>1. CASE s \in Lock
      <3>1. Holds(q.sleep[t], place[t], move[t]) = None /\ Holds(q'.sleep[t], place[t], move[t]) = s
        BY <1>4, <1>6, <1>7, <2>1, WokenHolds
      <3>2. Joins(A.h, B.h, t, s)
        BY <1>11, <1>12, <1>14, <3>1 DEF Joins, Hold
      <3>3. Leaves(A.sl, B.sl, t, s)
        BY <1>4, <1>5, <1>11, <1>12 DEF Leaves
      <3>4. B.v = [A.v EXCEPT ![s] = A.v[s] + 1] /\ A.v[s] < 0
        BY <1>5, <1>11, <1>12
      <3>5. B.k = A.k + 1 /\ B.sp = A.sp /\ B.w = A.w /\ B.o = A.o
        BY <1>1, <1>4, <1>11, <1>12, <2>1
      <3> QED
        BY <1>13, <2>1, <3>2, <3>3, <3>4, <3>5, Kicked
    <2>2. CASE s \notin Lock
      <3>1. Holds(q'.sleep[t], place[t], move[t]) = Holds(q.sleep[t], place[t], move[t])
        BY <1>4, <1>6, <1>7, <2>2, WokenHolds
      <3>2. B.h = A.h
        BY <1>11, <1>12, <1>14, <3>1 DEF Hold
      <3>3. B.k = A.k /\ B.sp = A.sp /\ B.w = A.w /\ B.o = A.o
        BY <1>1, <1>4, <1>11, <1>12, <2>2
      <3>4. Points(B.sl) /\ B.v \in [Semaphore -> Int]
        BY <1>5, <1>12, SettledTypes DEF Points
      <3>5. \A x \in Thread : B.sl[x] = A.sl[x] \/ (A.sl[x] \notin Lock /\ B.sl[x] \notin Lock)
        BY <1>2, <1>4, <1>6, <1>11, <1>12, <2>2
      <3>6. \A x \in Lock : B.v[x] = A.v[x]
        <4>1. q.value \in [Semaphore -> Int]
          BY Facts
        <4> QED
          BY <1>2, <1>5, <1>11, <1>12, <2>2, <4>1
      <3> QED
        BY <1>13, <3>2, <3>3, <3>4, <3>5, <3>6, Elsewhere
    <2> QED
      BY <2>1, <2>2
  <1> QED
    BY <1>5, <1>8, <1>9, <1>10, <1>15 DEF IInv

-----------------------------------------------------------------------------
(* At first nobody is at a lock, and both are free.                        *)
LEMMA InitKeeps == Init => IInv
  <1> SUFFICES ASSUME Init PROVE IInv
    OBVIOUS
  <1>1. /\ q.value = [s \in Semaphore |-> 0] /\ q.ring = [s \in Semaphore |-> <<>>]
        /\ q.stray = {} /\ q.sleep = [t \in Thread |-> None]
        /\ q \in [value : {q.value}, ring : {q.ring}, stray : {q.stray}, sleep : {q.sleep}]
    BY DEF Init
  <1>2. /\ spin = [l \in Lock |-> 1] /\ place = [t \in Thread |-> "out"] /\ kicks = 0
        /\ move = [t \in Thread |-> NoMove] /\ busy = None /\ head = None
        /\ next = [t \in Thread |-> None]
    BY DEF Init
  <1>3. None \notin Lock /\ Lock \subseteq Semaphore /\ MaxKicks \in Nat
    BY LocksAreSemaphores, LockAssumption
  <1>4. NoMove \in Movements /\ NoMove.r1 = None
    BY DEF NoMove, Move, Movements
  <1>5. q \in SemaphoreState
    <2>1. <<>> \in Seq(Thread)
      OBVIOUS
    <2>2. /\ q.value \in [Semaphore -> Int] /\ q.ring \in [Semaphore -> Seq(Thread)]
          /\ q.stray \subseteq Seq(Thread) /\ q.sleep \in [Thread -> Semaphore \cup {None}]
      BY <1>1, <2>1
    <2> QED
      BY <1>1, <2>2 DEF SemaphoreState
  <1>6. TypeOK
    <2>1. place \in [Thread -> Places] /\ move \in [Thread -> Movements] /\ kicks \in 0..MaxKicks
      BY <1>2, <1>3, <1>4 DEF Places
    <2> QED
      BY <1>2, <1>5, <2>1 DEF TypeOK, Movements
  <1>7. Settled(q)
    <2>1. Counted(q, {})
      BY <1>1 DEF Counted
    <2>2. RingsSleep(q)
      BY <1>1 DEF RingsSleep, Distinct, Ring, Members
    <2>3. StraySleep(q, {}) /\ StrayApart(q) /\ Placed(q)
      BY <1>1 DEF StraySleep, StrayApart, Placed, Awake
    <2> QED
      BY <1>1, <1>5, <2>1, <2>2, <2>3 DEF Settled, Sound
  <1>8. Orderly(q, place, move)
    <2>1. Proper(None, "out", NoMove)
      BY <1>3, <1>4 DEF Proper
    <2> QED
      BY <1>1, <1>2, <2>1 DEF Orderly
  <1>9. PICK B : B = Books(q, spin, place, move, kicks)
    OBVIOUS
  <1>10. /\ B.sp = spin /\ B.h = Hold(q, place, move) /\ B.w = Want(place, move)
         /\ B.o = Owe(move) /\ B.sl = q.sleep /\ B.v = q.value /\ B.k = 0
    BY <1>2, <1>9, Fields
  <1>11. /\ B.h = [t \in Thread |-> None] /\ B.w = [t \in Thread |-> None]
         /\ B.o = [t \in Thread |-> None] /\ B.sl = [t \in Thread |-> None]
    BY <1>1, <1>2, <1>4, <1>10 DEF Hold, Holds, Want, Owe
  <1>12. ASSUME NEW l \in Lock PROVE Even(B, l)
    <2>1. Num([t \in Thread |-> None], l) = 0
      <3>1. {t \in Thread : [u \in Thread |-> None][t] = l} = {}
        BY <1>3
      <3> QED
        BY <3>1, FS_EmptySet DEF Num
    <2>2. Num(B.h, l) = 0 /\ Num(B.w, l) = 0 /\ Num(B.o, l) = 0 /\ Num(B.sl, l) = 0
      BY <1>11, <2>1
    <2>3. B.sp[l] = 1 /\ B.v[l] = 0 /\ B.k = 0
      BY <1>1, <1>2, <1>3, <1>10
    <2> QED
      BY <2>2, <2>3 DEF Even, Units
  <1>13. Typed(B)
    BY <1>1, <1>2, <1>10, <1>11 DEF Typed, Points
  <1> QED
    BY <1>6, <1>7, <1>8, <1>9, <1>12, <1>13 DEF IInv, Balanced

(* Every step keeps the books balanced.                                    *)
LEMMA NextKeeps == IInv /\ [Next]_vars => IInv'
  <1> SUFFICES ASSUME IInv, [Next]_vars PROVE IInv'
    OBVIOUS
  <1>1. Memory \in Lock /\ Device \in Lock /\ busy \in Thread \cup {None}
    BY LocksAreSemaphores DEF IInv, TypeOK
  <1>2. CASE UNCHANGED vars
    BY <1>2 DEF vars, IInv, TypeOK
  <1>3. ASSUME NEW t \in Thread, Enter(t) PROVE IInv'
    <2>1. At(t, "out") /\ Go(t, None, Memory) /\ busy' \in Thread \cup {None}
      BY <1>1, <1>3 DEF Enter
    <2> QED
      BY <1>1, <2>1, GoKeeps
  <1>4. ASSUME NEW t \in Thread, Exit(t) PROVE IInv'
    <2>1. PICK w \in {"in", "leave"} : At(t, w)
      BY <1>4 DEF Exit
    <2>2. Go(t, Memory, None) /\ busy' \in Thread \cup {None}
      BY <1>1, <1>4 DEF Exit
    <2> QED
      BY <1>1, <2>1, <2>2, LocksAreSemaphores, GoKeeps
  <1>5. ASSUME NEW t \in Thread, StartDevice(t) PROVE IInv'
    <2>1. At(t, "in") /\ Go(t, Memory, Device) /\ busy' \in Thread \cup {None}
      BY <1>5 DEF StartDevice
    <2> QED
      BY <1>1, <2>1, LocksAreSemaphores, GoKeeps
  <1>6. ASSUME NEW t \in Thread, EndDevice(t) PROVE IInv'
    <2>1. At(t, "device") /\ Go(t, Device, Memory) /\ busy' \in Thread \cup {None}
      BY <1>1, <1>6 DEF EndDevice
    <2> QED
      BY <1>1, <2>1, LocksAreSemaphores, GoKeeps
  <1>7. CASE Next
    <2>1. PICK t \in Thread : Works(t) \/ Enter(t) \/ StartDevice(t)
                                \/ WaitAtBlock(t) \/ WakeupBlock(t) \/ Kick(t)
      BY <1>7 DEF Next
    <2>2. CASE Works(t)
      BY <1>4, <1>6, <2>2, UnlockKeeps, LockItKeeps, CallKeeps, GiveUpKeeps, RelockKeeps,
         WakeKeeps, WaitAtBlockKeeps DEF Works
    <2>3. CASE WaitAtBlock(t) \/ WakeupBlock(t) \/ Kick(t)
      BY <2>3, WaitAtBlockKeeps, KickKeeps
    <2> QED
      BY <1>3, <1>5, <2>1, <2>2, <2>3
  <1> QED
    BY <1>2, <1>7

(* The books of both locks are balanced after every step of memory_lock.c, *)
(* wait_wakeup.c and of the semaphores they call.                          *)
THEOREM MemoryLockInvariant == Spec => []IInv
  BY InitKeeps, NextKeeps, PTL DEF Spec

(* Every variable keeps to its type: what an exchange of memory_lock.c     *)
(* takes, gives back and calls for is one of the two locks, or none.       *)
THEOREM MemoryLockTypeOK == Spec => []TypeOK
  <1>1. IInv => TypeOK
    BY DEF IInv
  <1> QED
    BY <1>1, MemoryLockInvariant, PTL

LEMMA ExclusionByInvariant == IInv => LockExclusion
  <1> SUFFICES ASSUME IInv, NEW l \in Lock PROVE Cardinality(Holders(l)) <= 1 + kicks
    BY DEF LockExclusion
  <1>1. PICK B : B = Books(q, spin, place, move, kicks)
    OBVIOUS
  <1>2. B.h = Hold(q, place, move) /\ B.k = kicks /\ B.v = q.value
    BY <1>1, Fields
  <1>3. Even(B, l)
    BY <1>1 DEF IInv, Balanced
  <1>4. \A t \in Thread : Has(t, l) => B.h[t] = l
    BY <1>2, LocksAreSemaphores DEF Has, Hold, Holds, Awake, Inside
  <1>5. Cardinality(Holders(l)) <= Num(B.h, l) /\ Cardinality(Holders(l)) \in Nat
    <2>1. PICK S, T : S = Holders(l) /\ T = {t \in Thread : B.h[t] = l}
      OBVIOUS
    <2>2. S \subseteq T
      BY <1>4, <2>1 DEF Holders
    <2>3. IsFiniteSet(T)
      BY <2>1, NumType
    <2>4. IsFiniteSet(S) /\ Cardinality(S) <= Cardinality(T)
      BY <2>2, <2>3, FS_Subset
    <2>5. Cardinality(S) \in Nat
      BY <2>4, FS_CardinalityType
    <2> QED
      BY <2>1, <2>4, <2>5 DEF Num
  <1>6. Num(B.h, l) \in Nat /\ Num(B.o, l) \in Nat
    BY NumType
  <1>7. q.value[l] \in Int /\ kicks \in Nat
    BY Facts, LocksAreSemaphores
  <1> QED
    BY <1>2, <1>3, <1>5, <1>6, <1>7 DEF Even, Units

(* memory_lock.c: one thread at a time is in the memory body, and one has  *)
(* the device; each thread kicked out of its sleep at a lock adds one.     *)
THEOREM MemoryLockExclusion == Spec => []LockExclusion
  BY ExclusionByInvariant, MemoryLockInvariant, PTL

-----------------------------------------------------------------------------
(* The chain of those who wait for the block.  A thread sleeps at its own  *)
(* semaphore or at a lock, next_sema is clear but between a wait and the   *)
(* waking of the next one, and who sleeps for the block or is about to can *)
(* be reached.  The last is kept only because nobody else is in the body   *)
(* while a thread enters the chain or wakes the next one.                  *)
InChain   == {"wait", "woken", "next", "wakeup"}
Waiting(t) == place[t] = "wait" \/ q.sleep[t] = Own[t]
Chains ==
  /\ \A t \in Thread : q.sleep[t] \in Lock \cup {None, Own[t]}
  /\ \A t \in Thread : place[t] \notin InChain => next[t] = None
  /\ kicks = 0 => \A t \in Thread : Waiting(t) => Reachable(t)

LEMMA Alone ==
  ASSUME IInv, kicks = 0, NEW t \in Thread, NEW u \in Thread, Has(t, Memory), Has(u, Memory)
  PROVE  t = u
  <1> SUFFICES ASSUME t # u PROVE FALSE
    OBVIOUS
  <1>1. Cardinality(Holders(Memory)) <= 1
    BY ExclusionByInvariant, LocksAreSemaphores DEF LockExclusion
  <1>2. PICK S : S = Holders(Memory)
    OBVIOUS
  <1>3. IsFiniteSet(S) /\ {t, u} \subseteq S
    <2>1. S \in SUBSET Thread
      BY <1>2 DEF Holders
    <2>2. IsFiniteSet(S)
      BY <2>1, FS_Subset, LockAssumption
    <2> QED
      BY <1>2, <2>2 DEF Holders
  <1>4. Cardinality({t}) = 1 /\ IsFiniteSet({t})
    BY FS_Singleton
  <1>5. Cardinality({t} \cup {u}) = 2
    BY <1>4, FS_AddElement
  <1>6. {t} \cup {u} \subseteq S
    BY <1>3
  <1>7. Cardinality({t} \cup {u}) <= Cardinality(S)
    BY <1>3, <1>6, FS_Subset
  <1>8. Cardinality(S) \in Nat
    BY <1>3, FS_CardinalityType
  <1> QED
    BY <1>1, <1>2, <1>5, <1>7, <1>8

(* Nobody leaves the chain, and nobody enters it.                          *)
LEMMA ChainsStay ==
  ASSUME Chains, next' = next, head' = head, busy = None \/ busy' # None, kicks' = 0 => kicks = 0,
         \A u \in Thread : WillWake(u) => WillWake(u)',
         \A u \in Thread : Waiting(u)' => Waiting(u),
         \A u \in Thread : q'.sleep[u] \in Lock \cup {None, Own[u]},
         \A u \in Thread : place'[u] \notin InChain => next[u] = None
  PROVE  Chains'
  <1>1. Starts \subseteq Starts'
    BY DEF Starts
  <1>2. ASSUME NEW u \in Thread, Reachable(u) PROVE Reachable(u)'
    BY <1>1, <1>2 DEF Reachable, HandedOn
  <1> QED
    BY <1>2 DEF Chains

(* Who sleeps after V at a lock, and after P.                              *)
LEMMA CallVWakes ==
  ASSUME NEW Q, Settled(Q), NEW r \in Lock \cup {None}, NEW N, N = CallV(Q, r)
  PROVE  /\ Settled(N)
         /\ \A u \in Thread : N.sleep[u] = Q.sleep[u] \/ (Q.sleep[u] \in Lock /\ N.sleep[u] = None)
  <1>1. CASE r = None
    BY <1>1 DEF CallV
  <1>2. CASE r # None
    <2>1. r \in Lock /\ r \in Semaphore /\ N = V(Q, r, 1) /\ 1 \in Int
      BY <1>2, LocksAreSemaphores DEF CallV
    <2> QED
      BY <2>1, VSettled
  <1> QED
    BY <1>1, <1>2

LEMMA PSleeps ==
  ASSUME NEW Q, Settled(Q), NEW t \in Thread, Awake(Q, t), NEW s \in Semaphore,
         NEW N, N = PSleeping(Q, t, s)
  PROVE  /\ \A u \in Thread : u # t => N.sleep[u] = Q.sleep[u]
         /\ N.sleep[t] \in {None, s}
  <1>1. /\ N.value = [Q.value EXCEPT ![s] = Q.value[s] - 1]
        /\ Q.value[s] > 0 => N.sleep = Q.sleep
        /\ ~(Q.value[s] > 0) => N.sleep = [Q.sleep EXCEPT ![t] = s]
        /\ Q.sleep \in [Thread -> Semaphore \cup {None}]
    BY PSettled, SettledTypes
  <1> QED
    BY <1>1 DEF Awake

(* A step outside the chain: t goes from one place to another and may come *)
(* to sleep at a lock; others that slept at one may wake.                  *)
LEMMA OutsideChains ==
  ASSUME IInv, Chains, NEW t \in Thread, NEW p, Awake(q, t),
         next' = next, head' = head, busy' = busy \/ (busy = None /\ busy' # None), kicks' = kicks,
         place' = [place EXCEPT ![t] = p],
         q'.sleep[t] \in Lock \cup {None, Own[t]},
         \A u \in Thread : u # t =>
           q'.sleep[u] = q.sleep[u] \/ (q.sleep[u] \in Lock /\ q'.sleep[u] = None),
         \/ place[t] \notin InChain /\ p \notin InChain /\ q'.sleep[t] # Own[t]
         \/ place[t] = "woken" /\ p = "next" /\ q'.sleep[t] # Own[t]
         \/ place[t] = "wait" /\ p = "woken"
  PROVE  Chains'
  <1>1. \A u \in Thread : place'[u] = IF u = t THEN p ELSE place[u]
    BY Facts
  <1>2. \A u \in Thread : Proper(q.sleep[u], place[u], move[u])
    BY Facts
  <1>3. None \notin Lock /\ \A u \in Thread : Own[u] \notin Lock /\ Own[u] # None
    BY LocksAreSemaphores
  <1>4. ASSUME NEW u \in Thread, WillWake(u) PROVE WillWake(u)'
    <2>1. CASE u = t
      BY <1>1, <1>4, <2>1 DEF WillWake, InChain
    <2>2. CASE u # t
      BY <1>1, <1>4, <2>2 DEF WillWake, Awake
    <2> QED
      BY <2>1, <2>2
  <1>5. ASSUME NEW u \in Thread, Waiting(u)' PROVE Waiting(u)
    <2>1. CASE u = t
      BY <1>1, <1>5, <2>1 DEF Waiting, InChain
    <2>2. CASE u # t
      BY <1>1, <1>3, <1>5, <2>2 DEF Waiting
    <2> QED
      BY <2>1, <2>2
  <1>6. \A u \in Thread : q'.sleep[u] \in Lock \cup {None, Own[u]}
    BY DEF Chains
  <1>7. ASSUME NEW u \in Thread, place'[u] \notin InChain PROVE next[u] = None
    BY <1>1, <1>7 DEF Chains, InChain
  <1> QED
    BY <1>4, <1>5, <1>6, <1>7, ChainsStay

LEMMA GoChains ==
  ASSUME IInv, Chains, NEW t \in Thread,
         Enter(t) \/ Exit(t) \/ StartDevice(t) \/ EndDevice(t) \/ Unlock(t) \/ LockIt(t)
  PROVE  Chains'
  <1>1. PICK p \in {"unlock", "lock", "call"} :
          /\ Awake(q, t) /\ next' = next /\ head' = head /\ kicks' = kicks /\ q' = q
          /\ busy' = busy \/ (busy = None /\ busy' # None)
          /\ place' = [place EXCEPT ![t] = p]
          /\ place[t] \notin InChain
    <2>1. CASE Enter(t) \/ Exit(t) \/ EndDevice(t)
      BY <2>1 DEF Enter, Exit, EndDevice, Go, At, InChain
    <2>2. CASE StartDevice(t)
      BY <2>2, LockAssumption DEF StartDevice, Go, At, InChain
    <2>3. CASE Unlock(t) \/ LockIt(t)
      BY <2>3 DEF Unlock, LockIt, At, InChain
    <2> QED
      BY <2>1, <2>2, <2>3
  <1>2. q'.sleep[t] = None /\ Own[t] # None /\ p \notin InChain
    BY <1>1, LocksAreSemaphores DEF Awake, InChain
  <1> QED
    BY <1>1, <1>2, OutsideChains

LEMMA CallChains ==
  ASSUME IInv, Chains, NEW t \in Thread, Call(t)
  PROVE  Chains'
  <1>1. PICK N, r1, r3 : N = CallV(q, r1) /\ r1 = move[t].r1 /\ r3 = move[t].r3
    OBVIOUS
  <1>2. /\ Awake(q, t) /\ next' = next /\ head' = head /\ kicks' = kicks /\ busy' = busy
        /\ place' = [place EXCEPT ![t] = Inside(move[t].to)] /\ place[t] = "call"
        /\ q' = CallP(N, t, r3)
    BY <1>1 DEF Call, At
  <1>3. r1 \in Lock \cup {None} /\ r3 \in Lock \cup {None}
    BY <1>1, Facts DEF Movements
  <1>4. /\ Settled(N)
        /\ \A u \in Thread : N.sleep[u] = q.sleep[u] \/ (q.sleep[u] \in Lock /\ N.sleep[u] = None)
    BY <1>1, <1>3, Facts, CallVWakes
  <1>5. None \notin Lock /\ Own[t] \notin Lock \cup {None}
    BY LocksAreSemaphores
  <1>6. Awake(N, t)
    BY <1>2, <1>4, <1>5 DEF Awake
  <1>7. /\ \A u \in Thread : u # t => q'.sleep[u] = N.sleep[u]
        /\ q'.sleep[t] \in Lock \cup {None}
    <2>1. CASE r3 = None
      BY <1>2, <1>6, <2>1 DEF CallP, Awake
    <2>2. CASE r3 # None
      <3>1. PICK Z : Z = q'
        OBVIOUS
      <3>2. Z = PSleeping(N, t, r3) /\ r3 \in Lock /\ r3 \in Semaphore
        BY <1>2, <1>3, <2>2, <3>1, LocksAreSemaphores DEF CallP, PSleeping
      <3>3. (\A u \in Thread : u # t => Z.sleep[u] = N.sleep[u]) /\ Z.sleep[t] \in {None, r3}
        BY <1>4, <1>6, <3>2, PSleeps
      <3> QED
        BY <3>1, <3>2, <3>3
    <2> QED
      BY <2>1, <2>2
  <1>8. Inside(move[t].to) \notin InChain /\ place[t] \notin InChain
    BY <1>2 DEF Inside, InChain
  <1>9. \A u \in Thread : u # t =>
          q'.sleep[u] = q.sleep[u] \/ (q.sleep[u] \in Lock /\ q'.sleep[u] = None)
    BY <1>4, <1>7
  <1> QED
    BY <1>2, <1>5, <1>7, <1>8, <1>9, OutsideChains

LEMMA RelockChains ==
  ASSUME IInv, Chains, NEW t \in Thread, Relock(t)
  PROVE  Chains'
  <1>1. /\ Awake(q, t) /\ next' = next /\ head' = head /\ kicks' = kicks /\ busy' = busy
        /\ place' = [place EXCEPT ![t] = "next"] /\ place[t] = "woken"
        /\ q' = IF Taken(spin[Memory]) THEN PSleeping(q, t, Memory) ELSE q
    BY DEF Relock, At, PSleeping
  <1>2. Memory \in Lock /\ Memory \in Semaphore /\ Own[t] \notin Lock \cup {None}
    BY LocksAreSemaphores
  <1>3. /\ \A u \in Thread : u # t => q'.sleep[u] = q.sleep[u]
        /\ q'.sleep[t] \in {None, Memory}
    <2>1. PICK Z : Z = q'
      OBVIOUS
    <2>2. CASE Z = q
      BY <1>1, <2>1, <2>2 DEF Awake
    <2>3. CASE Z = PSleeping(q, t, Memory)
      <3>1. (\A u \in Thread : u # t => Z.sleep[u] = q.sleep[u]) /\ Z.sleep[t] \in {None, Memory}
        BY <1>1, <1>2, <2>3, Facts, PSleeps
      <3> QED
        BY <2>1, <3>1
    <2> QED
      BY <1>1, <2>1, <2>2, <2>3
  <1> QED
    BY <1>1, <1>2, <1>3, OutsideChains

LEMMA GiveUpChains ==
  ASSUME IInv, Chains, NEW t \in Thread, GiveUpAndSleep(t)
  PROVE  Chains'
  <1>1. PICK N, r, s : /\ N = CallV(q, r) /\ s = Own[t]
                       /\ r = IF HasWaiters(spin[Memory]) THEN Memory ELSE None
    OBVIOUS
  <1>2. /\ Awake(q, t) /\ next' = next /\ head' = head /\ kicks' = kicks /\ busy' = busy
        /\ place' = [place EXCEPT ![t] = "woken"] /\ place[t] = "wait"
        /\ q' = PSleeping(N, t, s)
    BY <1>1 DEF GiveUpAndSleep, At, PSleeping
  <1>3. r \in Lock \cup {None} /\ s \in Semaphore /\ None \notin Lock
    BY <1>1, LocksAreSemaphores
  <1>4. /\ Settled(N)
        /\ \A u \in Thread : N.sleep[u] = q.sleep[u] \/ (q.sleep[u] \in Lock /\ N.sleep[u] = None)
    BY <1>1, <1>3, Facts, CallVWakes
  <1>5. Awake(N, t)
    BY <1>2, <1>3, <1>4 DEF Awake
  <1>6. PICK Z : Z = q'
    OBVIOUS
  <1>7. Z = PSleeping(N, t, s)
    BY <1>2, <1>6
  <1>8. (\A u \in Thread : u # t => Z.sleep[u] = N.sleep[u]) /\ Z.sleep[t] \in {None, s}
    BY <1>3, <1>4, <1>5, <1>7, PSleeps
  <1>9. /\ q'.sleep[t] \in Lock \cup {None, Own[t]}
        /\ \A u \in Thread : u # t =>
             q'.sleep[u] = q.sleep[u] \/ (q.sleep[u] \in Lock /\ q'.sleep[u] = None)
    BY <1>1, <1>4, <1>6, <1>8
  <1> QED
    BY <1>2, <1>9, OutsideChains

(* Who is kicked out of its sleep will wake the next one.                  *)
LEMMA KickChains ==
  ASSUME IInv, Chains, NEW t \in Thread, Kick(t)
  PROVE  Chains'
  <1>1. /\ ~Awake(q, t) /\ q' = VThread(q, t) /\ kicks' >= kicks /\ kicks \in Nat /\ kicks' \in Nat
        /\ place' = place /\ busy' = busy /\ head' = head /\ next' = next
    BY Facts DEF Kick
  <1>2. q.sleep[t] \in Semaphore /\ q.sleep \in [Thread -> Semaphore \cup {None}]
    BY <1>1, Facts DEF Awake
  <1>3. PICK s \in Semaphore : s = q.sleep[t]
    BY <1>2
  <1>4. PICK Z : Z = q'
    OBVIOUS
  <1>5. Z = VThread(q, t)
    BY <1>1, <1>4
  <1>6. /\ Settled(Z) /\ q.value[s] < 0
        /\ Z.value = [q.value EXCEPT ![s] = q.value[s] + 1]
        /\ Z.sleep = [q.sleep EXCEPT ![t] = None]
    BY <1>1, <1>3, <1>5, Facts, VThreadOne
  <1>7. \A u \in Thread : q'.sleep[u] = IF u = t THEN None ELSE q.sleep[u]
    BY <1>2, <1>4, <1>6
  <1>8. \A u \in Thread : Own[u] # None
    BY LocksAreSemaphores
  <1>9. \A u \in Thread : WillWake(u) => WillWake(u)'
    BY <1>1, <1>7 DEF WillWake, Awake
  <1>10. \A u \in Thread : Waiting(u)' => Waiting(u)
    BY <1>1, <1>7, <1>8 DEF Waiting
  <1>11. \A u \in Thread : q'.sleep[u] \in Lock \cup {None, Own[u]}
    BY <1>7 DEF Chains
  <1>12. \A u \in Thread : place'[u] \notin InChain => next[u] = None
    BY <1>1 DEF Chains
  <1>13. kicks' = 0 => kicks = 0
    BY <1>1
  <1> QED
    BY <1>1, <1>9, <1>10, <1>11, <1>12, <1>13, ChainsStay

(* The chain grows at its head, or goes over to the thread that wakes it.  *)
LEMMA WaitAtBlockChains ==
  ASSUME IInv, Chains, NEW t \in Thread, WaitAtBlock(t) \/ WakeupBlock(t)
  PROVE  Chains'
  <1>1. PICK p \in {"wait", "wakeup"} :
          /\ place[t] = "in" /\ q' = q /\ kicks' = kicks
          /\ next' = [next EXCEPT ![t] = head] /\ place' = [place EXCEPT ![t] = p]
          /\ p = "wait" => busy' = busy /\ busy # None /\ head' = t
    BY DEF WaitAtBlock, WakeupBlock, Chained, At
  <1>2. \A u \in Thread : place'[u] = IF u = t THEN p ELSE place[u]
    BY <1>1, Facts
  <1>3. next \in [Thread -> Thread \cup {None}] /\ head \in Thread \cup {None}
    BY DEF IInv, TypeOK
  <1>4. \A u \in Thread : next'[u] = IF u = t THEN head ELSE next[u]
    BY <1>1, <1>3
  <1>5. next[t] = None /\ t # None
    BY <1>1, LockAssumption DEF Chains, InChain
  <1>6. \A u \in Thread : WillWake(u) => u # t /\ WillWake(u)'
    BY <1>1, <1>2 DEF WillWake, Awake
  <1>7. p = "wakeup" => WillWake(t)'
    BY <1>2 DEF WillWake
  <1>8. ASSUME NEW S \in SUBSET Thread, HandedOn(S)'
        PROVE  HandedOn(S) /\ (p = "wait" => t \in S)
    <2>1. Starts' \subseteq S /\ \A u \in S : next'[u] \in S \cup {None}
      BY <1>8 DEF HandedOn
    <2>2. p = "wait" => t \in S
      BY <1>1, <1>5, <2>1 DEF Starts
    <2>3. head \in S \cup {None}
      <3>1. CASE p = "wait"
        BY <1>4, <2>1, <2>2, <3>1
      <3>2. CASE p = "wakeup"
        BY <1>4, <1>7, <2>1, <3>2 DEF Starts
      <3> QED
        BY <3>1, <3>2
    <2>4. \A u \in Thread : WillWake(u) => next[u] \in S \cup {None}
      BY <1>4, <1>6, <2>1 DEF Starts
    <2>5. Starts \subseteq S
      BY <2>3, <2>4 DEF Starts
    <2>6. \A u \in S : next[u] \in S \cup {None}
      BY <1>4, <1>5, <2>1
    <2> QED
      BY <2>2, <2>5, <2>6 DEF HandedOn
  <1>9. ASSUME kicks' = 0, NEW u \in Thread, Waiting(u)' PROVE Reachable(u)'
    <2>1. Waiting(u) \/ (u = t /\ p = "wait")
      BY <1>1, <1>2, <1>9 DEF Waiting
    <2>2. Waiting(u) => Reachable(u)
      BY <1>1, <1>9 DEF Chains
    <2>3. ASSUME NEW S \in SUBSET Thread, HandedOn(S)' PROVE u \in S
      BY <1>8, <2>1, <2>2, <2>3 DEF Reachable
    <2> QED
      BY <2>3 DEF Reachable
  <1>10. \A u \in Thread : q'.sleep[u] \in Lock \cup {None, Own[u]}
    BY <1>1 DEF Chains
  <1>11. \A u \in Thread : place'[u] \notin InChain => next'[u] = None
    BY <1>2, <1>4 DEF Chains, InChain
  <1> QED
    BY <1>9, <1>10, <1>11 DEF Chains

(* After a V of the semaphore of u nobody sleeps there, and nobody else's  *)
(* sleep has ended.                                                        *)
LEMMA WakesOwner ==
  ASSUME NEW Q, Settled(Q), NEW u \in Thread, NEW n \in {1, -1}, NEW N, N = V(Q, Own[u], n),
         \A x \in Thread : Q.sleep[x] \in Lock \cup {None, Own[x]}
  PROVE  /\ N.sleep[u] # Own[u]
         /\ \A x \in Thread : x # u => N.sleep[x] = Q.sleep[x]
         /\ N.sleep[u] \in {Q.sleep[u], None}
  <1>1. PICK s \in Semaphore : s = Own[u] /\ s \notin Lock /\ s # None
    BY LocksAreSemaphores
  <1>2. \A x \in Thread : Q.sleep[x] = s => x = u
    BY <1>1, LockAssumption
  <1>3. N = V(Q, s, n) /\ n \in Int
    BY <1>1
  <1>4. \A x \in Thread : N.sleep[x] = Q.sleep[x] \/ (Q.sleep[x] = s /\ N.sleep[x] = None)
    BY <1>3, VSettled
  <1>5. N.sleep[u] # s
    <2>1. CASE n = 1
      <3>0. N = V(Q, s, 1)
        BY <1>3, <2>1
      <3>1. /\ N.value = [Q.value EXCEPT ![s] = Q.value[s] + 1]
            /\ ~(Q.value[s] < 0) => N.sleep = Q.sleep
            /\ Q.value[s] < 0 =>
                 /\ Q.ring[s][1] \in Thread /\ Q.sleep[Q.ring[s][1]] = s
                 /\ N.sleep = [Q.sleep EXCEPT ![Q.ring[s][1]] = None]
        BY <3>0, VOne
      <3>2. CASE Q.value[s] < 0
        <4>1. PICK x \in Thread : x = Q.ring[s][1]
          BY <3>1, <3>2
        <4>2. x = u /\ N.sleep = [Q.sleep EXCEPT ![x] = None]
          BY <1>2, <3>1, <3>2, <4>1
        <4> QED
          BY <1>1, <4>2, SettledTypes
      <3>3. CASE ~(Q.value[s] < 0)
        <4>1. Len(Q.ring[s]) = 0 /\ N.sleep = Q.sleep
          BY <3>1, <3>3, SettledTypes
        <4>2. Ring(Q, s) = {}
          BY <4>1 DEF Ring, Members
        <4>3. Q.sleep[u] = s => u \in Ring(Q, s)
          BY <1>1, SettledTypes DEF Awake
        <4> QED
          BY <4>1, <4>2, <4>3
      <3> QED
        BY <3>2, <3>3
    <2>2. CASE n = -1
      <3>1. PICK k : k = Woken(Q, s, n)
        OBVIOUS
      <3>2. \A x \in Thread :
              N.sleep[x] = IF \E i \in 1..k : Q.ring[s][i] = x THEN None ELSE Q.sleep[x]
        BY <1>3, <3>1, VSleep
      <3>3. k = Len(Q.ring[s])
        BY <2>2, <3>1 DEF Woken
      <3>4. Q.sleep[u] = s => \E i \in 1..k : Q.ring[s][i] = u
        BY <1>1, <3>3, SettledTypes DEF Awake, Ring, Members
      <3> QED
        BY <1>1, <3>2, <3>4
    <2> QED
      BY <2>1, <2>2
  <1> QED
    BY <1>1, <1>2, <1>4, <1>5

(* The chain goes on from the thread that was woken: nobody but the waker  *)
(* is in the body, so that thread is not just about to sleep.              *)
LEMMA WakeChains ==
  ASSUME IInv, Chains, NEW t \in Thread, WakeNext(t) \/ MemoryWakeup(t)
  PROVE  Chains'
  <1>1. /\ Awake(q, t) /\ place[t] \in {"next", "wakeup"} /\ Has(t, Memory)
        /\ next' = [next EXCEPT ![t] = None]
        /\ busy' = busy /\ head' = head /\ kicks' = kicks
    BY DEF WakeNext, MemoryWakeup, At, Has
  <1>2. PICK p \in {"in", "leave"} : place' = [place EXCEPT ![t] = p]
    BY DEF WakeNext, MemoryWakeup
  <1>3. PICK u \in Thread \cup {None} : u = next[t]
    BY DEF IInv, TypeOK
  <1>4. u = None => q' = q
    BY <1>3 DEF WakeNext, MemoryWakeup
  <1>5. u # None =>
          /\ q'.sleep[u] # Own[u] /\ q'.sleep[u] \in {q.sleep[u], None}
          /\ \A x \in Thread : x # u => q'.sleep[x] = q.sleep[x]
    <2> SUFFICES ASSUME u # None
                 PROVE  /\ q'.sleep[u] # Own[u] /\ q'.sleep[u] \in {q.sleep[u], None}
                        /\ \A x \in Thread : x # u => q'.sleep[x] = q.sleep[x]
      OBVIOUS
    <2>1. q' = V(q, Own[u], -1) \/ q' = V(q, Own[u], 1)
      BY <1>3 DEF WakeNext, MemoryWakeup
    <2>2. PICK Z : Z = q'
      OBVIOUS
    <2>3. PICK n \in {1, -1} : Z = V(q, Own[u], n)
      BY <2>1, <2>2
    <2>4. Settled(q) /\ \A x \in Thread : q.sleep[x] \in Lock \cup {None, Own[x]}
      BY Facts DEF Chains
    <2>5. /\ Z.sleep[u] # Own[u]
          /\ \A x \in Thread : x # u => Z.sleep[x] = q.sleep[x]
          /\ Z.sleep[u] \in {q.sleep[u], None}
      BY <2>3, <2>4, WakesOwner
    <2> QED
      BY <2>2, <2>5
  <1>6. \A x \in Thread : place'[x] = IF x = t THEN p ELSE place[x]
    BY <1>2, Facts
  <1>7. \A x \in Thread : next'[x] = IF x = t THEN None ELSE next[x]
    BY <1>1 DEF IInv, TypeOK
  <1>8. ASSUME kicks = 0, u # None, u # t PROVE place[u] # "wait"
    <2>1. Proper(q.sleep[u], place[u], move[u])
      BY <1>8, Facts
    <2>2. place[u] = "wait" => Awake(q, u)
      BY <2>1 DEF Proper, Inside, Awake
    <2>3. place[u] = "wait" => Has(u, Memory)
      BY <2>2 DEF Has
    <2> QED
      BY <1>1, <1>8, <2>3, Alone
  <1>9. \A x \in Thread : Awake(q, x) => Awake(q, x)'
    BY <1>4, <1>5 DEF Awake
  <1>10. \A x \in Thread : WillWake(x) /\ x # t => WillWake(x)'
    BY <1>6, <1>9 DEF WillWake
  <1>11. ASSUME kicks = 0, NEW S \in SUBSET Thread, HandedOn(S)'
         PROVE  HandedOn((S \cup {u}) \ {None})
    <2>1. Starts' \subseteq S /\ \A x \in S : next'[x] \in S \cup {None}
      BY <1>11 DEF HandedOn
    <2>2. \A x \in Thread : WillWake(x)' => next'[x] \in S \cup {None}
      BY <2>1 DEF Starts
    <2>3. busy # None => head \in S \cup {None}
      BY <1>1, <2>1 DEF Starts
    <2>4. \A x \in Thread : WillWake(x) => next[x] \in S \cup {u, None}
      BY <1>3, <1>7, <1>10, <2>2
    <2>5. Starts \subseteq (S \cup {u}) \ {None}
      BY <2>3, <2>4 DEF Starts
    <2>6. \A x \in S : next[x] \in S \cup {u, None}
      BY <1>3, <1>7, <2>1
    <2>7. u # None => next[u] \in S \cup {u, None}
      <3> SUFFICES ASSUME u # None, u # t PROVE next[u] \in S \cup {u, None}
        BY <1>3
      <3>1. CASE place[u] \notin InChain
        BY <3>1 DEF Chains
      <3>2. CASE place[u] \in {"next", "wakeup"}
        BY <2>4, <3>2 DEF WillWake
      <3>3. CASE place[u] = "woken"
        <4>1. q.sleep[u] \notin Lock
          <5>1. Proper(q.sleep[u], place[u], move[u])
            BY Facts
          <5> QED
            BY <3>3, <5>1 DEF Proper, Inside
        <4>2. q'.sleep[u] = None
          BY <1>5, <4>1 DEF Chains
        <4>3. WillWake(u)'
          BY <1>6, <3>3, <4>2 DEF WillWake, Awake
        <4> QED
          BY <1>7, <2>2, <4>3
      <3> QED
        BY <1>8, <1>11, <3>1, <3>2, <3>3 DEF InChain
    <2> QED
      BY <2>5, <2>6, <2>7 DEF HandedOn
  <1>12. ASSUME kicks' = 0, NEW x \in Thread, Waiting(x)' PROVE Reachable(x)'
    <2>1. kicks = 0
      BY <1>1, <1>12
    <2>2. Own[x] # None
      BY LocksAreSemaphores
    <2>3. Waiting(x)
      BY <1>4, <1>5, <1>6, <1>12, <2>2 DEF Waiting
    <2>4. x # u
      <3> SUFFICES ASSUME x = u PROVE FALSE
        OBVIOUS
      <3>1. u # None
        BY LockAssumption
      <3>2. q'.sleep[u] # Own[u]
        BY <1>5, <3>1
      <3>3. place'[u] = "wait"
        BY <1>12, <3>2 DEF Waiting
      <3>4. u # t /\ place[u] = "wait"
        BY <1>6, <3>3
      <3> QED
        BY <1>8, <2>1, <3>1, <3>4
    <2>5. Reachable(x)
      BY <2>1, <2>3 DEF Chains
    <2>6. ASSUME NEW S \in SUBSET Thread, HandedOn(S)' PROVE x \in S
      <3>1. HandedOn((S \cup {u}) \ {None}) /\ (S \cup {u}) \ {None} \in SUBSET Thread
        BY <1>11, <2>1, <2>6
      <3> QED
        BY <2>4, <2>5, <3>1 DEF Reachable
    <2> QED
      BY <2>6 DEF Reachable
  <1>13. \A x \in Thread : q'.sleep[x] \in Lock \cup {None, Own[x]}
    BY <1>4, <1>5 DEF Chains
  <1>14. \A x \in Thread : place'[x] \notin InChain => next'[x] = None
    BY <1>1, <1>6, <1>7 DEF Chains
  <1> QED
    BY <1>12, <1>13, <1>14 DEF Chains

LEMMA InitChains == Init => Chains
  <1> SUFFICES ASSUME Init PROVE Chains
    OBVIOUS
  <1>1. \A t \in Thread : place[t] = "out" /\ q.sleep[t] = None /\ next[t] = None /\ Own[t] # None
    BY LocksAreSemaphores DEF Init
  <1> QED
    BY <1>1 DEF Chains, Waiting

LEMMA NextChains == IInv /\ Chains /\ [Next]_vars => Chains'
  <1> SUFFICES ASSUME IInv, Chains, [Next]_vars PROVE Chains'
    OBVIOUS
  <1>1. CASE UNCHANGED vars
    BY <1>1 DEF vars, Chains, Waiting, Reachable, HandedOn, Starts, WillWake, Awake
  <1>2. CASE Next
    <2>1. PICK t \in Thread : Works(t) \/ Enter(t) \/ StartDevice(t)
                                \/ WaitAtBlock(t) \/ WakeupBlock(t) \/ Kick(t)
      BY <1>2 DEF Next
    <2> QED
      BY <2>1, GoChains, CallChains, RelockChains, GiveUpChains, KickChains,
         WaitAtBlockChains, WakeChains DEF Works
  <1> QED
    BY <1>1, <1>2

(* wait_block.c, wait_wakeup.c: nobody who sleeps for a block is forgotten *)
(* by the chain, unless somebody was kicked out of its sleep at a lock and *)
(* is in the body beside the one that has it.                              *)
THEOREM MemoryLockWaitersAreReachable == Spec => []WaitersAreReachable
  <1>1. IInv /\ Chains => WaitersAreReachable
    BY DEF Chains, Waiting, WaitersAreReachable
  <1> QED
    BY <1>1, InitChains, NextChains, InitKeeps, NextKeeps, PTL DEF Spec
=============================================================================

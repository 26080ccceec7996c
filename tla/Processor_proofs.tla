-------------------------- MODULE Processor_proofs --------------------------
(***************************************************************************)
(* Proofs about Scheduler and about Processor, which extends it, for any   *)
(* finite set of processors and any number of threads and CPUs.            *)
(*                                                                         *)
(* Scheduler's actions are the operations of SchedulerOps, which keep the  *)
(* predicate Good (Ops_proofs).                                            *)
(*                                                                         *)
(* Processor: as in SpinLock the argument counts debtors: the counter of a *)
(* lock is one less the processors that hold it or have yet to withdraw an *)
(* attempt.                                                                *)
(* A processor that finds the counter positive therefore finds no holder,  *)
(* so no two hold the lock of one thread; and as only the kernel function  *)
(* of a thread puts it to sleep, it is awake on every other processor.     *)
(* Everything a step does to the locks is a step of one processor's slot   *)
(* (its place and what it has in hand) and of its current thread: PStep    *)
(* states once what such a step may be, and each action is one.            *)
(***************************************************************************)
EXTENDS Processor, SpinLock, Ops_proofs, FiniteSetTheorems

(* The inductive invariant: the scheduler state between two calls is good. *)
IInv == Good(Here, {})

(* It is the conjunction of what the run checks.                           *)
LEMMA InvariantIsGood ==
  IInv <=> TypeOK /\ CpuThreadAgree /\ NoIdleCpu /\ PriorityOrder
  BY DEF IInv, Good, Here, SchedState, Agree, BusyUnlessIn, Ordered,
         TypeOK, CpuThreadAgree, NoIdleCpu, PriorityOrder

(* An action that moves to a good state keeps the invariant.               *)
LEMMA BecomesGood ==
  ASSUME NEW r, Good(r, {}), Becomes(r)
  PROVE  IInv'
  <1>1. /\ Here.state' = r.state /\ Here.priority' = r.priority
        /\ Here.cpu_set_id' = r.cpu_set_id /\ Here.cpu_id' = r.cpu_id
        /\ Here.thread_id' = r.thread_id /\ Here.cpu_set_of' = r.cpu_set_of
    BY DEF Becomes, Here
  <1>2. Here' \in SchedState
    BY <1>1 DEF Good, SchedState, Here
  <1> QED
    BY <1>1, <1>2 DEF IInv, Good, Agree, BusyUnlessIn, Ordered

(* What each action does: it keeps the invariant, and the threads it starts*)
(* or stops are those the lemmas above allow.                              *)
LEMMA WakeStep ==
  ASSUME IInv, NEW t \in Thread, Wake(t)
  PROVE  /\ IInv' /\ state'[t] # "SLEEP"
         /\ priority' = priority /\ cpu_set_id' = cpu_set_id
         /\ \A v \in Thread \ {t} : state'[v] # state[v] =>
              /\ state[v] = "RUN" /\ state'[v] = "READY"
              /\ state'[t] = "RUN" /\ cpu_id'[t] = cpu_id[v]
              /\ priority[t] < priority[v]
  <1>1. Good(Here, {}) /\ Here.state[t] = "SLEEP"
    BY DEF Wake, Here, IInv
  <1>2. PICK r \in InsertResults(Here, t) : Becomes(r)
    BY DEF Wake
  <1>3. Good(r, {}) /\ Kept(Here, r) /\ Preempts(Here, r, t)
    BY <1>1, <1>2, InsertGood
  <1> QED
    BY <1>2, <1>3, BecomesGood DEF Becomes, Here, Kept, Preempts

LEMMA BlockStep ==
  ASSUME IInv, NEW t \in Thread, Block(t)
  PROVE  /\ IInv' /\ state'[t] = "SLEEP"
         /\ priority' = priority /\ cpu_set_id' = cpu_set_id
         /\ \A v \in Thread \ {t} : state'[v] # state[v] =>
              state[v] = "READY" /\ state'[v] = "RUN"
  <1>1. Good(Here, {}) /\ Here.state[t] # "SLEEP"
    BY DEF Block, Here, IInv
  <1>2. PICK r \in RemoveResults(Here, t) : Becomes(r)
    BY DEF Block
  <1>3. Good(r, {}) /\ Kept(Here, r) /\ HandsOver(Here, r, t)
    BY <1>1, <1>2, RemoveGood
  <1> QED
    BY <1>2, <1>3, BecomesGood DEF Becomes, Here, Kept, HandsOver

LEMMA ModifyStep ==
  ASSUME IInv, NEW t \in Thread, NEW p \in Priority, NEW s \in CpuSet, Modify(t, p, s)
  PROVE  /\ IInv' /\ cpu_set_id'[t] = s
         /\ \A v \in Thread : state'[v] = "SLEEP" <=> state[v] = "SLEEP"
         /\ \A v \in Thread \ {t} : state'[v] # state[v] =>
              cpu_set_id[v] \in {cpu_set_id[t], s}
         /\ \A v \in Thread \ {t} :
              priority'[v] = priority[v] /\ cpu_set_id'[v] = cpu_set_id[v]
  <1>1. Good(Here, {}) /\ p \in Int
    BY SchedulerConstants DEF IInv
  <1>2. PICK r \in ModifyResults(Here, t, p, s) : Becomes(r)
    BY DEF Modify
  <1>3. /\ Good(r, {}) /\ SameSleepers(Here, r) /\ r.cpu_set_id[t] = s
        /\ \A v \in Thread \ {t} : r.state[v] # Here.state[v] =>
             Here.cpu_set_id[v] \in {Here.cpu_set_id[t], s}
        /\ \A v \in Thread \ {t} : /\ r.priority[v] = Here.priority[v]
                                   /\ r.cpu_set_id[v] = Here.cpu_set_id[v]
    BY <1>1, <1>2, ModifyGood
  <1> QED
    BY <1>2, <1>3, BecomesGood DEF Becomes, Here, SameSleepers

LEMMA MoveStep ==
  ASSUME IInv, NEW c \in Cpu, NEW s \in CpuSet, Move(c, s)
  PROVE  /\ IInv'
         /\ priority' = priority /\ cpu_set_id' = cpu_set_id
         /\ \A v \in Thread : state'[v] = "SLEEP" <=> state[v] = "SLEEP"
  <1>1. Good(Here, {}) /\ Here.cpu_set_of[c] # s
    BY DEF Move, Here, IInv
  <1>2. PICK r \in MoveResults(Here, c, s) : Becomes(r)
    BY DEF Move
  <1>3. Good(r, {}) /\ SameThreads(Here, r)
    BY <1>1, <1>2, MoveGood
  <1> QED
    BY <1>2, <1>3, BecomesGood DEF Becomes, Here, SameThreads, SameSleepers

LEMMA StutterGood ==
  ASSUME IInv, UNCHANGED vars PROVE IInv'
  <1>1. Becomes(Here) /\ Good(Here, {})
    BY DEF Becomes, Here, vars, IInv
  <1> QED
    BY <1>1, BecomesGood

LEMMA InitGood == Init => IInv
  <1> SUFFICES ASSUME Init PROVE IInv
    OBVIOUS
  <1>1. TypeOK
    BY SchedulerConstants, BootConstants DEF Init, TypeOK
  <1>2. CpuThreadAgree
    BY SchedulerConstants, BootConstants DEF Init, CpuThreadAgree
  <1>3. NoIdleCpu /\ PriorityOrder
    BY DEF Init, NoIdleCpu, PriorityOrder
  <1> QED
    BY <1>1, <1>2, <1>3, InvariantIsGood

(* The scheduler of kernel/thread_heap.c, modify_pri.c and cpu_set.c keeps *)
(* the invariant from boot on.                                             *)
THEOREM SchedulerInvariant == Spec => []IInv
  <1>1. IInv /\ [Next]_vars => IInv'
    BY WakeStep, BlockStep, ModifyStep, MoveStep, StutterGood DEF Next
  <1> QED
    BY <1>1, InitGood, PTL DEF Spec

(* kernel/thread_heap.c, cpu.c, cpu_set.c, modify_pri.c: for any threads,  *)
(* CPUs, sets and priorities, no ready thread is ever better than a running*)
(* thread of its set.                                                      *)
THEOREM SchedulerPriorityOrder == Spec => []PriorityOrder
  BY SchedulerInvariant, InvariantIsGood, PTL

(* The scheduler never leaves a CPU idle while a thread of its set is ready*)
(* - for any number of CPU sets, also between which CPUs and threads move. *)
THEOREM SchedulerNoIdleCpu == Spec => []NoIdleCpu
  BY SchedulerInvariant, InvariantIsGood, PTL

(* Each CPU runs at most one thread and each running thread has one CPU,   *)
(* of its own set.                                                         *)
THEOREM SchedulerCpuThreadAgree == Spec => [](TypeOK /\ CpuThreadAgree)
  BY SchedulerInvariant, InvariantIsGood, PTL

(* thread_heap.c: a woken thread takes the CPU of one thread at most, of a *)
(* strictly worse one, for any priorities.                                 *)
THEOREM SchedulerWakePreempts == Spec => WakePreemptsOnlyWorse
  <1> DEFINE A == \A t, u \in Thread :
                    /\ state[t] = "SLEEP" /\ state'[t] # "SLEEP"
                    /\ state[u] = "RUN" /\ state'[u] # "RUN"
                    => /\ state'[t] = "RUN" /\ cpu_id'[t] = cpu_id[u]
                       /\ priority[t] < priority[u]
  <1>1. ASSUME IInv, [Next]_vars PROVE [A]_vars
    <2>1. SUFFICES ASSUME NEW t \in Thread, NEW u \in Thread,
                          state[t] = "SLEEP", state'[t] # "SLEEP",
                          state[u] = "RUN", state'[u] # "RUN"
                   PROVE  /\ state'[t] = "RUN" /\ cpu_id'[t] = cpu_id[u]
                          /\ priority[t] < priority[u]
      OBVIOUS
    <2>2. PICK x \in Thread : Wake(x)
      BY <1>1, <2>1, BlockStep, ModifyStep, MoveStep DEF Next, vars
    <2>3. t = x /\ u # x
      BY <1>1, <2>1, <2>2, WakeStep
    <2> QED
      BY <1>1, <2>1, <2>2, <2>3, WakeStep
  <1> QED
    BY <1>1, SchedulerInvariant, PTL DEF Spec, WakePreemptsOnlyWorse

(* modify_pri.c: the requeueing of one thread starts and stops only threads*)
(* of the set it leaves and of the one it enters, for any number of sets.  *)
THEOREM SchedulerModifyIsLocal == Spec => ModifyIsLocal
  <1> DEFINE A == \A t, u \in Thread :
                    /\ priority'[t] # priority[t] \/ cpu_set_id'[t] # cpu_set_id[t]
                    /\ u # t /\ state'[u] # state[u]
                    => /\ cpu_set_id[u] \in {cpu_set_id[t], cpu_set_id'[t]}
                       /\ {state[u], state'[u]} = {"READY", "RUN"}
  <1>1. ASSUME IInv, [Next]_vars PROVE [A]_vars
    <2>1. SUFFICES ASSUME NEW t \in Thread, NEW u \in Thread,
                          priority'[t] # priority[t] \/ cpu_set_id'[t] # cpu_set_id[t],
                          u # t, state'[u] # state[u]
                   PROVE  /\ cpu_set_id[u] \in {cpu_set_id[t], cpu_set_id'[t]}
                          /\ {state[u], state'[u]} = {"READY", "RUN"}
      OBVIOUS
    <2>2. PICK x \in Thread, p \in Priority, s \in CpuSet : Modify(x, p, s)
      BY <1>1, <2>1, WakeStep, BlockStep, MoveStep DEF Next, vars
    <2>3. x = t
      BY <1>1, <2>1, <2>2, ModifyStep
    <2>4. /\ IInv' /\ cpu_set_id'[t] = s
          /\ cpu_set_id[u] \in {cpu_set_id[t], s}
          /\ state'[u] = "SLEEP" <=> state[u] = "SLEEP"
      BY <1>1, <2>1, <2>2, <2>3, ModifyStep
    <2>5. /\ state[u] \in {"SLEEP", "READY", "RUN"}
          /\ state'[u] \in {"SLEEP", "READY", "RUN"}
      BY <1>1, <2>4 DEF IInv, Good, Here, SchedState
    <2> QED
      BY <2>1, <2>4, <2>5
  <1> QED
    BY <1>1, SchedulerInvariant, PTL DEF Spec, ModifyIsLocal

-----------------------------------------------------------------------------
(* What the processors hold and owe.                                       *)
Slot == [place : Places, seen : Thread \cup {None}, i : 0..NCpu,
         flag : BOOLEAN, again : BOOLEAN]

Inside  == {"tick", "ticked", "call", "called"}
Debited == Inside \cup {"missed", "failed"}
AwakePlaces   == {"out", "drop", "missed", "tick", "chosen", "failed", "call"}

Unit(c) == IF c THEN 1 ELSE 0

(* What a processor with slot x and current thread c holds and owes.       *)
HeldOf(x, c) ==
  IF x.place = "check" THEN x.seen
  ELSE IF x.place \in {"scan", "saw", "skip"} THEN None ELSE c
DebtOf(x, c, t) ==
  Unit(HeldOf(x, c) = t) + Unit(x.place = "skip" /\ x.seen = t)
KernelDebtOf(x) == Unit(x.place \in Debited)

HoldersOf(t)  == {p \in Processor : Held(p) = t}
Undoers(t)  == {p \in Processor : Place(p) = "skip" /\ at[p].seen = t}
KernelUsers == {p \in Processor : Place(p) \in Debited}

PTyped ==
  /\ os_lock \in Int /\ thread_lock \in [Thread -> Int]
  /\ function \in [Thread -> {"none", "call", "own"}]
  /\ owed \in SUBSET Thread /\ pool \in SUBSET Thread
  /\ current \in [Processor -> Thread \cup {None}]
  /\ at \in [Processor -> Slot]
  /\ current_cpu \in Cpu

(* A processor that needs a thread has one.                                *)
PlacedOf(x, c) ==
  /\ x.place \in {"saw", "check", "skip"} => x.seen \in Thread
  /\ x.place \in {"chosen", "call"} => c \in Thread
SlotsPlaced == \A p \in Processor : PlacedOf(at[p], current[p])

Balanced ==
  /\ \A t \in Thread :
       thread_lock[t] = 1 - Cardinality(HoldersOf(t)) - Cardinality(Undoers(t))
  /\ os_lock = 1 - Cardinality(KernelUsers)

Exclusive ==
  /\ OneProcessorPerThread
  /\ \A p, q \in Processor : Place(p) \in Inside /\ Place(q) \in Inside => p = q

PInv ==
  /\ IInv /\ PTyped /\ SlotsPlaced /\ Balanced /\ Exclusive /\ CurrentIsAwake

-----------------------------------------------------------------------------
(* What a step may be that leaves processor p with slot x and thread c.    *)
Moves(p, x, c) ==
  /\ at' = [at EXCEPT ![p] = x]
  /\ current' = [current EXCEPT ![p] = c]
  /\ x \in Slot /\ c \in Thread \cup {None} /\ PlacedOf(x, c)

LocksMove(p, x, c) ==
  /\ thread_lock' \in [Thread -> Int] /\ os_lock' \in Int
  /\ \A t \in Thread : thread_lock'[t] =
       thread_lock[t] + DebtOf(at[p], current[p], t) - DebtOf(x, c, t)
  /\ os_lock' = os_lock + KernelDebtOf(at[p]) - KernelDebtOf(x)
  /\ \/ HeldOf(x, c) \in {None, HeldOf(at[p], current[p])}
     \/ HeldOf(x, c) \in Thread /\ thread_lock[HeldOf(x, c)] > 0
  /\ x.place \in Inside => at[p].place \in Inside \/ os_lock > 0

TasksMove ==
  /\ function' \in [Thread -> {"none", "call", "own"}]
  /\ owed' \in SUBSET Thread /\ pool' \in SUBSET Thread
  /\ current_cpu' \in Cpu

(* Only the kernel function of p puts a thread to sleep, the current one.  *)
SleepersMove(p, x, c) ==
  /\ IInv'
  /\ \A v \in Thread : state'[v] = "SLEEP" =>
       state[v] = "SLEEP" \/ (at[p].place = "call" /\ v = current[p])
  /\ x.place \in AwakePlaces /\ c # None => state'[c] # "SLEEP"

PStep(p, x, c) ==
  Moves(p, x, c) /\ LocksMove(p, x, c) /\ TasksMove /\ SleepersMove(p, x, c)

-----------------------------------------------------------------------------
LEMMA HeldIs ==
  ASSUME NEW p \in Processor
  PROVE  Held(p) = HeldOf(at[p], current[p]) /\ Place(p) = at[p].place
  BY DEF Held, HeldOf, Place

LEMMA HeldWillBe ==
  ASSUME NEW p \in Processor
  PROVE  Held(p)' = HeldOf(at'[p], current'[p]) /\ Place(p)' = at'[p].place
  BY DEF Held, HeldOf, Place

(* Two sets of processors that differ in p at most.                        *)
LEMMA OneMoves ==
  ASSUME NEW p \in Processor, NEW S \in SUBSET Processor, NEW T \in SUBSET Processor,
         \A q \in Processor \ {p} : q \in S <=> q \in T
  PROVE  /\ Cardinality(S) \in Nat /\ Cardinality(T) \in Nat
         /\ Cardinality(T) = Cardinality(S) - Unit(p \in S) + Unit(p \in T)
  <1>1. /\ IsFiniteSet(S) /\ IsFiniteSet(T)
        /\ Cardinality(S) \in Nat /\ Cardinality(T) \in Nat
    BY FS_Subset, FS_CardinalityType, ProcessorAssumption
  <1>2. CASE p \in S <=> p \in T
    <2>1. S = T
      BY <1>2
    <2> QED
      BY <1>1, <1>2, <2>1 DEF Unit
  <1>3. CASE p \in S /\ p \notin T
    <2>1. T = S \ {p}
      BY <1>3
    <2> QED
      BY <1>1, <1>3, <2>1, FS_RemoveElement DEF Unit
  <1>4. CASE p \notin S /\ p \in T
    <2>1. T = S \cup {p}
      BY <1>4
    <2> QED
      BY <1>1, <1>4, <2>1, FS_AddElement DEF Unit
  <1> QED
    BY <1>2, <1>3, <1>4

(* A set of processors of no element is empty.                             *)
LEMMA HoldersCounted ==
  ASSUME NEW S \in SUBSET Processor
  PROVE  Cardinality(S) \in Nat /\ (Cardinality(S) = 0 => S = {})
  <1>1. IsFiniteSet(S)
    BY FS_Subset, ProcessorAssumption
  <1>2. Cardinality(S) \in Nat
    BY <1>1, FS_CardinalityType
  <1>3. Cardinality(S) = 0 => S = {}
    BY <1>1, FS_EmptySet
  <1> QED
    BY <1>2, <1>3

LEMMA OthersStay ==
  ASSUME PTyped, NEW p \in Processor, NEW x, NEW c, Moves(p, x, c)
  PROVE  /\ at'[p] = x /\ current'[p] = c
         /\ \A q \in Processor \ {p} : at'[q] = at[q] /\ current'[q] = current[q]
  BY DEF PTyped, Moves

LEMMA StepKeepsTyped ==
  ASSUME PTyped, SlotsPlaced, NEW p \in Processor, NEW x, NEW c, PStep(p, x, c)
  PROVE  PTyped' /\ SlotsPlaced'
  <1>1. PTyped'
    BY DEF PTyped, PStep, Moves, LocksMove, TasksMove
  <1>2. Moves(p, x, c) /\ PlacedOf(x, c)
    BY DEF PStep, Moves
  <1>3. /\ at'[p] = x /\ current'[p] = c
        /\ \A q \in Processor \ {p} : at'[q] = at[q] /\ current'[q] = current[q]
    BY <1>2, OthersStay
  <1>4. ASSUME NEW q \in Processor PROVE PlacedOf(at'[q], current'[q])
    <2>1. CASE q = p
      BY <1>2, <1>3, <2>1
    <2>2. CASE q # p
      BY <1>3, <2>2 DEF SlotsPlaced
    <2> QED
      BY <2>1, <2>2
  <1>5. SlotsPlaced'
    BY <1>4 DEF SlotsPlaced, PlacedOf
  <1> QED
    BY <1>1, <1>5

(* The counters stay one less the debtors.                                 *)
LEMMA StepKeepsBalance ==
  ASSUME PTyped, Balanced, NEW p \in Processor, NEW x, NEW c, PStep(p, x, c)
  PROVE  Balanced'
  <1>1. /\ at'[p] = x /\ current'[p] = c
        /\ \A q \in Processor \ {p} : at'[q] = at[q] /\ current'[q] = current[q]
    BY OthersStay DEF PStep
  <1>2. ASSUME NEW t \in Thread
        PROVE  (thread_lock[t] = 1 - Cardinality(HoldersOf(t)) - Cardinality(Undoers(t)))'
    <2> DEFINE H == HoldersOf(t)
               G == HoldersOf(t)'
               U == Undoers(t)
               W == Undoers(t)'
    <2>1. /\ H \in SUBSET Processor /\ G \in SUBSET Processor
          /\ \A q \in Processor \ {p} : q \in H <=> q \in G
          /\ p \in H <=> HeldOf(at[p], current[p]) = t
          /\ p \in G <=> HeldOf(x, c) = t
      BY <1>1 DEF HoldersOf, Held, HeldOf, Place
    <2>2. /\ U \in SUBSET Processor /\ W \in SUBSET Processor
          /\ \A q \in Processor \ {p} : q \in U <=> q \in W
          /\ p \in U <=> at[p].place = "skip" /\ at[p].seen = t
          /\ p \in W <=> x.place = "skip" /\ x.seen = t
      BY <1>1 DEF Undoers, Place
    <2>3. /\ thread_lock[t] = 1 - Cardinality(H) - Cardinality(U)
          /\ thread_lock'[t] = thread_lock[t] + DebtOf(at[p], current[p], t) - DebtOf(x, c, t)
      BY DEF Balanced, PStep, LocksMove
    <2> HIDE DEF H, G, U, W
    <2>4. /\ Cardinality(H) \in Nat /\ Cardinality(G) \in Nat
          /\ Cardinality(G) = Cardinality(H) - Unit(p \in H) + Unit(p \in G)
      BY <2>1, OneMoves
    <2>5. /\ Cardinality(U) \in Nat /\ Cardinality(W) \in Nat
          /\ Cardinality(W) = Cardinality(U) - Unit(p \in U) + Unit(p \in W)
      BY <2>2, OneMoves
    <2>6. thread_lock'[t] = 1 - Cardinality(G) - Cardinality(W)
      BY <2>1, <2>2, <2>3, <2>4, <2>5 DEF DebtOf, Unit
    <2> QED
      BY <2>6 DEF G, W
  <1>3. (os_lock = 1 - Cardinality(KernelUsers))'
    <2> DEFINE K == KernelUsers
               L == KernelUsers'
    <2>1. /\ K \in SUBSET Processor /\ L \in SUBSET Processor
          /\ \A q \in Processor \ {p} : q \in K <=> q \in L
          /\ p \in K <=> at[p].place \in Debited
          /\ p \in L <=> x.place \in Debited
      BY <1>1 DEF KernelUsers, Place
    <2>2. /\ os_lock = 1 - Cardinality(K)
          /\ os_lock' = os_lock + KernelDebtOf(at[p]) - KernelDebtOf(x)
      BY DEF Balanced, PStep, LocksMove
    <2> HIDE DEF K, L
    <2>3. /\ Cardinality(K) \in Nat /\ Cardinality(L) \in Nat
          /\ Cardinality(L) = Cardinality(K) - Unit(p \in K) + Unit(p \in L)
      BY <2>1, OneMoves
    <2>4. os_lock' = 1 - Cardinality(L)
      BY <2>1, <2>2, <2>3 DEF KernelDebtOf, Unit
    <2> QED
      BY <2>4 DEF L
  <1> QED
    BY <1>2, <1>3 DEF Balanced

(* A lock that is won had no holder.                                       *)
LEMMA StepKeepsExclusion ==
  ASSUME PTyped, Balanced, Exclusive,
         NEW p \in Processor, NEW x, NEW c, PStep(p, x, c)
  PROVE  Exclusive'
  <1>1. /\ at'[p] = x /\ current'[p] = c
        /\ \A q \in Processor \ {p} : at'[q] = at[q] /\ current'[q] = current[q]
    BY OthersStay DEF PStep
  <1>2. /\ Held(p)' = HeldOf(x, c) /\ Place(p)' = x.place
        /\ \A q \in Processor \ {p} : Held(q)' = Held(q) /\ Place(q)' = Place(q)
    BY <1>1 DEF Held, HeldOf, Place
  <1>3. ASSUME NEW t \in Thread, thread_lock[t] > 0, NEW q \in Processor
        PROVE  Held(q) # t
    <2>1. /\ Cardinality(HoldersOf(t)) \in Nat /\ Cardinality(Undoers(t)) \in Nat
          /\ Cardinality(HoldersOf(t)) = 0 => HoldersOf(t) = {}
      <3>1. HoldersOf(t) \in SUBSET Processor /\ Undoers(t) \in SUBSET Processor
        BY DEF HoldersOf, Undoers
      <3> QED
        BY <3>1, HoldersCounted
    <2>2. thread_lock[t] = 1 - Cardinality(HoldersOf(t)) - Cardinality(Undoers(t))
      BY DEF Balanced
    <2>3. Cardinality(HoldersOf(t)) = 0
      BY <1>3, <2>1, <2>2
    <2> QED
      BY <2>1, <2>3 DEF HoldersOf
  <1>4. ASSUME NEW q \in Processor \ {p}, Held(p)' # None
        PROVE  Held(p)' # Held(q)'
    <2>1. CASE HeldOf(x, c) = HeldOf(at[p], current[p])
      BY <1>2, <1>4, <2>1, HeldIs DEF Exclusive, OneProcessorPerThread
    <2>2. CASE HeldOf(x, c) # HeldOf(at[p], current[p])
      <3>1. HeldOf(x, c) \in Thread /\ thread_lock[HeldOf(x, c)] > 0
        BY <1>2, <1>4, <2>2 DEF PStep, LocksMove
      <3> QED
        BY <1>2, <1>3, <3>1
    <2> QED
      BY <2>1, <2>2
  <1>5. OneProcessorPerThread'
    BY <1>2, <1>4 DEF Exclusive, OneProcessorPerThread
  <1>6. ASSUME NEW q \in Processor \ {p}, Place(p)' \in Inside
        PROVE  Place(q)' \notin Inside
    <2>1. CASE Place(p) \in Inside
      BY <1>2, <2>1 DEF Exclusive
    <2>2. CASE Place(p) \notin Inside
      <3>1. os_lock > 0 /\ os_lock = 1 - Cardinality(KernelUsers)
        BY <1>2, <1>6, <2>2, HeldIs DEF PStep, LocksMove, Balanced
      <3>2. KernelUsers \in SUBSET Processor
        BY DEF KernelUsers
      <3>3. KernelUsers = {}
        BY <3>1, <3>2, HoldersCounted
      <3> QED
        BY <1>2, <3>3 DEF KernelUsers, Debited
    <2> QED
      BY <2>1, <2>2
  <1> QED
    BY <1>2, <1>5, <1>6 DEF Exclusive

(* A processor that runs for a thread holds it, so that nobody else's      *)
(* kernel function is about it.                                            *)
LEMMA StepKeepsAwake ==
  ASSUME PTyped, Exclusive, CurrentIsAwake, NEW p \in Processor, NEW x, NEW c, PStep(p, x, c)
  PROVE  CurrentIsAwake'
  <1>1. /\ at'[p] = x /\ current'[p] = c
        /\ \A q \in Processor \ {p} : at'[q] = at[q] /\ current'[q] = current[q]
    BY OthersStay DEF PStep
  <1>2. SUFFICES ASSUME NEW q \in Processor, at'[q].place \in AwakePlaces, current'[q] # None
                 PROVE  state'[current'[q]] # "SLEEP"
    BY DEF CurrentIsAwake, AwakePlaces, Place
  <1>3. CASE q = p
    BY <1>1, <1>2, <1>3 DEF PStep, SleepersMove
  <1>4. CASE q # p
    <2>1. /\ at[q].place \in AwakePlaces /\ current'[q] = current[q] /\ current[q] \in Thread
      BY <1>1, <1>2, <1>4 DEF PTyped
    <2>2. state[current[q]] # "SLEEP" /\ Held(q) = current[q]
      BY <1>2, <2>1 DEF CurrentIsAwake, AwakePlaces, Place, Held
    <2>3. at[p].place = "call" => Held(p) = current[p]
      BY DEF Held, Place
    <2>4. at[p].place = "call" => current[q] # current[p]
      BY <1>2, <1>4, <2>1, <2>2, <2>3 DEF Exclusive, OneProcessorPerThread
    <2> QED
      BY <2>1, <2>2, <2>4 DEF PStep, SleepersMove
  <1> QED
    BY <1>3, <1>4

LEMMA StepKeeps ==
  ASSUME PInv, NEW p \in Processor, NEW x, NEW c, PStep(p, x, c)
  PROVE  PInv'
  <1>1. IInv'
    BY DEF PStep, SleepersMove
  <1> QED
    BY <1>1, StepKeepsTyped, StepKeepsBalance, StepKeepsExclusion, StepKeepsAwake DEF PInv

-----------------------------------------------------------------------------
(* Slots.                                                                  *)
LEMMA NCpuType == NCpu \in Nat
  BY FS_CardinalityType, ProcessorAssumption DEF NCpu

LEMMA AtType ==
  ASSUME NEW place \in Places
  PROVE  /\ At(place) \in Slot /\ At(place).place = place
         /\ At(place).seen = None
  BY NCpuType DEF At, Slot

LEMMA EnteringType ==
  ASSUME NEW flag \in BOOLEAN, NEW again \in BOOLEAN
  PROVE  /\ Entering(flag, again) \in Slot /\ Entering(flag, again).place = "enter"
         /\ Entering(flag, again).seen = None
  <1>1. (Rotating /\ flag) \in BOOLEAN
    OBVIOUS
  <1>2. "enter" \in Places
    BY DEF Places
  <1> QED
    BY <1>1, <1>2, NCpuType DEF Entering, Slot

(* The same slot at another place.                                         *)
LEMMA ReplaceType ==
  ASSUME NEW x \in Slot, NEW place \in Places
  PROVE  /\ [x EXCEPT !.place = place] \in Slot
         /\ [x EXCEPT !.place = place].place = place
         /\ [x EXCEPT !.place = place].seen = x.seen
  BY DEF Slot

(* A step that leaves the scheduler alone, and one of it.                  *)
LEMMA StillScheduled ==
  ASSUME IInv, UNCHANGED vars
  PROVE  IInv' /\ state' = state
  BY StutterGood DEF vars

LEMMA TaskTypes ==
  ASSUME PTyped, UNCHANGED <<tasks, current_cpu>>
  PROVE  TasksMove
  BY DEF PTyped, TasksMove, tasks

(* Steps that leave the locks of the threads, and the scheduler, alone.    *)
LEMMA KernelLockMoves ==
  ASSUME PTyped, NEW p \in Processor, NEW x, NEW c, thread_lock' = thread_lock,
         HeldOf(x, c) = HeldOf(at[p], current[p]),
         x.place # "skip", at[p].place # "skip",
         os_lock' = os_lock + KernelDebtOf(at[p]) - KernelDebtOf(x), os_lock' \in Int,
         x.place \in Inside => at[p].place \in Inside \/ os_lock > 0
  PROVE  LocksMove(p, x, c)
  BY DEF PTyped, LocksMove, DebtOf, Unit

LEMMA SameSchedule ==
  ASSUME IInv, NEW p \in Processor, NEW x, NEW c, UNCHANGED vars,
         x.place \in AwakePlaces /\ c # None => state[c] # "SLEEP"
  PROVE  SleepersMove(p, x, c)
  BY StillScheduled DEF SleepersMove

(* The old slot of the processor.                                          *)
LEMMA OldSlot ==
  ASSUME PInv, NEW p \in Processor
  PROVE  /\ at[p] \in Slot /\ Place(p) = at[p].place
         /\ current[p] \in Thread \cup {None}
         /\ PlacedOf(at[p], current[p])
         /\ at[p].place \in AwakePlaces /\ current[p] # None => state[current[p]] # "SLEEP"
         /\ current = [current EXCEPT ![p] = current[p]]
  BY DEF PInv, PTyped, SlotsPlaced, CurrentIsAwake, AwakePlaces, Place

-----------------------------------------------------------------------------
(* The two ways into the kernel.                                           *)
LEMMA SystemCallStep ==
  ASSUME PInv, NEW p \in Processor, SystemCall(p)
  PROVE  PInv'
  <1> DEFINE x == Entering(FALSE, FALSE)
             c == current[p]
  <1>1. /\ x \in Slot /\ x.place = "enter" /\ at[p].place = "out"
        /\ c \in Thread
    BY EnteringType, OldSlot DEF SystemCall
  <1>2. Moves(p, x, c)
    BY <1>1, OldSlot DEF SystemCall, Go, Moves, PlacedOf
  <1> HIDE DEF x
  <1>3. LocksMove(p, x, c)
    <2>1. HeldOf(x, c) = HeldOf(at[p], current[p])
      BY <1>1 DEF HeldOf
    <2>2. os_lock' = os_lock /\ thread_lock' = thread_lock /\ os_lock \in Int
      BY DEF SystemCall, locks, PInv, PTyped
    <2>3. KernelDebtOf(at[p]) = 0 /\ KernelDebtOf(x) = 0 /\ x.place \notin Inside
      BY <1>1 DEF KernelDebtOf, Unit, Debited, Inside
    <2> QED
      BY <1>1, <2>1, <2>2, <2>3, KernelLockMoves DEF PInv
  <1>4. TasksMove
    BY <1>1 DEF PInv, PTyped, TasksMove, SystemCall
  <1>5. SleepersMove(p, x, c)
    BY <1>1, SameSchedule DEF PInv, SystemCall, AwakePlaces
  <1> QED
    BY <1>2, <1>3, <1>4, <1>5, StepKeeps DEF PStep

LEMMA TimerStep ==
  ASSUME PInv, NEW p \in Processor, Timer(p)
  PROVE  PInv'
  <1> DEFINE x == At("drop")
             c == current[p]
  <1>1. x \in Slot /\ x.place = "drop" /\ at[p].place = "out"
    BY AtType, OldSlot DEF Timer, Places
  <1>2. Moves(p, x, c)
    BY <1>1, OldSlot DEF Timer, Go, Moves, PlacedOf
  <1> HIDE DEF x
  <1>3. LocksMove(p, x, c)
    <2>1. HeldOf(x, c) = HeldOf(at[p], current[p])
      BY <1>1 DEF HeldOf
    <2>2. os_lock' = os_lock /\ thread_lock' = thread_lock /\ os_lock \in Int
      BY DEF Timer, locks, PInv, PTyped
    <2>3. KernelDebtOf(at[p]) = 0 /\ KernelDebtOf(x) = 0 /\ x.place \notin Inside
      BY <1>1 DEF KernelDebtOf, Unit, Debited, Inside
    <2> QED
      BY <1>1, <2>1, <2>2, <2>3, KernelLockMoves DEF PInv
  <1>4. TasksMove
    BY TaskTypes DEF PInv, Timer
  <1>5. SleepersMove(p, x, c)
    BY <1>1, OldSlot, SameSchedule DEF PInv, Timer, AwakePlaces
  <1> QED
    BY <1>2, <1>3, <1>4, <1>5, StepKeeps DEF PStep

(* lock_os_kernel, for a tick and for a call.                              *)
LEMMA TryKernelStep ==
  ASSUME PInv, NEW p \in Processor,
         \/ TryKernel(p, "drop", "tick", "missed")
         \/ TryKernel(p, "chosen", "call", "failed")
  PROVE  PInv'
  <1>1. PICK from \in {"drop", "chosen"}, won \in {"tick", "call"},
             lost \in {"missed", "failed"} :
          /\ TryKernel(p, from, won, lost)
          /\ won = "call" => from = "chosen"
    OBVIOUS
  <1>2. PICK place \in {"tick", "call", "missed", "failed"} :
          /\ place = IF Won(os_lock) THEN won ELSE lost
          /\ place \in Inside => os_lock > 0
          /\ place = "call" => from = "chosen"
    BY <1>1 DEF Won, Inside
  <1> DEFINE x == At(place)
             c == current[p]
  <1>3. x \in Slot /\ x.place = place /\ at[p].place = from
    BY <1>1, AtType, OldSlot DEF TryKernel, Places
  <1>4. Moves(p, x, c)
    BY <1>1, <1>2, <1>3, OldSlot DEF TryKernel, Go, Moves, PlacedOf
  <1> HIDE DEF x
  <1>5. LocksMove(p, x, c)
    <2>1. HeldOf(x, c) = HeldOf(at[p], current[p])
      BY <1>1, <1>2, <1>3 DEF HeldOf
    <2>2. os_lock' = os_lock - 1 /\ thread_lock' = thread_lock /\ os_lock \in Int
      BY <1>1 DEF TryKernel, PInv, PTyped
    <2>3. KernelDebtOf(at[p]) = 0 /\ KernelDebtOf(x) = 1
      BY <1>3 DEF KernelDebtOf, Unit, Debited, Inside
    <2> QED
      BY <1>2, <1>3, <2>1, <2>2, <2>3, KernelLockMoves DEF PInv
  <1>6. TasksMove
    BY <1>1, TaskTypes DEF PInv, TryKernel
  <1>7. SleepersMove(p, x, c)
    BY <1>1, <1>3, OldSlot, SameSchedule DEF PInv, TryKernel, AwakePlaces
  <1> QED
    BY <1>4, <1>5, <1>6, <1>7, StepKeeps DEF PStep

(* unlock_os_kernel, after a tick, a call, or an attempt that failed.      *)
LEMMA GiveKernelStep ==
  ASSUME PInv, NEW p \in Processor, NEW from \in {"missed", "ticked", "failed", "called"},
         NEW flag \in BOOLEAN, NEW again \in BOOLEAN,
         GiveKernel(p, from, Entering(flag, again))
  PROVE  PInv'
  <1> DEFINE x == Entering(flag, again)
             c == current[p]
  <1>1. x \in Slot /\ x.place = "enter" /\ at[p].place = from
    BY EnteringType, OldSlot DEF GiveKernel
  <1>2. Moves(p, x, c)
    BY <1>1, OldSlot DEF GiveKernel, Go, Moves, PlacedOf
  <1> HIDE DEF x
  <1>3. LocksMove(p, x, c)
    <2>1. HeldOf(x, c) = HeldOf(at[p], current[p])
      BY <1>1 DEF HeldOf
    <2>2. os_lock' = os_lock + 1 /\ thread_lock' = thread_lock /\ os_lock \in Int
      BY DEF GiveKernel, PInv, PTyped
    <2>3. KernelDebtOf(at[p]) = 1 /\ KernelDebtOf(x) = 0 /\ x.place \notin Inside
      BY <1>1 DEF KernelDebtOf, Unit, Debited, Inside
    <2> QED
      BY <1>1, <2>1, <2>2, <2>3, KernelLockMoves DEF PInv
  <1>4. TasksMove
    BY TaskTypes DEF PInv, GiveKernel
  <1>5. SleepersMove(p, x, c)
    BY <1>1, SameSchedule DEF PInv, GiveKernel, AwakePlaces
  <1> QED
    BY <1>2, <1>3, <1>4, <1>5, StepKeeps DEF PStep

(* The scheduler's part of a tick and of kernel functions: except for the  *)
(* thread a function puts to sleep, nobody falls asleep.                   *)
LEMMA WakesOrChanges ==
  ASSUME IInv,
         \/ UNCHANGED vars
         \/ \E u \in Thread : Wake(u)
         \/ \E u \in Thread, y \in Priority, s \in CpuSet : Modify(u, y, s)
         \/ \E d \in Cpu, s \in CpuSet : Move(d, s)
  PROVE  IInv' /\ \A v \in Thread : state'[v] = "SLEEP" => state[v] = "SLEEP"
  <1>1. CASE UNCHANGED vars
    BY <1>1, StillScheduled
  <1>2. CASE \E u \in Thread : Wake(u)
    <2>1. PICK u \in Thread : Wake(u)
      BY <1>2
    <2>2. /\ IInv' /\ state'[u] # "SLEEP"
          /\ \A v \in Thread \ {u} : state'[v] # state[v] => state'[v] = "READY"
      BY <2>1, WakeStep
    <2> QED
      BY <2>2
  <1>3. CASE \E u \in Thread, y \in Priority, s \in CpuSet : Modify(u, y, s)
    BY <1>3, ModifyStep
  <1>4. CASE \E d \in Cpu, s \in CpuSet : Move(d, s)
    BY <1>4, MoveStep
  <1> QED
    BY <1>1, <1>2, <1>3, <1>4

LEMMA TickStep ==
  ASSUME PInv, NEW p \in Processor, Tick(p)
  PROVE  PInv'
  <1> DEFINE x == At("ticked")
             c == current[p]
  <1>1. x \in Slot /\ x.place = "ticked" /\ at[p].place = "tick"
    BY AtType, OldSlot DEF Tick, Places
  <1>2. Moves(p, x, c)
    BY <1>1, OldSlot DEF Tick, Go, Moves, PlacedOf
  <1> HIDE DEF x
  <1>3. LocksMove(p, x, c)
    <2>1. HeldOf(x, c) = HeldOf(at[p], current[p])
      BY <1>1 DEF HeldOf
    <2>2. os_lock' = os_lock /\ thread_lock' = thread_lock /\ os_lock \in Int
      BY DEF Tick, locks, PInv, PTyped
    <2>3. /\ KernelDebtOf(at[p]) = 1 /\ KernelDebtOf(x) = 1
          /\ x.place \in Inside /\ at[p].place \in Inside
      BY <1>1 DEF KernelDebtOf, Unit, Debited, Inside
    <2> QED
      BY <1>1, <2>1, <2>2, <2>3, KernelLockMoves DEF PInv
  <1>4. TasksMove
    BY TaskTypes DEF PInv, Tick
  <1>5. IInv' /\ \A v \in Thread : state'[v] = "SLEEP" => state[v] = "SLEEP"
    <2>1. \A u \in Thread : cpu_set_id[u] \in CpuSet
      BY InvariantIsGood DEF PInv, TypeOK
    <2>2. \/ UNCHANGED vars
          \/ \E u \in Thread : Wake(u)
          \/ \E u \in Thread, y \in Priority, s \in CpuSet : Modify(u, y, s)
      BY <2>1 DEF Tick
    <2> QED
      BY <2>2, WakesOrChanges DEF PInv
  <1>6. SleepersMove(p, x, c)
    BY <1>1, <1>5 DEF SleepersMove, AwakePlaces
  <1> QED
    BY <1>2, <1>3, <1>4, <1>6, StepKeeps DEF PStep

-----------------------------------------------------------------------------
(* set_current_information: the lock of the current thread is given up.    *)
LEMMA EnterStep ==
  ASSUME PInv, NEW p \in Processor, Enter(p)
  PROVE  PInv'
  <1> DEFINE x == [at[p] EXCEPT !.place = "scan"]
             c == current[p]
  <1>0. at[p] \in Slot /\ at[p].place = "enter" /\ "scan" \in Places
    BY OldSlot DEF Enter, Places
  <1>1. x \in Slot /\ x.place = "scan" /\ at[p].place = "enter"
    BY <1>0, ReplaceType
  <1>2. Moves(p, x, c)
    BY <1>1, OldSlot DEF Enter, Go, Moves, PlacedOf
  <1> HIDE DEF x
  <1>3. LocksMove(p, x, c)
    <2>1. HeldOf(x, c) = None /\ HeldOf(at[p], current[p]) = current[p]
      BY <1>1 DEF HeldOf
    <2>2. /\ os_lock' = os_lock /\ os_lock \in Int
          /\ KernelDebtOf(at[p]) = 0 /\ KernelDebtOf(x) = 0 /\ x.place \notin Inside
      BY <1>1 DEF Enter, PInv, PTyped, KernelDebtOf, Unit, Debited, Inside
    <2>3. /\ thread_lock' \in [Thread -> Int] /\ thread_lock \in [Thread -> Int]
          /\ \A t \in Thread : thread_lock'[t] =
               IF t = current[p] THEN thread_lock[t] + 1 ELSE thread_lock[t]
      BY DEF Enter, PInv, PTyped
    <2>4. ASSUME NEW t \in Thread
          PROVE  /\ DebtOf(x, c, t) = 0
                 /\ DebtOf(at[p], current[p], t) = IF t = current[p] THEN 1 ELSE 0
      BY <1>1, <2>1, SchedulerConstants DEF DebtOf, Unit
    <2> QED
      BY <2>1, <2>2, <2>3, <2>4 DEF LocksMove
  <1>4. TasksMove
    BY TaskTypes DEF PInv, Enter
  <1>5. SleepersMove(p, x, c)
    BY <1>1, SameSchedule DEF PInv, Enter, AwakePlaces
  <1> QED
    BY <1>2, <1>3, <1>4, <1>5, StepKeeps DEF PStep

(* Going on to the next CPU, or giving the search up: in the end nothing   *)
(* is in hand.                                                             *)
LEMMA LeaveSlot ==
  ASSUME PInv, NEW p \in Processor, Leave(p, at[p].i)
  PROVE  \E x, c : /\ Moves(p, x, c)
                   /\ x.place \in {"scan", "enter", "out"}
                   /\ x.place # "scan" => c = None
  <1>1. CASE at[p].i < NCpu
    <2> DEFINE x == [at[p] EXCEPT !.place = "scan", !.seen = None, !.i = at[p].i + 1,
                                  !.flag = Rotating]
               c == current[p]
    <2>1. Rotating \in BOOLEAN /\ "scan" \in Places /\ at[p].i + 1 \in 0..NCpu
      BY <1>1, OldSlot, NCpuType DEF Slot, Places, Rotating
    <2>2. x \in Slot /\ x.place = "scan"
      BY <2>1, OldSlot DEF Slot
    <2>3. Moves(p, x, c)
      BY <1>1, <2>2, OldSlot DEF Leave, Go, Moves, PlacedOf
    <2> HIDE DEF x
    <2> QED
      BY <2>2, <2>3
  <1>2. CASE ~(at[p].i < NCpu)
    <2> DEFINE x == IF at[p].again THEN Entering(FALSE, FALSE) ELSE At("out")
    <2>1. x \in Slot /\ x.place \in {"enter", "out"}
      BY AtType, EnteringType DEF Places
    <2>2. Moves(p, x, None)
      BY <1>2, <2>1 DEF Leave, Go, Moves, PlacedOf
    <2> HIDE DEF x
    <2> QED
      BY <2>1, <2>2
  <1> QED
    BY <1>1, <1>2

LEMMA NextCpusAreCpus ==
  ASSUME PTyped, NEW flag \in BOOLEAN PROVE NextCpus(flag) \subseteq Cpu
  <1>1. NCpu \in Nat /\ Cpu = 0..(NCpu - 1) /\ BootCpu \in Cpu
    BY NCpuType, ProcessorAssumption, BootConstants DEF NCpu
  <1>2. current_cpu \in 0..(NCpu - 1)
    BY <1>1 DEF PTyped
  <1>3. (current_cpu + 1) % NCpu \in 0..(NCpu - 1)
    BY <1>1, <1>2
  <1> QED
    BY <1>1, <1>2, <1>3 DEF NextCpus

LEMMA ScanStep ==
  ASSUME PInv, NEW p \in Processor, Scan(p)
  PROVE  PInv'
  <1>1. at[p].place = "scan" /\ at[p].flag \in BOOLEAN /\ UNCHANGED <<vars, locks, tasks>>
    BY OldSlot DEF Scan, Slot
  <1>2. PICK d \in NextCpus(at[p].flag) :
          /\ current_cpu' = IF Rotating THEN d ELSE current_cpu
          /\ IF thread_id[d] = None
             THEN Leave(p, at[p].i)
             ELSE /\ Go(p, [at[p] EXCEPT !.place = "saw", !.seen = thread_id[d]])
                  /\ UNCHANGED current
    BY DEF Scan
  <1>3. d \in Cpu
    BY <1>1, <1>2, NextCpusAreCpus DEF PInv
  <1>4. PICK x, c : /\ Moves(p, x, c)
                    /\ x.place \in {"scan", "enter", "out", "saw"}
                    /\ x.place \notin {"scan", "saw"} => c = None
    <2>1. CASE thread_id[d] = None
      BY <1>2, <2>1, LeaveSlot
    <2>2. CASE thread_id[d] # None
      <3> DEFINE x == [at[p] EXCEPT !.place = "saw", !.seen = thread_id[d]]
      <3>1. thread_id[d] \in Thread
        BY <1>3, <2>2, InvariantIsGood DEF PInv, TypeOK
      <3>2. x \in Slot /\ x.place = "saw" /\ x.seen = thread_id[d]
        BY <3>1, OldSlot DEF Slot, Places
      <3>3. Moves(p, x, current[p])
        BY <1>2, <2>2, <3>1, <3>2, OldSlot DEF Go, Moves, PlacedOf
      <3> HIDE DEF x
      <3> QED
        BY <3>2, <3>3
    <2> QED
      BY <2>1, <2>2
  <1>5. LocksMove(p, x, c)
    <2>1. HeldOf(x, c) = HeldOf(at[p], current[p]) /\ x.place # "skip"
      BY <1>1, <1>4 DEF HeldOf
    <2>2. os_lock' = os_lock /\ thread_lock' = thread_lock /\ os_lock \in Int
      BY <1>1 DEF locks, PInv, PTyped
    <2>3. KernelDebtOf(at[p]) = 0 /\ KernelDebtOf(x) = 0 /\ x.place \notin Inside
      BY <1>1, <1>4 DEF KernelDebtOf, Unit, Debited, Inside
    <2> QED
      BY <1>1, <2>1, <2>2, <2>3, KernelLockMoves DEF PInv
  <1>6. TasksMove
    BY <1>1, <1>2, <1>3 DEF PInv, PTyped, TasksMove, tasks
  <1>7. SleepersMove(p, x, c)
    BY <1>1, <1>4, SameSchedule DEF PInv, AwakePlaces
  <1> QED
    BY <1>4, <1>5, <1>6, <1>7, StepKeeps DEF PStep

(* trylock and unlock of the lock of the thread that was seen.             *)
LEMMA TryThreadStep ==
  ASSUME PInv, NEW p \in Processor, TryThread(p)
  PROVE  PInv'
  <1> DEFINE t == at[p].seen
             c == current[p]
  <1>1. PICK place \in {"check", "skip"} :
          place = IF Won(thread_lock[t]) THEN "check" ELSE "skip"
    OBVIOUS
  <1> DEFINE x == [at[p] EXCEPT !.place = place]
  <1>2. at[p] \in Slot /\ at[p].place = "saw" /\ t \in Thread /\ place \in Places
    BY OldSlot DEF TryThread, PlacedOf, Places
  <1>3. x \in Slot /\ x.place = place /\ x.seen = t
    BY <1>2, ReplaceType
  <1>4. Moves(p, x, c)
    BY <1>1, <1>2, <1>3, OldSlot DEF TryThread, Go, Moves, PlacedOf
  <1>5. /\ thread_lock' = [thread_lock EXCEPT ![t] = @ - 1] /\ os_lock' = os_lock
        /\ UNCHANGED <<vars, tasks, current_cpu>>
    BY DEF TryThread
  <1> HIDE DEF x
  <1>6. LocksMove(p, x, c)
    <2>1. /\ HeldOf(x, c) = IF place = "check" THEN t ELSE None
          /\ HeldOf(at[p], current[p]) = None
          /\ place = "check" => thread_lock[t] > 0
      BY <1>1, <1>2, <1>3 DEF HeldOf, Won
    <2>2. /\ os_lock' \in Int
          /\ KernelDebtOf(at[p]) = 0 /\ KernelDebtOf(x) = 0 /\ x.place \notin Inside
      BY <1>2, <1>3, <1>5 DEF PInv, PTyped, KernelDebtOf, Unit, Debited, Inside
    <2>3. /\ thread_lock' \in [Thread -> Int] /\ thread_lock \in [Thread -> Int]
          /\ \A u \in Thread : thread_lock'[u] =
               IF u = t THEN thread_lock[u] - 1 ELSE thread_lock[u]
      <3>1. thread_lock \in [Thread -> Int]
        BY DEF PInv, PTyped
      <3> HIDE DEF t
      <3> QED
        BY <1>2, <1>5, <3>1
    <2>4. ASSUME NEW u \in Thread
          PROVE  /\ DebtOf(x, c, u) = IF u = t THEN 1 ELSE 0
                 /\ DebtOf(at[p], current[p], u) = 0
      BY <1>1, <1>2, <1>3, <2>1, SchedulerConstants DEF DebtOf, Unit
    <2> QED
      BY <1>2, <1>5, <2>1, <2>2, <2>3, <2>4 DEF LocksMove, PInv, PTyped
  <1>7. TasksMove
    BY <1>5, TaskTypes DEF PInv
  <1>8. SleepersMove(p, x, c)
    BY <1>3, <1>5, SameSchedule DEF PInv, AwakePlaces
  <1> QED
    BY <1>4, <1>6, <1>7, <1>8, StepKeeps DEF PStep

LEMMA SkipStep ==
  ASSUME PInv, NEW p \in Processor, Skip(p)
  PROVE  PInv'
  <1> DEFINE t == at[p].seen
  <1>1. at[p].place = "skip" /\ t \in Thread
    BY OldSlot DEF Skip, PlacedOf
  <1>2. /\ thread_lock' = [thread_lock EXCEPT ![t] = @ + 1] /\ os_lock' = os_lock
        /\ UNCHANGED <<vars, tasks, current_cpu>>
    BY DEF Skip
  <1>3. PICK x, c : /\ Moves(p, x, c)
                    /\ x.place \in {"scan", "enter", "out"}
                    /\ x.place # "scan" => c = None
    BY LeaveSlot DEF Skip
  <1>4. LocksMove(p, x, c)
    <2>1. HeldOf(x, c) = None /\ HeldOf(at[p], current[p]) = None
      BY <1>1, <1>3 DEF HeldOf
    <2>2. /\ os_lock' \in Int /\ os_lock \in Int
          /\ KernelDebtOf(at[p]) = 0 /\ KernelDebtOf(x) = 0 /\ x.place \notin Inside
      BY <1>1, <1>2, <1>3 DEF PInv, PTyped, KernelDebtOf, Unit, Debited, Inside
    <2>3. /\ thread_lock' \in [Thread -> Int] /\ thread_lock \in [Thread -> Int]
          /\ \A u \in Thread : thread_lock'[u] =
               IF u = t THEN thread_lock[u] + 1 ELSE thread_lock[u]
      <3>1. thread_lock \in [Thread -> Int]
        BY DEF PInv, PTyped
      <3> HIDE DEF t
      <3> QED
        BY <1>2, <1>1, <3>1
    <2>4. ASSUME NEW u \in Thread
          PROVE  /\ DebtOf(x, c, u) = 0
                 /\ DebtOf(at[p], current[p], u) = IF u = t THEN 1 ELSE 0
      BY <1>1, <1>3, <2>1, SchedulerConstants DEF DebtOf, Unit
    <2> QED
      BY <1>2, <2>1, <2>2, <2>3, <2>4 DEF LocksMove
  <1>5. TasksMove
    BY <1>2, TaskTypes DEF PInv
  <1>6. SleepersMove(p, x, c)
    BY <1>2, <1>3, SameSchedule DEF PInv, AwakePlaces
  <1> QED
    BY <1>3, <1>4, <1>5, <1>6, StepKeeps DEF PStep

(* set_current_item and the lines around it: the lock is kept with the     *)
(* thread, unless it must not run.                                         *)
LEMMA CheckStep ==
  ASSUME PInv, NEW p \in Processor, Check(p)
  PROVE  PInv'
  <1> DEFINE t == at[p].seen
  <1>1. at[p] \in Slot /\ at[p].place = "check" /\ t \in Thread
    BY OldSlot DEF Check, PlacedOf
  <1>2. HeldOf(at[p], current[p]) = t /\ UNCHANGED <<vars, locks, pool, current_cpu>>
    BY <1>1 DEF Check, HeldOf
  <1>3. TasksMove
    <2>1. /\ function \in [Thread -> {"none", "call", "own"}]
          /\ owed \in SUBSET Thread /\ pool \in SUBSET Thread /\ current_cpu \in Cpu
      BY DEF PInv, PTyped
    <2>2. /\ \/ function' = [function EXCEPT ![t] = "own"] /\ owed' = owed \ {t}
             \/ function' = function /\ owed' = owed
          /\ pool' = pool /\ current_cpu' = current_cpu
      BY DEF Check
    <2> HIDE DEF t
    <2> QED
      BY <2>1, <2>2 DEF TasksMove
  <1>4. CASE Selectable(t)
    <2> DEFINE x == IF at[p].again THEN Entering(FALSE, FALSE) ELSE At("chosen")
    <2>1. x \in Slot /\ x.place \in {"enter", "chosen"}
      BY AtType, EnteringType DEF Places
    <2>2. Moves(p, x, t)
      BY <1>1, <1>4, <2>1 DEF Check, Go, Moves, PlacedOf
    <2> HIDE DEF x
    <2>3. LocksMove(p, x, t)
      <3>1. HeldOf(x, t) = HeldOf(at[p], current[p]) /\ x.place # "skip"
        BY <1>2, <2>1 DEF HeldOf
      <3>2. os_lock' = os_lock /\ thread_lock' = thread_lock /\ os_lock \in Int
        BY <1>2 DEF locks, PInv, PTyped
      <3>3. KernelDebtOf(at[p]) = 0 /\ KernelDebtOf(x) = 0 /\ x.place \notin Inside
        BY <1>1, <2>1 DEF KernelDebtOf, Unit, Debited, Inside
      <3> HIDE DEF t
      <3> QED
        BY <1>1, <3>1, <3>2, <3>3, KernelLockMoves DEF PInv
    <2>4. SleepersMove(p, x, t)
      BY <1>2, <1>4, SameSchedule DEF PInv, Selectable
    <2> QED
      BY <1>3, <2>2, <2>3, <2>4, StepKeeps DEF PStep
  <1>5. CASE ~Selectable(t)
    <2> DEFINE x == [at[p] EXCEPT !.place = "skip"]
               c == current[p]
    <2>1. "skip" \in Places
      BY DEF Places
    <2>2. x \in Slot /\ x.place = "skip" /\ x.seen = t
      BY <1>1, <2>1, ReplaceType
    <2>3. Moves(p, x, c)
      BY <1>1, <1>5, <2>2, OldSlot DEF Check, Go, Moves, PlacedOf
    <2> HIDE DEF x
    <2>4. LocksMove(p, x, c)
      <3>1. HeldOf(x, c) = None
        BY <2>2 DEF HeldOf
      <3>2. /\ os_lock' = os_lock /\ os_lock \in Int
            /\ thread_lock' = thread_lock /\ thread_lock \in [Thread -> Int]
        BY <1>2 DEF locks, PInv, PTyped
      <3>3. KernelDebtOf(at[p]) = 0 /\ KernelDebtOf(x) = 0 /\ x.place \notin Inside
        BY <1>1, <2>2 DEF KernelDebtOf, Unit, Debited, Inside
      <3>4. ASSUME NEW u \in Thread
            PROVE  DebtOf(x, c, u) = Unit(u = t) /\ DebtOf(at[p], current[p], u) = Unit(u = t)
        BY <1>1, <1>2, <2>2, <3>1, SchedulerConstants DEF DebtOf, Unit
      <3>5. \A u \in Thread : Unit(u = t) \in Int
        BY DEF Unit
      <3> QED
        BY <3>1, <3>2, <3>3, <3>4, <3>5 DEF LocksMove
    <2>5. SleepersMove(p, x, c)
      BY <1>2, <2>2, SameSchedule DEF PInv, AwakePlaces
    <2> QED
      BY <1>3, <2>3, <2>4, <2>5, StepKeeps DEF PStep
  <1> QED
    BY <1>4, <1>5

-----------------------------------------------------------------------------
(* execute_system_call.                                                    *)
LEMMA LeaveKernelStep ==
  ASSUME PInv, NEW p \in Processor, LeaveKernel(p)
  PROVE  PInv'
  <1> DEFINE x == At("out")
             c == current[p]
  <1>1. x \in Slot /\ x.place = "out" /\ at[p].place = "chosen"
    BY AtType, OldSlot DEF LeaveKernel, Places
  <1>2. Moves(p, x, c)
    BY <1>1, OldSlot DEF LeaveKernel, Go, Moves, PlacedOf
  <1> HIDE DEF x
  <1>3. LocksMove(p, x, c)
    <2>1. HeldOf(x, c) = HeldOf(at[p], current[p])
      BY <1>1 DEF HeldOf
    <2>2. os_lock' = os_lock /\ thread_lock' = thread_lock /\ os_lock \in Int
      BY DEF LeaveKernel, locks, PInv, PTyped
    <2>3. KernelDebtOf(at[p]) = 0 /\ KernelDebtOf(x) = 0 /\ x.place \notin Inside
      BY <1>1 DEF KernelDebtOf, Unit, Debited, Inside
    <2> QED
      BY <1>1, <2>1, <2>2, <2>3, KernelLockMoves DEF PInv
  <1>4. TasksMove
    BY TaskTypes DEF PInv, LeaveKernel
  <1>5. SleepersMove(p, x, c)
    BY <1>1, OldSlot, SameSchedule DEF PInv, LeaveKernel, AwakePlaces
  <1> QED
    BY <1>2, <1>3, <1>4, <1>5, StepKeeps DEF PStep

(* What a kernel function of thread t does to the scheduler and the tasks. *)
LEMMA FunctionKeeps ==
  ASSUME PInv, NEW t \in Thread,
         \/ Sleeps(t) \/ Exits(t) \/ Wakes \/ Nothing
         \/ Changes \/ Creates \/ \E u \in Thread \ pool : Owes(u)
  PROVE  /\ IInv' /\ thread_lock' = thread_lock
         /\ owed' \in SUBSET Thread /\ pool' \in SUBSET Thread
         /\ \A v \in Thread : state'[v] = "SLEEP" => state[v] = "SLEEP" \/ v = t
  <1>1. thread_lock' = thread_lock
    BY DEF Sleeps, Exits, Wakes, Nothing, Changes, Creates, Owes
  <1>2. owed' \in SUBSET Thread /\ pool' \in SUBSET Thread
    BY DEF PInv, PTyped, Sleeps, Exits, Wakes, Nothing, Changes, Creates, Owes
  <1>3. IInv' /\ \A v \in Thread : state'[v] = "SLEEP" => state[v] = "SLEEP" \/ v = t
    <2>1. CASE Block(t)
      <3>1. IInv' /\ \A v \in Thread \ {t} : state'[v] # state[v] => state'[v] = "RUN"
        BY <2>1, BlockStep DEF PInv
      <3> QED
        BY <3>1
    <2>2. CASE ~Block(t)
      <3>1. \/ UNCHANGED vars
            \/ \E u \in Thread : Wake(u)
            \/ \E u \in Thread, y \in Priority, s \in CpuSet : Modify(u, y, s)
            \/ \E d \in Cpu, s \in CpuSet : Move(d, s)
        BY <2>2 DEF Sleeps, Exits, Wakes, Nothing, Changes, Creates, Owes
      <3> QED
        BY <3>1, WakesOrChanges DEF PInv
    <2> QED
      BY <2>1, <2>2
  <1> QED
    BY <1>1, <1>2, <1>3

LEMMA CallStep ==
  ASSUME PInv, NEW p \in Processor, Call(p)
  PROVE  PInv'
  <1> DEFINE t == current[p]
  <1>1. at[p].place = "call" /\ t \in Thread
    BY OldSlot DEF Call, PlacedOf
  <1>2. PICK flag \in BOOLEAN : Go(p, [At("called") EXCEPT !.flag = flag])
    BY DEF Call
  <1> DEFINE x == [At("called") EXCEPT !.flag = flag]
  <1>3. x \in Slot /\ x.place = "called"
    BY AtType DEF Places, Slot
  <1>4. Moves(p, x, t)
    BY <1>2, <1>3, OldSlot DEF Call, Go, Moves, PlacedOf
  <1> HIDE DEF x
  <1>5. /\ IInv' /\ thread_lock' = thread_lock
        /\ owed' \in SUBSET Thread /\ pool' \in SUBSET Thread
        /\ \A v \in Thread : state'[v] = "SLEEP" => state[v] = "SLEEP" \/ v = t
    <2>1. \/ Sleeps(t) \/ Exits(t) \/ Wakes \/ Nothing
          \/ Changes \/ Creates \/ \E u \in Thread \ pool : Owes(u)
      BY DEF Call
    <2> HIDE DEF t
    <2> QED
      BY <1>1, <2>1, FunctionKeeps
  <1>6. LocksMove(p, x, t)
    <2>1. HeldOf(x, t) = HeldOf(at[p], current[p])
      BY <1>1, <1>3 DEF HeldOf
    <2>2. os_lock' = os_lock /\ os_lock \in Int
      BY DEF Call, PInv, PTyped
    <2>3. /\ KernelDebtOf(at[p]) = 1 /\ KernelDebtOf(x) = 1
          /\ x.place \in Inside /\ at[p].place \in Inside
      BY <1>1, <1>3 DEF KernelDebtOf, Unit, Debited, Inside
    <2> QED
      BY <1>1, <1>3, <1>5, <2>1, <2>2, <2>3, KernelLockMoves DEF PInv
  <1>7. TasksMove
    <2>1. function' = [function EXCEPT ![t] = "none"] /\ current_cpu' = current_cpu
      BY DEF Call
    <2> HIDE DEF t
    <2> QED
      BY <1>5, <2>1 DEF PInv, PTyped, TasksMove
  <1>8. SleepersMove(p, x, t)
    BY <1>1, <1>3, <1>5 DEF SleepersMove, AwakePlaces
  <1> QED
    BY <1>4, <1>6, <1>7, <1>8, StepKeeps DEF PStep

-----------------------------------------------------------------------------
(* At boot no processor has a thread, and all are about to look for one.   *)
LEMMA PInitGood == PInit => PInv
  <1> SUFFICES ASSUME PInit PROVE PInv
    OBVIOUS
  <1>1. IInv
    BY InitGood DEF PInit
  <1>2. Entering(TRUE, TRUE) \in Slot /\ Entering(TRUE, TRUE).place = "enter"
    BY EnteringType
  <1>3. \A p \in Processor : /\ at[p] = Entering(TRUE, TRUE)
                             /\ current[p] = None
                             /\ Place(p) = "enter" /\ Held(p) = None
    BY <1>2 DEF PInit, Place, Held
  <1>4. PTyped
    <2>1. 0 \in Cpu
      <3>1. NCpu \in Nat /\ Cpu = 0..(NCpu - 1) /\ BootCpu \in Cpu
        BY NCpuType, ProcessorAssumption, BootConstants DEF NCpu
      <3> QED
        BY <3>1
    <2>2. at \in [Processor -> Slot]
      BY <1>2 DEF PInit
    <2>3. current \in [Processor -> Thread \cup {None}]
      BY DEF PInit
    <2>4. thread_lock \in [Thread -> Int] /\ os_lock \in Int
      BY DEF PInit
    <2>5. function \in [Thread -> {"none", "call", "own"}]
      BY DEF PInit
    <2>6. owed \in SUBSET Thread /\ pool \in SUBSET Thread /\ current_cpu \in Cpu
      BY <2>1 DEF PInit
    <2> QED
      BY <2>2, <2>3, <2>4, <2>5, <2>6 DEF PTyped
  <1>5. SlotsPlaced
    BY <1>2, <1>3 DEF SlotsPlaced, PlacedOf
  <1>6. Balanced
    <2>1. /\ KernelUsers = {}
          /\ \A t \in Thread : HoldersOf(t) = {} /\ Undoers(t) = {}
      BY <1>3, SchedulerConstants DEF KernelUsers, HoldersOf, Undoers, Debited, Inside
    <2>2. Cardinality({}) = 0
      BY FS_EmptySet
    <2> QED
      BY <2>1, <2>2 DEF Balanced, PInit
  <1>7. Exclusive
    BY <1>3 DEF Exclusive, OneProcessorPerThread, Inside
  <1>8. CurrentIsAwake
    BY <1>3 DEF CurrentIsAwake
  <1> QED
    BY <1>1, <1>4, <1>5, <1>6, <1>7, <1>8 DEF PInv

LEMMA PStutter ==
  ASSUME PInv, UNCHANGED pVars
  PROVE  PInv'
  <1>1. IInv'
    BY StillScheduled DEF PInv, pVars
  <1>2. /\ os_lock' = os_lock /\ thread_lock' = thread_lock /\ function' = function
        /\ owed' = owed /\ pool' = pool /\ current' = current /\ at' = at
        /\ current_cpu' = current_cpu /\ state' = state
    BY DEF pVars, vars
  <1>3. PTyped' /\ SlotsPlaced' /\ CurrentIsAwake'
    BY <1>2 DEF PInv, PTyped, SlotsPlaced, CurrentIsAwake, Place
  <1>4. Balanced' /\ Exclusive'
    BY <1>2 DEF PInv, Balanced, Exclusive, OneProcessorPerThread, Held, Place,
                HoldersOf, Undoers, KernelUsers
  <1> QED
    BY <1>1, <1>3, <1>4 DEF PInv

(* routine.c: the invariant holds whatever the processors do, for any      *)
(* number of them.                                                         *)
LEMMA PNextKeeps == PInv /\ [PNext]_pVars => PInv'
  <1> SUFFICES ASSUME PInv, [PNext]_pVars PROVE PInv'
    OBVIOUS
  <1>1. CASE UNCHANGED pVars
    BY <1>1, PStutter
  <1>2. ASSUME NEW p \in Processor, SystemCall(p) \/ Timer(p) \/ Works(p)
        PROVE  PInv'
    <2>1. CASE SystemCall(p) \/ Timer(p)
      BY <2>1, SystemCallStep, TimerStep
    <2>2. CASE TryTick(p) \/ TryCall(p)
      BY <2>2, TryKernelStep DEF TryTick, TryCall
    <2>3. CASE MissTick(p) \/ EndTick(p) \/ FailCall(p) \/ EndCall(p)
      <3>1. at[p].flag \in BOOLEAN
        BY OldSlot DEF Slot
      <3>2. PICK from \in {"missed", "ticked", "failed", "called"},
                 flag \in BOOLEAN, again \in BOOLEAN :
              GiveKernel(p, from, Entering(flag, again))
        BY <2>3, <3>1 DEF MissTick, EndTick, AfterTick, FailCall, EndCall
      <3> QED
        BY <3>2, GiveKernelStep
    <2>4. CASE Tick(p) \/ Enter(p) \/ Scan(p) \/ TryThread(p)
      BY <2>4, TickStep, EnterStep, ScanStep, TryThreadStep
    <2>5. CASE Skip(p) \/ Check(p) \/ LeaveKernel(p) \/ Call(p)
      BY <2>5, SkipStep, CheckStep, LeaveKernelStep, CallStep
    <2> QED
      BY <1>2, <2>1, <2>2, <2>3, <2>4, <2>5 DEF Works, Proceeds
  <1> QED
    BY <1>1, <1>2 DEF PNext

THEOREM ProcessorInvariant == PSpec => []PInv
  BY PInitGood, PNextKeeps, PTL DEF PSpec

(* routine.c, get_virtual_cpu.c: no two processors are ever in one thread's*)
(* context, whatever they read in the table of CPUs.                       *)
THEOREM ProcessorOneProcessorPerThread == PSpec => []OneProcessorPerThread
  <1>1. PInv => OneProcessorPerThread
    BY DEF PInv, Exclusive
  <1> QED
    BY <1>1, ProcessorInvariant, PTL

(* routine.c: kernel functions and ticks run one at a time.                *)
THEOREM ProcessorKernelFunctionsExclude == PSpec => []KernelFunctionsExclude
  <1>1. PInv => KernelFunctionsExclude
    <2> SUFFICES ASSUME PInv PROVE KernelFunctionsExclude
      OBVIOUS
    <2> DEFINE S == {p \in Processor : Place(p) \in Inside}
    <2>1. \A p, q \in S : p = q
      BY DEF PInv, Exclusive
    <2>2. Cardinality(S) <= 1
      <3>1. CASE S = {}
        <4>1. Cardinality(S) = 0
          BY <3>1, FS_EmptySet
        <4> HIDE DEF S
        <4> QED
          BY <4>1
      <3>2. CASE S # {}
        <4>1. PICK p \in S : TRUE
          BY <3>2
        <4>2. S = {p}
          BY <2>1, <4>1
        <4>3. Cardinality(S) = 1
          BY <4>2, FS_Singleton
        <4> HIDE DEF S
        <4> QED
          BY <4>3
      <3> QED
        BY <3>1, <3>2
    <2> QED
      BY <2>2 DEF KernelFunctionsExclude, Inside
  <1> QED
    BY <1>1, ProcessorInvariant, PTL

(* routine.c, p_sem.c: a processor that runs for a thread never does so    *)
(* while the thread sleeps.                                                *)
THEOREM ProcessorCurrentIsAwake == PSpec => []CurrentIsAwake
  <1>1. PInv => CurrentIsAwake
    BY DEF PInv
  <1> QED
    BY <1>1, ProcessorInvariant, PTL

(* lock.c, routine.c: every unit taken off a lock is put back, and the     *)
(* counters stay within the number of processors.                          *)
THEOREM ProcessorLocksAreConserved == PSpec => []LocksAreConserved
  <1>1. PInv => LocksAreConserved
    <2> SUFFICES ASSUME PInv PROVE LocksAreConserved
      OBVIOUS
    <2>1. Balanced /\ PTyped /\ TypeOK
      BY InvariantIsGood DEF PInv
    <2> DEFINE n == Cardinality(Processor)
    <2>2. n \in Nat
      BY FS_CardinalityType, ProcessorAssumption
    <2>3. \A t \in Thread : thread_lock[t] \in (1 - n)..1
      <3> SUFFICES ASSUME NEW t \in Thread PROVE thread_lock[t] \in (1 - n)..1
        OBVIOUS
      <3>1. HoldersOf(t) \in SUBSET Processor /\ Undoers(t) \in SUBSET Processor
        BY DEF HoldersOf, Undoers
      <3>2. HoldersOf(t) \cap Undoers(t) = {}
        BY SchedulerConstants DEF HoldersOf, Undoers, Held
      <3>3. IsFiniteSet(HoldersOf(t)) /\ IsFiniteSet(Undoers(t))
        BY <3>1, FS_Subset, ProcessorAssumption
      <3>4. Cardinality(HoldersOf(t) \cup Undoers(t)) =
              Cardinality(HoldersOf(t)) + Cardinality(Undoers(t))
        <4>1. Cardinality(HoldersOf(t) \cap Undoers(t)) = 0
          BY <3>2, FS_EmptySet
        <4>2. Cardinality(HoldersOf(t)) \in Nat /\ Cardinality(Undoers(t)) \in Nat
          BY <3>1, HoldersCounted
        <4>3. Cardinality(HoldersOf(t) \cup Undoers(t)) =
                Cardinality(HoldersOf(t)) + Cardinality(Undoers(t))
                  - Cardinality(HoldersOf(t) \cap Undoers(t))
          BY <3>3, FS_Union
        <4> QED
          BY <4>1, <4>2, <4>3
      <3>5. Cardinality(HoldersOf(t) \cup Undoers(t)) <= n
        BY <3>1, FS_Subset, ProcessorAssumption
      <3>6. /\ Cardinality(HoldersOf(t)) \in Nat /\ Cardinality(Undoers(t)) \in Nat
            /\ thread_lock[t] = 1 - Cardinality(HoldersOf(t)) - Cardinality(Undoers(t))
        BY <2>1, <3>1, HoldersCounted DEF Balanced
      <3> HIDE DEF n
      <3> QED
        BY <2>2, <3>4, <3>5, <3>6
    <2>4. os_lock \in (1 - n)..1
      <3>1. KernelUsers \in SUBSET Processor
        BY DEF KernelUsers
      <3>2. Cardinality(KernelUsers) \in Nat /\ Cardinality(KernelUsers) <= n
        BY <3>1, HoldersCounted, FS_Subset, ProcessorAssumption
      <3>3. os_lock = 1 - Cardinality(KernelUsers)
        BY <2>1 DEF Balanced
      <3> HIDE DEF n
      <3> QED
        BY <2>2, <3>2, <3>3
    <2>5. PTypeOK
      BY <2>1, <2>3, <2>4 DEF PTyped, PTypeOK, Slot
    <2> QED
      BY <2>1, <2>5 DEF LocksAreConserved, Balanced, HoldersOf, Undoers, KernelUsers,
                        Debited, Inside
  <1> QED
    BY <1>1, ProcessorInvariant, PTL

(* create.c: a thread is created anew only when no processor is in its     *)
(* context any more.                                                       *)
THEOREM ProcessorCreatedThreadIsFree == PSpec => CreatedThreadIsFree
  <1> DEFINE A == \A u \in pool \ pool' : \A p \in Processor : Held(p) # u
  <1>1. ASSUME PInv, [PNext]_pVars PROVE [A]_pVars
    <2>1. SUFFICES ASSUME NEW u \in pool \ pool', NEW q \in Processor PROVE Held(q) # u
      OBVIOUS
    <2>2. PICK p \in Processor : Call(p)
      BY <1>1, <2>1 DEF PNext, pVars, Works, Proceeds, tasks, SystemCall, Timer, TryTick, TryKernel,
        MissTick, GiveKernel, Tick, EndTick, Enter, Scan, TryThread, Skip, Check,
        LeaveKernel, TryCall, FailCall, EndCall
    <2>3. Creates
      BY <2>1, <2>2 DEF Call, Sleeps, Exits, Wakes, Nothing, Changes, Owes
    <2>4. u \in Thread /\ thread_lock[u] > 0
      BY <1>1, <2>1, <2>3 DEF Creates, Creatable, Won, PInv, PTyped
    <2>5. HoldersOf(u) \in SUBSET Processor /\ Undoers(u) \in SUBSET Processor
      BY DEF HoldersOf, Undoers
    <2>6. /\ Cardinality(HoldersOf(u)) \in Nat /\ Cardinality(Undoers(u)) \in Nat
          /\ Cardinality(HoldersOf(u)) = 0 => HoldersOf(u) = {}
      BY <2>5, HoldersCounted
    <2>7. thread_lock[u] = 1 - Cardinality(HoldersOf(u)) - Cardinality(Undoers(u))
      BY <1>1, <2>4 DEF PInv, Balanced
    <2>8. HoldersOf(u) = {}
      BY <2>4, <2>6, <2>7
    <2> QED
      BY <2>8 DEF HoldersOf
  <1> QED
    BY <1>1, ProcessorInvariant, PTL DEF PSpec, CreatedThreadIsFree

(* What the processors do to threads and CPUs are calls of the scheduler,  *)
(* one at a time: what is proved of Scheduler holds of every processor     *)
(* loop.                                                                   *)
THEOREM ProcessorImplementsScheduler == PSpec => Spec
  <1>1. PInit => Init
    BY DEF PInit
  <1>2. ASSUME PInv, [PNext]_pVars PROVE [Next]_vars
    <2>1. CASE UNCHANGED pVars
      BY <2>1 DEF pVars
    <2>2. ASSUME NEW p \in Processor, Tick(p) PROVE [Next]_vars
      <3>1. \A u \in Thread : cpu_set_id[u] \in CpuSet
        BY <1>2, InvariantIsGood DEF PInv, TypeOK
      <3>2. \/ UNCHANGED vars
            \/ \E u \in Thread : Wake(u)
            \/ \E u \in Thread, y \in Priority, s \in CpuSet : Modify(u, y, s)
        BY <2>2, <3>1 DEF Tick
      <3> QED
        BY <3>2 DEF Next
    <2>3. ASSUME NEW p \in Processor, Call(p) PROVE [Next]_vars
      <3>1. current[p] \in Thread
        BY <1>2, <2>3, OldSlot DEF Call, PlacedOf
      <3> QED
        BY <2>3, <3>1 DEF Call, Sleeps, Exits, Wakes, Nothing, Changes, Creates, Owes, Next
    <2>4. ASSUME NEW p \in Processor, ~Tick(p), ~Call(p),
                 SystemCall(p) \/ Timer(p) \/ Works(p)
          PROVE  UNCHANGED vars
      BY <2>4 DEF Works, Proceeds, SystemCall, Timer, TryTick, TryKernel, MissTick, GiveKernel,
        EndTick, Enter, Scan, TryThread, Skip, Check, LeaveKernel, TryCall, FailCall, EndCall
    <2> QED
      BY <1>2, <2>1, <2>2, <2>3, <2>4 DEF PNext
  <1> QED
    BY <1>1, <1>2, ProcessorInvariant, PTL DEF PSpec, Spec
-----------------------------------------------------------------------------
(* SpinLock: the lock Processor takes in one step, exchange by exchange,   *)
(* for any finite set of processors.  The argument counts debtors, the     *)
(* processors that have subtracted one and not yet added it back: the      *)
(* counter is one less their number.  An attempt that finds a positive     *)
(* counter therefore finds no debtor, hence no holder.                     *)

USE DEF Reserving, Taken

PcOK == pc \in [Processor -> {"idle", "take", "taking", "undo", "undoing",
                              "held", "give", "giving"}]

(* The counter is in one register at a time.                               *)
OneRegister ==
  /\ \A p, q \in Storing : p = q
  /\ word = Busy <=> Storing # {}

Count == 1 - Cardinality(Debtors)

(* The counter, in memory or in the register, is one less the debtors.     *)
CountsDebtors ==
  /\ word # Busy => word = Count
  /\ \A p \in Storing : reg[p] = Count

SpinInv ==
  /\ PcOK
  /\ reg \in [Processor -> Int]
  /\ word \in Int \cup {Busy}
  /\ OneRegister
  /\ CountsDebtors
  /\ MutualExclusion

(* Debtors can be counted, and every holder is one.                        *)
LEMMA DebtorsFinite ==
  /\ IsFiniteSet(Debtors) /\ Cardinality(Debtors) \in Nat
  /\ Cardinality(Debtors) <= Cardinality(Processor)
  /\ Cardinality(Processor) \in Nat
  /\ Holders \subseteq Debtors
  <1>1. Debtors \subseteq Processor /\ Holders \subseteq Debtors
    BY DEF Debtors, Holders
  <1> QED
    BY <1>1, FS_Subset, FS_CardinalityType, SpinLockAssumption

(* What the second exchange of an attempt, a withdrawal and a release does *)
(* to the debtors.                                                         *)
LEMMA StoreDebtors ==
  ASSUME NEW p \in Processor, PcOK, Store(p)
  PROVE  /\ pc[p] = "taking" =>
              /\ p \notin Debtors /\ Debtors' = Debtors \cup {p}
              /\ Cardinality(Debtors') = Cardinality(Debtors) + 1
         /\ pc[p] # "taking" =>
              /\ p \in Debtors /\ Debtors' = Debtors \ {p}
              /\ Cardinality(Debtors') = Cardinality(Debtors) - 1
  <1>1. CASE pc[p] = "taking"
    <2>1. p \notin Debtors /\ Debtors' = Debtors \cup {p}
      BY <1>1 DEF Debtors, Store, PcOK, AfterTaking
    <2> QED
      BY <1>1, <2>1, DebtorsFinite, FS_AddElement
  <1>2. CASE pc[p] # "taking"
    <2>1. p \in Debtors /\ Debtors' = Debtors \ {p}
      BY <1>2 DEF Debtors, Store, PcOK
    <2> QED
      BY <1>2, <2>1, DebtorsFinite, FS_RemoveElement
  <1> QED
    BY <1>1, <1>2

(* The whole invariant: it holds at the start and every exchange keeps it. *)
THEOREM SpinLockInvariant == SpinSpec => []SpinInv
  <1>1. SpinInit => SpinInv
    <2> SUFFICES ASSUME SpinInit PROVE SpinInv
      OBVIOUS
    <2>1. Debtors = {} /\ Storing = {} /\ Holders = {}
      BY DEF SpinInit, Debtors, Storing, Holders
    <2>2. Cardinality(Debtors) = 0
      BY <2>1, FS_EmptySet
    <2>3. word = 1 /\ word # Busy
      BY SpinLockAssumption DEF SpinInit
    <2> QED
      BY <2>1, <2>2, <2>3
      DEF SpinInit, SpinInv, PcOK, OneRegister, CountsDebtors, Count, MutualExclusion
  <1>2. SpinInv /\ [SpinNext]_spinVars => SpinInv'
    <2> SUFFICES ASSUME SpinInv, [SpinNext]_spinVars PROVE SpinInv'
      OBVIOUS
    <2> USE DEF SpinInv, PcOK
    <2>1. ASSUME NEW p \in Processor, Try(p) PROVE SpinInv'
      <3>1. Debtors' = Debtors /\ Storing' = Storing /\ Holders' = Holders
        BY <2>1 DEF Try, Debtors, Storing, Holders
      <3> QED
        BY <2>1, <3>1 DEF Try, OneRegister, CountsDebtors, Count, MutualExclusion
    <2>2. ASSUME NEW p \in Processor, Unlock(p) PROVE SpinInv'
      <3>1. Debtors' = Debtors /\ Storing' = Storing /\ Holders' = Holders
        BY <2>2 DEF Unlock, Debtors, Storing, Holders
      <3> QED
        BY <2>2, <3>1 DEF Unlock, OneRegister, CountsDebtors, Count, MutualExclusion
    <2>3. ASSUME NEW p \in Processor, Fetch(p) PROVE SpinInv'
      <3>1. Debtors' = Debtors /\ Holders' = Holders
        BY <2>3 DEF Fetch, Debtors, Holders
      <3>2. Storing = {} /\ Storing' = {p}
        BY <2>3 DEF Fetch, Storing, OneRegister
      <3>3. word' = Busy /\ reg' = [reg EXCEPT ![p] = word] /\ word \in Int
        BY <2>3 DEF Fetch
      <3>4. OneRegister'
        BY <3>2, <3>3 DEF OneRegister
      <3>5. CountsDebtors'
        BY <2>3, <3>1, <3>2, <3>3 DEF Fetch, CountsDebtors, Count
      <3>6. MutualExclusion'
        BY <3>1 DEF MutualExclusion
      <3> QED
        BY <2>3, <3>3, <3>4, <3>5, <3>6 DEF Fetch
    <2>4. ASSUME NEW p \in Processor, Store(p) PROVE SpinInv'
      <3>1. p \in Storing /\ Storing = {p} /\ Storing' = {}
        BY <2>4 DEF Store, Storing, OneRegister, AfterTaking
      <3>2. reg[p] = Count /\ word' \in Int /\ reg' = reg
        BY <2>4, <3>1 DEF Store, CountsDebtors
      <3>3. OneRegister'
        BY <3>1, <3>2, SpinLockAssumption DEF OneRegister
      <3>4. CountsDebtors'
        <4> DEFINE n == Cardinality(Debtors)
        <4>1. n \in Nat /\ reg[p] = 1 - n
          BY <3>2, DebtorsFinite DEF Count
        <4>2. /\ pc[p] = "taking" => Cardinality(Debtors') = n + 1
              /\ pc[p] # "taking" => Cardinality(Debtors') = n - 1
          BY <2>4, StoreDebtors
        <4>3. word' = IF pc[p] = "taking" THEN reg[p] - 1 ELSE reg[p] + 1
          BY <2>4 DEF Store
        <4>4. Count' = 1 - Cardinality(Debtors')
          BY DEF Count
        <4> HIDE DEF n
        <4>5. word' = Count'
          BY <4>1, <4>2, <4>3, <4>4
        <4> QED
          BY <3>1, <4>5 DEF CountsDebtors
      <3>5. MutualExclusion'
        <4>1. CASE pc[p] = "taking" /\ reg[p] > 0
          <5>1. Cardinality(Debtors) = 0
            BY <4>1, <3>2, DebtorsFinite DEF Count
          <5>2. Holders = {}
            BY <5>1, DebtorsFinite, FS_EmptySet
          <5>3. Holders' \subseteq Holders \cup {p}
            BY <2>4 DEF Store, Holders
          <5> QED
            BY <5>2, <5>3 DEF MutualExclusion
        <4>2. CASE ~(pc[p] = "taking" /\ reg[p] > 0)
          <5>1. Holders' \subseteq Holders
            BY <2>4, <4>2 DEF Store, Holders, AfterTaking, Taken
          <5> QED
            BY <5>1 DEF MutualExclusion
        <4> QED
          BY <4>1, <4>2
      <3> QED
        BY <2>4, <3>2, <3>3, <3>4, <3>5 DEF Store, AfterTaking
    <2>5. CASE UNCHANGED spinVars
      BY <2>5 DEF spinVars, OneRegister, CountsDebtors, Count, MutualExclusion,
                  Debtors, Storing, Holders
    <2> QED
      BY <2>1, <2>2, <2>3, <2>4, <2>5 DEF SpinNext
  <1> QED
    BY <1>1, <1>2, PTL DEF SpinSpec

(* lock.c grants the lock to one processor at a time.                      *)
THEOREM SpinLockMutualExclusion == SpinSpec => []MutualExclusion
  <1>1. SpinInv => MutualExclusion
    BY DEF SpinInv
  <1> QED
    BY <1>1, SpinLockInvariant, PTL

(* The counter stays between one less the number of processors and one, so *)
(* it never takes the reserved value on by itself.                         *)
THEOREM SpinLockTypeOK == SpinSpec => []SpinTypeOK
  <1>1. SpinInv /\ SpinInv' /\ SpinTypeOK /\ [SpinNext]_spinVars => SpinTypeOK'
    <2> SUFFICES ASSUME SpinInv, SpinInv', SpinTypeOK, [SpinNext]_spinVars PROVE SpinTypeOK'
      OBVIOUS
    <2>1. word' # Busy => word' = Count'
      BY DEF SpinInv, CountsDebtors
    <2>2. Count' \in (1 - Cardinality(Processor))..1
      <3>1. Debtors' \subseteq Processor
        BY DEF Debtors
      <3> QED
        BY <3>1, FS_Subset, FS_CardinalityType, SpinLockAssumption DEF Count
    <2> QED
      BY <2>1, <2>2 DEF SpinInv, SpinTypeOK, PcOK, SpinNext, spinVars, Try, Unlock, Fetch, Store
  <1>2. SpinInit => SpinTypeOK
    <2>1. Cardinality(Processor) \in Nat
      BY DebtorsFinite
    <2>2. CASE Processor = {}
      BY <2>1, <2>2, FS_EmptySet DEF SpinInit, SpinTypeOK
    <2>3. CASE Processor # {}
      <3>1. Cardinality(Processor) > 0
        BY <2>1, <2>3, FS_EmptySet, SpinLockAssumption
      <3> QED
        BY <2>1, <3>1 DEF SpinInit, SpinTypeOK
    <2> QED
      BY <2>2, <2>3
  <1> QED
    BY <1>1, <1>2, SpinLockInvariant, PTL DEF SpinSpec

(* With nobody under way no unit of the counter is missing: the debtors    *)
(* are the holders then.                                                   *)
THEOREM SpinLockNoLostUnit == SpinSpec => []NoLostUnit
  <1>1. SpinInv => NoLostUnit
    <2> SUFFICES ASSUME SpinInv, \A p \in Processor : pc[p] \in {"idle", "held"}
                 PROVE  word = 1 - Cardinality(Holders)
      BY DEF NoLostUnit
    <2>1. Debtors = Holders /\ Storing = {}
      BY DEF Debtors, Holders, Storing
    <2> QED
      BY <2>1 DEF SpinInv, OneRegister, CountsDebtors, Count
  <1> QED
    BY <1>1, SpinLockInvariant, PTL

-----------------------------------------------------------------------------
(* What OwnerOf is, without CHOOSE.                                        *)
LEMMA OwnerIs ==
  /\ Holders = {} => OwnerOf = Nobody
  /\ \A p \in Processor : Holders = {p} => OwnerOf = p
  BY DEF OwnerOf, Holders

(* The same of the next state.                                             *)
LEMMA OwnerIsNext ==
  /\ Holders' = {} => OwnerOf' = Nobody
  /\ \A p \in Processor : Holders' = {p} => OwnerOf' = p
  BY DEF OwnerOf, Holders

(* The two exchanges of every call implement the lock that is taken and    *)
(* released in one step: the store that finds a positive counter acquires  *)
(* it, the store of the unlocking releases it, nothing else shows.         *)
THEOREM SpinLockImplementsTryLock == SpinSpec => ImplementsTryLock
  <1>1. SpinInit => Lock!Init
    BY OwnerIs DEF SpinInit, Lock!Init, Holders
  <1>2. SpinInv /\ SpinInv' /\ [SpinNext]_spinVars => [Lock!Next]_OwnerOf
    <2> SUFFICES ASSUME SpinInv, SpinInv', [SpinNext]_spinVars
                 PROVE  Lock!Next \/ OwnerOf' = OwnerOf
      OBVIOUS
    <2>1. CASE Holders' = Holders
      BY <2>1 DEF OwnerOf
    <2>2. ASSUME NEW p \in Processor, Store(p), pc[p] = "taking", Holders' # Holders
          PROVE  Lock!Next
      <3>1. p \notin Holders /\ Holders' = Holders \cup {p}
        BY <2>2 DEF Store, Holders, SpinInv, PcOK
      <3>2. Holders = {}
        BY <3>1 DEF SpinInv, MutualExclusion, Holders
      <3>3. OwnerOf = Nobody /\ OwnerOf' = p
        BY <3>1, <3>2, OwnerIs, OwnerIsNext
      <3> QED
        BY <3>3 DEF Lock!Next, Lock!Acquire
    <2>3. ASSUME NEW p \in Processor, Store(p), pc[p] = "giving" PROVE Lock!Next
      <3>1. p \in Holders /\ Holders' = Holders \ {p}
        BY <2>3 DEF Store, Holders, SpinInv, PcOK
      <3>2. Holders = {p}
        BY <3>1 DEF SpinInv, MutualExclusion, Holders
      <3>3. OwnerOf = p /\ OwnerOf' = Nobody
        BY <3>1, <3>2, OwnerIs, OwnerIsNext
      <3> QED
        BY <3>3 DEF Lock!Next, Lock!Release
    <2>4. ASSUME NEW p \in Processor, Store(p), pc[p] = "undoing"
          PROVE  Holders' = Holders
      BY <2>4 DEF Store, Holders, SpinInv, PcOK
    <2>5. ASSUME NEW p \in Processor, Try(p) \/ Unlock(p) \/ Fetch(p)
          PROVE  Holders' = Holders
      BY <2>5 DEF Try, Unlock, Fetch, Holders, SpinInv, PcOK
    <2>6. ASSUME NEW p \in Processor, Store(p) PROVE Lock!Next \/ OwnerOf' = OwnerOf
      <3>1. pc[p] \in {"taking", "undoing", "giving"}
        BY <2>6 DEF Store
      <3> QED
        BY <2>1, <2>2, <2>3, <2>4, <2>6, <3>1
    <2>7. CASE UNCHANGED spinVars
      <3>1. Holders' = Holders
        BY <2>7 DEF spinVars, Holders
      <3> QED
        BY <2>1, <3>1
    <2> QED
      BY <2>1, <2>5, <2>6, <2>7 DEF SpinNext
  <1> QED
    BY <1>1, <1>2, SpinLockInvariant, PTL DEF SpinSpec, ImplementsTryLock, Lock!Spec
=============================================================================

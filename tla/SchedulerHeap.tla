--------------------------- MODULE SchedulerHeap ---------------------------
(***************************************************************************)
(* The scheduler of the kernel as coded: which thread runs on which CPU.   *)
(* Every CPU belongs to a CPU set; a set has a stack of free CPUs, a heap  *)
(* of running and a heap of ready threads.  Smaller priorities are better. *)
(*                                                                         *)
(* Every entry point runs to its end under the kernel lock (SpinLock.tla), *)
(* so it is one step.  An operator on the scheduler state S models one C   *)
(* function, and the calls a function makes are compositions.              *)
(*                                                                         *)
(*   kernel/thread_heap.c   Insert, Remove                                 *)
(*   kernel/cpu.c           LeaveRunState, EnterRunState                   *)
(*   kernel/modify_pri.c    ModifyPriority                                 *)
(*   kernel/cpu_set.c       ChangeCpuSet                                   *)
(***************************************************************************)
EXTENDS ThreadHeap, SchedulerOps, FiniteSets

CONSTANTS InitialSet, \* CPU set 0, where everything starts
          BootThread, \* thread 0
          BootCpu     \* CPU 0

ASSUME SchedulerAssumption ==
  /\ IsFiniteSet(Thread) /\ IsFiniteSet(Cpu)
  /\ InitialSet \in CpuSet /\ BootThread \in Thread /\ BootCpu \in Cpu

VARIABLE S   \* the scheduler state, see TypeOK

-----------------------------------------------------------------------------
(* Faults a change of the code might introduce: the best running thread    *)
(* preempted; a stack place off by one; the CPU's thread not reset.  Others*)
(* stand before the definitions they change.  No definition uses them.     *)
RunKeyBestFirst(st) == st.priority
LeaveRunStatePastTop(st, t) ==
  LET s == st.cpu_set_id[t]
      c == st.cpu_id[t]
  IN  [st EXCEPT !.cpu_id[t] = None,
                 !.thread_id[c] = None,
                 !.stack_location[c] = Len(st.free_cpu[s]) + 2,
                 !.cpu_set_of[c] = s,
                 !.free_cpu[s] = Append(@, c)]

-----------------------------------------------------------------------------
(* The two heaps of a set, with the heap_id field they share.              *)
RunKey(st)     == [t \in Thread |-> -st.priority[t]]
ReadyHeap(st, s) == [at |-> st.ready_heap[s], id |-> st.heap_id]
RunHeap(st, s)   == [at |-> st.run_heap[s], id |-> st.heap_id]
WithReadyHeap(st, s, H) ==
  [st EXCEPT !.ready_heap[s] = H.at, !.heap_id = H.id]
WithRunHeap(st, s, H) ==
  [st EXCEPT !.run_heap[s] = H.at, !.heap_id = H.id]

InsertReady(st, t) ==
  LET s == st.cpu_set_id[t]
  IN  WithReadyHeap(st, s, HeapInsert(ReadyHeap(st, s), st.priority, t))
RemoveReady(st, t) ==
  LET s == st.cpu_set_id[t]
  IN  WithReadyHeap(st, s, HeapRemove(ReadyHeap(st, s), st.priority, t))
InsertRun(st, t) ==
  LET s == st.cpu_set_id[t]
  IN  WithRunHeap(st, s, HeapInsert(RunHeap(st, s), RunKey(st), t))
RemoveRun(st, t) ==
  LET s == st.cpu_set_id[t]
  IN  WithRunHeap(st, s, HeapRemove(RunHeap(st, s), RunKey(st), t))

(* The thread's CPU goes on top of the free stack of the thread's set.     *)
LeaveRunState(st, t) ==
  LET s == st.cpu_set_id[t]
      c == st.cpu_id[t]
  IN  [st EXCEPT !.cpu_id[t] = None,
                 !.thread_id[c] = None,
                 !.stack_location[c] = Len(st.free_cpu[s]) + 1,
                 !.cpu_set_of[c] = s,
                 !.free_cpu[s] = Append(@, c)]

(* The thread takes the CPU on top of the free stack.                      *)
EnterRunState(st, t) ==
  LET s   == st.cpu_set_id[t]
      top == Len(st.free_cpu[s])
      c   == st.free_cpu[s][top]
  IN  [st EXCEPT !.cpu_id[t] = c,
                 !.thread_id[c] = t,
                 !.stack_location[c] = 0,
                 !.cpu_set_of[c] = s,
                 !.free_cpu[s] = SubSeq(@, 1, top - 1)]

-----------------------------------------------------------------------------
(* A woken thread takes the root of the run heap from the worst running    *)
(* thread, which becomes ready.                                            *)
Preempt(st, t) ==
  LET s      == st.cpu_set_id[t]
      t_run  == st.run_heap[s][1]
      placed == [st EXCEPT !.state[t] = "RUN",
                           !.heap_id[t] = 1,
                           !.run_heap[s][1] = t]
      sifted == WithRunHeap(placed, s,
                            DownDeal(RunHeap(placed, s), RunKey(placed), t))
      ready  == InsertReady([sifted EXCEPT !.state[t_run] = "READY"], t_run)
  IN  EnterRunState(LeaveRunState(ready, t_run), t)

(* Faults: nobody is preempted; equals are.                                *)
InsertOr(st, t, preempts) ==
  LET s == st.cpu_set_id[t]
  IN  IF st.state[t] # "SLEEP" THEN st
      ELSE IF st.free_cpu[s] # <<>>
      THEN EnterRunState(InsertRun([st EXCEPT !.state[t] = "RUN"], t), t)
      ELSE IF st.run_heap[s] # <<>> /\ preempts THEN Preempt(st, t)
      ELSE InsertReady([st EXCEPT !.state[t] = "READY"], t)
InsertNeverPreempts(st, t)   == InsertOr(st, t, FALSE)
InsertPreemptsEquals(st, t) ==
  InsertOr(st, t, st.priority[t] <= st.priority[st.run_heap[st.cpu_set_id[t]][1]])

(* insert_into_heap: run on a free CPU, wait, or preempt.                  *)
Insert(st, t) ==
  LET s == st.cpu_set_id[t]
  IN  IF st.state[t] # "SLEEP" THEN st
      ELSE IF st.free_cpu[s] # <<>>
      THEN EnterRunState(InsertRun([st EXCEPT !.state[t] = "RUN"], t), t)
      ELSE IF \/ st.run_heap[s] = <<>>
              \/ st.priority[t] >= st.priority[st.run_heap[s][1]]
      THEN InsertReady([st EXCEPT !.state[t] = "READY"], t)
      ELSE Preempt(st, t)

(* A leaving running thread exchanges its place with the best ready one.   *)
HandOver(st, t_run) ==
  LET s       == st.cpu_set_id[t_run]
      t_ready == st.ready_heap[s][1]
      h_run   == st.heap_id[t_run]
      swapped == [st EXCEPT !.run_heap[s][h_run] = t_ready,
                            !.ready_heap[s][1] = t_run,
                            !.heap_id[t_run] = 1,
                            !.heap_id[t_ready] = h_run,
                            !.state[t_run] = "SLEEP",
                            !.state[t_ready] = "RUN"]
      sifted  == WithRunHeap(swapped, s, UpDeal(RunHeap(swapped, s),
                                                RunKey(swapped), t_ready))
      removed == RemoveReady(sifted, t_run)
  IN  EnterRunState(LeaveRunState(removed, t_run), t_ready)

(* remove_from_heap.                                                       *)
Remove(st, t) ==
  CASE st.state[t] = "SLEEP" -> st
    [] st.state[t] = "READY" -> [RemoveReady(st, t) EXCEPT !.state[t] = "SLEEP"]
    [] st.state[t] = "RUN" ->
         IF st.ready_heap[st.cpu_set_id[t]] = <<>>
         THEN LeaveRunState([RemoveRun(st, t) EXCEPT !.state[t] = "SLEEP"], t)
         ELSE HandOver(st, t)

(* Out of its heaps, changed, and back in.                                 *)
Requeue(st, t, p, s) ==
  Insert([Remove(st, t) EXCEPT !.priority[t] = p, !.cpu_set_id[t] = s], t)

(* A set id that is not a set means "the same one".                        *)
SetOr(s, old) == IF s \in CpuSet THEN s ELSE old

(* modify_thread_priority.                                                 *)
ModifyPriority(st, t, p, s) ==
  LET old   == st.cpu_set_id[t]
      new   == SetOr(s, old)
      ready == ReadyHeap(st, old)
      run   == RunHeap(st, old)
      repri == [st EXCEPT !.priority[t] = p]
      worse == p > st.priority[t]
  IN  CASE st.state[t] = "SLEEP" ->
             [repri EXCEPT !.cpu_set_id[t] = new]
        [] st.state[t] # "SLEEP" /\ new # old ->
             Requeue(st, t, p, new)
        [] st.state[t] = "READY" /\ new = old ->
             IF p = st.priority[t] THEN st
             ELSE IF run.at # <<>> /\ p < st.priority[run.at[1]]
             THEN Requeue(st, t, p, old)
             ELSE WithReadyHeap(repri, old,
                    IF worse THEN DownDeal(ready, repri.priority, t)
                             ELSE UpDeal(ready, repri.priority, t))
        [] st.state[t] = "RUN" /\ new = old ->
             IF p = st.priority[t] THEN st
             ELSE IF ready.at # <<>> /\ p > st.priority[ready.at[1]]
             THEN Requeue(st, t, p, old)
             ELSE WithRunHeap(repri, old,
                    IF worse THEN UpDeal(run, RunKey(repri), t)
                             ELSE DownDeal(run, RunKey(repri), t))

(* The free CPU c leaves its set; the top of that stack fills its place.   *)
MoveFreeCpu(st, c, new) ==
  LET old == st.cpu_set_of[c]
      loc == st.stack_location[c]
      top == Len(st.free_cpu[old])
      d   == st.free_cpu[old][top]
      out == [st EXCEPT !.thread_id[d] = None,
                        !.stack_location[d] = loc,
                        !.free_cpu[old] = SubSeq([@ EXCEPT ![loc] = d], 1, top - 1)]
  IN  [out EXCEPT !.thread_id[c] = None,
                  !.cpu_set_of[c] = new,
                  !.stack_location[c] = Len(st.free_cpu[new]) + 1,
                  !.free_cpu[new] = Append(@, c)]

(* Fault: the ready threads of the new set are not tried again.            *)
ChangeCpuSetNoRetry(st, c, new) ==
  LET t   == st.thread_id[c]
      off == IF t = None THEN st ELSE Remove(st, t)
      back(r) == IF t = None THEN r ELSE Insert(r, t)
  IN  IF st.cpu_set_of[c] = new THEN st
      ELSE IF off.stack_location[c] = 0 THEN back(off)
      ELSE back(MoveFreeCpu(off, c, new))

(* change_cpu_set.  The thread on the CPU is taken off first; when a ready *)
(* thread got the CPU at once, the call gives up and puts the thread back. *)
ChangeCpuSet(st, c, new) ==
  LET t     == st.thread_id[c]
      off   == IF t = None THEN st ELSE Remove(st, t)
      back(r) == IF t = None THEN r ELSE Insert(r, t)
      moved == back(MoveFreeCpu(off, c, new))
  IN  IF st.cpu_set_of[c] = new THEN st
      ELSE IF off.stack_location[c] = 0 \/ off.free_cpu[off.cpu_set_of[c]] = <<>>
      THEN back(off)
      ELSE IF moved.ready_heap[new] = <<>> THEN moved
      ELSE LET best == moved.ready_heap[new][1]
           IN  Insert(Remove(moved, best), best)

-----------------------------------------------------------------------------
(* The state init_thread, init_cpu and init_thread_0 (kernel/init.c) leave:*)
(* thread 0 runs on CPU 0, everything else sleeps or is free.              *)
FreeAtBoot ==
  CHOOSE q \in [1..Cardinality(Cpu \ {BootCpu}) -> Cpu \ {BootCpu}] :
    \A i, j \in DOMAIN q : q[i] = q[j] => i = j

Init ==
  S = [state      |-> [t \in Thread |-> IF t = BootThread THEN "RUN" ELSE "SLEEP"],
       priority   |-> [t \in Thread |-> 0],
       cpu_set_id |-> [t \in Thread |-> InitialSet],
       cpu_id     |-> [t \in Thread |-> IF t = BootThread THEN BootCpu ELSE None],
       heap_id    |-> [t \in Thread |-> IF t = BootThread THEN 1 ELSE 0],
       thread_id  |-> [c \in Cpu |-> IF c = BootCpu THEN BootThread ELSE None],
       cpu_set_of |-> [c \in Cpu |-> InitialSet],
       stack_location |->
         [c \in Cpu |-> IF c = BootCpu THEN 0
                        ELSE CHOOSE i \in DOMAIN FreeAtBoot : FreeAtBoot[i] = c],
       free_cpu   |-> [s \in CpuSet |-> IF s = InitialSet THEN FreeAtBoot ELSE <<>>],
       run_heap   |-> [s \in CpuSet |-> IF s = InitialSet THEN <<BootThread>> ELSE <<>>],
       ready_heap |-> [s \in CpuSet |-> <<>>]]

(* v() wakes a sleeper; p() puts a running or ready thread to sleep.       *)
Wake(t)  == S.state[t] = "SLEEP" /\ S' = Insert(S, t)
Block(t) == S.state[t] # "SLEEP" /\ S' = Remove(S, t)
Modify(t, p, s) == S' = ModifyPriority(S, t, p, s)
Move(c, s)      == S.cpu_set_of[c] # s /\ S' = ChangeCpuSet(S, c, s)

(* Its own set is no change of set, just as (-1), which stands for both,   *)
(* and no call that would change neither set nor priority is looked at.    *)
NewSets(t, p) ==
  (CpuSet \ {S.cpu_set_id[t]}) \cup (IF p = S.priority[t] THEN {} ELSE {None})

Next ==
  \/ \E t \in Thread : Wake(t)
  \/ \E t \in Thread : Block(t)
  \/ \E t \in Thread, p \in Priority : \E s \in NewSets(t, p) : Modify(t, p, s)
  \/ \E c \in Cpu, s \in CpuSet : Move(c, s)

Spec == Init /\ [][Next]_S

-----------------------------------------------------------------------------
TypeOK ==
  /\ S.state \in [Thread -> {"SLEEP", "READY", "RUN"}]
  /\ S.priority \in [Thread -> Priority \cup {0}]
  /\ S.cpu_set_id \in [Thread -> CpuSet]
  /\ S.cpu_id \in [Thread -> Cpu \cup {None}]
  /\ S.heap_id \in [Thread -> 0..Cardinality(Thread)]
  /\ S.thread_id \in [Cpu -> Thread \cup {None}]
  /\ S.cpu_set_of \in [Cpu -> CpuSet]
  /\ S.stack_location \in [Cpu -> 0..Cardinality(Cpu)]
  /\ S.free_cpu \in [CpuSet -> Seq(Cpu)]
  /\ S.run_heap \in [CpuSet -> Seq(Thread)]
  /\ S.ready_heap \in [CpuSet -> Seq(Thread)]

(* After any sequence of calls, nested ones included, the heaps of a set   *)
(* hold exactly its running and its ready threads, in order, and heap_id   *)
(* is where each of them is: what run_heap.c and ready_heap.c index by.    *)
HeapsConsistent ==
  /\ \A s \in CpuSet :
       /\ HeapOrdered(S.run_heap[s], RunKey(S))
       /\ HeapOrdered(S.ready_heap[s], S.priority)
       /\ \A i \in DOMAIN S.run_heap[s] : S.state[S.run_heap[s][i]] = "RUN"
       /\ \A i \in DOMAIN S.ready_heap[s] : S.state[S.ready_heap[s][i]] = "READY"
       /\ HeapIndexed(RunHeap(S, s)) /\ HeapIndexed(ReadyHeap(S, s))
  /\ \A t \in Thread :
       LET s == S.cpu_set_id[t]
       IN  /\ S.state[t] = "RUN" => \E i \in DOMAIN S.run_heap[s] : S.run_heap[s][i] = t
           /\ S.state[t] = "READY" => \E i \in DOMAIN S.ready_heap[s] : S.ready_heap[s][i] = t

(* The free stack of a set holds exactly the CPUs of the set that run      *)
(* nothing, once each and where their stack_location says (cpu.c,          *)
(* cpu_set.c): no CPU is lost when sets are rearranged.                    *)
FreeStacksConsistent ==
  /\ TypeOK
  /\ \A c \in Cpu :
       LET s == S.cpu_set_of[c]
       IN  IF S.thread_id[c] # None
           THEN S.stack_location[c] = 0
           ELSE /\ S.stack_location[c] \in DOMAIN S.free_cpu[s]
                /\ {i \in DOMAIN S.free_cpu[s] : S.free_cpu[s][i] = c}
                     = {S.stack_location[c]}

(* The heaps and stacks implement the choices Scheduler leaves open.  Step *)
(* is Abstract!Next, with what a change of a thread was read off its       *)
(* outcome instead of guessed, so that TLC has fewer cases to try.         *)
Abstract == INSTANCE Scheduler WITH
  state <- S.state, priority <- S.priority, cpu_set_id <- S.cpu_set_id,
  cpu_id <- S.cpu_id, thread_id <- S.thread_id, cpu_set_of <- S.cpu_set_of
Step ==
  \/ \E t \in Thread :
       /\ <<S.priority[t], S.cpu_set_id[t]>>' # <<S.priority[t], S.cpu_set_id[t]>>
       /\ S'.priority[t] \in Priority
       /\ Abstract!Modify(t, S'.priority[t], S'.cpu_set_id[t])
  \/ \E t \in Thread : Abstract!Wake(t) \/ Abstract!Block(t)
  \/ \E c \in Cpu, s \in CpuSet : Abstract!Move(c, s)
ImplementsScheduler == Abstract!Init /\ [][Step]_(Abstract!vars)

(* What Scheduler promises, of the heaps and stacks.                       *)
(* No CPU of a set is free while a thread of the set is ready, although    *)
(* change_cpu_set moves CPUs away from under the threads they run.         *)
NoIdleCpu == Abstract!NoIdleCpu

(* No ready thread is better than a running one of its set, although       *)
(* modify_thread_priority requeues a thread only when it thinks it must.   *)
PriorityOrder == Abstract!PriorityOrder

(* insert_into_heap: a waking thread takes the CPU from at most one thread,*)
(* and only from one that is strictly worse; equals keep theirs.           *)
WakePreemptsOnlyWorse == Abstract!WakePreemptsOnlyWorse
=============================================================================

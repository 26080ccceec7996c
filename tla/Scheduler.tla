------------------------------ MODULE Scheduler ------------------------------
(***************************************************************************)
(* What the scheduler of the kernel promises, without the heaps and stacks *)
(* of SchedulerHeap.tla: after a call its tables are one of the results    *)
(* SchedulerOps gives.                                                     *)
(***************************************************************************)
EXTENDS SchedulerOps

CONSTANTS InitialSet, BootThread, BootCpu

ASSUME BootConstants ==
  InitialSet \in CpuSet /\ BootThread \in Thread /\ BootCpu \in Cpu

VARIABLES state,       \* os_thread[].state
          priority,    \* os_thread[].priority
          cpu_set_id,  \* os_thread[].cpu_set_id
          cpu_id,      \* os_thread[].cpu_id
          thread_id,   \* os_cpu[].thread_id
          cpu_set_of   \* os_cpu[].cpu_set_id

vars == <<state, priority, cpu_set_id, cpu_id, thread_id, cpu_set_of>>

Here == [state |-> state, priority |-> priority, cpu_set_id |-> cpu_set_id,
         cpu_id |-> cpu_id, thread_id |-> thread_id, cpu_set_of |-> cpu_set_of]

-----------------------------------------------------------------------------
Init ==
  /\ state = [t \in Thread |-> IF t = BootThread THEN "RUN" ELSE "SLEEP"]
  /\ priority = [t \in Thread |-> 0]
  /\ cpu_set_id = [t \in Thread |-> InitialSet]
  /\ cpu_id = [t \in Thread |-> IF t = BootThread THEN BootCpu ELSE None]
  /\ thread_id = [c \in Cpu |-> IF c = BootCpu THEN BootThread ELSE None]
  /\ cpu_set_of = [c \in Cpu |-> InitialSet]

Becomes(st) ==
  /\ state' = st.state /\ priority' = st.priority
  /\ cpu_set_id' = st.cpu_set_id /\ cpu_id' = st.cpu_id
  /\ thread_id' = st.thread_id /\ cpu_set_of' = st.cpu_set_of

Wake(t) ==
  /\ state[t] = "SLEEP"
  /\ \E r \in InsertResults(Here, t) : Becomes(r)

Block(t) ==
  /\ state[t] # "SLEEP"
  /\ \E r \in RemoveResults(Here, t) : Becomes(r)

Modify(t, p, s) == \E r \in ModifyResults(Here, t, p, s) : Becomes(r)

Move(c, s) ==
  /\ cpu_set_of[c] # s
  /\ \E r \in MoveResults(Here, c, s) : Becomes(r)

Next ==
  \/ \E t \in Thread : Wake(t) \/ Block(t)
  \/ \E t \in Thread, p \in Priority, s \in CpuSet : Modify(t, p, s)
  \/ \E c \in Cpu, s \in CpuSet : Move(c, s)

Spec == Init /\ [][Next]_vars

-----------------------------------------------------------------------------
TypeOK ==
  /\ state \in [Thread -> {"SLEEP", "READY", "RUN"}]
  /\ priority \in [Thread -> Int]
  /\ cpu_set_id \in [Thread -> CpuSet]
  /\ cpu_id \in [Thread -> Cpu \cup {None}]
  /\ thread_id \in [Cpu -> Thread \cup {None}]
  /\ cpu_set_of \in [Cpu -> CpuSet]

(* os_cpu[].thread_id and os_thread[].cpu_id are inverse to each other, and*)
(* a thread only ever runs on a CPU of its own set (kernel/cpu.c): a       *)
(* processor picks its thread from os_cpu[] alone.                         *)
CpuThreadAgree ==
  /\ \A t \in Thread :
       IF state[t] = "RUN"
       THEN /\ cpu_id[t] \in Cpu
            /\ thread_id[cpu_id[t]] = t
            /\ cpu_set_of[cpu_id[t]] = cpu_set_id[t]
       ELSE cpu_id[t] = None
  /\ \A c \in Cpu : thread_id[c] # None => cpu_id[thread_id[c]] = c

(* The scheduler is work-conserving: while a thread of a set is ready,     *)
(* no CPU of that set is free, whatever moved between the sets.            *)
NoIdleCpu ==
  \A t \in Thread, c \in Cpu :
    state[t] = "READY" /\ cpu_set_of[c] = cpu_set_id[t] => thread_id[c] # None

(* No ready thread is better than a running thread of its set, after wakes,*)
(* blocks, priority changes, thread migration and CPU moves alike.         *)
PriorityOrder ==
  \A t, u \in Thread :
    state[t] = "RUN" /\ state[u] = "READY" /\ cpu_set_id[t] = cpu_set_id[u]
      => priority[t] <= priority[u]

(* insert_into_heap: waking a thread takes the CPU from at most one other  *)
(* thread, and only from one of strictly worse priority; equals keep it.   *)
WakePreemptsOnlyWorse ==
  [][\A t, u \in Thread :
       /\ state[t] = "SLEEP" /\ state'[t] # "SLEEP"
       /\ state[u] = "RUN" /\ state'[u] # "RUN"
       => /\ state'[t] = "RUN" /\ cpu_id'[t] = cpu_id[u]
          /\ priority[t] < priority[u]]_vars

(* A change of one thread's priority or set never starts or stops a thread *)
(* of a set it neither was in nor goes to, and never puts one to sleep.    *)
ModifyIsLocal ==
  [][\A t, u \in Thread :
       /\ priority'[t] # priority[t] \/ cpu_set_id'[t] # cpu_set_id[t]
       /\ u # t /\ state'[u] # state[u]
       => /\ cpu_set_id[u] \in {cpu_set_id[t], cpu_set_id'[t]}
          /\ {state[u], state'[u]} = {"READY", "RUN"}]_vars
=============================================================================

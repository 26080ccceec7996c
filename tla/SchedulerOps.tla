---------------------------- MODULE SchedulerOps ----------------------------
(***************************************************************************)
(* The operations of the scheduler on a state st of its tables, without    *)
(* its data structures.  The heaps and the stacks of free CPUs only choose *)
(* among equals: which of the worst running threads is preempted, which of *)
(* the best ready threads is next, which free CPU is taken.  Here every    *)
(* such choice is open: an operator gives the set of states the function   *)
(* may leave.                                                              *)
(***************************************************************************)
EXTENDS Integers, Threads

CONSTANTS Cpu,      \* CPU ids
          CpuSet,   \* CPU set ids
          Priority  \* the priorities callers pass

ASSUME SchedulerConstants ==
  Priority \subseteq Int /\ None \notin Thread \cup Cpu \cup CpuSet

(* state, priority, cpu_set_id, cpu_id are fields of os_thread[]; thread_id*)
(* and cpu_set_of (cpu_set_id in the code) of os_cpu[].                    *)
-----------------------------------------------------------------------------
(* Priorities: the smaller one is better.                                  *)
Better(p, q) == p < q

ThreadsIn(st, s, x) == {t \in Thread : st.cpu_set_id[t] = s /\ st.state[t] = x}
FreeCpus(st, s) ==
  {c \in Cpu : st.cpu_set_of[c] = s /\ st.thread_id[c] = None}
WorstRunning(st, s) ==
  {t \in ThreadsIn(st, s, "RUN") :
     \A u \in ThreadsIn(st, s, "RUN") : st.priority[u] <= st.priority[t]}
BestReady(st, s) ==
  {t \in ThreadsIn(st, s, "READY") :
     \A u \in ThreadsIn(st, s, "READY") : st.priority[t] <= st.priority[u]}

(* Thread t starts on the free CPU c; it stops with state x; u takes over  *)
(* the CPU of t.                                                           *)
Dispatch(st, t, c) ==
  [st EXCEPT !.state[t] = "RUN", !.cpu_id[t] = c, !.thread_id[c] = t]
Stop(st, t, x) ==
  [st EXCEPT !.state[t] = x, !.cpu_id[t] = None,
             !.thread_id[st.cpu_id[t]] = None]
Switch(st, t, x, u) == Dispatch(Stop(st, t, x), u, st.cpu_id[t])

(* insert_into_heap: a free CPU, else wait, else preempt.                  *)
InsertResults(st, t) ==
  LET s    == st.cpu_set_id[t]
      free == FreeCpus(st, s)
  IN  IF free # {} THEN {Dispatch(st, t, c) : c \in free}
      ELSE IF \E u \in ThreadsIn(st, s, "RUN") : Better(st.priority[t], st.priority[u])
      THEN {Switch(st, u, "READY", t) : u \in WorstRunning(st, s)}
      ELSE {[st EXCEPT !.state[t] = "READY"]}

(* remove_from_heap: the best ready thread takes the CPU that comes free.  *)
RemoveResults(st, t) ==
  LET s == st.cpu_set_id[t]
  IN  IF st.state[t] = "READY" THEN {[st EXCEPT !.state[t] = "SLEEP"]}
      ELSE IF ThreadsIn(st, s, "READY") = {} THEN {Stop(st, t, "SLEEP")}
      ELSE {Switch(st, t, "SLEEP", u) : u \in BestReady(st, s)}

Modified(st, t, p, s) == [st EXCEPT !.priority[t] = p, !.cpu_set_id[t] = s]

RequeueResults(st, t, p, s) ==
  UNION {InsertResults(Modified(r, t, p, s), t) : r \in RemoveResults(st, t)}

(* modify_thread_priority: the thread is requeued only when its new set or *)
(* priority could change who runs.                                         *)
MustRequeue(st, t, p, s) ==
  LET old == st.cpu_set_id[t]
  IN  \/ s # old
      \/ /\ st.state[t] = "READY"
         /\ \E u \in ThreadsIn(st, old, "RUN") : Better(p, st.priority[u])
      \/ /\ st.state[t] = "RUN"
         /\ \E u \in ThreadsIn(st, old, "READY") : Better(st.priority[u], p)

ModifyResults(st, t, p, s) ==
  IF st.state[t] = "SLEEP" \/ ~MustRequeue(st, t, p, s)
  THEN {Modified(st, t, p, s)}
  ELSE RequeueResults(st, t, p, s)

(* change_cpu_set: the thread on the CPU, if any, is set aside; unless     *)
(* another one took the CPU meanwhile, the CPU moves; the thread comes     *)
(* back, and the best ready thread of the new set is tried again.          *)
SetAside(st, t) == IF t = None THEN {st} ELSE RemoveResults(st, t)
PutBack(st, t)  == IF t = None THEN {st} ELSE InsertResults(st, t)
Rehome(st, c, new) == [st EXCEPT !.cpu_set_of[c] = new]

Retry(st, s) ==
  IF ThreadsIn(st, s, "READY") = {} THEN {st}
  ELSE UNION {UNION {InsertResults(r, u) : r \in RemoveResults(st, u)}
                : u \in BestReady(st, s)}

MoveResults(st, c, new) ==
  LET t == st.thread_id[c]
  IN  UNION {IF r.thread_id[c] # None
             THEN PutBack(r, t)
             ELSE UNION {Retry(q, new) : q \in PutBack(Rehome(r, c, new), t)}
               : r \in SetAside(st, t)}
=============================================================================

------------------------------- MODULE Ops_proofs -------------------------------
(***************************************************************************)
(* What is proved of the modules that have no variables, for any constants:*)
(* of the limits of swapping (SwapPolicy), of the scheduler's operations   *)
(* (SchedulerOps), of those on semaphores (SemaphoreOps) and of heaps      *)
(* (ThreadHeap).  The modules that compose these operations prove their    *)
(* invariants from this.                                                   *)
(***************************************************************************)
EXTENDS SwapPolicy, SchedulerOps, SemaphoreOps, ThreadHeap, SequenceTheorems,
        FiniteSetTheorems, TLAPS

(* SwapPolicy.  The order of the thresholds is an assumption of BlockTable *)
(* (TableAssumption); it is shown here to be what allocate_memory_resource *)
(* leaves behind.                                                          *)
USE DEF Limit

(* A request is brought into order whatever it asks for, negative numbers  *)
(* included.                                                               *)
LEMMA InBoundsInOrder ==
  ASSUME NEW r \in Limit, NEW total \in Nat
  PROVE  InOrder(InBounds(r, total), total) /\ InBounds(r, total).max >= 1
  <1> DEFINE max  == AtLeast(r.max, 1)
             free == AtLeast(AtMost(r.free, max - 1), 0)
             write == AtLeast(AtMost(r.write, free), 0)
             half(x) == AtLeast(AtMost(x, total \div 2), 0)
  <1>1. max \in Int /\ max >= 1
    BY DEF AtLeast
  <1>2. free \in Int /\ 0 <= free /\ free < max
    <2> HIDE DEF max
    <2> QED
      BY <1>1 DEF AtLeast, AtMost
  <1>3. write \in Int /\ 0 <= write /\ write <= free
    <2> HIDE DEF free
    <2> QED
      BY <1>2 DEF AtLeast, AtMost
  <1>4. \A x \in Int : half(x) \in 0..(total \div 2)
    <2>1. total \div 2 \in Nat
      OBVIOUS
    <2> QED
      BY <2>1 DEF AtLeast, AtMost
  <1>5. InBounds(r, total) =
          [max |-> max, free |-> free, write |-> write,
           systemWrite |-> half(r.systemWrite), systemFree |-> half(r.systemFree)]
    BY DEF InBounds
  <1>6. total \div 2 \in Nat
    OBVIOUS
  <1>7. half(r.systemWrite) \in 0..(total \div 2) /\ half(r.systemFree) \in 0..(total \div 2)
    BY <1>4
  <1> HIDE DEF max, free, write, half
  <1> QED
    BY <1>1, <1>2, <1>3, <1>5, <1>6, <1>7 DEF InOrder

(* resource.c: allocate_memory_resource keeps the thresholds of a domain   *)
(* in order, whatever is asked for and whichever capability asks; with its *)
(* own capability a domain never gets more than it had.                    *)
THEOREM AllocatedInOrder ==
  ASSUME NEW total \in Nat, NEW l, InOrder(l, total), NEW r \in Limit,
         NEW system \in BOOLEAN
  PROVE  /\ InOrder(Allocated(l, r, total, system), total)
         /\ ~system => /\ Allocated(l, r, total, system).max <= l.max
                       /\ Allocated(l, r, total, system).free <= l.free
                       /\ Allocated(l, r, total, system).write <= l.write
  <1> DEFINE b == InBounds(r, total)
  <1>1. InOrder(b, total) /\ b.max >= 1
    BY InBoundsInOrder
  <1> HIDE DEF b
  <1>2. CASE system
    BY <1>1, <1>2 DEF Allocated, b
  <1>3. CASE ~system
    <2> DEFINE a == [max |-> AtMost(l.max, b.max), write |-> AtMost(l.write, b.write),
                     free |-> AtMost(l.free, b.free),
                     systemWrite |-> AtLeast(l.systemWrite, b.systemWrite),
                     systemFree |-> AtLeast(l.systemFree, b.systemFree)]
    <2>1. Allocated(l, r, total, system) = a
      BY <1>3 DEF Allocated, b
    <2>2. /\ l \in Limit /\ b \in Limit
          /\ total \div 2 \in Nat
      BY <1>1 DEF InOrder
    <2>3. a \in Limit
      BY <2>2 DEF AtMost, AtLeast
    <2>4. /\ a.systemWrite \in 0..(total \div 2)
          /\ a.systemFree \in 0..(total \div 2)
      BY <1>1, <2>2 DEF InOrder, AtLeast
    <2>5. \/ 0 <= a.write /\ a.write <= a.free /\ a.free < a.max
          \/ a.write = 0 /\ a.free = 0 /\ a.max = 0
      BY <1>1, <2>2 DEF InOrder, AtMost
    <2>6. a.max <= l.max /\ a.free <= l.free /\ a.write <= l.write
      BY <2>2 DEF AtMost
    <2> QED
      BY <2>1, <2>3, <2>4, <2>5, <2>6 DEF InOrder
  <1> QED
    BY <1>2, <1>3

(* What install leaves is in order as well.                                *)
LEMMA NoLimitInOrder ==
  ASSUME NEW total \in Nat PROVE InOrder(NoLimit, total)
  <1>1. total \div 2 \in Nat
    OBVIOUS
  <1> QED
    BY <1>1 DEF InOrder, NoLimit

(* swap_policy.c: a domain that has nothing to free is not full, so that a *)
(* thread that passes prepare_free_block without writing or freeing finds  *)
(* its domain within its limit; and whoever has to free has to write.      *)
THEOREM NotFullUnlessFreeing ==
  ASSUME NEW total \in Nat, NEW l, InOrder(l, total), NEW n \in Nat,
         NEW systemFree \in Nat
  PROVE  /\ ~ShouldFree(l, n, systemFree) => n < l.max
         /\ ~ShouldWrite(l, n, systemFree) => n + 1 <= l.max /\ n < l.write
         /\ ShouldFree(l, n, systemFree) => ShouldWrite(l, n, systemFree)
  BY DEF InOrder, ShouldFree, ShouldWrite

(* A domain that has to write only because of its own count always can,    *)
(* unless it must free as well: between the two thresholds only the blocks *)
(* left for writers, of which the whole body is short, keep it from it.    *)
THEOREM WritesBetweenThresholds ==
  ASSUME NEW total \in Nat, NEW l, InOrder(l, total), NEW n \in Nat,
         NEW systemFree \in Nat, NEW reserve \in Nat,
         ShouldWrite(l, n, systemFree), ~ShouldFree(l, n, systemFree)
  PROVE  CanWrite(l, n, systemFree, reserve) <=> systemFree >= reserve
  BY DEF InOrder, ShouldFree, ShouldWrite, CanWrite

-----------------------------------------------------------------------------
(* SchedulerOps.  An operation composes removals, changes and insertions,  *)
(* so the invariant is a predicate Good(st, X) on scheduler states, the    *)
(* ones between two calls included.  X is a set of free CPUs that may be   *)
(* idle although a thread of their set is ready: the CPU change_cpu_set    *)
(* has just moved, until the best ready thread of its new set is tried     *)
(* again.                                                                  *)
HIDE DEF Limit
USE DEF Better

SchedState ==
  [state : [Thread -> {"SLEEP", "READY", "RUN"}],
   priority : [Thread -> Int],
   cpu_set_id : [Thread -> CpuSet],
   cpu_id : [Thread -> Cpu \cup {None}],
   thread_id : [Cpu -> Thread \cup {None}],
   cpu_set_of : [Cpu -> CpuSet]]

Agree(st) ==
  /\ \A t \in Thread :
       IF st.state[t] = "RUN"
       THEN /\ st.cpu_id[t] \in Cpu
            /\ st.thread_id[st.cpu_id[t]] = t
            /\ st.cpu_set_of[st.cpu_id[t]] = st.cpu_set_id[t]
       ELSE st.cpu_id[t] = None
  /\ \A c \in Cpu : st.thread_id[c] # None => st.cpu_id[st.thread_id[c]] = c

BusyUnlessIn(st, X) ==
  \A t \in Thread, c \in Cpu \ X :
    st.state[t] = "READY" /\ st.cpu_set_of[c] = st.cpu_set_id[t]
      => st.thread_id[c] # None

Ordered(st) ==
  \A t, u \in Thread :
    /\ st.state[t] = "RUN" /\ st.state[u] = "READY"
    /\ st.cpu_set_id[t] = st.cpu_set_id[u]
    => st.priority[t] <= st.priority[u]

Good(st, X) ==
  /\ st \in SchedState
  /\ Agree(st)
  /\ BusyUnlessIn(st, X)
  /\ Ordered(st)

(* What an insertion or a removal of t leaves alone.                       *)
Kept(st, r) ==
  /\ r.priority = st.priority
  /\ r.cpu_set_id = st.cpu_set_id
  /\ r.cpu_set_of = st.cpu_set_of

(* Whom an insertion of t may stop, and whom a removal of t may start.     *)
Preempts(st, r, t) ==
  /\ r.state[t] # "SLEEP"
  /\ \A v \in Thread \ {t} : r.state[v] # st.state[v] =>
       /\ st.state[v] = "RUN" /\ r.state[v] = "READY"
       /\ st.cpu_set_id[v] = st.cpu_set_id[t]
       /\ r.state[t] = "RUN" /\ r.cpu_id[t] = st.cpu_id[v]
       /\ st.priority[t] < st.priority[v]
HandsOver(st, r, t) ==
  /\ r.state[t] = "SLEEP"
  /\ \A v \in Thread \ {t} : r.state[v] # st.state[v] =>
       /\ st.state[v] = "READY" /\ r.state[v] = "RUN"
       /\ st.cpu_set_id[v] = st.cpu_set_id[t]

(* Nobody falls asleep or wakes up.                                        *)
SameSleepers(st, r) ==
  \A v \in Thread : r.state[v] = "SLEEP" <=> st.state[v] = "SLEEP"

-----------------------------------------------------------------------------
(* Dispatching a thread that does not run on a free CPU of its set keeps   *)
(* the two tables inverse to each other (enter_run_state).                 *)
LEMMA DispatchAgree ==
  ASSUME NEW st \in SchedState, Agree(st),
         NEW t \in Thread, st.state[t] # "RUN",
         NEW c \in Cpu, st.thread_id[c] = None,
         st.cpu_set_of[c] = st.cpu_set_id[t],
         NEW r, r = Dispatch(st, t, c)
  PROVE  /\ r \in SchedState /\ Agree(r) /\ Kept(st, r)
         /\ \A v \in Thread : r.state[v] = IF v = t THEN "RUN" ELSE st.state[v]
         /\ \A d \in Cpu : r.thread_id[d] = IF d = c THEN t ELSE st.thread_id[d]
         /\ r.cpu_id[t] = c
  <1>1. /\ r \in SchedState /\ Kept(st, r)
        /\ r.state = [st.state EXCEPT ![t] = "RUN"]
        /\ r.thread_id = [st.thread_id EXCEPT ![c] = t]
        /\ r.cpu_id = [st.cpu_id EXCEPT ![t] = c]
    BY DEF Dispatch, SchedState, Kept
  <1>2. Agree(r)
    BY <1>1, SchedulerConstants DEF Agree, Kept, SchedState
  <1> QED
    BY <1>1, <1>2 DEF SchedState

(* Stopping a running thread frees its CPU (leave_run_state).              *)
LEMMA StopAgree ==
  ASSUME NEW st \in SchedState, Agree(st),
         NEW t \in Thread, st.state[t] = "RUN",
         NEW x \in {"SLEEP", "READY"},
         NEW r, r = Stop(st, t, x)
  PROVE  /\ r \in SchedState /\ Agree(r) /\ Kept(st, r)
         /\ \A v \in Thread : r.state[v] = IF v = t THEN x ELSE st.state[v]
         /\ st.cpu_id[t] \in Cpu
         /\ st.thread_id[st.cpu_id[t]] = t
         /\ st.cpu_set_of[st.cpu_id[t]] = st.cpu_set_id[t]
         /\ \A d \in Cpu : r.thread_id[d] =
                             IF d = st.cpu_id[t] THEN None ELSE st.thread_id[d]
  <1>1. /\ st.cpu_id[t] \in Cpu /\ st.thread_id[st.cpu_id[t]] = t
        /\ st.cpu_set_of[st.cpu_id[t]] = st.cpu_set_id[t]
    BY DEF Agree
  <1>2. /\ r \in SchedState /\ Kept(st, r)
        /\ r.state = [st.state EXCEPT ![t] = x]
        /\ r.thread_id = [st.thread_id EXCEPT ![st.cpu_id[t]] = None]
        /\ r.cpu_id = [st.cpu_id EXCEPT ![t] = None]
    BY <1>1 DEF Stop, SchedState, Kept
  <1>3. Agree(r)
    BY <1>1, <1>2, SchedulerConstants DEF Agree, Kept, SchedState
  <1> QED
    BY <1>1, <1>2, <1>3 DEF SchedState

(* One thread takes over the CPU of another of the same set: every CPU     *)
(* that was busy still is.                                                 *)
LEMMA SwitchAgree ==
  ASSUME NEW st \in SchedState, Agree(st),
         NEW t \in Thread, st.state[t] = "RUN",
         NEW u \in Thread, st.state[u] # "RUN",
         st.cpu_set_id[u] = st.cpu_set_id[t],
         NEW x \in {"SLEEP", "READY"},
         NEW q, q = Switch(st, t, x, u)
  PROVE  /\ q \in SchedState /\ Agree(q) /\ Kept(st, q)
         /\ \A v \in Thread :
              q.state[v] = IF v = u THEN "RUN" ELSE IF v = t THEN x ELSE st.state[v]
         /\ \A d \in Cpu : q.thread_id[d] = None <=> st.thread_id[d] = None
         /\ q.cpu_id[u] = st.cpu_id[t]
  <1>1. PICK r : r = Stop(st, t, x)
    OBVIOUS
  <1>2. PICK c : c = st.cpu_id[t]
    OBVIOUS
  <1>3. /\ r \in SchedState /\ Agree(r) /\ Kept(st, r)
        /\ \A v \in Thread : r.state[v] = IF v = t THEN x ELSE st.state[v]
        /\ c \in Cpu /\ st.cpu_set_of[c] = st.cpu_set_id[t] /\ st.thread_id[c] = t
        /\ \A d \in Cpu : r.thread_id[d] = IF d = c THEN None ELSE st.thread_id[d]
    BY <1>1, <1>2, StopAgree
  <1>4. /\ r.state[u] # "RUN" /\ r.thread_id[c] = None
        /\ r.cpu_set_of[c] = r.cpu_set_id[u]
    BY <1>3 DEF Kept
  <1>5. q = Dispatch(r, u, c)
    BY <1>1, <1>2 DEF Switch
  <1>6. /\ q \in SchedState /\ Agree(q) /\ Kept(r, q)
        /\ \A v \in Thread : q.state[v] = IF v = u THEN "RUN" ELSE r.state[v]
        /\ \A d \in Cpu : q.thread_id[d] = IF d = c THEN u ELSE r.thread_id[d]
        /\ q.cpu_id[u] = c
    BY <1>3, <1>4, <1>5, DispatchAgree
  <1>7. \A d \in Cpu : q.thread_id[d] = None <=> st.thread_id[d] = None
    BY <1>3, <1>6, SchedulerConstants
  <1>8. Kept(st, q)
    BY <1>3, <1>6 DEF Kept
  <1> QED
    BY <1>2, <1>3, <1>6, <1>7, <1>8

-----------------------------------------------------------------------------
(* insert_into_heap keeps the invariant, and touches no CPU of another set.*)
LEMMA InsertGood ==
  ASSUME NEW X \in SUBSET Cpu, NEW st, Good(st, X),
         NEW t \in Thread, st.state[t] = "SLEEP",
         \A c \in X : st.cpu_set_of[c] # st.cpu_set_id[t],
         NEW r \in InsertResults(st, t)
  PROVE  /\ Good(r, X) /\ Kept(st, r) /\ Preempts(st, r, t)
         /\ \A c \in X : r.thread_id[c] = None <=> st.thread_id[c] = None
  <1> DEFINE s == st.cpu_set_id[t]
  <1> USE DEF Good
  <1>1. CASE FreeCpus(st, s) # {}
    <2>1. PICK c \in FreeCpus(st, s) : r = Dispatch(st, t, c)
      BY <1>1 DEF InsertResults
    <2>2. c \in Cpu /\ st.thread_id[c] = None /\ st.cpu_set_of[c] = s
      BY <2>1 DEF FreeCpus
    <2>3. /\ r \in SchedState /\ Agree(r) /\ Kept(st, r)
          /\ \A v \in Thread : r.state[v] = IF v = t THEN "RUN" ELSE st.state[v]
          /\ \A d \in Cpu : r.thread_id[d] = IF d = c THEN t ELSE st.thread_id[d]
      BY <2>1, <2>2, DispatchAgree
    <2>4. c \notin X
      BY <2>2
    <2>5. \A v \in Thread : st.cpu_set_id[v] = s => st.state[v] # "READY"
      BY <2>2, <2>4 DEF BusyUnlessIn
    <2>6. BusyUnlessIn(r, X)
      BY <2>3, SchedulerConstants DEF BusyUnlessIn, Kept
    <2>7. Ordered(r)
      BY <2>3, <2>5 DEF Ordered, Kept
    <2>8. Preempts(st, r, t)
      BY <2>3 DEF Preempts
    <2> QED
      BY <2>2, <2>3, <2>4, <2>6, <2>7, <2>8
  <1>2. CASE /\ FreeCpus(st, s) = {}
             /\ \E u \in ThreadsIn(st, s, "RUN") : st.priority[t] < st.priority[u]
    <2>1. PICK u \in WorstRunning(st, s) : r = Switch(st, u, "READY", t)
      BY <1>2 DEF InsertResults
    <2>2. /\ u \in Thread /\ st.cpu_set_id[u] = s /\ st.state[u] = "RUN"
          /\ \A v \in Thread : st.cpu_set_id[v] = s /\ st.state[v] = "RUN"
                                 => st.priority[v] <= st.priority[u]
      BY <2>1 DEF WorstRunning, ThreadsIn
    <2>3. st.priority[t] < st.priority[u]
      BY <1>2, <2>2 DEF ThreadsIn, SchedState
    <2>4. /\ r \in SchedState /\ Agree(r) /\ Kept(st, r)
          /\ \A v \in Thread :
               r.state[v] = IF v = t THEN "RUN" ELSE IF v = u THEN "READY" ELSE st.state[v]
          /\ \A d \in Cpu : r.thread_id[d] = None <=> st.thread_id[d] = None
          /\ r.cpu_id[t] = st.cpu_id[u]
      BY <2>1, <2>2, SwitchAgree
    <2>5. \A d \in Cpu \ X : st.cpu_set_of[d] = s => st.thread_id[d] # None
      BY <1>2 DEF FreeCpus
    <2>6. BusyUnlessIn(r, X)
      BY <2>2, <2>4, <2>5 DEF BusyUnlessIn, Kept
    <2>7. Ordered(r)
      <3>1. SUFFICES ASSUME NEW v \in Thread, NEW w \in Thread,
                            r.state[v] = "RUN", r.state[w] = "READY",
                            st.cpu_set_id[v] = st.cpu_set_id[w]
                     PROVE  st.priority[v] <= st.priority[w]
        BY <2>4 DEF Ordered, Kept
      <3>2. /\ st.priority[v] \in Int /\ st.priority[w] \in Int
            /\ st.priority[t] \in Int /\ st.priority[u] \in Int
        BY <2>2 DEF SchedState
      <3>3. w # t /\ v # u
        BY <2>4, <3>1, <2>3, <3>2
      <3>4. CASE v = t /\ w = u
        BY <3>4, <2>3, <3>2
      <3>5. CASE v = t /\ w # u
        <4>1. st.state[w] = "READY" /\ st.cpu_set_id[w] = s
          BY <3>1, <3>3, <3>5, <2>4
        <4>2. st.priority[u] <= st.priority[w]
          BY <4>1, <2>2 DEF Ordered
        <4> QED BY <4>2, <3>2, <3>5, <2>3
      <3>6. CASE v # t /\ w = u
        BY <3>1, <3>3, <3>6, <2>2, <2>4
      <3>7. CASE v # t /\ w # u
        BY <3>1, <3>3, <3>7, <2>4 DEF Ordered
      <3> QED BY <3>4, <3>5, <3>6, <3>7
    <2>8. Preempts(st, r, t)
      BY <2>2, <2>3, <2>4 DEF Preempts
    <2> QED
      BY <2>4, <2>6, <2>7, <2>8
  <1>3. CASE /\ FreeCpus(st, s) = {}
             /\ ~\E u \in ThreadsIn(st, s, "RUN") : st.priority[t] < st.priority[u]
    <2>1. r = [st EXCEPT !.state[t] = "READY"]
      BY <1>3 DEF InsertResults
    <2>2. /\ r \in SchedState /\ Kept(st, r)
          /\ r.state = [st.state EXCEPT ![t] = "READY"]
          /\ r.thread_id = st.thread_id /\ r.cpu_id = st.cpu_id
      BY <2>1 DEF SchedState, Kept
    <2>3. Agree(r)
      BY <2>2 DEF Agree, SchedState, Kept
    <2>4. \A d \in Cpu \ X : st.cpu_set_of[d] = s => st.thread_id[d] # None
      BY <1>3 DEF FreeCpus
    <2>5. BusyUnlessIn(r, X)
      BY <2>2, <2>4 DEF BusyUnlessIn, Kept, SchedState
    <2>6. \A v \in Thread : st.cpu_set_id[v] = s /\ st.state[v] = "RUN"
                              => st.priority[v] <= st.priority[t]
      BY <1>3 DEF ThreadsIn, SchedState
    <2>7. Ordered(r)
      BY <2>2, <2>6 DEF Ordered, Kept, SchedState
    <2>8. Preempts(st, r, t)
      BY <2>2 DEF Preempts, SchedState
    <2> QED
      BY <2>2, <2>3, <2>5, <2>7, <2>8
  <1> QED
    BY <1>1, <1>2, <1>3

(* remove_from_heap keeps the invariant, takes exactly t out, and leaves   *)
(* every CPU of another set as busy as it was.                             *)
LEMMA RemoveGood ==
  ASSUME NEW X \in SUBSET Cpu, NEW st, Good(st, X),
         NEW t \in Thread, st.state[t] # "SLEEP",
         NEW r \in RemoveResults(st, t)
  PROVE  /\ Good(r, X) /\ Kept(st, r)
         /\ HandsOver(st, r, t)
         /\ \A c \in X : st.thread_id[c] = None => r.thread_id[c] = None
  <1> DEFINE s == st.cpu_set_id[t]
  <1> USE DEF Good
  <1>1. CASE st.state[t] = "READY"
    <2>1. r = [st EXCEPT !.state[t] = "SLEEP"]
      BY <1>1 DEF RemoveResults
    <2>2. /\ r \in SchedState /\ Kept(st, r)
          /\ r.state = [st.state EXCEPT ![t] = "SLEEP"]
          /\ r.thread_id = st.thread_id /\ r.cpu_id = st.cpu_id
      BY <2>1 DEF SchedState, Kept
    <2>3. Agree(r)
      BY <1>1, <2>2 DEF Agree, SchedState, Kept
    <2>4. BusyUnlessIn(r, X) /\ Ordered(r)
      BY <2>2 DEF BusyUnlessIn, Ordered, SchedState, Kept
    <2>5. HandsOver(st, r, t)
      BY <2>2 DEF HandsOver, SchedState
    <2> QED
      BY <2>2, <2>3, <2>4, <2>5
  <1>2. CASE st.state[t] = "RUN" /\ ThreadsIn(st, s, "READY") = {}
    <2>1. r = Stop(st, t, "SLEEP")
      BY <1>2 DEF RemoveResults
    <2>2. /\ r \in SchedState /\ Agree(r) /\ Kept(st, r)
          /\ \A v \in Thread : r.state[v] = IF v = t THEN "SLEEP" ELSE st.state[v]
          /\ st.cpu_set_of[st.cpu_id[t]] = s
          /\ \A d \in Cpu : r.thread_id[d] =
                              IF d = st.cpu_id[t] THEN None ELSE st.thread_id[d]
      BY <1>2, <2>1, StopAgree
    <2>3. \A v \in Thread : st.cpu_set_id[v] = s => st.state[v] # "READY"
      BY <1>2 DEF ThreadsIn
    <2>4. BusyUnlessIn(r, X) /\ Ordered(r)
      BY <2>2, <2>3 DEF BusyUnlessIn, Ordered, Kept
    <2>5. HandsOver(st, r, t)
      BY <2>2 DEF HandsOver
    <2> QED
      BY <2>2, <2>4, <2>5
  <1>3. CASE st.state[t] = "RUN" /\ ThreadsIn(st, s, "READY") # {}
    <2>1. PICK u \in BestReady(st, s) : r = Switch(st, t, "SLEEP", u)
      BY <1>3 DEF RemoveResults
    <2>2. /\ u \in Thread /\ st.cpu_set_id[u] = s /\ st.state[u] = "READY"
          /\ \A v \in Thread : st.cpu_set_id[v] = s /\ st.state[v] = "READY"
                                 => st.priority[u] <= st.priority[v]
      BY <2>1 DEF BestReady, ThreadsIn
    <2>3. /\ r \in SchedState /\ Agree(r) /\ Kept(st, r)
          /\ \A v \in Thread :
               r.state[v] = IF v = u THEN "RUN" ELSE IF v = t THEN "SLEEP" ELSE st.state[v]
          /\ \A d \in Cpu : r.thread_id[d] = None <=> st.thread_id[d] = None
      BY <1>3, <2>1, <2>2, SwitchAgree
    <2>4. BusyUnlessIn(r, X)
      BY <2>3 DEF BusyUnlessIn, Kept
    <2>5. Ordered(r)
      BY <2>2, <2>3 DEF Ordered, Kept
    <2>6. HandsOver(st, r, t)
      BY <1>3, <2>2, <2>3 DEF HandsOver
    <2> QED
      BY <1>3, <2>2, <2>3, <2>4, <2>5, <2>6
  <1> QED
    BY <1>1, <1>2, <1>3 DEF SchedState

(* A sleeping thread may be given any priority and any set.                *)
LEMMA ChangeGood ==
  ASSUME NEW X \in SUBSET Cpu, NEW st, Good(st, X),
         NEW t \in Thread, st.state[t] = "SLEEP",
         NEW p \in Int, NEW s \in CpuSet,
         NEW r, r = Modified(st, t, p, s)
  PROVE  /\ Good(r, X)
         /\ r.state = st.state /\ r.thread_id = st.thread_id
         /\ r.cpu_set_of = st.cpu_set_of /\ r.cpu_set_id[t] = s
  <1>1. /\ r \in SchedState
        /\ r.state = st.state /\ r.thread_id = st.thread_id
        /\ r.cpu_set_of = st.cpu_set_of /\ r.cpu_id = st.cpu_id
        /\ \A v \in Thread : r.cpu_set_id[v] = IF v = t THEN s ELSE st.cpu_set_id[v]
        /\ \A v \in Thread : r.priority[v] = IF v = t THEN p ELSE st.priority[v]
    BY DEF Modified, SchedState, Good
  <1>2. Agree(r) /\ BusyUnlessIn(r, X) /\ Ordered(r)
    BY <1>1 DEF Good, Agree, BusyUnlessIn, Ordered
  <1> QED
    BY <1>1, <1>2 DEF Good

(* modify_thread_priority keeps the invariant, also where it only changes  *)
(* the priority in place.                                                  *)
LEMMA ModifyGood ==
  ASSUME NEW st, Good(st, {}),
         NEW t \in Thread, NEW p \in Int, NEW s \in CpuSet,
         NEW r \in ModifyResults(st, t, p, s)
  PROVE  /\ Good(r, {}) /\ SameSleepers(st, r)
         /\ \A v \in Thread \ {t} : r.state[v] # st.state[v] =>
              st.cpu_set_id[v] \in {st.cpu_set_id[t], s}
         /\ r.cpu_set_id[t] = s /\ r.priority[t] = p
         /\ \A v \in Thread \ {t} : /\ r.priority[v] = st.priority[v]
                                    /\ r.cpu_set_id[v] = st.cpu_set_id[v]
  <1>1. CASE st.state[t] = "SLEEP"
    <2>1. r = Modified(st, t, p, s)
      BY <1>1 DEF ModifyResults
    <2>0. {} \in SUBSET Cpu
      OBVIOUS
    <2>2. /\ Good(r, {}) /\ r.state = st.state /\ r.thread_id = st.thread_id
          /\ r.cpu_set_of = st.cpu_set_of /\ r.cpu_set_id[t] = s
      BY <1>1, <2>0, <2>1, ChangeGood
    <2>3. \A v \in Thread \ {t} : /\ r.priority[v] = st.priority[v]
                                  /\ r.cpu_set_id[v] = st.cpu_set_id[v]
      BY <2>1 DEF Modified, Good, SchedState
    <2>4. r.priority[t] = p
      BY <2>1 DEF Modified, Good, SchedState
    <2> QED
      BY <2>2, <2>3, <2>4 DEF SameSleepers
  <1>2. CASE st.state[t] # "SLEEP" /\ MustRequeue(st, t, p, s)
    <2>1. r \in RequeueResults(st, t, p, s)
      BY <1>2 DEF ModifyResults
    <2>2. PICK q \in RemoveResults(st, t) : r \in InsertResults(Modified(q, t, p, s), t)
      BY <2>1 DEF RequeueResults
    <2>3. Good(q, {}) /\ Kept(st, q) /\ HandsOver(st, q, t)
      BY <1>2, <2>2, RemoveGood
    <2>4. PICK q2 : q2 = Modified(q, t, p, s)
      OBVIOUS
    <2>5. /\ Good(q2, {}) /\ q2.state = q.state /\ q2.cpu_set_id[t] = s
          /\ q2.priority[t] = p
          /\ \A v \in Thread \ {t} : q2.cpu_set_id[v] = q.cpu_set_id[v]
          /\ \A v \in Thread \ {t} : q2.priority[v] = q.priority[v]
      <3>1. q.state[t] = "SLEEP"
        BY <2>3 DEF HandsOver
      <3>0. PICK X : X = {} /\ X \in SUBSET Cpu /\ Good(q, X)
        BY <2>3
      <3>2. /\ Good(q2, X) /\ q2.state = q.state /\ q2.thread_id = q.thread_id
            /\ q2.cpu_set_of = q.cpu_set_of /\ q2.cpu_set_id[t] = s
        BY <2>4, <3>0, <3>1, ChangeGood
      <3>3. \A v \in Thread :
              /\ q2.cpu_set_id[v] = IF v = t THEN s ELSE q.cpu_set_id[v]
              /\ q2.priority[v] = IF v = t THEN p ELSE q.priority[v]
        BY <2>3, <2>4 DEF Modified, Good, SchedState
      <3> QED
        BY <2>3, <3>0, <3>2, <3>3
    <2>6. r \in InsertResults(q2, t) /\ q2.state[t] = "SLEEP"
      BY <2>2, <2>3, <2>4, <2>5 DEF HandsOver
    <2>7. Good(r, {}) /\ Kept(q2, r) /\ Preempts(q2, r, t)
      <3>1. PICK X : X = {} OBVIOUS
      <3>2. X \in SUBSET Cpu /\ Good(q2, X) BY <3>1, <2>5
      <3>3. \A c \in X : q2.cpu_set_of[c] # q2.cpu_set_id[t] BY <3>1
      <3>4. Good(r, X) /\ Kept(q2, r) /\ Preempts(q2, r, t)
        BY <3>2, <3>3, <2>6, InsertGood
      <3> QED BY <3>1, <3>4
    <2>8. SameSleepers(st, r)
      BY <1>2, <2>3, <2>5, <2>7 DEF SameSleepers, HandsOver, Preempts
    <2>9. \A v \in Thread \ {t} : r.state[v] # st.state[v] =>
            st.cpu_set_id[v] \in {st.cpu_set_id[t], s}
      BY <2>3, <2>5, <2>7 DEF HandsOver, Preempts, Kept
    <2> QED
      BY <2>3, <2>5, <2>7, <2>8, <2>9 DEF Kept
  <1>3. CASE st.state[t] # "SLEEP" /\ ~MustRequeue(st, t, p, s)
    <2>1. r = Modified(st, t, p, s) /\ s = st.cpu_set_id[t]
      BY <1>3 DEF ModifyResults, MustRequeue
    <2>2. /\ r \in SchedState
          /\ r.state = st.state /\ r.thread_id = st.thread_id
          /\ r.cpu_set_of = st.cpu_set_of /\ r.cpu_id = st.cpu_id
          /\ r.cpu_set_id = st.cpu_set_id
          /\ \A v \in Thread : r.priority[v] = IF v = t THEN p ELSE st.priority[v]
      BY <2>1 DEF Modified, SchedState, Good
    <2>3. Agree(r) /\ BusyUnlessIn(r, {})
      BY <2>2 DEF Good, Agree, BusyUnlessIn
    <2>4. /\ st.state[t] = "READY" =>
               \A u \in Thread : st.cpu_set_id[u] = s /\ st.state[u] = "RUN"
                                   => st.priority[u] <= p
          /\ st.state[t] = "RUN" =>
               \A u \in Thread : st.cpu_set_id[u] = s /\ st.state[u] = "READY"
                                   => p <= st.priority[u]
      BY <1>3, <2>1 DEF MustRequeue, ThreadsIn, SchedState, Good
    <2>5. Ordered(r)
      BY <2>1, <2>2, <2>4 DEF Ordered, Good, SchedState
    <2> QED
      BY <2>1, <2>2, <2>3, <2>5 DEF Good, SameSleepers
  <1> QED
    BY <1>1, <1>2, <1>3

(* What a move of a CPU leaves alone of the threads.                       *)
SameThreads(st, r) ==
  r.priority = st.priority /\ r.cpu_set_id = st.cpu_set_id /\ SameSleepers(st, r)

(* A free CPU may move to any set, if it may be idle there for a moment.   *)
LEMMA RehomeGood ==
  ASSUME NEW st, Good(st, {}), NEW c \in Cpu, st.thread_id[c] = None,
         NEW new \in CpuSet,
         NEW r, r = Rehome(st, c, new)
  PROVE  /\ Good(r, {c})
         /\ r.state = st.state /\ r.thread_id = st.thread_id
         /\ r.cpu_set_id = st.cpu_set_id /\ r.cpu_set_of[c] = new
         /\ r.priority = st.priority
  <1>1. /\ r \in SchedState
        /\ r.state = st.state /\ r.thread_id = st.thread_id
        /\ r.cpu_id = st.cpu_id /\ r.cpu_set_id = st.cpu_set_id
        /\ r.priority = st.priority
        /\ \A d \in Cpu : r.cpu_set_of[d] = IF d = c THEN new ELSE st.cpu_set_of[d]
    BY DEF Rehome, SchedState, Good
  <1>2. Agree(r) /\ BusyUnlessIn(r, {c}) /\ Ordered(r)
    BY <1>1, SchedulerConstants DEF Good, Agree, BusyUnlessIn, Ordered, SchedState
  <1> QED
    BY <1>1, <1>2 DEF Good

(* The retry at the end of change_cpu_set gives the moved CPU to the best  *)
(* ready thread of its new set, so that no CPU need be excused any more.   *)
LEMMA RetryGood ==
  ASSUME NEW c \in Cpu, NEW st, Good(st, {c}), st.thread_id[c] = None,
         NEW s \in CpuSet, st.cpu_set_of[c] = s,
         NEW r \in Retry(st, s)
  PROVE  Good(r, {}) /\ SameThreads(st, r)
  <1>1. CASE ThreadsIn(st, s, "READY") = {}
    <2>1. r = st
      BY <1>1 DEF Retry
    <2>2. BusyUnlessIn(st, {})
      BY <1>1 DEF ThreadsIn, BusyUnlessIn, Good
    <2> QED
      BY <2>1, <2>2 DEF Good, SameThreads, SameSleepers
  <1>2. CASE ThreadsIn(st, s, "READY") # {}
    <2>0. PICK u \in BestReady(st, s) :
            \E q \in RemoveResults(st, u) : r \in InsertResults(q, u)
      BY <1>2 DEF Retry
    <2>1. PICK q \in RemoveResults(st, u) : r \in InsertResults(q, u)
      BY <2>0
    <2>2. /\ u \in Thread /\ st.cpu_set_id[u] = s /\ st.state[u] = "READY"
          /\ \A v \in Thread : st.cpu_set_id[v] = s /\ st.state[v] = "READY"
                                 => st.priority[u] <= st.priority[v]
      BY <2>1 DEF BestReady, ThreadsIn
    <2>3. Good(q, {c}) /\ Kept(st, q) /\ q.state[u] = "SLEEP"
      <3>1. Good(q, {c}) /\ Kept(st, q) /\ HandsOver(st, q, u)
        BY <2>1, <2>2, RemoveGood
      <3> QED
        BY <3>1 DEF HandsOver
    <2>4. /\ q.thread_id = st.thread_id
          /\ \A v \in Thread : q.state[v] = IF v = u THEN "SLEEP" ELSE st.state[v]
      BY <2>1, <2>2 DEF RemoveResults, Good, SchedState
    <2>5. FreeCpus(q, s) = {c}
      BY <2>2, <2>3, <2>4 DEF FreeCpus, Good, BusyUnlessIn, Kept
    <2>6. r = Dispatch(q, u, c)
      BY <2>1, <2>2, <2>3, <2>5 DEF InsertResults, Kept
    <2>7. /\ r \in SchedState /\ Agree(r) /\ Kept(q, r)
          /\ \A v \in Thread : r.state[v] = IF v = u THEN "RUN" ELSE q.state[v]
          /\ \A d \in Cpu : r.thread_id[d] = IF d = c THEN u ELSE q.thread_id[d]
      <3>1. q \in SchedState /\ Agree(q) /\ q.state[u] # "RUN"
        BY <2>3 DEF Good
      <3>2. q.thread_id[c] = None /\ q.cpu_set_of[c] = q.cpu_set_id[u]
        BY <2>2, <2>3, <2>4 DEF Kept
      <3> QED
        BY <2>2, <2>6, <3>1, <3>2, DispatchAgree
    <2>8. BusyUnlessIn(r, {})
      BY <2>2, <2>3, <2>4, <2>7, SchedulerConstants DEF BusyUnlessIn, Good, Kept
    <2>9. Ordered(r)
      BY <2>2, <2>3, <2>4, <2>7 DEF Ordered, Good, Kept
    <2>10. SameThreads(st, r)
      BY <2>2, <2>3, <2>4, <2>7 DEF SameThreads, SameSleepers, Kept
    <2> QED
      BY <2>7, <2>8, <2>9, <2>10 DEF Good
  <1> QED
    BY <1>1, <1>2

(* change_cpu_set keeps the invariant, when it gives up half-way and when  *)
(* it goes through.                                                        *)
LEMMA MoveGood ==
  ASSUME NEW st, Good(st, {}),
         NEW c \in Cpu, NEW new \in CpuSet, st.cpu_set_of[c] # new,
         NEW r \in MoveResults(st, c, new)
  PROVE  Good(r, {}) /\ SameThreads(st, r)
  <1>1. PICK t : t = st.thread_id[c]
    OBVIOUS
  <1>2. t \in Thread \cup {None}
    BY <1>1 DEF Good, SchedState
  <1>3. t # None => /\ st.state[t] = "RUN"
                    /\ st.cpu_set_id[t] = st.cpu_set_of[c]
    BY <1>1, <1>2, SchedulerConstants DEF Good, Agree
  <1>4. PICK q \in SetAside(st, t) :
          r \in IF q.thread_id[c] # None
                THEN PutBack(q, t)
                ELSE UNION {Retry(w, new) : w \in PutBack(Rehome(q, c, new), t)}
    BY <1>1 DEF MoveResults
  <1>5. /\ Good(q, {})
        /\ t = None => q = st
        /\ t # None => HandsOver(st, q, t) /\ q.state[t] = "SLEEP" /\ Kept(st, q)
    <2>1. CASE t = None
      BY <2>1, <1>4 DEF SetAside
    <2>2. CASE t # None
      <3>1. t \in Thread /\ st.state[t] # "SLEEP" /\ q \in RemoveResults(st, t)
        BY <2>2, <1>2, <1>3, <1>4 DEF SetAside
      <3> QED
        BY <2>2, <3>1, RemoveGood DEF HandsOver
    <2> QED
      BY <2>1, <2>2
  <1>6. CASE q.thread_id[c] # None
    <2>1. CASE t = None
      BY <1>4, <1>5, <1>6, <2>1 DEF PutBack, SameThreads, SameSleepers
    <2>2. CASE t # None
      <3>1. t \in Thread /\ q.state[t] = "SLEEP" /\ r \in InsertResults(q, t)
        BY <1>2, <1>4, <1>5, <1>6, <2>2 DEF PutBack
      <3>2. Good(r, {}) /\ Kept(q, r) /\ Preempts(q, r, t)
        BY <1>5, <3>1, InsertGood
      <3>3. SameThreads(st, r)
        BY <1>3, <1>5, <2>2, <3>2
        DEF SameThreads, SameSleepers, HandsOver, Preempts, Kept
      <3> QED
        BY <3>2, <3>3
    <2> QED
      BY <2>1, <2>2
  <1>7. CASE q.thread_id[c] = None
    <2>1. PICK m : m = Rehome(q, c, new)
      OBVIOUS
    <2>2. PICK w \in PutBack(m, t) : r \in Retry(w, new)
      BY <1>4, <1>7, <2>1
    <2>3. /\ Good(m, {c}) /\ m.thread_id[c] = None /\ m.cpu_set_of[c] = new
          /\ m.state = q.state /\ m.cpu_set_id = q.cpu_set_id
          /\ m.priority = q.priority
      BY <1>5, <1>7, <2>1, RehomeGood
    <2>4. /\ Good(w, {c}) /\ w.thread_id[c] = None /\ w.cpu_set_of[c] = new
          /\ SameThreads(st, w)
      <3>1. CASE t = None
        BY <1>5, <2>2, <2>3, <3>1 DEF PutBack, SameThreads, SameSleepers
      <3>2. CASE t # None
        <4>1. t \in Thread /\ m.state[t] = "SLEEP" /\ w \in InsertResults(m, t)
          BY <1>2, <1>5, <2>2, <2>3, <3>2 DEF PutBack
        <4>2. m.cpu_set_of[c] # m.cpu_set_id[t]
          BY <1>3, <1>5, <2>3, <3>2 DEF Kept
        <4>3. Good(w, {c}) /\ Kept(m, w) /\ Preempts(m, w, t) /\ w.thread_id[c] = None
          BY <2>3, <4>1, <4>2, InsertGood
        <4>4. SameThreads(st, w)
          BY <1>3, <1>5, <2>3, <3>2, <4>3
          DEF SameThreads, SameSleepers, HandsOver, Preempts, Kept
        <4> QED
          BY <2>3, <4>3, <4>4 DEF Kept
      <3> QED
        BY <3>1, <3>2
    <2>5. Good(r, {}) /\ SameThreads(w, r)
      BY <2>2, <2>4, RetryGood
    <2> QED
      BY <2>4, <2>5 DEF SameThreads, SameSleepers
  <1> QED
    BY <1>6, <1>7

-----------------------------------------------------------------------------
(* SemaphoreOps: where every sleeping thread is, in the ring of the        *)
(* semaphore it sleeps on or in one circle that is astray, and what the    *)
(* values count.                                                           *)
Distinct(c) == \A i, j \in 1..Len(c) : i # j => c[i] # c[j]

(* What the values count, for semaphores that were not reused.             *)
Counted(Q, R) ==
  \A s \in Semaphore \ R :
    Len(Q.ring[s]) = IF Q.value[s] < 0 THEN -Q.value[s] ELSE 0

RingsSleep(Q) ==
  \A s \in Semaphore :
    Distinct(Q.ring[s]) /\ \A t \in Ring(Q, s) : Q.sleep[t] = s

StraySleep(Q, R) ==
  \A c \in Q.stray :
    /\ Distinct(c)
    /\ \A t \in Members(c) : Q.sleep[t] \in R /\ t \notin Ring(Q, Q.sleep[t])
    /\ \A t, u \in Members(c) : Q.sleep[t] = Q.sleep[u]

StrayApart(Q) ==
  \A c, d \in Q.stray : Members(c) \cap Members(d) # {} => c = d

Placed(Q) ==
  \A t \in Thread :
    ~Awake(Q, t) => t \in Ring(Q, Q.sleep[t]) \/ \E c \in Q.stray : t \in Members(c)

Sound(Q, R) ==
  /\ Q \in SemaphoreState
  /\ Counted(Q, R)
  /\ RingsSleep(Q)
  /\ StraySleep(Q, R)
  /\ StrayApart(Q)
  /\ Placed(Q)
-----------------------------------------------------------------------------
(* A sequence without its first k: a ring, whose first k threads are woken,*)
(* or a thread's stacks.                                                   *)
LEMMA Dropped ==
  ASSUME NEW X, NEW c \in Seq(X), Distinct(c), NEW k \in 0..Len(c)
  PROVE  LET r == SubSeq(c, k + 1, Len(c)) IN
         /\ r \in Seq(X) /\ Len(r) = Len(c) - k
         /\ Distinct(r)
         /\ \A t : t \in Members(r) <=> t \in Members(c) /\ ~(\E i \in 1..k : c[i] = t)
  <1> SUFFICES ASSUME NEW r, r = SubSeq(c, k + 1, Len(c))
               PROVE  /\ r \in Seq(X) /\ Len(r) = Len(c) - k
                      /\ Distinct(r)
                      /\ \A t : t \in Members(r) <=>
                                  t \in Members(c) /\ ~(\E i \in 1..k : c[i] = t)
    BY Zenon
  <1>1. Len(c) \in Nat /\ \A i \in 1..Len(c) : c[i] \in X
    BY LenProperties, ElementOfSeq
  <1>2. \A i \in (k + 1)..Len(c) : c[i] \in X
    BY <1>1
  <1>3. /\ r \in Seq(X)
        /\ Len(r) = IF k + 1 <= Len(c) THEN Len(c) - (k + 1) + 1 ELSE 0
        /\ \A i \in 1..(Len(c) - (k + 1) + 1) : r[i] = c[k + 1 + i - 1]
    BY <1>1, <1>2, SubSeqProperties
  <1>4. r \in Seq(X) /\ Len(r) = Len(c) - k /\ \A i \in 1..Len(r) : r[i] = c[k + i]
    BY <1>1, <1>3
  <1>5. Distinct(r)
    <2> SUFFICES ASSUME NEW i \in 1..Len(r), NEW j \in 1..Len(r), i # j
                 PROVE  r[i] # r[j]
      BY DEF Distinct
    <2>1. k + i \in 1..Len(c) /\ k + j \in 1..Len(c) /\ k + i # k + j
      BY <1>1, <1>4
    <2> QED
      BY <1>4, <2>1 DEF Distinct
  <1>6. ASSUME NEW t
        PROVE  t \in Members(r) <=> t \in Members(c) /\ ~(\E i \in 1..k : c[i] = t)
    <2>1. ASSUME NEW i \in 1..Len(r), t = r[i]
          PROVE  t \in Members(c) /\ ~(\E j \in 1..k : c[j] = t)
      <3>1. k + i \in 1..Len(c) /\ t = c[k + i]
        BY <1>1, <1>4, <2>1
      <3>2. \A j \in 1..k : j \in 1..Len(c) /\ j # k + i
        BY <1>1, <1>4, <2>1
      <3> QED
        BY <3>1, <3>2 DEF Members, Distinct
    <2>2. ASSUME NEW j \in 1..Len(c), t = c[j], ~(\E i \in 1..k : c[i] = t)
          PROVE  t \in Members(r)
      <3>1. j - k \in 1..Len(r) /\ r[j - k] = c[j]
        BY <1>1, <1>4, <2>2
      <3> QED
        BY <2>2, <3>1 DEF Members
    <2> QED
      BY <2>1, <2>2 DEF Members
  <1> QED
    BY <1>4, <1>5, <1>6

(* A circle that is entered at another thread.                             *)
LEMMA RotatedRing ==
  ASSUME NEW c \in Seq(Thread), Distinct(c), NEW t \in Members(c)
  PROVE  LET r == Rotated(c, t) IN
         /\ r \in Seq(Thread) /\ Len(r) = Len(c)
         /\ Distinct(r)
         /\ Members(r) = Members(c)
         /\ r[1] = t
  <1> SUFFICES ASSUME NEW r, r = Rotated(c, t)
               PROVE  /\ r \in Seq(Thread) /\ Len(r) = Len(c)
                      /\ Distinct(r)
                      /\ Members(r) = Members(c)
                      /\ r[1] = t
    BY Zenon
  <1>1. Len(c) \in Nat /\ \A i \in 1..Len(c) : c[i] \in Thread
    BY LenProperties, ElementOfSeq
  <1>2. PICK i \in 1..Len(c) :
          /\ c[i] = t
          /\ r = SubSeq(c, i, Len(c)) \o SubSeq(c, 1, i - 1)
    <2>1. \E j \in 1..Len(c) : c[j] = t
      BY DEF Members
    <2> QED
      BY <2>1 DEF Rotated
  <1>3. PICK a, b : a = SubSeq(c, i, Len(c)) /\ b = SubSeq(c, 1, i - 1) /\ r = a \o b
    BY <1>2
  <1>4. /\ a \in Seq(Thread) /\ Len(a) = Len(c) - i + 1
        /\ \A j \in 1..Len(a) : a[j] = c[i + j - 1]
    <2>1. \A j \in i..Len(c) : c[j] \in Thread
      BY <1>1
    <2> QED
      BY <1>1, <1>3, <2>1, SubSeqProperties
  <1>5. /\ b \in Seq(Thread) /\ Len(b) = i - 1
        /\ \A j \in 1..Len(b) : b[j] = c[j]
    <2>1. \A j \in 1..(i - 1) : c[j] \in Thread
      BY <1>1
    <2>2. /\ SubSeq(c, 1, i - 1) \in Seq(Thread)
          /\ Len(SubSeq(c, 1, i - 1)) = IF 1 <= i - 1 THEN i - 1 - 1 + 1 ELSE 0
          /\ \A j \in 1..(i - 1 - 1 + 1) : SubSeq(c, 1, i - 1)[j] = c[1 + j - 1]
      BY <1>1, <2>1, SubSeqProperties
    <2> QED
      BY <1>1, <1>3, <2>2
  <1>6. PICK n \in Nat : n = Len(c) /\ i <= n /\ 1 <= i
    BY <1>1
  <1>7. /\ r \in Seq(Thread) /\ Len(r) = n
        /\ \A j \in 1..(n - i + 1) : r[j] = c[i + j - 1]
        /\ \A j \in 1..(i - 1) : r[n - i + 1 + j] = c[j]
    <2>1. a \in Seq(Thread) /\ b \in Seq(Thread) /\ r = a \o b
      BY <1>3, <1>4, <1>5
    <2>2. /\ r \in Seq(Thread) /\ Len(r) = Len(a) + Len(b)
          /\ \A j \in 1..(Len(a) + Len(b)) :
               r[j] = IF j <= Len(a) THEN a[j] ELSE b[j - Len(a)]
      BY <2>1, ConcatProperties, ZenonT(30)
    <2>3. Len(a) = n - i + 1 /\ Len(b) = i - 1
      BY <1>4, <1>5, <1>6
    <2>4. Len(r) = n
      BY <1>6, <2>2, <2>3
    <2>5. ASSUME NEW j \in 1..(n - i + 1) PROVE r[j] = c[i + j - 1]
      <3>1. j \in 1..(Len(a) + Len(b)) /\ j <= Len(a) /\ j \in 1..Len(a)
        BY <1>6, <2>3
      <3>2. r[j] = a[j]
        BY <2>2, <3>1
      <3> QED
        BY <1>4, <3>1, <3>2
    <2>6. ASSUME NEW j \in 1..(i - 1) PROVE r[n - i + 1 + j] = c[j]
      <3>1. /\ n - i + 1 + j \in 1..(Len(a) + Len(b)) /\ ~(n - i + 1 + j <= Len(a))
            /\ (n - i + 1 + j) - Len(a) = j /\ j \in 1..Len(b)
        BY <1>6, <2>3
      <3>2. r[n - i + 1 + j] = b[j]
        BY <2>2, <3>1
      <3> QED
        BY <1>5, <3>1, <3>2
    <2> QED
      BY <2>2, <2>4, <2>5, <2>6
  (* Where an element of r comes from: x is its place in c.                *)
  <1>8. ASSUME NEW j \in 1..n
        PROVE  \E x \in 1..n : /\ r[j] = c[x]
                               /\ \/ x = i + j - 1 /\ x >= i
                                  \/ x = j - (n - i + 1) /\ x < i
    <2>1. CASE j <= n - i + 1
      <3>1. i + j - 1 \in 1..n /\ j \in 1..(n - i + 1) /\ i + j - 1 >= i
        BY <1>6, <2>1
      <3> QED
        BY <1>7, <3>1
    <2>2. CASE j > n - i + 1
      <3>1. PICK x : x = j - (n - i + 1)
        OBVIOUS
      <3>2. x \in 1..(i - 1) /\ x \in 1..n /\ x < i /\ n - i + 1 + x = j
        BY <1>6, <2>2, <3>1
      <3>3. r[j] = c[x]
        BY <1>7, <3>2
      <3> QED
        BY <3>1, <3>2, <3>3
    <2> QED
      BY <1>6, <2>1, <2>2
  <1>9. Distinct(r)
    <2> SUFFICES ASSUME NEW j \in 1..n, NEW m \in 1..n, j # m
                 PROVE  r[j] # r[m]
      BY <1>7 DEF Distinct
    <2>1. PICK x \in 1..n : /\ r[j] = c[x]
                            /\ \/ x = i + j - 1 /\ x >= i
                               \/ x = j - (n - i + 1) /\ x < i
      BY <1>8
    <2>2. PICK y \in 1..n : /\ r[m] = c[y]
                            /\ \/ y = i + m - 1 /\ y >= i
                               \/ y = m - (n - i + 1) /\ y < i
      BY <1>8
    <2>3. x # y
      BY <1>6, <2>1, <2>2
    <2> QED
      BY <1>6, <2>1, <2>2, <2>3 DEF Distinct
  <1>10. ASSUME NEW x \in 1..n PROVE \E j \in 1..n : r[j] = c[x]
    <2>1. CASE x >= i
      <3>1. x - i + 1 \in 1..n /\ x - i + 1 \in 1..(n - i + 1) /\ i + (x - i + 1) - 1 = x
        BY <1>6, <2>1
      <3>2. r[x - i + 1] = c[x]
        BY <1>7, <3>1
      <3> QED
        BY <3>1, <3>2
    <2>2. CASE x < i
      <3>1. n - i + 1 + x \in 1..n /\ x \in 1..(i - 1)
        BY <1>6, <2>2
      <3>2. r[n - i + 1 + x] = c[x]
        BY <1>7, <3>1
      <3> QED
        BY <3>1, <3>2
    <2> QED
      BY <1>6, <2>1, <2>2
  <1>11. Members(r) = Members(c)
    <2>1. ASSUME NEW j \in 1..n PROVE \E x \in 1..n : r[j] = c[x]
      BY <1>8
    <2>2. Members(r) = {r[j] : j \in 1..n} /\ Members(c) = {c[j] : j \in 1..n}
      BY <1>6, <1>7 DEF Members
    <2>3. ASSUME NEW u PROVE u \in {r[j] : j \in 1..n} <=> u \in {c[j] : j \in 1..n}
      <3>1. u \in {r[j] : j \in 1..n} <=> \E j \in 1..n : u = r[j]
        OBVIOUS
      <3>2. u \in {c[j] : j \in 1..n} <=> \E x \in 1..n : u = c[x]
        OBVIOUS
      <3> QED
        BY <1>10, <2>1, <3>1, <3>2, Zenon
    <2> QED
      BY <2>2, <2>3
  <1>12. r[1] = t
    BY <1>2, <1>6, <1>7
  <1> QED
    BY <1>6, <1>7, <1>9, <1>11, <1>12

-----------------------------------------------------------------------------
(* V with any number of steps, all of them included.                       *)
LEMMA VSound ==
  ASSUME NEW R \in SUBSET Semaphore, NEW Q, Sound(Q, R), NEW s \in Semaphore, NEW n \in Int,
         NEW N, N = V(Q, s, n)
  PROVE  Sound(N, R)
  <1>1. /\ Q \in SemaphoreState /\ Counted(Q, R) /\ RingsSleep(Q)
        /\ StraySleep(Q, R) /\ StrayApart(Q) /\ Placed(Q)
    BY DEF Sound
  <1>2. /\ Q.value \in [Semaphore -> Int] /\ Q.ring \in [Semaphore -> Seq(Thread)]
        /\ Q.stray \subseteq Seq(Thread) /\ Q.sleep \in [Thread -> Semaphore \cup {None}]
    BY <1>1 DEF SemaphoreState
  <1>3. PICK c \in Seq(Thread), v \in Int, L \in Nat :
          c = Q.ring[s] /\ v = Q.value[s] /\ L = Len(c)
    BY <1>2, LenProperties
  <1>4. PICK k \in 0..L : k = Woken(Q, s, n) /\ k = (IF n < 0 \/ n > L THEN L ELSE n)
    BY <1>3 DEF Woken
  <1>5. Distinct(c)
    BY <1>1, <1>3 DEF RingsSleep
  <1>6. PICK r : r = SubSeq(c, k + 1, Len(c))
    OBVIOUS
  <1>7. /\ r \in Seq(Thread) /\ Len(r) = L - k
        /\ Distinct(r)
        /\ \A t : t \in Members(r) <=> t \in Members(c) /\ ~(\E i \in 1..k : c[i] = t)
    <2>1. c \in Seq(Thread) /\ k \in 0..Len(c) /\ Distinct(c) /\ r = SubSeq(c, k + 1, Len(c))
      BY <1>3, <1>4, <1>5, <1>6
    <2>2. /\ SubSeq(c, k + 1, Len(c)) \in Seq(Thread)
          /\ Len(SubSeq(c, k + 1, Len(c))) = Len(c) - k
          /\ Distinct(SubSeq(c, k + 1, Len(c)))
          /\ \A t : t \in Members(SubSeq(c, k + 1, Len(c))) <=>
                      t \in Members(c) /\ ~(\E i \in 1..k : c[i] = t)
      BY <2>1, Dropped, Zenon
    <2>3. Len(r) = Len(c) - k
      BY <2>1, <2>2
    <2>4. \A t : t \in Members(r) <=> t \in Members(c) /\ ~(\E i \in 1..k : c[i] = t)
      BY <2>1, <2>2, Zenon
    <2> QED
      BY <1>3, <2>1, <2>2, <2>3, <2>4
  <1>8. /\ N.value = [Q.value EXCEPT ![s] = IF n < 0 THEN v + k ELSE v + n]
        /\ N.ring = [Q.ring EXCEPT ![s] = r]
        /\ N.stray = Q.stray
        /\ N.sleep = [t \in Thread |-> IF \E i \in 1..k : c[i] = t THEN None ELSE Q.sleep[t]]
        /\ N \in [value : {N.value}, ring : {N.ring}, stray : {N.stray}, sleep : {N.sleep}]
    BY <1>1, <1>2, <1>3, <1>4, <1>6 DEF V, SemaphoreState
  <1>9. N \in SemaphoreState
    <2>1. (IF n < 0 THEN v + k ELSE v + n) \in Int
      BY <1>3, <1>4
    <2>2. N.value \in [Semaphore -> Int] /\ N.ring \in [Semaphore -> Seq(Thread)]
      BY <1>2, <1>7, <1>8, <2>1
    <2>3. N.stray \subseteq Seq(Thread) /\ N.sleep \in [Thread -> Semaphore \cup {None}]
      BY <1>2, <1>8
    <2> QED
      BY <1>8, <2>2, <2>3 DEF SemaphoreState
  <1>10. \A t : (\E i \in 1..k : c[i] = t) => t \in Thread /\ t \in Ring(Q, s) /\ Q.sleep[t] = s
    <2> SUFFICES ASSUME NEW i \in 1..k
                 PROVE  c[i] \in Thread /\ c[i] \in Ring(Q, s) /\ Q.sleep[c[i]] = s
      OBVIOUS
    <2>1. i \in 1..Len(c)
      BY <1>3, <1>4
    <2>2. c[i] \in Thread
      BY <1>3, <2>1, ElementOfSeq
    <2>3. c[i] \in Ring(Q, s)
      BY <1>3, <2>1 DEF Ring, Members
    <2> QED
      BY <1>1, <2>2, <2>3 DEF RingsSleep
  <1>11. /\ \A x \in Semaphore : x # s => N.ring[x] = Q.ring[x] /\ N.value[x] = Q.value[x]
         /\ N.ring[s] = r /\ N.value[s] = IF n < 0 THEN v + k ELSE v + n
    BY <1>2, <1>8
  <1>12. \A x \in Semaphore : Ring(N, x) \subseteq Ring(Q, x)
    BY <1>3, <1>7, <1>11 DEF Ring
  <1>13. \A t \in Thread : N.sleep[t] = Q.sleep[t] \/ (N.sleep[t] = None /\ \E i \in 1..k : c[i] = t)
    BY <1>8
  <1>14. \A t \in Thread : (\E i \in 1..k : c[i] = t) => N.sleep[t] = None
    BY <1>8
  <1>15. Counted(N, R)
    <2> SUFFICES ASSUME NEW x \in Semaphore \ R
                 PROVE  Len(N.ring[x]) = IF N.value[x] < 0 THEN -N.value[x] ELSE 0
      BY DEF Counted
    <2>1. CASE x # s
      BY <1>1, <1>11, <2>1 DEF Counted
    <2>2. CASE x = s
      <3>1. L = IF v < 0 THEN -v ELSE 0
        BY <1>1, <1>3, <2>2 DEF Counted
      <3>2. Len(N.ring[x]) = L - k
        BY <1>7, <1>11, <2>2
      <3>3. CASE n < 0 \/ n > L
        <4>1. k = L /\ N.value[x] >= 0 /\ N.value[x] \in Int
          BY <1>3, <1>4, <1>11, <2>2, <3>1, <3>3, SMTT(30)
        <4> QED
          BY <1>3, <3>2, <4>1
      <3>4. CASE ~(n < 0 \/ n > L)
        <4>1. k = n /\ N.value[x] = v + n
          BY <1>4, <1>11, <2>2, <3>4
        <4> QED
          BY <1>3, <3>1, <3>2, <3>4, <4>1
      <3> QED
        BY <3>3, <3>4
    <2> QED
      BY <2>1, <2>2
  <1>16. RingsSleep(N)
    <2> SUFFICES ASSUME NEW x \in Semaphore
                 PROVE  Distinct(N.ring[x]) /\ \A t \in Ring(N, x) : N.sleep[t] = x
      BY DEF RingsSleep
    <2>1. Distinct(N.ring[x])
      BY <1>1, <1>7, <1>11 DEF RingsSleep
    <2>2. ASSUME NEW t \in Ring(N, x) PROVE N.sleep[t] = x
      <3>1. Q.sleep[t] = x
        BY <1>1, <1>12, <2>2 DEF RingsSleep
      <3>2. N.ring[x] \in Seq(Thread)
        BY <1>9 DEF SemaphoreState
      <3>3. t \in Thread
        BY <2>2, <3>2, ElementOfSeq DEF Ring, Members
      <3>4. ~(\E i \in 1..k : c[i] = t)
        <4>1. CASE x = s
          BY <1>7, <1>11, <2>2, <4>1 DEF Ring
        <4>2. CASE x # s
          BY <1>10, <3>1, <4>2
        <4> QED
          BY <4>1, <4>2
      <3> QED
        BY <1>13, <3>1, <3>3, <3>4
    <2> QED
      BY <2>1, <2>2
  <1>17. \A d \in Q.stray : \A t \in Members(d) :
           t \in Thread /\ N.sleep[t] = Q.sleep[t] /\ (Q.sleep[t] \in Semaphore => t \notin Ring(N, Q.sleep[t]))
    <2> SUFFICES ASSUME NEW d \in Q.stray, NEW t \in Members(d)
                 PROVE  t \in Thread /\ N.sleep[t] = Q.sleep[t]
                        /\ (Q.sleep[t] \in Semaphore => t \notin Ring(N, Q.sleep[t]))
      OBVIOUS
    <2>1. t \in Thread
      BY <1>2, ElementOfSeq DEF Members
    <2>2. t \notin Ring(Q, Q.sleep[t])
      BY <1>1 DEF StraySleep
    <2>3. ~(\E i \in 1..k : c[i] = t)
      BY <1>10, <2>2
    <2> QED
      BY <1>12, <1>13, <2>1, <2>2, <2>3
  <1>18. StraySleep(N, R)
    <2>1. \A t \in Thread : Q.sleep[t] \in Semaphore \/ Q.sleep[t] = None
      BY <1>2
    <2> SUFFICES ASSUME NEW d \in Q.stray
                 PROVE  /\ Distinct(d)
                        /\ \A t \in Members(d) : N.sleep[t] \in R /\ t \notin Ring(N, N.sleep[t])
                        /\ \A t, u \in Members(d) : N.sleep[t] = N.sleep[u]
      BY <1>8 DEF StraySleep
    <2>2. Distinct(d) /\ \A t, u \in Members(d) : N.sleep[t] = N.sleep[u]
      BY <1>1, <1>17 DEF StraySleep
    <2>3. ASSUME NEW t \in Members(d) PROVE N.sleep[t] \in R /\ t \notin Ring(N, N.sleep[t])
      <3>1. Q.sleep[t] \in R
        BY <1>1 DEF StraySleep
      <3> QED
        BY <1>17, <3>1
    <2> QED
      BY <2>2, <2>3
  <1>19. StrayApart(N)
    BY <1>1, <1>8 DEF StrayApart
  <1>20. Placed(N)
    <2> SUFFICES ASSUME NEW t \in Thread, ~Awake(N, t)
                 PROVE  t \in Ring(N, N.sleep[t]) \/ \E d \in N.stray : t \in Members(d)
      BY DEF Placed
    <2>1. N.sleep[t] = Q.sleep[t] /\ ~Awake(Q, t) /\ ~(\E i \in 1..k : c[i] = t)
      BY <1>13, <1>14 DEF Awake
    <2>2. CASE \E d \in Q.stray : t \in Members(d)
      BY <1>8, <2>2
    <2>3. CASE t \in Ring(Q, Q.sleep[t])
      <3>1. Q.sleep[t] \in Semaphore
        BY <1>2, <2>1 DEF Awake
      <3>2. CASE Q.sleep[t] = s
        BY <1>3, <1>7, <1>11, <2>1, <2>3, <3>2 DEF Ring
      <3>3. CASE Q.sleep[t] # s
        BY <1>11, <2>1, <2>3, <3>1, <3>3 DEF Ring
      <3> QED
        BY <3>2, <3>3
    <2> QED
      BY <1>1, <2>1, <2>2, <2>3 DEF Placed
  <1> QED
    BY <1>9, <1>15, <1>16, <1>18, <1>19, <1>20 DEF Sound

(* P, with or without sleeping.                                            *)
LEMMA PSound ==
  ASSUME NEW R \in SUBSET Semaphore, NEW Q, Sound(Q, R), NEW s \in Semaphore,
         NEW t \in Thread, NEW flag \in BOOLEAN, NEW N, N = P(Q, t, s, flag)
  PROVE  Sound(N, R)
  <1>1. /\ Q \in SemaphoreState /\ Counted(Q, R) /\ RingsSleep(Q)
        /\ StraySleep(Q, R) /\ StrayApart(Q) /\ Placed(Q)
    BY DEF Sound
  <1>2. /\ Q.value \in [Semaphore -> Int] /\ Q.ring \in [Semaphore -> Seq(Thread)]
        /\ Q.stray \subseteq Seq(Thread) /\ Q.sleep \in [Thread -> Semaphore \cup {None}]
    BY <1>1 DEF SemaphoreState
  <1>3. CASE N = Q
    BY <1>3
  <1>4. CASE N = [Q EXCEPT !.value[s] = @ - 1] /\ Q.value[s] > 0
    <2>1. /\ N.value = [Q.value EXCEPT ![s] = Q.value[s] - 1] /\ N.ring = Q.ring
          /\ N.stray = Q.stray /\ N.sleep = Q.sleep
          /\ N \in [value : {N.value}, ring : {N.ring}, stray : {N.stray}, sleep : {N.sleep}]
      <3>1. N = [Q EXCEPT !.value = [Q.value EXCEPT ![s] = Q.value[s] - 1]]
        BY <1>4
      <3> QED
        BY <1>1, <3>1 DEF SemaphoreState
    <2>2. N \in SemaphoreState
      <3>1. Q.value[s] - 1 \in Int
        BY <1>2
      <3>2. N.value \in [Semaphore -> Int]
        BY <1>2, <2>1, <3>1
      <3> QED
        BY <1>2, <2>1, <3>2 DEF SemaphoreState
    <2>3. Counted(N, R)
      <3> SUFFICES ASSUME NEW x \in Semaphore \ R
                   PROVE  Len(N.ring[x]) = IF N.value[x] < 0 THEN -N.value[x] ELSE 0
        BY DEF Counted
      <3>1. Len(Q.ring[x]) = IF Q.value[x] < 0 THEN -Q.value[x] ELSE 0
        BY <1>1 DEF Counted
      <3> QED
        BY <1>2, <1>4, <2>1, <3>1
    <2>4. RingsSleep(N) /\ StraySleep(N, R) /\ StrayApart(N) /\ Placed(N)
      BY <1>1, <2>1 DEF RingsSleep, StraySleep, StrayApart, Placed, Ring, Awake
    <2> QED
      BY <2>2, <2>3, <2>4 DEF Sound
  <1>5. CASE N = Sleep(Q, t, s) /\ Awake(Q, t) /\ ~(Q.value[s] > 0)
    <2>1. PICK c \in Seq(Thread), L \in Nat : c = Q.ring[s] /\ L = Len(c)
      BY <1>2, LenProperties
    <2>2. PICK r : r = Append(c, t)
      OBVIOUS
    <2>3. /\ r \in Seq(Thread) /\ Len(r) = L + 1 /\ r[L + 1] = t
          /\ \A i \in 1..L : r[i] = c[i]
      BY <2>1, <2>2, AppendProperties
    <2>4. Members(r) = Members(c) \cup {t}
      <3>1. \A i \in 1..Len(r) : i \in 1..L \/ i = L + 1
        BY <2>3
      <3>2. \A i \in 1..L : i \in 1..Len(r)
        BY <2>3
      <3>3. L + 1 \in 1..Len(r)
        BY <2>3
      <3> QED
        BY <2>1, <2>3, <3>1, <3>2, <3>3 DEF Members
    <2>5. /\ N.value = [Q.value EXCEPT ![s] = Q.value[s] - 1]
          /\ N.ring = [Q.ring EXCEPT ![s] = r]
          /\ N.stray = Q.stray /\ N.sleep = [Q.sleep EXCEPT ![t] = s]
          /\ N \in [value : {N.value}, ring : {N.ring}, stray : {N.stray}, sleep : {N.sleep}]
      <3>1. N = [Q EXCEPT !.value = [Q.value EXCEPT ![s] = Q.value[s] - 1],
                          !.ring = [Q.ring EXCEPT ![s] = r],
                          !.sleep = [Q.sleep EXCEPT ![t] = s]]
        BY <1>5, <2>1, <2>2 DEF Sleep, Enqueued
      <3> QED
        BY <1>1, <3>1 DEF SemaphoreState
    <2>6. N \in SemaphoreState
      <3>1. Q.value[s] - 1 \in Int
        BY <1>2
      <3>2. N.value \in [Semaphore -> Int] /\ N.ring \in [Semaphore -> Seq(Thread)]
        BY <1>2, <2>3, <2>5, <3>1
      <3>3. N.sleep \in [Thread -> Semaphore \cup {None}]
        BY <1>2, <2>5
      <3> QED
        BY <1>2, <2>5, <3>2, <3>3 DEF SemaphoreState
    <2>7. /\ \A x \in Semaphore : x # s => N.ring[x] = Q.ring[x] /\ N.value[x] = Q.value[x]
          /\ N.ring[s] = r /\ N.value[s] = Q.value[s] - 1
          /\ \A u \in Thread : u # t => N.sleep[u] = Q.sleep[u]
          /\ N.sleep[t] = s
      BY <1>2, <2>5
    <2>8. Q.sleep[t] = None /\ None \notin Semaphore
      BY <1>5, SemaphoreAssumption DEF Awake
    (* It was nowhere before.                                              *)
    <2>9. /\ \A x \in Semaphore : t \notin Ring(Q, x)
          /\ \A d \in Q.stray : t \notin Members(d)
      BY <1>1, <2>8 DEF RingsSleep, StraySleep
    <2>10. /\ \A x \in Semaphore : \A u \in Ring(Q, x) : u \in Thread
           /\ \A d \in Q.stray : \A u \in Members(d) : u \in Thread
      BY <1>2, ElementOfSeq DEF Ring, Members
    <2>11. \A x \in Semaphore : Ring(N, x) = IF x = s THEN Ring(Q, s) \cup {t} ELSE Ring(Q, x)
      BY <2>1, <2>4, <2>7 DEF Ring
    <2>12. Counted(N, R)
      <3> SUFFICES ASSUME NEW x \in Semaphore \ R
                   PROVE  Len(N.ring[x]) = IF N.value[x] < 0 THEN -N.value[x] ELSE 0
        BY DEF Counted
      <3>1. Len(Q.ring[x]) = IF Q.value[x] < 0 THEN -Q.value[x] ELSE 0
        BY <1>1 DEF Counted
      <3>2. CASE x # s
        BY <2>7, <3>1, <3>2
      <3>3. CASE x = s
        <4>1. PICK v \in Int : v = Q.value[s]
          BY <1>2
        <4>2. N.value[x] = v - 1 /\ Len(N.ring[x]) = L + 1 /\ ~(v > 0)
          BY <1>5, <2>3, <2>7, <3>3, <4>1
        <4>3. L = IF v < 0 THEN -v ELSE 0
          BY <2>1, <3>1, <3>3, <4>1
        <4> QED
          BY <4>2, <4>3
      <3> QED
        BY <3>2, <3>3
    <2>13. Distinct(r)
      <3> SUFFICES ASSUME NEW i \in 1..Len(r), NEW j \in 1..Len(r), i < j
                   PROVE  r[i] # r[j]
        BY <2>3 DEF Distinct
      <3>1. Distinct(c)
        BY <1>1, <2>1 DEF RingsSleep
      <3>2. i \in 1..L
        BY <2>3
      <3>3. CASE j = L + 1
        BY <2>1, <2>3, <2>9, <3>2, <3>3 DEF Ring, Members
      <3>4. CASE j # L + 1
        <4>1. j \in 1..L
          BY <2>3, <3>4
        <4> QED
          BY <2>1, <2>3, <3>1, <3>2, <4>1 DEF Distinct
      <3> QED
        BY <3>3, <3>4
    <2>14. RingsSleep(N)
      <3> SUFFICES ASSUME NEW x \in Semaphore
                   PROVE  Distinct(N.ring[x]) /\ \A u \in Ring(N, x) : N.sleep[u] = x
        BY DEF RingsSleep
      <3>1. Distinct(N.ring[x])
        BY <1>1, <2>7, <2>13 DEF RingsSleep
      <3>2. ASSUME NEW u \in Ring(N, x) PROVE N.sleep[u] = x
        <4>1. CASE u = t
          BY <2>7, <2>9, <2>11, <4>1
        <4>2. CASE u # t
          BY <1>1, <2>7, <2>10, <2>11, <4>2 DEF RingsSleep
        <4> QED
          BY <4>1, <4>2
      <3> QED
        BY <3>1, <3>2
    <2>15. StraySleep(N, R)
      <3> SUFFICES ASSUME NEW d \in Q.stray
                   PROVE  /\ Distinct(d)
                          /\ \A u \in Members(d) : N.sleep[u] \in R /\ u \notin Ring(N, N.sleep[u])
                          /\ \A u, w \in Members(d) : N.sleep[u] = N.sleep[w]
        BY <2>5 DEF StraySleep
      <3>1. \A u \in Members(d) : u # t /\ N.sleep[u] = Q.sleep[u]
        BY <2>7, <2>9, <2>10
      <3>2. Distinct(d) /\ \A u, w \in Members(d) : N.sleep[u] = N.sleep[w]
        BY <1>1, <3>1 DEF StraySleep
      <3>3. ASSUME NEW u \in Members(d) PROVE N.sleep[u] \in R /\ u \notin Ring(N, N.sleep[u])
        <4>1. Q.sleep[u] \in R /\ u \notin Ring(Q, Q.sleep[u])
          BY <1>1 DEF StraySleep
        <4> QED
          BY <2>11, <3>1, <4>1
      <3> QED
        BY <3>2, <3>3
    <2>16. StrayApart(N)
      BY <1>1, <2>5 DEF StrayApart
    <2>17. Placed(N)
      <3> SUFFICES ASSUME NEW u \in Thread, ~Awake(N, u)
                   PROVE  u \in Ring(N, N.sleep[u]) \/ \E d \in N.stray : u \in Members(d)
        BY DEF Placed
      <3>1. CASE u = t
        BY <2>7, <2>11, <3>1
      <3>2. CASE u # t
        <4>1. N.sleep[u] = Q.sleep[u] /\ ~Awake(Q, u) /\ Q.sleep[u] \in Semaphore
          BY <1>2, <2>7, <3>2 DEF Awake
        <4> QED
          BY <1>1, <2>5, <2>11, <4>1 DEF Placed
      <3> QED
        BY <3>1, <3>2
    <2> QED
      BY <2>6, <2>12, <2>14, <2>15, <2>16, <2>17 DEF Sound
  <1> QED
    BY <1>3, <1>4, <1>5 DEF P

(* thread_ring is set to a sleeper, wherever the sleeper is.               *)
LEMMA SetRingSound ==
  ASSUME NEW R \in SUBSET Semaphore, NEW Q, Sound(Q, R),
         NEW t \in Thread, ~Awake(Q, t), NEW N, N = SetRing(Q, t)
  PROVE  Sound(N, R)
  <1>1. /\ Q \in SemaphoreState /\ Counted(Q, R) /\ RingsSleep(Q)
        /\ StraySleep(Q, R) /\ StrayApart(Q) /\ Placed(Q)
    BY DEF Sound
  <1>2. /\ Q.value \in [Semaphore -> Int] /\ Q.ring \in [Semaphore -> Seq(Thread)]
        /\ Q.stray \subseteq Seq(Thread) /\ Q.sleep \in [Thread -> Semaphore \cup {None}]
    BY <1>1 DEF SemaphoreState
  <1>3. PICK s \in Semaphore : s = Q.sleep[t]
    BY <1>2 DEF Awake
  <1>4. CASE t \in Ring(Q, s)
    <2>1. PICK r : r = Rotated(Q.ring[s], t)
      OBVIOUS
    <2>2. Q.ring[s] \in Seq(Thread) /\ Distinct(Q.ring[s]) /\ t \in Members(Q.ring[s])
      BY <1>1, <1>2, <1>4 DEF RingsSleep, Ring
    <2>3. /\ r \in Seq(Thread) /\ Len(r) = Len(Q.ring[s]) /\ Distinct(r)
          /\ Members(r) = Members(Q.ring[s])
      BY <2>1, <2>2, RotatedRing
    <2>4. N = [Q EXCEPT !.ring = [Q.ring EXCEPT ![s] = r]]
      BY <1>3, <1>4, <2>1 DEF SetRing
    <2>5. /\ N.value = Q.value /\ N.ring = [Q.ring EXCEPT ![s] = r]
          /\ N.stray = Q.stray /\ N.sleep = Q.sleep
          /\ N \in [value : {N.value}, ring : {N.ring}, stray : {N.stray}, sleep : {N.sleep}]
      BY <1>1, <2>4 DEF SemaphoreState
    <2>6. N \in SemaphoreState
      BY <1>2, <2>3, <2>5 DEF SemaphoreState
    <2>7. \A x \in Semaphore : /\ Ring(N, x) = Ring(Q, x)
                               /\ Len(N.ring[x]) = Len(Q.ring[x])
                               /\ Distinct(N.ring[x])
      BY <1>1, <1>2, <2>3, <2>5 DEF Ring, RingsSleep
    <2>8. Counted(N, R) /\ RingsSleep(N)
      BY <1>1, <2>5, <2>7 DEF Counted, RingsSleep
    <2>9. StraySleep(N, R)
      BY <1>1, <2>5, <2>7 DEF StraySleep
    <2>10. StrayApart(N)
      BY <1>1, <2>5 DEF StrayApart
    <2>11. Placed(N)
      BY <1>1, <1>2, <2>5, <2>7 DEF Placed, Awake
    <2> QED
      BY <2>6, <2>8, <2>9, <2>10, <2>11 DEF Sound
  <1>5. CASE t \notin Ring(Q, s)
    <2>1. PICK c \in Q.stray :
            /\ t \in Members(c)
            /\ c = CHOOSE x \in Q.stray : t \in Members(x)
      <3>1. \E x \in Q.stray : t \in Members(x)
        BY <1>1, <1>3, <1>5 DEF Placed
      <3> QED
        BY <3>1
    <2>2. PICK r, o : r = Rotated(c, t) /\ o = Q.ring[s]
      OBVIOUS
    <2>3. c \in Seq(Thread) /\ Distinct(c)
      BY <1>1, <1>2 DEF StraySleep
    <2>4. /\ r \in Seq(Thread) /\ Len(r) = Len(c) /\ Distinct(r)
          /\ Members(r) = Members(c)
      BY <2>1, <2>2, <2>3, RotatedRing
    <2>5. s \in R /\ \A u \in Members(c) : Q.sleep[u] = s /\ u \notin Ring(Q, s)
      BY <1>1, <1>3, <2>1 DEF StraySleep
    <2>6. o \in Seq(Thread) /\ Distinct(o) /\ \A u \in Members(o) : Q.sleep[u] = s /\ u \in Ring(Q, s)
      BY <1>1, <1>2, <2>2 DEF RingsSleep, Ring
    <2>7. N = [Q EXCEPT !.ring = [Q.ring EXCEPT ![s] = r],
                        !.stray = (Q.stray \ {c}) \cup ({o} \ {<<>>})]
      BY <1>3, <1>5, <2>1, <2>2 DEF SetRing
    <2>8. /\ N.value = Q.value /\ N.ring = [Q.ring EXCEPT ![s] = r]
          /\ N.stray = (Q.stray \ {c}) \cup ({o} \ {<<>>}) /\ N.sleep = Q.sleep
          /\ N \in [value : {N.value}, ring : {N.ring}, stray : {N.stray}, sleep : {N.sleep}]
      BY <1>1, <2>7 DEF SemaphoreState
    <2>9. N \in SemaphoreState
      <3>1. N.ring \in [Semaphore -> Seq(Thread)]
        BY <1>2, <2>4, <2>8
      <3>2. N.stray \subseteq Seq(Thread)
        BY <1>2, <2>6, <2>8
      <3> QED
        BY <1>2, <2>8, <3>1, <3>2 DEF SemaphoreState
    <2>10. /\ \A x \in Semaphore : x # s => N.ring[x] = Q.ring[x] /\ Ring(N, x) = Ring(Q, x)
           /\ N.ring[s] = r /\ Ring(N, s) = Members(c)
      BY <1>2, <2>4, <2>8 DEF Ring
    <2>11. Counted(N, R)
      BY <1>1, <2>5, <2>8, <2>10 DEF Counted
    <2>12. RingsSleep(N)
      <3> SUFFICES ASSUME NEW x \in Semaphore
                   PROVE  Distinct(N.ring[x]) /\ \A u \in Ring(N, x) : N.sleep[u] = x
        BY DEF RingsSleep
      <3>1. CASE x = s
        BY <2>4, <2>5, <2>8, <2>10, <3>1
      <3>2. CASE x # s
        BY <1>1, <2>8, <2>10, <3>2 DEF RingsSleep
      <3> QED
        BY <3>1, <3>2
    (* The circle that was in place is away from those that stay astray.   *)
    <2>13. \A d \in Q.stray : Members(d) \cap Members(o) = {}
      BY <1>1, <2>6 DEF StraySleep
    <2>14. StraySleep(N, R)
      <3> SUFFICES ASSUME NEW d \in N.stray
                   PROVE  /\ Distinct(d)
                          /\ \A u \in Members(d) : N.sleep[u] \in R /\ u \notin Ring(N, N.sleep[u])
                          /\ \A u, w \in Members(d) : N.sleep[u] = N.sleep[w]
        BY DEF StraySleep
      <3>1. CASE d = o
        BY <2>5, <2>6, <2>8, <2>10, <3>1
      <3>2. CASE d \in Q.stray /\ d # c
        <4>1. Distinct(d) /\ \A u, w \in Members(d) : N.sleep[u] = N.sleep[w]
          BY <1>1, <2>8, <3>2 DEF StraySleep
        <4>2. ASSUME NEW u \in Members(d) PROVE N.sleep[u] \in R /\ u \notin Ring(N, N.sleep[u])
          <5>1. Q.sleep[u] \in R /\ u \notin Ring(Q, Q.sleep[u])
            BY <1>1, <3>2 DEF StraySleep
          <5>2. u \notin Members(c)
            BY <1>1, <3>2 DEF StrayApart
          <5> QED
            BY <2>8, <2>10, <5>1, <5>2
        <4> QED
          BY <4>1, <4>2
      <3> QED
        BY <2>8, <3>1, <3>2
    <2>15. StrayApart(N)
      <3> SUFFICES ASSUME NEW d \in N.stray, NEW e \in N.stray, Members(d) \cap Members(e) # {}
                   PROVE  d = e
        BY DEF StrayApart
      <3> QED
        BY <1>1, <2>8, <2>13 DEF StrayApart
    <2>16. Placed(N)
      <3> SUFFICES ASSUME NEW u \in Thread, ~Awake(N, u)
                   PROVE  u \in Ring(N, N.sleep[u]) \/ \E d \in N.stray : u \in Members(d)
        BY DEF Placed
      <3>1. ~Awake(Q, u) /\ N.sleep[u] = Q.sleep[u] /\ Q.sleep[u] \in Semaphore
        BY <1>2, <2>8 DEF Awake
      <3>2. CASE u \in Members(c)
        BY <2>5, <2>10, <3>1, <3>2
      <3>3. CASE u \in Members(o)
        <4>1. o # <<>>
          BY <3>3 DEF Members
        <4> QED
          BY <2>8, <3>3, <4>1
      <3>4. CASE u \notin Members(c) /\ u \notin Members(o)
        BY <1>1, <2>2, <2>8, <2>10, <3>1, <3>4 DEF Placed, Ring
      <3> QED
        BY <3>2, <3>3, <3>4
    <2> QED
      BY <2>9, <2>11, <2>12, <2>14, <2>15, <2>16 DEF Sound
  <1> QED
    BY <1>4, <1>5

(* v_thread: a thread is woken before those ahead of it.                   *)
LEMMA VThreadSound ==
  ASSUME NEW R \in SUBSET Semaphore, NEW Q, Sound(Q, R),
         NEW t \in Thread, NEW N, N = VThread(Q, t)
  PROVE  Sound(N, R)
  <1>1. CASE Awake(Q, t)
    BY <1>1 DEF VThread
  <1>2. CASE ~Awake(Q, t)
    <2>1. PICK M : M = SetRing(Q, t)
      OBVIOUS
    <2>2. Sound(M, R)
      BY <1>2, <2>1, SetRingSound
    <2>3. Q.sleep[t] \in Semaphore
      BY <1>2 DEF Sound, SemaphoreState, Awake
    <2>4. N = V(M, Q.sleep[t], 1)
      BY <1>2, <2>1 DEF VThread
    <2> QED
      BY <2>2, <2>3, <2>4, VSound
  <1> QED
    BY <1>1, <1>2

(* reset_semaphore_value: a semaphore nobody sleeps on, with no units left.*)
LEMMA ResetSound ==
  ASSUME NEW R \in SUBSET Semaphore, NEW Q, Sound(Q, R), NEW s \in Semaphore,
         NEW N, N = Reset(Q, s)
  PROVE  Sound(N, R)
  <1>1. PICK M : M = Emptied(Q, s)
    OBVIOUS
  <1>2. Sound(M, R)
    <2>1. CASE Q.value[s] < 0
      BY <1>1, <2>1, VSound DEF Emptied
    <2>2. CASE ~(Q.value[s] < 0)
      BY <1>1, <2>2 DEF Emptied
    <2> QED
      BY <2>1, <2>2
  <1>3. /\ M \in SemaphoreState /\ Counted(M, R) /\ RingsSleep(M)
        /\ StraySleep(M, R) /\ StrayApart(M) /\ Placed(M)
    BY <1>2 DEF Sound
  <1>4. /\ M.value \in [Semaphore -> Int] /\ M.ring \in [Semaphore -> Seq(Thread)]
        /\ M.stray \subseteq Seq(Thread) /\ M.sleep \in [Thread -> Semaphore \cup {None}]
    BY <1>3 DEF SemaphoreState
  <1>5. PICK v \in Int : v = IF M.value[s] > 0 THEN 0 ELSE M.value[s]
    BY <1>4
  <1>6. N = [M EXCEPT !.value = [M.value EXCEPT ![s] = v]]
    BY <1>1, <1>5 DEF Reset
  <1>7. /\ N.value = [M.value EXCEPT ![s] = v] /\ N.ring = M.ring
        /\ N.stray = M.stray /\ N.sleep = M.sleep
        /\ N \in [value : {N.value}, ring : {N.ring}, stray : {N.stray}, sleep : {N.sleep}]
    BY <1>3, <1>6 DEF SemaphoreState
  <1>8. N \in SemaphoreState
    <2>1. N.value \in [Semaphore -> Int]
      BY <1>4, <1>5, <1>7
    <2> QED
      BY <1>4, <1>7, <2>1 DEF SemaphoreState
  <1>9. Counted(N, R)
    <2> SUFFICES ASSUME NEW x \in Semaphore \ R
                 PROVE  Len(N.ring[x]) = IF N.value[x] < 0 THEN -N.value[x] ELSE 0
      BY DEF Counted
    <2>1. Len(M.ring[x]) = IF M.value[x] < 0 THEN -M.value[x] ELSE 0
      BY <1>3 DEF Counted
    <2>2. CASE x # s
      BY <1>4, <1>7, <2>1, <2>2
    <2>3. CASE x = s
      <3>1. PICK w \in Int : w = M.value[s]
        BY <1>4
      <3>2. N.value[x] = v /\ N.ring[x] = M.ring[x]
        BY <1>4, <1>7, <2>3
      <3> QED
        BY <1>5, <2>1, <2>3, <3>1, <3>2
    <2> QED
      BY <2>2, <2>3
  <1>10. RingsSleep(N) /\ StraySleep(N, R) /\ StrayApart(N) /\ Placed(N)
    BY <1>3, <1>7 DEF RingsSleep, StraySleep, StrayApart, Placed, Ring, Awake
  <1> QED
    BY <1>8, <1>9, <1>10 DEF Sound

(* allocate_semaphore: the sleepers it finds go astray, and stay that way. *)
LEMMA AllocateSound ==
  ASSUME NEW R \in SUBSET Semaphore, NEW Q, Sound(Q, R), NEW s \in Semaphore,
         NEW n \in Nat, NEW N, N = Allocate(Q, s, n),
         NEW S, S = IF Q.ring[s] = <<>> THEN R ELSE R \cup {s}
  PROVE  Sound(N, S)
  <1>1. /\ Q \in SemaphoreState /\ Counted(Q, R) /\ RingsSleep(Q)
        /\ StraySleep(Q, R) /\ StrayApart(Q) /\ Placed(Q)
    BY DEF Sound
  <1>2. /\ Q.value \in [Semaphore -> Int] /\ Q.ring \in [Semaphore -> Seq(Thread)]
        /\ Q.stray \subseteq Seq(Thread) /\ Q.sleep \in [Thread -> Semaphore \cup {None}]
    BY <1>1 DEF SemaphoreState
  <1>3. PICK o : o = Q.ring[s]
    OBVIOUS
  <1>4. R \subseteq S /\ S \subseteq Semaphore /\ (o # <<>> => s \in S)
    BY <1>3
  <1>5. o \in Seq(Thread) /\ Distinct(o) /\ \A u \in Members(o) : Q.sleep[u] = s /\ u \in Ring(Q, s)
    BY <1>1, <1>2, <1>3 DEF RingsSleep, Ring
  <1>6. N = [Q EXCEPT !.value = [Q.value EXCEPT ![s] = n], !.ring = [Q.ring EXCEPT ![s] = <<>>],
                      !.stray = Q.stray \cup ({o} \ {<<>>})]
    BY <1>3 DEF Allocate
  <1>7. /\ N.value = [Q.value EXCEPT ![s] = n] /\ N.ring = [Q.ring EXCEPT ![s] = <<>>]
        /\ N.stray = Q.stray \cup ({o} \ {<<>>}) /\ N.sleep = Q.sleep
        /\ N \in [value : {N.value}, ring : {N.ring}, stray : {N.stray}, sleep : {N.sleep}]
    BY <1>1, <1>6 DEF SemaphoreState
  <1>8. N \in SemaphoreState
    <2>1. <<>> \in Seq(Thread)
      OBVIOUS
    <2>2. N.value \in [Semaphore -> Int] /\ N.ring \in [Semaphore -> Seq(Thread)]
      BY <1>2, <1>7, <2>1
    <2>3. N.stray \subseteq Seq(Thread)
      BY <1>2, <1>5, <1>7
    <2> QED
      BY <1>2, <1>7, <2>2, <2>3 DEF SemaphoreState
  <1>9. /\ \A x \in Semaphore : x # s => /\ N.ring[x] = Q.ring[x] /\ N.value[x] = Q.value[x]
                                         /\ Ring(N, x) = Ring(Q, x)
        /\ N.ring[s] = <<>> /\ N.value[s] = n
    BY <1>2, <1>7 DEF Ring
  <1>10. Len(<<>>) = 0 /\ Ring(N, s) = {} /\ Distinct(<<>>)
    BY <1>9 DEF Ring, Members, Distinct
  <1>11. Counted(N, S)
    <2> SUFFICES ASSUME NEW x \in Semaphore \ S
                 PROVE  Len(N.ring[x]) = IF N.value[x] < 0 THEN -N.value[x] ELSE 0
      BY DEF Counted
    <2>1. CASE x = s
      BY <1>9, <1>10, <2>1
    <2>2. CASE x # s
      BY <1>1, <1>4, <1>9, <2>2 DEF Counted
    <2> QED
      BY <2>1, <2>2
  <1>12. RingsSleep(N)
    <2> SUFFICES ASSUME NEW x \in Semaphore
                 PROVE  Distinct(N.ring[x]) /\ \A u \in Ring(N, x) : N.sleep[u] = x
      BY DEF RingsSleep
    <2>1. CASE x = s
      BY <1>9, <1>10, <2>1
    <2>2. CASE x # s
      BY <1>1, <1>7, <1>9, <2>2 DEF RingsSleep
    <2> QED
      BY <2>1, <2>2
  <1>13. \A d \in Q.stray : Members(d) \cap Members(o) = {}
    BY <1>1, <1>5 DEF StraySleep
  <1>14. StraySleep(N, S)
    <2> SUFFICES ASSUME NEW d \in N.stray
                 PROVE  /\ Distinct(d)
                        /\ \A u \in Members(d) : N.sleep[u] \in S /\ u \notin Ring(N, N.sleep[u])
                        /\ \A u, w \in Members(d) : N.sleep[u] = N.sleep[w]
      BY DEF StraySleep
    <2>1. CASE d = o /\ o # <<>>
      BY <1>4, <1>5, <1>7, <1>10, <2>1
    <2>2. CASE d \in Q.stray
      <3>1. Distinct(d) /\ \A u, w \in Members(d) : N.sleep[u] = N.sleep[w]
        BY <1>1, <1>7, <2>2 DEF StraySleep
      <3>2. ASSUME NEW u \in Members(d) PROVE N.sleep[u] \in S /\ u \notin Ring(N, N.sleep[u])
        <4>1. Q.sleep[u] \in R /\ u \notin Ring(Q, Q.sleep[u])
          BY <1>1, <2>2 DEF StraySleep
        <4> QED
          BY <1>4, <1>7, <1>9, <1>10, <4>1
      <3> QED
        BY <3>1, <3>2
    <2> QED
      BY <1>7, <2>1, <2>2
  <1>15. StrayApart(N)
    BY <1>1, <1>7, <1>13 DEF StrayApart
  <1>16. Placed(N)
    <2> SUFFICES ASSUME NEW u \in Thread, ~Awake(N, u)
                 PROVE  u \in Ring(N, N.sleep[u]) \/ \E d \in N.stray : u \in Members(d)
      BY DEF Placed
    <2>1. ~Awake(Q, u) /\ N.sleep[u] = Q.sleep[u] /\ Q.sleep[u] \in Semaphore
      BY <1>2, <1>7 DEF Awake
    <2>2. CASE u \in Members(o)
      <3>1. o # <<>>
        BY <2>2 DEF Members
      <3> QED
        BY <1>7, <2>2, <3>1
    <2>3. CASE u \notin Members(o)
      BY <1>1, <1>3, <1>7, <1>9, <2>1, <2>3 DEF Placed, Ring
    <2> QED
      BY <2>2, <2>3
  <1> QED
    BY <1>8, <1>11, <1>12, <1>14, <1>15, <1>16 DEF Sound

-----------------------------------------------------------------------------
(* Where no semaphore is ever allocated again, nobody is astray; then what *)
(* an operation does to the sleepers can be told from the value alone.     *)
Settled(Q) == Sound(Q, {}) /\ Q.stray = {}

LEMMA SettledTypes ==
  ASSUME NEW Q, Settled(Q)
  PROVE  /\ Q \in SemaphoreState
         /\ Q.value \in [Semaphore -> Int] /\ Q.ring \in [Semaphore -> Seq(Thread)]
         /\ Q.sleep \in [Thread -> Semaphore \cup {None}]
         /\ \A s \in Semaphore : Len(Q.ring[s]) = IF Q.value[s] < 0 THEN -Q.value[s] ELSE 0
         /\ \A s \in Semaphore : \A t \in Ring(Q, s) : Q.sleep[t] = s
         /\ \A t \in Thread : ~Awake(Q, t) => t \in Ring(Q, Q.sleep[t])
  BY DEF Settled, Sound, SemaphoreState, Counted, RingsSleep, Placed

(* P that sleeps: whether it does depends on the value.                    *)
PSleeping(Q, t, s) == P(Q, t, s, TRUE)

LEMMA PSettled ==
  ASSUME NEW Q, Settled(Q), NEW s \in Semaphore, NEW t \in Thread, Awake(Q, t),
         NEW N, N = PSleeping(Q, t, s)
  PROVE  /\ Settled(N)
         /\ N.value = [Q.value EXCEPT ![s] = Q.value[s] - 1]
         /\ Q.value[s] > 0 => N.sleep = Q.sleep
         /\ ~(Q.value[s] > 0) => N.sleep = [Q.sleep EXCEPT ![t] = s]
  <1>1. Q \in SemaphoreState
    BY DEF Settled, Sound
  <1>2. Sound(N, {})
    BY PSound DEF Settled, PSleeping
  <1>3. CASE Q.value[s] > 0
    <2>1. N = [Q EXCEPT !.value = [Q.value EXCEPT ![s] = Q.value[s] - 1]]
      BY <1>3 DEF PSleeping, P
    <2>2. N.value = [Q.value EXCEPT ![s] = Q.value[s] - 1] /\ N.sleep = Q.sleep /\ N.stray = Q.stray
      BY <1>1, <2>1 DEF SemaphoreState
    <2> QED
      BY <1>2, <1>3, <2>2 DEF Settled
  <1>4. CASE ~(Q.value[s] > 0)
    <2>1. N = [Q EXCEPT !.value = [Q.value EXCEPT ![s] = Q.value[s] - 1],
                        !.ring = [Q.ring EXCEPT ![s] = Enqueued(Q.ring[s], t)],
                        !.sleep = [Q.sleep EXCEPT ![t] = s]]
      BY <1>4 DEF PSleeping, P, Sleep
    <2>2. /\ N.value = [Q.value EXCEPT ![s] = Q.value[s] - 1]
          /\ N.sleep = [Q.sleep EXCEPT ![t] = s] /\ N.stray = Q.stray
      BY <1>1, <2>1 DEF SemaphoreState
    <2> QED
      BY <1>2, <1>4, <2>2 DEF Settled
  <1> QED
    BY <1>3, <1>4

(* V ends the sleep of the first ones of the ring, as many as it wakes.    *)
LEMMA VSleep ==
  ASSUME NEW Q, Settled(Q), NEW s \in Semaphore, NEW n \in Int, NEW N, N = V(Q, s, n),
         NEW k, k = Woken(Q, s, n)
  PROVE  \A t \in Thread :
           N.sleep[t] = IF \E i \in 1..k : Q.ring[s][i] = t THEN None ELSE Q.sleep[t]
  <1>1. /\ N.value = [Q.value EXCEPT ![s] = IF n < 0 THEN Q.value[s] + k ELSE Q.value[s] + n]
        /\ N.stray = Q.stray
        /\ N.sleep = [t \in Thread |->
                        IF \E i \in 1..k : Q.ring[s][i] = t THEN None ELSE Q.sleep[t]]
    BY SettledTypes DEF V, SemaphoreState
  <1> QED
    BY <1>1

(* V with any number of steps disturbs nobody who sleeps somewhere else.   *)
LEMMA VSettled ==
  ASSUME NEW Q, Settled(Q), NEW s \in Semaphore, NEW n \in Int, NEW N, N = V(Q, s, n)
  PROVE  /\ Settled(N)
         /\ \A x \in Semaphore : x # s => N.value[x] = Q.value[x]
         /\ \A t \in Thread :
              N.sleep[t] = Q.sleep[t] \/ (Q.sleep[t] = s /\ N.sleep[t] = None)
  <1>1. PICK k : k = Woken(Q, s, n)
    OBVIOUS
  <1>2. /\ N.value = [Q.value EXCEPT ![s] = IF n < 0 THEN Q.value[s] + k ELSE Q.value[s] + n]
        /\ N.stray = Q.stray
        /\ N.sleep = [t \in Thread |->
                        IF \E i \in 1..k : Q.ring[s][i] = t THEN None ELSE Q.sleep[t]]
    BY <1>1, SettledTypes DEF V, SemaphoreState
  <1>3. Sound(N, {})
    BY VSound DEF Settled
  <1>4. Settled(N)
    BY <1>2, <1>3 DEF Settled
  <1>5. \A x \in Semaphore : x # s => N.value[x] = Q.value[x]
    BY <1>2, SettledTypes
  <1>6. ASSUME NEW i \in 1..k
        PROVE  Q.sleep[Q.ring[s][i]] = s
    <2>1. i \in 1..Len(Q.ring[s])
      BY <1>1, LenProperties, SettledTypes DEF Woken
    <2> QED
      BY <2>1, SettledTypes DEF Ring, Members
  <1>7. \A t \in Thread : N.sleep[t] = Q.sleep[t] \/ (Q.sleep[t] = s /\ N.sleep[t] = None)
    BY <1>2, <1>6
  <1> QED
    BY <1>4, <1>5, <1>7

(* V of one unit wakes the first of the ring if the value is below zero,   *)
(* and nobody otherwise.                                                   *)
LEMMA VOne ==
  ASSUME NEW Q, Settled(Q), NEW s \in Semaphore, NEW N, N = V(Q, s, 1)
  PROVE  /\ Settled(N)
         /\ N.value = [Q.value EXCEPT ![s] = Q.value[s] + 1]
         /\ ~(Q.value[s] < 0) => N.sleep = Q.sleep
         /\ Q.value[s] < 0 =>
              /\ Q.ring[s][1] \in Thread /\ Q.sleep[Q.ring[s][1]] = s
              /\ N.sleep = [Q.sleep EXCEPT ![Q.ring[s][1]] = None]
  <1>1. Settled(N)
    BY VSettled
  <1>2. PICK k : k = Woken(Q, s, 1)
    OBVIOUS
  <1>3. k = IF Q.value[s] < 0 THEN 1 ELSE 0
    BY <1>2, SettledTypes DEF Woken
  <1>4. /\ N.value = [Q.value EXCEPT ![s] = Q.value[s] + 1]
        /\ N.sleep = [t \in Thread |->
                        IF \E i \in 1..k : Q.ring[s][i] = t THEN None ELSE Q.sleep[t]]
    BY <1>2, SettledTypes DEF V, SemaphoreState
  <1>5. ASSUME ~(Q.value[s] < 0) PROVE N.sleep = Q.sleep
    BY <1>3, <1>4, <1>5, SettledTypes
  <1>6. ASSUME Q.value[s] < 0
        PROVE  /\ Q.ring[s][1] \in Thread /\ Q.sleep[Q.ring[s][1]] = s
               /\ N.sleep = [Q.sleep EXCEPT ![Q.ring[s][1]] = None]
    <2>1. Q.ring[s] \in Seq(Thread) /\ 1 \in 1..Len(Q.ring[s])
      BY <1>6, SettledTypes
    <2>2. Q.ring[s][1] \in Thread
      BY <2>1, ElementOfSeq
    <2>3. Q.sleep[Q.ring[s][1]] = s
      <3>1. Q.ring[s][1] \in Ring(Q, s)
        BY <2>1 DEF Ring, Members
      <3>2. \A u \in Ring(Q, s) : Q.sleep[u] = s
        BY SettledTypes
      <3> QED
        BY <3>1, <3>2, Zenon
    <2>4. \A u : (\E i \in 1..k : Q.ring[s][i] = u) <=> u = Q.ring[s][1]
      BY <1>3, <1>6
    <2>5. PICK f \in Seq(Thread) : f = Q.ring[s]
      BY <2>1
    <2>6. Q.sleep \in [Thread -> Semaphore \cup {None}]
      BY SettledTypes
    <2>7. N.sleep = [u \in Thread |-> IF u = f[1] THEN None ELSE Q.sleep[u]]
      BY <1>4, <2>4, <2>5
    <2>8. N.sleep = [Q.sleep EXCEPT ![f[1]] = None]
      BY <2>2, <2>5, <2>6, <2>7
    <2> QED
      BY <2>2, <2>3, <2>5, <2>8
  <1> QED
    BY <1>1, <1>4, <1>5, <1>6

(* v_thread wakes the thread it is asked for, at the price of one unit.    *)
LEMMA VThreadOne ==
  ASSUME NEW Q, Settled(Q), NEW t \in Thread, ~Awake(Q, t),
         NEW s \in Semaphore, s = Q.sleep[t], NEW N, N = VThread(Q, t)
  PROVE  /\ Settled(N)
         /\ Q.value[s] < 0
         /\ N.value = [Q.value EXCEPT ![s] = Q.value[s] + 1]
         /\ N.sleep = [Q.sleep EXCEPT ![t] = None]
  <1>1. t \in Ring(Q, s) /\ t \in Members(Q.ring[s]) /\ Q.ring[s] \in Seq(Thread)
    BY SettledTypes DEF Ring
  <1>2. Q.value[s] < 0
    BY <1>1, SettledTypes DEF Members
  <1>3. PICK M : M = SetRing(Q, t)
    OBVIOUS
  <1>4. /\ M.ring = [Q.ring EXCEPT ![s] = Rotated(Q.ring[s], t)]
        /\ M.value = Q.value /\ M.sleep = Q.sleep /\ M.stray = Q.stray
    <2>1. M = [Q EXCEPT !.ring = [Q.ring EXCEPT ![s] = Rotated(Q.ring[s], t)]]
      BY <1>1, <1>3 DEF SetRing
    <2> QED
      BY <2>1, SettledTypes DEF SemaphoreState
  <1>5. Settled(M)
    <2>1. Sound(M, {})
      BY <1>3, SetRingSound DEF Settled
    <2> QED
      BY <1>4, <2>1 DEF Settled
  <1>6. M.ring[s][1] = t
    <2>1. Distinct(Q.ring[s])
      BY DEF Settled, Sound, RingsSleep
    <2>2. Rotated(Q.ring[s], t)[1] = t
      BY <1>1, <2>1, RotatedRing
    <2> QED
      BY <1>4, <2>2, SettledTypes
  <1>7. N = V(M, s, 1)
    BY <1>3 DEF VThread
  <1>8. /\ Settled(N)
        /\ N.value = [M.value EXCEPT ![s] = M.value[s] + 1]
        /\ M.value[s] < 0 => N.sleep = [M.sleep EXCEPT ![M.ring[s][1]] = None]
    BY <1>5, <1>7, VOne
  <1> QED
    BY <1>2, <1>4, <1>6, <1>8

-----------------------------------------------------------------------------
(* ThreadHeap.  A thread sifts along a walk of positions, and all exchanges*)
(* on it are one update, so no lemma below needs induction.  A walk has no *)
(* fork and does not return to where it begins (WalkIsALine); the update   *)
(* turns it by one place (Exchanged), after which array and heap_id agree  *)
(* again (Listed); and if the order was wrong at the thread that sifts only*)
(* and in one direction (MayRise, MayFall), it is right everywhere.        *)
(* HeapOf is both together: the heap of a set of threads.                  *)

(* What is visited contains where it begins and where its members go next, *)
(* and nothing that such a set can do without.                             *)
LEMMA VisitedIsLeast ==
  ASSUME NEW n \in Nat, NEW nx \in [1..n -> 0..n], NEW i \in 1..n
  PROVE  /\ Visited(nx, i) \subseteq 1..n /\ i \in Visited(nx, i)
         /\ \A j \in Visited(nx, i) : nx[j] # 0 => nx[j] \in Visited(nx, i)
         /\ \A D \in SUBSET (1..n) :
              i \in D /\ (\A j \in D : nx[j] # 0 => nx[j] \in D) => Visited(nx, i) \subseteq D
<1>1. DOMAIN nx = 1..n OBVIOUS
<1> DEFINE closed == {D \in SUBSET (1..n) :
                        i \in D /\ \A j \in D : nx[j] # 0 => nx[j] \in D}
<1>2. Visited(nx, i) = {j \in 1..n : \A D \in closed : j \in D}
  BY <1>1 DEF Visited
<1>3. ASSUME NEW j \in Visited(nx, i), nx[j] # 0 PROVE nx[j] \in Visited(nx, i)
  <2>1. nx[j] \in 1..n BY <1>2, <1>3
  <2>2. ASSUME NEW D \in closed PROVE nx[j] \in D
    BY <1>2, <1>3, <2>2
  <2> QED BY <2>1, <2>2, <1>2
<1> QED BY <1>2, <1>3

(* A walk that goes down in rank passes every member once: it never returns*)
(* to where it begins, and two members never go to the same one.           *)
LEMMA WalkIsALine ==
  ASSUME NEW n \in Nat, NEW nx \in [1..n -> 0..n], NEW i \in 1..n,
         NEW rk \in [1..n -> Int],
         \A j, k \in 1..n : rk[j] = rk[k] => j = k,
         \A j \in 1..n : nx[j] # 0 => rk[nx[j]] < rk[j]
  PROVE  /\ \A j \in Visited(nx, i) : rk[j] <= rk[i]
         /\ \A j \in Visited(nx, i) : j # i => \E a \in Visited(nx, i) : nx[a] = j
         /\ \A a, b \in Visited(nx, i) : nx[a] = nx[b] => a = b
<1> DEFINE W == Visited(nx, i)
<1>1. /\ W \subseteq 1..n /\ i \in W
      /\ \A j \in W : nx[j] # 0 => nx[j] \in W
      /\ \A D \in SUBSET (1..n) :
           i \in D /\ (\A j \in D : nx[j] # 0 => nx[j] \in D) => W \subseteq D
  BY VisitedIsLeast
<1> HIDE DEF W
<1>2. \A j \in W : rk[j] <= rk[i]
  <2> DEFINE D == {j \in W : rk[j] <= rk[i]}
  <2> rk[i] \in Int OBVIOUS
  <2> rk[i] <= rk[i] OBVIOUS
  <2>1. D \in SUBSET (1..n) /\ i \in D BY <1>1
  <2>2. ASSUME NEW j \in D, nx[j] # 0 PROVE nx[j] \in D
    <3>1. nx[j] \in W /\ j \in 1..n /\ nx[j] \in 1..n BY <1>1, <2>2
    <3>2. rk[nx[j]] < rk[j] /\ rk[j] <= rk[i] BY <3>1, <2>2
    <3>3. rk[nx[j]] \in Int /\ rk[j] \in Int /\ rk[i] \in Int BY <3>1
    <3>4. rk[nx[j]] <= rk[i] BY <3>2, <3>3
    <3> QED BY <3>1, <3>4
  <2>3. W \subseteq D BY <1>1, <2>1, <2>2
  <2> QED BY <2>3
<1>3. ASSUME NEW j \in W, j # i PROVE \E a \in W : nx[a] = j
  <2> SUFFICES ASSUME \A a \in W : nx[a] # j PROVE FALSE OBVIOUS
  <2> DEFINE D == W \ {j}
  <2>1. D \in SUBSET (1..n) /\ i \in D BY <1>1, <1>3
  <2>2. ASSUME NEW a \in D, nx[a] # 0 PROVE nx[a] \in D
    BY <1>1, <2>2
  <2>3. W \subseteq D BY <1>1, <2>1, <2>2
  <2> QED BY <2>3, <1>3
<1> DEFINE Q(j) == \A a \in W : rk[a] > rk[j] => nx[a] # 0 /\ rk[nx[a]] >= rk[j]
<1>4. ASSUME NEW j \in W, Q(j), nx[j] # 0,
             NEW a \in W
      PROVE  rk[a] >= rk[j] \/ rk[a] <= rk[nx[j]]
  <2> DEFINE D == {b \in W : rk[b] >= rk[j] \/ rk[b] <= rk[nx[j]]}
  <2>1. nx[j] \in 1..n /\ j \in 1..n /\ rk[nx[j]] \in Int /\ rk[j] \in Int
    BY <1>1, <1>4
  <2>2. D \in SUBSET (1..n) BY <1>1
  <2>3. i \in D BY <1>1, <1>2
  <2>4. ASSUME NEW b \in D, nx[b] # 0 PROVE nx[b] \in D
    <3>1. b \in W /\ b \in 1..n /\ nx[b] \in W /\ nx[b] \in 1..n BY <1>1, <2>4
    <3>2. rk[b] \in Int /\ rk[nx[b]] \in Int BY <3>1
    <3>3. rk[nx[b]] < rk[b] BY <3>1, <2>4
    <3>4. CASE b = j BY <3>4, <3>1, <2>1
    <3>5. CASE rk[b] > rk[j] BY <3>5, <3>1, <1>4
    <3>6. CASE b # j /\ ~ (rk[b] > rk[j])
      <4>1. rk[b] # rk[j] BY <3>6, <3>1, <2>1
      <4>2. rk[b] <= rk[nx[j]] BY <4>1, <3>6, <3>2, <2>1, <2>4
      <4>3. rk[nx[b]] <= rk[nx[j]] BY <4>2, <3>3, <3>2, <2>1
      <4> QED BY <4>3, <3>1
    <3> QED BY <3>4, <3>5, <3>6
  <2> HIDE DEF D
  <2>5. W \subseteq D BY <1>1, <2>2, <2>3, <2>4
  <2> QED BY <2>5, <1>4 DEF D
<1>5. \A j \in W : Q(j)
  <2> DEFINE D == {j \in W : Q(j)}
  <2>1. D \in SUBSET (1..n) BY <1>1
  <2>2. i \in D
    <3>1. \A a \in W : rk[a] \in Int /\ rk[a] <= rk[i] BY <1>1, <1>2
    <3>2. rk[i] \in Int OBVIOUS
    <3> QED BY <1>1, <3>1, <3>2
  <2>3. ASSUME NEW j \in D, nx[j] # 0 PROVE nx[j] \in D
    <3>1. j \in W /\ Q(j) /\ nx[j] \in W BY <1>1, <2>3
    <3>2. ASSUME NEW a \in W, rk[a] > rk[nx[j]] PROVE nx[a] # 0 /\ rk[nx[a]] >= rk[nx[j]]
      <4>1. rk[a] >= rk[j] \/ rk[a] <= rk[nx[j]] BY <1>4, <3>1, <2>3
      <4>2. /\ a \in 1..n /\ j \in 1..n /\ nx[j] \in 1..n
            /\ rk[a] \in Int /\ rk[j] \in Int /\ rk[nx[j]] \in Int
        BY <1>1, <3>1
      <4>3. CASE rk[a] = rk[j]
        <5>1. a = j BY <4>3, <4>2
        <5> QED BY <5>1, <2>3, <4>2
      <4>4. CASE rk[a] > rk[j]
        <5>1. nx[a] # 0 /\ rk[nx[a]] >= rk[j] BY <4>4, <3>1
        <5>2. nx[a] \in 1..n BY <5>1, <4>2
        <5>3. rk[nx[a]] \in Int BY <5>2
        <5>4. rk[nx[j]] < rk[j] BY <2>3, <4>2
        <5> QED BY <5>1, <5>3, <5>4, <4>2
      <4> QED BY <4>1, <4>2, <4>3, <4>4, <3>2
    <3> QED BY <3>1, <3>2
  <2> HIDE DEF D
  <2>4. W \subseteq D BY <1>1, <2>1, <2>2, <2>3
  <2> QED BY <2>4 DEF D
<1>6. ASSUME NEW a \in W, NEW b \in W, nx[a] = nx[b], rk[a] > rk[b] PROVE FALSE
  <2>1. nx[a] # 0 /\ rk[nx[a]] >= rk[b] BY <1>5, <1>6
  <2>2. b \in 1..n /\ nx[b] \in 1..n BY <1>1, <1>6, <2>1
  <2>3. rk[nx[b]] < rk[b] /\ rk[b] \in Int /\ rk[nx[b]] \in Int BY <2>1, <2>2, <1>6
  <2> QED BY <2>1, <2>3, <1>6
<1>7. ASSUME NEW a \in W, NEW b \in W, nx[a] = nx[b] PROVE a = b
  <2>1. a \in 1..n /\ b \in 1..n /\ rk[a] \in Int /\ rk[b] \in Int BY <1>1
  <2>2. ~ (rk[a] > rk[b]) BY <1>6, <1>7
  <2>3. ~ (rk[b] > rk[a]) BY <1>6, <1>7
  <2>4. rk[a] = rk[b] BY <2>1, <2>2, <2>3
  <2> QED BY <2>1, <2>4
<1> QED BY <1>2, <1>3, <1>7 DEF W

(* Where the thread that is at position j afterwards was before.           *)
Source(nx, i, j) ==
  IF j \notin Visited(nx, i) THEN j ELSE IF nx[j] = 0 THEN i ELSE nx[j]

Permutes(n, nx, i) ==
  /\ Visited(nx, i) \subseteq 1..n
  /\ \A j \in 1..n : Source(nx, i, j) \in 1..n
  /\ \A j, k \in 1..n : Source(nx, i, j) = Source(nx, i, k) => j = k
  /\ \A j \in 1..n : \E k \in 1..n : Source(nx, i, k) = j
  /\ \A j \in 1..n : j \notin Visited(nx, i) => Source(nx, i, j) = j
  /\ \A j \in Visited(nx, i) : Source(nx, i, j) \in Visited(nx, i)

(* The exchanges of a walk only permute the positions.                     *)
LEMMA WalkPermutes ==
  ASSUME NEW n \in Nat, NEW nx \in [1..n -> 0..n], NEW i \in 1..n,
         NEW rk \in [1..n -> Int],
         \A j, k \in 1..n : rk[j] = rk[k] => j = k,
         \A j \in 1..n : nx[j] # 0 => rk[nx[j]] < rk[j]
  PROVE  Permutes(n, nx, i)
<1> DEFINE W == Visited(nx, i)
           src(j) == Source(nx, i, j)
<1>1. /\ W \subseteq 1..n /\ i \in W
      /\ \A j \in W : nx[j] # 0 => nx[j] \in W
  BY VisitedIsLeast
<1>2. /\ \A j \in W : rk[j] <= rk[i]
      /\ \A a, b \in W : nx[a] = nx[b] => a = b
  BY WalkIsALine
<1>3. /\ \A j \in 1..n : j \notin W => src(j) = j
      /\ \A j \in W : nx[j] = 0 => src(j) = i
      /\ \A j \in W : nx[j] # 0 => src(j) = nx[j]
  BY <1>1 DEF Source
<1> HIDE DEF W, src
<1>4. \A j \in W : src(j) \in W BY <1>1, <1>3
<1>5. \A j \in 1..n : src(j) \in 1..n BY <1>1, <1>3, <1>4
<1>6. ASSUME NEW j \in W PROVE nx[j] # i
  <2> SUFFICES ASSUME nx[j] = i PROVE FALSE OBVIOUS
  <2>1. j \in 1..n /\ nx[j] # 0 BY <1>1
  <2>2. rk[i] < rk[j] /\ rk[i] \in Int /\ rk[j] \in Int BY <2>1
  <2>3. rk[j] <= rk[i] BY <1>2
  <2> QED BY <2>2, <2>3
<1>7. ASSUME NEW j \in W, NEW k \in W, src(j) = src(k) PROVE j = k
  <2>1. nx[j] = nx[k] BY <1>3, <1>6, <1>7
  <2> QED BY <2>1, <1>2
<1>8. ASSUME NEW j \in 1..n, NEW k \in 1..n, src(j) = src(k) PROVE j = k
  BY <1>3, <1>4, <1>7, <1>8
<1>9. ASSUME NEW j \in 1..n PROVE \E k \in 1..n : src(k) = j
  <2> DEFINE f == [k \in 1..n |-> src(k)]
  <2>1. f \in [1..n -> 1..n] BY <1>5
  <2>2. f \in Injection(1..n, 1..n) BY <1>8, <2>1 DEF Injection, IsInjective
  <2>3. IsFiniteSet(1..n) BY FS_Interval
  <2>4. f \in Surjection(1..n, 1..n) BY <2>2, <2>3, FS_Injection
  <2>5. PICK k \in 1..n : f[k] = j BY <2>4 DEF Surjection
  <2> QED BY <2>5
<1> QED BY <1>1, <1>3, <1>4, <1>5, <1>8, <1>9 DEF W, src, Permutes
-----------------------------------------------------------------------------
(* The array lists M, each member once and where its heap_id says.         *)
Slots(T) == 0..Cardinality(T)

Listed(H, T, M) ==
  /\ H.at \in Seq(T) /\ H.id \in [T -> Slots(T)]
  /\ \A j \in 1..Len(H.at) : H.id[H.at[j]] = j
  /\ \A j \in 1..Len(H.at) : H.at[j] \in M
  /\ \A t \in M : t \in T /\ \E j \in 1..Len(H.at) : H.at[j] = t

LEMMA SlotsAreNumbers == \A T : Slots(T) \subseteq Nat
BY DEF Slots

(* The heap_id of nobody but the members of M is another one.              *)
KeepsOthers(id, jd, T, M) == \A t \in T : t \notin M => jd[t] = id[t]

Exchanged(H, X, nx, i, n, T) ==
  LET W == Visited(nx, i)
  IN  /\ X.at = [j \in 1..n |-> X.at[j]] /\ X.id = [t \in T |-> X.id[t]]
      /\ \A j \in 1..n : X.at[j] = H.at[Source(nx, i, j)]
      /\ \A t \in T : (\E j \in W : X.at[j] = t)
                        => X.id[t] \in W /\ X.at[X.id[t]] = t
      /\ \A t \in T : (~ \E j \in W : X.at[j] = t) => X.id[t] = H.id[t]

LEMMA ExchangeParts ==
  ASSUME NEW H, NEW nx, NEW i, NEW n \in Nat, DOMAIN H.at = 1..n,
         NEW T, H.id \in [T -> Nat]
  PROVE  Exchanged(H, Exchange(H, nx, i), nx, i, n, T)
<1> DEFINE X == Exchange(H, nx, i)
           W == Visited(nx, i)
           A == ExchangedAt(H.at, nx, i)
           place(t) == IF \E j \in W : A[j] = t THEN CHOOSE j \in W : A[j] = t ELSE H.id[t]
<1>1. A = [j \in 1..n |-> H.at[Source(nx, i, j)]]
  BY DEF ExchangedAt, Source
<1>2. DOMAIN H.id = T OBVIOUS
<1>3. X = [at |-> A, id |-> [t \in T |-> place(t)]]
  BY <1>2 DEF Exchange
<1>4. ASSUME NEW t \in T, \E j \in W : A[j] = t PROVE place(t) \in W /\ A[place(t)] = t
  BY <1>4
<1>5. ASSUME NEW t \in T, ~ \E j \in W : A[j] = t PROVE place(t) = H.id[t]
  BY <1>5
<1> HIDE DEF X, W, A, place
<1>6. X.at = A /\ X.id = [t \in T |-> place(t)] BY <1>3
<1>7. /\ X.at = [j \in 1..n |-> X.at[j]] /\ X.id = [t \in T |-> X.id[t]]
      /\ \A j \in 1..n : X.at[j] = H.at[Source(nx, i, j)]
      /\ \A t \in T : X.id[t] = place(t)
  BY <1>1, <1>6
<1>8. /\ \A t \in T : (\E j \in W : X.at[j] = t)
                        => X.id[t] \in W /\ X.at[X.id[t]] = t
      /\ \A t \in T : (~ \E j \in W : X.at[j] = t) => X.id[t] = H.id[t]
  BY <1>4, <1>5, <1>6, <1>7
<1> QED BY <1>7, <1>8 DEF X, W, Exchanged

(* An exchange lists the same threads, in another order.                   *)
LEMMA ExchangeLists ==
  ASSUME NEW H, NEW T, NEW M, Listed(H, T, M),
         NEW n \in Nat, n = Len(H.at),
         NEW nx, NEW i, Permutes(n, nx, i)
  PROVE  LET X == Exchange(H, nx, i)
         IN  /\ Listed(X, T, M) /\ Len(X.at) = n
             /\ \A j \in 1..n : X.at[j] = H.at[Source(nx, i, j)]
             /\ KeepsOthers(H.id, X.id, T, M)
<1> DEFINE X == Exchange(H, nx, i)
           W == Visited(nx, i)
           src(j) == Source(nx, i, j)
<1>1. /\ H.at \in Seq(T) /\ H.id \in [T -> Nat] /\ DOMAIN H.at = 1..n
      /\ \A j \in 1..n : H.id[H.at[j]] = j /\ H.at[j] \in M /\ H.at[j] \in T
      /\ \A t \in M : t \in T /\ \E j \in 1..n : H.at[j] = t
  BY SlotsAreNumbers DEF Listed
<1>c. H.id \in [T -> Slots(T)] BY DEF Listed
<1>2. /\ W \subseteq 1..n
      /\ \A j \in 1..n : src(j) \in 1..n
      /\ \A j, k \in 1..n : src(j) = src(k) => j = k
      /\ \A j \in 1..n : \E k \in 1..n : src(k) = j
      /\ \A j \in 1..n : j \notin W => src(j) = j
      /\ \A j \in W : src(j) \in W
  BY DEF Permutes
<1> DEFINE moved(t) == \E j \in W : X.at[j] = t
<1>e. Exchanged(H, X, nx, i, n, T)
  <2>1. DOMAIN H.at = 1..n /\ H.id \in [T -> Nat] BY <1>1
  <2> QED BY <2>1, ExchangeParts
<1>3. /\ X.at = [j \in 1..n |-> X.at[j]] /\ X.id = [t \in T |-> X.id[t]]
      /\ \A j \in 1..n : X.at[j] = H.at[src(j)]
  BY <1>e DEF Exchanged
<1>a. \A t \in T : moved(t) => X.id[t] \in W /\ X.at[X.id[t]] = t
  BY <1>e DEF Exchanged
<1>b. \A t \in T : ~ moved(t) => X.id[t] = H.id[t]
  BY <1>e DEF Exchanged
<1> HIDE DEF X, W, src
<1>4. ASSUME NEW j \in 1..n
      PROVE  X.at[j] = H.at[src(j)] /\ X.at[j] \in T /\ X.at[j] \in M
  <2>1. src(j) \in 1..n BY <1>2
  <2>2. X.at[j] = H.at[src(j)] BY <1>3
  <2> QED BY <2>1, <2>2, <1>1
<1>5. X.at \in Seq(T) /\ Len(X.at) = n
  <2>1. X.at \in [1..n -> T] BY <1>3, <1>4
  <2> QED BY <2>1
<1>6. \A j, k \in 1..n : X.at[j] = X.at[k] => j = k
  <2> TAKE j, k \in 1..n
  <2> HAVE X.at[j] = X.at[k]
  <2>1. H.at[src(j)] = H.at[src(k)] BY <1>4
  <2>2. src(j) \in 1..n /\ src(k) \in 1..n BY <1>2
  <2>3. src(j) = src(k) BY <1>1, <2>1, <2>2
  <2> QED BY <1>2, <2>3
<1>7. ASSUME NEW j \in 1..n PROVE X.id[X.at[j]] = j
  <2>1. PICK u \in T : u = X.at[j] BY <1>4
  <2>2. CASE j \in W
    <3>1. moved(u) BY <2>1, <2>2
    <3>2. X.id[u] \in W /\ X.at[X.id[u]] = u BY <3>1, <1>a
    <3>3. X.id[u] \in 1..n /\ X.at[X.id[u]] = X.at[j] BY <3>2, <2>1, <1>2
    <3>4. X.id[u] = j BY <3>3, <1>6
    <3> QED BY <3>4, <2>1
  <2>3. CASE j \notin W
    <3>1. ~ moved(u) BY <2>1, <2>3, <1>2, <1>6
    <3>2. X.id[u] = H.id[u] BY <1>b, <3>1
    <3>3. u = H.at[j] BY <1>2, <1>4, <2>1, <2>3
    <3> QED BY <3>2, <3>3, <2>1, <1>1
  <2> QED BY <2>2, <2>3
<1>8. ASSUME NEW t \in M PROVE t \in T /\ \E j \in 1..n : X.at[j] = t
  <2>1. PICK k \in 1..n : H.at[k] = t BY <1>1
  <2>2. PICK j \in 1..n : src(j) = k BY <1>2
  <2> QED BY <2>1, <2>2, <1>4, <1>1
<1>9. X.id \in [T -> Slots(T)]
  <2>1. ASSUME NEW t \in T PROVE X.id[t] \in Slots(T)
    <3>1. CASE moved(t)
      <4>1. X.id[t] \in W BY <1>a, <3>1
      <4>2. PICK j \in 1..n : X.id[t] = j BY <4>1, <1>2
      <4>3. H.id[H.at[j]] = j /\ H.at[j] \in T BY <1>1
      <4> QED BY <4>2, <4>3, <1>c
    <3>2. CASE ~ moved(t)
      <4>1. X.id[t] = H.id[t] BY <1>b, <3>2
      <4> QED BY <4>1, <1>c
    <3> QED BY <3>1, <3>2
  <2> QED BY <2>1, <1>3
<1>10. KeepsOthers(H.id, X.id, T, M)
  <2>1. ASSUME NEW t \in T, t \notin M PROVE X.id[t] = H.id[t]
    <3>1. ~ moved(t) BY <1>2, <1>4, <2>1
    <3> QED BY <1>b, <3>1
  <2> QED BY <2>1 DEF KeepsOthers
<1>11. Listed(X, T, M) BY <1>4, <1>5, <1>7, <1>8, <1>9 DEF Listed
<1> QED BY <1>4, <1>5, <1>10, <1>11 DEF X, src
-----------------------------------------------------------------------------
LEMMA ParentBefore ==
  \A n \in Nat : \A j \in 2..n : Parent(j) \in 1..n /\ Parent(j) < j
BY DEF Parent

(* On the way to the root: every parent was first except that of i, and    *)
(* the parent of i comes before the children of i.  Then every parent is   *)
(* first.  w[j] is the key of the thread at position j.                    *)
LEMMA UpOrder ==
  ASSUME NEW n \in Nat, NEW w \in [1..n -> Int], NEW i \in 1..n,
         NEW nx \in [1..n -> 0..n],
         \A j \in 1..n : nx[j] = IF j = 1 \/ w[i] >= w[Parent(j)] THEN 0 ELSE Parent(j),
         \A j \in 2..n : j # i => w[Parent(j)] <= w[j],
         i # 1 => \A j \in 2..n : Parent(j) = i => w[Parent(i)] <= w[j]
  PROVE  /\ Permutes(n, nx, i)
         /\ \A j \in 2..n : w[Source(nx, i, Parent(j))] <= w[Source(nx, i, j)]
<1> DEFINE W == Visited(nx, i)
           src(j) == Source(nx, i, j)
           rk == [j \in 1..n |-> j]
<1>1. \A j \in 2..n : Parent(j) \in 1..n /\ Parent(j) < j BY ParentBefore
<1>2. /\ \A j \in 1..n : nx[j] = 0 => j = 1 \/ w[Parent(j)] <= w[i]
      /\ \A j \in 1..n : nx[j] # 0 => j \in 2..n /\ nx[j] = Parent(j) /\ w[i] < w[Parent(j)]
  <2> SUFFICES ASSUME NEW j \in 1..n
               PROVE  /\ nx[j] = 0 => j = 1 \/ w[Parent(j)] <= w[i]
                      /\ nx[j] # 0 => j \in 2..n /\ nx[j] = Parent(j) /\ w[i] < w[Parent(j)]
    OBVIOUS
  <2>1. CASE j = 1 BY <2>1
  <2>2. CASE j # 1
    <3>1. j \in 2..n BY <2>2
    <3>2. Parent(j) \in 1..n BY <1>1, <3>1
    <3>3. w[Parent(j)] \in Int /\ w[i] \in Int BY <3>2
    <3>4. nx[j] = IF w[i] >= w[Parent(j)] THEN 0 ELSE Parent(j) BY <2>2
    <3>5. CASE w[i] >= w[Parent(j)] BY <3>5, <3>4, <3>3
    <3>6. CASE ~ (w[i] >= w[Parent(j)]) BY <3>6, <3>4, <3>3, <3>1, <3>2
    <3> QED BY <3>5, <3>6
  <2> QED BY <2>1, <2>2
<1>3. /\ rk \in [1..n -> Int]
      /\ \A j, k \in 1..n : rk[j] = rk[k] => j = k
      /\ \A j \in 1..n : nx[j] # 0 => rk[nx[j]] < rk[j]
  <2>1. \A j \in 1..n : nx[j] # 0 => nx[j] \in 1..n /\ nx[j] < j BY <1>1, <1>2
  <2> QED BY <2>1
<1> HIDE DEF rk
<1>4. Permutes(n, nx, i) BY <1>3, WalkPermutes
<1>5. /\ \A j \in W : rk[j] <= rk[i]
      /\ \A j \in W : j # i => \E a \in W : nx[a] = j
  BY <1>3, WalkIsALine
<1>6. /\ W \subseteq 1..n /\ i \in W
      /\ \A j \in W : nx[j] # 0 => nx[j] \in W
  BY VisitedIsLeast
<1>7. /\ \A j \in 1..n : j \notin W => src(j) = j
      /\ \A j \in W : nx[j] = 0 => src(j) = i
      /\ \A j \in W : nx[j] # 0 => src(j) = nx[j]
  BY <1>6 DEF Source
<1>8. \A j \in W : j <= i BY <1>5, <1>6 DEF rk
<1> HIDE DEF W, src
<1>9. ASSUME NEW j \in W, j # i PROVE w[i] < w[j]
  <2>1. PICK a \in W : nx[a] = j BY <1>5, <1>9
  <2>2. a \in 1..n /\ nx[a] # 0 BY <1>6, <2>1, <1>9
  <2> QED BY <1>2, <2>1, <2>2
<1>10. \A j \in 1..n : w[j] \in Int OBVIOUS
<1>11. ASSUME NEW j \in 2..n PROVE w[src(Parent(j))] <= w[src(j)]
  <2>1. PICK p \in 1..n : p = Parent(j) /\ p < j BY <1>1
  <2>2. j \in 1..n /\ i \in 1..n BY <2>1
  <2>3. CASE j \in W /\ nx[j] = 0
    <3>1. src(j) = i /\ w[p] <= w[i] BY <2>3, <1>2, <1>7, <2>1
    <3>2. j <= i BY <2>3, <1>8
    <3>3. p # i BY <3>2, <2>1
    <3>4. p \notin W
      <4> SUFFICES ASSUME p \in W PROVE FALSE OBVIOUS
      <4>1. w[i] < w[p] BY <3>3, <1>9
      <4> QED BY <4>1, <3>1, <1>10
    <3>5. src(p) = p BY <3>4, <1>7
    <3> QED BY <3>1, <3>5, <2>1
  <2>4. CASE j \in W /\ nx[j] # 0
    <3>1. nx[j] = p /\ w[i] < w[p] /\ p \in W /\ src(j) = p
      BY <2>4, <1>2, <1>6, <1>7, <2>1, <2>2
    <3>2. j <= i BY <2>4, <1>8
    <3>3. p # i BY <3>2, <2>1
    <3>4. CASE nx[p] = 0
      <4>1. src(p) = i BY <3>1, <3>4, <1>7
      <4> QED BY <4>1, <3>1, <2>1, <1>10
    <3>5. CASE nx[p] # 0
      <4>1. src(p) = Parent(p) /\ p \in 2..n BY <3>1, <3>5, <1>2, <1>7
      <4>2. w[Parent(p)] <= w[p] BY <4>1, <3>3
      <4> QED BY <4>1, <4>2, <3>1, <2>1
    <3> QED BY <3>4, <3>5
  <2>5. CASE j \notin W
    <3>1. src(j) = j /\ j # i BY <2>5, <1>6, <1>7
    <3>2. w[p] <= w[j] BY <3>1, <2>1
    <3>3. CASE p \notin W
      <4>1. src(p) = p BY <3>3, <1>7
      <4> QED BY <4>1, <3>1, <3>2, <2>1
    <3>4. CASE p \in W /\ nx[p] = 0
      <4>1. src(p) = i BY <3>4, <1>7
      <4>2. w[i] <= w[p]
        <5>1. CASE p = i BY <5>1, <1>10
        <5>2. CASE p # i BY <5>2, <3>4, <1>9, <1>10
        <5> QED BY <5>1, <5>2
      <4>3. w[i] <= w[j] BY <4>2, <3>2, <1>10, <2>2
      <4> QED BY <4>1, <4>3, <3>1, <2>1
    <3>5. CASE p \in W /\ nx[p] # 0
      <4>1. src(p) = Parent(p) /\ p \in 2..n BY <3>5, <1>2, <1>7
      <4>2. Parent(p) \in 1..n BY <4>1, <1>1
      <4>3. w[Parent(p)] <= w[j]
        <5>1. CASE p = i
          <6>1. i # 1 BY <4>1, <5>1
          <6> QED BY <5>1, <6>1, <2>1
        <5>2. CASE p # i
          <6>1. w[Parent(p)] <= w[p] BY <5>2, <4>1
          <6>2. w[Parent(p)] \in Int /\ w[p] \in Int /\ w[j] \in Int BY <4>2, <2>2
          <6> QED BY <6>1, <6>2, <3>2
        <5> QED BY <5>1, <5>2
      <4> QED BY <4>1, <4>3, <3>1, <2>1
    <3> QED BY <3>3, <3>4, <3>5
  <2> QED BY <2>3, <2>4, <2>5
<1> QED BY <1>4, <1>11 DEF src

(* On the way to the leaves: every parent was first except i, which goes   *)
(* to its first child.                                                     *)
LEMMA DownOrder ==
  ASSUME NEW n \in Nat, NEW w \in [1..n -> Int], NEW i \in 1..n,
         NEW nx \in [1..n -> 0..n],
         \A j \in 1..n : nx[j] # 0 =>
           /\ nx[j] \in 2..n /\ Parent(nx[j]) = j /\ w[nx[j]] < w[i]
           /\ \A m \in 2..n : Parent(m) = j => w[nx[j]] <= w[m],
         \A j \in 1..n : nx[j] = 0 => \A m \in 2..n : Parent(m) = j => w[i] <= w[m],
         \A j \in 2..n : Parent(j) # i => w[Parent(j)] <= w[j],
         i # 1 => \A j \in 2..n : Parent(j) = i => w[Parent(i)] <= w[j]
  PROVE  /\ Permutes(n, nx, i)
         /\ \A j \in 2..n : w[Source(nx, i, Parent(j))] <= w[Source(nx, i, j)]
<1> DEFINE W == Visited(nx, i)
           src(j) == Source(nx, i, j)
           rk == [j \in 1..n |-> n - j]
<1>1. \A j \in 2..n : Parent(j) \in 1..n /\ Parent(j) < j BY ParentBefore
<1>3. /\ rk \in [1..n -> Int]
      /\ \A j, k \in 1..n : rk[j] = rk[k] => j = k
      /\ \A j \in 1..n : nx[j] # 0 => rk[nx[j]] < rk[j]
  <2>1. \A j \in 1..n : nx[j] # 0 => nx[j] \in 1..n /\ j < nx[j] BY <1>1
  <2> QED BY <2>1
<1> HIDE DEF rk
<1>4. Permutes(n, nx, i) BY <1>3, WalkPermutes
<1>5. /\ \A j \in W : rk[j] <= rk[i]
      /\ \A j \in W : j # i => \E a \in W : nx[a] = j
  BY <1>3, WalkIsALine
<1>6. /\ W \subseteq 1..n /\ i \in W
      /\ \A j \in W : nx[j] # 0 => nx[j] \in W
  BY VisitedIsLeast
<1>7. /\ \A j \in 1..n : j \notin W => src(j) = j
      /\ \A j \in W : nx[j] = 0 => src(j) = i
      /\ \A j \in W : nx[j] # 0 => src(j) = nx[j]
  BY <1>6 DEF Source
<1>8. ASSUME NEW j \in W PROVE i <= j
  <2>1. rk[j] <= rk[i] /\ j \in 1..n BY <1>5, <1>6
  <2>2. n - j <= n - i BY <2>1 DEF rk
  <2> QED BY <2>1, <2>2
<1> HIDE DEF W, src
<1>10. \A j \in 1..n : w[j] \in Int OBVIOUS
<1>11. ASSUME NEW j \in 2..n PROVE w[src(Parent(j))] <= w[src(j)]
  <2>1. PICK p \in 1..n : p = Parent(j) /\ p < j BY <1>1
  <2>2. j \in 1..n /\ i \in 1..n BY <2>1
  <2>3. CASE j \in W /\ j # i
    <3>1. PICK a \in W : nx[a] = j BY <2>3, <1>5
    <3>2. a \in 1..n /\ nx[a] # 0 BY <1>6, <3>1, <2>2
    <3>3. a = p /\ w[j] < w[i] BY <3>1, <3>2, <2>1
    <3>4. src(p) = j BY <3>1, <3>2, <3>3, <1>7
    <3>5. CASE nx[j] = 0
      <4>1. src(j) = i BY <2>3, <3>5, <1>7
      <4> QED BY <4>1, <3>3, <3>4, <2>1, <2>2, <1>10
    <3>6. CASE nx[j] # 0
      <4>1. src(j) = nx[j] /\ nx[j] \in 2..n /\ Parent(nx[j]) = j
        BY <2>2, <2>3, <3>6, <1>7
      <4>2. w[j] <= w[nx[j]] BY <4>1, <2>3
      <4> QED BY <4>1, <4>2, <3>4, <2>1
    <3> QED BY <3>5, <3>6
  <2>4. CASE j = i
    <3>1. p \notin W BY <2>4, <2>1, <1>8, <2>2
    <3>2. src(p) = p BY <3>1, <1>7
    <3>3. CASE nx[j] = 0
      <4>1. src(j) = i BY <2>4, <3>3, <1>6, <1>7
      <4>2. p # i BY <2>1, <2>4
      <4>3. w[p] <= w[j] BY <2>1, <4>2
      <4> QED BY <4>1, <4>3, <3>2, <2>1, <2>4
    <3>4. CASE nx[j] # 0
      <4>1. src(j) = nx[j] /\ nx[j] \in 2..n /\ Parent(nx[j]) = i
        BY <2>2, <2>4, <3>4, <1>6, <1>7
      <4>2. i # 1 BY <2>4
      <4>3. w[Parent(i)] <= w[nx[j]] BY <4>1, <4>2
      <4> QED BY <4>1, <4>3, <3>2, <2>1, <2>4
    <3> QED BY <3>3, <3>4
  <2>5. CASE j \notin W
    <3>1. src(j) = j BY <2>5, <2>2, <1>7
    <3>2. CASE p \notin W
      <4>1. src(p) = p /\ p # i BY <3>2, <1>6, <1>7
      <4> QED BY <4>1, <3>1, <2>1
    <3>3. CASE p \in W /\ nx[p] = 0
      <4>1. src(p) = i BY <3>3, <1>7
      <4> QED BY <4>1, <3>1, <3>3, <2>1
    <3>4. CASE p \in W /\ nx[p] # 0
      <4>1. src(p) = nx[p] BY <3>4, <1>7
      <4> QED BY <4>1, <3>1, <3>4, <2>1
    <3> QED BY <3>2, <3>3, <3>4
  <2> QED BY <2>3, <2>4, <2>5
<1> QED BY <1>4, <1>11 DEF src
-----------------------------------------------------------------------------
(* Thread t, at position i, may rise; it may fall.                         *)
MayRise(at, key, i) ==
  /\ \A j \in 2..Len(at) : j # i => key[at[Parent(j)]] <= key[at[j]]
  /\ i # 1 => \A j \in 2..Len(at) : Parent(j) = i => key[at[Parent(i)]] <= key[at[j]]
MayFall(at, key, i) ==
  /\ \A j \in 2..Len(at) : Parent(j) # i => key[at[Parent(j)]] <= key[at[j]]
  /\ i # 1 => \A j \in 2..Len(at) : Parent(j) = i => key[at[Parent(i)]] <= key[at[j]]

(* What a call leaves: the same members, in order.                         *)
Dealt(H, X, key, T, M) ==
  Listed(X, T, M) /\ HeapOrdered(X.at, key) /\ KeepsOthers(H.id, X.id, T, M)

LEMMA ListedFacts ==
  ASSUME NEW H, NEW T, NEW M, Listed(H, T, M)
  PROVE  /\ H.at \in Seq(T) /\ H.id \in [T -> Nat] /\ H.id \in [T -> Slots(T)]
         /\ Len(H.at) \in Nat /\ DOMAIN H.at = 1..Len(H.at)
         /\ \A j \in 1..Len(H.at) : H.at[j] \in T /\ H.at[j] \in M /\ H.id[H.at[j]] = j
         /\ \A t \in M : t \in T /\ H.id[t] \in 1..Len(H.at) /\ H.at[H.id[t]] = t
<1>1. /\ H.at \in Seq(T) /\ H.id \in [T -> Nat] /\ H.id \in [T -> Slots(T)]
      /\ Len(H.at) \in Nat /\ DOMAIN H.at = 1..Len(H.at)
  BY SlotsAreNumbers DEF Listed
<1>2. \A j \in 1..Len(H.at) : H.at[j] \in T /\ H.at[j] \in M /\ H.id[H.at[j]] = j
  BY <1>1 DEF Listed
<1>3. ASSUME NEW t \in M PROVE t \in T /\ H.id[t] \in 1..Len(H.at) /\ H.at[H.id[t]] = t
  <2>1. PICK j \in 1..Len(H.at) : H.at[j] = t BY DEF Listed
  <2>2. H.id[t] = j BY <2>1, <1>2
  <2>3. t \in T BY DEF Listed
  <2> QED BY <2>1, <2>2, <2>3
<1> QED BY <1>1, <1>2, <1>3

(* One more at the end of the array, wherever else heap_id changes.        *)
LEMMA ListedAppended ==
  ASSUME NEW T, IsFiniteSet(T), NEW M, NEW H, Listed(H, T, M),
         NEW t \in T, t \notin M,
         NEW jd, jd = [H.id EXCEPT ![t] = Len(H.at) + 1]
  PROVE  Listed([at |-> Append(H.at, t), id |-> jd], T, M \cup {t})
<1> DEFINE n == Len(H.at)
           A == Append(H.at, t)
           G == [at |-> A, id |-> jd]
<1>1. /\ H.at \in Seq(T) /\ H.id \in [T -> Slots(T)] /\ n \in Nat
      /\ \A j \in 1..n : H.at[j] \in T /\ H.at[j] \in M /\ H.id[H.at[j]] = j
      /\ \A u \in M : u \in T /\ H.id[u] \in 1..n /\ H.at[H.id[u]] = u
  BY ListedFacts
<1>2. /\ A \in Seq(T) /\ Len(A) = n + 1 /\ A[n + 1] = t
      /\ \A j \in 1..n : A[j] = H.at[j]
  BY <1>1
<1>4. G.at = A /\ G.id = jd OBVIOUS
<1> HIDE DEF A, n, G
<1>5. \A j \in 1..(n + 1) : j \in 1..n \/ j = n + 1 BY <1>1
<1>6. n + 1 \in Slots(T)
  <2> DEFINE f == [j \in 1..(n + 1) |-> A[j]]
  <2>1. \A j \in 1..(n + 1) : A[j] \in T BY <1>2
  <2>2. \A j, k \in 1..(n + 1) : A[j] = A[k] => j = k
    <3> SUFFICES ASSUME NEW j \in 1..(n + 1), NEW k \in 1..(n + 1), A[j] = A[k]
                 PROVE  j = k
      OBVIOUS
    <3>1. CASE j \in 1..n /\ k \in 1..n
      <4>1. H.at[j] = H.at[k] BY <3>1, <1>2
      <4> QED BY <3>1, <4>1, <1>1
    <3>2. CASE j = n + 1 /\ k \in 1..n
      <4>1. H.at[k] = t /\ H.at[k] \in M BY <3>2, <1>1, <1>2
      <4> QED BY <4>1
    <3>3. CASE k = n + 1 /\ j \in 1..n
      <4>1. H.at[j] = t /\ H.at[j] \in M BY <3>3, <1>1, <1>2
      <4> QED BY <4>1
    <3>4. CASE j = n + 1 /\ k = n + 1 BY <3>4
    <3> QED BY <3>1, <3>2, <3>3, <3>4, <1>5
  <2>3. f \in Injection(1..(n + 1), T) BY <2>1, <2>2 DEF Injection, IsInjective
  <2>4. Cardinality(1..(n + 1)) <= Cardinality(T) BY <2>3, FS_Injection
  <2>5. Cardinality(1..(n + 1)) = n + 1
    <3>1. 1 \in Int /\ n + 1 \in Int /\ ~ (1 > n + 1) BY <1>1
    <3>2. Cardinality(1..(n + 1)) = IF 1 > n + 1 THEN 0 ELSE (n + 1) - 1 + 1
      BY <3>1, FS_Interval
    <3> QED BY <3>1, <3>2
  <2>6. n + 1 \in Nat BY <1>1
  <2> QED BY <2>4, <2>5, <2>6 DEF Slots
<1>3. jd \in [T -> Slots(T)] /\ jd[t] = n + 1 /\ \A u \in T : u # t => jd[u] = H.id[u]
  BY <1>1, <1>6 DEF n
<1>7. ASSUME NEW j \in 1..(n + 1) PROVE A[j] \in M \cup {t} /\ jd[A[j]] = j
  <2>1. CASE j = n + 1 BY <2>1, <1>2, <1>3
  <2>2. CASE j \in 1..n
    <3>1. A[j] = H.at[j] /\ H.at[j] \in T /\ H.at[j] \in M /\ H.id[H.at[j]] = j
      BY <2>2, <1>1, <1>2
    <3>2. H.at[j] # t BY <3>1
    <3> QED BY <3>1, <3>2, <1>3
  <2> QED BY <2>1, <2>2, <1>5
<1>8. ASSUME NEW u \in M \cup {t} PROVE u \in T /\ \E j \in 1..(n + 1) : A[j] = u
  <2>1. CASE u = t
    <3>1. n + 1 \in 1..(n + 1) BY <1>1
    <3> QED BY <3>1, <2>1, <1>2
  <2>2. CASE u \in M
    <3>1. u \in T /\ H.id[u] \in 1..n /\ H.at[H.id[u]] = u BY <2>2, <1>1
    <3>2. H.id[u] \in 1..(n + 1) BY <3>1, <1>1
    <3> QED BY <3>1, <3>2, <1>2
  <2> QED BY <2>1, <2>2
<1> QED BY <1>2, <1>3, <1>4, <1>7, <1>8 DEF Listed, G, A

(* One less: the last one takes the place of t, which leaves.              *)
Shortened(H, A, jd, t, n, h, f, T, M) ==
  /\ n = Len(H.at) /\ h = H.id[t] /\ f = H.at[n]
  /\ A \in Seq(T) /\ Len(A) = n - 1
  /\ \A j \in 1..(n - 1) : A[j] = IF j = h THEN f ELSE H.at[j]
  /\ jd \in [T -> Slots(T)] /\ (f # t => jd[f] = h)
  /\ \A u \in M : u # t /\ u # f => jd[u] = H.id[u]

LEMMA ListedShortened ==
  ASSUME NEW T, NEW M, NEW H, Listed(H, T, M), NEW t \in M, NEW n, NEW h, NEW f,
         NEW A, NEW jd, Shortened(H, A, jd, t, n, h, f, T, M)
  PROVE  /\ n \in Nat \ {0} /\ h \in 1..n /\ f \in M
         /\ f = t => h = n
         /\ f # t => h \in 1..(n - 1)
         /\ Listed([at |-> A, id |-> jd], T, M \ {t})
<1> DEFINE G == [at |-> A, id |-> jd]
<1>1. /\ H.at \in Seq(T) /\ H.id \in [T -> Nat] /\ n \in Nat
      /\ \A j \in 1..n : H.at[j] \in T /\ H.at[j] \in M /\ H.id[H.at[j]] = j
      /\ \A u \in M : u \in T /\ H.id[u] \in 1..n /\ H.at[H.id[u]] = u
  BY ListedFacts DEF Shortened
<1>0. /\ h = H.id[t] /\ f = H.at[n] /\ A \in Seq(T) /\ Len(A) = n - 1
      /\ \A j \in 1..(n - 1) : A[j] = IF j = h THEN f ELSE H.at[j]
      /\ jd \in [T -> Slots(T)] /\ (f # t => jd[f] = h)
      /\ \A u \in M : u # t /\ u # f => jd[u] = H.id[u]
  BY DEF Shortened
<1>2. h \in 1..n /\ H.at[h] = t /\ t \in T /\ H.id[t] = h BY <1>0, <1>1
<1>3. n \in Nat \ {0} /\ n \in 1..n BY <1>1, <1>2
<1>4. f \in M /\ f \in T /\ H.id[f] = n /\ H.at[n] = f BY <1>0, <1>1, <1>3
<1>5. f = t => h = n BY <1>0, <1>4
<1>6. f # t => h \in 1..(n - 1) BY <1>2, <1>3, <1>4
<1>11. \A j \in 1..(n - 1) : j \in 1..n /\ j # n /\ A[j] = IF j = h THEN f ELSE H.at[j]
  BY <1>0, <1>3
<1>12. ASSUME NEW j \in 1..(n - 1) PROVE A[j] \in M \ {t} /\ jd[A[j]] = j
  <2>1. CASE j = h
    <3>1. f # t BY <2>1, <1>5, <1>11
    <3>2. A[j] = f BY <2>1, <1>11
    <3> QED BY <3>1, <3>2, <2>1, <1>0, <1>4
  <2>2. CASE j # h
    <3>1. A[j] = H.at[j] /\ j \in 1..n /\ j # n BY <2>2, <1>11
    <3>2. H.at[j] \in M /\ H.at[j] \in T /\ H.id[H.at[j]] = j BY <3>1, <1>1
    <3>3. H.at[j] # t /\ H.at[j] # f BY <3>1, <3>2, <2>2, <1>2, <1>4
    <3> QED BY <3>1, <3>2, <3>3, <1>0
  <2> QED BY <2>1, <2>2
<1>13. ASSUME NEW u \in M \ {t} PROVE u \in T /\ \E j \in 1..(n - 1) : A[j] = u
  <2>1. u \in T /\ H.id[u] \in 1..n /\ H.at[H.id[u]] = u BY <1>1
  <2>2. CASE u = f
    <3>1. h \in 1..(n - 1) BY <2>2, <1>6
    <3>2. A[h] = f BY <3>1, <1>11
    <3> QED BY <3>1, <3>2, <2>1, <2>2
  <2>3. CASE u # f
    <3>1. H.id[u] # n /\ H.id[u] # h BY <2>1, <2>3, <1>2, <1>4
    <3>2. H.id[u] \in 1..(n - 1) BY <3>1, <2>1, <1>3
    <3>3. A[H.id[u]] = u BY <3>1, <3>2, <2>1, <1>11
    <3> QED BY <3>2, <3>3, <2>1
  <2> QED BY <2>2, <2>3
<1>14. Listed(G, T, M \ {t}) BY <1>0, <1>12, <1>13 DEF Listed
<1> QED BY <1>2, <1>3, <1>4, <1>5, <1>6, <1>14

LEMMA KeysOf ==
  ASSUME NEW T, NEW key \in [T -> Int], NEW at \in Seq(T)
  PROVE  [j \in 1..Len(at) |-> key[at[j]]] \in [1..Len(at) -> Int]
OBVIOUS

LEMMA UpDealt ==
  ASSUME NEW T, NEW M, NEW key \in [T -> Int], NEW H, Listed(H, T, M),
         NEW t \in M, MayRise(H.at, key, H.id[t])
  PROVE  Dealt(H, UpDeal(H, key, t), key, T, M)
<1> DEFINE n == Len(H.at)
           i == H.id[t]
           w == [j \in 1..n |-> key[H.at[j]]]
           nx == UpNext(H.at, key, t)
           X == Exchange(H, nx, i)
<1>1. /\ H.at \in Seq(T) /\ H.id \in [T -> Nat] /\ n \in Nat /\ DOMAIN H.at = 1..n
      /\ \A j \in 1..n : H.at[j] \in T
      /\ i \in 1..n /\ H.at[i] = t
  BY ListedFacts
<1>2. w \in [1..n -> Int] BY <1>1, KeysOf
<1>3. \A j \in 2..n : Parent(j) \in 1..n /\ Parent(j) < j BY <1>1, ParentBefore
<1>b. /\ \A j \in 1..n : nx[j] = IF j = 1 \/ key[t] >= key[H.at[Parent(j)]]
                               THEN 0 ELSE Parent(j)
      /\ nx = [j \in 1..n |-> nx[j]]
  BY <1>1 DEF UpNext
<1>d. \A j \in 1..n : w[j] = key[H.at[j]] BY <1>1
<1> HIDE DEF w, nx
<1>4. ASSUME NEW j \in 1..n
      PROVE  /\ nx[j] = IF j = 1 \/ w[i] >= w[Parent(j)] THEN 0 ELSE Parent(j)
             /\ nx[j] \in 0..n
  <2>1. CASE j = 1
    <3>1. nx[j] = 0 BY <2>1, <1>b
    <3> QED BY <2>1, <3>1, <1>1
  <2>2. CASE j # 1
    <3>1. Parent(j) \in 1..n BY <2>2, <1>3
    <3>2. w[i] = key[t] /\ w[Parent(j)] = key[H.at[Parent(j)]] BY <3>1, <1>d, <1>1
    <3>3. nx[j] = IF w[i] >= w[Parent(j)] THEN 0 ELSE Parent(j) BY <2>2, <1>b, <3>2
    <3> QED BY <2>2, <3>1, <3>3
  <2> QED BY <2>1, <2>2
<1>5. nx \in [1..n -> 0..n] BY <1>4, <1>b
<1>6. /\ \A j \in 2..n : j # i => w[Parent(j)] <= w[j]
      /\ i # 1 => \A j \in 2..n : Parent(j) = i => w[Parent(i)] <= w[j]
  <2>1. \A j \in 2..n : j \in 1..n /\ w[j] = key[H.at[j]] /\ w[Parent(j)] = key[H.at[Parent(j)]]
    BY <1>1, <1>3, <1>d
  <2>2. i # 1 => i \in 2..n BY <1>1
  <2> QED BY <2>1, <2>2 DEF MayRise
<1>7. /\ Permutes(n, nx, i)
      /\ \A j \in 2..n : w[Source(nx, i, Parent(j))] <= w[Source(nx, i, j)]
  BY <1>1, <1>2, <1>4, <1>5, <1>6, UpOrder
<1>8. /\ Listed(X, T, M) /\ Len(X.at) = n
      /\ \A j \in 1..n : X.at[j] = H.at[Source(nx, i, j)]
      /\ KeepsOthers(H.id, X.id, T, M)
  BY <1>1, <1>7, ExchangeLists
<1>9. \A j \in 1..n : Source(nx, i, j) \in 1..n BY <1>7 DEF Permutes
<1>10. \A j \in 1..n : w[Source(nx, i, j)] = key[X.at[j]] BY <1>8, <1>9, <1>d
<1>11. HeapOrdered(X.at, key)
  <2>1. ASSUME NEW j \in 2..n PROVE key[X.at[Parent(j)]] <= key[X.at[j]]
    <3>1. j \in 1..n /\ Parent(j) \in 1..n BY <1>3
    <3>2. w[Source(nx, i, Parent(j))] <= w[Source(nx, i, j)] BY <1>7
    <3> QED BY <3>1, <3>2, <1>10
  <2> QED BY <2>1, <1>8 DEF HeapOrdered
<1>12. UpDeal(H, key, t) = X BY DEF UpDeal, nx
<1> QED BY <1>8, <1>11, <1>12 DEF Dealt

LEMMA ChildIsFirst ==
  ASSUME NEW T, NEW key \in [T -> Int], NEW at \in Seq(T),
         NEW n \in Nat, n = Len(at), NEW j \in 1..n
  PROVE  /\ 2 * j > n => \A m \in 2..n : Parent(m) # j
         /\ 2 * j <= n =>
              /\ Child(at, key, j) \in 2..n /\ Parent(Child(at, key, j)) = j
              /\ \A m \in 2..n : Parent(m) = j => key[at[Child(at, key, j)]] <= key[at[m]]
<1>1. 2 * j > n => \A m \in 2..n : Parent(m) # j BY DEF Parent
<1>2. ASSUME 2 * j <= n
      PROVE  /\ Child(at, key, j) \in 2..n /\ Parent(Child(at, key, j)) = j
             /\ \A m \in 2..n : Parent(m) = j => key[at[Child(at, key, j)]] <= key[at[m]]
  <2>1. \A m \in 2..n : Parent(m) = j => m = 2 * j \/ m = 2 * j + 1 BY DEF Parent
  <2>2. 2 * j \in 2..n /\ Parent(2 * j) = j BY <1>2 DEF Parent
  <2>3. Parent(2 * j + 1) = j BY DEF Parent
  <2>4. \A m \in 2..n : key[at[m]] \in Int OBVIOUS
  <2>5. CASE 2 * j + 1 > n
    <3>1. Child(at, key, j) = 2 * j BY <2>5 DEF Child
    <3>2. \A m \in 2..n : Parent(m) = j => m = 2 * j BY <2>1, <2>5
    <3> QED BY <3>1, <3>2, <2>2, <2>4
  <2>6. CASE 2 * j + 1 <= n
    <3>1. 2 * j + 1 \in 2..n BY <2>6
    <3>2. Child(at, key, j) = IF key[at[2 * j]] < key[at[2 * j + 1]] THEN 2 * j ELSE 2 * j + 1
      BY <2>6 DEF Child
    <3>3. key[at[2 * j]] \in Int /\ key[at[2 * j + 1]] \in Int BY <2>2, <2>4, <3>1
    <3>4. /\ key[at[Child(at, key, j)]] <= key[at[2 * j]]
          /\ key[at[Child(at, key, j)]] <= key[at[2 * j + 1]]
      BY <3>2, <3>3
    <3>5. Child(at, key, j) = 2 * j \/ Child(at, key, j) = 2 * j + 1 BY <3>2
    <3> QED BY <3>1, <3>4, <3>5, <2>1, <2>2, <2>3
  <2> QED BY <2>5, <2>6
<1> QED BY <1>1, <1>2

LEMMA DownDealt ==
  ASSUME NEW T, NEW M, NEW key \in [T -> Int], NEW H, Listed(H, T, M),
         NEW t \in M, MayFall(H.at, key, H.id[t])
  PROVE  Dealt(H, DownDeal(H, key, t), key, T, M)
<1> DEFINE n == Len(H.at)
           i == H.id[t]
           w == [j \in 1..n |-> key[H.at[j]]]
           nx == DownNext(H.at, key, t)
           X == Exchange(H, nx, i)
           c(j) == Child(H.at, key, j)
<1>1. /\ H.at \in Seq(T) /\ H.id \in [T -> Nat] /\ n \in Nat /\ DOMAIN H.at = 1..n
      /\ \A j \in 1..n : H.at[j] \in T
      /\ i \in 1..n /\ H.at[i] = t
  BY ListedFacts
<1>2. w \in [1..n -> Int] BY <1>1, KeysOf
<1>3. \A j \in 2..n : Parent(j) \in 1..n /\ Parent(j) < j BY <1>1, ParentBefore
<1>a. \A j \in 1..n :
        /\ 2 * j > n => \A m \in 2..n : Parent(m) # j
        /\ 2 * j <= n =>
             /\ c(j) \in 2..n /\ Parent(c(j)) = j
             /\ \A m \in 2..n : Parent(m) = j => key[H.at[c(j)]] <= key[H.at[m]]
  BY <1>1, ChildIsFirst
<1>b. \A j \in 1..n : nx[j] = IF 2 * j > n \/ w[i] <= key[H.at[c(j)]] THEN 0 ELSE c(j)
  BY <1>1 DEF DownNext
<1>c. nx = [j \in 1..n |-> nx[j]] BY <1>1 DEF DownNext
<1>d. \A j \in 1..n : w[j] = key[H.at[j]] BY <1>1
<1> HIDE DEF w, nx, c
<1>4. ASSUME NEW j \in 1..n
      PROVE  /\ nx[j] # 0 =>
                  /\ nx[j] \in 2..n /\ Parent(nx[j]) = j /\ w[nx[j]] < w[i]
                  /\ \A m \in 2..n : Parent(m) = j => w[nx[j]] <= w[m]
             /\ nx[j] = 0 => \A m \in 2..n : Parent(m) = j => w[i] <= w[m]
             /\ nx[j] \in 0..n
  <2>0. \A m \in 2..n : m \in 1..n /\ w[m] = key[H.at[m]] /\ w[m] \in Int /\ w[i] \in Int
    BY <1>1, <1>2, <1>d
  <2>1. CASE 2 * j > n
    <3>1. nx[j] = 0 BY <2>1, <1>b
    <3>2. \A m \in 2..n : Parent(m) # j BY <2>1, <1>a
    <3> QED BY <3>1, <3>2, <1>1
  <2>2. CASE 2 * j <= n
    <3>1. /\ c(j) \in 2..n /\ Parent(c(j)) = j
          /\ \A m \in 2..n : Parent(m) = j => w[c(j)] <= w[m]
      BY <2>2, <1>a, <2>0
    <3>2. w[c(j)] \in Int /\ w[i] \in Int /\ w[c(j)] = key[H.at[c(j)]] BY <3>1, <2>0
    <3>3. CASE w[i] <= w[c(j)]
      <4>1. nx[j] = 0 BY <3>3, <1>b, <3>2
      <4>2. ASSUME NEW m \in 2..n, Parent(m) = j PROVE w[i] <= w[m]
        BY <4>2, <3>1, <3>2, <3>3, <2>0
      <4> QED BY <4>1, <4>2, <1>1
    <3>4. CASE ~ (w[i] <= w[c(j)])
      <4>1. nx[j] = c(j) /\ j \in Nat
        <5>1. ~ (2 * j > n) BY <2>2, <1>1
        <5> QED BY <3>4, <1>b, <3>2, <5>1
      <4>2. w[nx[j]] < w[i] BY <4>1, <3>2, <3>4
      <4>3. nx[j] # 0 /\ nx[j] \in 0..n BY <4>1, <3>1
      <4> QED BY <4>1, <4>2, <4>3, <3>1
    <3> QED BY <3>3, <3>4
  <2> QED BY <2>1, <2>2, <1>1
<1>5. nx \in [1..n -> 0..n] BY <1>4, <1>c
<1>6. /\ \A j \in 2..n : Parent(j) # i => w[Parent(j)] <= w[j]
      /\ i # 1 => \A j \in 2..n : Parent(j) = i => w[Parent(i)] <= w[j]
  <2>1. \A j \in 2..n : j \in 1..n /\ w[j] = key[H.at[j]] /\ w[Parent(j)] = key[H.at[Parent(j)]]
    BY <1>1, <1>3, <1>d
  <2>2. i # 1 => i \in 2..n BY <1>1
  <2> QED BY <2>1, <2>2 DEF MayFall
<1>7. /\ Permutes(n, nx, i)
      /\ \A j \in 2..n : w[Source(nx, i, Parent(j))] <= w[Source(nx, i, j)]
  BY <1>1, <1>2, <1>4, <1>5, <1>6, DownOrder
<1>8. /\ Listed(X, T, M) /\ Len(X.at) = n
      /\ \A j \in 1..n : X.at[j] = H.at[Source(nx, i, j)]
      /\ KeepsOthers(H.id, X.id, T, M)
  BY <1>1, <1>7, ExchangeLists
<1>9. \A j \in 1..n : Source(nx, i, j) \in 1..n BY <1>7 DEF Permutes
<1>10. \A j \in 1..n : w[Source(nx, i, j)] = key[X.at[j]] BY <1>8, <1>9, <1>d
<1>11. HeapOrdered(X.at, key)
  <2>1. ASSUME NEW j \in 2..n PROVE key[X.at[Parent(j)]] <= key[X.at[j]]
    <3>1. j \in 1..n /\ Parent(j) \in 1..n BY <1>3
    <3>2. w[Source(nx, i, Parent(j))] <= w[Source(nx, i, j)] BY <1>7
    <3> QED BY <3>1, <3>2, <1>10
  <2> QED BY <2>1, <1>8 DEF HeapOrdered
<1>12. DownDeal(H, key, t) = X BY DEF DownDeal, nx
<1> QED BY <1>8, <1>11, <1>12 DEF Dealt
-----------------------------------------------------------------------------
(* An ordered heap of exactly the members of M.                            *)
HeapOf(H, key, T, M) == Listed(H, T, M) /\ HeapOrdered(H.at, key)

LEMMA OrderedFacts ==
  ASSUME NEW T, NEW M, NEW key \in [T -> Int], NEW H, HeapOf(H, key, T, M)
  PROVE  /\ \A j \in 2..Len(H.at) : key[H.at[Parent(j)]] <= key[H.at[j]]
         /\ \A j \in 1..Len(H.at) : key[H.at[j]] \in Int
  BY ListedFacts DEF HeapOf, HeapOrdered

(* HeapInsert adds t.                                                      *)
LEMMA HeapInserted ==
  ASSUME NEW T, IsFiniteSet(T), NEW M, NEW key \in [T -> Int], NEW H,
         HeapOf(H, key, T, M), NEW t \in T, t \notin M
  PROVE  /\ HeapOf(HeapInsert(H, key, t), key, T, M \cup {t})
         /\ KeepsOthers(H.id, HeapInsert(H, key, t).id, T, M \cup {t})
<1> DEFINE n == Len(H.at)
           A == Append(H.at, t)
           D == [H.id EXCEPT ![t] = n + 1]
           G == [at |-> A, id |-> D]
           X == UpDeal(G, key, t)
<1>1. /\ H.at \in Seq(T) /\ H.id \in [T -> Nat] /\ n \in Nat
      /\ \A j \in 1..n : H.at[j] \in T /\ H.at[j] \in M /\ H.id[H.at[j]] = j
      /\ \A u \in M : u \in T /\ H.id[u] \in 1..n /\ H.at[H.id[u]] = u
  BY ListedFacts DEF HeapOf
<1>2. /\ A \in Seq(T) /\ Len(A) = n + 1 /\ A[n + 1] = t
      /\ \A j \in 1..n : A[j] = H.at[j]
  BY <1>1
<1>3. D[t] = n + 1 /\ \A u \in T : u # t => D[u] = H.id[u]
  BY <1>1
<1>4. G.at = A /\ G.id = D OBVIOUS
<1>6. Listed(G, T, M \cup {t}) BY ListedAppended DEF HeapOf
<1> HIDE DEF A, D, G
<1>7. MayRise(G.at, key, G.id[t])
  <2>1. G.at = A /\ G.id[t] = n + 1 /\ Len(A) = n + 1 BY <1>2, <1>3, <1>4
  <2>2. ASSUME NEW j \in 2..(n + 1), j # n + 1 PROVE key[A[Parent(j)]] <= key[A[j]]
    <3>1. j \in 2..n BY <2>2, <1>1
    <3>2. Parent(j) \in 1..n /\ j \in 1..n BY <3>1, <1>1, ParentBefore
    <3>3. key[H.at[Parent(j)]] <= key[H.at[j]] BY <3>1, OrderedFacts
    <3> QED BY <3>2, <3>3, <1>2
  <2>3. ASSUME NEW j \in 2..(n + 1), Parent(j) = n + 1 PROVE FALSE
    <3>1. Parent(j) < j BY <1>1, ParentBefore, n + 1 \in Nat
    <3> QED BY <3>1, <2>3, <1>1
  <2> QED BY <2>1, <2>2, <2>3 DEF MayRise
<1>8. Dealt(G, X, key, T, M \cup {t})
  <2>1. t \in M \cup {t} OBVIOUS
  <2> QED BY <2>1, <1>6, <1>7, UpDealt
<1>9. HeapInsert(H, key, t) = X BY DEF HeapInsert, G, A, D
<1> HIDE DEF X
<1>10. Listed(X, T, M \cup {t}) /\ HeapOrdered(X.at, key)
  BY <1>8 DEF Dealt
<1>11. KeepsOthers(H.id, X.id, T, M \cup {t})
  <2>1. ASSUME NEW u \in T, u \notin M \cup {t} PROVE X.id[u] = H.id[u]
    <3>1. X.id[u] = D[u] BY <1>4, <1>8, <2>1 DEF Dealt, KeepsOthers
    <3> QED BY <3>1, <1>3, <2>1
  <2> QED BY <2>1 DEF KeepsOthers
<1> QED BY <1>9, <1>10, <1>11 DEF HeapOf

(* What HeapRemove leaves before the filler is dealt: position h has it.   *)
Hole(H, G, t, n, h, f, T, M) ==
  /\ n \in Nat \ {0} /\ h \in 1..n /\ f \in M /\ (f = t => h = n)
  /\ Listed(G, T, M \ {t}) /\ KeepsOthers(H.id, G.id, T, M)
  /\ Len(G.at) = n - 1 /\ (f # t => G.id[f] = h /\ h <= n - 1)
  /\ \A j \in 1..(n - 1) : G.at[j] = IF j = h THEN f ELSE H.at[j]

LEMMA HeapHole ==
  ASSUME NEW T, NEW M, NEW key \in [T -> Int], NEW H, HeapOf(H, key, T, M),
         NEW t \in M, NEW n, n = Len(H.at), NEW h, h = H.id[t], NEW f, f = H.at[n]
  PROVE  Hole(H, [at |-> SubSeq([H.at EXCEPT ![h] = f, ![n] = t], 1, n - 1),
                  id |-> [H.id EXCEPT ![t] = n, ![f] = h]], t, n, h, f, T, M)
<1> DEFINE B == [H.at EXCEPT ![h] = f, ![n] = t]
           A == SubSeq(B, 1, n - 1)
           D == [H.id EXCEPT ![t] = n, ![f] = h]
           G == [at |-> A, id |-> D]
<1>1. /\ H.at \in Seq(T) /\ H.id \in [T -> Slots(T)] /\ n \in Nat
      /\ \A j \in 1..n : H.at[j] \in T /\ H.at[j] \in M /\ H.id[H.at[j]] = j
      /\ \A u \in M : u \in T /\ H.id[u] \in 1..n /\ H.at[H.id[u]] = u
      /\ Listed(H, T, M)
  BY ListedFacts DEF HeapOf
<1>2. h \in 1..n /\ H.at[h] = t /\ t \in T BY <1>1
<1>3. n \in Nat \ {0} /\ n \in 1..n BY <1>1, <1>2
<1>4. f \in M /\ f \in T /\ H.id[f] = n BY <1>1, <1>3
<1>5. f = t => h = n BY <1>4
<1>7. B \in Seq(T) /\ Len(B) = n /\ \A j \in 1..n : j # n => B[j] = IF j = h THEN f ELSE H.at[j]
  BY <1>1, <1>2, <1>3, <1>4
<1>8. A \in Seq(T) /\ Len(A) = n - 1 /\ \A j \in 1..(n - 1) : A[j] = B[j]
  <2> HIDE DEF B
  <2> QED BY <1>7, <1>3
<1>9. /\ D \in [T -> Slots(T)] /\ D[f] = h
      /\ \A u \in T : u # t /\ u # f => D[u] = H.id[u]
  <2>1. n \in Slots(T) /\ h \in Slots(T) BY <1>1, <1>2, <1>4
  <2> QED BY <2>1, <1>1, <1>2, <1>4, <1>5
<1>10. G.at = A /\ G.id = D OBVIOUS
<1> HIDE DEF A, B, D
<1>11. \A j \in 1..(n - 1) : A[j] = IF j = h THEN f ELSE H.at[j]
  BY <1>3, <1>7, <1>8
<1>12. \A u \in M : u # t /\ u # f => D[u] = H.id[u] BY <1>1, <1>9
<1>13. Shortened(H, A, D, t, n, h, f, T, M)
  <2>1. A \in Seq(T) /\ Len(A) = n - 1 /\ D \in [T -> Slots(T)] /\ (f # t => D[f] = h)
    BY <1>8, <1>9
  <2> QED BY <2>1, <1>11, <1>12 DEF Shortened
<1>14. (f # t => h \in 1..(n - 1)) /\ Listed(G, T, M \ {t})
  BY <1>1, <1>13, ListedShortened
<1> HIDE DEF G
<1>15. KeepsOthers(H.id, G.id, T, M) BY <1>4, <1>9, <1>10 DEF KeepsOthers
<1>16. /\ Len(G.at) = n - 1 /\ (f # t => G.id[f] = h /\ h <= n - 1)
       /\ \A j \in 1..(n - 1) : G.at[j] = IF j = h THEN f ELSE H.at[j]
  <2>1. f # t => h <= n - 1 BY <1>14, <1>3
  <2> QED BY <2>1, <1>8, <1>9, <1>10, <1>11
<1> QED BY <1>2, <1>3, <1>4, <1>5, <1>14, <1>15, <1>16 DEF G, A, B, D, Hole
(* HeapRemove takes t out: the filler goes where it may.                   *)
LEMMA HeapRemoved ==
  ASSUME NEW T, NEW M, NEW key \in [T -> Int], NEW H, HeapOf(H, key, T, M),
         NEW t \in M
  PROVE  /\ HeapOf(HeapRemove(H, key, t), key, T, M \ {t})
         /\ KeepsOthers(H.id, HeapRemove(H, key, t).id, T, M)
<1> DEFINE n == Len(H.at)
           h == H.id[t]
           f == H.at[n]
           N == M \ {t}
           X == HeapRemove(H, key, t)
<1> DEFINE G == [at |-> SubSeq([H.at EXCEPT ![h] = f, ![n] = t], 1, n - 1),
                 id |-> [H.id EXCEPT ![t] = n, ![f] = h]]
<1>0. Hole(H, G, t, n, h, f, T, M) BY HeapHole
<1>2. X = IF key[f] = key[t] THEN G
          ELSE IF key[f] < key[t] THEN UpDeal(G, key, f)
          ELSE DownDeal(G, key, f)
  BY Zenon DEF HeapRemove
<1> HIDE DEF G
<1>1. /\ n \in Nat \ {0} /\ h \in 1..n /\ f \in M /\ (f = t => h = n)
      /\ Listed(G, T, N) /\ KeepsOthers(H.id, G.id, T, M)
      /\ Len(G.at) = n - 1 /\ (f # t => G.id[f] = h /\ h <= n - 1)
      /\ \A j \in 1..(n - 1) : G.at[j] = IF j = h THEN f ELSE H.at[j]
  BY <1>0 DEF Hole
<1>3. /\ \A j \in 2..n : key[H.at[Parent(j)]] <= key[H.at[j]]
      /\ \A j \in 1..n : key[H.at[j]] \in Int
  BY OrderedFacts
<1>4. H.at[h] = t /\ key[t] \in Int /\ key[f] \in Int
  <2>1. H.at[h] = t /\ n \in 1..n BY <1>1, ListedFacts DEF HeapOf
  <2> QED BY <2>1, <1>1, <1>3
<1>5. \A j \in 2..n : Parent(j) \in 1..n /\ Parent(j) < j BY <1>1, ParentBefore
<1> HIDE DEF n, h, f, N, X
<1> DEFINE before == h \in 2..n => key[H.at[Parent(h)]] <= key[t]
           after == \A j \in 2..(n - 1) : Parent(j) = h => key[t] <= key[H.at[j]]
           rest == \A j \in 2..(n - 1) : j # h /\ Parent(j) # h => key[G.at[Parent(j)]] <= key[G.at[j]]
<1>6. \A j \in 2..(n - 1) : /\ j \in 2..n /\ j \in 1..(n - 1) /\ Parent(j) \in 1..(n - 1)
                            /\ Parent(j) < j
  BY <1>1, <1>5
<1>7. before BY <1>3, <1>4
<1>8. after BY <1>3, <1>4, <1>6
<1>9. rest
  <2> SUFFICES ASSUME NEW j \in 2..(n - 1), j # h, Parent(j) # h
               PROVE key[G.at[Parent(j)]] <= key[G.at[j]]
    OBVIOUS
  <2>1. G.at[Parent(j)] = H.at[Parent(j)] /\ G.at[j] = H.at[j] BY <1>1, <1>6
  <2> QED BY <2>1, <1>3, <1>6
<1>10. ASSUME NEW j \in 2..(n - 1), Parent(j) = h
       PROVE  j # h /\ G.at[j] = H.at[j] /\ G.at[h] = f /\ key[H.at[j]] \in Int
  <2>1. j \in 1..(n - 1) /\ j \in 2..n /\ h \in 1..(n - 1) /\ h < j BY <1>6, <1>10
  <2>2. j \in 1..n /\ j # h BY <2>1, <1>1
  <2>3. key[H.at[j]] \in Int BY <2>2, <1>3
  <2> QED BY <2>1, <2>2, <2>3, <1>1
<1>11. ASSUME h \in 2..(n - 1)
       PROVE  /\ Parent(h) # h /\ Parent(h) \in 1..(n - 1)
              /\ G.at[h] = f /\ G.at[Parent(h)] = H.at[Parent(h)]
              /\ key[H.at[Parent(h)]] \in Int /\ key[H.at[Parent(h)]] <= key[t]
  <2>1. h \in 2..n /\ h \in 1..(n - 1) /\ Parent(h) \in 1..(n - 1) /\ Parent(h) < h
    BY <1>6, <1>11
  <2>2. Parent(h) # h /\ Parent(h) \in 1..n BY <2>1, <1>5
  <2> QED BY <2>1, <2>2, <1>1, <1>3, <1>7
<1> HIDE DEF before, after, rest
<1>12. ASSUME NEW j \in 2..(n - 1) PROVE j = h \/ Parent(j) = h \/ key[G.at[Parent(j)]] <= key[G.at[j]]
  BY <1>9 DEF rest
<1>13. ASSUME h # 1, NEW j \in 2..(n - 1), Parent(j) = h
       PROVE  key[G.at[Parent(h)]] <= key[G.at[j]]
  <2>1. h \in 2..(n - 1) BY <1>13, <1>1, <1>6
  <2>2. key[H.at[Parent(h)]] <= key[t] /\ key[H.at[Parent(h)]] \in Int BY <2>1, <1>11
  <2>3. key[t] <= key[H.at[j]] BY <1>8, <1>13 DEF after
  <2> QED BY <2>1, <2>2, <2>3, <1>4, <1>10, <1>11, <1>13
<1>14. CASE key[f] = key[t]
  <2>1. X = G BY <1>14, <1>2
  <2>2. ASSUME NEW j \in 2..(n - 1) PROVE key[G.at[Parent(j)]] <= key[G.at[j]]
    <3>1. CASE j = h BY <3>1, <2>2, <1>11, <1>14
    <3>2. CASE Parent(j) = h
      <4>1. key[t] <= key[H.at[j]] BY <3>2, <1>8 DEF after
      <4> QED BY <4>1, <3>2, <1>10, <1>14
    <3> QED BY <3>1, <3>2, <1>12
  <2>3. HeapOrdered(G.at, key) BY <2>2, <1>1 DEF HeapOrdered
  <2> QED BY <2>1, <2>3, <1>1 DEF HeapOf, X, N
<1>15. CASE key[f] # key[t]
  <2>1. /\ f # t /\ f \in N /\ G.id[f] = h /\ h \in 1..(n - 1)
        /\ Len(G.at) = n - 1 /\ Listed(G, T, N) /\ KeepsOthers(H.id, G.id, T, M)
    BY <1>1, <1>15 DEF N
  <2>2. Dealt(G, X, key, T, N)
    <3>1. CASE key[f] < key[t]
      <4>1. ASSUME NEW j \in 2..(n - 1), j # h PROVE key[G.at[Parent(j)]] <= key[G.at[j]]
        <5>1. CASE Parent(j) = h
          <6>1. key[t] <= key[H.at[j]] BY <5>1, <1>8 DEF after
          <6>2. key[f] <= key[H.at[j]] BY <6>1, <3>1, <1>4, <1>10, <5>1
          <6> QED BY <6>2, <5>1, <1>10
        <5> QED BY <4>1, <5>1, <1>12
      <4>2. MayRise(G.at, key, G.id[f]) BY <4>1, <1>13, <2>1 DEF MayRise
      <4>3. Dealt(G, UpDeal(G, key, f), key, T, N) BY <4>2, <2>1, UpDealt
      <4> QED BY <4>3, <3>1, <1>2, <1>15
    <3>2. CASE key[f] > key[t]
      <4>1. ASSUME NEW j \in 2..(n - 1), Parent(j) # h PROVE key[G.at[Parent(j)]] <= key[G.at[j]]
        <5>1. CASE j = h
          <6>1. key[H.at[Parent(h)]] <= key[f] BY <5>1, <4>1, <1>11, <1>4, <3>2
          <6> QED BY <6>1, <5>1, <4>1, <1>11
        <5> QED BY <4>1, <5>1, <1>12
      <4>2. MayFall(G.at, key, G.id[f]) BY <4>1, <1>13, <2>1 DEF MayFall
      <4>3. Dealt(G, DownDeal(G, key, f), key, T, N) BY <4>2, <2>1, DownDealt
      <4>4. ~ (key[f] < key[t]) BY <3>2, <1>4
      <4> QED BY <4>3, <4>4, <1>2, <1>15
    <3> QED BY <3>1, <3>2, <1>4, <1>15
  <2>3. Listed(X, T, N) /\ HeapOrdered(X.at, key) /\ KeepsOthers(G.id, X.id, T, N)
    BY <2>2 DEF Dealt
  <2>4. KeepsOthers(H.id, X.id, T, M) BY <2>1, <2>3 DEF KeepsOthers, N
  <2> QED BY <2>3, <2>4 DEF HeapOf, X, N
<1> QED BY <1>14, <1>15

(* Another thread in the place of the one at position h.                   *)
Replaces(H, h, t, jd, T, M) ==
  /\ h \in 1..Len(H.at) /\ t \in T /\ t \notin M
  /\ jd \in [T -> Slots(T)] /\ jd[t] = h
  /\ \A u \in M : u # H.at[h] => jd[u] = H.id[u]
InPlace(H, h, t, jd) == [at |-> [H.at EXCEPT ![h] = t], id |-> jd]
Replaced(H, G, h, t, key, T, M) ==
  /\ Listed(G, T, (M \ {H.at[h]}) \cup {t}) /\ G.id[t] = h
  /\ key[t] <= key[H.at[h]] => MayRise(G.at, key, h)
  /\ key[t] >= key[H.at[h]] => MayFall(G.at, key, h)
  /\ h = 1 /\ (\A u \in M : key[t] <= key[u]) => HeapOrdered(G.at, key)

LEMMA HeapReplaced ==
  ASSUME NEW T, NEW M, NEW key \in [T -> Int], NEW H, HeapOf(H, key, T, M),
         NEW h, NEW t, NEW jd, Replaces(H, h, t, jd, T, M),
         NEW G, G = InPlace(H, h, t, jd)
  PROVE  Replaced(H, G, h, t, key, T, M)
<1> USE DEF Replaces
<1> DEFINE n == Len(H.at)
           o == H.at[h]
           A == [H.at EXCEPT ![h] = t]
           N == (M \ {o}) \cup {t}
<1>1. /\ H.at \in Seq(T) /\ H.id \in [T -> Nat] /\ n \in Nat
      /\ \A j \in 1..n : H.at[j] \in T /\ H.at[j] \in M /\ H.id[H.at[j]] = j
      /\ \A u \in M : u \in T /\ H.id[u] \in 1..n /\ H.at[H.id[u]] = u
  BY ListedFacts DEF HeapOf
<1>2. /\ A \in Seq(T) /\ Len(A) = n
      /\ \A j \in 1..n : A[j] = IF j = h THEN t ELSE H.at[j]
  BY <1>1
<1>3. G.at = A /\ G.id = jd BY DEF InPlace
<1>4. /\ \A j \in 2..n : key[H.at[Parent(j)]] <= key[H.at[j]]
      /\ \A j \in 1..n : key[H.at[j]] \in Int
  BY OrderedFacts
<1>5. \A j \in 2..n : j \in 1..n /\ Parent(j) \in 1..n /\ Parent(j) < j
  <2> HIDE DEF n
  <2>1. \A j \in 2..n : Parent(j) \in 1..n /\ Parent(j) < j BY <1>1, ParentBefore
  <2> QED BY <2>1, <1>1
<1>6. key[t] \in Int /\ key[o] \in Int BY <1>4
<1>7. \A j \in 2..n : Parent(j) = h => j # h /\ key[o] <= key[H.at[j]]
  BY <1>4, <1>5
<1> HIDE DEF n, A, o, N
<1>8. Listed(G, T, N)
  <2>1. ASSUME NEW j \in 1..n PROVE A[j] \in N /\ jd[A[j]] = j
    <3>1. CASE j = h BY <3>1, <1>2 DEF N
    <3>2. CASE j # h
      <4>1. A[j] = H.at[j] /\ H.at[j] \in M /\ H.at[j] \in T /\ H.id[H.at[j]] = j
        BY <3>2, <1>1, <1>2
      <4>2. H.at[j] # o BY <4>1, <3>2, <1>1 DEF o, n
      <4>3. jd[H.at[j]] = H.id[H.at[j]] BY <4>1, <4>2 DEF o
      <4> QED BY <4>1, <4>2, <4>3 DEF N
    <3> QED BY <3>1, <3>2
  <2>2. ASSUME NEW u \in N PROVE u \in T /\ \E j \in 1..n : A[j] = u
    <3>1. CASE u = t
      <4>1. h \in 1..n BY DEF n
      <4> QED BY <4>1, <3>1, <1>2
    <3>2. CASE u \in M /\ u # o
      <4>1. u \in T /\ H.id[u] \in 1..n /\ H.at[H.id[u]] = u BY <3>2, <1>1
      <4>2. H.id[u] # h BY <4>1, <3>2 DEF o
      <4>3. A[H.id[u]] = u BY <4>1, <4>2, <1>2
      <4> QED BY <4>1, <4>3
    <3> QED BY <3>1, <3>2 DEF N
  <2> QED BY <2>1, <2>2, <1>2, <1>3 DEF Listed
<1>9. G.id[t] = h BY <1>3
<1>10. ASSUME NEW j \in 2..n PROVE A[j] = (IF j = h THEN t ELSE H.at[j])
                                   /\ A[Parent(j)] = (IF Parent(j) = h THEN t ELSE H.at[Parent(j)])
  BY <1>2, <1>5
<1>11. h # 1 => \A j \in 2..n : Parent(j) = h => key[A[Parent(h)]] <= key[A[j]]
  <2> SUFFICES ASSUME h # 1, NEW j \in 2..n, Parent(j) = h
               PROVE  key[A[Parent(h)]] <= key[A[j]]
    OBVIOUS
  <2>1. h \in 2..n BY DEF n
  <2>2. key[H.at[Parent(h)]] <= key[o] /\ key[H.at[Parent(h)]] \in Int BY <2>1, <1>4, <1>5 DEF o
  <2>3. j # h /\ key[o] <= key[H.at[j]] BY <1>7
  <2>4. Parent(h) # h BY <2>1, <1>5
  <2>5. A[j] = H.at[j] /\ A[Parent(h)] = H.at[Parent(h)] BY <2>1, <2>3, <2>4, <1>10
  <2>6. key[H.at[j]] \in Int BY <1>4, <1>5
  <2> QED BY <2>2, <2>3, <2>5, <2>6, <1>6
<1>12. ASSUME NEW j \in 2..n, j # h, Parent(j) # h PROVE key[A[Parent(j)]] <= key[A[j]]
  BY <1>4, <1>10, <1>12
<1>13. ASSUME key[t] <= key[o] PROVE MayRise(A, key, h)
  <2>1. ASSUME NEW j \in 2..n, j # h PROVE key[A[Parent(j)]] <= key[A[j]]
    <3>1. CASE Parent(j) = h
      <4>1. A[j] = H.at[j] /\ A[Parent(j)] = t BY <3>1, <2>1, <1>10
      <4>2. key[o] <= key[H.at[j]] /\ key[H.at[j]] \in Int BY <3>1, <1>7, <1>4, <1>5
      <4> QED BY <4>1, <4>2, <1>6, <1>13
    <3> QED BY <3>1, <2>1, <1>12
  <2> QED BY <2>1, <1>2, <1>11 DEF MayRise
<1>14. ASSUME key[t] >= key[o] PROVE MayFall(A, key, h)
  <2>1. ASSUME NEW j \in 2..n, Parent(j) # h PROVE key[A[Parent(j)]] <= key[A[j]]
    <3>1. CASE j = h
      <4>1. A[j] = t /\ A[Parent(j)] = H.at[Parent(j)] BY <3>1, <2>1, <1>10
      <4>2. key[H.at[Parent(j)]] <= key[o] /\ key[H.at[Parent(j)]] \in Int
        BY <3>1, <1>4, <1>5 DEF o
      <4> QED BY <4>1, <4>2, <1>6, <1>14
    <3> QED BY <3>1, <2>1, <1>12
  <2> QED BY <2>1, <1>2, <1>11 DEF MayFall
<1>15. ASSUME h = 1, \A u \in M : key[t] <= key[u] PROVE HeapOrdered(A, key)
  <2>1. ASSUME NEW j \in 2..n PROVE key[A[Parent(j)]] <= key[A[j]]
    <3>1. j # h BY <1>15
    <3>2. CASE Parent(j) = h
      <4>1. A[j] = H.at[j] /\ A[Parent(j)] = t BY <3>1, <3>2, <1>10
      <4>2. H.at[j] \in M BY <1>1, <1>5
      <4> QED BY <4>1, <4>2, <1>15
    <3> QED BY <3>1, <3>2, <1>12
  <2> QED BY <2>1, <1>2 DEF HeapOrdered
<1> QED BY <1>3, <1>8, <1>9, <1>13, <1>14, <1>15 DEF A, N, o, Replaced

(* Another key for t.                                                      *)
LEMMA HeapRekeyed ==
  ASSUME NEW T, NEW M, NEW key \in [T -> Int], NEW H, HeapOf(H, key, T, M),
         NEW t, NEW new \in [T -> Int], \A u \in T : u # t => new[u] = key[u]
  PROVE  /\ t \notin M => HeapOf(H, new, T, M)
         /\ t \in M /\ new[t] <= key[t] => Dealt(H, UpDeal(H, new, t), new, T, M)
         /\ t \in M /\ new[t] >= key[t] => Dealt(H, DownDeal(H, new, t), new, T, M)
<1> DEFINE n == Len(H.at)
           i == H.id[t]
<1>1. /\ H.at \in Seq(T) /\ H.id \in [T -> Nat] /\ n \in Nat
      /\ \A j \in 1..n : H.at[j] \in T /\ H.at[j] \in M /\ H.id[H.at[j]] = j
      /\ \A u \in M : u \in T /\ H.id[u] \in 1..n /\ H.at[H.id[u]] = u
      /\ Listed(H, T, M)
  BY ListedFacts DEF HeapOf
<1>2. /\ \A j \in 2..n : key[H.at[Parent(j)]] <= key[H.at[j]]
      /\ \A j \in 1..n : key[H.at[j]] \in Int
  BY OrderedFacts
<1>3. \A j \in 2..n : j \in 1..n /\ Parent(j) \in 1..n /\ Parent(j) < j BY <1>1, ParentBefore
<1> HIDE DEF n, i
<1>4. ASSUME t \notin M PROVE HeapOf(H, new, T, M)
  <2>1. \A j \in 1..n : new[H.at[j]] = key[H.at[j]] BY <1>1, <1>4
  <2>2. HeapOrdered(H.at, new) BY <2>1, <1>2, <1>3 DEF HeapOrdered, n
  <2> QED BY <2>2, <1>1 DEF HeapOf
<1>5. ASSUME t \in M
      PROVE  /\ i \in 1..n /\ H.at[i] = t /\ new[t] \in Int /\ key[t] \in Int
             /\ \A j \in 1..n : j # i => new[H.at[j]] = key[H.at[j]]
  <2>1. i \in 1..n /\ H.at[i] = t /\ t \in T BY <1>1, <1>5 DEF i
  <2>2. ASSUME NEW j \in 1..n, j # i PROVE new[H.at[j]] = key[H.at[j]]
    <3>1. H.at[j] # t BY <1>1, <2>1, <2>2
    <3> QED BY <3>1, <1>1
  <2> QED BY <2>1, <2>2
<1>6. ASSUME t \in M, i # 1, NEW j \in 2..n, Parent(j) = i
      PROVE  new[H.at[Parent(i)]] <= new[H.at[j]]
  <2>1. i \in 2..n BY <1>5, <1>6, <1>1
  <2>2. Parent(i) # i /\ Parent(i) \in 1..n /\ j # i /\ j \in 1..n BY <2>1, <1>3, <1>6
  <2>3. /\ new[H.at[Parent(i)]] = key[H.at[Parent(i)]] /\ new[H.at[j]] = key[H.at[j]]
        /\ key[H.at[Parent(i)]] \in Int /\ key[H.at[j]] \in Int
    BY <2>2, <1>2, <1>5, <1>6
  <2>4. key[H.at[Parent(i)]] <= key[H.at[i]] /\ key[H.at[i]] <= key[H.at[j]]
    BY <2>1, <1>2, <1>6
  <2>5. key[H.at[i]] \in Int BY <1>5, <1>6
  <2> QED BY <2>3, <2>4, <2>5
<1>7. ASSUME t \in M, new[t] <= key[t] PROVE Dealt(H, UpDeal(H, new, t), new, T, M)
  <2>1. ASSUME NEW j \in 2..n, j # i PROVE new[H.at[Parent(j)]] <= new[H.at[j]]
    <3>1. /\ j \in 1..n /\ Parent(j) \in 1..n /\ new[H.at[j]] = key[H.at[j]]
          /\ key[H.at[Parent(j)]] <= key[H.at[j]]
          /\ key[H.at[j]] \in Int /\ key[H.at[Parent(j)]] \in Int
      BY <2>1, <1>2, <1>3, <1>5, <1>7
    <3>2. CASE Parent(j) = i
      <4>1. H.at[Parent(j)] = t BY <3>2, <1>5, <1>7
      <4> QED BY <3>1, <4>1, <1>5, <1>7
    <3>3. CASE Parent(j) # i
      <4>1. new[H.at[Parent(j)]] = key[H.at[Parent(j)]] BY <3>1, <3>3, <1>5, <1>7
      <4> QED BY <3>1, <4>1
    <3> QED BY <3>2, <3>3
  <2>2. MayRise(H.at, new, H.id[t]) BY <2>1, <1>6, <1>7 DEF MayRise, n, i
  <2> QED BY <2>2, <1>1, <1>7, UpDealt
<1>8. ASSUME t \in M, new[t] >= key[t] PROVE Dealt(H, DownDeal(H, new, t), new, T, M)
  <2>1. ASSUME NEW j \in 2..n, Parent(j) # i PROVE new[H.at[Parent(j)]] <= new[H.at[j]]
    <3>1. /\ j \in 1..n /\ Parent(j) \in 1..n /\ new[H.at[Parent(j)]] = key[H.at[Parent(j)]]
          /\ key[H.at[Parent(j)]] <= key[H.at[j]]
          /\ key[H.at[j]] \in Int /\ key[H.at[Parent(j)]] \in Int
      BY <2>1, <1>2, <1>3, <1>5, <1>8
    <3>2. CASE j = i
      <4>1. H.at[j] = t BY <3>2, <1>5, <1>8
      <4> QED BY <3>1, <4>1, <1>5, <1>8
    <3>3. CASE j # i
      <4>1. new[H.at[j]] = key[H.at[j]] BY <3>1, <3>3, <1>5, <1>8
      <4> QED BY <3>1, <4>1
    <3> QED BY <3>2, <3>3
  <2>2. MayFall(H.at, new, H.id[t]) BY <2>1, <1>6, <1>8 DEF MayFall, n, i
  <2> QED BY <2>2, <1>1, <1>8, DownDealt
<1> QED BY <1>4, <1>7, <1>8

(* The root comes before everybody.                                        *)
LEMMA RootIsFirst ==
  ASSUME NEW T, NEW M, NEW key \in [T -> Int], NEW H, HeapOf(H, key, T, M),
         NEW u \in M
  PROVE  /\ 1 \in 1..Len(H.at) /\ H.at[1] \in M /\ H.at[1] \in T
         /\ key[H.at[1]] <= key[u]
<1> DEFINE n == Len(H.at)
           i == H.id[u]
           nx == [j \in 1..n |-> IF j = 1 THEN 0 ELSE Parent(j)]
           rk == [j \in 1..n |-> j]
           W == Visited(nx, i)
           D == {j \in 1..n : key[H.at[j]] <= key[u]}
<1>1. /\ n \in Nat /\ i \in 1..n /\ H.at[i] = u
      /\ \A j \in 1..n : H.at[j] \in T /\ H.at[j] \in M
  BY ListedFacts DEF HeapOf
<1>2. /\ \A j \in 2..n : key[H.at[Parent(j)]] <= key[H.at[j]]
      /\ \A j \in 1..n : key[H.at[j]] \in Int
  BY OrderedFacts
<1>3. \A j \in 2..n : Parent(j) \in 1..n /\ Parent(j) < j BY <1>1, ParentBefore
<1>4. \A j \in 1..n : nx[j] = IF j = 1 THEN 0 ELSE Parent(j) OBVIOUS
<1>5. \A j \in 1..n : j # 1 => j \in 2..n BY <1>1
<1>6. nx \in [1..n -> 0..n]
  <2>1. ASSUME NEW j \in 1..n PROVE nx[j] \in 0..n
    <3>1. CASE j = 1
      <4>1. nx[j] = 0 BY <3>1, <1>4
      <4> HIDE DEF n, nx
      <4> QED BY <4>1, <1>1
    <3>2. CASE j # 1
      <4>1. nx[j] = Parent(j) /\ Parent(j) \in 1..n BY <3>2, <1>3, <1>4, <1>5
      <4> HIDE DEF n, nx
      <4> QED BY <4>1, <1>1
    <3> QED BY <3>1, <3>2
  <2> QED BY <2>1
<1> HIDE DEF n, i, nx
<1>7. /\ rk \in [1..n -> Int]
      /\ \A j, k \in 1..n : rk[j] = rk[k] => j = k
      /\ \A j \in 1..n : nx[j] # 0 => rk[nx[j]] < rk[j]
  <2>1. \A j \in 1..n : nx[j] # 0 => nx[j] \in 1..n /\ nx[j] < j BY <1>3, <1>4, <1>5
  <2> QED BY <2>1
<1> HIDE DEF rk
<1>8. Permutes(n, nx, i) BY <1>1, <1>6, <1>7, WalkPermutes
<1>9. /\ \A j \in W : rk[j] <= rk[i] BY <1>1, <1>6, <1>7, WalkIsALine
<1>10. /\ W \subseteq 1..n /\ i \in W
       /\ \A j \in W : nx[j] # 0 => nx[j] \in W
       /\ \A E \in SUBSET (1..n) :
            i \in E /\ (\A j \in E : nx[j] # 0 => nx[j] \in E) => W \subseteq E
  BY <1>1, <1>6, VisitedIsLeast
<1> HIDE DEF W
<1>11. W \subseteq D
  <2>1. D \in SUBSET (1..n) OBVIOUS
  <2>2. i \in D BY <1>1, <1>2
  <2>3. ASSUME NEW j \in D, nx[j] # 0 PROVE nx[j] \in D
    <3>1. j \in 2..n /\ nx[j] = Parent(j) /\ Parent(j) \in 1..n BY <2>3, <1>3, <1>4, <1>5
    <3>2. key[H.at[Parent(j)]] <= key[H.at[j]] /\ key[H.at[j]] <= key[u] BY <3>1, <2>3, <1>2
    <3>3. key[H.at[Parent(j)]] \in Int /\ key[H.at[j]] \in Int /\ key[u] \in Int
      BY <3>1, <2>3, <1>1, <1>2
    <3>4. key[H.at[Parent(j)]] <= key[u] BY <3>2, <3>3
    <3> QED BY <3>1, <3>4
  <2> HIDE DEF D
  <2> QED BY <2>1, <2>2, <2>3, <1>10
<1>12. 1 \in W
  <2>1. PICK k \in 1..n : Source(nx, i, k) = i BY <1>1, <1>8 DEF Permutes
  <2>2. k \in W BY <2>1, <1>8, <1>10 DEF Permutes, W
  <2>3. nx[k] = 0
    <3> SUFFICES ASSUME nx[k] # 0 PROVE FALSE OBVIOUS
    <3>1. nx[k] = i BY <2>1, <2>2 DEF Source, W
    <3>2. rk[i] < rk[k] BY <3>1, <1>7
    <3>3. rk[k] <= rk[i] /\ rk[k] \in Int /\ rk[i] \in Int BY <2>2, <1>1, <1>7, <1>9
    <3> QED BY <3>2, <3>3
  <2>4. k = 1
    <3> SUFFICES ASSUME k # 1 PROVE FALSE OBVIOUS
    <3>1. nx[k] = Parent(k) /\ Parent(k) \in 1..n BY <1>3, <1>4, <1>5
    <3> QED BY <3>1, <2>3
  <2> QED BY <2>2, <2>4
<1>13. 1 \in 1..n /\ key[H.at[1]] <= key[u] BY <1>10, <1>11, <1>12
<1> QED BY <1>1, <1>13 DEF n

(* set_semaphore_time: whatever time a semaphore in the heap of timers gets*)
(* the heap holds the same semaphores as before, each where its heap_id    *)
(* says, in the order of the new times.                                    *)
THEOREM TimerHeapKept ==
  ASSUME NEW T, NEW M, NEW key \in [T -> Int], NEW H, HeapOf(H, key, T, M),
         NEW t \in M, NEW k \in Int
  PROVE  HeapOf(HeapRekey(H, key, t, k), [key EXCEPT ![t] = k], T, M)
<1>1. PICK new : new = [key EXCEPT ![t] = k] OBVIOUS
<1>2. t \in T
  <2>1. Listed(H, T, M) BY DEF HeapOf
  <2> QED BY <2>1, ListedFacts
<1>3. /\ new \in [T -> Int] /\ new[t] = k /\ key[t] \in Int
      /\ \A u \in T : u # t => new[u] = key[u]
  BY <1>1, <1>2
<1>4. /\ t \notin M => HeapOf(H, new, T, M)
      /\ t \in M /\ new[t] <= key[t] => Dealt(H, UpDeal(H, new, t), new, T, M)
      /\ t \in M /\ new[t] >= key[t] => Dealt(H, DownDeal(H, new, t), new, T, M)
  BY <1>3, HeapRekeyed
<1>5. CASE k < key[t]
  <2>1. HeapRekey(H, key, t, k) = UpDeal(H, new, t) BY <1>1, <1>5 DEF HeapRekey
  <2>2. new[t] <= key[t] BY <1>3, <1>5
  <2>3. Dealt(H, UpDeal(H, new, t), new, T, M) BY <2>2, <1>4
  <2> QED BY <2>1, <2>3, <1>1 DEF Dealt, HeapOf
<1>6. CASE k > key[t]
  <2>1. ~(k < key[t]) BY <1>3, <1>6
  <2>2. HeapRekey(H, key, t, k) = DownDeal(H, new, t) BY <2>1, <1>1, <1>6 DEF HeapRekey
  <2>3. new[t] >= key[t] BY <1>3, <1>6
  <2>4. Dealt(H, DownDeal(H, new, t), new, T, M) BY <2>3, <1>4
  <2> QED BY <2>2, <2>4, <1>1 DEF Dealt, HeapOf
<1>7. CASE k = key[t]
  <2>1. ~(k < key[t]) /\ ~(k > key[t]) BY <1>3, <1>7
  <2>2. HeapRekey(H, key, t, k) = H BY <2>1 DEF HeapRekey
  <2>3. new = key BY <1>1, <1>7
  <2> QED BY <2>2, <2>3, <1>1
<1> QED BY <1>3, <1>5, <1>6, <1>7
=============================================================================

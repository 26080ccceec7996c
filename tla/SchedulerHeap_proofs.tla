------------------------- MODULE SchedulerHeap_proofs -------------------------
(***************************************************************************)
(* The heaps and stacks of free CPUs of SchedulerHeap implement Scheduler, *)
(* for any threads, CPUs, CPU sets and priorities.                         *)
(*                                                                         *)
(* HeapInv joins two halves.  Solid says of a state that the heaps of every*)
(* set hold its running and its ready threads (Filled) and the stacks its  *)
(* idle CPUs (StacksHold).  Good, of SchedulerOps, says of the tables      *)
(* without heaps and stacks (Tables) what Scheduler promises.              *)
(*                                                                         *)
(* There is one lemma for each C function: from a Solid state it leaves a  *)
(* Solid one, whose Tables are among the results SchedulerOps allows.  The *)
(* C functions call one another when the heaps do not fit the states of the*)
(* threads, which is why Filled takes the states the heaps are to fit apart*)
(* from the state itself.  That the root is a worst running or a best ready*)
(* thread and the top of a stack a free CPU (RunRoot, ReadyRoot, OnTop) is *)
(* what ties the choice the code makes to those SchedulerOps leaves open.  *)
(* Good of what it allows is proved once, in Ops_proofs.                   *)
(***************************************************************************)
EXTENDS SchedulerHeap, Ops_proofs

-----------------------------------------------------------------------------
States == {"SLEEP", "READY", "RUN"}

HeapState ==
  [state          : [Thread -> States],
   priority       : [Thread -> Priority \cup {0}],
   cpu_set_id     : [Thread -> CpuSet],
   cpu_id         : [Thread -> Cpu \cup {None}],
   heap_id        : [Thread -> Slots(Thread)],
   thread_id      : [Cpu -> Thread \cup {None}],
   cpu_set_of     : [Cpu -> CpuSet],
   stack_location : [Cpu -> Slots(Cpu)],
   free_cpu       : [CpuSet -> Seq(Cpu)],
   run_heap       : [CpuSet -> Seq(Thread)],
   ready_heap     : [CpuSet -> Seq(Thread)]]

(* The heaps of a set hold the threads that x says are running and ready:  *)
(* within a call x is not always the state field.                          *)
With(st, x, s, y) == {t \in Thread : st.cpu_set_id[t] = s /\ x[t] = y}
SetFilled(st, x, s) ==
  /\ HeapOf(RunHeap(st, s), RunKey(st), Thread, With(st, x, s, "RUN"))
  /\ HeapOf(ReadyHeap(st, s), st.priority, Thread, With(st, x, s, "READY"))
Filled(st, x) == \A s \in CpuSet : SetFilled(st, x, s)

(* What the heap operations leave alone.                                   *)
OnlyHeaps(st, r) ==
  /\ r.state = st.state /\ r.priority = st.priority /\ r.cpu_set_id = st.cpu_set_id
  /\ r.cpu_id = st.cpu_id /\ r.thread_id = st.thread_id /\ r.cpu_set_of = st.cpu_set_of
  /\ r.stack_location = st.stack_location /\ r.free_cpu = st.free_cpu

LEMMA Keys ==
  ASSUME NEW st \in HeapState
  PROVE  st.priority \in [Thread -> Int] /\ RunKey(st) \in [Thread -> Int]
<1>1. st.priority \in [Thread -> Int]
  <2>1. Priority \cup {0} \subseteq Int BY SchedulerConstants
  <2> QED BY <2>1 DEF HeapState
<1> QED BY <1>1 DEF RunKey

(* A heap whose members keep their heap_id is the heap it was.             *)
LEMMA HeapKept ==
  ASSUME NEW T, NEW M, NEW key, NEW at, NEW id, HeapOf([at |-> at, id |-> id], key, T, M),
         NEW jd \in [T -> Slots(T)], \A u \in M : jd[u] = id[u]
  PROVE  HeapOf([at |-> at, id |-> jd], key, T, M)
BY DEF HeapOf, Listed

(* Both heaps of a set s changed: y says whom they hold now.               *)
Heaped(st, s, A, B, jd) ==
  [st EXCEPT !.run_heap[s] = A, !.ready_heap[s] = B, !.heap_id = jd]
Reheaped(st, x, r, y, s, A, B, jd) ==
  /\ s \in CpuSet /\ r = Heaped(st, s, A, B, jd)
  /\ \A s2 \in CpuSet : s2 # s => SetFilled(st, x, s2)
  /\ \A u \in Thread : st.cpu_set_id[u] # s => jd[u] = st.heap_id[u] /\ y[u] = x[u]
  /\ HeapOf([at |-> A, id |-> jd], RunKey(st), Thread, With(st, y, s, "RUN"))
  /\ HeapOf([at |-> B, id |-> jd], st.priority, Thread, With(st, y, s, "READY"))

(* What a heap dealt with again holds, read with its tables apart.         *)
DealtOut(G, D, key, M) ==
  /\ D.id \in [Thread -> Slots(Thread)]
  /\ HeapOf([at |-> D.at, id |-> D.id], key, Thread, M)
  /\ \A u \in Thread : u \notin M => D.id[u] = G.id[u]

LEMMA DealtFacts ==
  ASSUME NEW G, NEW D, NEW key, NEW M, Dealt(G, D, key, Thread, M)
  PROVE  DealtOut(G, D, key, M)
<1>1. PICK A, id : A = D.at /\ id = D.id OBVIOUS
<1>2. PICK E : E = [at |-> A, id |-> id] OBVIOUS
<1>3. E.at = A /\ E.id = id BY <1>2
<1>4. /\ Listed(D, Thread, M) /\ HeapOrdered(A, key)
      /\ \A u \in Thread : u \notin M => id[u] = G.id[u]
  BY <1>1 DEF Dealt, KeepsOthers
<1>5. Listed(E, Thread, M) /\ id \in [Thread -> Slots(Thread)]
  BY <1>1, <1>3, <1>4 DEF Listed
<1>6. HeapOf(E, key, Thread, M) BY <1>3, <1>4, <1>5 DEF HeapOf
<1> QED BY <1>1, <1>2, <1>4, <1>5, <1>6 DEF DealtOut

(* One thread takes the place of another among those in a state.           *)
SwapsTwo(st, a, x, y, s, z, t, g) ==
  /\ a.cpu_set_id = st.cpu_set_id
  /\ t \in Thread /\ g \in Thread /\ st.cpu_set_id[t] = s /\ st.cpu_set_id[g] = s
  /\ y[t] = z /\ y[g] # z
  /\ \A u \in Thread : u # t /\ u # g => y[u] = x[u]

IsSwapped(st, a, x, y, s, z, t, g) ==
  With(a, y, s, z) = (With(st, x, s, z) \ {g}) \cup {t}

LEMMA Swapped ==
  ASSUME NEW st, NEW a, NEW s, NEW x, NEW y, NEW z, NEW t, NEW g,
         SwapsTwo(st, a, x, y, s, z, t, g)
  PROVE  IsSwapped(st, a, x, y, s, z, t, g)
BY DEF IsSwapped, With, SwapsTwo

HeapsNow(st, r, y) == r \in HeapState /\ Filled(r, y) /\ OnlyHeaps(st, r)

LEMMA HeapsChanged ==
  ASSUME NEW st \in HeapState, NEW x, NEW r, NEW y, NEW s,
         NEW A, NEW B, NEW jd, Reheaped(st, x, r, y, s, A, B, jd)
  PROVE  HeapsNow(st, r, y)
<1>1. A \in Seq(Thread) /\ B \in Seq(Thread) /\ jd \in [Thread -> Slots(Thread)]
  BY DEF HeapOf, Listed, Reheaped
<1>2. /\ r \in HeapState /\ OnlyHeaps(st, r) /\ r.heap_id = jd
      /\ r.run_heap = [st.run_heap EXCEPT ![s] = A]
      /\ r.ready_heap = [st.ready_heap EXCEPT ![s] = B]
  BY <1>1 DEF HeapState, Reheaped, OnlyHeaps, Heaped
<1>3. /\ RunKey(r) = RunKey(st) /\ r.priority = st.priority
      /\ \A s2, z : With(r, y, s2, z) = With(st, y, s2, z)
  BY <1>2 DEF OnlyHeaps, RunKey, With
<1>4. /\ RunHeap(r, s) = [at |-> A, id |-> jd] /\ ReadyHeap(r, s) = [at |-> B, id |-> jd]
      /\ \A s2 \in CpuSet : s2 # s =>
           /\ RunHeap(r, s2) = [at |-> st.run_heap[s2], id |-> jd]
           /\ ReadyHeap(r, s2) = [at |-> st.ready_heap[s2], id |-> jd]
  BY <1>2 DEF RunHeap, ReadyHeap, HeapState, Reheaped
<1>5. ASSUME NEW s2 \in CpuSet
      PROVE  /\ HeapOf(RunHeap(r, s2), RunKey(r), Thread, With(r, y, s2, "RUN"))
             /\ HeapOf(ReadyHeap(r, s2), r.priority, Thread, With(r, y, s2, "READY"))
  <2>1. CASE s2 = s BY <2>1, <1>3, <1>4 DEF Reheaped
  <2>2. CASE s2 # s
    <3>1. \A z : With(r, y, s2, z) = With(st, x, s2, z) BY <2>2, <1>3 DEF With, Reheaped
    <3>2. \A z : \A u \in With(st, x, s2, z) : jd[u] = st.heap_id[u]
      BY <2>2 DEF Reheaped, With
    <3>3. /\ HeapOf([at |-> st.run_heap[s2], id |-> st.heap_id], RunKey(st), Thread,
                    With(st, x, s2, "RUN"))
          /\ HeapOf([at |-> st.ready_heap[s2], id |-> st.heap_id], st.priority, Thread,
                    With(st, x, s2, "READY"))
      BY <2>2 DEF Reheaped, SetFilled, RunHeap, ReadyHeap
    <3>4. HeapOf([at |-> st.run_heap[s2], id |-> jd], RunKey(st), Thread,
                 With(st, x, s2, "RUN"))
      BY <1>1, <3>2, <3>3, HeapKept
    <3>5. HeapOf([at |-> st.ready_heap[s2], id |-> jd], st.priority, Thread,
                 With(st, x, s2, "READY"))
      BY <1>1, <3>2, <3>3, HeapKept
    <3> QED BY <2>2, <3>1, <3>4, <3>5, <1>3, <1>4
  <2> QED BY <2>1, <2>2
<1> QED BY <1>2, <1>5 DEF HeapsNow, Filled, SetFilled

(* One heap of it changed.                                                 *)
LEMMA ReadyHeaped ==
  ASSUME NEW st \in HeapState, NEW s \in CpuSet, NEW H,
         NEW r, r = WithReadyHeap(st, s, H)
  PROVE  r = Heaped(st, s, st.run_heap[s], H.at, H.id)
<1>1. [st.run_heap EXCEPT ![s] = st.run_heap[s]] = st.run_heap BY DEF HeapState
<1>2. r = [st EXCEPT !.run_heap = [st.run_heap EXCEPT ![s] = st.run_heap[s]],
                     !.ready_heap[s] = H.at, !.heap_id = H.id]
  BY <1>1 DEF WithReadyHeap, HeapState
<1> QED BY <1>2 DEF HeapState, Heaped

LEMMA RunHeaped ==
  ASSUME NEW st \in HeapState, NEW s \in CpuSet, NEW H,
         NEW r, r = WithRunHeap(st, s, H)
  PROVE  r = Heaped(st, s, H.at, st.ready_heap[s], H.id)
<1>1. [st.ready_heap EXCEPT ![s] = st.ready_heap[s]] = st.ready_heap BY DEF HeapState
<1>2. r = [st EXCEPT !.run_heap[s] = H.at,
                     !.ready_heap = [st.ready_heap EXCEPT ![s] = st.ready_heap[s]],
                     !.heap_id = H.id]
  BY <1>1 DEF WithRunHeap, HeapState
<1> QED BY <1>2 DEF HeapState, Heaped

(* In it t is put in or taken out.                                         *)
LEMMA ReadyHeapChanged ==
  ASSUME NEW st \in HeapState,
         NEW x \in [Thread -> States], Filled(st, x),
         NEW y \in [Thread -> States],
         NEW t \in Thread, \A u \in Thread : u # t => y[u] = x[u],
         x[t] # "RUN", y[t] # "RUN",
         NEW s, s = st.cpu_set_id[t],
         NEW H, HeapOf(H, st.priority, Thread, With(st, y, s, "READY")),
         KeepsOthers(st.heap_id, H.id, Thread, With(st, x, s, "READY") \cup {t}),
         NEW r, r = WithReadyHeap(st, s, H)
  PROVE  r \in HeapState /\ Filled(r, y) /\ OnlyHeaps(st, r)
<1> DEFINE A == st.run_heap[s]
<1>1. s \in CpuSet BY DEF HeapState
<1>2. H.id \in [Thread -> Slots(Thread)] BY ListedFacts DEF HeapOf
<1>3. HeapOf([at |-> H.at, id |-> H.id], st.priority, Thread, With(st, y, s, "READY"))
  BY DEF HeapOf, Listed
<1>4. HeapOf([at |-> A, id |-> H.id], RunKey(st), Thread, With(st, y, s, "RUN"))
  <2>1. With(st, y, s, "RUN") = With(st, x, s, "RUN") BY DEF With
  <2>2. \A u \in With(st, x, s, "RUN") : H.id[u] = st.heap_id[u]
    BY DEF KeepsOthers, With
  <2>3. HeapOf([at |-> A, id |-> st.heap_id], RunKey(st), Thread, With(st, x, s, "RUN"))
    BY <1>1 DEF Filled, SetFilled, RunHeap
  <2> HIDE DEF A
  <2> QED BY <2>1, <2>2, <2>3, <1>2, HeapKept
<1>5. Reheaped(st, x, r, y, s, A, H.at, H.id)
  <2>1. \A u \in Thread : st.cpu_set_id[u] # s => H.id[u] = st.heap_id[u]
    BY DEF KeepsOthers, With
  <2>2. r = Heaped(st, s, A, H.at, H.id) BY <1>1, ReadyHeaped
  <2>5. \A u \in Thread : st.cpu_set_id[u] # s => y[u] = x[u] OBVIOUS
  <2> HIDE DEF A
  <2> QED BY <2>1, <2>2, <2>5, <1>1, <1>3, <1>4 DEF Reheaped, Filled
<1> HIDE DEF A
<1> QED BY <1>5, HeapsChanged DEF HeapsNow

LEMMA RunHeapChanged ==
  ASSUME NEW st \in HeapState,
         NEW x \in [Thread -> States], Filled(st, x),
         NEW y \in [Thread -> States],
         NEW t \in Thread, \A u \in Thread : u # t => y[u] = x[u],
         x[t] # "READY", y[t] # "READY",
         NEW s, s = st.cpu_set_id[t],
         NEW H, HeapOf(H, RunKey(st), Thread, With(st, y, s, "RUN")),
         KeepsOthers(st.heap_id, H.id, Thread, With(st, x, s, "RUN") \cup {t}),
         NEW r, r = WithRunHeap(st, s, H)
  PROVE  r \in HeapState /\ Filled(r, y) /\ OnlyHeaps(st, r)
<1> DEFINE B == st.ready_heap[s]
<1>1. s \in CpuSet BY DEF HeapState
<1>2. H.id \in [Thread -> Slots(Thread)] BY ListedFacts DEF HeapOf
<1>3. HeapOf([at |-> H.at, id |-> H.id], RunKey(st), Thread, With(st, y, s, "RUN"))
  BY DEF HeapOf, Listed
<1>4. HeapOf([at |-> B, id |-> H.id], st.priority, Thread, With(st, y, s, "READY"))
  <2>1. With(st, y, s, "READY") = With(st, x, s, "READY") BY DEF With
  <2>2. \A u \in With(st, x, s, "READY") : H.id[u] = st.heap_id[u]
    BY DEF KeepsOthers, With
  <2>3. HeapOf([at |-> B, id |-> st.heap_id], st.priority, Thread, With(st, x, s, "READY"))
    BY <1>1 DEF Filled, SetFilled, ReadyHeap
  <2> HIDE DEF B
  <2> QED BY <2>1, <2>2, <2>3, <1>2, HeapKept
<1>5. Reheaped(st, x, r, y, s, H.at, B, H.id)
  <2>1. \A u \in Thread : st.cpu_set_id[u] # s => H.id[u] = st.heap_id[u]
    BY DEF KeepsOthers, With
  <2>2. r = Heaped(st, s, H.at, B, H.id) BY <1>1, RunHeaped
  <2>5. \A u \in Thread : st.cpu_set_id[u] # s => y[u] = x[u] OBVIOUS
  <2> HIDE DEF B
  <2> QED BY <2>1, <2>2, <2>5, <1>1, <1>3, <1>4 DEF Reheaped, Filled
<1> HIDE DEF B
<1> QED BY <1>5, HeapsChanged DEF HeapsNow

-----------------------------------------------------------------------------
(* The operations on one heap put t in and take it out.                    *)
Marked(x, t, z) == [x EXCEPT ![t] = z]

LEMMA MarkedFacts ==
  ASSUME NEW x \in [Thread -> States], NEW t \in Thread, NEW z \in States
  PROVE  /\ Marked(x, t, z) \in [Thread -> States] /\ Marked(x, t, z)[t] = z
         /\ \A u \in Thread : u # t => Marked(x, t, z)[u] = x[u]
BY DEF Marked

LEMMA InsertReadyFills ==
  ASSUME NEW st \in HeapState, NEW x \in [Thread -> States], Filled(st, x),
         NEW t \in Thread, x[t] = "SLEEP",
         NEW r, r = InsertReady(st, t)
  PROVE  r \in HeapState /\ Filled(r, Marked(x, t, "READY")) /\ OnlyHeaps(st, r)
<1> DEFINE s == st.cpu_set_id[t]
           M == With(st, x, s, "READY")
           y == Marked(x, t, "READY")
           H == HeapInsert(ReadyHeap(st, s), st.priority, t)
<1>1. s \in CpuSet BY DEF HeapState
<1>2. /\ y \in [Thread -> States] /\ y[t] = "READY"
      /\ \A u \in Thread : u # t => y[u] = x[u]
  BY MarkedFacts DEF States
<1> HIDE DEF y
<1>3. With(st, y, s, "READY") = M \cup {t} BY <1>2 DEF With
<1>4. t \notin M BY DEF With
<1>5. HeapOf(ReadyHeap(st, s), st.priority, Thread, M) BY <1>1 DEF Filled, SetFilled
<1> HIDE DEF M
<1>6. HeapOf(H, st.priority, Thread, M \cup {t}) /\ KeepsOthers(ReadyHeap(st, s).id, H.id, Thread, M \cup {t})
  BY <1>4, <1>5, Keys, SchedulerAssumption, HeapInserted
<1>7. ReadyHeap(st, s).id = st.heap_id BY DEF ReadyHeap
<1>8. r = WithReadyHeap(st, s, H) BY DEF InsertReady
<1> HIDE DEF H, s
<1>9. HeapOf(H, st.priority, Thread, With(st, y, s, "READY"))
      /\ KeepsOthers(st.heap_id, H.id, Thread, With(st, x, s, "READY") \cup {t})
  BY <1>3, <1>6, <1>7 DEF M
<1>10. x[t] # "RUN" /\ y[t] # "RUN" /\ s = st.cpu_set_id[t] BY <1>2 DEF s
<1> QED BY <1>2, <1>8, <1>9, <1>10, ReadyHeapChanged DEF y

LEMMA RemoveReadyFills ==
  ASSUME NEW st \in HeapState, NEW x \in [Thread -> States], Filled(st, x),
         NEW t \in Thread, x[t] = "READY",
         NEW r, r = RemoveReady(st, t)
  PROVE  r \in HeapState /\ Filled(r, Marked(x, t, "SLEEP")) /\ OnlyHeaps(st, r)
<1> DEFINE s == st.cpu_set_id[t]
           M == With(st, x, s, "READY")
           y == Marked(x, t, "SLEEP")
           H == HeapRemove(ReadyHeap(st, s), st.priority, t)
<1>1. s \in CpuSet BY DEF HeapState
<1>2. /\ y \in [Thread -> States] /\ y[t] = "SLEEP"
      /\ \A u \in Thread : u # t => y[u] = x[u]
  BY MarkedFacts DEF States
<1> HIDE DEF y
<1>3. With(st, y, s, "READY") = M \ {t} BY <1>2 DEF With
<1>4. t \in M /\ M \cup {t} = M BY DEF With
<1>5. HeapOf(ReadyHeap(st, s), st.priority, Thread, M) BY <1>1 DEF Filled, SetFilled
<1> HIDE DEF M
<1>6. HeapOf(H, st.priority, Thread, M \ {t}) /\ KeepsOthers(ReadyHeap(st, s).id, H.id, Thread, M)
  BY <1>4, <1>5, Keys, HeapRemoved
<1>7. ReadyHeap(st, s).id = st.heap_id BY DEF ReadyHeap
<1>8. r = WithReadyHeap(st, s, H) BY DEF RemoveReady
<1> HIDE DEF H, s
<1>9. HeapOf(H, st.priority, Thread, With(st, y, s, "READY"))
      /\ KeepsOthers(st.heap_id, H.id, Thread, With(st, x, s, "READY") \cup {t})
  BY <1>3, <1>4, <1>6, <1>7 DEF M
<1>10. x[t] # "RUN" /\ y[t] # "RUN" /\ s = st.cpu_set_id[t] BY <1>2 DEF s
<1> QED BY <1>2, <1>8, <1>9, <1>10, ReadyHeapChanged DEF y

LEMMA InsertRunFills ==
  ASSUME NEW st \in HeapState, NEW x \in [Thread -> States], Filled(st, x),
         NEW t \in Thread, x[t] = "SLEEP",
         NEW r, r = InsertRun(st, t)
  PROVE  r \in HeapState /\ Filled(r, Marked(x, t, "RUN")) /\ OnlyHeaps(st, r)
<1> DEFINE s == st.cpu_set_id[t]
           M == With(st, x, s, "RUN")
           y == Marked(x, t, "RUN")
           H == HeapInsert(RunHeap(st, s), RunKey(st), t)
<1>1. s \in CpuSet BY DEF HeapState
<1>2. /\ y \in [Thread -> States] /\ y[t] = "RUN"
      /\ \A u \in Thread : u # t => y[u] = x[u]
  BY MarkedFacts DEF States
<1> HIDE DEF y
<1>3. With(st, y, s, "RUN") = M \cup {t} BY <1>2 DEF With
<1>4. t \notin M BY DEF With
<1>5. HeapOf(RunHeap(st, s), RunKey(st), Thread, M) BY <1>1 DEF Filled, SetFilled
<1> HIDE DEF M
<1>6. HeapOf(H, RunKey(st), Thread, M \cup {t}) /\ KeepsOthers(RunHeap(st, s).id, H.id, Thread, M \cup {t})
  BY <1>4, <1>5, Keys, SchedulerAssumption, HeapInserted
<1>7. RunHeap(st, s).id = st.heap_id BY DEF RunHeap
<1>8. r = WithRunHeap(st, s, H) BY DEF InsertRun
<1> HIDE DEF H, s
<1>9. HeapOf(H, RunKey(st), Thread, With(st, y, s, "RUN"))
      /\ KeepsOthers(st.heap_id, H.id, Thread, With(st, x, s, "RUN") \cup {t})
  BY <1>3, <1>6, <1>7 DEF M
<1>10. x[t] # "READY" /\ y[t] # "READY" /\ s = st.cpu_set_id[t] BY <1>2 DEF s
<1> QED BY <1>2, <1>8, <1>9, <1>10, RunHeapChanged DEF y

LEMMA RemoveRunFills ==
  ASSUME NEW st \in HeapState, NEW x \in [Thread -> States], Filled(st, x),
         NEW t \in Thread, x[t] = "RUN",
         NEW r, r = RemoveRun(st, t)
  PROVE  r \in HeapState /\ Filled(r, Marked(x, t, "SLEEP")) /\ OnlyHeaps(st, r)
<1> DEFINE s == st.cpu_set_id[t]
           M == With(st, x, s, "RUN")
           y == Marked(x, t, "SLEEP")
           H == HeapRemove(RunHeap(st, s), RunKey(st), t)
<1>1. s \in CpuSet BY DEF HeapState
<1>2. /\ y \in [Thread -> States] /\ y[t] = "SLEEP"
      /\ \A u \in Thread : u # t => y[u] = x[u]
  BY MarkedFacts DEF States
<1> HIDE DEF y
<1>3. With(st, y, s, "RUN") = M \ {t} BY <1>2 DEF With
<1>4. t \in M /\ M \cup {t} = M BY DEF With
<1>5. HeapOf(RunHeap(st, s), RunKey(st), Thread, M) BY <1>1 DEF Filled, SetFilled
<1> HIDE DEF M
<1>6. HeapOf(H, RunKey(st), Thread, M \ {t}) /\ KeepsOthers(RunHeap(st, s).id, H.id, Thread, M)
  BY <1>4, <1>5, Keys, HeapRemoved
<1>7. RunHeap(st, s).id = st.heap_id BY DEF RunHeap
<1>8. r = WithRunHeap(st, s, H) BY DEF RemoveRun
<1> HIDE DEF H, s
<1>9. HeapOf(H, RunKey(st), Thread, With(st, y, s, "RUN"))
      /\ KeepsOthers(st.heap_id, H.id, Thread, With(st, x, s, "RUN") \cup {t})
  BY <1>3, <1>4, <1>6, <1>7 DEF M
<1>10. x[t] # "READY" /\ y[t] # "READY" /\ s = st.cpu_set_id[t] BY <1>2 DEF s
<1> QED BY <1>2, <1>8, <1>9, <1>10, RunHeapChanged DEF y
-----------------------------------------------------------------------------
(* The stack of a set lists its free CPUs, and stack_location is their     *)
(* place in it.                                                            *)
Stack(st, s) == [at |-> st.free_cpu[s], id |-> st.stack_location]
StacksHold(st) ==
  /\ \A s \in CpuSet : Listed(Stack(st, s), Cpu, FreeCpus(st, s))
  /\ \A c \in Cpu : st.thread_id[c] # None => st.stack_location[c] = 0

(* What the stack operations leave alone.                                  *)
OnlyStacks(st, r) ==
  /\ r.state = st.state /\ r.priority = st.priority /\ r.cpu_set_id = st.cpu_set_id
  /\ r.heap_id = st.heap_id /\ r.run_heap = st.run_heap /\ r.ready_heap = st.ready_heap

LEMMA FilledKept ==
  ASSUME NEW st, NEW r, NEW x, Filled(st, x), OnlyStacks(st, r)
  PROVE  Filled(r, x)
BY DEF Filled, SetFilled, OnlyStacks, RunHeap, ReadyHeap, RunKey, With

LEMMA ListedKept ==
  ASSUME NEW T, NEW M, NEW at, NEW id, Listed([at |-> at, id |-> id], T, M),
         NEW jd \in [T -> Slots(T)], \A u \in M : jd[u] = id[u]
  PROVE  Listed([at |-> at, id |-> jd], T, M)
BY DEF Listed

LEMMA ListedEmpty ==
  ASSUME NEW T, NEW M, NEW H, Listed(H, T, M)
  PROVE  H.at = <<>> <=> M = {}
<1>1. /\ H.at \in Seq(T) /\ \A j \in 1..Len(H.at) : H.at[j] \in M
      /\ \A u \in M : H.id[u] \in 1..Len(H.at)
  BY ListedFacts
<1>2. ASSUME H.at # <<>> PROVE M # {}
  <2>1. Len(H.at) \in Nat /\ Len(H.at) # 0 BY <1>1, <1>2
  <2>2. 1 \in 1..Len(H.at) BY <2>1
  <2> QED BY <1>1, <2>2
<1>3. ASSUME M # {} PROVE H.at # <<>>
  <2>1. PICK u \in M : TRUE BY <1>3
  <2>2. H.id[u] \in 1..Len(H.at) BY <1>1
  <2> QED BY <2>2
<1> QED BY <1>2, <1>3

(* The state with other CPU tables and stacks.                             *)
Restack(st, ci, ti, sl, cs, fc) ==
  [st EXCEPT !.cpu_id = ci, !.thread_id = ti, !.stack_location = sl,
             !.cpu_set_of = cs, !.free_cpu = fc]

CpuTables(ci, ti, sl, cs, fc) ==
  /\ ci \in [Thread -> Cpu \cup {None}] /\ ti \in [Cpu -> Thread \cup {None}]
  /\ sl \in [Cpu -> Slots(Cpu)] /\ cs \in [Cpu -> CpuSet]
  /\ fc \in [CpuSet -> Seq(Cpu)]

LEMMA Restacked ==
  ASSUME NEW st \in HeapState,
         NEW ci, NEW ti, NEW sl, NEW cs, NEW fc, CpuTables(ci, ti, sl, cs, fc),
         NEW r, r = Restack(st, ci, ti, sl, cs, fc)
  PROVE  /\ r \in HeapState /\ OnlyStacks(st, r)
         /\ r.cpu_id = ci /\ r.thread_id = ti /\ r.stack_location = sl
         /\ r.cpu_set_of = cs /\ r.free_cpu = fc
BY DEF HeapState, OnlyStacks, Restack, CpuTables

RunsOn(st, t, c, s) ==
  /\ c \in Cpu /\ c = st.cpu_id[t] /\ st.thread_id[c] # None
  /\ s = st.cpu_set_id[t] /\ st.cpu_set_of[c] = s

Left(st, r, t, c, s) ==
  /\ r.cpu_set_of = st.cpu_set_of
  /\ r.cpu_id = [st.cpu_id EXCEPT ![t] = None]
  /\ r.thread_id = [st.thread_id EXCEPT ![c] = None]
  /\ r.free_cpu[s] = Append(st.free_cpu[s], c)

LEMMA LeaveKeepsStacks ==
  ASSUME NEW st \in HeapState, StacksHold(st), NEW t \in Thread,
         NEW c, NEW s, RunsOn(st, t, c, s),
         NEW r, r = LeaveRunState(st, t)
  PROVE  r \in HeapState /\ StacksHold(r) /\ OnlyStacks(st, r) /\ Left(st, r, t, c, s)
<1> USE DEF RunsOn
<1> DEFINE M == FreeCpus(st, s)
           H == Stack(st, s)
           jd == [st.stack_location EXCEPT ![c] = Len(st.free_cpu[s]) + 1]
<1>1. s \in CpuSet /\ st.free_cpu[s] \in Seq(Cpu) BY DEF HeapState
<1>2. Listed(H, Cpu, M) /\ c \notin M BY <1>1 DEF StacksHold, FreeCpus
<1>3. Listed([at |-> Append(st.free_cpu[s], c), id |-> jd], Cpu, M \cup {c})
  <2>1. Listed([at |-> Append(H.at, c), id |-> [H.id EXCEPT ![c] = Len(H.at) + 1]], Cpu, M \cup {c})
    <3> HIDE DEF H, M
    <3> QED BY <1>2, SchedulerAssumption, ListedAppended
  <2>2. H.at = st.free_cpu[s] /\ H.id = st.stack_location BY DEF Stack
  <2> QED BY <2>1, <2>2
<1>4. jd \in [Cpu -> Slots(Cpu)]
  <2> DEFINE G == [at |-> Append(st.free_cpu[s], c), id |-> jd]
  <2>1. Listed(G, Cpu, M \cup {c}) BY <1>3
  <2>2. G.id = jd OBVIOUS
  <2> HIDE DEF G, M, jd
  <2> QED BY <2>1, <2>2, ListedFacts
<1>5. \A d \in Cpu : d # c => jd[d] = st.stack_location[d] BY DEF HeapState
<1>6. r = [st EXCEPT !.cpu_id[t] = None, !.thread_id[c] = None, !.stack_location = jd,
                     !.cpu_set_of[c] = s, !.free_cpu[s] = Append(@, c)]
  BY DEF LeaveRunState, HeapState
<1> HIDE DEF jd
<1>7. /\ r \in HeapState /\ OnlyStacks(st, r)
      /\ r.cpu_set_of = st.cpu_set_of
      /\ r.cpu_id = [st.cpu_id EXCEPT ![t] = None]
      /\ r.thread_id = [st.thread_id EXCEPT ![c] = None]
      /\ r.free_cpu = [st.free_cpu EXCEPT ![s] = Append(st.free_cpu[s], c)]
      /\ r.stack_location = jd
  <2> DEFINE ci == [st.cpu_id EXCEPT ![t] = None]
             ti == [st.thread_id EXCEPT ![c] = None]
             cs == [st.cpu_set_of EXCEPT ![c] = s]
             fc == [st.free_cpu EXCEPT ![s] = Append(st.free_cpu[s], c)]
  <2>1. /\ ci \in [Thread -> Cpu \cup {None}] /\ ti \in [Cpu -> Thread \cup {None}]
        /\ cs = st.cpu_set_of /\ cs \in [Cpu -> CpuSet]
    BY DEF HeapState
  <2>2. fc \in [CpuSet -> Seq(Cpu)]
    <3>1. Append(st.free_cpu[s], c) \in Seq(Cpu) BY <1>1
    <3> QED BY <3>1 DEF HeapState
  <2>3. r = Restack(st, ci, ti, jd, cs, fc)
    BY <1>6 DEF HeapState, Restack
  <2> HIDE DEF ci, ti, cs, fc
  <2>0. CpuTables(ci, ti, jd, cs, fc) BY <1>4, <2>1, <2>2 DEF CpuTables
  <2>4. /\ r \in HeapState /\ OnlyStacks(st, r)
        /\ r.cpu_id = ci /\ r.thread_id = ti /\ r.stack_location = jd
        /\ r.cpu_set_of = cs /\ r.free_cpu = fc
    BY <2>3, <2>0, Restacked
  <2>5. r \in HeapState /\ OnlyStacks(st, r) /\ r.cpu_set_of = st.cpu_set_of
    BY <2>1, <2>4
  <2>6. r.cpu_id = [st.cpu_id EXCEPT ![t] = None] BY <2>4 DEF ci
  <2>7. r.thread_id = [st.thread_id EXCEPT ![c] = None] BY <2>4 DEF ti
  <2>8. r.free_cpu = [st.free_cpu EXCEPT ![s] = Append(st.free_cpu[s], c)] BY <2>4 DEF fc
  <2> QED BY <2>4, <2>5, <2>6, <2>7, <2>8
<1>8. /\ FreeCpus(r, s) = M \cup {c}
      /\ \A s2 \in CpuSet : s2 # s => FreeCpus(r, s2) = FreeCpus(st, s2) /\ c \notin FreeCpus(st, s2)
  <2>1. \A d \in Cpu : r.thread_id[d] = IF d = c THEN None ELSE st.thread_id[d]
    <3>1. PICK f : f = st.thread_id OBVIOUS
    <3>2. f \in [Cpu -> Thread \cup {None}] BY <3>1 DEF HeapState
    <3> QED BY <3>1, <3>2, <1>7
  <2>2. r.cpu_set_of = st.cpu_set_of BY <1>7
  <2>3. FreeCpus(r, s) = M \cup {c} BY <2>1, <2>2 DEF FreeCpus
  <2>4. ASSUME NEW s2 \in CpuSet, s2 # s
        PROVE  FreeCpus(r, s2) = FreeCpus(st, s2) /\ c \notin FreeCpus(st, s2)
    BY <2>1, <2>2, <2>4 DEF FreeCpus
  <2> QED BY <2>3, <2>4
<1>9. /\ r.free_cpu[s] = Append(st.free_cpu[s], c)
      /\ \A s2 \in CpuSet : s2 # s => r.free_cpu[s2] = st.free_cpu[s2]
  <2>1. PICK f, w : f = st.free_cpu /\ w = Append(st.free_cpu[s], c) OBVIOUS
  <2>2. f \in [CpuSet -> Seq(Cpu)] BY <2>1 DEF HeapState
  <2>3. r.free_cpu = [f EXCEPT ![s] = w] BY <2>1, <1>7
  <2> QED BY <2>1, <2>2, <2>3, <1>1
<1>10. ASSUME NEW s2 \in CpuSet PROVE Listed(Stack(r, s2), Cpu, FreeCpus(r, s2))
  <2>1. CASE s2 = s
    <3>1. Stack(r, s) = [at |-> Append(st.free_cpu[s], c), id |-> jd] BY <1>7, <1>9 DEF Stack
    <3> HIDE DEF M
    <3> QED BY <2>1, <3>1, <1>3, <1>8
  <2>2. CASE s2 # s
    <3>1. Listed([at |-> st.free_cpu[s2], id |-> st.stack_location], Cpu, FreeCpus(st, s2))
      BY DEF StacksHold, Stack
    <3>2. \A d \in FreeCpus(st, s2) : jd[d] = st.stack_location[d]
      BY <2>2, <1>5, <1>8 DEF FreeCpus
    <3>3. Listed([at |-> st.free_cpu[s2], id |-> jd], Cpu, FreeCpus(st, s2))
      BY <3>1, <3>2, <1>4, ListedKept
    <3> QED BY <2>2, <3>3, <1>7, <1>8, <1>9 DEF Stack
  <2> QED BY <2>1, <2>2
<1>11. ASSUME NEW d \in Cpu, r.thread_id[d] # None PROVE r.stack_location[d] = 0
  <2>1. d # c /\ st.thread_id[d] # None BY <1>7, <1>11 DEF HeapState
  <2> QED BY <2>1, <1>5, <1>7 DEF StacksHold
<1> QED BY <1>7, <1>9, <1>10, <1>11 DEF StacksHold, Left

OnTop(st, t, s, n, c) ==
  /\ s = st.cpu_set_id[t] /\ st.free_cpu[s] # <<>>
  /\ n = Len(st.free_cpu[s]) /\ c = st.free_cpu[s][n]

Entered(st, r, t, c, s) ==
  /\ c \in FreeCpus(st, s)
  /\ r.cpu_set_of = st.cpu_set_of
  /\ r.cpu_id = [st.cpu_id EXCEPT ![t] = c]
  /\ r.thread_id = [st.thread_id EXCEPT ![c] = t]

LEMMA EnterKeepsStacks ==
  ASSUME NEW st \in HeapState, StacksHold(st), NEW t \in Thread,
         NEW s, NEW n, NEW c, OnTop(st, t, s, n, c),
         NEW r, r = EnterRunState(st, t)
  PROVE  r \in HeapState /\ StacksHold(r) /\ OnlyStacks(st, r) /\ Entered(st, r, t, c, s)
<1> USE DEF OnTop
<1> DEFINE M == FreeCpus(st, s)
           H == Stack(st, s)
           A == SubSeq(st.free_cpu[s], 1, n - 1)
           jd == [st.stack_location EXCEPT ![c] = 0]
<1>1. s \in CpuSet /\ st.free_cpu[s] \in Seq(Cpu) BY DEF HeapState
<1>2. Listed(H, Cpu, M) /\ H.at = st.free_cpu[s] /\ H.id = st.stack_location
  BY <1>1 DEF StacksHold, Stack
<1>3. n \in Nat \ {0} /\ n \in 1..n BY <1>1
<1>4. c \in M /\ c \in Cpu /\ H.id[c] = n
  <2> HIDE DEF H, M
  <2> QED BY <1>2, <1>3, ListedFacts
<1>5. st.cpu_set_of[c] = s /\ st.thread_id[c] = None BY <1>4 DEF FreeCpus
<1>6. 0 \in Slots(Cpu)
  <2>1. PICK k : k = Cardinality(Cpu) /\ k \in Nat BY SchedulerAssumption, FS_CardinalityType
  <2> QED BY <2>1 DEF Slots
<1>7. /\ jd \in [Cpu -> Slots(Cpu)] /\ jd[c] = 0
      /\ \A d \in Cpu : d # c => jd[d] = st.stack_location[d]
  BY <1>4, <1>6 DEF HeapState
<1>8. A \in Seq(Cpu) /\ Len(A) = n - 1 /\ \A j \in 1..(n - 1) : A[j] = st.free_cpu[s][j]
  BY <1>1, <1>3
<1> HIDE DEF jd, A
<1>9. Listed([at |-> A, id |-> jd], Cpu, M \ {c})
  <2>1. Shortened(H, A, jd, c, n, n, c, Cpu, M)
    <3>1. \A j \in 1..(n - 1) : A[j] = IF j = n THEN c ELSE H.at[j] BY <1>2, <1>3, <1>8
    <3>2. \A u \in M : u # c => jd[u] = H.id[u] BY <1>2, <1>7 DEF FreeCpus
    <3> HIDE DEF H, M
    <3> QED BY <3>1, <3>2, <1>2, <1>4, <1>7, <1>8 DEF Shortened
  <2> HIDE DEF H, M, OnTop
  <2>2. /\ n \in Nat \ {0} /\ n \in 1..n /\ c \in M
        /\ c = c => n = n
        /\ c # c => n \in 1..(n - 1)
        /\ Listed([at |-> A, id |-> jd], Cpu, M \ {c})
    BY <2>1, <1>2, <1>4, ListedShortened
  <2> QED BY <2>2
<1>10. r = [st EXCEPT !.cpu_id[t] = c, !.thread_id[c] = t, !.stack_location = jd,
                      !.cpu_set_of[c] = s, !.free_cpu[s] = A]
  BY DEF EnterRunState, HeapState, jd, A
<1>11. /\ r \in HeapState /\ OnlyStacks(st, r)
       /\ r.cpu_set_of = st.cpu_set_of
       /\ r.cpu_id = [st.cpu_id EXCEPT ![t] = c]
       /\ r.thread_id = [st.thread_id EXCEPT ![c] = t]
       /\ r.free_cpu = [st.free_cpu EXCEPT ![s] = A]
       /\ r.stack_location = jd
  <2> DEFINE ci == [st.cpu_id EXCEPT ![t] = c]
             ti == [st.thread_id EXCEPT ![c] = t]
             cs == [st.cpu_set_of EXCEPT ![c] = s]
             fc == [st.free_cpu EXCEPT ![s] = A]
  <2>1. /\ ci \in [Thread -> Cpu \cup {None}] /\ ti \in [Cpu -> Thread \cup {None}]
        /\ cs \in [Cpu -> CpuSet]
    BY <1>1, <1>4 DEF HeapState
  <2>2. fc \in [CpuSet -> Seq(Cpu)] BY <1>1, <1>8 DEF HeapState
  <2>3. r = Restack(st, ci, ti, jd, cs, fc)
    BY <1>10 DEF HeapState, Restack
  <2>4. cs = st.cpu_set_of BY <1>4, <1>5 DEF HeapState
  <2> HIDE DEF ci, ti, cs, fc
  <2>0. CpuTables(ci, ti, jd, cs, fc) BY <1>7, <2>1, <2>2 DEF CpuTables
  <2>5. /\ r \in HeapState /\ OnlyStacks(st, r)
        /\ r.cpu_id = ci /\ r.thread_id = ti /\ r.stack_location = jd
        /\ r.cpu_set_of = cs /\ r.free_cpu = fc
    BY <2>3, <2>0, Restacked
  <2>6. r \in HeapState /\ OnlyStacks(st, r) /\ r.cpu_set_of = st.cpu_set_of
    BY <2>4, <2>5
  <2>7. r.cpu_id = [st.cpu_id EXCEPT ![t] = c] BY <2>5 DEF ci
  <2>8. r.thread_id = [st.thread_id EXCEPT ![c] = t] BY <2>5 DEF ti
  <2>9. r.free_cpu = [st.free_cpu EXCEPT ![s] = A] BY <2>5 DEF fc
  <2> QED BY <2>5, <2>6, <2>7, <2>8, <2>9
<1>12. t # None BY SchedulerConstants
<1>13. /\ FreeCpus(r, s) = M \ {c}
       /\ \A s2 \in CpuSet : s2 # s => FreeCpus(r, s2) = FreeCpus(st, s2) /\ c \notin FreeCpus(st, s2)
  <2>1. \A d \in Cpu : r.thread_id[d] = IF d = c THEN t ELSE st.thread_id[d]
    <3>1. PICK f : f = st.thread_id OBVIOUS
    <3>2. f \in [Cpu -> Thread \cup {None}] BY <3>1 DEF HeapState
    <3> QED BY <3>1, <3>2, <1>4, <1>11
  <2>2. r.cpu_set_of = st.cpu_set_of BY <1>11
  <2>3. FreeCpus(r, s) = M \ {c} BY <2>1, <2>2, <1>12 DEF FreeCpus
  <2>4. ASSUME NEW s2 \in CpuSet, s2 # s
        PROVE  FreeCpus(r, s2) = FreeCpus(st, s2) /\ c \notin FreeCpus(st, s2)
    BY <2>1, <2>2, <2>4, <1>5 DEF FreeCpus
  <2> QED BY <2>3, <2>4
<1>14. /\ r.free_cpu[s] = A
       /\ \A s2 \in CpuSet : s2 # s => r.free_cpu[s2] = st.free_cpu[s2]
  BY <1>1, <1>11 DEF HeapState
<1>15. ASSUME NEW s2 \in CpuSet PROVE Listed(Stack(r, s2), Cpu, FreeCpus(r, s2))
  <2>1. CASE s2 = s
    <3>1. Stack(r, s) = [at |-> A, id |-> jd] BY <1>11, <1>14 DEF Stack
    <3> HIDE DEF M
    <3> QED BY <2>1, <3>1, <1>9, <1>13
  <2>2. CASE s2 # s
    <3>1. Listed([at |-> st.free_cpu[s2], id |-> st.stack_location], Cpu, FreeCpus(st, s2))
      BY DEF StacksHold, Stack
    <3>2. \A d \in FreeCpus(st, s2) : jd[d] = st.stack_location[d]
      BY <2>2, <1>7, <1>13 DEF FreeCpus
    <3>3. Listed([at |-> st.free_cpu[s2], id |-> jd], Cpu, FreeCpus(st, s2))
      BY <3>1, <3>2, <1>7, ListedKept
    <3> QED BY <2>2, <3>3, <1>11, <1>13, <1>14 DEF Stack
  <2> QED BY <2>1, <2>2
<1>16. ASSUME NEW d \in Cpu, r.thread_id[d] # None PROVE r.stack_location[d] = 0
  <2>1. CASE d = c BY <2>1, <1>7, <1>11
  <2>2. CASE d # c
    <3>1. st.thread_id[d] # None BY <2>2, <1>11, <1>16 DEF HeapState
    <3> QED BY <2>2, <3>1, <1>7, <1>11 DEF StacksHold
  <2> QED BY <2>1, <2>2
<1> QED BY <1>4, <1>11, <1>15, <1>16 DEF StacksHold, Entered

LEMMA MoveKeepsStacks ==
  ASSUME NEW st \in HeapState, StacksHold(st),
         NEW c \in Cpu, st.thread_id[c] = None,
         NEW new \in CpuSet, new # st.cpu_set_of[c],
         NEW r, r = MoveFreeCpu(st, c, new)
  PROVE  /\ r \in HeapState /\ StacksHold(r) /\ OnlyStacks(st, r)
         /\ r.cpu_id = st.cpu_id /\ r.thread_id = st.thread_id
         /\ r.cpu_set_of = [st.cpu_set_of EXCEPT ![c] = new]
<1> DEFINE old == st.cpu_set_of[c]
           h == st.stack_location[c]
           n == Len(st.free_cpu[old])
           d == st.free_cpu[old][n]
           M == FreeCpus(st, old)
           N == FreeCpus(st, new)
           H == Stack(st, old)
           A == SubSeq([st.free_cpu[old] EXCEPT ![h] = d], 1, n - 1)
           k == Len(st.free_cpu[new]) + 1
           jd == [st.stack_location EXCEPT ![d] = h, ![c] = k]
           B == Append(st.free_cpu[new], c)
<1>1. old \in CpuSet /\ st.free_cpu[old] \in Seq(Cpu) /\ st.free_cpu[new] \in Seq(Cpu)
  BY DEF HeapState
<1>2. Listed(H, Cpu, M) /\ H.at = st.free_cpu[old] /\ H.id = st.stack_location
  BY <1>1 DEF StacksHold, Stack
<1>3. c \in M /\ c \notin N BY DEF FreeCpus
<1>4. h \in 1..n /\ H.at[h] = c
  <2> HIDE DEF H, M
  <2> QED BY <1>2, <1>3, ListedFacts
<1>5. n \in Nat \ {0} /\ n \in 1..n BY <1>1, <1>4
<1>6. d \in M /\ d \in Cpu /\ st.thread_id[d] = None /\ st.cpu_set_of[d] = old
  <2>1. d \in M
    <3> HIDE DEF H, M
    <3> QED BY <1>2, <1>5, ListedFacts
  <2> QED BY <2>1 DEF FreeCpus
<1>7. Listed([at |-> B, id |-> [st.stack_location EXCEPT ![c] = k]], Cpu, N \cup {c})
  <2>1. Listed(Stack(st, new), Cpu, N) BY DEF StacksHold
  <2>2. Listed([at |-> Append(Stack(st, new).at, c),
                id |-> [Stack(st, new).id EXCEPT ![c] = Len(Stack(st, new).at) + 1]], Cpu, N \cup {c})
    <3> HIDE DEF N
    <3> QED BY <2>1, <1>3, SchedulerAssumption, ListedAppended
  <2>3. Stack(st, new).at = st.free_cpu[new] /\ Stack(st, new).id = st.stack_location BY DEF Stack
  <2> QED BY <2>2, <2>3
<1>8. /\ jd \in [Cpu -> Slots(Cpu)] /\ jd[c] = k /\ (d # c => jd[d] = h)
      /\ \A e \in Cpu : e # c /\ e # d => jd[e] = st.stack_location[e]
  <2>1. [st.stack_location EXCEPT ![c] = k] \in [Cpu -> Slots(Cpu)]
    <3>1. DOMAIN [st.stack_location EXCEPT ![c] = k] = Cpu BY DEF HeapState
    <3> DEFINE G == [at |-> B, id |-> [st.stack_location EXCEPT ![c] = k]]
    <3>2. G.id \in [Cpu -> Slots(Cpu)]
      <4>1. Listed(G, Cpu, N \cup {c}) BY <1>7
      <4> HIDE DEF G, N
      <4> QED BY <4>1, ListedFacts
    <3> QED BY <3>2
  <2>2. k \in Slots(Cpu) /\ h \in Slots(Cpu)
    <3>1. [st.stack_location EXCEPT ![c] = k][c] = k BY DEF HeapState
    <3>2. h \in Slots(Cpu) BY DEF HeapState
    <3> QED BY <2>1, <3>1, <3>2
  <2> HIDE DEF k, h, d
  <2> QED BY <2>2, <1>6 DEF HeapState
<1>9. A \in Seq(Cpu) /\ Len(A) = n - 1
      /\ \A j \in 1..(n - 1) : A[j] = IF j = h THEN d ELSE st.free_cpu[old][j]
  <2> DEFINE C == [st.free_cpu[old] EXCEPT ![h] = d]
  <2>1. C \in Seq(Cpu) /\ Len(C) = n
        /\ \A j \in 1..n : C[j] = IF j = h THEN d ELSE st.free_cpu[old][j]
    <3> HIDE DEF d, h
    <3> QED BY <1>1, <1>4, <1>6
  <2> HIDE DEF C, n, d, h
  <2>2. n - 1 \in 0..Len(C) BY <2>1, <1>5
  <2>3. /\ SubSeq(C, 1, n - 1) \in Seq(Cpu) /\ Len(SubSeq(C, 1, n - 1)) = n - 1
        /\ \A j \in 1..(n - 1) : SubSeq(C, 1, n - 1)[j] = C[j]
    BY <2>1, <2>2
  <2>4. \A j \in 1..(n - 1) : j \in 1..n BY <1>5
  <2> QED BY <2>1, <2>3, <2>4 DEF C
<1> HIDE DEF A, B, jd, M, N, H
<1>10. Listed([at |-> A, id |-> jd], Cpu, M \ {c})
  <2>1. Shortened(H, A, jd, c, n, h, d, Cpu, M)
    <3>1. \A j \in 1..(n - 1) : A[j] = IF j = h THEN d ELSE H.at[j] BY <1>2, <1>9
    <3>2. \A u \in M : u # c /\ u # d => jd[u] = H.id[u] BY <1>2, <1>8 DEF FreeCpus, M
    <3>3. n = Len(H.at) /\ h = H.id[c] /\ d = H.at[n] BY <1>2
    <3> HIDE DEF n, h, d
    <3> QED BY <3>1, <3>2, <3>3, <1>8, <1>9 DEF Shortened
  <2> HIDE DEF n, h, d
  <2> QED BY <2>1, <1>2, <1>3, ListedShortened
<1>11. Listed([at |-> B, id |-> jd], Cpu, N \cup {c})
  <2>1. \A u \in N \cup {c} : jd[u] = [st.stack_location EXCEPT ![c] = k][u]
    <3>1. ASSUME NEW u \in N, u # c PROVE jd[u] = st.stack_location[u]
      <4>1. u \in Cpu /\ st.cpu_set_of[u] = new BY DEF N, FreeCpus
      <4>2. u # d BY <4>1, <1>6
      <4> QED BY <3>1, <4>1, <4>2, <1>8
    <3>2. jd[c] = k BY <1>8
    <3>3. \A u \in N : u \in Cpu BY DEF N, FreeCpus
    <3> QED BY <3>1, <3>2, <3>3 DEF HeapState
  <2>2. jd \in [Cpu -> Slots(Cpu)] BY <1>8
  <2> DEFINE id == [st.stack_location EXCEPT ![c] = k]
  <2>3. Listed([at |-> B, id |-> id], Cpu, N \cup {c}) BY <1>7
  <2>4. \A u \in N \cup {c} : jd[u] = id[u] BY <2>1
  <2> HIDE DEF id
  <2> QED BY <2>2, <2>3, <2>4, ListedKept
<1>12. /\ r \in HeapState /\ OnlyStacks(st, r)
       /\ r.cpu_id = st.cpu_id /\ r.thread_id = st.thread_id
       /\ r.cpu_set_of = [st.cpu_set_of EXCEPT ![c] = new]
       /\ r.stack_location = jd
       /\ r.free_cpu = [st.free_cpu EXCEPT ![old] = A, ![new] = B]
  <2> DEFINE ti == [st.thread_id EXCEPT ![d] = None, ![c] = None]
             cs == [st.cpu_set_of EXCEPT ![c] = new]
             fc == [st.free_cpu EXCEPT ![old] = A, ![new] = B]
             ci == st.cpu_id
  <2>1. ti = st.thread_id BY <1>6 DEF HeapState
  <2>2. /\ ti \in [Cpu -> Thread \cup {None}] /\ cs \in [Cpu -> CpuSet]
        /\ ci \in [Thread -> Cpu \cup {None}]
    BY <2>1 DEF HeapState
  <2>3. fc \in [CpuSet -> Seq(Cpu)]
    <3>1. B \in Seq(Cpu) BY <1>1 DEF B
    <3> QED BY <3>1, <1>1, <1>9 DEF HeapState
  <2>4. r = Restack(st, ci, ti, jd, cs, fc)
    <3> DEFINE q == [st EXCEPT !.thread_id[d] = None, !.stack_location[d] = h, !.free_cpu[old] = A]
    <3>1. q.free_cpu = [st.free_cpu EXCEPT ![old] = A]
          /\ q.stack_location = [st.stack_location EXCEPT ![d] = h]
          /\ q.thread_id = [st.thread_id EXCEPT ![d] = None]
      BY DEF HeapState
    <3>2. r = [q EXCEPT !.thread_id[c] = None, !.cpu_set_of[c] = new,
                        !.stack_location[c] = k, !.free_cpu[new] = Append(@, c)]
      BY DEF MoveFreeCpu, A
    <3>3. q.free_cpu[new] = st.free_cpu[new] BY <3>1, <1>1 DEF HeapState
    <3>4. r = [q EXCEPT !.thread_id = ti, !.cpu_set_of = cs,
                        !.stack_location = jd, !.free_cpu = fc]
      BY <3>1, <3>2, <3>3 DEF HeapState, jd, B
    <3> HIDE DEF ti, cs, fc
    <3>5. [q EXCEPT !.thread_id = ti, !.cpu_set_of = cs, !.stack_location = jd, !.free_cpu = fc]
            = [st EXCEPT !.cpu_id = ci, !.thread_id = ti, !.stack_location = jd,
                         !.cpu_set_of = cs, !.free_cpu = fc]
      BY DEF HeapState
    <3> QED BY <3>4, <3>5 DEF Restack
  <2> HIDE DEF ci, ti, cs, fc
  <2>0. CpuTables(ci, ti, jd, cs, fc) BY <1>8, <2>2, <2>3 DEF CpuTables
  <2>5. /\ r \in HeapState /\ OnlyStacks(st, r)
        /\ r.cpu_id = ci /\ r.thread_id = ti /\ r.stack_location = jd
        /\ r.cpu_set_of = cs /\ r.free_cpu = fc
    BY <2>4, <2>0, Restacked
  <2> QED BY <2>1, <2>5 DEF ci, cs, fc
<1>13. /\ r.free_cpu[old] = A /\ r.free_cpu[new] = B
       /\ \A x \in CpuSet : x # old /\ x # new => r.free_cpu[x] = st.free_cpu[x]
  BY <1>1, <1>12 DEF HeapState
<1>14. \A e \in Cpu : r.cpu_set_of[e] = IF e = c THEN new ELSE st.cpu_set_of[e]
  BY <1>12 DEF HeapState
<1>15. FreeCpus(r, old) = M \ {c} BY <1>12, <1>14 DEF FreeCpus, M
<1>16. FreeCpus(r, new) = N \cup {c} BY <1>12, <1>14 DEF FreeCpus, N
<1> HIDE DEF old, d, h, n, k
<1>17. ASSUME NEW x \in CpuSet PROVE Listed(Stack(r, x), Cpu, FreeCpus(r, x))
  <2>1. CASE x = old BY <2>1, <1>10, <1>12, <1>13, <1>15 DEF Stack
  <2>2. CASE x = new BY <2>2, <1>11, <1>12, <1>13, <1>16 DEF Stack
  <2>3. CASE x # old /\ x # new
    <3>1. FreeCpus(r, x) = FreeCpus(st, x) BY <2>3, <1>12, <1>14 DEF FreeCpus, old
    <3>2. Listed([at |-> st.free_cpu[x], id |-> st.stack_location], Cpu, FreeCpus(st, x))
      BY DEF StacksHold, Stack
    <3>3. \A e \in FreeCpus(st, x) : jd[e] = st.stack_location[e]
      <4>1. \A e \in FreeCpus(st, x) : e \in Cpu /\ e # c /\ e # d
        BY <2>3, <1>6 DEF FreeCpus, old
      <4> QED BY <4>1, <1>8
    <3>4. jd \in [Cpu -> Slots(Cpu)] BY <1>8
    <3>5. Listed([at |-> st.free_cpu[x], id |-> jd], Cpu, FreeCpus(st, x))
      BY <3>2, <3>3, <3>4, ListedKept
    <3> QED BY <2>3, <3>1, <3>5, <1>12, <1>13 DEF Stack
  <2> QED BY <2>1, <2>2, <2>3
<1>18. ASSUME NEW e \in Cpu, r.thread_id[e] # None PROVE r.stack_location[e] = 0
  <2>1. st.thread_id[e] # None /\ e # c /\ e # d BY <1>6, <1>12, <1>18
  <2> QED BY <2>1, <1>8, <1>12 DEF StacksHold
<1> QED BY <1>12, <1>17, <1>18 DEF StacksHold
-----------------------------------------------------------------------------
(* The tables Scheduler speaks of, and what heaps and stacks say of them.  *)
Tables(st) ==
  [state |-> st.state, priority |-> st.priority, cpu_set_id |-> st.cpu_set_id,
   cpu_id |-> st.cpu_id, thread_id |-> st.thread_id, cpu_set_of |-> st.cpu_set_of]

Solid(st) == st \in HeapState /\ Filled(st, st.state) /\ StacksHold(st)

LEMMA TablesFacts ==
  ASSUME NEW st
  PROVE  /\ Tables(st).state = st.state /\ Tables(st).priority = st.priority
         /\ Tables(st).cpu_set_id = st.cpu_set_id /\ Tables(st).cpu_id = st.cpu_id
         /\ Tables(st).thread_id = st.thread_id /\ Tables(st).cpu_set_of = st.cpu_set_of
         /\ \A s : FreeCpus(Tables(st), s) = FreeCpus(st, s)
         /\ \A s, z : ThreadsIn(Tables(st), s, z) = With(st, st.state, s, z)
BY DEF Tables, FreeCpus, ThreadsIn, With

LEMMA Emptiness ==
  ASSUME NEW st, Solid(st), NEW s \in CpuSet
  PROVE  /\ st.free_cpu[s] = <<>> <=> FreeCpus(Tables(st), s) = {}
         /\ st.run_heap[s] = <<>> <=> ThreadsIn(Tables(st), s, "RUN") = {}
         /\ st.ready_heap[s] = <<>> <=> ThreadsIn(Tables(st), s, "READY") = {}
<1>1. /\ Listed(Stack(st, s), Cpu, FreeCpus(st, s))
      /\ Listed(RunHeap(st, s), Thread, With(st, st.state, s, "RUN"))
      /\ Listed(ReadyHeap(st, s), Thread, With(st, st.state, s, "READY"))
  BY DEF Solid, StacksHold, Filled, SetFilled, HeapOf
<1>2. /\ Stack(st, s).at = <<>> <=> FreeCpus(st, s) = {}
      /\ RunHeap(st, s).at = <<>> <=> With(st, st.state, s, "RUN") = {}
      /\ ReadyHeap(st, s).at = <<>> <=> With(st, st.state, s, "READY") = {}
  BY <1>1, ListedEmpty
<1>3. /\ Stack(st, s).at = st.free_cpu[s] /\ RunHeap(st, s).at = st.run_heap[s]
      /\ ReadyHeap(st, s).at = st.ready_heap[s]
  BY DEF Stack, RunHeap, ReadyHeap
<1>4. /\ FreeCpus(Tables(st), s) = FreeCpus(st, s)
      /\ ThreadsIn(Tables(st), s, "RUN") = With(st, st.state, s, "RUN")
      /\ ThreadsIn(Tables(st), s, "READY") = With(st, st.state, s, "READY")
  BY TablesFacts
<1> QED BY <1>2, <1>3, <1>4

(* The roots are a worst running and a best ready thread.                  *)
LEMMA RunRoot ==
  ASSUME NEW st, Solid(st), NEW s \in CpuSet, st.run_heap[s] # <<>>
  PROVE  /\ 1 \in 1..Len(st.run_heap[s])
         /\ st.run_heap[s][1] \in WorstRunning(Tables(st), s)
<1> DEFINE M == With(st, st.state, s, "RUN")
           H == RunHeap(st, s)
           key == RunKey(st)
<1>1. HeapOf(H, key, Thread, M) BY DEF Solid, Filled, SetFilled
<1>2. key \in [Thread -> Int] /\ st.priority \in [Thread -> Int] BY Keys DEF Solid
<1>3. M # {} /\ M = ThreadsIn(Tables(st), s, "RUN") /\ M \subseteq Thread
  BY Emptiness, TablesFacts DEF With
<1>4. H.at = st.run_heap[s] BY DEF RunHeap
<1>5. \A u \in Thread : key[u] = -st.priority[u] BY DEF RunKey
<1> HIDE DEF M, H, key
<1>6. ASSUME NEW u \in M
      PROVE  1 \in 1..Len(H.at) /\ H.at[1] \in M /\ H.at[1] \in Thread /\ key[H.at[1]] <= key[u]
  BY <1>1, <1>2, RootIsFirst
<1>7. PICK g : g = H.at[1] BY DEF H
<1>8. \A u \in M : g \in M /\ g \in Thread /\ key[g] <= key[u] /\ 1 \in 1..Len(H.at)
  BY <1>6, <1>7
<1>9. g \in M /\ 1 \in 1..Len(H.at) BY <1>3, <1>8
<1>10. ASSUME NEW u \in M PROVE st.priority[u] <= st.priority[g]
  <2>1. key[g] <= key[u] /\ g \in Thread /\ u \in Thread BY <1>3, <1>8
  <2>2. st.priority[g] \in Int /\ st.priority[u] \in Int BY <2>1, <1>2
  <2> QED BY <2>1, <2>2, <1>5
<1> QED BY <1>3, <1>4, <1>7, <1>9, <1>10, TablesFacts DEF WorstRunning

LEMMA ReadyRoot ==
  ASSUME NEW st, Solid(st), NEW s \in CpuSet, st.ready_heap[s] # <<>>
  PROVE  /\ 1 \in 1..Len(st.ready_heap[s])
         /\ st.ready_heap[s][1] \in BestReady(Tables(st), s)
<1> DEFINE M == With(st, st.state, s, "READY")
           H == ReadyHeap(st, s)
           key == st.priority
<1>1. HeapOf(H, key, Thread, M) BY DEF Solid, Filled, SetFilled
<1>2. key \in [Thread -> Int] BY Keys DEF Solid
<1>3. M # {} /\ M = ThreadsIn(Tables(st), s, "READY")
  BY Emptiness, TablesFacts
<1>4. H.at = st.ready_heap[s] BY DEF ReadyHeap
<1> HIDE DEF M, H, key
<1>6. ASSUME NEW u \in M
      PROVE  1 \in 1..Len(H.at) /\ H.at[1] \in M /\ H.at[1] \in Thread /\ key[H.at[1]] <= key[u]
  BY <1>1, <1>2, RootIsFirst
<1>7. H.at[1] \in M /\ 1 \in 1..Len(H.at) BY <1>3, <1>6
<1>8. \A u \in M : st.priority[H.at[1]] <= st.priority[u] BY <1>6 DEF key
<1> QED BY <1>3, <1>4, <1>7, <1>8, TablesFacts DEF BestReady

-----------------------------------------------------------------------------
(* Steps between the calls of a function.                                  *)
OnlyState(st, r, y) ==
  /\ r.state = y /\ r.priority = st.priority /\ r.cpu_set_id = st.cpu_set_id
  /\ r.cpu_id = st.cpu_id /\ r.heap_id = st.heap_id /\ r.thread_id = st.thread_id
  /\ r.cpu_set_of = st.cpu_set_of /\ r.stack_location = st.stack_location
  /\ r.free_cpu = st.free_cpu /\ r.run_heap = st.run_heap /\ r.ready_heap = st.ready_heap

LEMMA StateChanged ==
  ASSUME NEW st \in HeapState, NEW x, Filled(st, x), StacksHold(st),
         NEW t \in Thread, NEW z \in States,
         NEW r, r = [st EXCEPT !.state[t] = z]
  PROVE  /\ r \in HeapState /\ Filled(r, x) /\ StacksHold(r)
         /\ OnlyState(st, r, Marked(st.state, t, z))
<1>1. r \in HeapState /\ OnlyState(st, r, Marked(st.state, t, z))
  BY DEF HeapState, OnlyState, Marked
<1>2. Filled(r, x) BY <1>1 DEF Filled, SetFilled, OnlyState, RunHeap, ReadyHeap, RunKey, With
<1>3. StacksHold(r) BY <1>1 DEF StacksHold, OnlyState, Stack, FreeCpus
<1> QED BY <1>1, <1>2, <1>3

LEMMA StatesChanged ==
  ASSUME NEW st \in HeapState, NEW x, Filled(st, x), StacksHold(st),
         NEW t \in Thread, NEW z \in States, NEW g \in Thread, NEW w \in States,
         NEW r, r = [st EXCEPT !.state[t] = z, !.state[g] = w]
  PROVE  /\ r \in HeapState /\ Filled(r, x) /\ StacksHold(r)
         /\ OnlyState(st, r, Marked(Marked(st.state, t, z), g, w))
<1>1. PICK b : b = [st EXCEPT !.state[t] = z] OBVIOUS
<1>2. r = [b EXCEPT !.state[g] = w] BY <1>1 DEF HeapState
<1>3. /\ b \in HeapState /\ Filled(b, x) /\ StacksHold(b)
      /\ OnlyState(st, b, Marked(st.state, t, z))
  BY <1>1, StateChanged
<1>4. PICK y : y = Marked(b.state, g, w) OBVIOUS
<1>5. r \in HeapState /\ Filled(r, x) /\ StacksHold(r) /\ OnlyState(b, r, y)
  BY <1>2, <1>3, <1>4, StateChanged
<1> QED BY <1>3, <1>4, <1>5 DEF OnlyState

LEMMA HeapsKeepStacks ==
  ASSUME NEW st, StacksHold(st), NEW r, OnlyHeaps(st, r)
  PROVE  StacksHold(r)
BY DEF StacksHold, OnlyHeaps, Stack, FreeCpus

(* The CPU of t passes on to u.                                            *)
PassedOn(st, r, t, u, c) ==
  /\ r.cpu_set_of = st.cpu_set_of
  /\ r.cpu_id = [st.cpu_id EXCEPT ![t] = None, ![u] = c]
  /\ r.thread_id = [st.thread_id EXCEPT ![c] = None, ![c] = u]

LEMMA CpuPassedOn ==
  ASSUME NEW st \in HeapState, StacksHold(st), NEW t \in Thread, NEW u \in Thread,
         NEW c, NEW s, RunsOn(st, t, c, s), s = st.cpu_set_id[u],
         NEW r, r = EnterRunState(LeaveRunState(st, t), u)
  PROVE  r \in HeapState /\ StacksHold(r) /\ OnlyStacks(st, r) /\ PassedOn(st, r, t, u, c)
<1>1. PICK q : q = LeaveRunState(st, t) OBVIOUS
<1>3. q \in HeapState /\ StacksHold(q) /\ OnlyStacks(st, q) /\ Left(st, q, t, c, s)
  BY <1>1, LeaveKeepsStacks
<1>4. s = q.cpu_set_id[u] BY <1>3 DEF OnlyStacks
<1>5. PICK n, d : n = Len(q.free_cpu[s]) /\ d = q.free_cpu[s][n] OBVIOUS
<1>6. d = c /\ q.free_cpu[s] # <<>>
  <2>1. s \in CpuSet BY DEF HeapState, RunsOn
  <2>2. PICK w \in Seq(Cpu) : w = st.free_cpu[s] BY <2>1 DEF HeapState
  <2>3. q.free_cpu[s] = Append(w, c) BY <2>2, <1>3 DEF Left
  <2>4. Append(w, c) # <<>> /\ Append(w, c)[Len(Append(w, c))] = c OBVIOUS
  <2> QED BY <2>3, <2>4, <1>5
<1>7. r = EnterRunState(q, u) /\ OnTop(q, u, s, n, d) BY <1>1, <1>4, <1>5, <1>6 DEF OnTop
<1>8. r \in HeapState /\ StacksHold(r) /\ OnlyStacks(q, r) /\ Entered(q, r, u, d, s)
  BY <1>3, <1>7, EnterKeepsStacks
<1> QED BY <1>3, <1>6, <1>8 DEF OnlyStacks, Left, Entered, PassedOn
-----------------------------------------------------------------------------
(* insert_into_heap preempts: t, awake now, takes the root of the run heap *)
(* from g.                                                                 *)
AtRoot(st, t, s) ==
  [st EXCEPT !.state[t] = "RUN", !.heap_id[t] = 1, !.run_heap[s][1] = t]
Sifted(st, t, s) ==
  LET placed == AtRoot(st, t, s)
  IN  WithRunHeap(placed, s, DownDeal(RunHeap(placed, s), RunKey(placed), t))

LEMMA RootTaken ==
  ASSUME NEW st, Solid(st), NEW t \in Thread, st.state[t] = "SLEEP",
         NEW s, s = st.cpu_set_id[t], st.run_heap[s] # <<>>,
         NEW g, g = st.run_heap[s][1], st.priority[t] <= st.priority[g],
         NEW r, r = Sifted(st, t, s),
         NEW a, a = [st EXCEPT !.state[t] = "RUN"],
         NEW y, y = Marked(Marked(st.state, t, "RUN"), g, "SLEEP")
  PROVE  r \in HeapState /\ Filled(r, y) /\ OnlyHeaps(a, r)
<1> DEFINE M == With(st, st.state, s, "RUN")
           H == RunHeap(st, s)
           key == RunKey(st)
           jd == [st.heap_id EXCEPT ![t] = 1]
           G == InPlace(H, 1, t, jd)
           MM == (M \ {g}) \cup {t}
           D == DownDeal(G, key, t)
<1>1. st \in HeapState /\ s \in CpuSet /\ Filled(st, st.state) /\ StacksHold(st)
  BY DEF Solid, HeapState
<1>2. 1 \in 1..Len(st.run_heap[s]) /\ g \in M /\ g \in Thread /\ g # t
  BY <1>1, RunRoot, TablesFacts DEF WorstRunning, With
<1>3. HeapOf(H, key, Thread, M) /\ Listed(H, Thread, M) BY <1>1 DEF Filled, SetFilled, HeapOf
<1>4. key \in [Thread -> Int] /\ st.priority \in [Thread -> Int] BY <1>1, Keys
<1>5. H.at = st.run_heap[s] /\ H.id = st.heap_id BY DEF RunHeap
<1>6. a \in HeapState /\ Filled(a, st.state) /\ OnlyState(st, a, Marked(st.state, t, "RUN"))
  BY <1>1, StateChanged DEF States
<1>7. r = [a EXCEPT !.run_heap[s] = D.at, !.heap_id = D.id]
  <2>1. PICK b : b = AtRoot(st, t, s) OBVIOUS
  <2>2. /\ b.heap_id = jd /\ b.priority = st.priority
        /\ b.run_heap = [st.run_heap EXCEPT ![s] = [st.run_heap[s] EXCEPT ![1] = t]]
    BY <2>1, <1>1 DEF AtRoot, HeapState
  <2>3. RunHeap(b, s) = G /\ RunKey(b) = key
    BY <2>2, <1>1, <1>5 DEF RunHeap, RunKey, HeapState, InPlace
  <2>4. r = WithRunHeap(b, s, D) BY <2>1, <2>3 DEF Sifted
  <2> HIDE DEF D
  <2>5. r = [b EXCEPT !.run_heap[s] = D.at, !.heap_id = D.id] BY <2>4 DEF WithRunHeap
  <2>6. [b.run_heap EXCEPT ![s] = D.at] = [st.run_heap EXCEPT ![s] = D.at]
    BY <2>2, <1>1 DEF HeapState
  <2>7. b = [a EXCEPT !.heap_id = b.heap_id, !.run_heap = b.run_heap]
    BY <2>1, <2>2, <1>1 DEF AtRoot, HeapState
  <2>8. r = [b EXCEPT !.run_heap = [st.run_heap EXCEPT ![s] = D.at], !.heap_id = D.id]
    BY <2>5, <2>6
  <2>9. r = [a EXCEPT !.run_heap = [st.run_heap EXCEPT ![s] = D.at], !.heap_id = D.id]
    BY <2>7, <2>8, <1>6 DEF HeapState
  <2> QED BY <2>9, <1>6 DEF HeapState, OnlyState
<1>8. /\ jd \in [Thread -> Slots(Thread)] /\ jd[t] = 1
      /\ \A u \in Thread : u # t => jd[u] = st.heap_id[u]
  <2>1. H.id[g] = 1 /\ H.id \in [Thread -> Slots(Thread)]
    <3>1. g = H.at[1] /\ 1 \in 1..Len(H.at) BY <1>2, <1>5
    <3> HIDE DEF H, M
    <3> QED BY <3>1, <1>3, ListedFacts
  <2>2. 1 \in Slots(Thread) BY <2>1, <1>2
  <2> QED BY <2>2, <1>1 DEF HeapState
<1>9. key[t] >= key[g]
  <2>1. key[t] = -st.priority[t] /\ key[g] = -st.priority[g] BY <1>2 DEF RunKey
  <2>2. st.priority[t] \in Int /\ st.priority[g] \in Int BY <1>2, <1>4
  <2> QED BY <2>1, <2>2
<1>10. Listed(G, Thread, MM) /\ G.id[t] = 1 /\ MayFall(G.at, key, 1)
  <2>1. g = H.at[1] /\ 1 \in 1..Len(H.at) BY <1>2, <1>5
  <2>2. t \notin M /\ \A u \in M : u # H.at[1] => jd[u] = H.id[u] BY <1>5, <1>8 DEF With
  <2>3. Replaces(H, 1, t, jd, Thread, M) BY <2>1, <2>2, <1>8 DEF Replaces
  <2>4. G = InPlace(H, 1, t, jd) OBVIOUS
  <2> HIDE DEF H, M, key, jd, G
  <2>5. Replaced(H, G, 1, t, key, Thread, M)
    BY <2>3, <2>4, <1>3, <1>4, HeapReplaced
  <2> QED BY <2>1, <2>5, <1>9 DEF Replaced
<1>11. Dealt(G, D, key, Thread, MM)
  <2>1. t \in MM OBVIOUS
  <2>2. MayFall(G.at, key, G.id[t]) BY <1>10
  <2> HIDE DEF MM, G, key
  <2> QED BY <2>1, <2>2, <1>4, <1>10, DownDealt
<1>12. /\ D.at = D.at /\ D.id \in [Thread -> Slots(Thread)]
       /\ HeapOf([at |-> D.at, id |-> D.id], key, Thread, MM)
       /\ \A u \in Thread : u \notin MM => D.id[u] = jd[u]
  <2>1. G.id = jd BY DEF InPlace
  <2> HIDE DEF D, G, MM, jd, key
  <2>2. DealtOut(G, D, key, MM) BY <1>11, DealtFacts
  <2> QED BY <2>1, <2>2 DEF DealtOut
<1> HIDE DEF D
<1>13. y \in [Thread -> States] /\ y[t] = "RUN" /\ y[g] = "SLEEP"
       /\ \A u \in Thread : u # t /\ u # g => y[u] = st.state[u]
  BY <1>1, <1>2 DEF HeapState, Marked, States
<1>14. /\ With(a, y, s, "RUN") = MM /\ RunKey(a) = key /\ a.priority = st.priority
       /\ With(a, y, s, "READY") = With(st, st.state, s, "READY")
  <2>1. a.cpu_set_id = st.cpu_set_id /\ a.priority = st.priority BY <1>6 DEF OnlyState
  <2>2. RunKey(a) = key BY <2>1 DEF RunKey
  <2>3. With(a, y, s, "RUN") = MM
    <3>1. st.cpu_set_id[g] = s BY <1>2 DEF With
    <3>2. PICK x : x = st.state OBVIOUS
    <3>3. SwapsTwo(st, a, x, y, s, "RUN", t, g)
      BY <3>1, <3>2, <2>1, <1>2, <1>13 DEF SwapsTwo
    <3>4. IsSwapped(st, a, x, y, s, "RUN", t, g) BY <3>3, Swapped
    <3> QED BY <3>2, <3>4 DEF IsSwapped
  <2>4. With(a, y, s, "READY") = With(st, st.state, s, "READY")
    <3>1. st.state[g] = "RUN" BY <1>2 DEF With
    <3>2. ASSUME NEW u \in Thread PROVE y[u] = "READY" <=> st.state[u] = "READY"
      BY <3>1, <1>13
    <3> QED BY <3>2, <2>1 DEF With
  <2> QED BY <2>1, <2>2, <2>3, <2>4
<1>15. HeapOf([at |-> st.ready_heap[s], id |-> D.id], st.priority, Thread,
              With(st, st.state, s, "READY"))
  <2>1. \A u \in With(st, st.state, s, "READY") : D.id[u] = st.heap_id[u]
    BY <1>2, <1>8, <1>12 DEF With
  <2>2. HeapOf([at |-> st.ready_heap[s], id |-> st.heap_id], st.priority, Thread,
               With(st, st.state, s, "READY"))
    BY <1>1 DEF Filled, SetFilled, ReadyHeap
  <2> QED BY <2>1, <2>2, <1>12, HeapKept
<1>16. r = [a EXCEPT !.run_heap[s] = D.at, !.ready_heap[s] = st.ready_heap[s],
                     !.heap_id = D.id]
  <2>1. [a.ready_heap EXCEPT ![s] = st.ready_heap[s]] = a.ready_heap
    BY <1>1, <1>6 DEF HeapState, OnlyState
  <2>2. r = [a EXCEPT !.run_heap[s] = D.at, !.ready_heap = a.ready_heap, !.heap_id = D.id]
    BY <1>6, <1>7 DEF HeapState
  <2> QED BY <2>1, <2>2, <1>6 DEF HeapState
<1>17. ASSUME NEW u \in Thread, a.cpu_set_id[u] # s
       PROVE  D.id[u] = a.heap_id[u] /\ y[u] = st.state[u]
  <2>1. u # t /\ u \notin M /\ u # g BY <1>2, <1>6, <1>17 DEF OnlyState, With
  <2>2. u \notin MM BY <2>1
  <2>3. D.id[u] = jd[u] /\ jd[u] = st.heap_id[u]
    <3> HIDE DEF MM, jd
    <3> QED BY <2>1, <2>2, <1>8, <1>12
  <2> QED BY <2>1, <2>3, <1>6, <1>13 DEF OnlyState
<1>18. Reheaped(a, st.state, r, y, s, D.at, st.ready_heap[s], D.id)
  <2>1. \A s2 \in CpuSet : s2 # s => SetFilled(a, st.state, s2) BY <1>6 DEF Filled
  <2> HIDE DEF M, MM, key
  <2> QED BY <2>1, <1>1, <1>12, <1>14, <1>15, <1>16, <1>17 DEF Reheaped, Heaped
<1> QED BY <1>6, <1>18, HeapsChanged DEF HeapsNow
(* A thread that runs does so on a CPU of its set.                         *)
LEMMA RunnerRuns ==
  ASSUME NEW st \in HeapState, Agree(Tables(st)), NEW t \in Thread, st.state[t] = "RUN",
         NEW r, r.cpu_id = st.cpu_id, r.thread_id = st.thread_id,
         r.cpu_set_id = st.cpu_set_id, r.cpu_set_of = st.cpu_set_of
  PROVE  RunsOn(r, t, st.cpu_id[t], st.cpu_set_id[t]) /\ st.thread_id[st.cpu_id[t]] = t
<1>1. /\ st.cpu_id[t] \in Cpu /\ st.thread_id[st.cpu_id[t]] = t
      /\ st.cpu_set_of[st.cpu_id[t]] = st.cpu_set_id[t]
  BY TablesFacts DEF Agree
<1>2. t # None BY SchedulerConstants
<1> QED BY <1>1, <1>2 DEF RunsOn

(* Tables with other states of threads and CPUs.                           *)
Changed(st, y, ci, ti) ==
  [state |-> y, priority |-> st.priority, cpu_set_id |-> st.cpu_set_id,
   cpu_id |-> ci, thread_id |-> ti, cpu_set_of |-> st.cpu_set_of]

LEMMA StopTables ==
  ASSUME NEW st, NEW u, NEW x
  PROVE  Stop(Tables(st), u, x) =
           Changed(st, Marked(st.state, u, x), [st.cpu_id EXCEPT ![u] = None],
                   [st.thread_id EXCEPT ![st.cpu_id[u]] = None])
<1>1. PICK w : w = Tables(st) OBVIOUS
<1>2. w \in [state : {st.state}, priority : {st.priority}, cpu_set_id : {st.cpu_set_id},
             cpu_id : {st.cpu_id}, thread_id : {st.thread_id}, cpu_set_of : {st.cpu_set_of}]
  BY <1>1 DEF Tables
<1>3. PICK r : r = Stop(w, u, x) OBVIOUS
<1>4. PICK y, ci, ti : /\ y = Marked(st.state, u, x)
                       /\ ci = [st.cpu_id EXCEPT ![u] = None]
                       /\ ti = [st.thread_id EXCEPT ![st.cpu_id[u]] = None]
  OBVIOUS
<1>5. r \in [state : {y}, priority : {st.priority}, cpu_set_id : {st.cpu_set_id},
             cpu_id : {ci}, thread_id : {ti}, cpu_set_of : {st.cpu_set_of}]
  BY <1>2, <1>3, <1>4 DEF Stop, Marked
<1>6. r = Changed(st, y, ci, ti) BY <1>5 DEF Changed
<1> QED BY <1>1, <1>3, <1>4, <1>6

LEMMA DispatchTables ==
  ASSUME NEW st, NEW t, NEW c
  PROVE  Dispatch(Tables(st), t, c) =
           Changed(st, Marked(st.state, t, "RUN"), [st.cpu_id EXCEPT ![t] = c],
                   [st.thread_id EXCEPT ![c] = t])
<1>1. PICK w : w = Tables(st) OBVIOUS
<1>2. w \in [state : {st.state}, priority : {st.priority}, cpu_set_id : {st.cpu_set_id},
             cpu_id : {st.cpu_id}, thread_id : {st.thread_id}, cpu_set_of : {st.cpu_set_of}]
  BY <1>1 DEF Tables
<1>3. PICK r : r = Dispatch(w, t, c) OBVIOUS
<1>4. PICK y, ci, ti : /\ y = Marked(st.state, t, "RUN")
                       /\ ci = [st.cpu_id EXCEPT ![t] = c]
                       /\ ti = [st.thread_id EXCEPT ![c] = t]
  OBVIOUS
<1>5. r \in [state : {y}, priority : {st.priority}, cpu_set_id : {st.cpu_set_id},
             cpu_id : {ci}, thread_id : {ti}, cpu_set_of : {st.cpu_set_of}]
  BY <1>2, <1>3, <1>4 DEF Dispatch, Marked
<1>6. r = Changed(st, y, ci, ti) BY <1>5 DEF Changed
<1> QED BY <1>1, <1>3, <1>4, <1>6

(* The tables after t has taken over from u, which is in state x now.      *)
LEMMA SwitchTables ==
  ASSUME NEW st \in HeapState, NEW u \in Thread, NEW x, NEW t \in Thread,
         NEW d, d.state = Marked(Marked(st.state, u, x), t, "RUN"),
         d.priority = st.priority, d.cpu_set_id = st.cpu_set_id,
         d.cpu_id = st.cpu_id, d.thread_id = st.thread_id, d.cpu_set_of = st.cpu_set_of,
         NEW r, OnlyStacks(d, r), PassedOn(d, r, u, t, st.cpu_id[u])
  PROVE  Tables(r) = Switch(Tables(st), u, x, t)
<1>1. PICK c, y, ci, ti :
         /\ c = st.cpu_id[u] /\ y = Marked(st.state, u, x)
         /\ ci = [st.cpu_id EXCEPT ![u] = None]
         /\ ti = [st.thread_id EXCEPT ![c] = None]
  OBVIOUS
<1>2. PICK w : w = Changed(st, y, ci, ti) OBVIOUS
<1>3. /\ w.state = y /\ w.cpu_id = ci /\ w.thread_id = ti /\ w = Tables(w)
      /\ w.priority = st.priority /\ w.cpu_set_id = st.cpu_set_id
      /\ w.cpu_set_of = st.cpu_set_of
  BY <1>2 DEF Changed, Tables
<1>4. Stop(Tables(st), u, x) = w BY <1>1, <1>2, StopTables
<1>5. Switch(Tables(st), u, x, t) = Dispatch(Tables(w), t, c)
  BY <1>1, <1>3, <1>4, TablesFacts DEF Switch
<1>6. Dispatch(Tables(w), t, c) =
        Changed(w, Marked(y, t, "RUN"), [ci EXCEPT ![t] = c], [ti EXCEPT ![c] = t])
  BY <1>3, DispatchTables
<1>7. /\ r.state = Marked(y, t, "RUN") /\ r.priority = st.priority
      /\ r.cpu_set_id = st.cpu_set_id /\ r.cpu_set_of = st.cpu_set_of
      /\ r.cpu_id = [ci EXCEPT ![t] = c] /\ r.thread_id = [ti EXCEPT ![c] = t]
  BY <1>1 DEF OnlyStacks, PassedOn
<1> QED BY <1>3, <1>5, <1>6, <1>7 DEF Tables, Changed

LEMMA PreemptDoes ==
  ASSUME NEW st, Solid(st), Agree(Tables(st)),
         NEW t \in Thread, st.state[t] = "SLEEP",
         NEW s, s = st.cpu_set_id[t], st.run_heap[s] # <<>>,
         st.priority[t] < st.priority[st.run_heap[s][1]],
         NEW r, r = Preempt(st, t)
  PROVE  /\ Solid(r)
         /\ \E u \in WorstRunning(Tables(st), s) : Tables(r) = Switch(Tables(st), u, "READY", t)
<1>1. PICK g : g = st.run_heap[s][1] OBVIOUS
<1>2. st \in HeapState /\ s \in CpuSet /\ Filled(st, st.state) /\ StacksHold(st)
  BY DEF Solid, HeapState
<1>3. g \in WorstRunning(Tables(st), s) BY <1>1, <1>2, RunRoot
<1>4. g \in Thread /\ st.state[g] = "RUN" /\ st.cpu_set_id[g] = s /\ g # t
  BY <1>3, TablesFacts DEF WorstRunning, With
<1>5. PICK a : a = [st EXCEPT !.state[t] = "RUN"] OBVIOUS
<1>6. OnlyState(st, a, Marked(st.state, t, "RUN"))
  BY <1>2, <1>5, StateChanged DEF States
<1>7. PICK y : y = Marked(Marked(st.state, t, "RUN"), g, "SLEEP") OBVIOUS
<1>8. PICK q : q = Sifted(st, t, s) OBVIOUS
<1>9. q \in HeapState /\ Filled(q, y) /\ OnlyHeaps(a, q)
  <2>1. st.priority[t] <= st.priority[g]
    <3>1. st.priority \in [Thread -> Int] BY <1>2, Keys
    <3>2. st.priority[t] \in Int /\ st.priority[g] \in Int BY <3>1, <1>4
    <3> QED BY <3>2, <1>1
  <2> QED BY <2>1, <1>1, <1>5, <1>7, <1>8, RootTaken
<1>10. StacksHold(q)
  <2>1. StacksHold(a) BY <1>6, <1>2 DEF StacksHold, OnlyState, Stack, FreeCpus
  <2> QED BY <2>1, <1>9, HeapsKeepStacks
<1>11. PICK b : b = [q EXCEPT !.state[g] = "READY"] OBVIOUS
<1>12. /\ b \in HeapState /\ Filled(b, y) /\ StacksHold(b)
       /\ OnlyState(q, b, Marked(q.state, g, "READY"))
  <2>1. "READY" \in States BY DEF States
  <2> QED BY <2>1, <1>4, <1>9, <1>10, <1>11, StateChanged
<1>13. PICK d : d = InsertReady(b, g) OBVIOUS
<1>14. y \in [Thread -> States] /\ y[g] = "SLEEP"
  <2>1. st.state \in [Thread -> States] /\ "RUN" \in States /\ "SLEEP" \in States
    BY <1>2 DEF HeapState, States
  <2>2. Marked(st.state, t, "RUN") \in [Thread -> States] BY <2>1, MarkedFacts
  <2> QED BY <2>1, <2>2, <1>4, <1>7, MarkedFacts
<1>15. d \in HeapState /\ Filled(d, Marked(y, g, "READY")) /\ OnlyHeaps(b, d)
  BY <1>4, <1>12, <1>13, <1>14, InsertReadyFills
<1>16. StacksHold(d) BY <1>12, <1>15, HeapsKeepStacks
<1>17. /\ d.state = Marked(Marked(st.state, t, "RUN"), g, "READY")
       /\ d.priority = st.priority /\ d.cpu_set_id = st.cpu_set_id
       /\ d.cpu_id = st.cpu_id /\ d.thread_id = st.thread_id /\ d.cpu_set_of = st.cpu_set_of
  BY <1>6, <1>9, <1>12, <1>15 DEF OnlyHeaps, OnlyState
<1>18. d.state = Marked(y, g, "READY") BY <1>7, <1>17, <1>2 DEF Marked, HeapState
<1>19. d.state = Marked(Marked(st.state, g, "READY"), t, "RUN")
  BY <1>4, <1>17, <1>2 DEF Marked, HeapState
<1>20. RunsOn(d, g, st.cpu_id[g], s) BY <1>2, <1>4, <1>17, RunnerRuns
<1>21. r = EnterRunState(LeaveRunState(d, g), t)
  BY <1>1, <1>8, <1>11, <1>13 DEF Preempt, Sifted, AtRoot
<1>22. s = d.cpu_set_id[t] BY <1>17
<1>23. PICK c : c = st.cpu_id[g] OBVIOUS
<1>24. r \in HeapState /\ StacksHold(r) /\ OnlyStacks(d, r) /\ PassedOn(d, r, g, t, c)
  BY <1>4, <1>15, <1>16, <1>20, <1>21, <1>22, <1>23, CpuPassedOn
<1>25. Filled(r, r.state)
  <2>1. r.state = d.state BY <1>24 DEF OnlyStacks
  <2> QED BY <2>1, <1>15, <1>18, <1>24, FilledKept
<1>26. Tables(r) = Switch(Tables(st), g, "READY", t)
  BY <1>2, <1>4, <1>17, <1>19, <1>23, <1>24, SwitchTables
<1> QED BY <1>3, <1>24, <1>25, <1>26 DEF Solid

LEMMA MarkedTables ==
  ASSUME NEW st, NEW t, NEW z
  PROVE  [Tables(st) EXCEPT !.state[t] = z] =
           Changed(st, Marked(st.state, t, z), st.cpu_id, st.thread_id)
<1>1. PICK w : w = Tables(st) OBVIOUS
<1>2. w \in [state : {st.state}, priority : {st.priority}, cpu_set_id : {st.cpu_set_id},
             cpu_id : {st.cpu_id}, thread_id : {st.thread_id}, cpu_set_of : {st.cpu_set_of}]
  BY <1>1 DEF Tables
<1>3. PICK r : r = [w EXCEPT !.state[t] = z] OBVIOUS
<1>4. PICK y : y = Marked(st.state, t, z) OBVIOUS
<1>5. r \in [state : {y}, priority : {st.priority}, cpu_set_id : {st.cpu_set_id},
             cpu_id : {st.cpu_id}, thread_id : {st.thread_id}, cpu_set_of : {st.cpu_set_of}]
  BY <1>2, <1>3, <1>4 DEF Marked
<1>6. r = Changed(st, y, st.cpu_id, st.thread_id) BY <1>5 DEF Changed
<1> QED BY <1>1, <1>3, <1>4, <1>6

(* insert_into_heap finds a free CPU.                                      *)
LEMMA StartDoes ==
  ASSUME NEW st, Solid(st), NEW t \in Thread, st.state[t] = "SLEEP",
         NEW s, s = st.cpu_set_id[t], st.free_cpu[s] # <<>>,
         NEW r, r = EnterRunState(InsertRun([st EXCEPT !.state[t] = "RUN"], t), t)
  PROVE  /\ Solid(r)
         /\ \E c \in FreeCpus(Tables(st), s) : Tables(r) = Dispatch(Tables(st), t, c)
<1>1. st \in HeapState /\ Filled(st, st.state) /\ StacksHold(st) BY DEF Solid
<1>2. PICK a : a = [st EXCEPT !.state[t] = "RUN"] OBVIOUS
<1>3. PICK y : y = Marked(st.state, t, "RUN") OBVIOUS
<1>4. a \in HeapState /\ Filled(a, st.state) /\ StacksHold(a) /\ OnlyState(st, a, y)
  <2>1. "RUN" \in States BY DEF States
  <2> QED BY <2>1, <1>1, <1>2, <1>3, StateChanged
<1>5. PICK b : b = InsertRun(a, t) OBVIOUS
<1>6. b \in HeapState /\ Filled(b, y) /\ OnlyHeaps(a, b)
  <2>1. st.state \in [Thread -> States] BY <1>1 DEF HeapState
  <2> QED BY <2>1, <1>3, <1>4, <1>5, InsertRunFills
<1>7. StacksHold(b) BY <1>4, <1>6, HeapsKeepStacks
<1>8. /\ b.state = y /\ b.priority = st.priority /\ b.cpu_set_id = st.cpu_set_id
      /\ b.cpu_id = st.cpu_id /\ b.thread_id = st.thread_id /\ b.cpu_set_of = st.cpu_set_of
      /\ b.free_cpu = st.free_cpu
  BY <1>4, <1>6 DEF OnlyState, OnlyHeaps
<1>9. PICK n, c : n = Len(b.free_cpu[s]) /\ c = b.free_cpu[s][n] OBVIOUS
<1>10. OnTop(b, t, s, n, c) BY <1>8, <1>9 DEF OnTop
<1>11. r = EnterRunState(b, t) BY <1>2, <1>5
<1>12. r \in HeapState /\ StacksHold(r) /\ OnlyStacks(b, r) /\ Entered(b, r, t, c, s)
  BY <1>6, <1>7, <1>10, <1>11, EnterKeepsStacks
<1>13. Filled(r, r.state)
  <2>1. r.state = y BY <1>8, <1>12 DEF OnlyStacks
  <2> QED BY <2>1, <1>6, <1>12, FilledKept
<1>14. c \in FreeCpus(Tables(st), s)
  <2>1. FreeCpus(b, s) = FreeCpus(st, s) BY <1>8 DEF FreeCpus
  <2> QED BY <2>1, <1>12, TablesFacts DEF Entered
<1>15. /\ r.state = y /\ r.priority = st.priority /\ r.cpu_set_id = st.cpu_set_id
       /\ r.cpu_id = [st.cpu_id EXCEPT ![t] = c] /\ r.thread_id = [st.thread_id EXCEPT ![c] = t]
       /\ r.cpu_set_of = st.cpu_set_of
  BY <1>8, <1>12 DEF OnlyStacks, Entered
<1>16. Tables(r) = Dispatch(Tables(st), t, c)
  <2>1. Dispatch(Tables(st), t, c) =
          Changed(st, Marked(st.state, t, "RUN"), [st.cpu_id EXCEPT ![t] = c],
                  [st.thread_id EXCEPT ![c] = t])
    BY DispatchTables
  <2>2. Tables(r) = Changed(st, y, r.cpu_id, r.thread_id) BY <1>15 DEF Tables, Changed
  <2> QED BY <2>1, <2>2, <1>3, <1>15
<1> QED BY <1>12, <1>13, <1>14, <1>16 DEF Solid

(* insert_into_heap makes the thread wait.                                 *)
LEMMA WaitDoes ==
  ASSUME NEW st, Solid(st), NEW t \in Thread, st.state[t] = "SLEEP",
         NEW r, r = InsertReady([st EXCEPT !.state[t] = "READY"], t)
  PROVE  Solid(r) /\ Tables(r) = [Tables(st) EXCEPT !.state[t] = "READY"]
<1>1. st \in HeapState /\ Filled(st, st.state) /\ StacksHold(st) BY DEF Solid
<1>2. PICK a : a = [st EXCEPT !.state[t] = "READY"] OBVIOUS
<1>3. PICK y : y = Marked(st.state, t, "READY") OBVIOUS
<1>4. a \in HeapState /\ Filled(a, st.state) /\ StacksHold(a) /\ OnlyState(st, a, y)
  <2>1. "READY" \in States BY DEF States
  <2> QED BY <2>1, <1>1, <1>2, <1>3, StateChanged
<1>5. r = InsertReady(a, t) BY <1>2
<1>6. r \in HeapState /\ Filled(r, y) /\ OnlyHeaps(a, r)
  <2>1. st.state \in [Thread -> States] BY <1>1 DEF HeapState
  <2> QED BY <2>1, <1>3, <1>4, <1>5, InsertReadyFills
<1>7. StacksHold(r) BY <1>4, <1>6, HeapsKeepStacks
<1>8. /\ r.state = y /\ r.priority = st.priority /\ r.cpu_set_id = st.cpu_set_id
      /\ r.cpu_id = st.cpu_id /\ r.thread_id = st.thread_id /\ r.cpu_set_of = st.cpu_set_of
  BY <1>4, <1>6 DEF OnlyState, OnlyHeaps
<1>9. Tables(r) = [Tables(st) EXCEPT !.state[t] = "READY"]
  <2>1. [Tables(st) EXCEPT !.state[t] = "READY"]
          = Changed(st, Marked(st.state, t, "READY"), st.cpu_id, st.thread_id)
    BY MarkedTables
  <2>2. Tables(r) = Changed(st, y, st.cpu_id, st.thread_id)
    BY <1>8 DEF Tables, Changed
  <2> QED BY <2>1, <2>2, <1>3
<1> QED BY <1>6, <1>7, <1>8, <1>9 DEF Solid

LEMMA InsertDoes ==
  ASSUME NEW st, Solid(st), Agree(Tables(st)), NEW t \in Thread, st.state[t] = "SLEEP",
         NEW r, r = Insert(st, t)
  PROVE  Solid(r) /\ Tables(r) \in InsertResults(Tables(st), t)
<1>1. PICK s : s = st.cpu_set_id[t] OBVIOUS
<1>2. s \in CpuSet BY <1>1 DEF Solid, HeapState
<1>3. PICK w : w = Tables(st) OBVIOUS
<1>4. w.cpu_set_id[t] = s /\ w.priority = st.priority BY <1>1, <1>3, TablesFacts
<1>5. /\ st.free_cpu[s] = <<>> <=> FreeCpus(w, s) = {}
      /\ st.run_heap[s] = <<>> <=> ThreadsIn(w, s, "RUN") = {}
  BY <1>2, <1>3, Emptiness
<1>6. CASE st.free_cpu[s] # <<>>
  <2>1. r = EnterRunState(InsertRun([st EXCEPT !.state[t] = "RUN"], t), t)
    BY <1>1, <1>6 DEF Insert
  <2>2. /\ Solid(r)
        /\ \E c \in FreeCpus(Tables(st), s) : Tables(r) = Dispatch(Tables(st), t, c)
    BY <2>1, <1>1, <1>6, StartDoes
  <2>3. Tables(r) \in InsertResults(w, t)
    BY <2>2, <1>3, <1>4, <1>5, <1>6 DEF InsertResults
  <2> QED BY <2>2, <2>3, <1>3
<1>7. CASE st.free_cpu[s] = <<>>
  <2>1. \A u \in ThreadsIn(w, s, "RUN") : u \in Thread BY DEF ThreadsIn
  <2>2. \A u \in Thread : w.priority[u] \in Int BY <1>4, Keys DEF Solid
  <2>3. CASE st.run_heap[s] # <<>> /\ st.priority[t] < st.priority[st.run_heap[s][1]]
    <3>1. PICK g : g = st.run_heap[s][1] OBVIOUS
    <3>2. g \in WorstRunning(w, s) BY <3>1, <2>3, <1>2, <1>3, RunRoot
    <3>3. g \in ThreadsIn(w, s, "RUN") /\ Better(w.priority[t], w.priority[g])
      BY <3>1, <3>2, <2>3, <1>4 DEF WorstRunning, Better
    <3>4. ~(st.priority[t] >= st.priority[g])
      <4>1. st.priority[t] \in Int /\ st.priority[g] \in Int BY <3>3, <2>1, <2>2, <1>4
      <4> QED BY <4>1, <3>1, <2>3
    <3>5. r = Preempt(st, t) BY <3>1, <3>4, <2>3, <1>1, <1>7 DEF Insert
    <3>6. /\ Solid(r)
          /\ \E u \in WorstRunning(Tables(st), s) : Tables(r) = Switch(Tables(st), u, "READY", t)
      BY <3>5, <2>3, <1>1, PreemptDoes
    <3>7. Tables(r) \in InsertResults(w, t)
      BY <3>3, <3>6, <1>3, <1>4, <1>5, <1>7 DEF InsertResults
    <3> QED BY <3>6, <3>7, <1>3
  <2>4. CASE ~(st.run_heap[s] # <<>> /\ st.priority[t] < st.priority[st.run_heap[s][1]])
    <3>1. PICK g : g = st.run_heap[s][1] OBVIOUS
    <3>2. \/ st.run_heap[s] = <<>>
          \/ st.priority[t] >= st.priority[g] /\ g \in WorstRunning(w, s)
      <4>1. CASE st.run_heap[s] # <<>>
        <5>1. g \in WorstRunning(w, s) BY <3>1, <4>1, <1>2, <1>3, RunRoot
        <5>2. g \in Thread BY <5>1, <2>1 DEF WorstRunning
        <5>3. st.priority[t] \in Int /\ st.priority[g] \in Int BY <5>2, <2>2, <1>4
        <5>4. ~(st.priority[t] < st.priority[g]) BY <3>1, <4>1, <2>4
        <5>5. st.priority[t] >= st.priority[g] BY <5>3, <5>4
        <5> QED BY <5>1, <5>5
      <4> QED BY <4>1
    <3>3. r = InsertReady([st EXCEPT !.state[t] = "READY"], t)
      BY <3>1, <3>2, <1>1, <1>7 DEF Insert
    <3>4. Solid(r) /\ Tables(r) = [Tables(st) EXCEPT !.state[t] = "READY"]
      BY <3>3, WaitDoes
    <3>5. ASSUME NEW u \in ThreadsIn(w, s, "RUN") PROVE ~Better(w.priority[t], w.priority[u])
      <4>1. g \in WorstRunning(w, s) /\ st.priority[t] >= st.priority[g]
        BY <3>2, <3>5, <1>5
      <4>2. w.priority[u] <= w.priority[g] /\ g \in Thread /\ u \in Thread
        BY <3>5, <4>1, <2>1 DEF WorstRunning
      <4>3. w.priority[u] \in Int /\ w.priority[g] \in Int /\ w.priority[t] \in Int
        BY <4>2, <2>2
      <4> QED BY <4>1, <4>2, <4>3, <1>4 DEF Better
    <3>6. Tables(r) \in InsertResults(w, t)
      BY <3>4, <3>5, <1>3, <1>4, <1>5, <1>7 DEF InsertResults
    <3> QED BY <3>4, <3>6, <1>3
  <2> QED BY <2>3, <2>4
<1> QED BY <1>6, <1>7
-----------------------------------------------------------------------------
(* remove_from_heap: the best ready thread g takes the place of t in the   *)
(* run heap, and t that of g at the root of the ready heap.                *)
Exchanging(st, t, g, h, s) ==
  [st EXCEPT !.run_heap[s][h] = g, !.ready_heap[s][1] = t,
             !.heap_id[t] = 1, !.heap_id[g] = h,
             !.state[t] = "SLEEP", !.state[g] = "RUN"]
Raised(st, t, g, h, s) ==
  LET swapped == Exchanging(st, t, g, h, s)
  IN  WithRunHeap(swapped, s, UpDeal(RunHeap(swapped, s), RunKey(swapped), g))

(* The only state with these threads' states and heaps and all else of st. *)
Exactly(st, y, hp, rn, rd) ==
  [state : {y}, priority : {st.priority}, cpu_set_id : {st.cpu_set_id},
   cpu_id : {st.cpu_id}, heap_id : {hp}, thread_id : {st.thread_id},
   cpu_set_of : {st.cpu_set_of}, stack_location : {st.stack_location},
   free_cpu : {st.free_cpu}, run_heap : {rn}, ready_heap : {rd}]

LEMMA OnlyOne ==
  ASSUME NEW st, NEW y, NEW hp, NEW rn, NEW rd,
         NEW q \in Exactly(st, y, hp, rn, rd), NEW r \in Exactly(st, y, hp, rn, rd)
  PROVE  q = r
BY DEF Exactly

StatesSwapped(st, b, t, g) ==
  /\ b \in Exactly(st, b.state, b.heap_id, b.run_heap, b.ready_heap)
  /\ b.state = [st.state EXCEPT ![t] = "SLEEP", ![g] = "RUN"]

LEMMA ExchangingIs ==
  ASSUME NEW st \in HeapState, NEW t, NEW g, NEW h, NEW s,
         NEW b, b = Exchanging(st, t, g, h, s)
  PROVE  StatesSwapped(st, b, t, g)
BY DEF StatesSwapped, Exchanging, Exactly, HeapState

LEMMA PlacesExchanged ==
  ASSUME NEW st, Solid(st), Ordered(Tables(st)), NEW t \in Thread, st.state[t] = "RUN",
         NEW s, s = st.cpu_set_id[t], st.ready_heap[s] # <<>>,
         NEW g, g = st.ready_heap[s][1], NEW h, h = st.heap_id[t],
         NEW r, r = Raised(st, t, g, h, s),
         NEW a, a = [st EXCEPT !.state[t] = "SLEEP", !.state[g] = "RUN"],
         NEW y, y = Marked(Marked(st.state, t, "READY"), g, "RUN")
  PROVE  HeapsNow(a, r, y)
<1> DEFINE M == With(st, st.state, s, "RUN")
           N == With(st, st.state, s, "READY")
           H == RunHeap(st, s)
           K == ReadyHeap(st, s)
           key == RunKey(st)
           jd == [st.heap_id EXCEPT ![t] = 1, ![g] = h]
           G == InPlace(H, h, g, jd)
           F == InPlace(K, 1, t, jd)
           MM == (M \ {t}) \cup {g}
           NN == (N \ {g}) \cup {t}
           D == UpDeal(G, key, g)
<1>1. st \in HeapState /\ s \in CpuSet /\ Filled(st, st.state) /\ StacksHold(st)
  BY DEF Solid, HeapState
<1>2. 1 \in 1..Len(st.ready_heap[s]) /\ g \in N /\ g \in Thread /\ g # t /\ g \notin M
      /\ t \in M /\ t \notin N
  BY <1>1, ReadyRoot, TablesFacts DEF BestReady, With
<1>3. /\ HeapOf(H, key, Thread, M) /\ Listed(H, Thread, M)
      /\ HeapOf(K, st.priority, Thread, N) /\ Listed(K, Thread, N)
  BY <1>1 DEF Filled, SetFilled, HeapOf
<1>4. key \in [Thread -> Int] /\ st.priority \in [Thread -> Int] BY <1>1, Keys
<1>5. /\ H.at = st.run_heap[s] /\ H.id = st.heap_id
      /\ K.at = st.ready_heap[s] /\ K.id = st.heap_id
  BY DEF RunHeap, ReadyHeap
<1>6. h \in 1..Len(H.at) /\ H.at[h] = t
  <2> HIDE DEF H, M
  <2>1. H.id[t] \in 1..Len(H.at) /\ H.at[H.id[t]] = t BY <1>2, <1>3, ListedFacts
  <2> QED BY <2>1, <1>5
<1>7. /\ a \in HeapState /\ Filled(a, st.state)
      /\ OnlyState(st, a, Marked(Marked(st.state, t, "SLEEP"), g, "RUN"))
  <2>1. "SLEEP" \in States /\ "RUN" \in States BY DEF States
  <2> QED BY <2>1, <1>1, <1>2, StatesChanged
<1>8. /\ r = [a EXCEPT !.run_heap[s] = D.at, !.ready_heap[s] = F.at, !.heap_id = D.id]
  <2>1. PICK b : b = Exchanging(st, t, g, h, s) OBVIOUS
  <2>2. /\ b.heap_id = jd /\ b.priority = st.priority
        /\ b.run_heap = [st.run_heap EXCEPT ![s] = [st.run_heap[s] EXCEPT ![h] = g]]
        /\ b.ready_heap = [st.ready_heap EXCEPT ![s] = [st.ready_heap[s] EXCEPT ![1] = t]]
    BY <2>1, <1>1 DEF Exchanging, HeapState
  <2>3. RunHeap(b, s) = G /\ RunKey(b) = key
    BY <2>2, <1>1, <1>5 DEF RunHeap, RunKey, HeapState, InPlace
  <2>4. r = WithRunHeap(b, s, D) BY <2>1, <2>3 DEF Raised
  <2>5. b.ready_heap = [st.ready_heap EXCEPT ![s] = F.at]
    BY <2>2, <1>5 DEF InPlace
  <2> HIDE DEF D, F
  <2>6. r = [b EXCEPT !.run_heap[s] = D.at, !.heap_id = D.id] BY <2>4 DEF WithRunHeap
  <2>7. [b.run_heap EXCEPT ![s] = D.at] = [st.run_heap EXCEPT ![s] = D.at]
    BY <2>2, <1>1 DEF HeapState
  <2>8. st \in Exactly(st, st.state, st.heap_id, st.run_heap, st.ready_heap)
    BY <1>1 DEF HeapState, Exactly
  <2>9. PICK y1, rn, rd : y1 = a.state /\ rn = [st.run_heap EXCEPT ![s] = D.at]
                         /\ rd = b.ready_heap
    OBVIOUS
  <2>10. b \in Exactly(st, y1, jd, b.run_heap, rd)
    <3>1. y1 = [st.state EXCEPT ![t] = "SLEEP", ![g] = "RUN"] BY <2>9, <1>1 DEF HeapState
    <3>2. StatesSwapped(st, b, t, g) BY <2>1, <1>1, ExchangingIs
    <3> QED BY <2>2, <2>9, <3>1, <3>2 DEF StatesSwapped
  <2>11. a \in Exactly(st, y1, st.heap_id, st.run_heap, st.ready_heap)
    BY <2>8, <2>9 DEF Exactly
  <2>12. r \in Exactly(st, y1, D.id, rn, rd)
    BY <2>6, <2>7, <2>9, <2>10 DEF Exactly
  <2>13. [a EXCEPT !.run_heap[s] = D.at, !.ready_heap[s] = F.at, !.heap_id = D.id]
           \in Exactly(st, y1, D.id, rn, rd)
    <3>1. a.run_heap = st.run_heap /\ a.ready_heap = st.ready_heap BY <2>11 DEF Exactly
    <3>2. rn = [a.run_heap EXCEPT ![s] = D.at] /\ rd = [a.ready_heap EXCEPT ![s] = F.at]
      BY <2>5, <2>9, <3>1
    <3>3. PICK w, A, B, kd : w = a /\ A = D.at /\ B = F.at /\ kd = D.id OBVIOUS
    <3>4. PICK z : z = [w EXCEPT !.run_heap[s] = A, !.ready_heap[s] = B, !.heap_id = kd]
      OBVIOUS
    <3>5. w \in Exactly(st, y1, st.heap_id, st.run_heap, st.ready_heap) BY <2>11, <3>3
    <3>6. z.run_heap = rn /\ z.ready_heap = rd /\ z.heap_id = kd
      BY <3>2, <3>3, <3>4, <3>5 DEF Exactly
    <3>7. z \in Exactly(st, y1, kd, rn, rd)
      BY <3>4, <3>5, <3>6 DEF Exactly
    <3> QED BY <3>3, <3>4, <3>7
  <2> QED BY <2>12, <2>13, OnlyOne
<1>9. /\ jd \in [Thread -> Slots(Thread)] /\ jd[t] = 1 /\ jd[g] = h
      /\ \A u \in Thread : u # t /\ u # g => jd[u] = st.heap_id[u]
  <2>1. K.id[g] = 1 /\ K.id \in [Thread -> Slots(Thread)]
    <3>1. g = K.at[1] /\ 1 \in 1..Len(K.at) BY <1>2, <1>5
    <3> HIDE DEF K, N
    <3> QED BY <3>1, <1>3, ListedFacts
  <2>2. 1 \in Slots(Thread) /\ h \in Slots(Thread) BY <2>1, <1>1, <1>2 DEF HeapState
  <2> QED BY <2>2, <1>1, <1>2 DEF HeapState
<1>10. \A u \in N : st.priority[t] <= st.priority[u]
  BY <1>2, TablesFacts DEF Ordered, With
<1>11. key[g] <= key[t]
  <2>1. key[t] = -st.priority[t] /\ key[g] = -st.priority[g] BY <1>2 DEF RunKey
  <2>2. st.priority[t] \in Int /\ st.priority[g] \in Int BY <1>2, <1>4
  <2>3. st.priority[t] <= st.priority[g] BY <1>2, <1>10
  <2> QED BY <2>1, <2>2, <2>3
<1>12. Listed(G, Thread, MM) /\ G.id[g] = h /\ MayRise(G.at, key, h)
  <2>1. ASSUME NEW u \in M, u # H.at[h] PROVE jd[u] = H.id[u]
    <3>1. u \in Thread /\ u # t /\ u # g BY <2>1, <1>2, <1>6 DEF With
    <3> HIDE DEF H, jd, M
    <3> QED BY <3>1, <1>5, <1>9
  <2>2. Replaces(H, h, g, jd, Thread, M) BY <2>1, <1>2, <1>6, <1>9 DEF Replaces
  <2>3. G = InPlace(H, h, g, jd) OBVIOUS
  <2> HIDE DEF H, M, key, jd, G
  <2>4. Replaced(H, G, h, g, key, Thread, M)
    BY <2>2, <2>3, <1>3, <1>4, HeapReplaced
  <2>5. Listed(G, Thread, (M \ {t}) \cup {g}) /\ G.id[g] = h /\ MayRise(G.at, key, h)
    BY <2>4, <1>6, <1>11 DEF Replaced
  <2> QED BY <2>5
<1>13. HeapOf(F, st.priority, Thread, NN)
  <2>1. g = K.at[1] /\ 1 \in 1..Len(K.at) BY <1>2, <1>5
  <2>2. \A u \in N : u # K.at[1] => jd[u] = K.id[u] BY <2>1, <1>2, <1>5, <1>9 DEF With
  <2>3. Replaces(K, 1, t, jd, Thread, N) BY <2>1, <2>2, <1>2, <1>9 DEF Replaces
  <2>4. F = InPlace(K, 1, t, jd) OBVIOUS
  <2> HIDE DEF K, N, jd, F
  <2>5. Replaced(K, F, 1, t, st.priority, Thread, N)
    BY <2>3, <2>4, <1>3, <1>4, HeapReplaced
  <2> QED BY <2>1, <2>5, <1>10 DEF Replaced, HeapOf
<1>14. Dealt(G, D, key, Thread, MM)
  <2>1. g \in MM OBVIOUS
  <2>2. MayRise(G.at, key, G.id[g]) BY <1>12
  <2> HIDE DEF MM, G, key
  <2> QED BY <2>1, <2>2, <1>4, <1>12, UpDealt
<1>15. /\ D.id \in [Thread -> Slots(Thread)]
       /\ HeapOf([at |-> D.at, id |-> D.id], key, Thread, MM)
       /\ \A u \in Thread : u \notin MM => D.id[u] = jd[u]
  <2>1. G.id = jd BY DEF InPlace
  <2> HIDE DEF D, G, MM, jd, key
  <2>2. DealtOut(G, D, key, MM) BY <1>14, DealtFacts
  <2> QED BY <2>1, <2>2 DEF DealtOut
<1> HIDE DEF D
<1>16. HeapOf([at |-> F.at, id |-> D.id], st.priority, Thread, NN)
  <2>1. F.id = jd BY DEF InPlace
  <2>2. HeapOf([at |-> F.at, id |-> jd], st.priority, Thread, NN)
    <3> HIDE DEF F, NN, jd
    <3> QED BY <2>1, <1>13 DEF HeapOf, Listed
  <2>3. \A u \in NN : D.id[u] = jd[u]
    <3>1. \A u \in NN : u \in Thread /\ u \notin MM BY <1>2 DEF With
    <3> QED BY <3>1, <1>15
  <2> HIDE DEF F, NN, jd
  <2> QED BY <2>2, <2>3, <1>15, HeapKept
<1>17. y \in [Thread -> States] /\ y[g] = "RUN" /\ y[t] = "READY"
       /\ \A u \in Thread : u # t /\ u # g => y[u] = st.state[u]
  <2>1. PICK x : x = st.state OBVIOUS
  <2>2. x \in [Thread -> States] BY <2>1, <1>1 DEF HeapState
  <2>3. g \in Thread /\ g # t /\ "RUN" \in States /\ "READY" \in States BY <1>2 DEF States
  <2>4. PICK w : w = [x EXCEPT ![t] = "READY"] OBVIOUS
  <2>5. w \in [Thread -> States] /\ w[t] = "READY" /\ \A u \in Thread : u # t => w[u] = x[u]
    BY <2>2, <2>3, <2>4
  <2>6. y = [w EXCEPT ![g] = "RUN"] BY <2>1, <2>4 DEF Marked
  <2>7. /\ y \in [Thread -> States] /\ y[g] = "RUN"
        /\ \A u \in Thread : u # g => y[u] = w[u]
    BY <2>3, <2>5, <2>6
  <2> QED BY <2>1, <2>3, <2>5, <2>7
<1>18. /\ With(a, y, s, "RUN") = MM /\ RunKey(a) = key /\ a.priority = st.priority
       /\ With(a, y, s, "READY") = NN
  <2>1. a.cpu_set_id = st.cpu_set_id /\ a.priority = st.priority BY <1>7 DEF OnlyState
  <2>2. RunKey(a) = key BY <2>1 DEF RunKey
  <2>3. g \in Thread /\ st.cpu_set_id[g] = s BY <1>2 DEF With
  <2>4. PICK x : x = st.state OBVIOUS
  <2>7. /\ y[g] = "RUN" /\ y[t] = "READY" /\ "RUN" # "READY"
        /\ \A u \in Thread : u # g /\ u # t => y[u] = x[u]
    BY <2>4, <1>17
  <2>5. With(a, y, s, "RUN") = MM
    <3>1. SwapsTwo(st, a, x, y, s, "RUN", g, t) BY <2>1, <2>3, <2>7 DEF SwapsTwo
    <3>2. IsSwapped(st, a, x, y, s, "RUN", g, t) BY <3>1, Swapped
    <3> QED BY <3>2, <2>4 DEF IsSwapped
  <2>6. With(a, y, s, "READY") = NN
    <3>1. SwapsTwo(st, a, x, y, s, "READY", t, g) BY <2>1, <2>3, <2>7 DEF SwapsTwo
    <3>2. IsSwapped(st, a, x, y, s, "READY", t, g) BY <3>1, Swapped
    <3> QED BY <3>2, <2>4 DEF IsSwapped
  <2> QED BY <2>1, <2>2, <2>5, <2>6
<1>19. ASSUME NEW u \in Thread, a.cpu_set_id[u] # s
       PROVE  D.id[u] = a.heap_id[u] /\ y[u] = st.state[u]
  <2>1. u # t /\ u \notin M /\ u # g BY <1>2, <1>7, <1>19 DEF OnlyState, With
  <2>2. u \notin MM BY <2>1
  <2>3. D.id[u] = jd[u] /\ jd[u] = st.heap_id[u]
    <3> HIDE DEF MM, jd
    <3> QED BY <2>1, <2>2, <1>9, <1>15
  <2> QED BY <2>1, <2>3, <1>7, <1>17 DEF OnlyState
<1>20. Reheaped(a, st.state, r, y, s, D.at, F.at, D.id)
  <2>1. \A s2 \in CpuSet : s2 # s => SetFilled(a, st.state, s2) BY <1>7 DEF Filled
  <2>2. r = Heaped(a, s, D.at, F.at, D.id) BY <1>8 DEF Heaped
  <2> HIDE DEF M, MM, N, NN, key, F
  <2>3. HeapOf([at |-> D.at, id |-> D.id], RunKey(a), Thread, With(a, y, s, "RUN"))
    BY <1>15, <1>18
  <2>4. HeapOf([at |-> F.at, id |-> D.id], a.priority, Thread, With(a, y, s, "READY"))
    BY <1>16, <1>18
  <2> QED BY <2>1, <2>2, <2>3, <2>4, <1>1, <1>19 DEF Reheaped
<1> HIDE DEF M, N, MM, NN, H, K, G, F, jd, key
<1> QED BY <1>7, <1>20, HeapsChanged

LEMMA HandOverDoes ==
  ASSUME NEW st, Solid(st), Agree(Tables(st)), Ordered(Tables(st)),
         NEW t \in Thread, st.state[t] = "RUN",
         NEW s, s = st.cpu_set_id[t], st.ready_heap[s] # <<>>,
         NEW r, r = HandOver(st, t)
  PROVE  /\ Solid(r)
         /\ \E u \in BestReady(Tables(st), s) : Tables(r) = Switch(Tables(st), t, "SLEEP", u)
<1>1. PICK g : g = st.ready_heap[s][1] OBVIOUS
<1>2. st \in HeapState /\ s \in CpuSet /\ Filled(st, st.state) /\ StacksHold(st)
      /\ st.state \in [Thread -> States]
  BY DEF Solid, HeapState
<1>3. g \in BestReady(Tables(st), s) BY <1>1, <1>2, ReadyRoot
<1>4. g \in Thread /\ st.cpu_set_id[g] = s /\ g # t
  BY <1>3, TablesFacts DEF BestReady, With
<1>5. PICK a : a = [st EXCEPT !.state[t] = "SLEEP", !.state[g] = "RUN"] OBVIOUS
<1>6. /\ a.state = Marked(Marked(st.state, t, "SLEEP"), g, "RUN")
      /\ a.priority = st.priority /\ a.cpu_set_id = st.cpu_set_id
      /\ a.cpu_id = st.cpu_id /\ a.thread_id = st.thread_id /\ a.cpu_set_of = st.cpu_set_of
      /\ a.stack_location = st.stack_location /\ a.free_cpu = st.free_cpu
  BY <1>2, <1>5 DEF Marked, HeapState
<1>7. PICK y : y = Marked(Marked(st.state, t, "READY"), g, "RUN") OBVIOUS
<1>8. PICK h : h = st.heap_id[t] OBVIOUS
<1>9. PICK q : q = Raised(st, t, g, h, s) OBVIOUS
<1>10. q \in HeapState /\ Filled(q, y) /\ OnlyHeaps(a, q)
  <2>1. HeapsNow(a, q, y) BY <1>1, <1>5, <1>7, <1>8, <1>9, PlacesExchanged
  <2> QED BY <2>1 DEF HeapsNow
<1>11. StacksHold(q)
  <2>1. StacksHold(a) BY <1>2, <1>6 DEF StacksHold, Stack, FreeCpus
  <2> QED BY <2>1, <1>10, HeapsKeepStacks
<1>12. PICK d : d = RemoveReady(q, t) OBVIOUS
<1>13. y \in [Thread -> States] /\ y[t] = "READY"
  <2>1. "READY" \in States /\ "RUN" \in States BY DEF States
  <2>2. Marked(st.state, t, "READY") \in [Thread -> States]
        /\ Marked(st.state, t, "READY")[t] = "READY"
    BY <2>1, <1>2, MarkedFacts
  <2> QED BY <2>1, <2>2, <1>4, <1>7, MarkedFacts
<1>14. d \in HeapState /\ Filled(d, Marked(y, t, "SLEEP")) /\ OnlyHeaps(q, d)
  BY <1>10, <1>12, <1>13, RemoveReadyFills
<1>15. StacksHold(d) BY <1>11, <1>14, HeapsKeepStacks
<1>16. /\ d.state = Marked(Marked(st.state, t, "SLEEP"), g, "RUN")
       /\ d.priority = st.priority /\ d.cpu_set_id = st.cpu_set_id
       /\ d.cpu_id = st.cpu_id /\ d.thread_id = st.thread_id /\ d.cpu_set_of = st.cpu_set_of
  BY <1>6, <1>10, <1>14 DEF OnlyHeaps
<1>17. d.state = Marked(y, t, "SLEEP") BY <1>2, <1>4, <1>7, <1>16 DEF Marked
<1>18. RunsOn(d, t, st.cpu_id[t], s) BY <1>2, <1>16, RunnerRuns
<1>19. r = EnterRunState(LeaveRunState(d, t), g)
  BY <1>1, <1>8, <1>9, <1>12 DEF HandOver, Raised, Exchanging
<1>20. s = d.cpu_set_id[g] BY <1>4, <1>16
<1>21. PICK c : c = st.cpu_id[t] OBVIOUS
<1>22. r \in HeapState /\ StacksHold(r) /\ OnlyStacks(d, r) /\ PassedOn(d, r, t, g, c)
  BY <1>4, <1>14, <1>15, <1>18, <1>19, <1>20, <1>21, CpuPassedOn
<1>23. Filled(r, r.state)
  <2>1. r.state = d.state BY <1>22 DEF OnlyStacks
  <2> QED BY <2>1, <1>14, <1>17, <1>22, FilledKept
<1>24. Tables(r) = Switch(Tables(st), t, "SLEEP", g)
  BY <1>2, <1>4, <1>16, <1>21, <1>22, SwitchTables
<1> QED BY <1>3, <1>22, <1>23, <1>24 DEF Solid
(* remove_from_heap of a ready thread, and of one nobody follows.          *)
LEMMA RestDoes ==
  ASSUME NEW st, Solid(st), NEW t \in Thread, st.state[t] = "READY",
         NEW r, r = [RemoveReady(st, t) EXCEPT !.state[t] = "SLEEP"]
  PROVE  Solid(r) /\ Tables(r) = [Tables(st) EXCEPT !.state[t] = "SLEEP"]
<1>1. st \in HeapState /\ Filled(st, st.state) /\ StacksHold(st)
      /\ st.state \in [Thread -> States]
  BY DEF Solid, HeapState
<1>2. PICK q : q = RemoveReady(st, t) OBVIOUS
<1>3. PICK y : y = Marked(st.state, t, "SLEEP") OBVIOUS
<1>4. q \in HeapState /\ Filled(q, y) /\ OnlyHeaps(st, q)
  BY <1>1, <1>2, <1>3, RemoveReadyFills
<1>5. StacksHold(q) BY <1>1, <1>4, HeapsKeepStacks
<1>6. /\ r \in HeapState /\ Filled(r, y) /\ StacksHold(r)
      /\ OnlyState(q, r, Marked(q.state, t, "SLEEP"))
  <2>1. "SLEEP" \in States /\ r = [q EXCEPT !.state[t] = "SLEEP"] BY <1>2 DEF States
  <2> QED BY <2>1, <1>4, <1>5, StateChanged
<1>7. /\ r.state = y /\ r.priority = st.priority /\ r.cpu_set_id = st.cpu_set_id
      /\ r.cpu_id = st.cpu_id /\ r.thread_id = st.thread_id /\ r.cpu_set_of = st.cpu_set_of
  BY <1>3, <1>4, <1>6 DEF OnlyState, OnlyHeaps
<1>8. Tables(r) = [Tables(st) EXCEPT !.state[t] = "SLEEP"]
  <2>1. [Tables(st) EXCEPT !.state[t] = "SLEEP"]
          = Changed(st, Marked(st.state, t, "SLEEP"), st.cpu_id, st.thread_id)
    BY MarkedTables
  <2>2. Tables(r) = Changed(st, y, st.cpu_id, st.thread_id)
    BY <1>7 DEF Tables, Changed
  <2> QED BY <2>1, <2>2, <1>3
<1> QED BY <1>6, <1>7, <1>8 DEF Solid

LEMMA StopDoes ==
  ASSUME NEW st, Solid(st), Agree(Tables(st)), NEW t \in Thread, st.state[t] = "RUN",
         NEW r, r = LeaveRunState([RemoveRun(st, t) EXCEPT !.state[t] = "SLEEP"], t)
  PROVE  Solid(r) /\ Tables(r) = Stop(Tables(st), t, "SLEEP")
<1>1. st \in HeapState /\ Filled(st, st.state) /\ StacksHold(st)
      /\ st.state \in [Thread -> States]
  BY DEF Solid, HeapState
<1>2. PICK q : q = RemoveRun(st, t) OBVIOUS
<1>3. PICK y : y = Marked(st.state, t, "SLEEP") OBVIOUS
<1>4. q \in HeapState /\ Filled(q, y) /\ OnlyHeaps(st, q)
  BY <1>1, <1>2, <1>3, RemoveRunFills
<1>5. StacksHold(q) BY <1>1, <1>4, HeapsKeepStacks
<1>6. PICK b : b = [q EXCEPT !.state[t] = "SLEEP"] OBVIOUS
<1>7. /\ b \in HeapState /\ Filled(b, y) /\ StacksHold(b)
      /\ OnlyState(q, b, Marked(q.state, t, "SLEEP"))
  <2>1. "SLEEP" \in States BY DEF States
  <2> QED BY <2>1, <1>4, <1>5, <1>6, StateChanged
<1>8. /\ b.state = y /\ b.priority = st.priority /\ b.cpu_set_id = st.cpu_set_id
      /\ b.cpu_id = st.cpu_id /\ b.thread_id = st.thread_id /\ b.cpu_set_of = st.cpu_set_of
  BY <1>3, <1>4, <1>7 DEF OnlyState, OnlyHeaps
<1>9. PICK c, s : c = st.cpu_id[t] /\ s = st.cpu_set_id[t] OBVIOUS
<1>10. RunsOn(b, t, c, s) BY <1>1, <1>8, <1>9, RunnerRuns
<1>11. r = LeaveRunState(b, t) BY <1>2, <1>6
<1>12. r \in HeapState /\ StacksHold(r) /\ OnlyStacks(b, r) /\ Left(b, r, t, c, s)
  BY <1>7, <1>10, <1>11, LeaveKeepsStacks
<1>13. Filled(r, r.state)
  <2>1. r.state = y BY <1>8, <1>12 DEF OnlyStacks
  <2> QED BY <2>1, <1>7, <1>12, FilledKept
<1>14. /\ r.state = y /\ r.priority = st.priority /\ r.cpu_set_id = st.cpu_set_id
       /\ r.cpu_id = [st.cpu_id EXCEPT ![t] = None]
       /\ r.thread_id = [st.thread_id EXCEPT ![st.cpu_id[t]] = None]
       /\ r.cpu_set_of = st.cpu_set_of
  BY <1>8, <1>9, <1>12 DEF OnlyStacks, Left
<1>15. Tables(r) = Stop(Tables(st), t, "SLEEP")
  <2>1. Stop(Tables(st), t, "SLEEP") =
          Changed(st, Marked(st.state, t, "SLEEP"), [st.cpu_id EXCEPT ![t] = None],
                  [st.thread_id EXCEPT ![st.cpu_id[t]] = None])
    BY StopTables
  <2>2. Tables(r) = Changed(st, y, r.cpu_id, r.thread_id) BY <1>14 DEF Tables, Changed
  <2> QED BY <2>1, <2>2, <1>3, <1>14
<1> QED BY <1>12, <1>13, <1>15 DEF Solid

LEMMA RemoveDoes ==
  ASSUME NEW st, Solid(st), Agree(Tables(st)), Ordered(Tables(st)),
         NEW t \in Thread, st.state[t] # "SLEEP",
         NEW r, r = Remove(st, t)
  PROVE  Solid(r) /\ Tables(r) \in RemoveResults(Tables(st), t)
<1>1. PICK s : s = st.cpu_set_id[t] OBVIOUS
<1>2. s \in CpuSet /\ st.state[t] \in States BY <1>1 DEF Solid, HeapState
<1>3. PICK w : w = Tables(st) OBVIOUS
<1>4. w.cpu_set_id[t] = s /\ w.state[t] = st.state[t] BY <1>1, <1>3, TablesFacts
<1>5. st.ready_heap[s] = <<>> <=> ThreadsIn(w, s, "READY") = {} BY <1>2, <1>3, Emptiness
<1>6. CASE st.state[t] = "READY"
  <2>1. r = [RemoveReady(st, t) EXCEPT !.state[t] = "SLEEP"] BY <1>6 DEF Remove
  <2>2. Solid(r) /\ Tables(r) = [Tables(st) EXCEPT !.state[t] = "SLEEP"]
    BY <2>1, <1>6, RestDoes
  <2> QED BY <2>2, <1>3, <1>4, <1>6 DEF RemoveResults
<1>7. CASE st.state[t] = "RUN" /\ st.ready_heap[s] = <<>>
  <2>1. r = LeaveRunState([RemoveRun(st, t) EXCEPT !.state[t] = "SLEEP"], t)
    BY <1>1, <1>7 DEF Remove
  <2>2. Solid(r) /\ Tables(r) = Stop(Tables(st), t, "SLEEP") BY <2>1, <1>7, StopDoes
  <2> QED BY <2>2, <1>3, <1>4, <1>5, <1>7 DEF RemoveResults
<1>8. CASE st.state[t] = "RUN" /\ st.ready_heap[s] # <<>>
  <2>1. r = HandOver(st, t) BY <1>1, <1>8 DEF Remove
  <2>2. /\ Solid(r)
        /\ \E u \in BestReady(Tables(st), s) : Tables(r) = Switch(Tables(st), t, "SLEEP", u)
    BY <2>1, <1>1, <1>8, HandOverDoes
  <2> QED BY <2>2, <1>3, <1>4, <1>5, <1>8 DEF RemoveResults
<1> QED BY <1>2, <1>6, <1>7, <1>8 DEF States
-----------------------------------------------------------------------------
(* Another priority and another set.                                       *)
Rated(st, pr, si) ==
  [state |-> st.state, priority |-> pr, cpu_set_id |-> si,
   cpu_id |-> st.cpu_id, thread_id |-> st.thread_id, cpu_set_of |-> st.cpu_set_of]

LEMMA ModifiedTables ==
  ASSUME NEW st, NEW t, NEW p, NEW s
  PROVE  Modified(Tables(st), t, p, s) =
           Rated(st, Marked(st.priority, t, p), Marked(st.cpu_set_id, t, s))
<1>1. PICK w : w = Tables(st) OBVIOUS
<1>2. w \in [state : {st.state}, priority : {st.priority}, cpu_set_id : {st.cpu_set_id},
             cpu_id : {st.cpu_id}, thread_id : {st.thread_id}, cpu_set_of : {st.cpu_set_of}]
  BY <1>1 DEF Tables
<1>3. PICK r : r = Modified(w, t, p, s) OBVIOUS
<1>4. PICK pr, si : /\ pr = Marked(st.priority, t, p) /\ si = Marked(st.cpu_set_id, t, s)
  OBVIOUS
<1>5. r \in [state : {st.state}, priority : {pr}, cpu_set_id : {si},
             cpu_id : {st.cpu_id}, thread_id : {st.thread_id}, cpu_set_of : {st.cpu_set_of}]
  BY <1>2, <1>3, <1>4 DEF Modified, Marked
<1>6. r = Rated(st, pr, si) BY <1>5 DEF Rated
<1> QED BY <1>1, <1>3, <1>4, <1>6

Rerated(st, t, p, s) == [st EXCEPT !.priority[t] = p, !.cpu_set_id[t] = s]
OnlyRates(st, r, pr, si) ==
  /\ r.state = st.state /\ r.priority = pr /\ r.cpu_set_id = si
  /\ r.cpu_id = st.cpu_id /\ r.heap_id = st.heap_id /\ r.thread_id = st.thread_id
  /\ r.cpu_set_of = st.cpu_set_of /\ r.stack_location = st.stack_location
  /\ r.free_cpu = st.free_cpu /\ r.run_heap = st.run_heap /\ r.ready_heap = st.ready_heap

LEMMA RatesChanged ==
  ASSUME NEW st \in HeapState, StacksHold(st), NEW t \in Thread,
         NEW p \in Priority \cup {0}, NEW s \in CpuSet,
         NEW r, r = Rerated(st, t, p, s)
  PROVE  /\ r \in HeapState /\ StacksHold(r)
         /\ OnlyRates(st, r, Marked(st.priority, t, p), Marked(st.cpu_set_id, t, s))
<1>1. /\ r \in HeapState
      /\ OnlyRates(st, r, Marked(st.priority, t, p), Marked(st.cpu_set_id, t, s))
  BY DEF HeapState, OnlyRates, Marked, Rerated
<1>2. StacksHold(r) BY <1>1 DEF StacksHold, OnlyRates, Stack, FreeCpus
<1> QED BY <1>1, <1>2

(* The key of t in the two heaps.                                          *)
NewKeys(st, r, t, p) ==
  /\ r.priority[t] = p /\ RunKey(r)[t] = -p /\ RunKey(st)[t] = -st.priority[t]
  /\ \A u \in Thread : u # t => r.priority[u] = st.priority[u]
  /\ \A u \in Thread : u # t => RunKey(r)[u] = RunKey(st)[u]

LEMMA KeysChanged ==
  ASSUME NEW st \in HeapState, NEW r, NEW t \in Thread, NEW p, NEW si,
         OnlyRates(st, r, Marked(st.priority, t, p), si)
  PROVE  NewKeys(st, r, t, p)
<1>1. r.priority[t] = p /\ \A u \in Thread : u # t => r.priority[u] = st.priority[u]
  BY DEF HeapState, Marked, OnlyRates
<1> QED BY <1>1 DEF RunKey, NewKeys

(* A sleeping thread is in no heap.                                        *)
LEMMA ChangeDoes ==
  ASSUME NEW st, Solid(st), NEW t \in Thread, st.state[t] = "SLEEP",
         NEW p \in Priority \cup {0}, NEW s \in CpuSet,
         NEW r, r = Rerated(st, t, p, s)
  PROVE  Solid(r) /\ Tables(r) = Modified(Tables(st), t, p, s)
<1>1. st \in HeapState /\ Filled(st, st.state) /\ StacksHold(st) BY DEF Solid
<1>2. PICK pr, si : pr = Marked(st.priority, t, p) /\ si = Marked(st.cpu_set_id, t, s)
  OBVIOUS
<1>3. r \in HeapState /\ StacksHold(r) /\ OnlyRates(st, r, pr, si)
  BY <1>1, <1>2, RatesChanged
<1>4. /\ RunKey(st) \in [Thread -> Int] /\ st.priority \in [Thread -> Int]
      /\ RunKey(r) \in [Thread -> Int] /\ r.priority \in [Thread -> Int]
  BY <1>1, <1>3, Keys
<1>5. /\ r.priority[t] = p /\ RunKey(r)[t] = -p /\ RunKey(st)[t] = -st.priority[t]
      /\ \A u \in Thread : u # t => r.priority[u] = st.priority[u]
      /\ \A u \in Thread : u # t => RunKey(r)[u] = RunKey(st)[u]
  <2>1. OnlyRates(st, r, Marked(st.priority, t, p), si) BY <1>2, <1>3
  <2>2. NewKeys(st, r, t, p) BY <2>1, <1>1, KeysChanged
  <2> QED BY <2>2 DEF NewKeys
<1>6. ASSUME NEW s2 \in CpuSet PROVE SetFilled(r, r.state, s2)
  <2> DEFINE M == With(st, st.state, s2, "RUN")
             N == With(st, st.state, s2, "READY")
  <2>1. /\ HeapOf(RunHeap(st, s2), RunKey(st), Thread, M)
        /\ HeapOf(ReadyHeap(st, s2), st.priority, Thread, N)
    BY <1>1 DEF Filled, SetFilled
  <2>2. t \notin M /\ t \notin N BY DEF With
  <2>3. \A u \in Thread : u # t => r.cpu_set_id[u] = st.cpu_set_id[u]
    BY <1>1, <1>2, <1>3 DEF OnlyRates, Marked, HeapState
  <2>4. With(r, r.state, s2, "RUN") = M /\ With(r, r.state, s2, "READY") = N
    BY <2>2, <2>3, <1>3 DEF With, OnlyRates
  <2> HIDE DEF M, N
  <2>5. HeapOf(RunHeap(st, s2), RunKey(r), Thread, M)
    BY <2>1, <2>2, <1>4, <1>5, HeapRekeyed
  <2>6. HeapOf(ReadyHeap(st, s2), r.priority, Thread, N)
    BY <2>1, <2>2, <1>4, <1>5, HeapRekeyed
  <2>7. RunHeap(r, s2) = RunHeap(st, s2) /\ ReadyHeap(r, s2) = ReadyHeap(st, s2)
    BY <1>3 DEF OnlyRates, RunHeap, ReadyHeap
  <2> QED BY <2>4, <2>5, <2>6, <2>7 DEF SetFilled
<1>7. Tables(r) = Modified(Tables(st), t, p, s)
  <2>1. Modified(Tables(st), t, p, s) =
          Rated(st, Marked(st.priority, t, p), Marked(st.cpu_set_id, t, s))
    BY ModifiedTables
  <2>2. Tables(r) = Rated(st, pr, si) BY <1>3 DEF OnlyRates, Tables, Rated
  <2> QED BY <2>1, <2>2, <1>2
<1> QED BY <1>3, <1>6, <1>7 DEF Solid, Filled

LEMMA RequeueDoes ==
  ASSUME NEW st, Solid(st), Good(Tables(st), {}), NEW t \in Thread, st.state[t] # "SLEEP",
         NEW p \in Priority \cup {0}, NEW s \in CpuSet,
         NEW r, r = Requeue(st, t, p, s)
  PROVE  Solid(r) /\ Tables(r) \in RequeueResults(Tables(st), t, p, s)
<1>1. PICK w : w = Tables(st) OBVIOUS
<1>2. Good(w, {}) /\ Agree(w) /\ Ordered(w) /\ w.state = st.state
  BY <1>1, TablesFacts DEF Good
<1>3. PICK q : q = Remove(st, t) OBVIOUS
<1>4. Solid(q) /\ Tables(q) \in RemoveResults(w, t)
  BY <1>1, <1>2, <1>3, RemoveDoes
<1>5. Good(Tables(q), {}) /\ HandsOver(w, Tables(q), t)
  BY <1>2, <1>4, RemoveGood
<1>6. q.state[t] = "SLEEP" BY <1>5, TablesFacts DEF HandsOver
<1>7. PICK b : b = Rerated(q, t, p, s) OBVIOUS
<1>8. Solid(b) /\ Tables(b) = Modified(Tables(q), t, p, s)
  BY <1>4, <1>6, <1>7, ChangeDoes
<1>9. Good(Tables(b), {}) /\ b.state[t] = "SLEEP"
  <2>1. Priority \cup {0} \subseteq Int BY SchedulerConstants
  <2>2. p \in Int BY <2>1
  <2>3. Tables(q).state[t] = "SLEEP" BY <1>6, TablesFacts
  <2>4. Good(Tables(b), {}) /\ Tables(b).state = Tables(q).state
    BY <2>2, <2>3, <1>5, <1>8, ChangeGood
  <2> QED BY <2>3, <2>4, TablesFacts
<1>10. r = Insert(b, t) BY <1>3, <1>7 DEF Requeue, Rerated
<1>11. Solid(r) /\ Tables(r) \in InsertResults(Tables(b), t)
  BY <1>8, <1>9, <1>10, InsertDoes DEF Good
<1>12. Tables(r) \in RequeueResults(w, t, p, s)
  <2>1. Tables(r) \in InsertResults(Modified(Tables(q), t, p, s), t) BY <1>8, <1>11
  <2> QED BY <2>1, <1>4 DEF RequeueResults
<1> QED BY <1>1, <1>11, <1>12
(* A heap without t is in order with its new priority, too.                *)
LEMMA HeapsRerated ==
  ASSUME NEW st \in HeapState, Filled(st, st.state), NEW a \in HeapState,
         NEW t \in Thread, NEW p, NewKeys(st, a, t, p), NEW s \in CpuSet
  PROVE  /\ t \notin With(st, st.state, s, "RUN") =>
              HeapOf(RunHeap(st, s), RunKey(a), Thread, With(st, st.state, s, "RUN"))
         /\ t \notin With(st, st.state, s, "READY") =>
              HeapOf(ReadyHeap(st, s), a.priority, Thread, With(st, st.state, s, "READY"))
<1>1. /\ RunKey(st) \in [Thread -> Int] /\ st.priority \in [Thread -> Int]
      /\ RunKey(a) \in [Thread -> Int] /\ a.priority \in [Thread -> Int]
  BY Keys
<1>2. /\ HeapOf(RunHeap(st, s), RunKey(st), Thread, With(st, st.state, s, "RUN"))
      /\ HeapOf(ReadyHeap(st, s), st.priority, Thread, With(st, st.state, s, "READY"))
  BY DEF Filled, SetFilled
<1>3. /\ \A u \in Thread : u # t => a.priority[u] = st.priority[u]
      /\ \A u \in Thread : u # t => RunKey(a)[u] = RunKey(st)[u]
  BY DEF NewKeys
<1>4. ASSUME t \notin With(st, st.state, s, "RUN")
      PROVE  HeapOf(RunHeap(st, s), RunKey(a), Thread, With(st, st.state, s, "RUN"))
  BY <1>1, <1>2, <1>3, <1>4, HeapRekeyed
<1>5. ASSUME t \notin With(st, st.state, s, "READY")
      PROVE  HeapOf(ReadyHeap(st, s), a.priority, Thread, With(st, st.state, s, "READY"))
  BY <1>1, <1>2, <1>3, <1>5, HeapRekeyed
<1> QED BY <1>4, <1>5

(* modify_thread_priority of a thread that stays where it is: its heap is  *)
(* dealt with again.                                                       *)
Reprioritised(st, t, p) == [st EXCEPT !.priority[t] = p]

LEMMA ReprioritisedFacts ==
  ASSUME NEW st, Solid(st), NEW t \in Thread, NEW p \in Priority \cup {0},
         NEW s, s = st.cpu_set_id[t], NEW a, a = Reprioritised(st, t, p)
  PROVE  /\ a \in HeapState /\ StacksHold(a) /\ NewKeys(st, a, t, p)
         /\ OnlyRates(st, a, Marked(st.priority, t, p), st.cpu_set_id)
         /\ s \in CpuSet /\ Tables(a) = Modified(Tables(st), t, p, s)
<1>1. st \in HeapState /\ StacksHold(st) /\ s \in CpuSet BY DEF Solid, HeapState
<1>2. PICK pr : pr = Marked(st.priority, t, p) OBVIOUS
<1>3. Marked(st.cpu_set_id, t, s) = st.cpu_set_id BY <1>1 DEF Marked, HeapState
<1>4. a \in HeapState /\ OnlyRates(st, a, pr, st.cpu_set_id)
  BY <1>1, <1>2 DEF Reprioritised, HeapState, OnlyRates, Marked
<1>5. StacksHold(a) BY <1>1, <1>4 DEF StacksHold, OnlyRates, Stack, FreeCpus
<1>6. NewKeys(st, a, t, p) BY <1>1, <1>2, <1>4, KeysChanged
<1>7. Tables(a) = Modified(Tables(st), t, p, s)
  <2>1. Modified(Tables(st), t, p, s) =
          Rated(st, Marked(st.priority, t, p), Marked(st.cpu_set_id, t, s))
    BY ModifiedTables
  <2>2. Tables(a) = Rated(st, pr, st.cpu_set_id) BY <1>4 DEF OnlyRates, Tables, Rated
  <2> QED BY <2>1, <2>2, <1>2, <1>3
<1> QED BY <1>1, <1>2, <1>4, <1>5, <1>6, <1>7

LEMMA ReadyRedealt ==
  ASSUME NEW st, Solid(st), NEW t \in Thread, st.state[t] = "READY",
         NEW p \in Priority \cup {0},
         NEW s, s = st.cpu_set_id[t], NEW a, a = Reprioritised(st, t, p),
         NEW D, D = IF p > st.priority[t] THEN DownDeal(ReadyHeap(st, s), a.priority, t)
                                          ELSE UpDeal(ReadyHeap(st, s), a.priority, t),
         NEW r, r = WithReadyHeap(a, s, D)
  PROVE  Solid(r) /\ Tables(r) = Modified(Tables(st), t, p, s)
<1> DEFINE M == With(st, st.state, s, "RUN")
           N == With(st, st.state, s, "READY")
<1>1. st \in HeapState /\ Filled(st, st.state) BY DEF Solid
<1>2. /\ a \in HeapState /\ StacksHold(a) /\ NewKeys(st, a, t, p)
      /\ OnlyRates(st, a, Marked(st.priority, t, p), st.cpu_set_id)
      /\ s \in CpuSet /\ Tables(a) = Modified(Tables(st), t, p, s)
  BY ReprioritisedFacts
<1>3. t \in N /\ t \notin M BY DEF With
<1>4. HeapOf(ReadyHeap(st, s), st.priority, Thread, N) BY <1>1, <1>2 DEF Filled, SetFilled
<1>5. st.priority \in [Thread -> Int] /\ a.priority \in [Thread -> Int] BY <1>1, <1>2, Keys
<1>6. a.priority[t] = p /\ \A u \in Thread : u # t => a.priority[u] = st.priority[u]
  BY <1>2 DEF NewKeys
<1>7. Dealt(ReadyHeap(st, s), D, a.priority, Thread, N)
  <2>1. PICK K, new, key : K = ReadyHeap(st, s) /\ new = a.priority /\ key = st.priority OBVIOUS
  <2>2. new[t] \in Int /\ key[t] \in Int /\ new[t] = p BY <2>1, <1>5, <1>6
  <2>3. /\ t \in N /\ new[t] <= key[t] => Dealt(K, UpDeal(K, new, t), new, Thread, N)
        /\ t \in N /\ new[t] >= key[t] => Dealt(K, DownDeal(K, new, t), new, Thread, N)
    <3> HIDE DEF N
    <3> QED BY <2>1, <1>4, <1>5, <1>6, HeapRekeyed
  <2>4. CASE p > key[t] BY <2>1, <2>2, <2>3, <2>4, <1>3
  <2>5. CASE ~(p > key[t])
    <3>1. new[t] <= key[t] BY <2>2, <2>5
    <3> QED BY <3>1, <2>1, <2>3, <2>5, <1>3
  <2> QED BY <2>4, <2>5
<1>8. /\ D.id \in [Thread -> Slots(Thread)]
      /\ HeapOf([at |-> D.at, id |-> D.id], a.priority, Thread, N)
      /\ \A u \in Thread : u \notin N => D.id[u] = st.heap_id[u]
  <2>1. ReadyHeap(st, s).id = st.heap_id BY DEF ReadyHeap
  <2> HIDE DEF N
  <2> QED BY <2>1, <1>7, DealtFacts DEF DealtOut
<1>9. HeapOf([at |-> st.run_heap[s], id |-> D.id], RunKey(a), Thread, M)
  <2>1. HeapOf([at |-> st.run_heap[s], id |-> st.heap_id], RunKey(a), Thread, M)
    <3>1. HeapOf(RunHeap(st, s), RunKey(a), Thread, M) BY <1>1, <1>2, <1>3, HeapsRerated
    <3> QED BY <3>1 DEF RunHeap
  <2>2. \A u \in M : D.id[u] = st.heap_id[u] BY <1>8 DEF With
  <2> HIDE DEF M
  <2> QED BY <2>1, <2>2, <1>8, HeapKept
<1>10. \A z, s2 : With(a, st.state, s2, z) = With(st, st.state, s2, z)
  BY <1>2 DEF With, OnlyRates
<1>11. ASSUME NEW s2 \in CpuSet, s2 # s PROVE SetFilled(a, st.state, s2)
  <2>1. t \notin With(st, st.state, s2, "RUN") /\ t \notin With(st, st.state, s2, "READY")
    BY <1>11 DEF With
  <2>2. /\ HeapOf(RunHeap(st, s2), RunKey(a), Thread, With(st, st.state, s2, "RUN"))
        /\ HeapOf(ReadyHeap(st, s2), a.priority, Thread, With(st, st.state, s2, "READY"))
    BY <2>1, <1>1, <1>2, HeapsRerated
  <2>3. RunHeap(a, s2) = RunHeap(st, s2) /\ ReadyHeap(a, s2) = ReadyHeap(st, s2)
    BY <1>2 DEF OnlyRates, RunHeap, ReadyHeap
  <2> QED BY <2>2, <2>3, <1>10 DEF SetFilled
<1>12. Reheaped(a, st.state, r, st.state, s, st.run_heap[s], D.at, D.id)
  <2>1. r = Heaped(a, s, a.run_heap[s], D.at, D.id) BY <1>2, ReadyHeaped
  <2>2. a.run_heap = st.run_heap /\ a.heap_id = st.heap_id /\ a.cpu_set_id = st.cpu_set_id
    BY <1>2 DEF OnlyRates
  <2>3. \A u \in Thread : st.cpu_set_id[u] # s => D.id[u] = st.heap_id[u]
    BY <1>8 DEF With
  <2> HIDE DEF M, N
  <2> QED BY <2>1, <2>2, <2>3, <1>2, <1>8, <1>9, <1>10, <1>11 DEF Reheaped, M, N
<1>13. r \in HeapState /\ Filled(r, st.state) /\ OnlyHeaps(a, r)
  BY <1>2, <1>12, HeapsChanged DEF HeapsNow
<1>14. StacksHold(r) BY <1>2, <1>13, HeapsKeepStacks
<1>15. r.state = st.state /\ Tables(r) = Tables(a)
  BY <1>2, <1>13 DEF OnlyHeaps, OnlyRates, Tables
<1> QED BY <1>2, <1>13, <1>14, <1>15 DEF Solid

LEMMA RunRedealt ==
  ASSUME NEW st, Solid(st), NEW t \in Thread, st.state[t] = "RUN",
         NEW p \in Priority \cup {0},
         NEW s, s = st.cpu_set_id[t], NEW a, a = Reprioritised(st, t, p),
         NEW D, D = IF p > st.priority[t] THEN UpDeal(RunHeap(st, s), RunKey(a), t)
                                          ELSE DownDeal(RunHeap(st, s), RunKey(a), t),
         NEW r, r = WithRunHeap(a, s, D)
  PROVE  Solid(r) /\ Tables(r) = Modified(Tables(st), t, p, s)
<1> DEFINE M == With(st, st.state, s, "RUN")
           N == With(st, st.state, s, "READY")
<1>1. st \in HeapState /\ Filled(st, st.state) BY DEF Solid
<1>2. /\ a \in HeapState /\ StacksHold(a) /\ NewKeys(st, a, t, p)
      /\ OnlyRates(st, a, Marked(st.priority, t, p), st.cpu_set_id)
      /\ s \in CpuSet /\ Tables(a) = Modified(Tables(st), t, p, s)
  BY ReprioritisedFacts
<1>3. t \in M /\ t \notin N BY DEF With
<1>4. HeapOf(RunHeap(st, s), RunKey(st), Thread, M) BY <1>1, <1>2 DEF Filled, SetFilled
<1>5. RunKey(st) \in [Thread -> Int] /\ RunKey(a) \in [Thread -> Int]
      /\ st.priority \in [Thread -> Int] /\ a.priority \in [Thread -> Int]
  BY <1>1, <1>2, Keys
<1>6. /\ RunKey(a)[t] = -p /\ RunKey(st)[t] = -st.priority[t] /\ a.priority[t] = p
      /\ \A u \in Thread : u # t => RunKey(a)[u] = RunKey(st)[u]
  BY <1>2 DEF NewKeys
<1>7. Dealt(RunHeap(st, s), D, RunKey(a), Thread, M)
  <2>1. PICK K, new, key : K = RunHeap(st, s) /\ new = RunKey(a) /\ key = RunKey(st) OBVIOUS
  <2>2. p \in Int /\ st.priority[t] \in Int BY <1>5, <1>6
  <2>3. /\ t \in M /\ new[t] <= key[t] => Dealt(K, UpDeal(K, new, t), new, Thread, M)
        /\ t \in M /\ new[t] >= key[t] => Dealt(K, DownDeal(K, new, t), new, Thread, M)
    <3> HIDE DEF M
    <3> QED BY <2>1, <1>4, <1>5, <1>6, HeapRekeyed
  <2>4. CASE p > st.priority[t]
    <3>1. new[t] <= key[t] BY <2>1, <2>2, <2>4, <1>6
    <3> QED BY <3>1, <2>1, <2>3, <2>4, <1>3
  <2>5. CASE ~(p > st.priority[t])
    <3>1. new[t] >= key[t] BY <2>1, <2>2, <2>5, <1>6
    <3> QED BY <3>1, <2>1, <2>3, <2>5, <1>3
  <2> QED BY <2>4, <2>5
<1>8. /\ D.id \in [Thread -> Slots(Thread)]
      /\ HeapOf([at |-> D.at, id |-> D.id], RunKey(a), Thread, M)
      /\ \A u \in Thread : u \notin M => D.id[u] = st.heap_id[u]
  <2>1. RunHeap(st, s).id = st.heap_id BY DEF RunHeap
  <2> HIDE DEF M
  <2> QED BY <2>1, <1>7, DealtFacts DEF DealtOut
<1>9. HeapOf([at |-> st.ready_heap[s], id |-> D.id], a.priority, Thread, N)
  <2>1. HeapOf([at |-> st.ready_heap[s], id |-> st.heap_id], a.priority, Thread, N)
    <3>1. HeapOf(ReadyHeap(st, s), a.priority, Thread, N) BY <1>1, <1>2, <1>3, HeapsRerated
    <3> QED BY <3>1 DEF ReadyHeap
  <2>2. \A u \in N : D.id[u] = st.heap_id[u] BY <1>8 DEF With
  <2> HIDE DEF N
  <2> QED BY <2>1, <2>2, <1>8, HeapKept
<1>10. \A z, s2 : With(a, st.state, s2, z) = With(st, st.state, s2, z)
  BY <1>2 DEF With, OnlyRates
<1>11. ASSUME NEW s2 \in CpuSet, s2 # s PROVE SetFilled(a, st.state, s2)
  <2>1. t \notin With(st, st.state, s2, "RUN") /\ t \notin With(st, st.state, s2, "READY")
    BY <1>11 DEF With
  <2>2. /\ HeapOf(RunHeap(st, s2), RunKey(a), Thread, With(st, st.state, s2, "RUN"))
        /\ HeapOf(ReadyHeap(st, s2), a.priority, Thread, With(st, st.state, s2, "READY"))
    BY <2>1, <1>1, <1>2, HeapsRerated
  <2>3. RunHeap(a, s2) = RunHeap(st, s2) /\ ReadyHeap(a, s2) = ReadyHeap(st, s2)
    BY <1>2 DEF OnlyRates, RunHeap, ReadyHeap
  <2> QED BY <2>2, <2>3, <1>10 DEF SetFilled
<1>12. Reheaped(a, st.state, r, st.state, s, D.at, st.ready_heap[s], D.id)
  <2>1. r = Heaped(a, s, D.at, a.ready_heap[s], D.id) BY <1>2, RunHeaped
  <2>2. a.ready_heap = st.ready_heap /\ a.heap_id = st.heap_id /\ a.cpu_set_id = st.cpu_set_id
    BY <1>2 DEF OnlyRates
  <2>3. \A u \in Thread : st.cpu_set_id[u] # s => D.id[u] = st.heap_id[u]
    BY <1>8 DEF With
  <2> HIDE DEF M, N
  <2> QED BY <2>1, <2>2, <2>3, <1>2, <1>8, <1>9, <1>10, <1>11 DEF Reheaped, M, N
<1>13. r \in HeapState /\ Filled(r, st.state) /\ OnlyHeaps(a, r)
  BY <1>2, <1>12, HeapsChanged DEF HeapsNow
<1>14. StacksHold(r) BY <1>2, <1>13, HeapsKeepStacks
<1>15. r.state = st.state /\ Tables(r) = Tables(a)
  BY <1>2, <1>13 DEF OnlyHeaps, OnlyRates, Tables
<1> QED BY <1>2, <1>13, <1>14, <1>15 DEF Solid
-----------------------------------------------------------------------------
(* modify_thread_priority looks at one root and thereby at the whole heap. *)
RunRootOutranked(st, s, p) == st.run_heap[s] # <<>> /\ p < st.priority[st.run_heap[s][1]]
ReadyRootOutranks(st, s, p) == st.ready_heap[s] # <<>> /\ p > st.priority[st.ready_heap[s][1]]

LEMMA RunOutranked ==
  ASSUME NEW st, Solid(st), NEW s \in CpuSet, NEW p \in Int
  PROVE  RunRootOutranked(st, s, p) <=>
           \E u \in ThreadsIn(Tables(st), s, "RUN") : p < st.priority[u]
<1>1. PICK M, g : M = ThreadsIn(Tables(st), s, "RUN") /\ g = st.run_heap[s][1] OBVIOUS
<1>2. st.run_heap[s] # <<>> =>
        g \in M /\ \A u \in M : st.priority[u] <= st.priority[g]
  BY <1>1, RunRoot, TablesFacts DEF WorstRunning
<1>3. st.run_heap[s] = <<>> => M = {} BY <1>1, Emptiness
<1>4. \A u \in M : st.priority[u] \in Int
  BY <1>1, Keys DEF ThreadsIn, Solid
<1>5. CASE st.run_heap[s] = <<>> BY <1>1, <1>3, <1>5 DEF RunRootOutranked
<1>6. CASE st.run_heap[s] # <<>>
  <2>1. RunRootOutranked(st, s, p) <=> p < st.priority[g]
    BY <1>1, <1>6 DEF RunRootOutranked
  <2>2. g \in M /\ \A u \in M : st.priority[u] <= st.priority[g] BY <1>2, <1>6
  <2>3. p < st.priority[g] <=> \E u \in M : p < st.priority[u] BY <2>2, <1>4
  <2> QED BY <2>1, <2>3, <1>1
<1> QED BY <1>5, <1>6

LEMMA ReadyOutranks ==
  ASSUME NEW st, Solid(st), NEW s \in CpuSet, NEW p \in Int
  PROVE  ReadyRootOutranks(st, s, p) <=>
           \E u \in ThreadsIn(Tables(st), s, "READY") : st.priority[u] < p
<1>1. PICK M, g : M = ThreadsIn(Tables(st), s, "READY") /\ g = st.ready_heap[s][1] OBVIOUS
<1>2. st.ready_heap[s] # <<>> =>
        g \in M /\ \A u \in M : st.priority[g] <= st.priority[u]
  BY <1>1, ReadyRoot, TablesFacts DEF BestReady
<1>3. st.ready_heap[s] = <<>> => M = {} BY <1>1, Emptiness
<1>4. \A u \in M : st.priority[u] \in Int
  BY <1>1, Keys DEF ThreadsIn, Solid
<1>5. CASE st.ready_heap[s] = <<>> BY <1>1, <1>3, <1>5 DEF ReadyRootOutranks
<1>6. CASE st.ready_heap[s] # <<>>
  <2>1. ReadyRootOutranks(st, s, p) <=> p > st.priority[g]
    BY <1>1, <1>6 DEF ReadyRootOutranks
  <2>2. g \in M /\ \A u \in M : st.priority[g] <= st.priority[u] BY <1>2, <1>6
  <2>3. p > st.priority[g] <=> \E u \in M : st.priority[u] < p BY <2>2, <1>4
  <2> QED BY <2>1, <2>3, <1>1
<1> QED BY <1>5, <1>6

(* Nobody need move when nothing changes.                                  *)
LEMMA NothingChanges ==
  ASSUME NEW st, Solid(st), Good(Tables(st), {}), NEW t \in Thread
  PROVE  /\ Modified(Tables(st), t, st.priority[t], st.cpu_set_id[t]) = Tables(st)
         /\ ~MustRequeue(Tables(st), t, st.priority[t], st.cpu_set_id[t])
<1>1. PICK w, s, p : w = Tables(st) /\ s = st.cpu_set_id[t] /\ p = st.priority[t] OBVIOUS
<1>2. w.cpu_set_id[t] = s /\ w.priority = st.priority /\ w.priority[t] = p
  BY <1>1, TablesFacts
<1>3. Modified(w, t, p, s) = w
  <2>1. Marked(st.priority, t, p) = st.priority /\ Marked(st.cpu_set_id, t, s) = st.cpu_set_id
    BY <1>1 DEF Marked, Solid, HeapState
  <2>2. Modified(Tables(st), t, p, s) =
          Rated(st, Marked(st.priority, t, p), Marked(st.cpu_set_id, t, s))
    BY ModifiedTables
  <2> QED BY <2>1, <2>2, <1>1 DEF Rated, Tables
<1>4. \A u \in Thread : w.priority[u] \in Int BY <1>1, <1>2, Keys DEF Solid
<1>5. Ordered(w) BY <1>1 DEF Good
<1>6. ASSUME w.state[t] = "READY", NEW u \in ThreadsIn(w, s, "RUN")
      PROVE  ~Better(p, w.priority[u])
  <2>1. u \in Thread /\ w.cpu_set_id[u] = s /\ w.state[u] = "RUN" BY DEF ThreadsIn
  <2>2. w.priority[u] <= w.priority[t] BY <2>1, <1>2, <1>5, <1>6 DEF Ordered
  <2> QED BY <2>1, <2>2, <1>2, <1>4 DEF Better
<1>7. ASSUME w.state[t] = "RUN", NEW u \in ThreadsIn(w, s, "READY")
      PROVE  ~Better(w.priority[u], p)
  <2>1. u \in Thread /\ w.cpu_set_id[u] = s /\ w.state[u] = "READY" BY DEF ThreadsIn
  <2>2. w.priority[t] <= w.priority[u] BY <2>1, <1>2, <1>5, <1>7 DEF Ordered
  <2> QED BY <2>1, <2>2, <1>2, <1>4 DEF Better
<1>8. ~MustRequeue(w, t, p, s) BY <1>2, <1>6, <1>7 DEF MustRequeue
<1> QED BY <1>1, <1>3, <1>8

LEMMA ModifyReadyDoes ==
  ASSUME NEW st, Solid(st), Good(Tables(st), {}), NEW t \in Thread, st.state[t] = "READY",
         NEW p \in Priority \cup {0}, NEW s, s = st.cpu_set_id[t],
         NEW a, a = Reprioritised(st, t, p),
         NEW r, r = IF p = st.priority[t] THEN st
                    ELSE IF RunRootOutranked(st, s, p) THEN Requeue(st, t, p, s)
                    ELSE WithReadyHeap(a, s,
                           IF p > st.priority[t] THEN DownDeal(ReadyHeap(st, s), a.priority, t)
                                                 ELSE UpDeal(ReadyHeap(st, s), a.priority, t))
  PROVE  Solid(r) /\ Tables(r) \in ModifyResults(Tables(st), t, p, s)
<1>1. PICK w : w = Tables(st) OBVIOUS
<1>2. w.cpu_set_id[t] = s /\ w.state[t] = "READY" /\ w.priority = st.priority
  BY <1>1, TablesFacts
<1>3. s \in CpuSet /\ p \in Int
  <2>1. Priority \cup {0} \subseteq Int BY SchedulerConstants
  <2> QED BY <2>1 DEF Solid, HeapState
<1>4. MustRequeue(w, t, p, s) <=> RunRootOutranked(st, s, p)
  <2>1. RunRootOutranked(st, s, p) <=> \E u \in ThreadsIn(w, s, "RUN") : p < st.priority[u]
    BY <1>1, <1>3, RunOutranked
  <2> QED BY <2>1, <1>2 DEF MustRequeue, Better
<1>5. CASE p = st.priority[t]
  <2>1. r = st BY <1>5
  <2>2. Modified(w, t, p, s) = w /\ ~MustRequeue(w, t, p, s) BY <1>1, <1>5, NothingChanges
  <2> QED BY <2>1, <2>2, <1>1 DEF ModifyResults
<1>6. CASE p # st.priority[t] /\ RunRootOutranked(st, s, p)
  <2>1. r = Requeue(st, t, p, s) BY <1>6
  <2>2. st.state[t] # "SLEEP" OBVIOUS
  <2>3. Solid(r) /\ Tables(r) \in RequeueResults(Tables(st), t, p, s)
    BY <2>1, <2>2, <1>3, RequeueDoes
  <2> QED BY <2>3, <1>1, <1>2, <1>4, <1>6 DEF ModifyResults
<1>7. CASE p # st.priority[t] /\ ~RunRootOutranked(st, s, p)
  <2>1. PICK D : D = IF p > st.priority[t] THEN DownDeal(ReadyHeap(st, s), a.priority, t)
                                           ELSE UpDeal(ReadyHeap(st, s), a.priority, t)
    OBVIOUS
  <2>2. r = WithReadyHeap(a, s, D) BY <2>1, <1>7
  <2>3. Solid(r) /\ Tables(r) = Modified(Tables(st), t, p, s) BY <2>1, <2>2, ReadyRedealt
  <2> QED BY <2>3, <1>1, <1>4, <1>7 DEF ModifyResults
<1> QED BY <1>5, <1>6, <1>7

LEMMA ModifyRunDoes ==
  ASSUME NEW st, Solid(st), Good(Tables(st), {}), NEW t \in Thread, st.state[t] = "RUN",
         NEW p \in Priority \cup {0}, NEW s, s = st.cpu_set_id[t],
         NEW a, a = Reprioritised(st, t, p),
         NEW r, r = IF p = st.priority[t] THEN st
                    ELSE IF ReadyRootOutranks(st, s, p) THEN Requeue(st, t, p, s)
                    ELSE WithRunHeap(a, s,
                           IF p > st.priority[t] THEN UpDeal(RunHeap(st, s), RunKey(a), t)
                                                 ELSE DownDeal(RunHeap(st, s), RunKey(a), t))
  PROVE  Solid(r) /\ Tables(r) \in ModifyResults(Tables(st), t, p, s)
<1>1. PICK w : w = Tables(st) OBVIOUS
<1>2. w.cpu_set_id[t] = s /\ w.state[t] = "RUN" /\ w.priority = st.priority
  BY <1>1, TablesFacts
<1>3. s \in CpuSet /\ p \in Int
  <2>1. Priority \cup {0} \subseteq Int BY SchedulerConstants
  <2> QED BY <2>1 DEF Solid, HeapState
<1>4. MustRequeue(w, t, p, s) <=> ReadyRootOutranks(st, s, p)
  <2>1. ReadyRootOutranks(st, s, p) <=> \E u \in ThreadsIn(w, s, "READY") : st.priority[u] < p
    BY <1>1, <1>3, ReadyOutranks
  <2> QED BY <2>1, <1>2 DEF MustRequeue, Better
<1>5. CASE p = st.priority[t]
  <2>1. r = st BY <1>5
  <2>2. Modified(w, t, p, s) = w /\ ~MustRequeue(w, t, p, s) BY <1>1, <1>5, NothingChanges
  <2> QED BY <2>1, <2>2, <1>1 DEF ModifyResults
<1>6. CASE p # st.priority[t] /\ ReadyRootOutranks(st, s, p)
  <2>1. r = Requeue(st, t, p, s) BY <1>6
  <2>2. st.state[t] # "SLEEP" OBVIOUS
  <2>3. Solid(r) /\ Tables(r) \in RequeueResults(Tables(st), t, p, s)
    BY <2>1, <2>2, <1>3, RequeueDoes
  <2> QED BY <2>3, <1>1, <1>2, <1>4, <1>6 DEF ModifyResults
<1>7. CASE p # st.priority[t] /\ ~ReadyRootOutranks(st, s, p)
  <2>1. PICK D : D = IF p > st.priority[t] THEN UpDeal(RunHeap(st, s), RunKey(a), t)
                                           ELSE DownDeal(RunHeap(st, s), RunKey(a), t)
    OBVIOUS
  <2>2. r = WithRunHeap(a, s, D) BY <2>1, <1>7
  <2>3. Solid(r) /\ Tables(r) = Modified(Tables(st), t, p, s) BY <2>1, <2>2, RunRedealt
  <2> QED BY <2>3, <1>1, <1>4, <1>7 DEF ModifyResults
<1> QED BY <1>5, <1>6, <1>7

(* modify_thread_priority.                                                 *)
LEMMA ModifyDoes ==
  ASSUME NEW st, Solid(st), Good(Tables(st), {}), NEW t \in Thread,
         NEW p \in Priority \cup {0}, NEW s \in CpuSet \cup {None},
         NEW new, new = SetOr(s, st.cpu_set_id[t]),
         NEW r, r = ModifyPriority(st, t, p, s)
  PROVE  /\ Solid(r) /\ new \in CpuSet
         /\ Tables(r) \in ModifyResults(Tables(st), t, p, new)
<1>1. PICK w, old, a : w = Tables(st) /\ old = st.cpu_set_id[t] /\ a = Reprioritised(st, t, p)
  OBVIOUS
<1>2. w.cpu_set_id[t] = old /\ w.state[t] = st.state[t] BY <1>1, TablesFacts
<1>3. old \in CpuSet /\ new \in CpuSet /\ st.state[t] \in States
  BY <1>1 DEF Solid, HeapState, SetOr
<1>4. CASE st.state[t] = "SLEEP"
  <2>1. r = [a EXCEPT !.cpu_set_id[t] = new] BY <1>1, <1>4 DEF ModifyPriority, Reprioritised
  <2>2. r = Rerated(st, t, p, new)
    BY <2>1, <1>1 DEF Rerated, Reprioritised, Solid, HeapState
  <2>3. Solid(r) /\ Tables(r) = Modified(Tables(st), t, p, new)
    BY <2>2, <1>3, <1>4, ChangeDoes
  <2> QED BY <2>3, <1>1, <1>2, <1>3, <1>4 DEF ModifyResults
<1>5. CASE st.state[t] # "SLEEP" /\ new # old
  <2>1. r = Requeue(st, t, p, new) BY <1>1, <1>5 DEF ModifyPriority
  <2>2. Solid(r) /\ Tables(r) \in RequeueResults(Tables(st), t, p, new)
    BY <2>1, <1>3, <1>5, RequeueDoes
  <2>3. MustRequeue(w, t, p, new) BY <1>2, <1>5 DEF MustRequeue
  <2> QED BY <2>2, <2>3, <1>1, <1>2, <1>3, <1>5 DEF ModifyResults
<1>6. CASE st.state[t] = "READY" /\ new = old
  <2>1. r = IF p = st.priority[t] THEN st
            ELSE IF RunRootOutranked(st, old, p) THEN Requeue(st, t, p, old)
            ELSE WithReadyHeap(a, old,
                   IF p > st.priority[t] THEN DownDeal(ReadyHeap(st, old), a.priority, t)
                                         ELSE UpDeal(ReadyHeap(st, old), a.priority, t))
    BY <1>1, <1>6 DEF ModifyPriority, RunRootOutranked, Reprioritised, RunHeap
  <2> QED BY <2>1, <1>1, <1>3, <1>6, ModifyReadyDoes
<1>7. CASE st.state[t] = "RUN" /\ new = old
  <2>1. r = IF p = st.priority[t] THEN st
            ELSE IF ReadyRootOutranks(st, old, p) THEN Requeue(st, t, p, old)
            ELSE WithRunHeap(a, old,
                   IF p > st.priority[t] THEN UpDeal(RunHeap(st, old), RunKey(a), t)
                                         ELSE DownDeal(RunHeap(st, old), RunKey(a), t))
    BY <1>1, <1>7 DEF ModifyPriority, ReadyRootOutranks, Reprioritised, ReadyHeap
  <2> QED BY <2>1, <1>1, <1>3, <1>7, ModifyRunDoes
<1> QED BY <1>3, <1>4, <1>5, <1>6, <1>7 DEF States
-----------------------------------------------------------------------------
(* The parts of change_cpu_set: a thread is set aside and put back.        *)
LEMMA SetAsideDoes ==
  ASSUME NEW st, Solid(st), Good(Tables(st), {}), NEW t \in Thread \cup {None},
         t # None => st.state[t] # "SLEEP",
         NEW q, q = IF t = None THEN st ELSE Remove(st, t)
  PROVE  /\ Solid(q) /\ Tables(q) \in SetAside(Tables(st), t) /\ Good(Tables(q), {})
         /\ q.cpu_set_id = st.cpu_set_id /\ q.cpu_set_of = st.cpu_set_of
         /\ t # None => q.state[t] = "SLEEP"
         /\ t = None => q = st
<1>1. CASE t = None BY <1>1 DEF SetAside
<1>2. CASE t # None
  <2>1. t \in Thread /\ q = Remove(st, t) /\ st.state[t] # "SLEEP" BY <1>2
  <2>2. PICK w : w = Tables(st) OBVIOUS
  <2>3. Good(w, {}) /\ Agree(w) /\ Ordered(w) /\ w.state = st.state
    BY <2>2, TablesFacts DEF Good
  <2>4. Solid(q) /\ Tables(q) \in RemoveResults(w, t) BY <2>1, <2>2, <2>3, RemoveDoes
  <2>5. Good(Tables(q), {}) /\ Kept(w, Tables(q)) /\ HandsOver(w, Tables(q), t)
    BY <2>1, <2>3, <2>4, RemoveGood
  <2>6. /\ q.cpu_set_id = st.cpu_set_id /\ q.cpu_set_of = st.cpu_set_of
        /\ q.state[t] = "SLEEP"
    BY <2>2, <2>5, TablesFacts DEF Kept, HandsOver
  <2> QED BY <2>2, <2>4, <2>5, <2>6, <1>2 DEF SetAside
<1> QED BY <1>1, <1>2

LEMMA PutBackDoes ==
  ASSUME NEW st, Solid(st), NEW X \in SUBSET Cpu, Good(Tables(st), X),
         NEW t \in Thread \cup {None}, t # None => st.state[t] = "SLEEP",
         t # None => \A c \in X : st.cpu_set_of[c] # st.cpu_set_id[t],
         NEW r, r = IF t = None THEN st ELSE Insert(st, t)
  PROVE  /\ Solid(r) /\ Tables(r) \in PutBack(Tables(st), t) /\ Good(Tables(r), X)
         /\ r.cpu_set_of = st.cpu_set_of
         /\ \A c \in X : r.thread_id[c] = None <=> st.thread_id[c] = None
<1>1. CASE t = None BY <1>1 DEF PutBack
<1>2. CASE t # None
  <2>1. t \in Thread /\ r = Insert(st, t) /\ st.state[t] = "SLEEP" BY <1>2
  <2>2. PICK w : w = Tables(st) OBVIOUS
  <2>3. /\ Good(w, X) /\ Agree(w) /\ w.state = st.state /\ w.thread_id = st.thread_id
        /\ w.cpu_set_of = st.cpu_set_of /\ w.cpu_set_id = st.cpu_set_id
    BY <2>2, TablesFacts DEF Good
  <2>4. Solid(r) /\ Tables(r) \in InsertResults(w, t) BY <2>1, <2>2, <2>3, InsertDoes
  <2>5. \A c \in X : w.cpu_set_of[c] # w.cpu_set_id[t] BY <2>3, <1>2
  <2>6. w.state[t] = "SLEEP" BY <2>1, <2>3
  <2>7. PICK v : v = Tables(r) OBVIOUS
  <2>8. /\ Good(v, X) /\ Kept(w, v)
        /\ \A c \in X : v.thread_id[c] = None <=> w.thread_id[c] = None
    BY <2>1, <2>3, <2>4, <2>5, <2>6, <2>7, InsertGood
  <2>9. /\ r.cpu_set_of = st.cpu_set_of
        /\ \A c \in X : r.thread_id[c] = None <=> st.thread_id[c] = None
    BY <2>3, <2>7, <2>8, TablesFacts DEF Kept
  <2> QED BY <2>2, <2>4, <2>7, <2>8, <2>9, <1>2 DEF PutBack
<1> QED BY <1>1, <1>2

(* A CPU is on the stack of its set exactly when it is free.               *)
LEMMA OffStack ==
  ASSUME NEW st, Solid(st), NEW c \in Cpu
  PROVE  st.stack_location[c] = 0 \/ st.free_cpu[st.cpu_set_of[c]] = <<>>
           <=> st.thread_id[c] # None
<1>1. PICK s, H, M : s = st.cpu_set_of[c] /\ H = Stack(st, s) /\ M = FreeCpus(st, s) OBVIOUS
<1>2. s \in CpuSet BY <1>1 DEF Solid, HeapState
<1>3. Listed(H, Cpu, M) BY <1>1, <1>2 DEF Solid, StacksHold
<1>4. H.at = st.free_cpu[s] /\ H.id = st.stack_location BY <1>1 DEF Stack
<1>5. CASE st.thread_id[c] # None BY <1>5 DEF Solid, StacksHold
<1>6. CASE st.thread_id[c] = None
  <2>1. c \in M BY <1>1, <1>6 DEF FreeCpus
  <2>2. H.id[c] \in 1..Len(H.at) BY <2>1, <1>3, ListedFacts
  <2>3. st.stack_location[c] # 0 BY <2>2, <1>4
  <2>4. st.free_cpu[s] # <<>>
    <3>1. 1..Len(<<>>) = {} OBVIOUS
    <3> QED BY <3>1, <2>2, <1>4
  <2> QED BY <2>3, <2>4, <1>1, <1>6
<1> QED BY <1>5, <1>6

LEMMA MovedTables ==
  ASSUME NEW st, NEW c, NEW new
  PROVE  Rehome(Tables(st), c, new) =
           [state |-> st.state, priority |-> st.priority, cpu_set_id |-> st.cpu_set_id,
            cpu_id |-> st.cpu_id, thread_id |-> st.thread_id,
            cpu_set_of |-> [st.cpu_set_of EXCEPT ![c] = new]]
<1>1. PICK w : w = Tables(st) OBVIOUS
<1>2. w \in [state : {st.state}, priority : {st.priority}, cpu_set_id : {st.cpu_set_id},
             cpu_id : {st.cpu_id}, thread_id : {st.thread_id}, cpu_set_of : {st.cpu_set_of}]
  BY <1>1 DEF Tables
<1>3. PICK r : r = Rehome(w, c, new) OBVIOUS
<1>4. PICK cs : cs = [st.cpu_set_of EXCEPT ![c] = new] OBVIOUS
<1>5. r \in [state : {st.state}, priority : {st.priority}, cpu_set_id : {st.cpu_set_id},
             cpu_id : {st.cpu_id}, thread_id : {st.thread_id}, cpu_set_of : {cs}]
  BY <1>2, <1>3, <1>4 DEF Rehome
<1> QED BY <1>1, <1>3, <1>4, <1>5

LEMMA CpuMoved ==
  ASSUME NEW st, Solid(st), NEW c \in Cpu, st.thread_id[c] = None,
         NEW new \in CpuSet, new # st.cpu_set_of[c],
         NEW r, r = MoveFreeCpu(st, c, new)
  PROVE  Solid(r) /\ Tables(r) = Rehome(Tables(st), c, new)
<1>1. st \in HeapState /\ Filled(st, st.state) /\ StacksHold(st) BY DEF Solid
<1>2. /\ r \in HeapState /\ StacksHold(r) /\ OnlyStacks(st, r)
      /\ r.cpu_id = st.cpu_id /\ r.thread_id = st.thread_id
      /\ r.cpu_set_of = [st.cpu_set_of EXCEPT ![c] = new]
  BY <1>1, MoveKeepsStacks
<1>3. Filled(r, st.state) BY <1>1, <1>2, FilledKept
<1>4. r.state = st.state BY <1>2 DEF OnlyStacks
<1>5. Tables(r) = Rehome(Tables(st), c, new)
  BY <1>2, MovedTables DEF OnlyStacks, Tables
<1> QED BY <1>2, <1>3, <1>4, <1>5 DEF Solid

LEMMA RetryDoes ==
  ASSUME NEW st, Solid(st), NEW c \in Cpu, Good(Tables(st), {c}),
         NEW s \in CpuSet,
         NEW r, r = IF st.ready_heap[s] = <<>> THEN st
                    ELSE Insert(Remove(st, st.ready_heap[s][1]), st.ready_heap[s][1])
  PROVE  Solid(r) /\ Tables(r) \in Retry(Tables(st), s)
<1>1. PICK w, g : w = Tables(st) /\ g = st.ready_heap[s][1] OBVIOUS
<1>2. st.ready_heap[s] = <<>> <=> ThreadsIn(w, s, "READY") = {} BY <1>1, Emptiness
<1>3. CASE st.ready_heap[s] = <<>> BY <1>1, <1>2, <1>3 DEF Retry
<1>4. CASE st.ready_heap[s] # <<>>
  <2>1. g \in BestReady(w, s) BY <1>1, <1>4, ReadyRoot
  <2>2. g \in Thread /\ w.state[g] = "READY" BY <2>1 DEF BestReady, ThreadsIn
  <2>3. st.state[g] # "SLEEP" /\ w.state[g] # "SLEEP" BY <2>2, <1>1, TablesFacts
  <2>4. Good(w, {c}) /\ Agree(w) /\ Ordered(w) BY <1>1 DEF Good
  <2>5. PICK q : q = Remove(st, g) OBVIOUS
  <2>6. Solid(q) /\ Tables(q) \in RemoveResults(w, g)
    BY <2>2, <2>3, <2>4, <2>5, <1>1, RemoveDoes
  <2>7. Good(Tables(q), {c}) /\ HandsOver(w, Tables(q), g)
    <3>1. {c} \in SUBSET Cpu OBVIOUS
    <3>2. PICK X : X = {c} OBVIOUS
    <3> QED BY <3>1, <3>2, <2>2, <2>3, <2>4, <2>6, RemoveGood
  <2>8. q.state[g] = "SLEEP" /\ Agree(Tables(q)) BY <2>7, TablesFacts DEF HandsOver, Good
  <2>9. r = Insert(q, g) BY <2>5, <1>1, <1>4
  <2>10. Solid(r) /\ Tables(r) \in InsertResults(Tables(q), g)
    BY <2>2, <2>6, <2>8, <2>9, InsertDoes
  <2> QED BY <2>1, <2>6, <2>10, <1>1, <1>2, <1>4 DEF Retry
<1> QED BY <1>3, <1>4

(* change_cpu_set.                                                         *)
LEMMA MoveDoes ==
  ASSUME NEW st, Solid(st), Good(Tables(st), {}), NEW c \in Cpu, NEW new \in CpuSet,
         st.cpu_set_of[c] # new,
         NEW r, r = ChangeCpuSet(st, c, new)
  PROVE  Solid(r) /\ Tables(r) \in MoveResults(Tables(st), c, new)
<1>1. PICK w, t : w = Tables(st) /\ t = st.thread_id[c] OBVIOUS
<1>2. /\ w.thread_id[c] = t /\ w.state = st.state /\ w.cpu_set_id = st.cpu_set_id
      /\ w.cpu_set_of = st.cpu_set_of /\ w.cpu_id = st.cpu_id /\ w.thread_id = st.thread_id
  BY <1>1, TablesFacts
<1>3. t \in Thread \cup {None} BY <1>1 DEF Solid, HeapState
<1>4. t # None => st.state[t] = "RUN" /\ st.cpu_set_id[t] = st.cpu_set_of[c]
  <2>1. Agree(w) BY <1>1 DEF Good
  <2>2. t # None => w.cpu_id[t] = c /\ t \in Thread BY <2>1, <1>2, <1>3 DEF Agree
  <2>3. c # None BY SchedulerConstants
  <2> QED BY <2>1, <2>2, <2>3, <1>2 DEF Agree
<1>5. PICK off : off = IF t = None THEN st ELSE Remove(st, t) OBVIOUS
<1>6. /\ Solid(off) /\ Tables(off) \in SetAside(w, t) /\ Good(Tables(off), {})
      /\ off.cpu_set_id = st.cpu_set_id /\ off.cpu_set_of = st.cpu_set_of
      /\ t # None => off.state[t] = "SLEEP"
      /\ t = None => off = st
  <2>1. t # None => st.state[t] # "SLEEP" BY <1>4
  <2> QED BY <2>1, <1>1, <1>3, <1>5, SetAsideDoes
<1>7. off.stack_location[c] = 0 \/ off.free_cpu[off.cpu_set_of[c]] = <<>>
        <=> off.thread_id[c] # None
  BY <1>6, OffStack
<1>8. Tables(off).thread_id[c] = off.thread_id[c] BY TablesFacts
<1>9. CASE off.thread_id[c] # None
  <2>1. r = IF t = None THEN off ELSE Insert(off, t)
    BY <1>1, <1>5, <1>7, <1>9 DEF ChangeCpuSet
  <2>2. PICK X : X = {} OBVIOUS
  <2>3. X \in SUBSET Cpu /\ Good(Tables(off), X) /\ \A d \in X : FALSE BY <2>2, <1>6
  <2>4. t # None => \A d \in X : off.cpu_set_of[d] # off.cpu_set_id[t] BY <2>3
  <2>5. Solid(r) /\ Tables(r) \in PutBack(Tables(off), t)
    BY <2>1, <2>3, <2>4, <1>3, <1>6, PutBackDoes
  <2> QED BY <2>5, <1>1, <1>2, <1>6, <1>8, <1>9 DEF MoveResults
<1>10. CASE off.thread_id[c] = None
  <2>1. PICK q : q = MoveFreeCpu(off, c, new) OBVIOUS
  <2>2. Solid(q) /\ Tables(q) = Rehome(Tables(off), c, new)
    BY <2>1, <1>6, <1>10, CpuMoved
  <2>3. /\ Good(Tables(q), {c}) /\ q.state = off.state /\ q.thread_id = off.thread_id
        /\ q.cpu_set_id = off.cpu_set_id /\ q.cpu_set_of[c] = new
    <3>1. PICK u, v : u = Tables(off) /\ v = Tables(q) OBVIOUS
    <3>2. v = Rehome(u, c, new) /\ Good(u, {}) /\ u.thread_id[c] = None
      BY <3>1, <2>2, <1>6, <1>8, <1>10
    <3>3. /\ Good(v, {c}) /\ v.state = u.state /\ v.thread_id = u.thread_id
          /\ v.cpu_set_id = u.cpu_set_id /\ v.cpu_set_of[c] = new
      BY <3>2, RehomeGood
    <3> QED BY <3>1, <3>3, TablesFacts
  <2>4. PICK m : m = IF t = None THEN q ELSE Insert(q, t) OBVIOUS
  <2>5. /\ Solid(m) /\ Tables(m) \in PutBack(Tables(q), t) /\ Good(Tables(m), {c})
        /\ m.cpu_set_of = q.cpu_set_of
        /\ \A d \in {c} : m.thread_id[d] = None <=> q.thread_id[d] = None
    <3>1. PICK X : X = {c} OBVIOUS
    <3>2. X \in SUBSET Cpu /\ Good(Tables(q), X) BY <3>1, <2>3
    <3>3. t # None => q.state[t] = "SLEEP" BY <2>3, <1>6
    <3>4. t # None => \A d \in X : q.cpu_set_of[d] # q.cpu_set_id[t]
      BY <3>1, <2>3, <1>4, <1>6
    <3>5. /\ Solid(m) /\ Tables(m) \in PutBack(Tables(q), t) /\ Good(Tables(m), X)
          /\ m.cpu_set_of = q.cpu_set_of
          /\ \A d \in X : m.thread_id[d] = None <=> q.thread_id[d] = None
      BY <3>2, <3>3, <3>4, <2>2, <2>4, <1>3, PutBackDoes
    <3> QED BY <3>1, <3>5
  <2>6. r = IF m.ready_heap[new] = <<>> THEN m
            ELSE Insert(Remove(m, m.ready_heap[new][1]), m.ready_heap[new][1])
    BY <2>1, <2>4, <1>1, <1>5, <1>7, <1>10 DEF ChangeCpuSet
  <2>7. Solid(r) /\ Tables(r) \in Retry(Tables(m), new) BY <2>5, <2>6, RetryDoes
  <2>8. Tables(m) \in PutBack(Rehome(Tables(off), c, new), t) BY <2>2, <2>5
  <2> QED BY <2>7, <2>8, <1>1, <1>2, <1>6, <1>8, <1>10 DEF MoveResults
<1> QED BY <1>9, <1>10
-----------------------------------------------------------------------------
(* The state at boot.                                                      *)
LEMMA NothingListed ==
  ASSUME NEW T, NEW id \in [T -> Slots(T)], NEW key
  PROVE  Listed([at |-> <<>>, id |-> id], T, {}) /\ HeapOf([at |-> <<>>, id |-> id], key, T, {})
<1>1. <<>> \in Seq(T) /\ Len(<<>>) = 0 /\ 1..0 = {} /\ 2..0 = {} OBVIOUS
<1>2. PICK H : H = [at |-> <<>>, id |-> id] OBVIOUS
<1>3. H.at = <<>> /\ H.id = id BY <1>2
<1>4. Listed(H, T, {}) BY <1>1, <1>3 DEF Listed
<1>5. HeapOrdered(H.at, key) BY <1>1, <1>3 DEF HeapOrdered
<1> QED BY <1>2, <1>4, <1>5 DEF HeapOf

LEMMA OneListed ==
  ASSUME NEW T, NEW t \in T, NEW id \in [T -> Slots(T)], id[t] = 1, NEW key
  PROVE  HeapOf([at |-> <<t>>, id |-> id], key, T, {t})
<1>1. <<t>> \in Seq(T) /\ Len(<<t>>) = 1 /\ <<t>>[1] = t OBVIOUS
<1>2. 1..1 = {1} /\ 2..1 = {} OBVIOUS
<1>3. PICK H : H = [at |-> <<t>>, id |-> id] OBVIOUS
<1>4. H.at = <<t>> /\ H.id = id BY <1>3
<1>5. Listed(H, T, {t})
  <2>1. \A j \in 1..Len(H.at) : j = 1 BY <1>1, <1>2, <1>4
  <2>2. 1 \in 1..Len(H.at) BY <1>1, <1>2, <1>4
  <2> QED BY <2>1, <2>2, <1>1, <1>4 DEF Listed
<1>6. HeapOrdered(H.at, key)
  <2>1. 2..Len(H.at) = {} BY <1>1, <1>2, <1>4
  <2> QED BY <2>1 DEF HeapOrdered
<1> QED BY <1>3, <1>5, <1>6 DEF HeapOf

LEMMA FreeAtBootFacts ==
  LET F == Cpu \ {BootCpu}
      n == Cardinality(F)
  IN  /\ n \in Nat /\ n <= Cardinality(Cpu) /\ Cardinality(Cpu) \in Nat
      /\ FreeAtBoot \in [1..n -> F]
      /\ \A i, j \in 1..n : FreeAtBoot[i] = FreeAtBoot[j] => i = j
      /\ \A c \in F : \E i \in 1..n : FreeAtBoot[i] = c
<1> DEFINE F == Cpu \ {BootCpu}
           n == Cardinality(F)
           Lists(q) == q \in [1..n -> F] /\ \A i, j \in DOMAIN q : q[i] = q[j] => i = j
<1>1. IsFiniteSet(F) /\ n <= Cardinality(Cpu)
  <2>1. F \in SUBSET Cpu OBVIOUS
  <2> HIDE DEF F
  <2> QED BY <2>1, SchedulerAssumption, FS_Subset
<1>2. n \in Nat /\ Cardinality(Cpu) \in Nat /\ ExistsBijection(1..n, F)
  BY <1>1, SchedulerAssumption, FS_CardinalityType
<1>3. \E q : Lists(q)
  <2>1. PICK q : q \in Bijection(1..n, F) BY <1>2 DEF ExistsBijection
  <2> QED BY <2>1 DEF Bijection, Injection, IsInjective
<1>4. FreeAtBoot = CHOOSE q \in [1..n -> F] : \A i, j \in DOMAIN q : q[i] = q[j] => i = j
  BY DEF FreeAtBoot
<1>5. Lists(FreeAtBoot)
  <2>1. \E q \in [1..n -> F] : \A i, j \in DOMAIN q : q[i] = q[j] => i = j BY <1>3
  <2> HIDE DEF F, n
  <2> QED BY <2>1, <1>4
<1>6. PICK f : f = FreeAtBoot OBVIOUS
<1>7. f \in [1..n -> F] /\ \A i, j \in 1..n : f[i] = f[j] => i = j BY <1>5, <1>6
<1>8. f \in Injection(1..n, F) BY <1>7 DEF Injection, IsInjective
<1>9. f \in Surjection(1..n, F)
  <2>1. 1 \in Int /\ n \in Int /\ (IF 1 > n THEN 0 ELSE n - 1 + 1) = n BY <1>2
  <2> HIDE DEF n, F
  <2>2. Cardinality(1..n) = IF 1 > n THEN 0 ELSE n - 1 + 1 BY <2>1, FS_Interval
  <2>3. Cardinality(1..n) = Cardinality(F) BY <2>1, <2>2 DEF n
  <2> QED BY <2>3, <1>1, <1>8, FS_Injection
<1>10. \A c \in F : \E i \in 1..n : f[i] = c BY <1>9 DEF Surjection
<1> QED BY <1>1, <1>2, <1>6, <1>7, <1>10

LEMMA InitSolid ==
  ASSUME Init
  PROVE  Solid(S) /\ Good(Tables(S), {})
<1>1. PICK st : st = S OBVIOUS
<1>2. PICK f, F, n : f = FreeAtBoot /\ F = Cpu \ {BootCpu} /\ n = Cardinality(F) OBVIOUS
<1>3. /\ n \in Nat /\ n <= Cardinality(Cpu) /\ Cardinality(Cpu) \in Nat /\ f \in [1..n -> F]
      /\ \A i, j \in 1..n : f[i] = f[j] => i = j
      /\ \A c \in F : \E i \in 1..n : f[i] = c
  BY <1>2, FreeAtBootFacts
<1>4. /\ InitialSet \in CpuSet /\ BootThread \in Thread /\ BootCpu \in Cpu
      /\ BootThread # None /\ \A c \in Cpu : c # None
  BY SchedulerAssumption, SchedulerConstants
<1>5. /\ st.state = [t \in Thread |-> IF t = BootThread THEN "RUN" ELSE "SLEEP"]
      /\ st.priority = [t \in Thread |-> 0]
      /\ st.cpu_set_id = [t \in Thread |-> InitialSet]
      /\ st.cpu_id = [t \in Thread |-> IF t = BootThread THEN BootCpu ELSE None]
      /\ st.heap_id = [t \in Thread |-> IF t = BootThread THEN 1 ELSE 0]
      /\ st.thread_id = [c \in Cpu |-> IF c = BootCpu THEN BootThread ELSE None]
      /\ st.cpu_set_of = [c \in Cpu |-> InitialSet]
  BY <1>1 DEF Init
<1>6. /\ st.stack_location = [c \in Cpu |-> IF c = BootCpu THEN 0
                                            ELSE CHOOSE i \in DOMAIN f : f[i] = c]
      /\ st.free_cpu = [s \in CpuSet |-> IF s = InitialSet THEN f ELSE <<>>]
      /\ st.run_heap = [s \in CpuSet |-> IF s = InitialSet THEN <<BootThread>> ELSE <<>>]
      /\ st.ready_heap = [s \in CpuSet |-> <<>>]
  BY <1>1, <1>2 DEF Init
<1>7. /\ st.stack_location[BootCpu] = 0
      /\ \A c \in F : st.stack_location[c] \in 1..n /\ f[st.stack_location[c]] = c
  <2>1. DOMAIN f = 1..n BY <1>3
  <2>2. ASSUME NEW c \in F
        PROVE  st.stack_location[c] \in 1..n /\ f[st.stack_location[c]] = c
    <3>1. c \in Cpu /\ c # BootCpu BY <1>2
    <3>2. st.stack_location[c] = CHOOSE i \in DOMAIN f : f[i] = c BY <3>1, <1>6
    <3>3. \E i \in DOMAIN f : f[i] = c BY <2>1, <1>3
    <3> QED BY <3>2, <3>3, <2>1
  <2> QED BY <2>2, <1>4, <1>6
<1>8. st.stack_location \in [Cpu -> Slots(Cpu)]
  <2>1. ASSUME NEW c \in Cpu PROVE st.stack_location[c] \in Slots(Cpu)
    <3>1. CASE c = BootCpu BY <3>1, <1>3, <1>7 DEF Slots
    <3>2. CASE c # BootCpu
      <4>1. st.stack_location[c] \in 1..n BY <3>2, <1>2, <1>7
      <4> QED BY <4>1, <1>3 DEF Slots
    <3> QED BY <3>1, <3>2
  <2>2. st.stack_location = [c \in Cpu |-> st.stack_location[c]] BY <1>6
  <2> QED BY <2>1, <2>2
<1>9. 0 \in Slots(Thread) /\ 1 \in Slots(Thread)
  <2>1. {BootThread} \in SUBSET Thread BY <1>4
  <2>2. Cardinality({BootThread}) <= Cardinality(Thread) BY <2>1, SchedulerAssumption, FS_Subset
  <2>3. Cardinality({BootThread}) = 1 BY FS_Singleton
  <2>4. Cardinality(Thread) \in Nat BY SchedulerAssumption, FS_CardinalityType
  <2> QED BY <2>2, <2>3, <2>4 DEF Slots
<1>10. f \in Seq(Cpu) /\ Len(f) = n /\ \A j \in 1..n : f[j] \in F
  <2>1. F \subseteq Cpu BY <1>2
  <2> QED BY <2>1, <1>3
<1>11. st \in HeapState
  <2>1. /\ st.state \in [Thread -> States] /\ st.priority \in [Thread -> Priority \cup {0}]
        /\ st.cpu_set_id \in [Thread -> CpuSet] /\ st.cpu_id \in [Thread -> Cpu \cup {None}]
        /\ st.heap_id \in [Thread -> Slots(Thread)]
        /\ st.thread_id \in [Cpu -> Thread \cup {None}] /\ st.cpu_set_of \in [Cpu -> CpuSet]
    BY <1>4, <1>5, <1>9 DEF States
  <2>2. /\ st.free_cpu \in [CpuSet -> Seq(Cpu)] /\ st.run_heap \in [CpuSet -> Seq(Thread)]
        /\ st.ready_heap \in [CpuSet -> Seq(Thread)]
    <3>1. <<>> \in Seq(Cpu) /\ <<>> \in Seq(Thread) /\ <<BootThread>> \in Seq(Thread)
      BY <1>4
    <3> QED BY <3>1, <1>6, <1>10
  <2>3. st = [state |-> st.state, priority |-> st.priority, cpu_set_id |-> st.cpu_set_id,
              cpu_id |-> st.cpu_id, heap_id |-> st.heap_id, thread_id |-> st.thread_id,
              cpu_set_of |-> st.cpu_set_of, stack_location |-> st.stack_location,
              free_cpu |-> st.free_cpu, run_heap |-> st.run_heap, ready_heap |-> st.ready_heap]
    BY <1>1 DEF Init
  <2> QED BY <2>1, <2>2, <2>3, <1>8 DEF HeapState
<1>12. StacksHold(st)
  <2>1. ASSUME NEW s \in CpuSet PROVE Listed(Stack(st, s), Cpu, FreeCpus(st, s))
    <3>1. CASE s = InitialSet
      <4>1. FreeCpus(st, s) = F BY <3>1, <1>2, <1>4, <1>5 DEF FreeCpus
      <4>2. Stack(st, s) = [at |-> f, id |-> st.stack_location] BY <3>1, <1>4, <1>6 DEF Stack
      <4>3. PICK H : H = Stack(st, s) OBVIOUS
      <4>4. H.at = f /\ H.id = st.stack_location BY <4>2, <4>3
      <4>5. \A j \in 1..n : st.stack_location[f[j]] = j BY <1>3, <1>7, <1>10
      <4>6. \A c \in F : c \in Cpu /\ \E j \in 1..n : f[j] = c BY <1>2, <1>3
      <4>7. Listed(H, Cpu, F) BY <4>4, <4>5, <4>6, <1>8, <1>10 DEF Listed
      <4> QED BY <4>1, <4>3, <4>7
    <3>2. CASE s # InitialSet
      <4>1. FreeCpus(st, s) = {} BY <3>2, <1>5 DEF FreeCpus
      <4>2. Stack(st, s) = [at |-> <<>>, id |-> st.stack_location] BY <3>2, <1>6 DEF Stack
      <4> QED BY <4>1, <4>2, <1>8, NothingListed
    <3> QED BY <3>1, <3>2
  <2>2. \A c \in Cpu : st.thread_id[c] # None => c = BootCpu BY <1>5
  <2> QED BY <2>1, <2>2, <1>7 DEF StacksHold
<1>13. Filled(st, st.state)
  <2>1. st.heap_id \in [Thread -> Slots(Thread)] /\ st.heap_id[BootThread] = 1
    BY <1>4, <1>5, <1>9
  <2>2. ASSUME NEW s \in CpuSet PROVE SetFilled(st, st.state, s)
    <3>1. With(st, st.state, s, "READY") = {} BY <1>5 DEF With
    <3>2. ReadyHeap(st, s) = [at |-> <<>>, id |-> st.heap_id] BY <1>6 DEF ReadyHeap
    <3>3. HeapOf(ReadyHeap(st, s), st.priority, Thread, With(st, st.state, s, "READY"))
      BY <3>1, <3>2, <2>1, NothingListed
    <3>4. CASE s = InitialSet
      <4>1. With(st, st.state, s, "RUN") = {BootThread} BY <3>4, <1>4, <1>5 DEF With
      <4>2. RunHeap(st, s) = [at |-> <<BootThread>>, id |-> st.heap_id]
        BY <3>4, <1>6 DEF RunHeap
      <4> QED BY <4>1, <4>2, <3>3, <2>1, <1>4, OneListed DEF SetFilled
    <3>5. CASE s # InitialSet
      <4>1. With(st, st.state, s, "RUN") = {} BY <3>5, <1>5 DEF With
      <4>2. RunHeap(st, s) = [at |-> <<>>, id |-> st.heap_id] BY <3>5, <1>6 DEF RunHeap
      <4> QED BY <4>1, <4>2, <3>3, <2>1, NothingListed DEF SetFilled
    <3> QED BY <3>4, <3>5
  <2> QED BY <2>2 DEF Filled
<1>14. Good(Tables(st), {})
  <2>1. PICK w : w = Tables(st) OBVIOUS
  <2>2. /\ w.state = st.state /\ w.priority = st.priority /\ w.cpu_set_id = st.cpu_set_id
        /\ w.cpu_id = st.cpu_id /\ w.thread_id = st.thread_id /\ w.cpu_set_of = st.cpu_set_of
    BY <2>1, TablesFacts
  <2>3. w \in SchedState
    BY <2>1, <1>4, <1>5 DEF SchedState, Tables
  <2>4. Agree(w) BY <2>2, <1>4, <1>5 DEF Agree
  <2>5. BusyUnlessIn(w, {}) /\ Ordered(w) BY <2>2, <1>5 DEF BusyUnlessIn, Ordered
  <2> QED BY <2>1, <2>3, <2>4, <2>5 DEF Good
<1> QED BY <1>1, <1>11, <1>12, <1>13, <1>14 DEF Solid
-----------------------------------------------------------------------------
(* The steps.                                                              *)
WakesFairly(w, r) ==
  \A t, u \in Thread :
    /\ w.state[t] = "SLEEP" /\ r.state[t] # "SLEEP"
    /\ w.state[u] = "RUN" /\ r.state[u] # "RUN"
    => /\ r.state[t] = "RUN" /\ r.cpu_id[t] = w.cpu_id[u]
       /\ w.priority[t] < w.priority[u]

Wakes(w, r)  == \E t \in Thread : w.state[t] = "SLEEP" /\ r \in InsertResults(w, t)
Blocks(w, r) == \E t \in Thread : w.state[t] # "SLEEP" /\ r \in RemoveResults(w, t)
Modifies(w, r) ==
  \E t \in Thread :
    /\ r.priority[t] # w.priority[t] \/ r.cpu_set_id[t] # w.cpu_set_id[t]
    /\ r.priority[t] \in Priority
    /\ r \in ModifyResults(w, t, r.priority[t], r.cpu_set_id[t])
Moves(w, r) ==
  \E c \in Cpu, s \in CpuSet : w.cpu_set_of[c] # s /\ r \in MoveResults(w, c, s)

LEMMA SleepersStay ==
  ASSUME NEW w, NEW r, SameSleepers(w, r)
  PROVE  WakesFairly(w, r)
BY DEF SameSleepers, WakesFairly

LEMMA WakeStep ==
  ASSUME NEW st, Solid(st), Good(Tables(st), {}), NEW t \in Thread, st.state[t] = "SLEEP",
         NEW r, r = Insert(st, t)
  PROVE  /\ Solid(r) /\ Good(Tables(r), {})
         /\ WakesFairly(Tables(st), Tables(r)) /\ Wakes(Tables(st), Tables(r))
<1>1. PICK w, v : w = Tables(st) /\ v = Tables(r) OBVIOUS
<1>2. w.state[t] = "SLEEP" BY <1>1, TablesFacts
<1>3. Solid(r) /\ v \in InsertResults(w, t) BY <1>1, InsertDoes DEF Good
<1>4. Good(v, {}) /\ Preempts(w, v, t)
  <2>1. PICK X : X = {} OBVIOUS
  <2>2. X \in SUBSET Cpu /\ Good(w, X) BY <2>1, <1>1
  <2>3. \A c \in X : w.cpu_set_of[c] # w.cpu_set_id[t] BY <2>1
  <2>4. Good(v, X) /\ Preempts(w, v, t) BY <2>2, <2>3, <1>2, <1>3, InsertGood
  <2> QED BY <2>1, <2>4
<1>5. WakesFairly(w, v)
  <2> SUFFICES ASSUME NEW a \in Thread, NEW u \in Thread,
                      w.state[a] = "SLEEP", v.state[a] # "SLEEP",
                      w.state[u] = "RUN", v.state[u] # "RUN"
               PROVE  /\ v.state[a] = "RUN" /\ v.cpu_id[a] = w.cpu_id[u]
                      /\ w.priority[a] < w.priority[u]
    BY DEF WakesFairly
  <2>1. a = t BY <1>4 DEF Preempts
  <2>2. u # t BY <1>2
  <2> QED BY <2>1, <2>2, <1>4 DEF Preempts
<1> QED BY <1>1, <1>2, <1>3, <1>4, <1>5 DEF Wakes

LEMMA BlockStep ==
  ASSUME NEW st, Solid(st), Good(Tables(st), {}), NEW t \in Thread, st.state[t] # "SLEEP",
         NEW r, r = Remove(st, t)
  PROVE  /\ Solid(r) /\ Good(Tables(r), {})
         /\ WakesFairly(Tables(st), Tables(r)) /\ Blocks(Tables(st), Tables(r))
<1>1. PICK w, v : w = Tables(st) /\ v = Tables(r) OBVIOUS
<1>2. w.state[t] # "SLEEP" BY <1>1, TablesFacts
<1>3. Solid(r) /\ v \in RemoveResults(w, t) BY <1>1, RemoveDoes DEF Good
<1>4. Good(v, {}) /\ HandsOver(w, v, t)
  <2>1. PICK X : X = {} OBVIOUS
  <2>2. X \in SUBSET Cpu /\ Good(w, X) BY <2>1, <1>1
  <2>4. Good(v, X) /\ HandsOver(w, v, t) BY <2>2, <1>2, <1>3, RemoveGood
  <2> QED BY <2>1, <2>4
<1>5. WakesFairly(w, v)
  <2>1. \A a \in Thread : w.state[a] = "SLEEP" => v.state[a] = "SLEEP"
    BY <1>2, <1>4 DEF HandsOver
  <2> QED BY <2>1 DEF WakesFairly
<1> QED BY <1>1, <1>2, <1>3, <1>4, <1>5 DEF Blocks

LEMMA ModifyStep ==
  ASSUME NEW st, Solid(st), Good(Tables(st), {}), NEW t \in Thread, NEW p \in Priority,
         NEW s, s \in (CpuSet \ {st.cpu_set_id[t]})
                        \cup (IF p = st.priority[t] THEN {} ELSE {None}),
         NEW r, r = ModifyPriority(st, t, p, s)
  PROVE  /\ Solid(r) /\ Good(Tables(r), {})
         /\ WakesFairly(Tables(st), Tables(r)) /\ Modifies(Tables(st), Tables(r))
<1>1. PICK w, v, new : w = Tables(st) /\ v = Tables(r) /\ new = SetOr(s, st.cpu_set_id[t])
  OBVIOUS
<1>2. w.priority = st.priority /\ w.cpu_set_id = st.cpu_set_id BY <1>1, TablesFacts
<1>3. p \in Priority \cup {0} /\ p \in Int BY SchedulerConstants
<1>4. s \in CpuSet \cup {None} /\ None \notin CpuSet BY SchedulerConstants
<1>5. Solid(r) /\ new \in CpuSet /\ v \in ModifyResults(w, t, p, new)
  BY <1>1, <1>3, <1>4, ModifyDoes
<1>6. /\ Good(v, {}) /\ SameSleepers(w, v)
      /\ v.cpu_set_id[t] = new /\ v.priority[t] = p
  BY <1>1, <1>3, <1>5, ModifyGood
<1>7. v.priority[t] # w.priority[t] \/ v.cpu_set_id[t] # w.cpu_set_id[t]
  <2>1. CASE s \in CpuSet
    <3>1. s # st.cpu_set_id[t] BY <2>1, <1>4
    <3> QED BY <3>1, <2>1, <1>1, <1>2, <1>6 DEF SetOr
  <2>2. CASE s \notin CpuSet
    <3>1. p # st.priority[t] BY <2>2
    <3> QED BY <3>1, <1>2, <1>6
  <2> QED BY <2>1, <2>2
<1> QED BY <1>1, <1>5, <1>6, <1>7, SleepersStay DEF Modifies

LEMMA MoveStep ==
  ASSUME NEW st, Solid(st), Good(Tables(st), {}), NEW c \in Cpu, NEW s \in CpuSet,
         st.cpu_set_of[c] # s,
         NEW r, r = ChangeCpuSet(st, c, s)
  PROVE  /\ Solid(r) /\ Good(Tables(r), {})
         /\ WakesFairly(Tables(st), Tables(r)) /\ Moves(Tables(st), Tables(r))
<1>1. PICK w, v : w = Tables(st) /\ v = Tables(r) OBVIOUS
<1>2. w.cpu_set_of[c] # s BY <1>1, TablesFacts
<1>3. Solid(r) /\ v \in MoveResults(w, c, s) BY <1>1, MoveDoes
<1>4. Good(v, {}) /\ SameThreads(w, v) BY <1>1, <1>2, <1>3, MoveGood
<1> QED BY <1>1, <1>2, <1>3, <1>4, SleepersStay DEF Moves, SameThreads

-----------------------------------------------------------------------------
(* The inductive invariant.                                                *)
HeapInv == Solid(S) /\ Good(Tables(S), {})

Stepped ==
  /\ HeapInv' /\ WakesFairly(Tables(S), Tables(S'))
  /\ \/ Wakes(Tables(S), Tables(S')) \/ Blocks(Tables(S), Tables(S'))
     \/ Modifies(Tables(S), Tables(S')) \/ Moves(Tables(S), Tables(S'))

LEMMA NextSteps ==
  ASSUME HeapInv, Next
  PROVE  Stepped
<1>1. PICK st, r : st = S /\ r = S' OBVIOUS
<1>2. Solid(st) /\ Good(Tables(st), {}) BY <1>1 DEF HeapInv
<1> DEFINE Done ==
      /\ Solid(r) /\ Good(Tables(r), {}) /\ WakesFairly(Tables(st), Tables(r))
      /\ \/ Wakes(Tables(st), Tables(r)) \/ Blocks(Tables(st), Tables(r))
         \/ Modifies(Tables(st), Tables(r)) \/ Moves(Tables(st), Tables(r))
<1>3. ASSUME NEW t \in Thread, Wake(t) PROVE Done
  <2>1. st.state[t] = "SLEEP" /\ r = Insert(st, t) BY <1>1, <1>3 DEF Wake
  <2> QED BY <2>1, <1>2, WakeStep
<1>4. ASSUME NEW t \in Thread, Block(t) PROVE Done
  <2>1. st.state[t] # "SLEEP" /\ r = Remove(st, t) BY <1>1, <1>4 DEF Block
  <2> QED BY <2>1, <1>2, BlockStep
<1>5. ASSUME NEW t \in Thread, NEW p \in Priority, NEW s \in NewSets(t, p), Modify(t, p, s)
      PROVE  Done
  <2>1. s \in (CpuSet \ {st.cpu_set_id[t]})
                \cup (IF p = st.priority[t] THEN {} ELSE {None})
    BY <1>1 DEF NewSets
  <2>2. r = ModifyPriority(st, t, p, s) BY <1>1, <1>5 DEF Modify
  <2> QED BY <2>1, <2>2, <1>2, ModifyStep
<1>6. ASSUME NEW c \in Cpu, NEW s \in CpuSet, Move(c, s) PROVE Done
  <2>1. st.cpu_set_of[c] # s /\ r = ChangeCpuSet(st, c, s) BY <1>1, <1>6 DEF Move
  <2> QED BY <2>1, <1>2, MoveStep
<1>7. Done BY <1>3, <1>4, <1>5, <1>6 DEF Next
<1> QED BY <1>1, <1>7 DEF Stepped, HeapInv

LEMMA InitInv == Init => HeapInv
BY InitSolid DEF HeapInv

LEMMA NextInv == HeapInv /\ [Next]_S => HeapInv'
<1> SUFFICES ASSUME HeapInv, [Next]_S PROVE HeapInv' OBVIOUS
<1>1. CASE Next BY <1>1, NextSteps DEF Stepped
<1>2. CASE UNCHANGED S BY <1>2 DEF HeapInv
<1> QED BY <1>1, <1>2

LEMMA AlwaysInv == Spec => []HeapInv
BY InitInv, NextInv, PTL DEF Spec
-----------------------------------------------------------------------------
(* The instance of Scheduler has the operators of SchedulerOps.            *)
LEMMA SameChoices ==
  ASSUME NEW st
  PROVE  /\ \A s, x : Abstract!ThreadsIn(st, s, x) = ThreadsIn(st, s, x)
         /\ \A s : Abstract!FreeCpus(st, s) = FreeCpus(st, s)
         /\ \A s : Abstract!WorstRunning(st, s) = WorstRunning(st, s)
         /\ \A s : Abstract!BestReady(st, s) = BestReady(st, s)
<1>1. \A s, x : Abstract!ThreadsIn(st, s, x) = ThreadsIn(st, s, x)
  BY DEF ThreadsIn, Abstract!ThreadsIn
<1>2. \A s : Abstract!FreeCpus(st, s) = FreeCpus(st, s)
  BY DEF FreeCpus, Abstract!FreeCpus
<1>3. \A s : Abstract!WorstRunning(st, s) = WorstRunning(st, s)
  BY <1>1 DEF WorstRunning, Abstract!WorstRunning
<1>4. \A s : Abstract!BestReady(st, s) = BestReady(st, s)
  BY <1>1 DEF BestReady, Abstract!BestReady
<1> QED BY <1>1, <1>2, <1>3, <1>4

LEMMA SameInserts ==
  ASSUME NEW st, NEW t
  PROVE  Abstract!InsertResults(st, t) = InsertResults(st, t)
<1>1. \A v, c : Abstract!Dispatch(v, t, c) = Dispatch(v, t, c)
  BY DEF Dispatch, Abstract!Dispatch
<1>2. \A u, x : Abstract!Switch(st, u, x, t) = Switch(st, u, x, t)
  BY <1>1 DEF Switch, Stop, Abstract!Switch, Abstract!Stop
<1>3. \A p, q : Abstract!Better(p, q) <=> Better(p, q)
  BY DEF Better, Abstract!Better
<1> QED BY <1>1, <1>2, <1>3, SameChoices DEF InsertResults, Abstract!InsertResults

LEMMA SameRemoves ==
  ASSUME NEW st, NEW t
  PROVE  Abstract!RemoveResults(st, t) = RemoveResults(st, t)
<1>1. \A u, c, v : Abstract!Dispatch(v, u, c) = Dispatch(v, u, c)
  BY DEF Dispatch, Abstract!Dispatch
<1>2. \A x : Abstract!Stop(st, t, x) = Stop(st, t, x) BY DEF Stop, Abstract!Stop
<1>3. \A u, x : Abstract!Switch(st, t, x, u) = Switch(st, t, x, u)
  BY <1>1, <1>2 DEF Switch, Abstract!Switch
<1> QED BY <1>2, <1>3, SameChoices DEF RemoveResults, Abstract!RemoveResults

LEMMA SameModifies ==
  ASSUME NEW st, NEW t, NEW p, NEW s
  PROVE  Abstract!ModifyResults(st, t, p, s) = ModifyResults(st, t, p, s)
<1>1. \A r : Abstract!Modified(r, t, p, s) = Modified(r, t, p, s)
  BY DEF Modified, Abstract!Modified
<1>2. \A x, y : Abstract!Better(x, y) <=> Better(x, y)
  BY DEF Better, Abstract!Better
<1>3. Abstract!MustRequeue(st, t, p, s) <=> MustRequeue(st, t, p, s)
  BY <1>2, SameChoices DEF MustRequeue, Abstract!MustRequeue
<1>4. \A r : Abstract!InsertResults(r, t) = InsertResults(r, t) BY SameInserts
<1>5. Abstract!RequeueResults(st, t, p, s) = RequeueResults(st, t, p, s)
  BY <1>1, <1>4, SameRemoves DEF RequeueResults, Abstract!RequeueResults
<1> QED BY <1>1, <1>3, <1>5 DEF ModifyResults, Abstract!ModifyResults

LEMMA SameMoves ==
  ASSUME NEW st, NEW c, NEW new
  PROVE  Abstract!MoveResults(st, c, new) = MoveResults(st, c, new)
<1>1. \A r, t : Abstract!InsertResults(r, t) = InsertResults(r, t) BY SameInserts
<1>2. \A r, t : Abstract!RemoveResults(r, t) = RemoveResults(r, t) BY SameRemoves
<1>3. \A r, t : Abstract!SetAside(r, t) = SetAside(r, t)
  BY <1>2 DEF SetAside, Abstract!SetAside
<1>4. \A r, t : Abstract!PutBack(r, t) = PutBack(r, t)
  BY <1>1 DEF PutBack, Abstract!PutBack
<1>5. \A r : Abstract!Rehome(r, c, new) = Rehome(r, c, new) BY DEF Rehome, Abstract!Rehome
<1>6. \A r : /\ Abstract!ThreadsIn(r, new, "READY") = ThreadsIn(r, new, "READY")
             /\ Abstract!BestReady(r, new) = BestReady(r, new)
  BY SameChoices
<1>7. ASSUME NEW r PROVE Abstract!Retry(r, new) = Retry(r, new)
  <2> DEFINE A(u) == UNION {Abstract!InsertResults(q, u) : q \in Abstract!RemoveResults(r, u)}
             B(u) == UNION {InsertResults(q, u) : q \in RemoveResults(r, u)}
  <2>1. \A u : A(u) = B(u)
    <3> SUFFICES ASSUME NEW u PROVE A(u) = B(u) OBVIOUS
    <3>1. \A q : Abstract!InsertResults(q, u) = InsertResults(q, u) BY <1>1
    <3>2. Abstract!RemoveResults(r, u) = RemoveResults(r, u) BY <1>2
    <3> QED BY <3>1, <3>2
  <2>2. /\ Abstract!ThreadsIn(r, new, "READY") = ThreadsIn(r, new, "READY")
        /\ Abstract!BestReady(r, new) = BestReady(r, new)
    BY <1>6
  <2>3. Abstract!Retry(r, new) = IF ThreadsIn(r, new, "READY") = {} THEN {r}
                                 ELSE UNION {A(u) : u \in BestReady(r, new)}
    BY <2>2 DEF Abstract!Retry
  <2>4. Retry(r, new) = IF ThreadsIn(r, new, "READY") = {} THEN {r}
                        ELSE UNION {B(u) : u \in BestReady(r, new)}
    BY DEF Retry
  <2> HIDE DEF A, B
  <2>5. {A(u) : u \in BestReady(r, new)} = {B(u) : u \in BestReady(r, new)} BY <2>1
  <2> QED BY <2>3, <2>4, <2>5
<1> QED BY <1>3, <1>4, <1>5, <1>7 DEF MoveResults, Abstract!MoveResults

LEMMA TablesHere ==
  /\ Abstract!Here = Tables(S) /\ Abstract!Becomes(Tables(S'))
  /\ Tables(S').priority = S'.priority /\ Tables(S').cpu_set_id = S'.cpu_set_id
  /\ Tables(S).priority = S.priority /\ Tables(S).cpu_set_id = S.cpu_set_id
  /\ Tables(S).state = S.state /\ Tables(S).cpu_set_of = S.cpu_set_of
<1>1. Abstract!Here = Tables(S) BY DEF Abstract!Here, Tables
<1>2. Abstract!Becomes(Tables(S')) BY TablesFacts DEF Abstract!Becomes
<1> QED BY <1>1, <1>2, TablesFacts

LEMMA StepTaken ==
  ASSUME Stepped
  PROVE  Step
<1>1. PICK w, v : w = Tables(S) /\ v = Tables(S') OBVIOUS
<1>2. /\ w = Abstract!Here /\ Abstract!Becomes(v)
      /\ v.priority = S'.priority /\ v.cpu_set_id = S'.cpu_set_id
      /\ w.priority = S.priority /\ w.cpu_set_id = S.cpu_set_id
      /\ w.state = S.state /\ w.cpu_set_of = S.cpu_set_of
  BY <1>1, TablesHere
<1>3. CASE Wakes(w, v)
  <2>1. PICK t \in Thread : w.state[t] = "SLEEP" /\ v \in InsertResults(w, t)
    BY <1>3 DEF Wakes
  <2>2. v \in Abstract!InsertResults(Abstract!Here, t) BY <2>1, <1>2, SameInserts
  <2>3. Abstract!Wake(t) BY <2>1, <2>2, <1>2 DEF Abstract!Wake
  <2> QED BY <2>3 DEF Step
<1>4. CASE Blocks(w, v)
  <2>1. PICK t \in Thread : w.state[t] # "SLEEP" /\ v \in RemoveResults(w, t)
    BY <1>4 DEF Blocks
  <2>2. v \in Abstract!RemoveResults(Abstract!Here, t) BY <2>1, <1>2, SameRemoves
  <2>3. Abstract!Block(t) BY <2>1, <2>2, <1>2 DEF Abstract!Block
  <2> QED BY <2>3 DEF Step
<1>5. CASE Modifies(w, v)
  <2>1. PICK t \in Thread :
          /\ v.priority[t] # w.priority[t] \/ v.cpu_set_id[t] # w.cpu_set_id[t]
          /\ v.priority[t] \in Priority
          /\ v \in ModifyResults(w, t, v.priority[t], v.cpu_set_id[t])
    BY <1>5 DEF Modifies
  <2>2. PICK p, s : p = v.priority[t] /\ s = v.cpu_set_id[t] OBVIOUS
  <2>3. v \in Abstract!ModifyResults(Abstract!Here, t, p, s)
    BY <2>1, <2>2, <1>2, SameModifies
  <2>4. Abstract!Modify(t, p, s) BY <2>3, <1>2 DEF Abstract!Modify
  <2>5. p = S'.priority[t] /\ s = S'.cpu_set_id[t] BY <2>2, <1>2
  <2>6. Abstract!Modify(t, S'.priority[t], S'.cpu_set_id[t]) BY <2>4, <2>5
  <2>7. <<S'.priority[t], S'.cpu_set_id[t]>> # <<S.priority[t], S.cpu_set_id[t]>>
    BY <2>1, <1>2
  <2>8. S'.priority[t] \in Priority BY <2>1, <2>2, <2>5
  <2> QED BY <2>6, <2>7, <2>8 DEF Step
<1>6. CASE Moves(w, v)
  <2>1. PICK c \in Cpu, s \in CpuSet : w.cpu_set_of[c] # s /\ v \in MoveResults(w, c, s)
    BY <1>6 DEF Moves
  <2>2. v \in Abstract!MoveResults(Abstract!Here, c, s) BY <2>1, <1>2, SameMoves
  <2>3. Abstract!Move(c, s) BY <2>1, <2>2, <1>2 DEF Abstract!Move
  <2> QED BY <2>3 DEF Step
<1> QED BY <1>1, <1>3, <1>4, <1>5, <1>6 DEF Stepped

LEMMA StepIsNext ==
  ASSUME HeapInv', Step
  PROVE  Abstract!Next
<1>1. \A t \in Thread : S'.cpu_set_id[t] \in CpuSet BY DEF HeapInv, Solid, HeapState
<1> QED BY <1>1 DEF Step, Abstract!Next

LEMMA TablesUnchanged ==
  ASSUME UNCHANGED S
  PROVE  UNCHANGED Abstract!vars
BY DEF Abstract!vars

-----------------------------------------------------------------------------
(* What the runs check on one instance holds for every set of threads,     *)
(* CPUs, CPU sets and priorities.                                          *)

(* After any sequence of calls the two heaps of a set hold exactly its     *)
(* running and its ready threads, in order, where their heap_id says       *)
(* (run_heap.c, ready_heap.c, thread_heap.c).                              *)
THEOREM SchedulerHeapsConsistent == Spec => []HeapsConsistent
<1>1. HeapInv => HeapsConsistent
  <2> SUFFICES ASSUME HeapInv PROVE HeapsConsistent OBVIOUS
  <2>1. Filled(S, S.state) /\ S \in HeapState BY DEF HeapInv, Solid
  <2>2. ASSUME NEW s \in CpuSet
        PROVE  /\ HeapOrdered(S.run_heap[s], RunKey(S))
               /\ HeapOrdered(S.ready_heap[s], S.priority)
               /\ HeapIndexed(RunHeap(S, s)) /\ HeapIndexed(ReadyHeap(S, s))
               /\ \A i \in DOMAIN S.run_heap[s] : S.state[S.run_heap[s][i]] = "RUN"
               /\ \A i \in DOMAIN S.ready_heap[s] : S.state[S.ready_heap[s][i]] = "READY"
               /\ \A t \in Thread : S.cpu_set_id[t] = s /\ S.state[t] = "RUN"
                    => \E i \in DOMAIN S.run_heap[s] : S.run_heap[s][i] = t
               /\ \A t \in Thread : S.cpu_set_id[t] = s /\ S.state[t] = "READY"
                    => \E i \in DOMAIN S.ready_heap[s] : S.ready_heap[s][i] = t
    <3>1. PICK G, H : G = RunHeap(S, s) /\ H = ReadyHeap(S, s) OBVIOUS
    <3>2. /\ HeapOf(G, RunKey(S), Thread, With(S, S.state, s, "RUN"))
          /\ HeapOf(H, S.priority, Thread, With(S, S.state, s, "READY"))
      BY <2>1, <3>1 DEF Filled, SetFilled
    <3>3. G.at = S.run_heap[s] /\ H.at = S.ready_heap[s] BY <3>1 DEF RunHeap, ReadyHeap
    <3>4. /\ HeapOrdered(G.at, RunKey(S)) /\ HeapOrdered(H.at, S.priority)
          /\ Listed(G, Thread, With(S, S.state, s, "RUN"))
          /\ Listed(H, Thread, With(S, S.state, s, "READY"))
      BY <3>2 DEF HeapOf
    <3>5. HeapIndexed(G) /\ HeapIndexed(H) BY <3>4 DEF Listed, HeapIndexed
    <3>6. DOMAIN G.at = 1..Len(G.at) /\ DOMAIN H.at = 1..Len(H.at) BY <3>4, ListedFacts
    <3>7. /\ \A i \in DOMAIN G.at : S.state[G.at[i]] = "RUN"
          /\ \A i \in DOMAIN H.at : S.state[H.at[i]] = "READY"
      BY <3>4, <3>6 DEF Listed, With
    <3>8. /\ \A t \in Thread : S.cpu_set_id[t] = s /\ S.state[t] = "RUN"
               => \E i \in DOMAIN G.at : G.at[i] = t
          /\ \A t \in Thread : S.cpu_set_id[t] = s /\ S.state[t] = "READY"
               => \E i \in DOMAIN H.at : H.at[i] = t
      BY <3>4, <3>6 DEF Listed, With
    <3> QED BY <3>1, <3>3, <3>4, <3>5, <3>7, <3>8
  <2>3. \A t \in Thread : S.cpu_set_id[t] \in CpuSet BY <2>1 DEF HeapState
  <2> QED BY <2>2, <2>3 DEF HeapsConsistent
<1> QED BY <1>1, AlwaysInv, PTL

(* The stack of a set holds exactly its free CPUs, once each, where their  *)
(* stack_location says (cpu.c, cpu_set.c): no CPU is ever lost, and every  *)
(* field has its type.                                                     *)
THEOREM SchedulerFreeStacksConsistent == Spec => []FreeStacksConsistent
<1>1. HeapInv => FreeStacksConsistent
  <2> SUFFICES ASSUME HeapInv PROVE FreeStacksConsistent OBVIOUS
  <2>1. S \in HeapState /\ StacksHold(S) BY DEF HeapInv, Solid
  <2>2. TypeOK BY <2>1 DEF TypeOK, HeapState, States, Slots
  <2>3. ASSUME NEW c \in Cpu, S.thread_id[c] # None PROVE S.stack_location[c] = 0
    BY <2>1, <2>3 DEF StacksHold
  <2>4. ASSUME NEW c \in Cpu, NEW s, s = S.cpu_set_of[c], S.thread_id[c] = None
        PROVE  /\ S.stack_location[c] \in DOMAIN S.free_cpu[s]
               /\ {i \in DOMAIN S.free_cpu[s] : S.free_cpu[s][i] = c}
                    = {S.stack_location[c]}
    <3>1. s \in CpuSet /\ c \in FreeCpus(S, s) BY <2>1, <2>4 DEF HeapState, FreeCpus
    <3>2. PICK H : H = Stack(S, s) OBVIOUS
    <3>3. Listed(H, Cpu, FreeCpus(S, s)) BY <2>1, <3>1, <3>2 DEF StacksHold
    <3>4. /\ DOMAIN H.at = 1..Len(H.at)
          /\ H.id[c] \in 1..Len(H.at) /\ H.at[H.id[c]] = c
          /\ \A i \in 1..Len(H.at) : H.id[H.at[i]] = i
      BY <3>1, <3>3, ListedFacts
    <3>5. H.at = S.free_cpu[s] /\ H.id = S.stack_location BY <3>2 DEF Stack
    <3> QED BY <3>4, <3>5
  <2> QED BY <2>2, <2>3, <2>4 DEF FreeStacksConsistent
<1> QED BY <1>1, AlwaysInv, PTL

(* While a thread of a set is ready, every CPU of the set runs one, for all*)
(* that change_cpu_set moves CPUs away from under the threads.             *)
THEOREM SchedulerHeapNoIdleCpu == Spec => []NoIdleCpu
<1>1. HeapInv => NoIdleCpu
  BY TablesFacts DEF HeapInv, Good, BusyUnlessIn, NoIdleCpu, Abstract!NoIdleCpu
<1> QED BY <1>1, AlwaysInv, PTL

(* No ready thread is better than a running one of its set, although       *)
(* modify_thread_priority requeues a thread only when it thinks it must.   *)
THEOREM SchedulerHeapPriorityOrder == Spec => []PriorityOrder
<1>1. HeapInv => PriorityOrder
  BY TablesFacts DEF HeapInv, Good, Ordered, PriorityOrder, Abstract!PriorityOrder
<1> QED BY <1>1, AlwaysInv, PTL

(* A waking thread takes the CPU from at most one thread, a worse one, and *)
(* no other call stops a thread on behalf of one that slept                *)
(* (insert_into_heap).                                                     *)
THEOREM SchedulerHeapWakePreempts == Spec => WakePreemptsOnlyWorse
<1> DEFINE A ==
      \A t, u \in Thread :
        /\ S.state[t] = "SLEEP" /\ (S.state)'[t] # "SLEEP"
        /\ S.state[u] = "RUN" /\ (S.state)'[u] # "RUN"
        => /\ (S.state)'[t] = "RUN" /\ (S.cpu_id)'[t] = S.cpu_id[u]
           /\ S.priority[t] < S.priority[u]
<1>1. HeapInv /\ [Next]_S => [A]_(Abstract!vars)
  <2> SUFFICES ASSUME HeapInv, [Next]_S PROVE [A]_(Abstract!vars) OBVIOUS
  <2>1. CASE Next
    <3>1. WakesFairly(Tables(S), Tables(S')) BY <2>1, NextSteps DEF Stepped
    <3>2. A BY <3>1, TablesFacts DEF WakesFairly
    <3> QED BY <3>2
  <2>2. CASE UNCHANGED S BY <2>2, TablesUnchanged
  <2> QED BY <2>1, <2>2
<1>2. Spec => [][A]_(Abstract!vars)
  <2> HIDE DEF A
  <2> QED BY <1>1, AlwaysInv, PTL DEF Spec
<1> QED BY <1>2, PTL DEF WakePreemptsOnlyWorse, Abstract!WakePreemptsOnlyWorse

(* The heaps and stacks implement the choices Scheduler leaves open: every *)
(* call does what one call of Scheduler may do.                            *)
THEOREM SchedulerHeapImplements == Spec => ImplementsScheduler
<1>1. Init => Abstract!Init BY DEF Init, Abstract!Init
<1>2. HeapInv /\ [Next]_S => [Step]_(Abstract!vars)
  <2> SUFFICES ASSUME HeapInv, [Next]_S PROVE [Step]_(Abstract!vars) OBVIOUS
  <2>1. CASE Next BY <2>1, NextSteps, StepTaken
  <2>2. CASE UNCHANGED S BY <2>2, TablesUnchanged
  <2> QED BY <2>1, <2>2
<1> QED BY <1>1, <1>2, AlwaysInv, PTL DEF Spec, ImplementsScheduler

(* ... so that its behaviours are behaviours of Scheduler.                 *)
THEOREM SchedulerHeapRefines == Spec => Abstract!Spec
<1>1. Init => Abstract!Init BY DEF Init, Abstract!Init
<1>2. HeapInv /\ HeapInv' /\ [Next]_S => [Abstract!Next]_(Abstract!vars)
  <2> SUFFICES ASSUME HeapInv, HeapInv', [Next]_S PROVE [Abstract!Next]_(Abstract!vars)
    OBVIOUS
  <2>1. CASE Next BY <2>1, NextSteps, StepTaken, StepIsNext
  <2>2. CASE UNCHANGED S BY <2>2, TablesUnchanged
  <2> QED BY <2>1, <2>2
<1> QED BY <1>1, <1>2, AlwaysInv, PTL DEF Spec, Abstract!Spec
=============================================================================

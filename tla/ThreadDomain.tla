----------------------------- MODULE ThreadDomain -----------------------------
(***************************************************************************)
(* Threads that move between domains on stacks of activation records       *)
(* (kernel/create.c, migrate.c, return.c, current.c, thread.c, resource.c, *)
(* semaphore_action.c): creation, calls and jumps into other domains,      *)
(* returns, forced and timed-out exits, and the monitor every domain has.  *)
(*                                                                         *)
(* A kernel function is one step under the kernel lock.  Between two of    *)
(* them set_current_item may register one for the thread itself, which runs*)
(* in a later step, so that others come in between.                        *)
(*                                                                         *)
(* A domain's monitor is a semaphore of the domain's name; Other is some   *)
(* semaphore threads sleep on while they are in a domain.  Left out are    *)
(* files, registers, signals and priorities, and the thread's and the      *)
(* stacks' own semaphores, which calls and returns reset.                  *)
(***************************************************************************)
EXTENDS SemaphoreOps, Functions

CONSTANTS Stack, Domain, Other,
          Units,         \* the monitors' first value, OS_RETURN_STACK_NUMBER
          MaxThread, MaxStack, \* what the domains may have: [Domain -> Nat]
          Incarnation,   \* values of each domain's domain_id: [Domain -> SUBSET _]
          BootThread, BootStack, BootDomain,
          MaxDrift, MaxGrown   \* bounds of the model

ASSUME ThreadDomainAssumption ==
  /\ IsFiniteSet(Stack) /\ IsFiniteSet(Domain) /\ IsFiniteSet(Thread)
  /\ Semaphore = Domain \cup {Other} /\ Other \notin Domain
  /\ None \notin Thread /\ None \notin Domain
  /\ Units \in Nat /\ MaxDrift \in Nat /\ MaxGrown \in Nat
  /\ MaxThread \in [Domain -> Nat] /\ MaxStack \in [Domain -> Nat]
  /\ BootThread \in Thread /\ BootStack \in Stack /\ BootDomain \in Domain
  /\ MaxThread[BootDomain] >= 1
  /\ \A d \in Domain : Incarnation[d] # {}

VARIABLES
  q,            \* the semaphores: a SemaphoreState
  chain,        \* each thread's stacks, from return_stack_pointer on
  free,         \* free_return_stack and its followers
  rt,           \* os_return_stack[]
  home,         \* os_thread[].domain_id, None for the idle domain 0
  function,     \* os_thread[].system_call_function
  incarnation,  \* os_domain[].domain_id
  enter_thread_number, thread_number, return_stack_number, max_return_stack_number,
  drift,        \* units a monitor gained by mistakes: see MonitorUnits
  grown         \* how many stacks calls made from a domain have taken

vars == <<q, chain, free, rt, home, function, incarnation, enter_thread_number,
          thread_number, return_stack_number, max_return_stack_number, drift, grown>>
stacks   == <<chain, free>>
counters == <<enter_thread_number, thread_number, return_stack_number,
              max_return_stack_number, grown>>

Min2(a, b) == IF a < b THEN a ELSE b
Plus(f, d, n) == [f EXCEPT ![d] = @ + n]
Top(t)    == chain[t][1]
DomainOf(t) == rt[Top(t)].current_domain_id
Created(t)  == chain[t] # <<>>

(* A stack whose domain is still the one it was entered in.                *)
Same(s) == rt[s].domain_id = incarnation[rt[s].current_domain_id]
Live(s) == Same(s) /\ ~rt[s].time_out

-----------------------------------------------------------------------------
(* Faults a change of the code might introduce, one for every property.    *)
(* Nothing below uses them.                                                *)
OwesAlways(s)      == Same(s)
PoppedKept(t, k)   == SubSeq(chain[t], 1, k)
EnteredOnly(d, to) == Plus(enter_thread_number, to, 1)

-----------------------------------------------------------------------------
NewStack(t, d, release) ==
  [current_thread_id |-> t, current_domain_id |-> d, release_domain_id |-> release,
   domain_id |-> incarnation[d], p_flag |-> TRUE, time_out |-> FALSE]

(* What a free stack says of a domain is overwritten before it is used.    *)
FreeStack ==
  [current_thread_id |-> None, current_domain_id |-> BootDomain,
   release_domain_id |-> BootDomain, domain_id |-> None,
   p_flag |-> TRUE, time_out |-> FALSE]

(* init.c.  The first stack's current_thread_id is never set.              *)
Init ==
  /\ q = [value |-> [s \in Semaphore |-> IF s \in Domain THEN Units ELSE 0],
          ring |-> [s \in Semaphore |-> <<>>], stray |-> {},
          sleep |-> [t \in Thread |-> None]]
  /\ chain = [t \in Thread |-> IF t = BootThread THEN <<BootStack>> ELSE <<>>]
  /\ free \in [1..(Cardinality(Stack) - 1) -> Stack \ {BootStack}]
  /\ \A i, j \in DOMAIN free : i # j => free[i] # free[j]
  /\ incarnation = [d \in Domain |-> CHOOSE i \in Incarnation[d] : TRUE]
  /\ rt = [s \in Stack |-> IF s = BootStack THEN NewStack(None, BootDomain, BootDomain)
                          ELSE FreeStack]
  /\ home = [t \in Thread |-> IF t = BootThread THEN BootDomain ELSE None]
  /\ function = [t \in Thread |-> "none"]
  /\ LET one == [d \in Domain |-> IF d = BootDomain THEN 1 ELSE 0]
     IN enter_thread_number = one /\ thread_number = one /\ return_stack_number = one
  /\ max_return_stack_number = MaxStack
  /\ drift = [d \in Domain |-> 0]
  /\ grown = [d \in Domain |-> 0]

(* The bound of the model: mistakes made so far.                           *)
Bounded ==
  LET Sum(f) == FoldFunction(LAMBDA m, n : m + n, 0, f)
  IN  /\ \A d \in Domain : drift'[d] \in -MaxDrift..MaxDrift
      /\ Sum(drift') \in -MaxDrift..MaxDrift
      /\ Sum(grown') <= MaxGrown

-----------------------------------------------------------------------------
(* set_current_item of a thread that is awake.  In user mode a dead or     *)
(* timed-out stack comes first, even before a function that waits already; *)
(* a P of the monitor that is forgotten so leaves the flag cleared.        *)
Select(t) ==
  LET s == Top(t)
  IN  /\ Created(t) /\ Awake(q, t)
      /\ \/ /\ ~Live(s)
            /\ function' = [function EXCEPT ![t] = "exit"]
            /\ rt' = [rt EXCEPT ![s].time_out = FALSE]
            /\ drift' = IF function[t] = "monitor" THEN Plus(drift, DomainOf(t), 1) ELSE drift
         \/ /\ function[t] = "none" /\ rt[s].p_flag
            /\ function' = [function EXCEPT ![t] = "monitor"]
            /\ rt' = [rt EXCEPT ![s].p_flag = FALSE]
            /\ UNCHANGED drift
      /\ UNCHANGED <<q, stacks, home, incarnation, counters>>
      /\ Bounded

(* A system call is registered by a thread in user mode, which it only gets*)
(* to when nothing is left to do.                                          *)
SystemCall(t) ==
  /\ Created(t) /\ Awake(q, t)
  /\ function[t] = "none" /\ ~rt[Top(t)].p_flag
  /\ function' = [function EXCEPT ![t] = "call"]
  /\ UNCHANGED <<q, stacks, rt, home, incarnation, counters, drift>>

Runs(t, fun) == Created(t) /\ Awake(q, t) /\ function[t] = fun
Done(t) == function' = [function EXCEPT ![t] = "none"]

MonitorP(t) ==
  /\ Runs(t, "monitor")
  /\ q' = P(q, t, DomainOf(t), TRUE)
  /\ Done(t)
  /\ UNCHANGED <<stacks, rt, home, incarnation, counters, drift>>

-----------------------------------------------------------------------------
(* thread_return.  Stacks are popped until one is live.  The monitor of    *)
(* each is given back if the flag says that it was taken.                  *)
Popped(t) ==
  Cardinality({i \in 1..Len(chain[t]) : \A j \in 2..i : ~Live(chain[t][j])})
Left(t, k) == SubSeq(chain[t], k + 1, Len(chain[t]))

Owes(s) == ~rt[s].p_flag /\ Same(s)
Gone(t, k) == {chain[t][i] : i \in 1..k}
In(S, d)   == {s \in S : rt[s].current_domain_id = d}

(* V of every domain's monitor, so many times.                             *)
VEach(Q, n) ==
  LET k(d) == Min2(n[d], Len(Q.ring[d]))
  IN  [Q EXCEPT
        !.value = [s \in Semaphore |-> IF s \in Domain THEN Q.value[s] + n[s] ELSE Q.value[s]],
        !.ring  = [s \in Semaphore |-> IF s \in Domain
                     THEN SubSeq(Q.ring[s], k(s) + 1, Len(Q.ring[s])) ELSE Q.ring[s]],
        !.sleep = [t \in Thread |-> IF \E d \in Domain : \E i \in 1..k(d) : Q.ring[d][i] = t
                                    THEN None ELSE Q.sleep[t]]]

ThreadReturn(t) ==
  LET k == Popped(t)
      S == Gone(t, k)
  IN  /\ q' = VEach(q, [d \in Domain |-> Cardinality({s \in In(S, d) : Owes(s)})])
      /\ chain' = [chain EXCEPT ![t] = Left(t, k)]
      /\ free' = [i \in 1..k |-> chain[t][k + 1 - i]] \o free
      /\ rt' = [s \in Stack |-> IF s \in S THEN FreeStack ELSE rt[s]]
      /\ enter_thread_number' =
           [d \in Domain |-> enter_thread_number[d] - Cardinality(In(S, d))]
      /\ return_stack_number' =
           [d \in Domain |-> return_stack_number[d]
                             - Cardinality({s \in S : rt[s].release_domain_id = d})]
      /\ drift' = [d \in Domain |->
           drift[d] - Cardinality({s \in In(S, d) : ~rt[s].p_flag /\ ~Same(s)})]
      /\ IF Left(t, k) = <<>>
         THEN /\ home' = [home EXCEPT ![t] = None]
              /\ thread_number' = Plus(thread_number, home[t], -1)
         ELSE UNCHANGED <<home, thread_number>>
      /\ UNCHANGED <<incarnation, max_return_stack_number, grown>>
      /\ Bounded

Exit(t)   == Runs(t, "exit") /\ ThreadReturn(t) /\ Done(t)
Return(t) == Runs(t, "call") /\ ThreadReturn(t) /\ Done(t)

-----------------------------------------------------------------------------
(* thread_migrate.  A jump reuses the stack.  It compares the stack's new  *)
(* domain with itself, so that the flag is never changed.                  *)
Entered(d, to) == Plus(Plus(enter_thread_number, d, -1), to, 1)

ThreadJump(t) ==
  LET s == Top(t)  d == DomainOf(t)
  IN  \E to \in Domain :
        /\ rt' = [rt EXCEPT ![s] = [@ EXCEPT
                    !.current_thread_id = t, !.current_domain_id = to,
                    !.domain_id = incarnation[to], !.time_out = FALSE]]
        /\ enter_thread_number' = Entered(d, to)
        /\ drift' = IF rt[s].p_flag THEN drift ELSE Plus(Plus(drift, d, -1), to, 1)
        /\ UNCHANGED <<q, stacks, home, incarnation, thread_number,
                       return_stack_number, max_return_stack_number, grown>>

(* A call takes a stack.  It is charged to max_return_stack_number, though *)
(* the return takes it off return_stack_number.  Within the domain the     *)
(* monitor goes to the new stack; into another it is given up or kept.     *)
CallStack(t, d) ==
  /\ return_stack_number[d] < max_return_stack_number[d] /\ free # <<>>
  /\ free' = Tail(free)
  /\ chain' = [chain EXCEPT ![t] = <<free[1]>> \o @]
  /\ max_return_stack_number' = Plus(max_return_stack_number, d, 1)
  /\ grown' = Plus(grown, d, 1)

ThreadCall(t) ==
  LET old == Top(t)  d == DomainOf(t)  s == free[1]
  IN  /\ CallStack(t, d)
      /\ \E to \in Domain, giveup_monitor_flag \in BOOLEAN :
           LET gives == to # d /\ giveup_monitor_flag /\ ~rt[old].p_flag
           IN  /\ q' = IF gives THEN V(q, d, 1) ELSE q
               /\ rt' = [rt EXCEPT
                    ![old].p_flag = @ \/ to = d \/ gives,
                    ![s] = [NewStack(t, to, d) EXCEPT
                              !.p_flag = IF to = d THEN rt[old].p_flag ELSE TRUE]]
               /\ enter_thread_number' = Plus(enter_thread_number, to, 1)
      /\ UNCHANGED <<home, incarnation, thread_number, return_stack_number, drift>>

Migrate(t) == Runs(t, "call") /\ (ThreadJump(t) \/ ThreadCall(t)) /\ Done(t) /\ Bounded

(* create_thread: any idle thread, for domain d, to run in domain to.      *)
NewThread(d, to) ==
  /\ free # <<>>
  /\ thread_number[d] < MaxThread[d]
  /\ return_stack_number[d] < max_return_stack_number[d]
  /\ \E u \in Thread :
       /\ ~Created(u)
       /\ chain' = [chain EXCEPT ![u] = <<free[1]>>]
       /\ rt' = [rt EXCEPT ![free[1]] = NewStack(u, to, d)]
       /\ home' = [home EXCEPT ![u] = d]
  /\ free' = Tail(free)
  /\ thread_number' = Plus(thread_number, d, 1)
  /\ return_stack_number' = Plus(return_stack_number, d, 1)
  /\ enter_thread_number' = Plus(enter_thread_number, to, 1)
  /\ UNCHANGED <<q, incarnation, max_return_stack_number, drift, grown>>

(* The system call makes one that runs where its creator does.             *)
CreateThread(t) ==
  Runs(t, "call") /\ (\E d \in Domain : NewThread(d, DomainOf(t))) /\ Done(t)

(* process_semaphore_action: the timer of a domain's semaphore.  Threads   *)
(* that serve requests or the shutdown of a domain come about alike.       *)
DomainTimeOut(d) == NewThread(d, d) /\ UNCHANGED function

(* SEMAPHORE_OPERATION_SYSTEM_CALL: the monitor may be given up for a P.   *)
SemaphoreOperation(t) ==
  LET s == Top(t)  d == DomainOf(t)
  IN  /\ Runs(t, "call") /\ Done(t)
      /\ \/ \E giveup \in BOOLEAN :
              /\ q' = P(IF giveup /\ ~rt[s].p_flag THEN V(q, d, 1) ELSE q, t, Other, TRUE)
              /\ rt' = [rt EXCEPT ![s].p_flag = @ \/ giveup]
         \/ q' = V(q, Other, -1) /\ UNCHANGED rt
      /\ UNCHANGED <<stacks, home, incarnation, counters, drift>>

(* set_thread_attribute: the topmost stacks of a thread are told to exit,  *)
(* and a sleeper is woken; one that slept at the monitor has no unit, but  *)
(* its flag is the same as if it had.                                      *)
MandatoryExit(t) ==
  /\ Runs(t, "call") /\ Done(t)
  /\ \E u \in Thread : \E n \in 1..Len(chain[u]) :
       /\ q' = VThread(q, u)
       /\ rt' = [s \in Stack |-> [rt[s] EXCEPT !.time_out = @ \/ s \in Gone(u, n)]]
       /\ drift' = IF q.sleep[u] \in Domain THEN Plus(drift, q.sleep[u], 1) ELSE drift
  /\ UNCHANGED <<stacks, home, incarnation, counters>>
  /\ Bounded

(* allocate_resource: a domain gets another domain_id.                     *)
AllocateResource(t) ==
  /\ Runs(t, "call") /\ Done(t)
  /\ \E d \in Domain : \E i \in Incarnation[d] : incarnation' = [incarnation EXCEPT ![d] = i]
  /\ UNCHANGED <<q, stacks, rt, home, counters, drift>>

(* process_semaphore_action: the timer of a stack's semaphore.  The thread *)
(* is woken if it sleeps on that semaphore with this stack on top.         *)
TimeOut(s) ==
  LET t == rt[s].current_thread_id
  IN  /\ \A i \in DOMAIN free : free[i] # s
      /\ rt' = [rt EXCEPT ![s].time_out = TRUE]
      /\ \/ /\ t # None /\ q.sleep[t] = Other /\ Top(t) = s
            /\ q' = VThread(q, t)
         \/ UNCHANGED q
      /\ UNCHANGED <<stacks, home, function, incarnation, counters, drift>>

Next ==
  \/ \E t \in Thread :
       Select(t) \/ SystemCall(t) \/ MonitorP(t) \/ Exit(t) \/ Return(t) \/ Migrate(t)
       \/ CreateThread(t) \/ SemaphoreOperation(t) \/ MandatoryExit(t) \/ AllocateResource(t)
  \/ \E s \in Stack : TimeOut(s)
  \/ \E d \in Domain : DomainTimeOut(d)

Spec == Init /\ [][Next]_vars

-----------------------------------------------------------------------------
Rt == [current_thread_id : Thread \cup {None}, current_domain_id : Domain,
       release_domain_id : Domain, domain_id : (UNION {Incarnation[d] : d \in Domain}) \cup {None},
       p_flag : BOOLEAN, time_out : BOOLEAN]

TypeOK ==
  /\ q \in SemaphoreState
  /\ chain \in [Thread -> Seq(Stack)] /\ free \in Seq(Stack)
  /\ rt \in [Stack -> Rt]
  /\ home \in [Thread -> Domain \cup {None}]
  /\ function \in [Thread -> {"none", "call", "monitor", "exit"}]
  /\ \A d \in Domain : incarnation[d] \in Incarnation[d]
  /\ enter_thread_number \in [Domain -> Int] /\ thread_number \in [Domain -> Int]
  /\ return_stack_number \in [Domain -> Int] /\ max_return_stack_number \in [Domain -> Int]
  /\ drift \in [Domain -> Int] /\ grown \in [Domain -> Int]

Used == UNION {Members(chain[t]) : t \in Thread}

(* current.c, migrate.c, return.c, p_system_call.c: a monitor's value and  *)
(* the stacks whose flag says that they have taken it (but for a P that is *)
(* yet to run) add up to what it started with, whatever calls, returns,    *)
(* waits, exits and timeouts do.  It drifts only by: a jump out of a domain*)
(* with its monitor; a wait at the monitor, or its P, cut short by an exit;*)
(* a return from a domain that has become another.                         *)
MonitorUnits ==
  \A d \in Domain :
    q.value[d] + Cardinality({s \in In(Used, d) : ~rt[s].p_flag})
      - Cardinality({t \in Thread : function[t] = "monitor" /\ DomainOf(t) = d})
    = Units + drift[d]

(* create.c, migrate.c, return.c: every return stack is free or is in the  *)
(* chain of one thread, once, and knows its thread (the boot stack learns  *)
(* it by a jump); threads of the idle domain have none.                    *)
Places(s) ==
  {<<None, i>> : i \in {j \in DOMAIN free : free[j] = s}} \cup
  UNION {{<<t, i>> : i \in {j \in DOMAIN chain[t] : chain[t][j] = s}} : t \in Thread}
StacksAccounted ==
  /\ \A s \in Stack : Cardinality(Places(s)) = 1
  /\ \A t \in Thread : \A i \in DOMAIN chain[t] :
       \/ rt[chain[t][i]].current_thread_id = t
       \/ rt[chain[t][i]].current_thread_id = None /\ chain[t][i] = BootStack
  /\ \A t \in Thread : home[t] = None <=> chain[t] = <<>>

(* The counters that quotas are compared with are those of the stacks and  *)
(* threads there are.  The stacks that calls took are missing, for good.   *)
CountersAgree ==
  \A d \in Domain :
    /\ enter_thread_number[d] = Cardinality(In(Used, d))
    /\ thread_number[d] = Cardinality({t \in Thread : home[t] = d})
    /\ thread_number[d] <= MaxThread[d]
    /\ return_stack_number[d] + grown[d] = Cardinality({s \in Used : rt[s].release_domain_id = d})
    /\ max_return_stack_number[d] = MaxStack[d] + grown[d]
=============================================================================

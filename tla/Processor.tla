----------------------------- MODULE Processor -----------------------------
(***************************************************************************)
(* The loop of every physical processor (kernel/routine.c): it looks for a *)
(* thread the scheduler has put on some (virtual) CPU, takes that thread's *)
(* lock, runs the kernel function the thread asked for under the kernel    *)
(* lock, and leaves to user mode until a system call or the timer brings   *)
(* it back.  The table of CPUs is read without the kernel lock.            *)
(*                                                                         *)
(* Locks are the counters of SpinLock; an attempt that fails is withdrawn  *)
(* in a step of its own.  What kernel functions do to threads is Scheduler *)
(* with one call to it per function.                                       *)
(*                                                                         *)
(* A processor's place:                                                    *)
(*   "out"    in user mode, or idle when it has no current thread          *)
(*   "drop"   register_drop_call tries the kernel lock for the timer       *)
(*   "tick"   time_call_process runs      "ticked" then the lock is given  *)
(*   "enter"  set_current_information gives the current thread's lock up   *)
(*   "scan"   it looks at the next virtual CPU                             *)
(*   "saw"    it tries the lock of the thread it saw there                 *)
(*   "check"  it holds the lock of the thread it saw there                 *)
(*   "skip"   it gives that lock back, or withdraws its attempt            *)
(*   "chosen" execute_system_call looks for a function to run              *)
(*   "call"   the function runs           "called" then the lock is given  *)
(*   "missed", "failed"  the attempt on the kernel lock is withdrawn       *)
(***************************************************************************)
EXTENDS Scheduler, Processors, FiniteSets

ASSUME ProcessorAssumption ==
  /\ IsFiniteSet(Processor) /\ None \notin Processor
  /\ IsFiniteSet(Cpu) /\ Cpu = 0..(Cardinality(Cpu) - 1)

VARIABLES os_lock,      \* spinlock.os_lock
          thread_lock,  \* spinlock.thread_lock[]
          function,     \* os_thread[].system_call_function
          owed,         \* threads whose return stack has a flag to act on
          pool,         \* the threads of domain 0, which may be created anew
          current,      \* current->thread_id of every processor
          at,           \* each processor's place and what it has in hand
          current_cpu   \* the static variable of get_virtual_cpu

pVars == <<vars, os_lock, thread_lock, function, owed, pool, current, at, current_cpu>>
locks == <<os_lock, thread_lock>>
tasks == <<function, owed, pool>>

NCpu == Cardinality(Cpu)

(* get_virtual_cpu counts the CPUs in a static variable that is shared and *)
(* unprotected: one processor rotates over them, and with several any CPU  *)
(* may be next, whether a processor means to move on or not.               *)
Rotating == Cardinality(Processor) = 1
NextCpus(flag) ==
  IF Rotating THEN {IF flag THEN (current_cpu + 1) % NCpu ELSE current_cpu} ELSE Cpu

(* place, the thread seen on a CPU, how many CPUs were tried, whether to   *)
(* move on to the next CPU, whether set_current_information runs again.    *)
Entering(flag, again) ==
  [place |-> "enter", seen |-> None, i |-> 0, flag |-> Rotating /\ flag, again |-> again]
At(place) == [place |-> place, seen |-> None, i |-> 0, flag |-> FALSE, again |-> FALSE]
Go(p, x)  == at' = [at EXCEPT ![p] = x]
Place(p)  == at[p].place

-----------------------------------------------------------------------------
(* Faults a change of the code might introduce, one for every property: a  *)
(* lock won at zero; a state not looked at again; an idle thread taken     *)
(* without its lock; a unit not given back; a tick that stays on its CPU.  *)
(* Nothing below uses them.                                                *)
WonAtZero(old)     == old >= 0
SelectableAny(t)   == TRUE
CreatableAny(u)    == u \in pool
AfterTickStay      == Entering(FALSE, TRUE)
SkipKeepsUnit(p) ==
  /\ Place(p) = "skip"
  /\ Go(p, At("out"))
  /\ current' = [current EXCEPT ![p] = None]
  /\ UNCHANGED <<vars, locks, tasks, current_cpu>>

-----------------------------------------------------------------------------
PInit ==
  /\ Init
  /\ os_lock = 1
  /\ thread_lock = [t \in Thread |-> 1]
  /\ function = [t \in Thread |-> "none"]
  /\ owed = {}
  /\ pool = Thread \ {BootThread}
  /\ current = [p \in Processor |-> None]
  /\ at = [p \in Processor |-> Entering(TRUE, TRUE)]
  /\ current_cpu = 0

(* The two ways into the kernel.                                           *)
SystemCall(p) ==
  /\ Place(p) = "out" /\ current[p] # None
  /\ function' = [function EXCEPT ![current[p]] = "call"]
  /\ Go(p, Entering(FALSE, FALSE))
  /\ UNCHANGED <<vars, locks, owed, pool, current, current_cpu>>

Timer(p) ==
  /\ Place(p) = "out"
  /\ Go(p, At("drop"))
  /\ UNCHANGED <<vars, locks, tasks, current, current_cpu>>

(* The counter's old value tells whether the lock was free (kernel/lock.c).*)
Won(old) == old > 0

(* lock_os_kernel, and its second half when the lock was not to be had.    *)
TryKernel(p, from, won, lost) ==
  /\ Place(p) = from
  /\ os_lock' = os_lock - 1
  /\ Go(p, At(IF Won(os_lock) THEN won ELSE lost))
  /\ UNCHANGED <<vars, thread_lock, tasks, current, current_cpu>>

GiveKernel(p, from, next) ==
  /\ Place(p) = from
  /\ os_lock' = os_lock + 1
  /\ Go(p, next)
  /\ UNCHANGED <<vars, thread_lock, tasks, current, current_cpu>>

(* A tick that finds the kernel locked is lost; one that does not makes    *)
(* the processor move on to the next CPU.                                  *)
AfterTick   == Entering(TRUE, TRUE)
TryTick(p)  == TryKernel(p, "drop", "tick", "missed")
MissTick(p) == GiveKernel(p, "missed", Entering(FALSE, FALSE))
EndTick(p)  == GiveKernel(p, "ticked", AfterTick)

(* time_call_process: a thread, mostly the current one, gets a priority    *)
(* (TimeShare says which), and a timer may wake a sleeper.                 *)
Tick(p) ==
  /\ Place(p) = "tick"
  /\ \/ UNCHANGED vars
     \/ \E u \in Thread, x \in Priority : Modify(u, x, cpu_set_id[u])
     \/ \E u \in Thread \ pool : Wake(u)
  /\ Go(p, At("ticked"))
  /\ UNCHANGED <<locks, tasks, current, current_cpu>>

-----------------------------------------------------------------------------
(* set_current_information.                                                *)
Enter(p) ==
  /\ Place(p) = "enter"
  /\ thread_lock' = [t \in Thread |-> IF t = current[p] THEN thread_lock[t] + 1
                                                        ELSE thread_lock[t]]
  /\ Go(p, [at[p] EXCEPT !.place = "scan"])
  /\ UNCHANGED <<vars, os_lock, tasks, current, current_cpu>>

(* One CPU is done with: on to the next, or nothing was found.             *)
Leave(p, i) ==
  IF i < NCpu
  THEN /\ Go(p, [at[p] EXCEPT !.place = "scan", !.seen = None, !.i = i + 1, !.flag = Rotating])
       /\ UNCHANGED current
  ELSE /\ Go(p, IF at[p].again THEN Entering(FALSE, FALSE) ELSE At("out"))
       /\ current' = [current EXCEPT ![p] = None]

Scan(p) ==
  /\ Place(p) = "scan"
  /\ \E c \in NextCpus(at[p].flag) :
       /\ current_cpu' = IF Rotating THEN c ELSE current_cpu
       /\ IF thread_id[c] = None
          THEN Leave(p, at[p].i)
          ELSE /\ Go(p, [at[p] EXCEPT !.place = "saw", !.seen = thread_id[c]])
               /\ UNCHANGED current
  /\ UNCHANGED <<vars, locks, tasks>>

TryThread(p) ==
  LET t == at[p].seen
  IN  /\ Place(p) = "saw"
      /\ thread_lock' = [thread_lock EXCEPT ![t] = @ - 1]
      /\ Go(p, [at[p] EXCEPT !.place = IF Won(thread_lock[t]) THEN "check" ELSE "skip"])
      /\ UNCHANGED <<vars, os_lock, tasks, current, current_cpu>>

Skip(p) ==
  /\ Place(p) = "skip"
  /\ thread_lock' = [thread_lock EXCEPT ![at[p].seen] = @ + 1]
  /\ Leave(p, at[p].i)
  /\ UNCHANGED <<vars, os_lock, tasks, current_cpu>>

(* set_current_item: what the return stack owes (the monitor, the memory   *)
(* lock, a signal, the exit) comes before going on, but of these only the  *)
(* exit replaces a function that is waiting already.                       *)
OwnFunction(t, exit) == t \in owed /\ (function[t] = "none" \/ exit)

(* The thread may have gone to sleep since it was seen on the CPU.         *)
Selectable(t) == state[t] = "RUN"

Check(p) ==
  LET t == at[p].seen
  IN  /\ Place(p) = "check"
      /\ IF Selectable(t)
         THEN /\ current' = [current EXCEPT ![p] = t]
              /\ \E exit \in BOOLEAN :
                   IF OwnFunction(t, exit)
                   THEN /\ function' = [function EXCEPT ![t] = "own"]
                        /\ owed' = owed \ {t}
                   ELSE UNCHANGED <<function, owed>>
              /\ Go(p, IF at[p].again THEN Entering(FALSE, FALSE) ELSE At("chosen"))
         ELSE /\ Go(p, [at[p] EXCEPT !.place = "skip"])
              /\ UNCHANGED <<function, owed, current>>
      /\ UNCHANGED <<vars, locks, pool, current_cpu>>

-----------------------------------------------------------------------------
(* execute_system_call.                                                    *)
LeaveKernel(p) ==
  /\ Place(p) = "chosen" /\ function[current[p]] = "none"
  /\ Go(p, At("out"))
  /\ UNCHANGED <<vars, locks, tasks, current, current_cpu>>

TryCall(p) ==
  /\ Place(p) = "chosen" /\ function[current[p]] # "none"
  /\ TryKernel(p, "chosen", "call", "failed")

FailCall(p) == GiveKernel(p, "failed", Entering(TRUE, FALSE))
EndCall(p)  == GiveKernel(p, "called", Entering(at[p].flag, FALSE))

(* What one kernel function may do, called by thread t.                    *)
Sleeps(t) == Block(t) /\ UNCHANGED <<thread_lock, owed, pool>>
Exits(t)  == Block(t) /\ pool' = pool \cup {t} /\ UNCHANGED <<thread_lock, owed>>
Wakes     == (\E u \in Thread \ pool : Wake(u)) /\ UNCHANGED <<thread_lock, owed, pool>>
Changes   ==
  /\ \/ \E u \in Thread, x \in Priority, s \in CpuSet : Modify(u, x, s)
     \/ \E c \in Cpu, s \in CpuSet : Move(c, s)
  /\ UNCHANGED <<thread_lock, owed, pool>>
Owes(u)   == owed' = owed \cup {u} /\ UNCHANGED <<vars, thread_lock, pool>>
Nothing   == UNCHANGED <<vars, thread_lock, owed, pool>>

(* create_thread takes an idle thread only with its lock, for the processor*)
(* that ran it last may still be on its way out of it.                     *)
Creatable(u) == u \in pool /\ Won(thread_lock[u])
Creates ==
  /\ \E u \in Thread :
       /\ Creatable(u)
       /\ Wake(u)
       /\ pool' = pool \ {u}
       /\ owed' = owed \cup {u}
  /\ UNCHANGED thread_lock

(* Only the system call nobody knows returns TRUE: it is a tick.           *)
Call(p) ==
  LET t == current[p]
  IN  /\ Place(p) = "call"
      /\ function' = [function EXCEPT ![t] = "none"]
      /\ \/ Sleeps(t) \/ Exits(t) \/ Wakes \/ Nothing
         \/ /\ function[t] = "call"
            /\ Changes \/ Creates \/ \E u \in Thread \ pool : Owes(u)
      /\ \E flag \in IF Rotating /\ function[t] = "call" THEN BOOLEAN ELSE {FALSE} :
           Go(p, [At("called") EXCEPT !.flag = flag])
      /\ UNCHANGED <<os_lock, current, current_cpu>>

-----------------------------------------------------------------------------
Proceeds(p) ==
  \/ TryTick(p) \/ MissTick(p) \/ EndTick(p)
  \/ Enter(p) \/ Scan(p) \/ TryThread(p) \/ Skip(p) \/ Check(p)
  \/ LeaveKernel(p) \/ TryCall(p) \/ FailCall(p) \/ EndCall(p)
Works(p) == Proceeds(p) \/ Tick(p) \/ Call(p)

PNext == \E p \in Processor : SystemCall(p) \/ Timer(p) \/ Works(p)

PSpec == PInit /\ [][PNext]_pVars

-----------------------------------------------------------------------------
Places == {"out", "drop", "tick", "ticked", "missed", "enter", "scan", "saw",
           "check", "skip", "chosen", "call", "called", "failed"}

PTypeOK ==
  /\ TypeOK
  /\ os_lock \in (1 - Cardinality(Processor))..1
  /\ thread_lock \in [Thread -> (1 - Cardinality(Processor))..1]
  /\ function \in [Thread -> {"none", "call", "own"}]
  /\ owed \in SUBSET Thread
  /\ pool \in SUBSET Thread
  /\ current \in [Processor -> Thread \cup {None}]
  /\ at \in [Processor -> [place : Places, seen : Thread \cup {None},
                           i : 0..NCpu, flag : BOOLEAN, again : BOOLEAN]]
  /\ current_cpu \in Cpu

(* The thread whose lock a processor holds; current->thread_id is stale    *)
(* while set_current_information looks for the next one.                   *)
Held(p) ==
  IF Place(p) = "check" THEN at[p].seen
  ELSE IF Place(p) \in {"scan", "saw", "skip"} THEN None
  ELSE current[p]

(* routine.c: no two processors are ever in one thread's context, although *)
(* they pick threads from a table they read without a lock.                *)
OneProcessorPerThread ==
  \A p, q \in Processor : p # q /\ Held(p) # None => Held(p) # Held(q)

(* routine.c, lock.c: kernel functions run one at a time, those of the     *)
(* timer included, so each is one step for everybody else.                 *)
KernelFunctionsExclude ==
  Cardinality({p \in Processor : Place(p) \in {"tick", "ticked", "call", "called"}}) <= 1

(* A processor in user mode or about to run a kernel function for a thread *)
(* never does so for a sleeping thread, although its choice was made       *)
(* without the kernel lock and other processors preempt, wake and move     *)
(* threads meanwhile: p() and migration rely on it.                        *)
CurrentIsAwake ==
  \A p \in Processor :
    /\ Place(p) \in {"out", "drop", "missed", "tick", "chosen", "failed", "call"}
    /\ current[p] # None
    => state[current[p]] # "SLEEP"

(* A thread that exited is created anew only after the processor it exited *)
(* on has let go of it (create.c).                                         *)
CreatedThreadIsFree ==
  [][\A u \in pool \ pool' : \A p \in Processor : Held(p) # u]_pVars

(* Every unit a processor takes off a lock's counter it puts back: a       *)
(* counter differs from one by the holder and the attempts to withdraw.    *)
LocksAreConserved ==
  /\ PTypeOK
  /\ \A t \in Thread :
       thread_lock[t] = 1 - Cardinality({p \in Processor : Held(p) = t})
                          - Cardinality({p \in Processor : Place(p) = "skip" /\ at[p].seen = t})
  /\ os_lock = 1 - Cardinality({p \in Processor : Place(p) \in
                  {"tick", "ticked", "call", "called", "missed", "failed"}})
=============================================================================

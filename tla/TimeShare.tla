----------------------------- MODULE TimeShare -----------------------------
(***************************************************************************)
(* Time sharing (kernel/time_share.c) by the processors that serve the     *)
(* virtual CPUs.  At every timer interrupt that finds the kernel free, the *)
(* thread that was interrupted gets the next value of one counter as its   *)
(* priority, so it falls behind the threads that have waited since smaller *)
(* values; when the counter reaches its limit every thread in turn gets a  *)
(* small priority again and the counter restarts.                          *)
(*                                                                         *)
(* The threads here share the time as the counter gives it to them: none   *)
(* changes priorities by itself, and a timer wakes nobody.                 *)
(***************************************************************************)
EXTENDS Processor

CONSTANTS MaxTicks,   \* MAX_TICKS
          Blocking    \* the threads that go to sleep and exit: bounds the model

ASSUME TimeShareAssumption ==
  /\ Thread = 0..(Cardinality(Thread) - 1)
  /\ MaxTicks \in Nat
  /\ MaxTicks >= 2 * Cardinality(Thread)   \* 124 * 1024 and 23 in the code
  /\ 0..MaxTicks \subseteq Priority
  /\ Blocking \subseteq Thread

VARIABLE t_number   \* the static counter of time_share_priority

tsVars == <<pVars, t_number>>

ThreadNumber == Cardinality(Thread)

(* A fault: no priority is handed out.                                     *)
NoPriority(t) == t_number' = (t_number + 1) % MaxTicks /\ UNCHANGED vars

(* time_share_priority(t), with the thread of the processor that ticks.    *)
ModifyPriority(t, x) == Modify(t, x, cpu_set_id[t])
TimeSharePriority(t) ==
  LET n   == t_number + 1
      tid == n - MaxTicks
  IN  \/ /\ n < MaxTicks /\ t_number' = n
         /\ \/ t # None /\ ModifyPriority(t, n)
            \/ t = None /\ UNCHANGED vars
      \/ /\ tid \in Thread /\ t_number' = n
         /\ ModifyPriority(tid, ThreadNumber - tid)
      \/ tid >= ThreadNumber /\ t_number' = 0 /\ UNCHANGED vars

TimeShares ==
  /\ UNCHANGED priority
  /\ \A t \in Thread \ Blocking : state[t] = "SLEEP" \/ state'[t] # "SLEEP"

TSInit == PInit /\ t_number = 0

TSWorks(p) ==
  \/ Tick(p) /\ TimeSharePriority(current[p])
  \/ Call(p) /\ TimeShares /\ UNCHANGED t_number
  \/ Proceeds(p) /\ UNCHANGED t_number

TSNext == \E p \in Processor :
  \/ TSWorks(p)
  \/ (SystemCall(p) \/ Timer(p)) /\ UNCHANGED t_number

(* A processor in the kernel goes on, and the timer interrupts whoever is  *)
(* in user mode or idle again and again, system calls or not.  (Written    *)
(* with what enables the steps, for the sake of TLC.)                      *)
TSFairness ==
  \A p \in Processor :
    /\ <>[](Place(p) # "out") => []<><<TSWorks(p)>>_tsVars
    /\ []<>(Place(p) = "out") => []<><<Timer(p)>>_tsVars

TSSpec == TSInit /\ [][TSNext]_tsVars /\ TSFairness

-----------------------------------------------------------------------------
(* time_share.c, get_virtual_cpu.c: once threads only compute and wake each*)
(* other, no ready thread starves, although only the thread a tick happens *)
(* to meet falls behind, and the counter wraps and the priorities are      *)
(* handed out anew in between.                                             *)
ReadyThreadsRun ==
  (<>[][\A t \in Thread : state[t] = "SLEEP" \/ state'[t] # "SLEEP"]_tsVars)
    => \A t \in Thread : (state[t] = "READY") ~> (state[t] # "READY")

(* get_virtual_cpu.c: one processor serves all CPUs, and every thread that *)
(* stays on a CPU gets to user mode, whatever system calls the threads of  *)
(* other CPUs make.                                                        *)
RunningThreadExecutes ==
  \A t \in Thread :
    (state[t] = "RUN")
      ~> (state[t] # "RUN" \/ \E p \in Processor : Place(p) = "out" /\ current[p] = t)
=============================================================================

------------------------------ MODULE Semaphore ------------------------------
(***************************************************************************)
(* Counting semaphores with timers (kernel/p_system_call.c, semaphore.c,   *)
(* set_time.c, semaphore_action.c, system_call.c).  A kernel function is   *)
(* one step, but for the loop of the timer interrupt, which is one step per*)
(* timer with nothing else in between but the passing of time.             *)
(*                                                                         *)
(* The time is only compared with the times timers are set to, so a timer  *)
(* holds how far its time is ahead (due < 0: it is behind).  The heap of   *)
(* timers is a choice of the least of them.                                *)
(***************************************************************************)
EXTENDS SemaphoreOps

CONSTANTS Entity,       \* semaphores that belong to something else for ever
          StackOwner,   \* [Entity -> Thread \cup {None}]: whose return stack
          Steps,        \* the numbers of steps of V that callers use
          InitialValue, \* the values semaphores are allocated with
          Delay,        \* how far ahead timers are set
          Period,       \* their steps
          Actions,      \* their actions, sets of "v" and "stack"
          MaxValue      \* V is not called beyond it: bounds the model

ASSUME SemaphoreParameters ==
  /\ Entity \subseteq Semaphore
  /\ StackOwner \in [Entity -> Thread \cup {None}]
  /\ Steps \subseteq Int \ {0} /\ InitialValue \subseteq Nat
  /\ Delay \subseteq Nat \ {0} /\ Period \subseteq Nat \ {0}
  /\ Actions \subseteq SUBSET {"v", "stack"}

VARIABLES sems,      \* values, rings and sleepers: a SemaphoreState
          free,      \* the semaphores of domain 0
          reused,    \* those allocated while somebody slept on them
          timer,     \* os_semaphore[].first, step, v_value, timer_action_flag
          ticking    \* kernel_semaphore_time_process runs

sVars == <<sems, free, reused, timer, ticking>>

TimersSetTo(D) == [due : D, step : Period, v : {-1}, action : Actions]
Armed(s) == timer[s] # None
Due(s)   == Armed(s) /\ timer[s].due < 0
Idle     == ~ticking

-----------------------------------------------------------------------------
SInit ==
  /\ \E value \in [Semaphore -> InitialValue] :
       sems = [value |-> value, ring |-> [s \in Semaphore |-> <<>>], stray |-> {},
            sleep |-> [t \in Thread |-> None]]
  /\ free = Semaphore \ Entity
  /\ reused = {}
  /\ timer = [s \in Semaphore |-> None]
  /\ ticking = FALSE

SwitchedOff(R) == [s \in Semaphore |-> IF s \in R THEN None ELSE timer[s]]

(* SEMAPHORE_OPERATION_SYSTEM_CALL: a reset and V of one semaphore, then a *)
(* reset and P of another, all without giving the kernel lock up.  Either  *)
(* part may fail, or not be asked for, without stopping the other.         *)
VCalls == [sem : Semaphore, reset : BOOLEAN, steps : Steps]
PCalls == [sem : Semaphore, reset : BOOLEAN, sleep_flag : BOOLEAN]
Resets(x)   == IF x # None /\ x.reset THEN {x.sem} ELSE {}
AfterReset(Q, x) == IF x.reset THEN Reset(Q, x.sem) ELSE Q
VPart(Q, x) == IF x = None THEN Q ELSE V(AfterReset(Q, x), x.sem, x.steps)
PPart(Q, t, x) == IF x = None THEN Q ELSE P(AfterReset(Q, x), t, x.sem, x.sleep_flag)

SemaphoreOperation(t) ==
  /\ Idle /\ Awake(sems, t)
  /\ \E x \in VCalls \cup {None}, y \in PCalls \cup {None} :
       /\ sems' = PPart(VPart(sems, x), t, y)
       /\ \A s \in Semaphore : sems'.value[s] <= MaxValue
       /\ timer' = SwitchedOff(Resets(x) \cup Resets(y))
  /\ UNCHANGED <<free, reused, ticking>>

(* SEMAPHORE_TIME_SYSTEM_CALL: the timer is set, then perhaps a P.         *)
SetTime(t) ==
  /\ Idle /\ Awake(sems, t)
  /\ \E s \in Semaphore, x \in TimersSetTo(Delay), do_p, sleep_flag \in BOOLEAN :
       /\ timer' = [timer EXCEPT ![s] = x]
       /\ sems' = IF do_p THEN P(sems, t, s, sleep_flag) ELSE sems
  /\ UNCHANGED <<free, reused, ticking>>

(* A semaphore is reused with its timer off.  Nothing ends the life of its *)
(* capability when it is released, so operations on it remain possible.    *)
AllocateSemaphore ==
  /\ Idle
  /\ \E s \in free, value \in InitialValue :
       /\ sems' = Allocate(sems, s, value)
       /\ free' = free \ {s}
       /\ reused' = IF sems.ring[s] = <<>> THEN reused ELSE reused \cup {s}
       /\ timer' = SwitchedOff({s})
  /\ UNCHANGED ticking

ReleaseSemaphore ==
  /\ Idle
  /\ \E s \in Semaphore \ (Entity \cup free) :
       /\ sems' = V(sems, s, -1)
       /\ free' = free \cup {s}
       /\ timer' = SwitchedOff({s})
  /\ UNCHANGED <<reused, ticking>>

(* set_thread_attribute: a thread told to exit is woken from its sleep.    *)
MandatoryExit ==
  /\ Idle
  /\ \E t \in Thread : ~Awake(sems, t) /\ sems' = VThread(sems, t)
  /\ UNCHANGED <<free, reused, timer, ticking>>

-----------------------------------------------------------------------------
(* One unit of time.  Differences that no comparison tells apart are one.  *)
Advanced(x) == [x EXCEPT !.due = IF \E d \in Period : x.due + d > 0 THEN @ - 1 ELSE @]
Advance ==
  /\ timer' = [s \in Semaphore |-> IF Armed(s) THEN Advanced(timer[s]) ELSE None]
  /\ UNCHANGED <<sems, free, reused, ticking>>

StartTick ==
  /\ Idle
  /\ ticking' = TRUE
  /\ UNCHANGED <<sems, free, reused, timer>>

(* process_semaphore_action, for semaphores and for return stacks: only a  *)
(* thread that sleeps on this very semaphore is woken.  Whether the return *)
(* stack is the thread's topmost one is any thread's guess.                *)
ActionV(Q, s) == IF "v" \in timer[s].action THEN V(Q, s, timer[s].v) ELSE Q
Owned(s)      == s \in Entity /\ StackOwner[s] # None
ActionStack(Q, s, top) ==
  IF "stack" \in timer[s].action /\ Owned(s) /\ top /\ Q.sleep[StackOwner[s]] = s
  THEN VThread(Q, StackOwner[s]) ELSE Q

(* The next time, unless that has passed as well.                          *)
Rearmed(s) ==
  IF timer[s].due + timer[s].step > 0
  THEN [timer[s] EXCEPT !.due = @ + timer[s].step] ELSE None

Fire ==
  /\ ticking
  /\ \E s \in Semaphore, top \in BOOLEAN :
       /\ Due(s) /\ \A r \in Semaphore : Armed(r) => timer[s].due <= timer[r].due
       /\ sems' = ActionStack(ActionV(sems, s), s, top)
       /\ timer' = [timer EXCEPT ![s] = Rearmed(s)]
  /\ UNCHANGED <<free, reused, ticking>>

EndTick ==
  /\ ticking /\ \A s \in Semaphore : ~Due(s)
  /\ ticking' = FALSE
  /\ UNCHANGED <<sems, free, reused, timer>>

SNext ==
  \/ \E t \in Thread : SemaphoreOperation(t) \/ SetTime(t)
  \/ AllocateSemaphore \/ ReleaseSemaphore \/ MandatoryExit
  \/ Advance \/ StartTick \/ Fire \/ EndTick

SSpec == SInit /\ [][SNext]_sVars

(* Time passes, timer interrupts come and their loop goes on.              *)
Fairness == WF_sVars(Advance) /\ WF_sVars(StartTick) /\ WF_sVars(Fire) /\ WF_sVars(EndTick)
SFairSpec == SSpec /\ Fairness

-----------------------------------------------------------------------------
STypeOK ==
  /\ sems \in SemaphoreState
  /\ free \in SUBSET (Semaphore \ Entity)
  /\ reused \in SUBSET (Semaphore \ Entity)
  /\ timer \in [Semaphore -> TimersSetTo(Int) \cup {None}]
  /\ ticking \in BOOLEAN

(* p_sem.c, v_sem.c: a semaphore that is below zero by n has n sleepers in *)
(* its ring, and one that is not has none, after any sequence of P, V,     *)
(* resets, timers and mandatory exits; only semaphores reused while asleep *)
(* upon are excepted.                                                      *)
ValueCountsSleepers ==
  \A s \in Semaphore \ reused :
    Len(sems.ring[s]) = IF sems.value[s] < 0 THEN -sems.value[s] ELSE 0

(* p_sem.c, v_sem.c: the rings hold each sleeping thread once, in the ring *)
(* of the semaphore it sleeps on, and no thread that is awake.  A sleeper  *)
(* no V can find is one of a semaphore that was reused.                    *)
SleepersAreQueued ==
  /\ \A s \in Semaphore : \A i, j \in 1..Len(sems.ring[s]) :
       /\ sems.sleep[sems.ring[s][i]] = s
       /\ i # j => sems.ring[s][i] # sems.ring[s][j]
  /\ \A t \in Thread :
       ~Awake(sems, t) => sems.sleep[t] \in reused \/ t \in Ring(sems, sems.sleep[t])

(* v_sem.c: sleepers are woken in the order they came, and a thread that is*)
(* behind another stays behind it; only v_thread on somebody in the middle *)
(* puts those who were ahead of it behind the others.                      *)
Before(Q, s, t, u) ==
  \E i, j \in 1..Len(Q.ring[s]) : i < j /\ Q.ring[s][i] = t /\ Q.ring[s][j] = u
Jumped(s) ==
  /\ Len(sems.ring[s]) > 1 /\ sems'.ring[s] # <<>>
  /\ \E i \in 2..Len(sems.ring[s]) :
       /\ Awake(sems', sems.ring[s][i])
       /\ \A j \in 1..Len(sems.ring[s]) : j # i => ~Awake(sems', sems.ring[s][j])
WakeOrderKept ==
  [][\A s \in Semaphore \ reused' : \A t \in Ring(sems, s) \cap Ring(sems', s), u \in Thread :
       /\ Before(sems, s, t, u) => Before(sems', s, t, u) \/ Jumped(s)
       /\ u \in Ring(sems', s) \ Ring(sems, s) => Before(sems', s, t, u)]_sVars

(* set_time.c, semaphore_action.c: a thread asleep on a semaphore with a   *)
(* timer that makes V(-1) wakes up, if timers are not set again and again. *)
ArmedForV(s) == Armed(s) /\ "v" \in timer[s].action
TimedWaitEnds ==
  <>[][\A t \in Thread : ~SetTime(t)]_sVars =>
    \A t \in Thread, s \in Semaphore :
      (t \in Ring(sems, s) /\ ArmedForV(s)) ~> (t \notin Ring(sems, s) \/ ~ArmedForV(s))
=============================================================================

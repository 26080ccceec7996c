------------------------------ MODULE SpinLock ------------------------------
(***************************************************************************)
(* The lock of kernel/lock.c on the counter that operate_spinlock          *)
(* (arch/sys_asm/spin_lock.S) adds to.                                     *)
(*                                                                         *)
(* operate_spinlock exchanges the counter with a reserved value until it   *)
(* gets something else, adds to what it got and exchanges that back, so    *)
(* one call is two steps, Fetch and Store, and between them the counter    *)
(* is in the register of one processor.  lock_os_kernel and lock_os_thread *)
(* are a call with -1 and, unless the old value was positive, a second     *)
(* call with +1 that takes it back; unlocking is a call with +1.  The      *)
(* counter stays within a few units of zero, far from the reserved 2^30    *)
(* (SpinTypeOK).                                                           *)
(***************************************************************************)
EXTENDS Integers, FiniteSets, Processors

CONSTANTS Nobody,  \* no processor
          Busy     \* the reserved value, which is no count

ASSUME SpinLockAssumption ==
  /\ IsFiniteSet(Processor)
  /\ Nobody \notin Processor
  /\ Busy \notin Int

VARIABLES word,  \* the lock in memory: a count, or Busy
          pc,    \* where each processor is
          reg    \* the number each processor's last exchange got

spinVars == <<word, pc, reg>>

-----------------------------------------------------------------------------
(* Where a call goes on once its first exchange has got the number.        *)
Reserving(x) ==
  IF x = "take" THEN "taking" ELSE IF x = "undo" THEN "undoing" ELSE "giving"

(* Faults a change of the code might introduce, one for every property: the*)
(* lock taken at zero as well, or never; the counter not reserved while it *)
(* is added to; a failed attempt not taken back.  Nothing below uses them. *)
TakenAtZero(old)   == old >= 0
TakenAboveOne(old) == old > 1
FetchWithoutReserve(p) ==
  /\ pc[p] \in {"take", "undo", "give"}
  /\ reg' = [reg EXCEPT ![p] = word]
  /\ pc' = [pc EXCEPT ![p] = Reserving(@)]
  /\ word' = word
AfterTakingNoUndo(old) == IF old > 0 THEN "held" ELSE "idle"

-----------------------------------------------------------------------------
SpinInit ==
  /\ word = 1
  /\ pc = [p \in Processor |-> "idle"]
  /\ reg = [p \in Processor |-> 0]

Try(p) ==
  /\ pc[p] = "idle"
  /\ pc' = [pc EXCEPT ![p] = "take"]
  /\ UNCHANGED <<word, reg>>

Unlock(p) ==
  /\ pc[p] = "held"
  /\ pc' = [pc EXCEPT ![p] = "give"]
  /\ UNCHANGED <<word, reg>>

(* The first exchange.  While the counter is reserved it gets the reserved *)
(* value back and changes nothing.                                         *)
Fetch(p) ==
  /\ pc[p] \in {"take", "undo", "give"}
  /\ word # Busy
  /\ reg' = [reg EXCEPT ![p] = word]
  /\ pc' = [pc EXCEPT ![p] = Reserving(@)]
  /\ word' = Busy

Taken(old) == old > 0
AfterTaking(old) == IF Taken(old) THEN "held" ELSE "undo"

(* The second exchange, and the caller's look at the old value.            *)
Store(p) ==
  /\ pc[p] \in {"taking", "undoing", "giving"}
  /\ word' = IF pc[p] = "taking" THEN reg[p] - 1 ELSE reg[p] + 1
  /\ pc' = [pc EXCEPT ![p] = IF @ = "taking" THEN AfterTaking(reg[p]) ELSE "idle"]
  /\ UNCHANGED reg

SpinNext == \E p \in Processor : Try(p) \/ Unlock(p) \/ Fetch(p) \/ Store(p)

(* A processor that has begun a call or holds the lock goes on.  The bus   *)
(* serves every processor's exchanges in turn, so a processor whose        *)
(* exchange could get the number again and again gets it some time.        *)
Fairness ==
  \A p \in Processor :
    WF_spinVars(Unlock(p)) /\ SF_spinVars(Fetch(p)) /\ WF_spinVars(Store(p))

SpinSpec == SpinInit /\ [][SpinNext]_spinVars /\ Fairness

-----------------------------------------------------------------------------
SpinTypeOK ==
  /\ word \in ((1 - Cardinality(Processor))..1) \cup {Busy}
  /\ pc \in [Processor -> {"idle", "take", "taking", "undo", "undoing",
                           "held", "give", "giving"}]
  /\ reg \in [Processor -> (1 - Cardinality(Processor))..1]

Holders  == {p \in Processor : pc[p] \in {"held", "give", "giving"}}
Debtors  == {p \in Processor : pc[p] \in {"held", "give", "giving", "undo", "undoing"}}
Storing  == {p \in Processor : pc[p] \in {"taking", "undoing", "giving"}}

(* lock.c: the lock is granted to one processor at a time, however the     *)
(* exchanges of attempts, withdrawals and releases interleave.             *)
MutualExclusion == \A p, q \in Holders : p = q

(* Withdrawn attempts leave no trace: with nobody under way the counter is *)
(* one, or zero while the lock is held, so a lock never wears out.         *)
NoLostUnit ==
  (\A p \in Processor : pc[p] \in {"idle", "held"}) => word = 1 - Cardinality(Holders)

(* Failed attempts do not make the lock fail for good: once the others     *)
(* leave it alone, a processor that keeps trying gets it every so often.   *)
(* (Two that keep trying may make each other fail for ever.)               *)
SoleRetryAcquires ==
  \A p \in Processor :
    <>[](\A q \in Processor \ {p} : pc[q] = "idle")
      => ([]<>(pc[p] = "take") => []<>(pc[p] = "held"))

(* The processor that holds the lock is its owner until its unlocking has  *)
(* stored the counter.                                                     *)
OwnerOf == IF Holders = {} THEN Nobody ELSE CHOOSE p \in Processor : p \in Holders
Lock == INSTANCE TryLock WITH owner <- OwnerOf, None <- Nobody
ImplementsTryLock == Lock!Spec
=============================================================================

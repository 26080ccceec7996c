------------------------------ MODULE TryLock ------------------------------
(***************************************************************************)
(* What kernel/lock.c promises to its callers: lock_os_kernel and          *)
(* lock_os_thread return TRUE to one processor at a time.  They may return *)
(* FALSE at any time, and then have changed nothing.                       *)
(***************************************************************************)
CONSTANTS Processor, None

VARIABLE owner

Init == owner = None

Acquire(p) == owner = None /\ owner' = p
Release(p) == owner = p /\ owner' = None

Next == \E p \in Processor : Acquire(p) \/ Release(p)
Spec == Init /\ [][Next]_owner
=============================================================================

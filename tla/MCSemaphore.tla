---- MODULE MCSemaphore ----
(***************************************************************************)
(* Semaphore with one semaphore that belongs to the return stack of thread *)
(* t1 and one that is allocated and released.                              *)
(***************************************************************************)
EXTENDS Semaphore, TLC

CONSTANTS t1, t2, t3, stack, user

MCStackOwner == [s \in {stack} |-> t1]
MCSteps      == {2, -1}
MCActions    == {{"v"}, {"stack"}}
MCOthers     == Permutations({t2, t3})
====

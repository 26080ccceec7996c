---- MODULE MCSchedulerHeap ----
(***************************************************************************)
(* SchedulerHeap on a small instance.  Threads other than the one          *)
(* running at boot are interchangeable.                                    *)
(***************************************************************************)
EXTENDS SchedulerHeap, TLC

ThreadSymmetry == Permutations(Thread \ {BootThread})
====

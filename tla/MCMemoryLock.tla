---- MODULE MCMemoryLock ----
(***************************************************************************)
(* MemoryLock with three threads.                                          *)
(***************************************************************************)
EXTENDS MemoryLock, TLC

CONSTANTS t1, t2, t3, s1, s2, s3

MCOwn == (t1 :> s1) @@ (t2 :> s2) @@ (t3 :> s3)
====

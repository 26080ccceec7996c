---- MODULE MCProcessor ----
(***************************************************************************)
(* Processor with several processors, which are interchangeable, as are the*)
(* threads other than the one running at boot.                             *)
(***************************************************************************)
EXTENDS Processor, TLC

Interchangeable ==
  Permutations(Processor) \cup Permutations(Thread \ {BootThread})
====

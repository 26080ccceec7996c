----------------------------- MODULE Processors -----------------------------
(***************************************************************************)
(* The processors the system runs on, which all run the kernel.            *)
(***************************************************************************)
CONSTANT Processor
=============================================================================

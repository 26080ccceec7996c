------------------------------- MODULE Threads -------------------------------
(***************************************************************************)
(* What every module of the kernel is about.                               *)
(***************************************************************************)
CONSTANTS Thread,  \* thread ids
          None     \* the id (-1), which is nobody's
=============================================================================

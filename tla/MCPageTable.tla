------------------------------ MODULE MCPageTable ------------------------------
(***************************************************************************)
(* PageTable with a window of two parts and one of one, a thread with both *)
(* and one that has the larger one twice.                                  *)
(***************************************************************************)
EXTENDS PageTable, TLC

CONSTANTS w1, w2, k1, k2

MCLength == (w1 :> 2) @@ (w2 :> 1)
In(w, k) == [w |-> w, key |-> k]
Thread(f1, f2, recent) == [files |-> (1 :> f1) @@ (2 :> f2), recent |-> recent]
MCThreads ==
  {Thread(None, None, <<>>),
   Thread(In(w1, k1), In(w2, k2), <<<<1, 0>>, <<2, 0>>>>),
   Thread(In(w1, k1), In(w1, k1), <<<<1, 1>>, <<2, 1>>>>)}
Symmetric == Permutations(Block) \cup Permutations(Frame)
=============================================================================

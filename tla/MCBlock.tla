-------------------------------- MODULE MCBlock --------------------------------
(***************************************************************************)
(* Block with a window of two pages that its file system takes from one    *)
(* page of another window, which is in another domain.                     *)
(***************************************************************************)
EXTENDS Block, TLC

CONSTANTS t1, t2, p1, p2, p3, w1, w2, d1, d2,
          MaxBlocks, WriteAt, FreeAt

MCWindowOf  == (p1 :> w1) @@ (p2 :> w1) @@ (p3 :> w2)
MCPreferred == (p1 :> 1) @@ (p3 :> 2) @@ (p2 :> 3)
MCDomainOf  == (w1 :> d1) @@ (w2 :> d2)
MCAnswers   == (p1 :> {p3}) @@ (p2 :> {p3}) @@ (p3 :> {})
MCUpdateOf  == (p1 :> p3) @@ (p2 :> p3) @@ (p3 :> None)
MCLimit     == [d \in Domain |-> [max |-> MaxBlocks, write |-> WriteAt, free |-> FreeAt,
                                  systemWrite |-> 0, systemFree |-> 0]]
MCCalls ==
  {MapCall(p1, FALSE), MapCall(p2, TRUE), FlushCall(w1, Mode(FALSE, TRUE, TRUE), TRUE),
   SweepCall(d1, Mode(TRUE, FALSE, FALSE)), CloseCall(w1, FALSE, FALSE),
   ControlOpened(w2)}

Symmetric == Permutations(Thread)
=============================================================================

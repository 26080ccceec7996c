---- MODULE MCNameTree ----
(***************************************************************************)
(* NameTree with one short and one long part, and paths with an empty part *)
(* at the beginning, in the middle and at the end.                         *)
(***************************************************************************)
EXTENDS NameTree, TLC

CONSTANTS a, b

MCLength == a :> 1 @@ b :> 2
MCPath == {End, <<a>>, <<b>>, <<a, a>>, <<a, b>>, <<a, b, a>>,
           <<a, Empty>>, <<Empty, a>>, <<a, Empty, b>>}
====

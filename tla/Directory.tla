----------------------------- MODULE Directory -----------------------------
(***************************************************************************)
(* What a request to the name service (dns/) does to the names there are,  *)
(* without the tree that keeps them: a directory d maps paths to files and *)
(* to the capability that must be shown to add below a path, to change it  *)
(* or to remove it.  The system's capability opens everything.             *)
(***************************************************************************)
EXTENDS Naturals, Sequences

CONSTANTS Empty,    \* the empty part of a path
          System    \* the capability of the system

Accepts(held, given) == given \in {held, System}

Under(q, p) == Len(p) <= Len(q) /\ SubSeq(q, 1, Len(p)) = p
Above(path) == SubSeq(path, 1, Len(path) - 1)

(* A separator at the end of a path changes nothing.                       *)
EndsEmpty(path) == path # <<>> /\ path[Len(path)] = Empty
NameFor(path)   == IF EndsEmpty(path) THEN Above(path) ELSE path

(* A path whose one separator comes first is a name no search will find.   *)
IsHidden(path) == Len(path) = 2 /\ path[1] = Empty

(* The name gets a capability, and when it is new a file.  The empty path, *)
(* which is the root, gets both, from the system only.  An empty part above*)
(* the last one is passed over, though no search for that path would.      *)
Added(d, path, given, f, m) ==
  LET above == NameFor(Above(path))
      p     == IF EndsEmpty(path) THEN above ELSE Append(above, path[Len(path)])
  IN  IF path = <<Empty>>
      THEN IF given = System THEN [d EXCEPT ![p] = [file |-> f, modify |-> m]] ELSE d
      ELSE IF \/ IsHidden(path)
              \/ above \notin DOMAIN d
              \/ ~Accepts(d[above].modify, given)
      THEN d
      ELSE [q \in DOMAIN d \cup {p} |->
              IF q # p THEN d[q]
              ELSE [file |-> IF p \in DOMAIN d THEN d[p].file ELSE f, modify |-> m]]

(* The name goes, with all below it if that is wanted; the root never.     *)
Removed(d, path, with_children, given) ==
  LET p     == NameFor(path)
      below == {q \in DOMAIN d : Under(q, p)} \ {p}
      gone  == (below \cup {p}) \ {<<>>}
  IN  IF p \in DOMAIN d /\ Accepts(d[p].modify, given) /\ (with_children \/ below = {})
      THEN [q \in DOMAIN d \ gone |-> d[q]]
      ELSE d

(* How far a path leads, and what is left of it.                           *)
Resolved(d, path) ==
  LET k == CHOOSE k \in 0..Len(path) :
             /\ SubSeq(path, 1, k) \in DOMAIN d
             /\ \A j \in (k + 1)..Len(path) : SubSeq(path, 1, j) \notin DOMAIN d
  IN  [name |-> SubSeq(path, 1, k),
       rest |-> IF k = Len(path) THEN <<Empty>> ELSE SubSeq(path, k + 1, Len(path))]
=============================================================================

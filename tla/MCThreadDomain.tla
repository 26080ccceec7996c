---- MODULE MCThreadDomain ----
(***************************************************************************)
(* ThreadDomain with two threads, two domains and three stacks; the first  *)
(* domain may become another.                                              *)
(***************************************************************************)
EXTENDS ThreadDomain, TLC

CONSTANTS d1, d2, s1, s2, s3, t1, t2, i1, i2, j1

MCMaxThread == [d \in {d1, d2} |-> 1]
MCIncarnation == [d \in {d1, d2} |-> IF d = d1 THEN {i1, i2} ELSE {j1}]
MCMaxStack  == [d \in {d1, d2} |-> IF d = d1 THEN 2 ELSE 1]

(* Threads, stacks but the first, and the values of a domain_id are alike. *)
Alike == Permutations({s2, s3}) \cup Permutations({i1, i2})
         \cup Permutations({t1, t2})
====

--------------------------- MODULE NameTree_proofs ---------------------------
(***************************************************************************)
(* Proofs about NameTree for any paths, any capabilities and any number of *)
(* nodes and pieces.                                                       *)
(*                                                                         *)
(* The model follows links and goes down the tree with recursive functions.*)
(* Three lemmas deal with all of them: induction up to a bound, stated for *)
(* sets; that a function defined by recursion up to a bound exists; and    *)
(* that Chain is the least set that has the first node and is closed.      *)
(*                                                                         *)
(* The invariant speaks of closed sets of nodes, never of the order of a   *)
(* ring: a ring is a set no part of which is closed, the free list a set   *)
(* no part of which with the first free node is closed, and the tree a set *)
(* every closed part of which has the root.  What an insertion or a removal*)
(* does to such a set is one case distinction.                             *)
(***************************************************************************)
EXTENDS NameTree, FiniteSetTheorems, WellFoundedInduction, TLAPS

-----------------------------------------------------------------------------
(* Recursion up to a bound.                                                *)

LEMMA SetInduction ==
  ASSUME NEW S, 0 \in S, \A n \in Nat : n \in S => n + 1 \in S
  PROVE  \A n \in Nat : n \in S
  <1> DEFINE Smaller == {ss \in Nat \X Nat : ss[1] < ss[2]}
             Missing == {n \in Nat : n \notin S}
  <1>1. IsWellFoundedOn(Smaller, Nat)
    BY NatLessThanWellFounded DEF OpToRel
  <1> HIDE DEF Smaller
  <1>2. CASE Missing # {}
    <2>1. PICK x \in Missing : \A y \in Missing : <<y, x>> \notin Smaller
      BY <1>1, <1>2, WFMin
    <2>2. x \in Nat /\ x # 0 /\ x \notin S
      BY <2>1
    <2>3. x - 1 \in Nat /\ (x - 1) + 1 = x
      BY <2>2
    <2>4. x - 1 \in Missing
      BY <2>2, <2>3
    <2>5. <<x - 1, x>> \in Smaller
      BY <2>2, <2>3 DEF Smaller
    <2> QED
      BY <2>1, <2>4, <2>5
  <1> QED
    BY <1>2

LEMMA BoundedInduction ==
  ASSUME NEW m \in Nat, NEW S, 0 \in S, \A k \in 1..m : k - 1 \in S => k \in S
  PROVE  \A k \in 0..m : k \in S
  <1> DEFINE W == {n \in Nat : n <= m => n \in S}
  <1>1. 0 \in W
    OBVIOUS
  <1>2. \A n \in Nat : n \in W => n + 1 \in W
    <2> SUFFICES ASSUME NEW n \in Nat, n \in W, n + 1 <= m
                 PROVE  n + 1 \in S
      OBVIOUS
    <2>1. n \in S /\ n + 1 \in 1..m /\ (n + 1) - 1 = n
      OBVIOUS
    <2> QED
      BY <2>1
  <1> HIDE DEF W
  <1>3. \A n \in Nat : n \in W
    BY <1>1, <1>2, SetInduction
  <1> QED
    BY <1>3 DEF W

(* g starts with a and goes on as D says.                                  *)
Follows(g, m, a, D) == g = [k \in 0..m |-> IF k = 0 THEN a ELSE D[<<k, g[k - 1]>>]]
StaysIn(D, m, U) == \A k \in 1..m, u \in U : D[<<k, u>>] \in U

LEMMA RecursionExists ==
  ASSUME NEW m \in Nat, NEW U, NEW a \in U, NEW D,
         StaysIn(D, m, U)
  PROVE  \E g \in [0..m -> U] : Follows(g, m, a, D)
  <1> DEFINE W == {n \in 0..m : \E g \in [0..n -> U] : Follows(g, n, a, D)}
  <1>1. 0 \in W
    <2> DEFINE g == [k \in 0..0 |-> a]
    <2>1. g \in [0..0 -> U]
      OBVIOUS
    <2>2. Follows(g, 0, a, D)
      BY DEF Follows
    <2> HIDE DEF g
    <2> QED
      BY <2>1, <2>2
  <1>2. ASSUME NEW n \in 1..m, n - 1 \in W
        PROVE  n \in W
    <2>1. PICK h \in [0..(n - 1) -> U] : Follows(h, n - 1, a, D)
      BY <1>2
    <2>2. n - 1 \in Nat /\ n \in Nat /\ n - 1 \in 0..(n - 1) /\ n \notin 0..(n - 1)
      OBVIOUS
    <2>3. D[<<n, h[n - 1]>>] \in U
      BY <2>2 DEF StaysIn
    <2> DEFINE last == D[<<n, h[n - 1]>>]
               g == [k \in 0..n |-> IF k = n THEN last ELSE h[k]]
    <2> HIDE DEF last
    <2>4. g \in [0..n -> U]
      BY <2>2, <2>3 DEF last
    <2>5. ASSUME NEW k \in 0..n
          PROVE  g[k] = IF k = 0 THEN a ELSE D[<<k, g[k - 1]>>]
      <3>1. CASE k = n
        <4>1. g[k - 1] = h[n - 1] /\ g[k] = last /\ k # 0
          BY <3>1, <2>2
        <4> QED
          BY <4>1, <3>1 DEF last
      <3>2. CASE k # n
        <4>1. k \in 0..(n - 1) /\ g[k] = h[k]
          BY <3>2
        <4>2. h[k] = IF k = 0 THEN a ELSE D[<<k, h[k - 1]>>]
          BY <4>1, <2>1 DEF Follows
        <4>3. k # 0 => k - 1 \in 0..n /\ k - 1 # n /\ g[k - 1] = h[k - 1]
          BY <4>1
        <4> QED
          BY <4>1, <4>2, <4>3
      <3> QED
        BY <3>1, <3>2
    <2>6. DOMAIN g = 0..n
      OBVIOUS
    <2> HIDE DEF g
    <2>7. Follows(g, n, a, D)
      BY <2>4, <2>5, <2>6 DEF Follows
    <2> QED
      BY <2>4, <2>7
  <1> HIDE DEF W
  <1>3. \A k \in 0..m : k \in W
    BY <1>1, <1>2, BoundedInduction
  <1>4. m \in W
    BY <1>3
  <1> QED
    BY <1>4 DEF W
(* What a function so defined is: it takes values in U.                    *)
Steps(g, m, U, a, D) ==
  /\ g \in [0..m -> U]
  /\ g[0] = a
  /\ \A k \in 1..m : k - 1 \in 0..m /\ g[k] = D[<<k, g[k - 1]>>]

LEMMA RecursionIs ==
  ASSUME NEW m \in Nat, NEW U, NEW a \in U, NEW D, NEW g,
         StaysIn(D, m, U), Follows(g, m, a, D)
  PROVE  Steps(g, m, U, a, D)
  <1>1. g[0] = a /\ DOMAIN g = 0..m
    BY DEF Follows
  <1>2. \A k \in 1..m : k - 1 \in 0..m /\ g[k] = D[<<k, g[k - 1]>>]
    BY DEF Follows
  <1> DEFINE W == {k \in 0..m : g[k] \in U}
  <1>3. 0 \in W
    BY <1>1
  <1>4. ASSUME NEW k \in 1..m, k - 1 \in W
        PROVE  k \in W
    <2>1. g[k - 1] \in U
      BY <1>4
    <2>2. g[k] \in U
      BY <1>2, <2>1 DEF StaysIn
    <2> QED
      BY <2>2
  <1> HIDE DEF W
  <1>5. \A k \in 0..m : k \in W
    BY <1>3, <1>4, BoundedInduction
  <1>6. \A k \in 0..m : g[k] \in U
    BY <1>5 DEF W
  <1>7. g = [k \in 0..m |-> g[k]]
    BY DEF Follows
  <1> QED
    BY <1>1, <1>2, <1>6, <1>7 DEF Steps

-----------------------------------------------------------------------------
(* Chain is the least closed set with the first node.                      *)

Closed(link, R) == \A x \in R : link[x] \in R \cup {None}
Next1(link, R) == R \cup ({link[x] : x \in R} \ {None})

LEMMA NodeFinite ==
  /\ IsFiniteSet(Node) /\ Cardinality(Node) = MaxNode + 1
  /\ Root \in Node /\ None \notin Node /\ MaxNode \in Nat \ {0} /\ MaxNode \in Node
  <1>1. MaxNode \in Nat \ {0}
    BY NameTreeAssumption
  <1>2. IsFiniteSet(0..MaxNode) /\ Cardinality(0..MaxNode) = MaxNode + 1
    BY <1>1, FS_Interval
  <1> QED
    BY <1>1, <1>2 DEF Node, Root, None

LEMMA ChainIs ==
  ASSUME NEW link \in [Node -> Ids], NEW n \in Ids
  PROVE  \E w : /\ w \in [0..MaxNode -> SUBSET Node]
                /\ w[0] = {n} \ {None}
                /\ \A k \in 1..MaxNode : k - 1 \in 0..MaxNode /\ w[k] = Next1(link, w[k - 1])
                /\ Chain(link, n) = w[MaxNode]
  <1> DEFINE first == {n} \ {None}
             D == [kx \in (1..MaxNode) \X SUBSET Node |-> Next1(link, kx[2])]
             Rec(w) == w = [k \in 0..MaxNode |->
                              IF k = 0 THEN {n} \ {None}
                              ELSE w[k - 1] \cup ({link[x] : x \in w[k - 1]} \ {None})]
             W == CHOOSE w : Rec(w)
  <1>0. MaxNode \in Nat
    BY NodeFinite
  <1>1. first \in SUBSET Node
    BY DEF Ids
  <1>2. ASSUME NEW k \in 1..MaxNode, NEW x \in SUBSET Node
        PROVE  D[<<k, x>>] = Next1(link, x) /\ Next1(link, x) \in SUBSET Node
    BY DEF Next1, Ids
  <1>3. Chain(link, n) = W[MaxNode]
    BY DEF Chain
  <1> HIDE DEF D
  <1>4. StaysIn(D, MaxNode, SUBSET Node)
    BY <1>2 DEF StaysIn
  <1>5. PICK g \in [0..MaxNode -> SUBSET Node] : Follows(g, MaxNode, first, D)
    <2> HIDE DEF first
    <2> QED
      BY <1>0, <1>1, <1>4, RecursionExists
  <1>6. Rec(g)
    <2>1. g = [k \in 0..MaxNode |-> IF k = 0 THEN first ELSE D[<<k, g[k - 1]>>]]
      BY <1>5 DEF Follows
    <2>2. ASSUME NEW k \in 0..MaxNode, k # 0
          PROVE  D[<<k, g[k - 1]>>] = Next1(link, g[k - 1])
      <3>1. k \in 1..MaxNode /\ k - 1 \in 0..MaxNode
        BY <1>0, <2>2
      <3> QED
        BY <3>1, <1>2
    <2> QED
      BY <2>1, <2>2 DEF Next1
  <1>7. Rec(W)
    BY <1>6
  <1> HIDE DEF W
  <1>8. Follows(W, MaxNode, first, D)
    <2>1. \A k \in 0..MaxNode : W[k] = IF k = 0 THEN first ELSE Next1(link, W[k - 1])
      BY <1>7 DEF Next1
    <2>2. W[0] \in SUBSET Node
      BY <2>1, <1>0, <1>1
    <2> DEFINE Z == {k \in 0..MaxNode : W[k] \in SUBSET Node}
    <2>3. ASSUME NEW k \in 1..MaxNode, k - 1 \in Z
          PROVE  k \in Z
      <3>1. W[k - 1] \in SUBSET Node
        BY <2>3
      <3>2. k \in 0..MaxNode /\ k # 0
        BY <1>0
      <3>3. W[k] = Next1(link, W[k - 1])
        BY <2>1, <3>2
      <3> QED
        BY <3>1, <3>2, <3>3, <1>2
    <2>4. 0 \in Z
      BY <2>2, <1>0
    <2> HIDE DEF Z
    <2>5. \A k \in 0..MaxNode : k \in Z
      BY <2>3, <2>4, <1>0, BoundedInduction
    <2>7. ASSUME NEW k \in 0..MaxNode
          PROVE  W[k] = IF k = 0 THEN first ELSE D[<<k, W[k - 1]>>]
      <3>1. CASE k = 0
        BY <3>1, <2>1
      <3>2. CASE k # 0
        <4>1. k \in 1..MaxNode /\ k - 1 \in 0..MaxNode
          BY <1>0, <3>2
        <4>2. W[k - 1] \in SUBSET Node
          BY <2>5, <4>1 DEF Z
        <4> QED
          BY <4>1, <4>2, <3>2, <1>2, <2>1
      <3> QED
        BY <3>1, <3>2
    <2>8. W = [k \in 0..MaxNode |-> W[k]]
      BY <1>7
    <2> QED
      BY <2>7, <2>8 DEF Follows
  <1>9. Steps(W, MaxNode, SUBSET Node, first, D)
    BY <1>0, <1>1, <1>4, <1>8, RecursionIs
  <1>10. ASSUME NEW k \in 1..MaxNode
         PROVE  k - 1 \in 0..MaxNode /\ W[k] = Next1(link, W[k - 1])
    <2>1. k - 1 \in 0..MaxNode /\ W[k - 1] \in SUBSET Node
      BY <1>9 DEF Steps
    <2> QED
      BY <2>1, <1>9, <1>2 DEF Steps
  <1>11. W[0] = {n} \ {None} /\ W \in [0..MaxNode -> SUBSET Node]
    BY <1>9 DEF Steps
  <1> QED
    BY <1>3, <1>10, <1>11
LEMMA ChainInNodes ==
  ASSUME NEW link \in [Node -> Ids], NEW n \in Ids
  PROVE  Chain(link, n) \subseteq Node
  <1>1. PICK w : /\ w \in [0..MaxNode -> SUBSET Node]
                 /\ Chain(link, n) = w[MaxNode]
    BY ChainIs
  <1> QED
    BY <1>1, NodeFinite

LEMMA ChainLeast ==
  ASSUME NEW link \in [Node -> Ids], NEW n \in Ids, NEW R,
         n \in R \cup {None}, Closed(link, R)
  PROVE  Chain(link, n) \subseteq R
  <1>1. PICK w : /\ w \in [0..MaxNode -> SUBSET Node]
                 /\ w[0] = {n} \ {None}
                 /\ \A k \in 1..MaxNode : k - 1 \in 0..MaxNode /\ w[k] = Next1(link, w[k - 1])
                 /\ Chain(link, n) = w[MaxNode]
    BY ChainIs
  <1> DEFINE W == {k \in 0..MaxNode : w[k] \subseteq R}
  <1>2. 0 \in W
    BY <1>1, NodeFinite
  <1>3. ASSUME NEW k \in 1..MaxNode, k - 1 \in W
        PROVE  k \in W
    <2>1. w[k - 1] \subseteq R /\ k \in 0..MaxNode
      BY <1>3
    <2>2. w[k] = Next1(link, w[k - 1])
      BY <1>1
    <2>3. w[k] \subseteq R
      BY <2>1, <2>2 DEF Next1, Closed
    <2> QED
      BY <2>1, <2>3
  <1> HIDE DEF W
  <1>4. \A k \in 0..MaxNode : k \in W
    BY <1>2, <1>3, NodeFinite, BoundedInduction
  <1> QED
    BY <1>1, <1>4, NodeFinite DEF W

(* Every step that finds something new makes the set larger, so MaxNode    *)
(* steps are enough.                                                       *)
LEMMA ChainGrows ==
  ASSUME NEW link \in [Node -> Ids], NEW R \in SUBSET Node, NEW k \in Nat,
         Cardinality(R) >= k
  PROVE  Closed(link, R) \/ Cardinality(Next1(link, R)) >= k + 1
  <1>1. Next1(link, R) \in SUBSET Node /\ R \subseteq Next1(link, R)
    BY DEF Next1, Ids
  <1>2. IsFiniteSet(R) /\ IsFiniteSet(Next1(link, R))
    BY <1>1, NodeFinite, FS_Subset
  <1>3. Cardinality(R) \in Nat /\ Cardinality(Next1(link, R)) \in Nat
    BY <1>2, FS_CardinalityType
  <1>4. CASE Next1(link, R) = R
    BY <1>4 DEF Next1, Closed
  <1>5. CASE Next1(link, R) # R
    <2>1. /\ Cardinality(R) <= Cardinality(Next1(link, R))
          /\ Cardinality(Next1(link, R)) # Cardinality(R)
      BY <1>1, <1>2, <1>5, FS_Subset
    <2> QED
      BY <2>1, <1>3
  <1> QED
    BY <1>4, <1>5

LEMMA ChainClosed ==
  ASSUME NEW link \in [Node -> Ids], NEW n \in Ids
  PROVE  /\ Closed(link, Chain(link, n))
         /\ n # None => n \in Chain(link, n)
  <1>1. PICK w : /\ w \in [0..MaxNode -> SUBSET Node]
                 /\ w[0] = {n} \ {None}
                 /\ \A k \in 1..MaxNode : k - 1 \in 0..MaxNode /\ w[k] = Next1(link, w[k - 1])
                 /\ Chain(link, n) = w[MaxNode]
    BY ChainIs
  <1> DEFINE W == {k \in 0..MaxNode : /\ Closed(link, w[k]) \/ Cardinality(w[k]) >= k + 1
                                      /\ n # None => n \in w[k]}
  <1>2. 0 \in W
    <2>1. CASE n = None
      <3>1. w[0] = {}
        BY <1>1, <2>1
      <3> QED
        BY <3>1, <2>1, NodeFinite DEF Closed
    <2>2. CASE n # None
      <3>1. w[0] = {n}
        BY <1>1, <2>2
      <3>2. Cardinality({n}) = 1
        BY FS_Singleton
      <3> QED
        BY <3>1, <3>2, NodeFinite
    <2> QED
      BY <2>1, <2>2
  <1>3. ASSUME NEW k \in 1..MaxNode, k - 1 \in W
        PROVE  k \in W
    <2>1. /\ k \in 0..MaxNode /\ k \in Nat /\ (k - 1) + 1 = k
          /\ w[k - 1] \in SUBSET Node /\ w[k] = Next1(link, w[k - 1])
      BY <1>1, NodeFinite
    <2>2. n # None => n \in w[k]
      BY <1>3, <2>1 DEF Next1
    <2>3. CASE Closed(link, w[k - 1])
      <3>1. w[k] = w[k - 1]
        BY <2>1, <2>3 DEF Closed, Next1
      <3> QED
        BY <3>1, <2>1, <2>2, <2>3
    <2>4. CASE Cardinality(w[k - 1]) >= k
      <3>1. Closed(link, w[k - 1]) \/ Cardinality(w[k]) >= k + 1
        BY <2>1, <2>4, ChainGrows
      <3> QED
        BY <3>1, <2>1, <2>2, <2>3
    <2> QED
      BY <1>3, <2>1, <2>3, <2>4
  <1> HIDE DEF W
  <1>4. \A k \in 0..MaxNode : k \in W
    BY <1>2, <1>3, NodeFinite, BoundedInduction
  <1>5. MaxNode \in W /\ MaxNode \in 0..MaxNode
    BY <1>4, NodeFinite
  <1>6. n # None => n \in Chain(link, n)
    BY <1>1, <1>5 DEF W
  <1>7. CASE Closed(link, w[MaxNode])
    BY <1>1, <1>6, <1>7
  <1>8. CASE Cardinality(w[MaxNode]) >= MaxNode + 1
    <2>1. w[MaxNode] \subseteq Node
      BY <1>1, <1>5
    <2>2. IsFiniteSet(w[MaxNode]) /\ Cardinality(w[MaxNode]) <= MaxNode + 1
      BY <2>1, NodeFinite, FS_Subset
    <2>3. Cardinality(w[MaxNode]) \in Nat
      BY <2>2, FS_CardinalityType
    <2>4. Cardinality(w[MaxNode]) = Cardinality(Node)
      BY <1>8, <2>2, <2>3, NodeFinite
    <2>5. w[MaxNode] = Node
      BY <2>1, <2>4, NodeFinite, FS_Subset
    <2>6. Closed(link, Node)
      BY DEF Closed, Ids
    <2> QED
      BY <1>1, <1>6, <2>5, <2>6
  <1> QED
    BY <1>5, <1>7, <1>8 DEF W
-----------------------------------------------------------------------------
(* The invariant of a tree.                                                *)

Part  == Component \cup {Empty}
Names == Seq(Part) \ {<<>>}
Capabilities == Capability \cup {Zero}

TreeState ==
  [free_tree_node : Ids, free_name_element : Int,
   name : [Node -> Seq(Part)], parent : [Node -> Ids],
   left_brother : [Node -> Ids], right_brother : [Node -> Ids],
   first_child : [Node -> Ids], child_number : [Node -> Int],
   file : [Node -> Capabilities], modify : [Node -> Capabilities]]

LiveIn(st)  == {n \in Node : n = Root \/ st.parent[n] # None}
FreeIn(st)  == Node \ LiveIn(st)
Kids(st, n) == {c \in Node : st.parent[c] = n}

(* A list that begins with head: nothing is linked to its first node, no   *)
(* two of its nodes to the same, and every closed part with the first node *)
(* is all of it.                                                           *)
IsList(link, head, R) ==
  /\ head \in R \cup {None} /\ (head = None => R = {})
  /\ Closed(link, R)
  /\ \A x \in R : link[x] # head
  /\ \A x, y \in R : link[x] = link[y] /\ link[x] # None => x = y
  /\ \A Q \in SUBSET R : head \in Q /\ Closed(link, Q) => Q = R

(* A ring, seen from either side.                                          *)
IsRing(right, left, R) ==
  /\ \A x \in R : right[x] \in R /\ left[x] \in R /\ left[right[x]] = x /\ right[left[x]] = x
  /\ \A Q \in SUBSET R : Q # {} /\ (\A x \in Q : right[x] \in Q) => Q = R

FamilyOK(st, n) ==
  /\ st.first_child[n] \in Kids(st, n) \cup {None}
  /\ st.first_child[n] = None => Kids(st, n) = {}
  /\ IsRing(st.right_brother, st.left_brother, Kids(st, n))
  /\ st.child_number[n] = Cardinality(Kids(st, n))
Distinct(st, n) ==
  \A c, d \in Kids(st, n) : c # d /\ st.name[c] = st.name[d] => Len(st.name[c]) > 1

(* Parents are in the tree, and every part of it without the root has a    *)
(* node whose parent is elsewhere.                                         *)
Rooted(st) ==
  /\ st.parent[Root] = None
  /\ \A n \in LiveIn(st) \ {Root} : st.parent[n] \in LiveIn(st)
  /\ \A Q \in SUBSET (LiveIn(st) \ {Root}) : Q # {} => \E x \in Q : st.parent[x] \notin Q
Named(st) == \A n \in LiveIn(st) \ {Root} : st.name[n] \in Names

FreeOK(st) == IsList(st.right_brother, st.free_tree_node, FreeIn(st))
FamiliesOK(st) == \A n \in LiveIn(st) : FamilyOK(st, n)
AllDistinct(st) == \A n \in LiveIn(st) : Distinct(st, n)

TreeInv(st) ==
  /\ st \in TreeState
  /\ FreeOK(st)
  /\ FamiliesOK(st)
  /\ AllDistinct(st)
  /\ Rooted(st)
  /\ Named(st)
LEMMA StateFields ==
  ASSUME NEW st \in TreeState
  PROVE  /\ st.free_tree_node \in Ids /\ st.free_name_element \in Int
         /\ st.name \in [Node -> Seq(Part)] /\ st.parent \in [Node -> Ids]
         /\ st.left_brother \in [Node -> Ids] /\ st.right_brother \in [Node -> Ids]
         /\ st.first_child \in [Node -> Ids] /\ st.child_number \in [Node -> Int]
         /\ st.file \in [Node -> Capabilities] /\ st.modify \in [Node -> Capabilities]
  BY DEF TreeState

Fields ==
  {"free_tree_node", "free_name_element", "name", "parent", "left_brother", "right_brother",
   "first_child", "child_number", "file", "modify"}
IsRecord(st) == st = [x \in Fields |-> st[x]]

LEMMA StateIsRecord ==
  ASSUME NEW st \in TreeState
  PROVE  IsRecord(st)
  BY DEF TreeState, IsRecord, Fields

LEMMA RecordIsState ==
  ASSUME NEW st, IsRecord(st),
         st.free_tree_node \in Ids, st.free_name_element \in Int,
         st.name \in [Node -> Seq(Part)], st.parent \in [Node -> Ids],
         st.left_brother \in [Node -> Ids], st.right_brother \in [Node -> Ids],
         st.first_child \in [Node -> Ids], st.child_number \in [Node -> Int],
         st.file \in [Node -> Capabilities], st.modify \in [Node -> Capabilities]
  PROVE  st \in TreeState
  BY DEF TreeState, IsRecord, Fields

LEMMA LiveFacts ==
  ASSUME NEW st
  PROVE  /\ LiveIn(st) \subseteq Node /\ Root \in LiveIn(st) /\ None \notin LiveIn(st)
         /\ FreeIn(st) \subseteq Node /\ Root \notin FreeIn(st) /\ None \notin FreeIn(st)
         /\ \A x \in FreeIn(st) : st.parent[x] = None
         /\ \A x \in Node : x \in LiveIn(st) \/ x \in FreeIn(st)
         /\ \A n \in Node : \A c \in Kids(st, n) : c \in LiveIn(st) /\ c \in Node
         /\ Ids = Node \cup {None}
  BY NodeFinite DEF LiveIn, FreeIn, Kids, Ids

LEMMA ListChain ==
  ASSUME NEW link \in [Node -> Ids], NEW head, NEW R \in SUBSET Node, IsList(link, head, R)
  PROVE  Chain(link, head) = R
  <1>1. head \in Ids /\ head \in R \cup {None} /\ Closed(link, R)
    BY DEF IsList, Ids
  <1>2. Chain(link, head) \subseteq R
    BY <1>1, ChainLeast
  <1>3. Closed(link, Chain(link, head)) /\ (head # None => head \in Chain(link, head))
    BY <1>1, ChainClosed
  <1>4. CASE head = None
    BY <1>2, <1>4 DEF IsList
  <1>5. CASE head # None
    BY <1>2, <1>3, <1>5 DEF IsList
  <1> QED
    BY <1>4, <1>5

LEMMA RingChain ==
  ASSUME NEW right \in [Node -> Ids], NEW left, NEW R \in SUBSET Node, IsRing(right, left, R),
         NEW head \in R \cup {None}, head = None => R = {}
  PROVE  Chain(right, head) = R
  <1>1. head \in Ids /\ Closed(right, R) /\ None \notin R
    BY NodeFinite DEF IsRing, Ids, Closed
  <1>2. Chain(right, head) \subseteq R
    BY <1>1, ChainLeast
  <1>3. Closed(right, Chain(right, head)) /\ (head # None => head \in Chain(right, head))
    BY <1>1, ChainClosed
  <1>4. CASE head = None
    BY <1>2, <1>4
  <1>5. CASE head # None
    <2>1. \A x \in Chain(right, head) : right[x] \in Chain(right, head)
      BY <1>1, <1>2, <1>3 DEF IsRing, Closed
    <2> QED
      BY <1>2, <1>3, <1>5, <2>1 DEF IsRing
  <1> QED
    BY <1>4, <1>5

LEMMA RootedChain ==
  ASSUME NEW st \in TreeState, Rooted(st), NEW n \in LiveIn(st)
  PROVE  Root \in Chain(st.parent, n)
  <1> DEFINE C == Chain(st.parent, n)
  <1>1. st.parent \in [Node -> Ids] /\ n \in Ids /\ n # None
    BY StateFields, LiveFacts
  <1>2. Closed(st.parent, C) /\ n \in C
    BY <1>1, ChainClosed
  <1>3. C \subseteq LiveIn(st)
    <2>1. Closed(st.parent, LiveIn(st))
      BY DEF Closed, Rooted
    <2> QED
      BY <1>1, <2>1, ChainLeast
  <1> HIDE DEF C
  <1>4. ASSUME Root \notin C
        PROVE  FALSE
    <2>1. C \in SUBSET (LiveIn(st) \ {Root}) /\ C # {}
      BY <1>2, <1>3, <1>4
    <2>2. PICK x \in C : st.parent[x] \notin C
      BY <2>1 DEF Rooted
    <2>3. st.parent[x] \in LiveIn(st) /\ None \notin LiveIn(st)
      BY <2>1, LiveFacts DEF Rooted
    <2> QED
      BY <1>2, <2>2, <2>3 DEF Closed
  <1> QED
    BY <1>4 DEF C

(* The children the search goes through are those with that parent.        *)
LEMMA ChildrenAre ==
  ASSUME NEW st \in TreeState, FamiliesOK(st), NEW n \in LiveIn(st)
  PROVE  Children(st, n) = Kids(st, n)
  <1>1. st.right_brother \in [Node -> Ids] /\ Kids(st, n) \in SUBSET Node
    BY StateFields DEF Kids
  <1>2. FamilyOK(st, n)
    BY DEF FamiliesOK
  <1> QED
    BY <1>1, <1>2, RingChain DEF FamilyOK, Children

(* What the run checks.                                                    *)
LEMMA TreeInvConsistent ==
  ASSUME TreeInv(T)
  PROVE  TreeConsistent
  <1>1. Live = LiveIn(T)
    BY DEF Live, LiveIn
  <1>2. Chain(T.right_brother, T.free_tree_node) = Node \ LiveIn(T)
    <2>1. T.right_brother \in [Node -> Ids] /\ FreeIn(T) \in SUBSET Node
      BY StateFields, LiveFacts DEF TreeInv
    <2>2. IsList(T.right_brother, T.free_tree_node, FreeIn(T))
      BY DEF TreeInv, FreeOK
    <2> QED
      BY <2>1, <2>2, ListChain DEF FreeIn
  <1>3. ASSUME NEW n \in LiveIn(T)
        PROVE  /\ Children(T, n) = {c \in Node : T.parent[c] = n}
               /\ T.child_number[n] = Cardinality(Children(T, n))
               /\ \A c \in Children(T, n) : /\ T.left_brother[T.right_brother[c]] = c
                                            /\ T.right_brother[T.left_brother[c]] = c
               /\ \A c, d \in Children(T, n) :
                    c # d /\ T.name[c] = T.name[d] => Len(T.name[c]) > 1
               /\ Root \in Chain(T.parent, n)
    <2>1. Children(T, n) = Kids(T, n)
      BY ChildrenAre DEF TreeInv
    <2>2. FamilyOK(T, n) /\ Distinct(T, n)
      BY DEF TreeInv, FamiliesOK, AllDistinct
    <2>3. Root \in Chain(T.parent, n)
      BY RootedChain DEF TreeInv
    <2>4. Kids(T, n) = {c \in Node : T.parent[c] = n}
      BY DEF Kids
    <2>5. \A c \in Kids(T, n) : /\ T.left_brother[T.right_brother[c]] = c
                                /\ T.right_brother[T.left_brother[c]] = c
      BY <2>2 DEF FamilyOK, IsRing
    <2>6. T.child_number[n] = Cardinality(Kids(T, n))
      BY <2>2 DEF FamilyOK
    <2>7. \A c, d \in Kids(T, n) : c # d /\ T.name[c] = T.name[d] => Len(T.name[c]) > 1
      BY <2>2 DEF Distinct
    <2> QED
      BY <2>1, <2>3, <2>4, <2>5, <2>6, <2>7
  <1> QED
    BY <1>1, <1>2, <1>3 DEF TreeConsistent
-----------------------------------------------------------------------------
(* The empty tree.                                                         *)
LEMMA InitTree ==
  ASSUME Init
  PROVE  TreeInv(T)
  <1>0. MaxNode \in Nat \ {0} /\ MaxElement \in Nat /\ Node = 0..MaxNode /\ Root = 0 /\ None = -1
        /\ System \in Capability
    BY NameTreeAssumption DEF Node, Root, None
  <1>1. /\ T.free_tree_node = 1 /\ T.free_name_element = MaxElement
        /\ T.name = [n \in Node |-> <<>>] /\ T.parent = [n \in Node |-> None]
        /\ T.right_brother = [n \in Node |-> IF n = Root THEN Root
                                             ELSE IF n = MaxNode THEN None ELSE n + 1]
        /\ T.first_child = [n \in Node |-> None] /\ T.child_number = [n \in Node |-> 0]
    BY DEF Init
  <1>2. T \in TreeState
    <2>1. 1 \in Ids /\ MaxElement \in Int /\ 0 \in Int /\ None \in Ids /\ Root \in Ids
      BY <1>0 DEF Ids
    <2>2. <<>> \in Seq(Part) /\ System \in Capabilities /\ Zero \in Capabilities
      BY <1>0 DEF Capabilities
    <2>3. \A n \in Node : n # MaxNode => n + 1 \in Ids
      BY <1>0 DEF Ids
    <2>4. [n \in Node |-> IF n = Root THEN Root ELSE IF n = MaxNode THEN None ELSE n + 1]
            \in [Node -> Ids]
      BY <2>1, <2>3
    <2>5. [n \in Node |-> IF n = Root THEN Root ELSE None] \in [Node -> Ids]
      BY <2>1
    <2>6. [n \in Node |-> IF n = Root THEN System ELSE Zero] \in [Node -> Capabilities]
          /\ [n \in Node |-> Zero] \in [Node -> Capabilities]
      BY <2>2
    <2>7. /\ [n \in Node |-> <<>>] \in [Node -> Seq(Part)] /\ [n \in Node |-> None] \in [Node -> Ids]
          /\ [n \in Node |-> 0] \in [Node -> Int]
      BY <2>1, <2>2
    <2> QED
      BY <2>1, <2>4, <2>5, <2>6, <2>7 DEF Init, TreeState
  <1>3. LiveIn(T) = {Root} /\ FreeIn(T) = 1..MaxNode /\ \A n \in Node : Kids(T, n) = {}
    BY <1>0, <1>1 DEF LiveIn, FreeIn, Kids
  <1>4. FreeOK(T)
    <2> DEFINE link == T.right_brother
    <2>1. \A x \in 1..MaxNode : link[x] = IF x = MaxNode THEN None ELSE x + 1
      BY <1>0, <1>1
    <2> HIDE DEF link
    <2>2. ASSUME NEW Q \in SUBSET (1..MaxNode), 1 \in Q, Closed(link, Q)
          PROVE  Q = 1..MaxNode
      <3> DEFINE W == {k \in 0..MaxNode : k # 0 => k \in Q}
      <3>1. 0 \in W
        BY <1>0
      <3>2. ASSUME NEW k \in 1..MaxNode, k - 1 \in W
            PROVE  k \in W
        <4>1. CASE k = 1
          BY <4>1, <2>2, <1>0
        <4>2. CASE k # 1
          <5>1. k - 1 \in Q /\ k - 1 # MaxNode /\ (k - 1) + 1 = k /\ k - 1 \in 1..MaxNode
            BY <3>2, <4>2, <1>0
          <5>2. link[k - 1] = k
            BY <5>1, <2>1
          <5>3. k \in Q
            BY <5>1, <5>2, <2>2, <1>0 DEF Closed
          <5> QED
            BY <5>3, <1>0
        <4> QED
          BY <4>1, <4>2
      <3> HIDE DEF W
      <3>3. \A k \in 0..MaxNode : k \in W
        BY <1>0, <3>1, <3>2, BoundedInduction
      <3>4. ASSUME NEW k \in 1..MaxNode
            PROVE  k \in Q
        <4>1. k \in 0..MaxNode /\ k # 0
          BY <1>0
        <4>2. k \in W
          BY <3>3, <4>1
        <4> QED
          BY <4>1, <4>2 DEF W
      <3> QED
        BY <3>4
    <2>3. Closed(link, 1..MaxNode)
      BY <2>1, <1>0 DEF Closed
    <2>4. \A x, y \in 1..MaxNode : link[x] = link[y] /\ link[x] # None => x = y
      BY <2>1, <1>0
    <2>5. \A x \in 1..MaxNode : link[x] # 1
      BY <2>1, <1>0
    <2>6. 1 \in 1..MaxNode /\ 1 # None
      BY <1>0
    <2>7. IsList(link, 1, 1..MaxNode)
      BY <2>2, <2>3, <2>4, <2>5, <2>6 DEF IsList
    <2> QED
      BY <2>7, <1>1, <1>3 DEF FreeOK, link
  <1>5. FamiliesOK(T) /\ AllDistinct(T)
    <2>1. Cardinality({}) = 0 /\ Root \in Node
      BY FS_EmptySet, NodeFinite
    <2>2. T.first_child[Root] = None /\ T.child_number[Root] = 0 /\ Kids(T, Root) = {}
      BY <1>1, <1>3, <2>1
    <2>3. FamilyOK(T, Root)
      BY <2>1, <2>2 DEF FamilyOK, IsRing
    <2> QED
      BY <1>3, <2>2, <2>3 DEF FamiliesOK, AllDistinct, Distinct
  <1>6. Rooted(T) /\ Named(T)
    BY <1>0, <1>1, <1>3 DEF Rooted, Named
  <1> QED
    BY <1>2, <1>4, <1>5, <1>6 DEF TreeInv

(* Nothing but files and capabilities changes.                             *)
SameTree(st, new) ==
  /\ new \in TreeState /\ new.free_name_element = st.free_name_element
  /\ new.free_tree_node = st.free_tree_node /\ new.name = st.name /\ new.parent = st.parent
  /\ new.left_brother = st.left_brother /\ new.right_brother = st.right_brother
  /\ new.first_child = st.first_child /\ new.child_number = st.child_number

LEMMA SameTreeKeeps ==
  ASSUME NEW st, NEW new, TreeInv(st), SameTree(st, new)
  PROVE  TreeInv(new)
  <1>1. LiveIn(new) = LiveIn(st) /\ FreeIn(new) = FreeIn(st)
    BY DEF LiveIn, FreeIn, SameTree
  <1>2. \A n : Kids(new, n) = Kids(st, n)
    BY DEF Kids, SameTree
  <1>3. FreeOK(new)
    BY <1>1 DEF FreeOK, TreeInv, SameTree
  <1>4. \A n \in LiveIn(st) : FamilyOK(new, n)
    BY <1>2 DEF FamilyOK, TreeInv, SameTree, FamiliesOK
  <1>5. \A n \in LiveIn(st) : Distinct(new, n)
    BY <1>2 DEF Distinct, TreeInv, SameTree, AllDistinct
  <1>6. Rooted(new) /\ Named(new)
    BY <1>1 DEF Rooted, Named, TreeInv, SameTree
  <1> QED
    BY <1>1, <1>3, <1>4, <1>5, <1>6 DEF TreeInv, SameTree, FamiliesOK, AllDistinct
-----------------------------------------------------------------------------
(* A node is added.                                                        *)

(* What Insert does, node by node: n is the first free node, left the first*)
(* child there was and right its right brother.                            *)
LeftOf(st, parent) == st.first_child[parent]
RightOf(st, parent) ==
  IF LeftOf(st, parent) = None THEN st.free_tree_node ELSE st.right_brother[LeftOf(st, parent)]

Joined(st, new, parent, n, left, right) ==
  /\ new.right_brother[n] = right
  /\ new.left_brother[n] = IF left = None THEN n ELSE left
  /\ \A x \in Node \ {n} :
       /\ new.right_brother[x] = IF x = left THEN n ELSE st.right_brother[x]
       /\ new.left_brother[x] = IF x = right /\ left # None THEN n ELSE st.left_brother[x]
  /\ new.first_child[n] = None
  /\ \A x \in Node \ {n} :
       new.first_child[x] = IF x = parent /\ left = None THEN n ELSE st.first_child[x]
  /\ new.child_number[n] = 0
  /\ \A x \in Node \ {n} :
       new.child_number[x] = IF x = parent THEN st.child_number[x] + 1 ELSE st.child_number[x]
Inserted(st, new, parent, name, n) ==
  /\ new \in TreeState
  /\ new.free_tree_node = st.right_brother[n]
  /\ new.free_name_element = st.free_name_element - Elements(name)
  /\ new.parent = [st.parent EXCEPT ![n] = parent]
  /\ new.name = [st.name EXCEPT ![n] = name]
  /\ Joined(st, new, parent, n, LeftOf(st, parent), RightOf(st, parent))

LEMMA InsertIs ==
  ASSUME NEW st \in TreeState, NEW parent \in Node, NEW name \in Seq(Part),
         NEW f \in Capabilities, NEW c \in Capabilities, Elements(name) \in Int,
         st.free_tree_node \in Node \ {parent}, LeftOf(st, parent) # st.free_tree_node,
         LeftOf(st, parent) # None => RightOf(st, parent) # st.free_tree_node
  PROVE  Inserted(st, Insert(st, parent, name, f, c), parent, name, st.free_tree_node)
  <1>0. LeftOf(st, parent) # None => RightOf(st, parent) # st.free_tree_node
    OBVIOUS
  <1> DEFINE n     == st.free_tree_node
             left  == LeftOf(st, parent)
             right == RightOf(st, parent)
             el    == Elements(name)
             taken == [st EXCEPT !.free_tree_node = st.right_brother[n],
                          !.free_name_element = @ - el,
                          !.name[n] = name, !.parent[n] = parent,
                          !.file[n] = f, !.modify[n] = c,
                          !.first_child[n] = None, !.child_number[n] = 0,
                          !.left_brother[n] = left, !.right_brother[n] = right]
             joined == IF left = None
                       THEN [taken EXCEPT !.first_child[parent] = n, !.left_brother[n] = n]
                       ELSE [taken EXCEPT !.right_brother[left] = n, !.left_brother[right] = n]
             new == Insert(st, parent, name, f, c)
  <1>1. new = [joined EXCEPT !.child_number[parent] = @ + 1]
    BY DEF Insert, LeftOf, RightOf
  <1>2. n \in Node /\ n # parent /\ left \in Ids /\ left # n /\ None \in Ids /\ el \in Int
    BY StateFields, LiveFacts DEF LeftOf
  <1>3. right \in Ids
    BY <1>2, StateFields DEF RightOf, LeftOf, Ids
  <1> HIDE DEF n, left, right, el, new, joined
  <1>a. /\ taken.free_tree_node = st.right_brother[n]
        /\ taken.free_name_element = st.free_name_element - el
        /\ taken.name = [st.name EXCEPT ![n] = name] /\ taken.parent = [st.parent EXCEPT ![n] = parent]
        /\ taken.file = [st.file EXCEPT ![n] = f] /\ taken.modify = [st.modify EXCEPT ![n] = c]
        /\ taken.first_child = [st.first_child EXCEPT ![n] = None]
        /\ taken.left_brother = [st.left_brother EXCEPT ![n] = left]
        /\ taken.right_brother = [st.right_brother EXCEPT ![n] = right]
        /\ taken.child_number = [st.child_number EXCEPT ![n] = 0]
    BY DEF TreeState
  <1>c. IsRecord(taken)
    <2> DEFINE u1 == [st.name EXCEPT ![n] = name]
               u2 == [st.parent EXCEPT ![n] = parent]
               u3 == [st.file EXCEPT ![n] = f]
               u4 == [st.modify EXCEPT ![n] = c]
               u5 == [st.first_child EXCEPT ![n] = None]
               u6 == [st.child_number EXCEPT ![n] = 0]
               u7 == [st.left_brother EXCEPT ![n] = left]
               u8 == [st.right_brother EXCEPT ![n] = right]
               whole == [st EXCEPT !.free_tree_node = st.right_brother[n],
                          !.free_name_element = @ - el, !.name = u1, !.parent = u2,
                          !.file = u3, !.modify = u4, !.first_child = u5,
                          !.child_number = u6, !.left_brother = u7, !.right_brother = u8]
    <2>1. IsRecord(st)
      BY StateIsRecord
    <2>2. IsRecord(whole)
      <3> HIDE DEF u1, u2, u3, u4, u5, u6, u7, u8
      <3> QED
        BY <2>1 DEF IsRecord, Fields
    <2>3. whole = taken
      OBVIOUS
    <2> QED
      BY <2>2, <2>3
  <1> HIDE DEF taken
  <1>d. /\ taken.free_tree_node \in Ids /\ taken.free_name_element \in Int
        /\ taken.name \in [Node -> Seq(Part)] /\ taken.parent \in [Node -> Ids]
        /\ taken.file \in [Node -> Capabilities] /\ taken.modify \in [Node -> Capabilities]
        /\ taken.first_child \in [Node -> Ids] /\ taken.left_brother \in [Node -> Ids]
        /\ taken.right_brother \in [Node -> Ids] /\ taken.child_number \in [Node -> Int]
    <2>1. /\ st.free_name_element \in Int /\ st.name \in [Node -> Seq(Part)]
          /\ st.parent \in [Node -> Ids] /\ st.right_brother \in [Node -> Ids]
          /\ st.left_brother \in [Node -> Ids] /\ st.first_child \in [Node -> Ids]
          /\ st.child_number \in [Node -> Int] /\ st.file \in [Node -> Capabilities]
          /\ st.modify \in [Node -> Capabilities]
      BY StateFields
    <2>2. parent \in Ids
      BY LiveFacts
    <2>3. /\ taken.free_tree_node \in Ids /\ taken.free_name_element \in Int
          /\ taken.name \in [Node -> Seq(Part)] /\ taken.parent \in [Node -> Ids]
      BY <1>2, <1>a, <2>1, <2>2
    <2>4. /\ taken.file \in [Node -> Capabilities] /\ taken.modify \in [Node -> Capabilities]
          /\ taken.child_number \in [Node -> Int]
      BY <1>2, <1>a, <2>1
    <2>5. /\ taken.first_child \in [Node -> Ids] /\ taken.left_brother \in [Node -> Ids]
          /\ taken.right_brother \in [Node -> Ids]
      BY <1>2, <1>3, <1>a, <2>1
    <2> QED
      BY <2>3, <2>4, <2>5
  <1>4. taken \in TreeState
    BY <1>c, <1>d, RecordIsState
  <1>5. ASSUME joined \in TreeState,
               joined.child_number = [st.child_number EXCEPT ![n] = 0]
        PROVE  /\ new \in TreeState
               /\ new.free_tree_node = joined.free_tree_node
               /\ new.free_name_element = joined.free_name_element
               /\ new.name = joined.name /\ new.parent = joined.parent
               /\ new.left_brother = joined.left_brother
               /\ new.right_brother = joined.right_brother
               /\ new.first_child = joined.first_child
               /\ new.child_number = [[st.child_number EXCEPT ![n] = 0] EXCEPT ![parent] = @ + 1]
    <2> DEFINE cn == [st.child_number EXCEPT ![n] = 0]
    <2>1. cn \in [Node -> Int] /\ joined.child_number = cn
      BY <1>2, <1>5, StateFields
    <2> HIDE DEF cn
    <2>2. new.child_number = [cn EXCEPT ![parent] = @ + 1]
      BY <1>1, <1>5, <2>1 DEF TreeState
    <2>3. IsRecord(new)
      <3>1. IsRecord(joined)
        BY <1>5, StateIsRecord
      <3> QED
        BY <1>1, <3>1 DEF IsRecord, Fields
    <2>4. [cn EXCEPT ![parent] = @ + 1] \in [Node -> Int]
      BY <2>1
    <2>5. /\ new.free_tree_node = joined.free_tree_node
          /\ new.free_name_element = joined.free_name_element
          /\ new.name = joined.name /\ new.parent = joined.parent
          /\ new.left_brother = joined.left_brother
          /\ new.right_brother = joined.right_brother
          /\ new.first_child = joined.first_child
          /\ new.file = joined.file /\ new.modify = joined.modify
      BY <1>1, <1>5 DEF TreeState
    <2>6. new \in TreeState
      BY <1>5, <2>2, <2>3, <2>4, <2>5, RecordIsState, StateFields
    <2> QED
      BY <2>2, <2>5, <2>6 DEF cn
  <1>6. CASE left = None
    <2>1. joined = [taken EXCEPT !.first_child[parent] = n, !.left_brother[n] = n]
      BY <1>6 DEF joined
    <2>2. /\ joined \in TreeState
          /\ joined.free_tree_node = taken.free_tree_node
          /\ joined.free_name_element = taken.free_name_element
          /\ joined.name = taken.name /\ joined.parent = taken.parent
          /\ joined.child_number = taken.child_number
          /\ joined.right_brother = taken.right_brother
          /\ joined.first_child = [taken.first_child EXCEPT ![parent] = n]
          /\ joined.left_brother = [taken.left_brother EXCEPT ![n] = n]
      BY <2>1, <1>2, <1>4 DEF TreeState, Ids
    <2>3. /\ new.right_brother = [st.right_brother EXCEPT ![n] = right]
          /\ new.left_brother = [[st.left_brother EXCEPT ![n] = left] EXCEPT ![n] = n]
          /\ new.first_child = [[st.first_child EXCEPT ![n] = None] EXCEPT ![parent] = n]
          /\ new.child_number = [[st.child_number EXCEPT ![n] = 0] EXCEPT ![parent] = @ + 1]
      BY <1>a, <1>5, <2>2
    <2>4. left \notin Node
      BY <1>6, NodeFinite
    <2>5. Joined(st, new, parent, n, left, right)
      BY <1>2, <1>6, <2>3, <2>4, StateFields DEF Joined
    <2> QED
      BY <1>a, <1>5, <2>2, <2>5 DEF Inserted, n, left, right, el, new
  <1>7. CASE left # None
    <2>1. joined = [taken EXCEPT !.right_brother[left] = n, !.left_brother[right] = n]
      BY <1>7 DEF joined
    <2>2. /\ joined \in TreeState
          /\ joined.free_tree_node = taken.free_tree_node
          /\ joined.free_name_element = taken.free_name_element
          /\ joined.name = taken.name /\ joined.parent = taken.parent
          /\ joined.child_number = taken.child_number
          /\ joined.first_child = taken.first_child
          /\ joined.right_brother = [taken.right_brother EXCEPT ![left] = n]
          /\ joined.left_brother = [taken.left_brother EXCEPT ![right] = n]
      BY <2>1, <1>2, <1>4 DEF TreeState, Ids
    <2>3. /\ new.right_brother = [[st.right_brother EXCEPT ![n] = right] EXCEPT ![left] = n]
          /\ new.left_brother = [[st.left_brother EXCEPT ![n] = left] EXCEPT ![right] = n]
          /\ new.first_child = [st.first_child EXCEPT ![n] = None]
          /\ new.child_number = [[st.child_number EXCEPT ![n] = 0] EXCEPT ![parent] = @ + 1]
      BY <1>a, <1>5, <2>2
    <2>4. left \in Node /\ right # n
      BY <1>0, <1>2, <1>7 DEF Ids, left, right, n
    <2>5. Joined(st, new, parent, n, left, right)
      BY <1>2, <1>7, <2>3, <2>4, StateFields DEF Joined
    <2> QED
      BY <1>a, <1>5, <2>2, <2>5 DEF Inserted, n, left, right, el, new
  <1> QED
    BY <1>6, <1>7
(* Rings that grow and shrink.                                             *)
LEMMA RingSame ==
  ASSUME NEW right, NEW left, NEW right2, NEW left2, NEW R, IsRing(right, left, R),
         \A x \in R : right2[x] = right[x] /\ left2[x] = left[x]
  PROVE  IsRing(right2, left2, R)
  BY DEF IsRing

LEMMA RingSingle ==
  ASSUME NEW right, NEW left, NEW n, right[n] = n, left[n] = n
  PROVE  IsRing(right, left, {n})
  BY DEF IsRing

LEMMA RingInsert ==
  ASSUME NEW right, NEW left, NEW right2, NEW left2, NEW R, NEW n, NEW l \in R,
         IsRing(right, left, R), n \notin R, right2[n] = right[l], left2[n] = l,
         \A x \in R : /\ right2[x] = IF x = l THEN n ELSE right[x]
                      /\ left2[x] = IF x = right[l] THEN n ELSE left[x]
  PROVE  IsRing(right2, left2, R \cup {n})
  <1> DEFINE r == right[l]
             S == R \cup {n}
  <1>1. r \in R /\ left[r] = l /\ \A x \in R : right[x] \in R /\ left[x] \in R
    BY DEF IsRing
  <1>2. \A x \in R : left[right[x]] = x /\ right[left[x]] = x
    BY DEF IsRing
  <1>3. ASSUME NEW x \in S
        PROVE  /\ right2[x] \in S /\ left2[x] \in S
               /\ left2[right2[x]] = x /\ right2[left2[x]] = x
    <2>1. CASE x = n
      BY <1>1, <2>1
    <2>2. CASE x # n
      <3>1. x \in R /\ right[x] \in R /\ left[x] \in R
        BY <1>1, <2>2
      <3>2. right2[x] \in S /\ left2[x] \in S
        BY <3>1
      <3>3. left2[right2[x]] = x
        <4>1. CASE x = l
          BY <4>1, <3>1
        <4>2. CASE x # l
          <5>1. right2[x] = right[x] /\ right[x] # r
            BY <4>2, <3>1, <1>2
          <5> QED
            BY <5>1, <3>1, <1>2
        <4> QED
          BY <4>1, <4>2
      <3>4. right2[left2[x]] = x
        <4>1. CASE x = r
          BY <4>1, <3>1
        <4>2. CASE x # r
          <5>1. left2[x] = left[x] /\ left[x] # l
            BY <4>2, <3>1, <1>2
          <5> QED
            BY <5>1, <3>1, <1>2
        <4> QED
          BY <4>1, <4>2
      <3> QED
        BY <3>2, <3>3, <3>4
    <2> QED
      BY <2>1, <2>2
  <1>4. ASSUME NEW Q \in SUBSET S, Q # {}, \A x \in Q : right2[x] \in Q
        PROVE  Q = S
    <2> DEFINE P == Q \ {n}
    <2>1. P \in SUBSET R
      OBVIOUS
    <2>2. \A x \in P : right[x] \in P
      <3> SUFFICES ASSUME NEW x \in P
                   PROVE  right[x] \in P
        OBVIOUS
      <3>1. x \in R /\ x \in Q /\ right2[x] \in Q /\ right[x] \in R
        BY <1>1, <1>4
      <3>2. CASE x = l
        <4>1. n \in Q
          BY <3>1, <3>2
        <4> QED
          BY <4>1, <1>1, <1>4, <3>2
      <3>3. CASE x # l
        BY <3>1, <3>3
      <3> QED
        BY <3>2, <3>3
    <2>3. P # {}
      <3>1. PICK q \in Q : TRUE
        BY <1>4
      <3>2. CASE q = n
        <4>1. r \in Q
          BY <1>4, <3>2
        <4> QED
          BY <4>1, <1>1
      <3> QED
        BY <3>1, <3>2
    <2>4. P = R
      <3> HIDE DEF P
      <3> QED
        BY <2>1, <2>2, <2>3 DEF IsRing
    <2>5. l \in Q
      BY <2>4
    <2>6. n \in Q
      BY <1>4, <2>5
    <2> QED
      BY <2>4, <2>6
  <1> QED
    BY <1>3, <1>4 DEF IsRing

LEMMA RingAlone ==
  ASSUME NEW right, NEW left, NEW R, NEW n \in R, IsRing(right, left, R),
         left[n] = n \/ right[n] = n
  PROVE  R = {n} /\ left[n] = n /\ right[n] = n
  <1>1. right[n] = n /\ left[n] = n
    BY DEF IsRing
  <1>2. {n} \in SUBSET R /\ {n} # {} /\ \A x \in {n} : right[x] \in {n}
    BY <1>1
  <1>3. {n} = R
    BY <1>2 DEF IsRing
  <1> QED
    BY <1>1, <1>3

LEMMA RingRemove ==
  ASSUME NEW right, NEW left, NEW right2, NEW left2, NEW R, NEW n \in R,
         IsRing(right, left, R), left[n] # n,
         \A x \in R \ {n} : /\ right2[x] = IF x = left[n] THEN right[n] ELSE right[x]
                            /\ left2[x] = IF x = right[n] THEN left[n] ELSE left[x]
  PROVE  IsRing(right2, left2, R \ {n})
  <1> DEFINE l == left[n]
             r == right[n]
             S == R \ {n}
  <1>1. /\ l \in S /\ r \in S /\ right[l] = n /\ left[r] = n
        /\ \A x \in R : right[x] \in R /\ left[x] \in R
        /\ \A x \in R : left[right[x]] = x /\ right[left[x]] = x
    <2>1. right[n] # n
      BY RingAlone
    <2> QED
      BY <2>1 DEF IsRing
  <1>2. ASSUME NEW x \in S
        PROVE  /\ right2[x] \in S /\ left2[x] \in S
               /\ left2[right2[x]] = x /\ right2[left2[x]] = x
    <2>1. x = l => right2[x] = r
      OBVIOUS
    <2>2. x # l => right2[x] = right[x] /\ right[x] \in S /\ right[x] # r
      BY <1>1
    <2>3. x = r => left2[x] = l
      OBVIOUS
    <2>4. x # r => left2[x] = left[x] /\ left[x] \in S /\ left[x] # l
      BY <1>1
    <2>5. left2[r] = l /\ right2[l] = r
      BY <1>1
    <2>6. left2[right2[x]] = x /\ right2[x] \in S
      <3>1. CASE x = l
        BY <2>1, <2>5, <3>1, <1>1
      <3>2. CASE x # l
        BY <2>2, <3>2, <1>1
      <3> QED
        BY <3>1, <3>2
    <2>7. right2[left2[x]] = x /\ left2[x] \in S
      <3>1. CASE x = r
        BY <2>3, <2>5, <3>1, <1>1
      <3>2. CASE x # r
        BY <2>4, <3>2, <1>1
      <3> QED
        BY <3>1, <3>2
    <2> QED
      BY <2>6, <2>7
  <1>3. ASSUME NEW Q \in SUBSET S, Q # {}, \A x \in Q : right2[x] \in Q
        PROVE  Q = S
    <2> DEFINE P == Q \cup (IF l \in Q THEN {n} ELSE {})
    <2>1. P \in SUBSET R /\ P # {}
      BY <1>3
    <2>2. \A x \in P : right[x] \in P
      <3> SUFFICES ASSUME NEW x \in P
                   PROVE  right[x] \in P
        OBVIOUS
      <3>1. CASE x = n
        <4>1. l \in Q
          BY <3>1, <1>3
        <4>2. right2[l] = r
          BY <1>1
        <4> QED
          BY <3>1, <4>1, <4>2, <1>3
      <3>2. CASE x = l
        BY <3>2, <1>1
      <3>3. CASE x # n /\ x # l
        BY <3>3, <1>3
      <3> QED
        BY <3>1, <3>2, <3>3
    <2>3. P = R
      <3> HIDE DEF P
      <3> QED
        BY <2>1, <2>2 DEF IsRing
    <2> QED
      BY <2>3, <1>3
  <1> QED
    BY <1>2, <1>3 DEF IsRing
(* Lists that lose or get their first node.                                *)
LEMMA ListPop ==
  ASSUME NEW link, NEW link2, NEW n, NEW R, IsList(link, n, R), n # None, None \notin R,
         \A x \in R \ {n} : link2[x] = link[x]
  PROVE  IsList(link2, link[n], R \ {n})
  <1>1. n \in R /\ Closed(link, R) /\ \A x \in R : link[x] # n
    BY DEF IsList
  <1>2. link[n] \in (R \ {n}) \cup {None}
    BY <1>1 DEF Closed
  <1>3. link[n] = None => R \ {n} = {}
    <2>1. ASSUME link[n] = None
          PROVE  R = {n}
      <3>1. {n} \in SUBSET R /\ n \in {n} /\ Closed(link, {n})
        BY <1>1, <2>1 DEF Closed
      <3> QED
        BY <3>1 DEF IsList
    <2> QED
      BY <2>1
  <1>4. Closed(link2, R \ {n})
    BY <1>1 DEF Closed
  <1>5. \A x \in R \ {n} : link2[x] # link[n]
    <2> SUFFICES ASSUME NEW x \in R \ {n}, link2[x] = link[n]
                 PROVE  FALSE
      OBVIOUS
    <2>1. link[x] = link[n] /\ link[n] # None
      BY <1>3
    <2> QED
      BY <1>1, <2>1 DEF IsList
  <1>6. \A x, y \in R \ {n} : link2[x] = link2[y] /\ link2[x] # None => x = y
    BY DEF IsList
  <1>7. ASSUME NEW Q \in SUBSET (R \ {n}), link[n] \in Q, Closed(link2, Q)
        PROVE  Q = R \ {n}
    <2>1. Q \cup {n} \in SUBSET R /\ n \in Q \cup {n}
      BY <1>1
    <2>2. Closed(link, Q \cup {n})
      BY <1>7 DEF Closed
    <2>3. Q \cup {n} = R
      BY <2>1, <2>2 DEF IsList
    <2> QED
      BY <2>3
  <1> QED
    BY <1>2, <1>3, <1>4, <1>5, <1>6, <1>7 DEF IsList

LEMMA ListPush ==
  ASSUME NEW link, NEW link2, NEW head, NEW n, NEW R, IsList(link, head, R), n # None,
         n \notin R, None \notin R, link2[n] = head, \A x \in R : link2[x] = link[x]
  PROVE  IsList(link2, n, R \cup {n})
  <1>1. head \in R \cup {None} /\ (head = None => R = {}) /\ Closed(link, R)
    BY DEF IsList
  <1>2. Closed(link2, R \cup {n})
    BY <1>1 DEF Closed
  <1>3. \A x \in R \cup {n} : link2[x] # n
    BY <1>1 DEF Closed
  <1>4. \A x, y \in R \cup {n} : link2[x] = link2[y] /\ link2[x] # None => x = y
    BY DEF IsList
  <1>5. ASSUME NEW Q \in SUBSET (R \cup {n}), n \in Q, Closed(link2, Q)
        PROVE  Q = R \cup {n}
    <2>1. CASE head = None
      BY <1>1, <1>5, <2>1
    <2>2. CASE head # None
      <3>1. Q \ {n} \in SUBSET R /\ head \in Q \ {n}
        BY <1>1, <1>5, <2>2 DEF Closed
      <3>2. Closed(link, Q \ {n})
        <4>1. ASSUME NEW x \in Q \ {n}
              PROVE  link[x] \in (Q \ {n}) \cup {None}
          <5>1. x \in R /\ link2[x] = link[x] /\ link[x] \in R \cup {None}
            BY <1>1 DEF Closed
          <5>2. link2[x] \in Q \cup {None}
            BY <1>5 DEF Closed
          <5> QED
            BY <5>1, <5>2
        <4> QED
          BY <4>1 DEF Closed
      <3>3. Q \ {n} = R
        BY <3>1, <3>2 DEF IsList
      <3> QED
        BY <3>3, <1>5
    <2> QED
      BY <2>1, <2>2
  <1> QED
    BY <1>2, <1>3, <1>4, <1>5 DEF IsList

(* The node that is added was free, its parent is in the tree, and no      *)
(* other child of that parent has its name, unless no search finds it.     *)
Adds(st, new, parent, name, n) ==
  /\ TreeInv(st)
  /\ Inserted(st, new, parent, name, n)
  /\ n = st.free_tree_node /\ n # None
  /\ parent \in LiveIn(st)
  /\ name \in Names
  /\ \A c \in Kids(st, parent) : st.name[c] = name => Len(name) > 1

LEMMA AddsSets ==
  ASSUME NEW st, NEW new, NEW parent, NEW name, NEW n, Adds(st, new, parent, name, n)
  PROVE  /\ n \in Node /\ n \notin LiveIn(st) /\ n # Root /\ n # parent /\ n \in FreeIn(st)
         /\ LiveIn(new) = LiveIn(st) \cup {n}
         /\ FreeIn(new) = FreeIn(st) \ {n}
         /\ Kids(new, parent) = Kids(st, parent) \cup {n} /\ n \notin Kids(st, parent)
         /\ Kids(st, n) = {}
         /\ \A x \in Node \ {parent} : Kids(new, x) = Kids(st, x)
         /\ \A x \in Node \ {n} : new.parent[x] = st.parent[x] /\ new.name[x] = st.name[x]
         /\ new.parent[n] = parent /\ new.name[n] = name
         /\ parent \in LiveIn(st) /\ parent \in Node /\ n # None
         /\ LiveIn(st) \subseteq Node /\ None \notin LiveIn(st) /\ Root \in Node
  <1>1. st \in TreeState /\ st.parent \in [Node -> Ids] /\ st.name \in [Node -> Seq(Part)]
    BY StateFields DEF Adds, TreeInv
  <1>2. n \in FreeIn(st)
    BY DEF Adds, TreeInv, FreeOK, IsList
  <1>3. n \in Node /\ n \notin LiveIn(st) /\ n # Root /\ n # parent /\ st.parent[n] = None
    BY <1>2, LiveFacts DEF FreeIn, Adds
  <1>4. /\ \A x \in Node \ {n} : new.parent[x] = st.parent[x] /\ new.name[x] = st.name[x]
        /\ new.parent[n] = parent /\ new.name[n] = name
    BY <1>1, <1>3 DEF Adds, Inserted
  <1>5. parent \in Node /\ parent # None
    BY LiveFacts DEF Adds
  <1>6. LiveIn(new) = LiveIn(st) \cup {n}
    BY <1>3, <1>4, <1>5 DEF LiveIn
  <1>7. FreeIn(new) = FreeIn(st) \ {n}
    BY <1>6, <1>2 DEF FreeIn
  <1>8. Kids(new, parent) = Kids(st, parent) \cup {n} /\ n \notin Kids(st, parent)
    BY <1>3, <1>4, <1>5 DEF Kids
  <1>9. \A x \in Node \ {parent} : Kids(new, x) = Kids(st, x)
    BY <1>3, <1>4, <1>5, NodeFinite DEF Kids
  <1>10. Kids(st, n) = {}
    <2>1. \A x \in Node : st.parent[x] # n
      <3> SUFFICES ASSUME NEW x \in Node, st.parent[x] = n
                   PROVE  FALSE
        OBVIOUS
      <3>1. x \in LiveIn(st) \ {Root}
        BY <1>3, LiveFacts, NodeFinite DEF LiveIn, Adds, TreeInv, Rooted
      <3> QED
        BY <3>1, <1>3 DEF Adds, TreeInv, Rooted
    <2> QED
      BY <2>1 DEF Kids
  <1>11. parent \in LiveIn(st) /\ n # None /\ LiveIn(st) \subseteq Node /\ None \notin LiveIn(st)
         /\ Root \in Node
    BY LiveFacts, NodeFinite DEF Adds
  <1> QED
    BY <1>2, <1>3, <1>4, <1>5, <1>6, <1>7, <1>8, <1>9, <1>10, <1>11
(* The links of the nodes, around the one that is added.                   *)
LEMMA AddsLinks ==
  ASSUME NEW st, NEW new, NEW parent, NEW name, NEW n, Adds(st, new, parent, name, n)
  PROVE  Joined(st, new, parent, n, LeftOf(st, parent), RightOf(st, parent))
         /\ new \in TreeState /\ st \in TreeState
         /\ new.free_tree_node = st.right_brother[n] /\ FamilyOK(st, parent)
  BY DEF Adds, Inserted, TreeInv, FamiliesOK

LEMMA AddsFree ==
  ASSUME NEW st, NEW new, NEW parent, NEW name, NEW n, Adds(st, new, parent, name, n)
  PROVE  FreeOK(new)
  <1>1. /\ n \in Node /\ FreeIn(new) = FreeIn(st) \ {n} /\ n \in FreeIn(st)
    BY AddsSets
  <1>2. IsList(st.right_brother, n, FreeIn(st))
    BY DEF Adds, TreeInv, FreeOK
  <1>3. LeftOf(st, parent) \in LiveIn(st) \cup {None}
    BY AddsLinks, LiveFacts DEF FamilyOK, LeftOf, Adds
  <1>4. \A x \in FreeIn(st) \ {n} : new.right_brother[x] = st.right_brother[x]
    BY <1>3, AddsLinks, LiveFacts DEF Joined, FreeIn
  <1>5. None \notin FreeIn(st) /\ n # None
    BY LiveFacts DEF Adds
  <1>6. IsList(new.right_brother, st.right_brother[n], FreeIn(st) \ {n})
    BY <1>2, <1>4, <1>5, ListPop
  <1> QED
    BY <1>1, <1>6, AddsLinks DEF FreeOK

LEMMA AddsFamilyOfParent ==
  ASSUME NEW st, NEW new, NEW parent, NEW name, NEW n, Adds(st, new, parent, name, n)
  PROVE  FamilyOK(new, parent)
  <1> DEFINE left == LeftOf(st, parent)
             right == RightOf(st, parent)
             K == Kids(st, parent)
  <1>0. parent \in Node /\ parent # n /\ n \in Node /\ n # None
    BY AddsSets
  <1>1. K \subseteq Node /\ n \notin K /\ Kids(new, parent) = K \cup {n}
    BY AddsSets DEF Kids
  <1>2. Joined(st, new, parent, n, left, right) /\ FamilyOK(st, parent)
    BY AddsLinks
  <1>3. new.child_number[parent] = Cardinality(K \cup {n})
    <2>1. new.child_number[parent] = st.child_number[parent] + 1
      BY <1>0, <1>2 DEF Joined
    <2>2. st.child_number[parent] = Cardinality(K)
      BY <1>2 DEF FamilyOK
    <2>3. IsFiniteSet(K)
      BY <1>1, NodeFinite, FS_Subset
    <2>4. Cardinality(K \cup {n}) = Cardinality(K) + 1
      BY <1>1, <2>3, FS_AddElement
    <2> QED
      BY <2>1, <2>2, <2>4
  <1>4. left = st.first_child[parent] /\ left \in K \cup {None} /\ (left = None => K = {})
    BY <1>2 DEF FamilyOK, LeftOf
  <1>5. IsRing(st.right_brother, st.left_brother, K)
    BY <1>2 DEF FamilyOK
  <1> HIDE DEF K, left
  <1>6. CASE left = None
    <2>1. K = {} /\ right = n
      BY <1>4, <1>6 DEF RightOf, left, Adds
    <2>2. new.right_brother[n] = n /\ new.left_brother[n] = n /\ new.first_child[parent] = n
      BY <1>0, <1>2, <1>6, <2>1 DEF Joined
    <2>3. IsRing(new.right_brother, new.left_brother, {n})
      BY <2>2, RingSingle
    <2>4. K \cup {n} = {n}
      BY <2>1
    <2> QED
      BY <1>0, <1>1, <1>3, <2>2, <2>3, <2>4 DEF FamilyOK
  <1>7. CASE left # None
    <2>1. left \in K /\ right = st.right_brother[left]
      BY <1>4, <1>7 DEF RightOf, left
    <2>2. new.right_brother[n] = st.right_brother[left] /\ new.left_brother[n] = left
      BY <1>2, <1>7, <2>1 DEF Joined
    <2>3. \A x \in K : /\ new.right_brother[x] = IF x = left THEN n ELSE st.right_brother[x]
                       /\ new.left_brother[x] = IF x = st.right_brother[left] THEN n
                                                ELSE st.left_brother[x]
      BY <1>1, <1>2, <1>7, <2>1 DEF Joined
    <2>4. IsRing(new.right_brother, new.left_brother, K \cup {n})
      BY <1>1, <1>5, <2>1, <2>2, <2>3, RingInsert
    <2>5. new.first_child[parent] = left
      BY <1>0, <1>2, <1>4, <1>7 DEF Joined
    <2> QED
      BY <1>1, <1>3, <1>7, <2>1, <2>4, <2>5 DEF FamilyOK
  <1> QED
    BY <1>6, <1>7

LEMMA AddsFamilies ==
  ASSUME NEW st, NEW new, NEW parent, NEW name, NEW n, Adds(st, new, parent, name, n)
  PROVE  FamiliesOK(new)
  <1> SUFFICES ASSUME NEW x \in LiveIn(new)
               PROVE  FamilyOK(new, x)
    BY DEF FamiliesOK
  <1>0. n \in Node /\ x \in LiveIn(st) \cup {n} /\ x \in Node /\ parent \in Node /\ n # parent
        /\ LiveIn(st) \subseteq Node /\ None \notin LiveIn(st)
    BY AddsSets, LiveFacts
  <1>1. Joined(st, new, parent, n, LeftOf(st, parent), RightOf(st, parent))
    BY AddsLinks
  <1>2. CASE x = parent
    BY <1>2, AddsFamilyOfParent
  <1>3. CASE x = n
    <2>1. Kids(new, n) = {}
      BY <1>0, AddsSets
    <2>2. new.first_child[n] = None /\ new.child_number[n] = 0
      BY <1>1 DEF Joined
    <2>3. Cardinality({}) = 0
      BY FS_EmptySet
    <2> QED
      BY <1>3, <2>1, <2>2, <2>3 DEF FamilyOK, IsRing
  <1>4. CASE x # parent /\ x # n
    <2>1. x \in LiveIn(st) /\ Kids(new, x) = Kids(st, x)
      BY <1>0, <1>4, AddsSets
    <2>2. FamilyOK(st, x) /\ FamilyOK(st, parent)
      BY <2>1 DEF Adds, TreeInv, FamiliesOK
    <2>3. new.first_child[x] = st.first_child[x] /\ new.child_number[x] = st.child_number[x]
      BY <1>0, <1>1, <1>4 DEF Joined
    <2>4. Kids(st, x) \cap Kids(st, parent) = {} /\ n \notin Kids(st, x) /\ Kids(st, x) \subseteq Node
      BY <1>0, <1>4, AddsSets DEF Kids, LiveIn
    <2>5. /\ LeftOf(st, parent) \notin Kids(st, x)
          /\ LeftOf(st, parent) # None => RightOf(st, parent) \notin Kids(st, x)
      <3>1. LeftOf(st, parent) \in Kids(st, parent) \cup {None}
        BY <2>2 DEF FamilyOK, LeftOf
      <3>2. ASSUME LeftOf(st, parent) # None
            PROVE  RightOf(st, parent) \in Kids(st, parent)
        BY <3>1, <3>2, <2>2 DEF FamilyOK, RightOf, IsRing
      <3> QED
        BY <2>4, <3>1, <3>2, NodeFinite
    <2>6. \A c \in Kids(st, x) : /\ new.right_brother[c] = st.right_brother[c]
                                 /\ new.left_brother[c] = st.left_brother[c]
      BY <1>1, <2>4, <2>5 DEF Joined
    <2>7. IsRing(new.right_brother, new.left_brother, Kids(st, x))
      BY <2>2, <2>6, RingSame DEF FamilyOK
    <2> QED
      BY <2>1, <2>2, <2>3, <2>7 DEF FamilyOK
  <1> QED
    BY <1>2, <1>3, <1>4

LEMMA AddsDistinct ==
  ASSUME NEW st, NEW new, NEW parent, NEW name, NEW n, Adds(st, new, parent, name, n)
  PROVE  AllDistinct(new)
  <1> SUFFICES ASSUME NEW x \in LiveIn(new), NEW c \in Kids(new, x), NEW d \in Kids(new, x),
                      c # d, new.name[c] = new.name[d]
               PROVE  Len(new.name[c]) > 1
    BY DEF AllDistinct, Distinct
  <1>0. x \in LiveIn(st) \cup {n} /\ x \in Node /\ parent \in Node
    BY AddsSets, LiveFacts
  <1>1. c \in Node /\ d \in Node
    BY DEF Kids
  <1>2. \A y \in LiveIn(st) : \A i, j \in Kids(st, y) :
          i # j /\ st.name[i] = st.name[j] => Len(st.name[i]) > 1
    BY DEF Adds, TreeInv, AllDistinct, Distinct
  <1>3. CASE x = parent
    <2>1. c \in Kids(st, parent) \cup {n} /\ d \in Kids(st, parent) \cup {n} /\ parent \in LiveIn(st)
      BY <1>3, AddsSets
    <2>2. CASE c # n /\ d # n
      BY <1>1, <1>2, <2>1, <2>2, AddsSets
    <2>3. CASE c = n
      <3>1. d \in Kids(st, parent) /\ st.name[d] = name /\ new.name[c] = name
        BY <1>1, <2>1, <2>3, AddsSets
      <3> QED
        BY <3>1 DEF Adds
    <2>4. CASE d = n
      <3>1. c \in Kids(st, parent) /\ st.name[c] = name /\ new.name[c] = name
        BY <1>1, <2>1, <2>4, AddsSets
      <3> QED
        BY <3>1 DEF Adds
    <2> QED
      BY <2>2, <2>3, <2>4
  <1>4. CASE x # parent
    <2>1. Kids(new, x) = Kids(st, x) /\ x # n
      BY <1>0, <1>4, AddsSets
    <2>2. n \notin Kids(st, x)
      BY <1>0, <2>1, AddsSets, LiveFacts
    <2> QED
      BY <1>0, <1>1, <1>2, <2>1, <2>2, AddsSets
  <1> QED
    BY <1>3, <1>4

LEMMA AddsRooted ==
  ASSUME NEW st, NEW new, NEW parent, NEW name, NEW n, Adds(st, new, parent, name, n)
  PROVE  Rooted(new) /\ Named(new)
  <1>0. /\ n \in Node /\ n \notin LiveIn(st) /\ n # Root /\ n # parent
        /\ LiveIn(new) = LiveIn(st) \cup {n}
        /\ \A x \in Node \ {n} : new.parent[x] = st.parent[x] /\ new.name[x] = st.name[x]
        /\ new.parent[n] = parent /\ new.name[n] = name
        /\ parent \in LiveIn(st) /\ LiveIn(st) \subseteq Node /\ Root \in Node
    BY AddsSets
  <1>1. /\ st.parent[Root] = None
        /\ \A x \in LiveIn(st) \ {Root} : st.parent[x] \in LiveIn(st)
        /\ \A Q \in SUBSET (LiveIn(st) \ {Root}) : Q # {} => \E x \in Q : st.parent[x] \notin Q
    BY DEF Adds, TreeInv, Rooted
  <1>2. new.parent[Root] = None
    BY <1>0, <1>1
  <1>3. \A x \in LiveIn(new) \ {Root} : new.parent[x] \in LiveIn(new)
    BY <1>0, <1>1
  <1>4. ASSUME NEW Q \in SUBSET (LiveIn(new) \ {Root}), Q # {}
        PROVE  \E x \in Q : new.parent[x] \notin Q
    <2>1. CASE Q \ {n} = {}
      <3>1. n \in Q /\ parent \notin Q
        BY <1>0, <1>4, <2>1
      <3> QED
        BY <1>0, <3>1
    <2>2. CASE Q \ {n} # {}
      <3>1. Q \ {n} \in SUBSET (LiveIn(st) \ {Root})
        BY <1>0
      <3>2. PICK x \in Q \ {n} : st.parent[x] \notin Q \ {n}
        BY <1>1, <2>2, <3>1
      <3>3. x \in Q /\ new.parent[x] = st.parent[x] /\ st.parent[x] \in LiveIn(st)
        BY <1>0, <1>1, <3>1, <3>2
      <3> QED
        BY <1>0, <3>2, <3>3
    <2> QED
      BY <2>1, <2>2
  <1>5. Named(new)
    BY <1>0 DEF Named, Adds, TreeInv
  <1> QED
    BY <1>2, <1>3, <1>4, <1>5 DEF Rooted

LEMMA AddsKeeps ==
  ASSUME NEW st, NEW new, NEW parent, NEW name, NEW n, Adds(st, new, parent, name, n)
  PROVE  TreeInv(new)
  BY AddsLinks, AddsFree, AddsFamilies, AddsDistinct, AddsRooted DEF TreeInv
-----------------------------------------------------------------------------
(* The pieces of a name are a number.                                      *)
LEMMA ElementsNat ==
  ASSUME NEW name \in Names
  PROVE  Elements(name) \in Nat
  <1> DEFINE m == Len(name)
             D == [ku \in (1..m) \X Nat |-> ku[2] + Chars(name[ku[1]])]
             Rec(w) == w = [k \in 0..m |-> IF k = 0 THEN 0 ELSE w[k - 1] + Chars(name[k])]
             W == CHOOSE w : Rec(w)
  <1>1. m \in Nat \ {0} /\ \A k \in 1..m : name[k] \in Part
    BY DEF Names
  <1>2. Elements(name) = (W[m] + m - 1) \div 2 + 1
    BY DEF Elements
  <1>3. \A k \in 1..m : Chars(name[k]) \in Nat
    <2>1. \A x \in Part : Chars(x) \in Nat
      BY NameTreeAssumption DEF Part, Chars
    <2> QED
      BY <1>1, <2>1
  <1> HIDE DEF m
  <1>4. ASSUME NEW k \in 1..m, NEW u \in Nat
        PROVE  D[<<k, u>>] = u + Chars(name[k]) /\ D[<<k, u>>] \in Nat
    BY <1>3
  <1> HIDE DEF D
  <1>5. StaysIn(D, m, Nat)
    BY <1>4 DEF StaysIn
  <1>6. PICK g \in [0..m -> Nat] : Follows(g, m, 0, D)
    BY <1>1, <1>5, RecursionExists
  <1>7. Rec(g)
    <2>1. ASSUME NEW k \in 0..m, k # 0
          PROVE  D[<<k, g[k - 1]>>] = g[k - 1] + Chars(name[k])
      <3>1. k \in 1..m /\ k - 1 \in 0..m
        BY <1>1, <2>1
      <3> QED
        BY <3>1, <1>4
    <2> QED
      BY <1>6, <2>1 DEF Follows
  <1>8. Rec(W)
    BY <1>7
  <1> HIDE DEF W
  <1> DEFINE Z == {k \in 0..m : W[k] \in Nat}
  <1>9. 0 \in Z
    BY <1>1, <1>8
  <1>10. ASSUME NEW k \in 1..m, k - 1 \in Z
         PROVE  k \in Z
    <2>1. W[k] = W[k - 1] + Chars(name[k]) /\ k \in 0..m
      BY <1>1, <1>8
    <2> QED
      BY <2>1, <1>3, <1>10
  <1> HIDE DEF Z
  <1>11. \A k \in 0..m : k \in Z
    BY <1>1, <1>9, <1>10, BoundedInduction
  <1>12. W[m] \in Nat
    BY <1>1, <1>11 DEF Z
  <1> QED
    BY <1>1, <1>2, <1>12

-----------------------------------------------------------------------------
(* A leaf is taken out.                                                    *)

(* What OutOfRing does to the tables.                                      *)
Unlinked(st, out, n) ==
  LET up    == st.parent[n]
      left  == st.left_brother[n]
      right == st.right_brother[n]
  IN  /\ out \in TreeState
      /\ out.free_tree_node = st.free_tree_node
      /\ out.free_name_element = st.free_name_element
      /\ out.name = st.name /\ out.parent = st.parent
      /\ out.file = st.file /\ out.modify = st.modify
      /\ \A x \in Node :
           /\ out.right_brother[x] = IF x = left /\ n # left THEN right ELSE st.right_brother[x]
           /\ out.left_brother[x] = IF x = right /\ n # left THEN left ELSE st.left_brother[x]
           /\ out.first_child[x] = IF x # up THEN st.first_child[x]
                                   ELSE IF n = left THEN None
                                   ELSE IF st.first_child[x] = n THEN right
                                   ELSE st.first_child[x]
           /\ out.child_number[x] = IF x # up THEN st.child_number[x]
                                    ELSE IF n = left THEN 0 ELSE st.child_number[x] - 1

LEMMA OutOfRingIs ==
  ASSUME NEW st \in TreeState, NEW n \in Node,
         st.parent[n] \in Node, st.left_brother[n] \in Node, st.right_brother[n] \in Node
  PROVE  Unlinked(st, OutOfRing(st, n), n)
  <1> DEFINE up    == st.parent[n]
             left  == st.left_brother[n]
             right == st.right_brother[n]
             out   == OutOfRing(st, n)
  <1>1. out = IF n = left
              THEN [st EXCEPT !.first_child[up] = None, !.child_number[up] = 0]
              ELSE [st EXCEPT !.child_number[up] = @ - 1,
                              !.right_brother[left] = right, !.left_brother[right] = left,
                              !.first_child[up] = IF @ = n THEN right ELSE @]
    BY DEF OutOfRing
  <1>2. up \in Node /\ left \in Node /\ right \in Node /\ None \in Ids /\ left \in Ids /\ right \in Ids
    BY LiveFacts
  <1>3. /\ st.right_brother \in [Node -> Ids] /\ st.left_brother \in [Node -> Ids]
        /\ st.first_child \in [Node -> Ids] /\ st.child_number \in [Node -> Int]
        /\ st.name \in [Node -> Seq(Part)] /\ st.parent \in [Node -> Ids]
        /\ st.file \in [Node -> Capabilities] /\ st.modify \in [Node -> Capabilities]
        /\ st.free_tree_node \in Ids /\ st.free_name_element \in Int
    BY StateFields
  <1>4. IsRecord(st)
    BY StateIsRecord
  <1> HIDE DEF up, left, right, out
  <1> DEFINE same == /\ out.free_tree_node = st.free_tree_node
                     /\ out.free_name_element = st.free_name_element
                     /\ out.name = st.name /\ out.parent = st.parent
                     /\ out.file = st.file /\ out.modify = st.modify
  <1>5. CASE n = left
    <2>1. out = [st EXCEPT !.first_child[up] = None, !.child_number[up] = 0]
      BY <1>1, <1>5
    <2>2. /\ same /\ out.left_brother = st.left_brother /\ out.right_brother = st.right_brother
          /\ out.first_child = [st.first_child EXCEPT ![up] = None]
          /\ out.child_number = [st.child_number EXCEPT ![up] = 0]
      BY <2>1, <1>2 DEF TreeState
    <2>3. IsRecord(out)
      BY <2>1, <1>4 DEF IsRecord, Fields
    <2>4. out.first_child \in [Node -> Ids] /\ out.child_number \in [Node -> Int]
      BY <2>2, <1>2, <1>3
    <2>5. out \in TreeState
      BY <1>3, <2>2, <2>3, <2>4, RecordIsState
    <2> QED
      BY <1>2, <1>3, <1>5, <2>2, <2>5 DEF Unlinked, up, left, right, out
  <1>6. CASE n # left
    <2> DEFINE fc == IF st.first_child[up] = n THEN right ELSE st.first_child[up]
    <2>1. out = [st EXCEPT !.child_number[up] = @ - 1,
                           !.right_brother[left] = right, !.left_brother[right] = left,
                           !.first_child[up] = fc]
      BY <1>1, <1>6 DEF TreeState
    <2>2. fc \in Ids
      BY <1>2, <1>3
    <2> HIDE DEF fc
    <2>3. /\ same /\ out.left_brother = [st.left_brother EXCEPT ![right] = left]
          /\ out.right_brother = [st.right_brother EXCEPT ![left] = right]
          /\ out.first_child = [st.first_child EXCEPT ![up] = fc]
          /\ out.child_number = [st.child_number EXCEPT ![up] = @ - 1]
      BY <2>1, <1>2 DEF TreeState
    <2>4. IsRecord(out)
      BY <2>1, <1>4 DEF IsRecord, Fields
    <2>5. /\ out.first_child \in [Node -> Ids] /\ out.child_number \in [Node -> Int]
          /\ out.left_brother \in [Node -> Ids] /\ out.right_brother \in [Node -> Ids]
      <3>1. out.first_child \in [Node -> Ids]
        <4>1. PICK g \in [Node -> Ids] : g = st.first_child
          BY <1>3
        <4>2. out.first_child = [g EXCEPT ![up] = fc]
          BY <2>3, <4>1
        <4> QED
          BY <2>2, <4>2
      <3>2. out.child_number \in [Node -> Int]
        BY <2>3, <1>2, <1>3
      <3>3. out.left_brother \in [Node -> Ids]
        BY <2>3, <1>2, <1>3
      <3>4. out.right_brother \in [Node -> Ids]
        BY <2>3, <1>2, <1>3
      <3> QED
        BY <3>1, <3>2, <3>3, <3>4
    <2>6. out \in TreeState
      BY <1>3, <2>3, <2>4, <2>5, RecordIsState
    <2>7. \A x \in Node :
            /\ out.right_brother[x] = IF x = left THEN right ELSE st.right_brother[x]
            /\ out.left_brother[x] = IF x = right THEN left ELSE st.left_brother[x]
            /\ out.first_child[x] = IF x = up THEN fc ELSE st.first_child[x]
            /\ out.child_number[x] = IF x = up THEN st.child_number[x] - 1 ELSE st.child_number[x]
      BY <1>2, <1>3, <2>3
    <2> QED
      BY <1>2, <1>6, <2>3, <2>6, <2>7 DEF Unlinked, up, left, right, out, fc
  <1> QED
    BY <1>5, <1>6

(* What ReleaseOne does, node by node.                                     *)
Released(st, new, n) ==
  LET up    == st.parent[n]
      left  == st.left_brother[n]
      right == st.right_brother[n]
  IN  /\ new \in TreeState
      /\ new.free_tree_node = n
      /\ new.free_name_element = st.free_name_element + Elements(st.name[n])
      /\ new.file = st.file /\ new.modify = st.modify
      /\ new.parent = [st.parent EXCEPT ![n] = None]
      /\ new.name = [st.name EXCEPT ![n] = <<>>]
      /\ new.right_brother[n] = st.free_tree_node
      /\ \A x \in Node \ {n} :
           /\ new.right_brother[x] = IF x = left THEN right ELSE st.right_brother[x]
           /\ new.left_brother[x] = IF x = right THEN left ELSE st.left_brother[x]
           /\ new.first_child[x] = IF x # up THEN st.first_child[x]
                                   ELSE IF n = left THEN None
                                   ELSE IF st.first_child[x] = n THEN right
                                   ELSE st.first_child[x]
           /\ new.child_number[x] = IF x # up THEN st.child_number[x]
                                    ELSE IF n = left THEN 0 ELSE st.child_number[x] - 1

LEMMA ReleaseOneIs ==
  ASSUME NEW st \in TreeState, NEW n \in Node, Elements(st.name[n]) \in Int,
         st.parent[n] \in Node, st.left_brother[n] \in Node, st.right_brother[n] \in Node,
         n = st.left_brother[n] => n = st.right_brother[n]
  PROVE  Released(st, ReleaseOne(st, n), n)
  <1> DEFINE out == OutOfRing(st, n)
             el  == Elements(st.name[n])
             new == ReleaseOne(st, n)
  <1>1. new = [out EXCEPT !.free_name_element = @ + el,
                  !.name[n] = <<>>, !.parent[n] = None, !.left_brother[n] = None,
                  !.first_child[n] = None, !.child_number[n] = 0,
                  !.right_brother[n] = st.free_tree_node, !.free_tree_node = n]
    BY DEF ReleaseOne
  <1>2. Unlinked(st, out, n) /\ out \in TreeState
    BY OutOfRingIs DEF Unlinked
  <1> HIDE DEF out, el, new
  <1>3. /\ out.right_brother \in [Node -> Ids] /\ out.left_brother \in [Node -> Ids]
        /\ out.first_child \in [Node -> Ids] /\ out.child_number \in [Node -> Int]
        /\ out.name \in [Node -> Seq(Part)] /\ out.parent \in [Node -> Ids]
        /\ out.file \in [Node -> Capabilities] /\ out.modify \in [Node -> Capabilities]
        /\ out.free_name_element \in Int
    BY <1>2, StateFields
  <1>4. st.free_tree_node \in Ids /\ n \in Ids /\ None \in Ids /\ <<>> \in Seq(Part) /\ el \in Int
    BY StateFields, LiveFacts DEF el
  <1> DEFINE f == st.free_tree_node
  <1>5. /\ new.free_tree_node = n /\ new.free_name_element = out.free_name_element + el
        /\ new.file = out.file /\ new.modify = out.modify
        /\ new.name = [out.name EXCEPT ![n] = <<>>]
        /\ new.parent = [out.parent EXCEPT ![n] = None]
        /\ new.left_brother = [out.left_brother EXCEPT ![n] = None]
        /\ new.right_brother = [out.right_brother EXCEPT ![n] = f]
        /\ new.first_child = [out.first_child EXCEPT ![n] = None]
        /\ new.child_number = [out.child_number EXCEPT ![n] = 0]
    BY <1>1, <1>2 DEF TreeState
  <1>6. IsRecord(new)
    <2> DEFINE u1 == [out.name EXCEPT ![n] = <<>>]
               u2 == [out.parent EXCEPT ![n] = None]
               u3 == [out.left_brother EXCEPT ![n] = None]
               u4 == [out.first_child EXCEPT ![n] = None]
               u5 == [out.child_number EXCEPT ![n] = 0]
               u6 == [out.right_brother EXCEPT ![n] = f]
               whole == [out EXCEPT !.free_name_element = @ + el, !.name = u1, !.parent = u2,
                           !.left_brother = u3, !.first_child = u4, !.child_number = u5,
                           !.right_brother = u6, !.free_tree_node = n]
    <2>1. IsRecord(out)
      BY <1>2, StateIsRecord
    <2>2. IsRecord(whole)
      <3> HIDE DEF u1, u2, u3, u4, u5, u6, f
      <3> QED
        BY <2>1 DEF IsRecord, Fields
    <2>3. whole = new
      BY <1>1
    <2> QED
      BY <2>2, <2>3
  <1>7. new \in TreeState
    <2>1. /\ new.right_brother \in [Node -> Ids] /\ new.left_brother \in [Node -> Ids]
          /\ new.first_child \in [Node -> Ids] /\ new.child_number \in [Node -> Int]
      BY <1>3, <1>4, <1>5
    <2>2. /\ new.name \in [Node -> Seq(Part)] /\ new.parent \in [Node -> Ids]
          /\ new.file \in [Node -> Capabilities] /\ new.modify \in [Node -> Capabilities]
          /\ new.free_name_element \in Int /\ new.free_tree_node \in Ids
      BY <1>3, <1>4, <1>5
    <2> QED
      BY <1>6, <2>1, <2>2, RecordIsState
  <1>8. /\ new.right_brother[n] = f
        /\ \A x \in Node \ {n} :
             /\ new.right_brother[x] = out.right_brother[x]
             /\ new.left_brother[x] = out.left_brother[x]
             /\ new.first_child[x] = out.first_child[x]
             /\ new.child_number[x] = out.child_number[x]
    BY <1>3, <1>5
  <1>9. /\ new.free_tree_node = n /\ new.free_name_element = st.free_name_element + el
        /\ new.file = st.file /\ new.modify = st.modify
        /\ new.parent = [st.parent EXCEPT ![n] = None]
        /\ new.name = [st.name EXCEPT ![n] = <<>>]
    BY <1>2, <1>5 DEF Unlinked
  <1>10. \A x \in Node \ {n} :
           /\ new.right_brother[x] = IF x = st.left_brother[n] THEN st.right_brother[n]
                                     ELSE st.right_brother[x]
           /\ new.left_brother[x] = IF x = st.right_brother[n] THEN st.left_brother[n]
                                    ELSE st.left_brother[x]
    BY <1>2, <1>8 DEF Unlinked
  <1>11. \A x \in Node \ {n} :
           /\ new.first_child[x] = IF x # st.parent[n] THEN st.first_child[x]
                                   ELSE IF n = st.left_brother[n] THEN None
                                   ELSE IF st.first_child[x] = n THEN st.right_brother[n]
                                   ELSE st.first_child[x]
           /\ new.child_number[x] = IF x # st.parent[n] THEN st.child_number[x]
                                    ELSE IF n = st.left_brother[n] THEN 0
                                    ELSE st.child_number[x] - 1
    BY <1>2, <1>8 DEF Unlinked
  <1> QED
    BY <1>7, <1>8, <1>9, <1>10, <1>11 DEF Released, el, new
(* A leaf of the tree goes.                                                *)
Removes(st, new, n) ==
  /\ TreeInv(st)
  /\ n \in LiveIn(st) \ {Root}
  /\ Kids(st, n) = {}
  /\ Released(st, new, n)

(* A node below the root, and its brothers.                                *)
LEMMA InFamily ==
  ASSUME NEW st, TreeInv(st), NEW n \in LiveIn(st) \ {Root}
  PROVE  /\ st \in TreeState /\ n \in Node /\ n # None
         /\ st.parent[n] \in LiveIn(st) /\ st.parent[n] \in Node
         /\ FamilyOK(st, st.parent[n]) /\ n \in Kids(st, st.parent[n])
         /\ st.left_brother[n] \in Kids(st, st.parent[n])
         /\ st.right_brother[n] \in Kids(st, st.parent[n])
         /\ st.left_brother[n] \in Node /\ st.right_brother[n] \in Node
         /\ n = st.left_brother[n] => n = st.right_brother[n]
         /\ Elements(st.name[n]) \in Nat
  <1>1. n \in Node /\ n # None /\ st \in TreeState
    BY LiveFacts DEF TreeInv
  <1>2. st.parent[n] \in LiveIn(st) /\ st.parent[n] \in Node
    BY LiveFacts DEF TreeInv, Rooted
  <1>3. FamilyOK(st, st.parent[n]) /\ n \in Kids(st, st.parent[n])
    BY <1>1, <1>2 DEF TreeInv, FamiliesOK, Kids
  <1>4. IsRing(st.right_brother, st.left_brother, Kids(st, st.parent[n]))
    BY <1>3 DEF FamilyOK
  <1>5. /\ st.left_brother[n] \in Kids(st, st.parent[n])
        /\ st.right_brother[n] \in Kids(st, st.parent[n])
        /\ n = st.left_brother[n] => n = st.right_brother[n]
    BY <1>3, <1>4 DEF IsRing
  <1>6. st.left_brother[n] \in Node /\ st.right_brother[n] \in Node
    BY <1>5 DEF Kids
  <1>7. Elements(st.name[n]) \in Nat
    BY ElementsNat DEF TreeInv, Named
  <1> QED
    BY <1>1, <1>2, <1>3, <1>5, <1>6, <1>7

LEMMA ReleaseRemoves ==
  ASSUME NEW st, TreeInv(st), NEW n \in LiveIn(st) \ {Root}, Kids(st, n) = {}
  PROVE  Removes(st, ReleaseOne(st, n), n)
  <1>1. /\ st \in TreeState /\ n \in Node /\ st.parent[n] \in Node
        /\ st.left_brother[n] \in Node /\ st.right_brother[n] \in Node
        /\ n = st.left_brother[n] => n = st.right_brother[n]
        /\ Elements(st.name[n]) \in Int
    BY InFamily
  <1>2. Released(st, ReleaseOne(st, n), n)
    BY <1>1, ReleaseOneIs
  <1> QED
    BY <1>2 DEF Removes

LEMMA RemovesSets ==
  ASSUME NEW st, NEW new, NEW n, Removes(st, new, n)
  PROVE  /\ n \in LiveIn(st) /\ n # Root /\ n \in Node /\ n # None /\ new \in TreeState
         /\ st.parent[n] \in LiveIn(new) /\ st.parent[n] # n
         /\ LiveIn(new) = LiveIn(st) \ {n}
         /\ FreeIn(new) = FreeIn(st) \cup {n} /\ n \notin FreeIn(st)
         /\ Kids(new, st.parent[n]) = Kids(st, st.parent[n]) \ {n}
         /\ \A x \in Node \ {st.parent[n]} : Kids(new, x) = Kids(st, x)
         /\ \A x \in Node \ {n} : new.parent[x] = st.parent[x] /\ new.name[x] = st.name[x]
         /\ new.parent[n] = None
  <1>1. TreeInv(st) /\ n \in LiveIn(st) \ {Root} /\ Kids(st, n) = {} /\ Released(st, new, n)
    BY DEF Removes
  <1>2. /\ st \in TreeState /\ n \in Node /\ n # None /\ st.parent[n] \in LiveIn(st)
        /\ st.parent[n] \in Node
    BY <1>1, InFamily
  <1>3. st.parent \in [Node -> Ids] /\ st.name \in [Node -> Seq(Part)]
    BY <1>2, StateFields
  <1>4. /\ \A x \in Node \ {n} : new.parent[x] = st.parent[x] /\ new.name[x] = st.name[x]
        /\ new.parent[n] = None /\ new \in TreeState
    BY <1>1, <1>2, <1>3 DEF Released
  <1>5. st.parent[n] # n
    BY <1>1, <1>2 DEF Kids
  <1>6. LiveIn(new) = LiveIn(st) \ {n}
    BY <1>1, <1>2, <1>4 DEF LiveIn
  <1>7. FreeIn(new) = FreeIn(st) \cup {n} /\ n \notin FreeIn(st)
    BY <1>1, <1>2, <1>6 DEF FreeIn
  <1>8. st.parent[n] # None
    BY <1>2, NodeFinite
  <1>9. Kids(new, st.parent[n]) = Kids(st, st.parent[n]) \ {n}
    BY <1>2, <1>4, <1>8 DEF Kids
  <1>10. \A x \in Node \ {st.parent[n]} : Kids(new, x) = Kids(st, x)
    BY <1>2, <1>4, NodeFinite DEF Kids
  <1> QED
    BY <1>1, <1>2, <1>4, <1>5, <1>6, <1>7, <1>9, <1>10

LEMMA RemovesFree ==
  ASSUME NEW st, NEW new, NEW n, Removes(st, new, n)
  PROVE  FreeOK(new)
  <1>1. /\ FreeIn(new) = FreeIn(st) \cup {n} /\ n \notin FreeIn(st) /\ n # None /\ n \in Node
        /\ n \in LiveIn(st) \ {Root}
    BY RemovesSets
  <1>2. TreeInv(st) /\ Released(st, new, n)
    BY DEF Removes
  <1>3. IsList(st.right_brother, st.free_tree_node, FreeIn(st)) /\ None \notin FreeIn(st)
    BY <1>2, LiveFacts DEF TreeInv, FreeOK
  <1>4. st.left_brother[n] \in LiveIn(st)
    BY <1>1, <1>2, InFamily, LiveFacts
  <1>5. \A x \in FreeIn(st) : new.right_brother[x] = st.right_brother[x]
    BY <1>1, <1>2, <1>4 DEF Released, FreeIn
  <1>6. new.right_brother[n] = st.free_tree_node /\ new.free_tree_node = n
    BY <1>2 DEF Released
  <1>7. IsList(new.right_brother, n, FreeIn(st) \cup {n})
    BY <1>1, <1>3, <1>5, <1>6, ListPush
  <1> QED
    BY <1>1, <1>6, <1>7 DEF FreeOK

LEMMA RemovesFamilyOfParent ==
  ASSUME NEW st, NEW new, NEW n, Removes(st, new, n)
  PROVE  FamilyOK(new, st.parent[n])
  <1> DEFINE up == st.parent[n]
             left == st.left_brother[n]
             right == st.right_brother[n]
             K == Kids(st, up)
  <1>1. TreeInv(st) /\ Released(st, new, n) /\ n \in LiveIn(st) \ {Root}
    BY DEF Removes
  <1>2. /\ n \in Node /\ n # None /\ up \in Node /\ up # n /\ Kids(new, up) = K \ {n}
    BY <1>1, RemovesSets, InFamily
  <1>3. FamilyOK(st, up) /\ n \in K /\ left \in K /\ right \in K
    BY <1>1, InFamily
  <1>4. K \subseteq Node
    BY DEF Kids
  <1>5. IsRing(st.right_brother, st.left_brother, K) /\ st.child_number[up] = Cardinality(K)
        /\ st.first_child[up] \in K
    BY <1>3 DEF FamilyOK
  <1>6. Cardinality(K \ {n}) = Cardinality(K) - 1
    <2>1. IsFiniteSet(K)
      BY <1>4, NodeFinite, FS_Subset
    <2> QED
      BY <1>3, <2>1, FS_RemoveElement
  <1> HIDE DEF K, up
  <1>7. CASE left = n
    <2>1. K = {n}
      BY <1>3, <1>5, <1>7, RingAlone
    <2>2. K \ {n} = {} /\ Cardinality({}) = 0
      BY <2>1, FS_EmptySet
    <2>3. new.first_child[up] = None /\ new.child_number[up] = 0
      BY <1>1, <1>2, <1>7 DEF Released, up
    <2> QED
      BY <1>2, <2>2, <2>3 DEF FamilyOK, IsRing, up
  <1>8. CASE left # n
    <2>1. \A x \in K \ {n} : /\ new.right_brother[x] = IF x = left THEN right ELSE st.right_brother[x]
                             /\ new.left_brother[x] = IF x = right THEN left ELSE st.left_brother[x]
      BY <1>1, <1>4 DEF Released
    <2>2. IsRing(new.right_brother, new.left_brother, K \ {n})
      BY <1>3, <1>5, <1>8, <2>1, RingRemove
    <2>3. /\ new.first_child[up] = IF st.first_child[up] = n THEN right ELSE st.first_child[up]
          /\ new.child_number[up] = Cardinality(K) - 1
      BY <1>1, <1>2, <1>5, <1>8 DEF Released, up
    <2>4. right # n
      BY <1>3, <1>5, <1>8, RingAlone
    <2>5. new.first_child[up] \in K \ {n} /\ new.first_child[up] # None
      BY <1>3, <1>4, <1>5, <2>3, <2>4, NodeFinite
    <2> QED
      BY <1>2, <1>6, <2>2, <2>3, <2>5 DEF FamilyOK, up
  <1> QED
    BY <1>7, <1>8

LEMMA RemovesFamilies ==
  ASSUME NEW st, NEW new, NEW n, Removes(st, new, n)
  PROVE  FamiliesOK(new)
  <1> SUFFICES ASSUME NEW x \in LiveIn(new)
               PROVE  FamilyOK(new, x)
    BY DEF FamiliesOK
  <1> DEFINE up == st.parent[n]
  <1>1. TreeInv(st) /\ Released(st, new, n) /\ n \in LiveIn(st) \ {Root}
    BY DEF Removes
  <1>2. /\ n \in Node /\ x \in LiveIn(st) \ {n} /\ x \in Node /\ up \in Node
        /\ (x # up => Kids(new, x) = Kids(st, x)) /\ Kids(st, n) = {}
    BY <1>1, RemovesSets, LiveFacts, InFamily DEF Removes
  <1>3. CASE x = up
    BY <1>3, RemovesFamilyOfParent
  <1>4. CASE x # up
    <2>1. FamilyOK(st, x)
      BY <1>1, <1>2 DEF TreeInv, FamiliesOK
    <2>2. st.left_brother[n] \in Kids(st, up) /\ st.right_brother[n] \in Kids(st, up)
          /\ n \in Kids(st, up)
      BY <1>1, InFamily
    <2>3. \A c \in Kids(st, x) : /\ c \in Node \ {n}
                                 /\ c # st.left_brother[n] /\ c # st.right_brother[n]
      BY <1>4, <2>2 DEF Kids
    <2>4. \A c \in Kids(st, x) : /\ new.right_brother[c] = st.right_brother[c]
                                 /\ new.left_brother[c] = st.left_brother[c]
      BY <1>1, <2>3 DEF Released
    <2>5. IsRing(new.right_brother, new.left_brother, Kids(st, x))
      BY <2>1, <2>4, RingSame DEF FamilyOK
    <2>6. new.first_child[x] = st.first_child[x] /\ new.child_number[x] = st.child_number[x]
      BY <1>1, <1>2, <1>4 DEF Released
    <2> QED
      BY <1>2, <1>4, <2>1, <2>5, <2>6 DEF FamilyOK
  <1> QED
    BY <1>3, <1>4

LEMMA RemovesRest ==
  ASSUME NEW st, NEW new, NEW n, Removes(st, new, n)
  PROVE  AllDistinct(new) /\ Rooted(new) /\ Named(new)
  <1> DEFINE up == st.parent[n]
  <1>1. AllDistinct(st) /\ Rooted(st) /\ Named(st)
    BY DEF Removes, TreeInv
  <1>2. /\ n \in LiveIn(st) /\ n # Root /\ n \in Node /\ LiveIn(new) = LiveIn(st) \ {n}
        /\ Kids(new, up) = Kids(st, up) \ {n}
        /\ \A x \in Node \ {up} : Kids(new, x) = Kids(st, x)
        /\ \A x \in Node \ {n} : new.parent[x] = st.parent[x] /\ new.name[x] = st.name[x]
    BY RemovesSets
  <1>3. LiveIn(st) \subseteq Node /\ Root \in Node
    BY LiveFacts, NodeFinite
  <1>4. Kids(st, n) = {}
    BY DEF Removes
  <1> HIDE DEF up
  <1>5. ASSUME NEW x \in LiveIn(new), NEW c \in Kids(new, x), NEW d \in Kids(new, x),
               c # d, new.name[c] = new.name[d]
        PROVE  Len(new.name[c]) > 1
    <2>1. x \in LiveIn(st) /\ x \in Node /\ c \in Kids(st, x) /\ d \in Kids(st, x)
      BY <1>2, <1>3
    <2>2. c # n /\ d # n /\ c \in Node /\ d \in Node
      <3>1. n \notin Kids(new, x)
        BY RemovesSets, LiveFacts DEF Kids
      <3> QED
        BY <3>1 DEF Kids
    <2> QED
      BY <1>1, <1>2, <1>5, <2>1, <2>2 DEF AllDistinct, Distinct
  <1>6. new.parent[Root] = None
    BY <1>1, <1>2, <1>3 DEF Rooted
  <1>7. ASSUME NEW x \in LiveIn(new) \ {Root}
        PROVE  new.parent[x] \in LiveIn(new)
    <2>1. x \in Node \ {n} /\ x \in LiveIn(st) \ {Root} /\ new.parent[x] = st.parent[x]
      BY <1>2, <1>3
    <2>2. st.parent[x] \in LiveIn(st) /\ st.parent[x] # n
      BY <1>1, <1>4, <2>1 DEF Rooted, Kids
    <2> QED
      BY <1>2, <2>1, <2>2
  <1>8. ASSUME NEW Q \in SUBSET (LiveIn(new) \ {Root}), Q # {}
        PROVE  \E x \in Q : new.parent[x] \notin Q
    <2>1. Q \in SUBSET (LiveIn(st) \ {Root})
      BY <1>2
    <2>2. PICK x \in Q : st.parent[x] \notin Q
      BY <1>1, <1>8, <2>1 DEF Rooted
    <2> QED
      BY <1>2, <1>3, <2>1, <2>2
  <1>9. Named(new)
    BY <1>1, <1>2, <1>3 DEF Named
  <1> QED
    BY <1>5, <1>6, <1>7, <1>8, <1>9 DEF AllDistinct, Distinct, Rooted

LEMMA RemovesKeeps ==
  ASSUME NEW st, NEW new, NEW n, Removes(st, new, n)
  PROVE  TreeInv(new)
  BY RemovesSets, RemovesFree, RemovesFamilies, RemovesRest DEF TreeInv
-----------------------------------------------------------------------------
(* What a subtree loses.                                                   *)

(* A node without a first child has no children, and one is on the way down*)
(* from every node: otherwise the nodes on that way would be each the first*)
(* child of another of them, and none of them the root.                    *)
LEMMA LeafExists ==
  ASSUME NEW st, TreeInv(st), NEW n \in LiveIn(st)
  PROVE  \E leaf \in Chain(st.first_child, n) : st.first_child[leaf] = None
  <1> DEFINE C == Chain(st.first_child, n)
             fc == st.first_child
  <1>1. /\ st \in TreeState /\ fc \in [Node -> Ids] /\ n \in Ids /\ n # None
        /\ LiveIn(st) \subseteq Node
    BY StateFields, LiveFacts DEF TreeInv
  <1>2. \A x \in LiveIn(st) : fc[x] \in Kids(st, x) \cup {None}
    BY DEF TreeInv, FamiliesOK, FamilyOK
  <1>3. C \subseteq LiveIn(st)
    <2>1. Closed(fc, LiveIn(st))
      BY <1>1, <1>2, LiveFacts DEF Closed
    <2> QED
      BY <1>1, <2>1, ChainLeast
  <1>4. Closed(fc, C) /\ n \in C
    BY <1>1, ChainClosed
  <1> HIDE DEF C, fc
  <1>5. ASSUME \A x \in C : fc[x] # None
        PROVE  FALSE
    <2> DEFINE down == [x \in C |-> fc[x]]
    <2>1. \A x \in C : fc[x] \in C /\ st.parent[fc[x]] = x
      BY <1>2, <1>3, <1>4, <1>5 DEF Closed, Kids
    <2>2. down \in Injection(C, C)
      <3>1. down \in [C -> C]
        BY <2>1
      <3>2. \A x, y \in C : down[x] = down[y] => x = y
        BY <2>1
      <3> QED
        BY <3>1, <3>2 DEF Injection, IsInjective
    <2>3. IsFiniteSet(C)
      BY <1>1, <1>3, NodeFinite, FS_Subset
    <2> HIDE DEF down
    <2>4. down \in Surjection(C, C)
      BY <2>2, <2>3, FS_Injection
    <2>5. \A y \in C : \E x \in C : fc[x] = y
      BY <2>4 DEF Surjection, down
    <2>6. \A y \in C : st.parent[y] \in C
      BY <2>1, <2>5
    <2>7. Root \notin C
      BY <1>3, <2>6, LiveFacts DEF TreeInv, Rooted
    <2>8. C \in SUBSET (LiveIn(st) \ {Root}) /\ C # {}
      BY <1>3, <1>4, <2>7
    <2> QED
      BY <2>6, <2>8 DEF TreeInv, Rooted
  <1> QED
    BY <1>5 DEF C, fc

LEMMA FirstLeafIs ==
  ASSUME NEW st, TreeInv(st), NEW n \in LiveIn(st), st.first_child[n] # None
  PROVE  /\ FirstLeaf(st, n) \in LiveIn(st) \ {Root} /\ FirstLeaf(st, n) # n
         /\ Kids(st, FirstLeaf(st, n)) = {}
  <1> DEFINE C == Chain(st.first_child, n)
             leaf == FirstLeaf(st, n)
  <1>1. /\ st.first_child \in [Node -> Ids] /\ n \in Ids /\ n # None
        /\ LiveIn(st) \subseteq Node /\ st \in TreeState
    BY StateFields, LiveFacts DEF TreeInv
  <1>2. leaf \in C /\ st.first_child[leaf] = None
    <2>1. \E x \in C : st.first_child[x] = None
      BY LeafExists
    <2> QED
      BY <2>1 DEF FirstLeaf
  <1>3. C \subseteq {n} \cup (LiveIn(st) \ {Root})
    <2> DEFINE R == {n} \cup (LiveIn(st) \ {Root})
    <2>1. \A x \in LiveIn(st) : st.first_child[x] \in Kids(st, x) \cup {None}
      BY DEF TreeInv, FamiliesOK, FamilyOK
    <2>2. \A x \in LiveIn(st) : Kids(st, x) \subseteq LiveIn(st) \ {Root}
      <3> SUFFICES ASSUME NEW x \in LiveIn(st), NEW c \in Kids(st, x)
                   PROVE  c \in LiveIn(st) \ {Root}
        OBVIOUS
      <3>1. c \in Node /\ st.parent[c] = x /\ x # None
        BY LiveFacts DEF Kids
      <3>2. st.parent[Root] = None
        BY DEF TreeInv, Rooted
      <3> QED
        BY <3>1, <3>2 DEF LiveIn
    <2>3. Closed(st.first_child, R)
      BY <2>1, <2>2 DEF Closed
    <2> HIDE DEF R
    <2>4. C \subseteq R
      BY <1>1, <2>3, ChainLeast DEF R
    <2> QED
      BY <2>4 DEF R
  <1> HIDE DEF C, leaf
  <1>4. leaf # n
    BY <1>2
  <1>5. leaf \in LiveIn(st) \ {Root}
    BY <1>2, <1>3, <1>4
  <1>6. Kids(st, leaf) = {}
    BY <1>2, <1>5 DEF TreeInv, FamiliesOK, FamilyOK
  <1> QED
    BY <1>4, <1>5, <1>6 DEF leaf

(* One turn of the loop that empties a subtree.                            *)
Turn(st, n) == IF st.first_child[n] = None THEN st ELSE ReleaseOne(st, FirstLeaf(st, n))

LEMMA TurnKeeps ==
  ASSUME NEW st, TreeInv(st), NEW n \in LiveIn(st)
  PROVE  TreeInv(Turn(st, n)) /\ n \in LiveIn(Turn(st, n))
  <1>1. CASE st.first_child[n] = None
    BY <1>1 DEF Turn
  <1>2. CASE st.first_child[n] # None
    <2> DEFINE leaf == FirstLeaf(st, n)
               new  == ReleaseOne(st, leaf)
    <2>1. leaf \in LiveIn(st) \ {Root} /\ leaf # n /\ Kids(st, leaf) = {}
      BY <1>2, FirstLeafIs
    <2> HIDE DEF leaf
    <2>2. Removes(st, new, leaf)
      BY <2>1, ReleaseRemoves
    <2> HIDE DEF new
    <2>3. TreeInv(new) /\ LiveIn(new) = LiveIn(st) \ {leaf}
      BY <2>2, RemovesKeeps, RemovesSets
    <2> QED
      BY <1>2, <2>1, <2>3 DEF Turn, new, leaf
  <1> QED
    BY <1>1, <1>2

(* The turns: ReleaseBelow is the last of MaxNode of them.                 *)
Emptying(st, n, w) ==
  /\ w[0] = st
  /\ \A k \in 1..MaxNode : w[k] = Turn(w[k - 1], n)

LEMMA ReleaseBelowIs ==
  ASSUME NEW st, TreeInv(st), NEW n \in LiveIn(st)
  PROVE  \E w : Emptying(st, n, w) /\ ReleaseBelow(st, n) = w[MaxNode]
  <1> DEFINE U == {s \in TreeState : TreeInv(s) /\ n \in LiveIn(s)}
             D == [ku \in (1..MaxNode) \X U |-> Turn(ku[2], n)]
             Rec(w) == w = [k \in 0..MaxNode |->
                              IF k = 0 THEN st
                              ELSE IF w[k - 1].first_child[n] = None THEN w[k - 1]
                                   ELSE ReleaseOne(w[k - 1], FirstLeaf(w[k - 1], n))]
             W == CHOOSE w : Rec(w)
  <1>1. MaxNode \in Nat
    BY NodeFinite
  <1>2. ReleaseBelow(st, n) = W[MaxNode]
    BY DEF ReleaseBelow
  <1>3. st \in U
    BY DEF TreeInv
  <1>4. ASSUME NEW k \in 1..MaxNode, NEW u \in U
        PROVE  D[<<k, u>>] = Turn(u, n) /\ D[<<k, u>>] \in U
    <2>1. Turn(u, n) \in U
      BY TurnKeeps DEF TreeInv
    <2> QED
      BY <2>1
  <1> HIDE DEF D, U
  <1>5. StaysIn(D, MaxNode, U)
    BY <1>4 DEF StaysIn
  <1>6. PICK g \in [0..MaxNode -> U] : Follows(g, MaxNode, st, D)
    BY <1>1, <1>3, <1>5, RecursionExists
  <1>7. Rec(g)
    <2>1. ASSUME NEW k \in 0..MaxNode, k # 0
          PROVE  D[<<k, g[k - 1]>>] = Turn(g[k - 1], n)
      <3>1. k \in 1..MaxNode /\ k - 1 \in 0..MaxNode
        BY <1>1, <2>1
      <3> QED
        BY <3>1, <1>4
    <2>2. g = [k \in 0..MaxNode |-> IF k = 0 THEN st ELSE Turn(g[k - 1], n)]
      BY <1>6, <2>1 DEF Follows
    <2> QED
      BY <2>2 DEF Turn
  <1>8. Rec(W)
    BY <1>7
  <1> HIDE DEF W
  <1>9. Emptying(st, n, W)
    BY <1>1, <1>8 DEF Emptying, Turn
  <1> QED
    BY <1>2, <1>9

LEMMA ReleaseBelowKeeps ==
  ASSUME NEW st, TreeInv(st), NEW n \in LiveIn(st)
  PROVE  TreeInv(ReleaseBelow(st, n)) /\ n \in LiveIn(ReleaseBelow(st, n))
  <1>1. PICK w : Emptying(st, n, w) /\ ReleaseBelow(st, n) = w[MaxNode]
    BY ReleaseBelowIs
  <1> DEFINE Z == {k \in 0..MaxNode : TreeInv(w[k]) /\ n \in LiveIn(w[k])}
  <1>2. MaxNode \in Nat
    BY NodeFinite
  <1>3. 0 \in Z
    BY <1>1, <1>2 DEF Emptying
  <1>4. ASSUME NEW k \in 1..MaxNode, k - 1 \in Z
        PROVE  k \in Z
    <2>1. TreeInv(w[k - 1]) /\ n \in LiveIn(w[k - 1]) /\ k \in 0..MaxNode
      BY <1>2, <1>4
    <2>2. TreeInv(Turn(w[k - 1], n)) /\ n \in LiveIn(Turn(w[k - 1], n))
      BY <2>1, TurnKeeps
    <2> QED
      BY <1>1, <2>1, <2>2 DEF Emptying
  <1> HIDE DEF Z
  <1>5. \A k \in 0..MaxNode : k \in Z
    BY <1>2, <1>3, <1>4, BoundedInduction
  <1> QED
    BY <1>1, <1>2, <1>5 DEF Z
-----------------------------------------------------------------------------
(* A search ends at a node of the tree.                                    *)
Spot(st) == [node : LiveIn(st), rest : Names]

LEMMA EndIsName == End \in Names
  BY DEF End, Names, Part

LEMMA NameLen ==
  ASSUME NEW s \in Names
  PROVE  /\ s \in Seq(Part) /\ Len(s) \in Nat \ {0} /\ s[1] \in Part /\ s[Len(s)] \in Part
         /\ Len(s) = 1 => s = <<s[1]>>
  BY DEF Names

LEMMA PrefixIsName ==
  ASSUME NEW s \in Names, NEW k \in 1..Len(s)
  PROVE  /\ SubSeq(s, 1, k) \in Names /\ Len(SubSeq(s, 1, k)) = k
         /\ \A i \in 1..k : SubSeq(s, 1, k)[i] = s[i]
  <1>1. s \in Seq(Part) /\ Len(s) \in Nat /\ k \in Nat \ {0} /\ k <= Len(s)
    BY NameLen
  <1>2. /\ SubSeq(s, 1, k) \in Seq(Part) /\ Len(SubSeq(s, 1, k)) = k
        /\ \A i \in 1..k : SubSeq(s, 1, k)[i] = s[i]
    BY <1>1
  <1>3. SubSeq(s, 1, k) # <<>>
    <2>1. Len(<<>>) = 0 /\ Len(SubSeq(s, 1, k)) # 0
      BY <1>1, <1>2
    <2> QED
      BY <2>1
  <1> QED
    BY <1>2, <1>3 DEF Names

LEMMA TailIsName ==
  ASSUME NEW s \in Names, Len(s) # 1
  PROVE  Tail(s) \in Names /\ Len(Tail(s)) = Len(s) - 1 /\ Len(s) > 1
  <1>1. s \in Seq(Part) /\ s # <<>>
    BY DEF Names
  <1>2. Len(s) \in Nat /\ Len(s) # 0
    BY <1>1
  <1>3. Tail(s) \in Seq(Part) /\ Len(Tail(s)) = Len(s) - 1
    BY <1>1
  <1>4. Tail(s) # <<>>
    <2>1. Len(<<>>) = 0 /\ Len(Tail(s)) # 0
      BY <1>2, <1>3
    <2> QED
      BY <2>1
  <1> QED
    BY <1>2, <1>3, <1>4 DEF Names

LEMMA DownStays ==
  ASSUME NEW st, TreeInv(st), NEW at \in Spot(st)
  PROVE  Down(st, at) \in Spot(st)
  <1>1. at.node \in LiveIn(st) /\ at.rest \in Names
    BY DEF Spot
  <1> DEFINE found == Called(st, at.node, Head(at.rest))
             rest  == IF Len(at.rest) = 1 THEN End ELSE Tail(at.rest)
  <1>2. found \subseteq LiveIn(st)
    <2>1. Children(st, at.node) = Kids(st, at.node)
      BY <1>1, ChildrenAre DEF TreeInv
    <2> QED
      BY <1>1, <2>1, LiveFacts DEF Called
  <1>3. rest \in Names
    <2>1. Len(at.rest) # 1 => Tail(at.rest) \in Names
      BY <1>1, TailIsName
    <2> QED
      BY <2>1, EndIsName
  <1>4. Down(st, at) = IF found = {} THEN at
                       ELSE [node |-> CHOOSE c \in found : TRUE, rest |-> rest]
    BY DEF Down
  <1> HIDE DEF found, rest
  <1> QED
    BY <1>2, <1>3, <1>4 DEF Spot

(* The places the search comes to, one for every part of the path.         *)
Descent(st, n, path, w) ==
  /\ w \in [0..Len(path) -> Spot(st)]
  /\ w[0] = [node |-> n, rest |-> path]
  /\ \A k \in 1..Len(path) : w[k] = Down(st, w[k - 1])

LEMMA SearchPartIs ==
  ASSUME NEW st, TreeInv(st), NEW n \in LiveIn(st), NEW path \in Names
  PROVE  \E w : Descent(st, n, path, w) /\ SearchPart(st, n, path) = w[Len(path)]
  <1> DEFINE m == Len(path)
             U == Spot(st)
             first == [node |-> n, rest |-> path]
             D == [ku \in (1..m) \X U |-> Down(st, ku[2])]
             Rec(w) == w = [k \in 0..m |-> IF k = 0 THEN [node |-> n, rest |-> path]
                                           ELSE Down(st, w[k - 1])]
             W == CHOOSE w : Rec(w)
  <1>1. m \in Nat
    BY DEF Names
  <1>2. SearchPart(st, n, path) = W[m]
    BY DEF SearchPart
  <1>3. first \in U
    BY DEF Spot
  <1>4. ASSUME NEW k \in 1..m, NEW u \in U
        PROVE  D[<<k, u>>] = Down(st, u) /\ D[<<k, u>>] \in U
    BY DownStays
  <1> HIDE DEF D, U, first, m
  <1>5. StaysIn(D, m, U)
    BY <1>4 DEF StaysIn
  <1>6. PICK g \in [0..m -> U] : Follows(g, m, first, D)
    BY <1>1, <1>3, <1>5, RecursionExists
  <1>7. Rec(g)
    <2>1. ASSUME NEW k \in 0..m, k # 0
          PROVE  D[<<k, g[k - 1]>>] = Down(st, g[k - 1])
      <3>1. k \in 1..m /\ k - 1 \in 0..m
        BY <1>1, <2>1
      <3> QED
        BY <3>1, <1>4
    <2> QED
      BY <1>6, <2>1 DEF Follows, first
  <1>8. Rec(W)
    BY <1>7
  <1> HIDE DEF W
  <1>9. /\ W[0] = first
        /\ \A k \in 1..m : k - 1 \in 0..m /\ k \in 0..m /\ W[k] = Down(st, W[k - 1])
    BY <1>1, <1>8 DEF first
  <1> DEFINE Z == {k \in 0..m : W[k] \in U}
  <1>10. 0 \in Z
    BY <1>1, <1>3, <1>9
  <1>11. ASSUME NEW k \in 1..m, k - 1 \in Z
         PROVE  k \in Z
    <2>1. W[k - 1] \in U
      BY <1>11
    <2>2. Down(st, W[k - 1]) \in U
      BY <2>1, DownStays DEF U
    <2> QED
      BY <1>9, <2>2
  <1> HIDE DEF Z
  <1>12. \A k \in 0..m : k \in Z
    BY <1>1, <1>10, <1>11, BoundedInduction
  <1>13. W \in [0..m -> U]
    BY <1>8, <1>12 DEF Z
  <1> QED
    BY <1>2, <1>9, <1>13 DEF Descent, m, U, first

LEMMA SearchFinds ==
  ASSUME NEW st, TreeInv(st), NEW n \in LiveIn(st), NEW path \in Names
  PROVE  Search(st, n, path) \in LiveIn(st) \cup {None}
  <1>1. PICK w : Descent(st, n, path, w) /\ SearchPart(st, n, path) = w[Len(path)]
    BY SearchPartIs
  <1>2. Len(path) \in Nat
    BY DEF Names
  <1>3. SearchPart(st, n, path) \in Spot(st)
    BY <1>1, <1>2 DEF Descent
  <1> QED
    BY <1>3 DEF Search, Spot

(* A child called like the only part of a name is found.                   *)
LEMMA SearchFindsChild ==
  ASSUME NEW st, TreeInv(st), NEW n \in LiveIn(st), NEW name \in Names, Len(name) = 1,
         NEW c \in Kids(st, n), st.name[c] = name
  PROVE  Search(st, n, name) # None
  <1>1. PICK w : Descent(st, n, name, w) /\ SearchPart(st, n, name) = w[Len(name)]
    BY SearchPartIs
  <1> DEFINE first == [node |-> n, rest |-> name]
             found == Called(st, n, Head(name))
  <1>2. SearchPart(st, n, name) = Down(st, first)
    BY <1>1 DEF Descent
  <1>3. name = <<Head(name)>>
    BY DEF Names
  <1>4. c \in found
    <2>1. Children(st, n) = Kids(st, n)
      BY ChildrenAre DEF TreeInv
    <2> QED
      BY <1>3, <2>1 DEF Called
  <1>5. Down(st, first) = [node |-> CHOOSE x \in found : TRUE, rest |-> End]
    BY <1>4 DEF Down
  <1>6. Search(st, n, name) = CHOOSE x \in found : TRUE
    BY <1>2, <1>5 DEF Search
  <1>7. found \subseteq Node
    <2>1. Children(st, n) = Kids(st, n)
      BY ChildrenAre DEF TreeInv
    <2> QED
      BY <2>1 DEF Called, Kids
  <1> HIDE DEF found
  <1> QED
    BY <1>4, <1>6, <1>7, NodeFinite
-----------------------------------------------------------------------------
(* The requests.                                                           *)

LEMMA PathFacts ==
  ASSUME NEW path \in Path
  PROVE  /\ path \in Names /\ LastName(path) \in Names
         /\ ~IsWhole(path) => SubSeq(path, 1, Len(path) - 1) \in Names /\ Len(LastName(path)) = 1
         /\ IsWhole(path) => Len(LastName(path)) \in {1, 2}
  <1>1. path \in Seq(Part) /\ path # <<>>
    BY NameTreeAssumption DEF Part
  <1>2. Len(path) \in Nat \ {0} /\ path[Len(path)] \in Part
    BY <1>1
  <1>3. <<path[Len(path)]>> \in Names
    BY <1>2 DEF Names
  <1>4. ASSUME ~IsWhole(path)
        PROVE  SubSeq(path, 1, Len(path) - 1) \in Names
    <2>1. Len(path) # 1 /\ path \in Names
      BY <1>1, <1>4 DEF IsWhole, Names
    <2>2. Len(path) - 1 \in 1..Len(path)
      <3>1. Len(path) \in Nat \ {0}
        BY <1>2
      <3> QED
        BY <2>1, <3>1
    <2> QED
      BY <2>1, <2>2, PrefixIsName
  <1> QED
    BY <1>1, <1>3, <1>4 DEF Names, LastName, IsWhole

(* Where a path is cut, and what is there already.                         *)
LEMMA ParentIs ==
  ASSUME NEW st, TreeInv(st), NEW path \in Path
  PROVE  Parent(st, path) \in LiveIn(st) \cup {None}
  BY PathFacts, SearchFinds, LiveFacts DEF Parent

LEMMA CreateInserts ==
  ASSUME NEW st, TreeInv(st), NEW parent \in LiveIn(st), NEW name \in Names,
         NEW f \in Capabilities, NEW c \in Capabilities,
         Search(st, parent, name) = None, st.free_tree_node # None
  PROVE  Adds(st, Insert(st, parent, name, f, c), parent, name, st.free_tree_node)
  <1> DEFINE n == st.free_tree_node
  <1>1. st \in TreeState /\ FamilyOK(st, parent) /\ LiveIn(st) \subseteq Node /\ parent \in Node
    BY LiveFacts DEF TreeInv, FamiliesOK
  <1>2. n \in FreeIn(st) /\ n \in Node /\ n \notin LiveIn(st) /\ n # parent
    BY LiveFacts DEF TreeInv, FreeOK, IsList, FreeIn
  <1>3. LeftOf(st, parent) \in LiveIn(st) \cup {None}
    BY <1>1, LiveFacts DEF FamilyOK, LeftOf
  <1>4. LeftOf(st, parent) # None => RightOf(st, parent) \in LiveIn(st)
    <2>1. LeftOf(st, parent) # None => RightOf(st, parent) \in Kids(st, parent)
      BY <1>1 DEF FamilyOK, LeftOf, RightOf, IsRing
    <2> QED
      BY <1>1, <2>1, LiveFacts
  <1>5. n # None
    BY <1>2, NodeFinite
  <1>6. Elements(name) \in Int /\ name \in Seq(Part)
    BY ElementsNat DEF Names
  <1>7. Inserted(st, Insert(st, parent, name, f, c), parent, name, n)
    <2>1. n \in Node \ {parent} /\ LeftOf(st, parent) # n
      BY <1>2, <1>3, <1>5
    <2>2. LeftOf(st, parent) # None => RightOf(st, parent) # n
      BY <1>2, <1>4
    <2> QED
      BY <1>1, <1>6, <2>1, <2>2, InsertIs
  <1>8. ASSUME NEW x \in Kids(st, parent), st.name[x] = name, ~(Len(name) > 1)
        PROVE  FALSE
    <2>1. PICK l \in Nat \ {0} : l = Len(name)
      BY NameLen
    <2>2. ~(l > 1)
      BY <1>8, <2>1
    <2>3. l = 1
      BY <2>2
    <2> QED
      BY <1>8, <2>1, <2>3, SearchFindsChild
  <1> QED
    BY <1>5, <1>7, <1>8 DEF Adds

(* What an addition does: nothing to the tree, or it adds a node with the  *)
(* last part of the path below the node the rest of the path leads to.     *)
Grows(st, new, path, f, c) ==
  /\ Search(st, Parent(st, path), LastName(path)) = None
  /\ Adds(st, new, Parent(st, path), LastName(path), st.free_tree_node)
  /\ new = Insert(st, Parent(st, path), LastName(path), f, c)
  /\ Elements(LastName(path)) <= st.free_name_element

LEMMA CreateDoes ==
  ASSUME NEW st, TreeInv(st), NEW path \in Path, NEW given \in Capability,
         NEW f \in File, NEW c \in Capability
  PROVE  \/ SameTree(st, Create(st, path, given, f, c))
         \/ Grows(st, Create(st, path, given, f, c), path, f, c)
  <1> DEFINE parent == Parent(st, path)
             name == LastName(path)
             same == Search(st, parent, name)
             new  == Create(st, path, given, f, c)
  <1>1. st \in TreeState /\ f \in Capabilities /\ c \in Capabilities /\ name \in Names
    BY NameTreeAssumption, PathFacts DEF TreeInv, Capabilities
  <1>2. parent # None => parent \in LiveIn(st)
    BY ParentIs
  <1>3. parent # None /\ same # None => same \in Node
    BY <1>1, <1>2, SearchFinds, LiveFacts
  <1>4. ASSUME NEW s, s = [st EXCEPT !.file[Root] = f, !.modify[Root] = c]
        PROVE  SameTree(st, s)
    BY <1>1, <1>4 DEF TreeState, SameTree
  <1>5. ASSUME NEW x \in Node, NEW s, s = [st EXCEPT !.modify[x] = c]
        PROVE  SameTree(st, s)
    BY <1>1, <1>5 DEF TreeState, SameTree
  <1>6. SameTree(st, st)
    BY <1>1 DEF SameTree
  <1>7. \/ new = st
        \/ new = [st EXCEPT !.file[Root] = f, !.modify[Root] = c]
        \/ parent # None /\ same # None /\ new = [st EXCEPT !.modify[same] = c]
        \/ /\ parent # None /\ same = None /\ st.free_tree_node # None
           /\ ~(Elements(name) > st.free_name_element)
           /\ new = Insert(st, parent, name, f, c)
    BY DEF Create
  <1> HIDE DEF parent, name, same, new
  <1>8. ASSUME parent # None, same = None, st.free_tree_node # None,
               ~(Elements(name) > st.free_name_element),
               new = Insert(st, parent, name, f, c)
        PROVE  Grows(st, new, path, f, c)
    <2>1. Adds(st, new, parent, name, st.free_tree_node)
      BY <1>1, <1>2, <1>8, CreateInserts DEF same
    <2>2. PICK e \in Nat : e = Elements(name)
      BY <1>1, ElementsNat
    <2>3. PICK b \in Int : b = st.free_name_element
      BY <1>1, StateFields
    <2>4. e <= b
      BY <1>8, <2>2, <2>3
    <2> QED
      BY <1>8, <2>1, <2>2, <2>3, <2>4 DEF Grows, parent, name, same
  <1>9. SameTree(st, new) \/ Grows(st, new, path, f, c)
    BY <1>3, <1>4, <1>5, <1>6, <1>7, <1>8
  <1> QED
    BY <1>9 DEF new

LEMMA CreateKeeps ==
  ASSUME NEW st, TreeInv(st), NEW path \in Path, NEW given \in Capability,
         NEW f \in File, NEW c \in Capability
  PROVE  TreeInv(Create(st, path, given, f, c))
  BY CreateDoes, SameTreeKeeps, AddsKeeps DEF Grows

LEMMA ReleaseKeeps ==
  ASSUME NEW st, TreeInv(st), NEW path \in Path, NEW with_children \in BOOLEAN,
         NEW given \in Capability
  PROVE  TreeInv(Release(st, path, with_children, given))
  <1> DEFINE n    == Search(st, Root, path)
             bare == IF with_children THEN ReleaseBelow(st, n) ELSE st
             new  == Release(st, path, with_children, given)
  <1>1. n \in LiveIn(st) \cup {None}
    BY PathFacts, SearchFinds, LiveFacts
  <1>2. new = IF n = None THEN st
              ELSE IF ~Accepts(st.modify[n], given) THEN st
              ELSE IF bare.first_child[n] # None \/ n = Root THEN bare
              ELSE ReleaseOne(bare, n)
    BY DEF Release
  <1> HIDE DEF n, bare, new
  <1>3. ASSUME n # None
        PROVE  TreeInv(bare) /\ n \in LiveIn(bare)
    BY <1>1, <1>3, ReleaseBelowKeeps DEF bare
  <1>4. ASSUME n # None, n # Root, bare.first_child[n] = None
        PROVE  TreeInv(ReleaseOne(bare, n))
    <2>1. n \in LiveIn(bare) \ {Root} /\ TreeInv(bare)
      BY <1>3, <1>4
    <2>2. Kids(bare, n) = {}
      BY <1>4, <2>1 DEF TreeInv, FamiliesOK, FamilyOK
    <2>3. Removes(bare, ReleaseOne(bare, n), n)
      BY <2>1, <2>2, ReleaseRemoves
    <2> QED
      BY <2>3, RemovesKeeps
  <1>5. TreeInv(new)
    BY <1>2, <1>3, <1>4
  <1> QED
    BY <1>5 DEF new

(* The ring of the children is turned: another of them comes first.        *)
Turned(st, new, n) ==
  /\ new \in TreeState
  /\ new.free_tree_node = st.free_tree_node /\ new.name = st.name /\ new.parent = st.parent
  /\ new.free_name_element = st.free_name_element
  /\ new.left_brother = st.left_brother /\ new.right_brother = st.right_brother
  /\ new.child_number = st.child_number
  /\ new.file = st.file /\ new.modify = st.modify
  /\ \A x \in Node \ {n} : new.first_child[x] = st.first_child[x]
  /\ new.first_child[n] \in Kids(st, n)

LEMMA ListTurns ==
  ASSUME NEW st, TreeInv(st), NEW path \in Path, NEW given \in Capability
  PROVE  \/ List(st, path, given) = st
         \/ \E n \in LiveIn(st) : Kids(st, n) # {} /\ Turned(st, List(st, path, given), n)
  <1> DEFINE n     == Search(st, Root, path)
             first == st.first_child[n]
             new   == List(st, path, given)
  <1>1. n \in LiveIn(st) \cup {None}
    BY PathFacts, SearchFinds, LiveFacts
  <1>2. new = IF n = None THEN st
              ELSE IF ~Accepts(st.file[n], given) THEN st
              ELSE IF first = None THEN st
              ELSE [st EXCEPT !.first_child[n] = st.right_brother[first]]
    BY DEF List
  <1> HIDE DEF n, new
  <1>3. CASE new = st
    BY <1>3 DEF new
  <1>4. CASE n # None /\ first # None /\ new = [st EXCEPT !.first_child[n] = st.right_brother[first]]
    <2>1. n \in LiveIn(st) /\ n \in Node /\ st \in TreeState /\ FamilyOK(st, n)
      BY <1>1, <1>4, LiveFacts DEF TreeInv, FamiliesOK
    <2>2. first \in Kids(st, n)
      BY <1>4, <2>1 DEF FamilyOK
    <2>3. st.right_brother[first] \in Kids(st, n) /\ st.right_brother[first] \in Ids
      BY <2>1, <2>2, LiveFacts DEF FamilyOK, IsRing, Kids
    <2> DEFINE next == st.right_brother[first]
    <2>4. new = [st EXCEPT !.first_child[n] = next] /\ next \in Kids(st, n) /\ next \in Ids
      BY <1>4, <2>3
    <2> HIDE DEF next
    <2>5. Turned(st, new, n)
      BY <2>1, <2>4 DEF TreeState, Turned
    <2> QED
      BY <2>1, <2>2, <2>5 DEF new
  <1> QED
    BY <1>2, <1>3, <1>4

LEMMA TurnedKeeps ==
  ASSUME NEW st, TreeInv(st), NEW new, NEW n \in LiveIn(st), Kids(st, n) # {}, Turned(st, new, n)
  PROVE  TreeInv(new)
  <1>1. LiveIn(new) = LiveIn(st) /\ FreeIn(new) = FreeIn(st) /\ \A x : Kids(new, x) = Kids(st, x)
    BY DEF LiveIn, FreeIn, Kids, Turned
  <1>2. FreeOK(new)
    BY <1>1 DEF FreeOK, TreeInv, Turned
  <1>3. ASSUME NEW x \in LiveIn(st)
        PROVE  FamilyOK(new, x)
    <2>1. FamilyOK(st, x) /\ x \in Node
      BY LiveFacts DEF TreeInv, FamiliesOK
    <2>2. CASE x = n
      <3>1. new.first_child[n] \in Kids(st, n) /\ None \notin Kids(st, n)
        BY NodeFinite DEF Turned, Kids
      <3>2. /\ new.left_brother = st.left_brother /\ new.right_brother = st.right_brother
            /\ new.child_number = st.child_number
        BY DEF Turned
      <3> QED
        BY <1>1, <2>1, <2>2, <3>1, <3>2 DEF FamilyOK
    <2>3. CASE x # n
      BY <1>1, <2>1, <2>3 DEF FamilyOK, Turned
    <2> QED
      BY <2>2, <2>3
  <1>4. \A x \in LiveIn(st) : Distinct(new, x)
    BY <1>1 DEF Distinct, TreeInv, Turned, AllDistinct
  <1>5. Rooted(new) /\ Named(new)
    BY <1>1 DEF Rooted, Named, TreeInv, Turned
  <1> QED
    BY <1>1, <1>2, <1>3, <1>4, <1>5 DEF TreeInv, FamiliesOK, AllDistinct, Turned

LEMMA NextKeepsTree ==
  ASSUME TreeInv(T), [Next]_T
  PROVE  TreeInv(T')
  <1>1. CASE ADD_NAME_AND_ID
    BY <1>1, CreateKeeps DEF ADD_NAME_AND_ID
  <1>2. CASE DELETE_NAME_AND_ID
    BY <1>2, ReleaseKeeps DEF DELETE_NAME_AND_ID
  <1>3. CASE LIST_NAME_AND_ID
    <2>1. PICK path \in Path, given \in Capability : T' = List(T, path, given)
      BY <1>3 DEF LIST_NAME_AND_ID
    <2>2. \/ T' = T
          \/ \E n \in LiveIn(T) : Kids(T, n) # {} /\ Turned(T, T', n)
      BY <2>1, ListTurns
    <2> QED
      BY <2>2, TurnedKeeps
  <1>4. CASE UNCHANGED T
    BY <1>4
  <1> QED
    BY <1>1, <1>2, <1>3, <1>4 DEF Next

(* After any mixture of additions, removals of whole subtrees and listings *)
(* (dns/create.c, release.c, list.c) the links are a tree, the children of *)
(* every node a ring with no name twice, and the free nodes a list.        *)
THEOREM NameTreeTreeConsistent == Spec => []TreeConsistent
  <1>1. Init => TreeInv(T)
    BY InitTree
  <1>2. TreeInv(T) /\ [Next]_T => TreeInv(T)'
    BY NextKeepsTree
  <1>3. TreeInv(T) => TreeConsistent
    BY TreeInvConsistent
  <1> QED
    BY <1>1, <1>2, <1>3, PTL DEF Spec
-----------------------------------------------------------------------------
(* What the names hold of the pool, node by node, and sums over the nodes. *)
Held(st) == [k \in Node |-> IF k \in LiveIn(st) \ {Root} THEN Elements(st.name[k]) ELSE 0]
SumIs(v, s) ==
  /\ s \in [0..MaxNode -> Int]
  /\ s[0] = 0
  /\ \A k \in 1..MaxNode : s[k] = s[k - 1] + v[k]
Pool(st) == \E s : SumIs(Held(st), s) /\ st.free_name_element + s[MaxNode] = MaxElement
PoolInv(st) == TreeInv(st) /\ st.free_name_element >= 0 /\ Pool(st)

(* One value changes, and with it the sum.                                 *)
Changes(v, w, i, d) ==
  /\ v \in [Node -> Int] /\ w \in [Node -> Int] /\ i \in 1..MaxNode /\ d \in Int
  /\ \A x \in Node \ {i} : w[x] = v[x]
  /\ w[i] = v[i] + d

LEMMA SumChanges ==
  ASSUME NEW v, NEW w, NEW i, NEW d, Changes(v, w, i, d), NEW s, SumIs(v, s)
  PROVE  \E r : SumIs(w, r) /\ r[MaxNode] = s[MaxNode] + d
  <1> DEFINE r == [k \in 0..MaxNode |-> IF k >= i THEN s[k] + d ELSE s[k]]
  <1>1. /\ s \in [0..MaxNode -> Int] /\ s[0] = 0 /\ MaxNode \in Nat
        /\ \A k \in 1..MaxNode : s[k] = s[k - 1] + v[k]
    BY NodeFinite DEF SumIs
  <1>2. i \in 1..MaxNode /\ i \in Nat /\ d \in Int
    BY <1>1 DEF Changes
  <1>3. r \in [0..MaxNode -> Int] /\ r[0] = 0 /\ r[MaxNode] = s[MaxNode] + d
    BY <1>1, <1>2
  <1>4. ASSUME NEW k \in 1..MaxNode
        PROVE  r[k] = r[k - 1] + w[k]
    <2>1. k \in Node /\ k - 1 \in 0..MaxNode /\ k \in 0..MaxNode /\ k \in Int
      BY <1>1 DEF Node
    <2>2. PICK a \in Int, b \in Int, c \in Int, e \in Int :
            a = s[k] /\ b = s[k - 1] /\ c = v[k] /\ e = w[k]
      BY <1>1, <2>1 DEF Changes
    <2>3. a = b + c
      BY <1>1, <2>2
    <2>4. r[k] = (IF k >= i THEN a + d ELSE a) /\ r[k - 1] = (IF k - 1 >= i THEN b + d ELSE b)
      BY <2>1, <2>2
    <2>5. (k = i => e = c + d) /\ (k # i => e = c)
      BY <2>1, <2>2 DEF Changes
    <2> HIDE DEF r
    <2>6. CASE k = i
      <3>1. r[k] = a + d /\ r[k - 1] = b
        BY <2>4, <2>6, <1>2
      <3> QED
        BY <3>1, <2>2, <2>3, <2>5, <2>6, <1>2
    <2>7. CASE k > i
      <3>1. r[k] = a + d /\ r[k - 1] = b + d
        BY <2>1, <2>4, <2>7, <1>2
      <3> QED
        BY <3>1, <2>1, <2>2, <2>3, <2>5, <2>7, <1>2
    <2>8. CASE k < i
      <3>1. r[k] = a /\ r[k - 1] = b
        BY <2>1, <2>4, <2>8, <1>2
      <3> QED
        BY <3>1, <2>1, <2>2, <2>3, <2>5, <2>8, <1>2
    <2> QED
      BY <2>1, <2>6, <2>7, <2>8, <1>2
  <1> HIDE DEF r
  <1> QED
    BY <1>3, <1>4 DEF SumIs

LEMMA HeldInt ==
  ASSUME NEW st, TreeInv(st)
  PROVE  /\ Held(st) \in [Node -> Int] /\ st.free_name_element \in Int
         /\ \A k \in Node : Held(st)[k] = IF k \in LiveIn(st) \ {Root}
                                          THEN Elements(st.name[k]) ELSE 0
  <1>1. \A k \in LiveIn(st) \ {Root} : Elements(st.name[k]) \in Int
    <2>1. \A k \in LiveIn(st) \ {Root} : Elements(st.name[k]) \in Nat
      BY ElementsNat DEF TreeInv, Named
    <2> QED
      BY <2>1
  <1> QED
    BY <1>1, StateFields DEF Held, TreeInv

(* Names and links as before: the pool as before.                          *)
LEMMA SamePool ==
  ASSUME NEW st, NEW new, PoolInv(st), TreeInv(new),
         new.free_name_element = st.free_name_element,
         new.name = st.name, new.parent = st.parent
  PROVE  PoolInv(new)
  <1>1. Held(new) = Held(st)
    BY DEF Held, LiveIn
  <1> QED
    BY <1>1 DEF PoolInv, Pool

LEMMA AddsPool ==
  ASSUME NEW st, NEW new, NEW parent, NEW name, NEW n, Adds(st, new, parent, name, n),
         PoolInv(st), Elements(name) <= st.free_name_element
  PROVE  PoolInv(new)
  <1>1. TreeInv(st) /\ TreeInv(new)
    BY AddsKeeps DEF PoolInv
  <1>2. PICK e \in Nat : e = Elements(name)
    BY ElementsNat DEF Adds
  <1>3. PICK b \in Int : b = st.free_name_element
    BY <1>1, HeldInt
  <1>4. new.free_name_element = b - e
    BY <1>2, <1>3 DEF Adds, Inserted
  <1>5. b >= e
    BY <1>2, <1>3
  <1>6. Changes(Held(st), Held(new), n, e)
    <2>1. n \in Node /\ n \in 1..MaxNode
      BY AddsSets, NodeFinite DEF Node, Root
    <2>2. Held(st)[n] = 0 /\ Held(new)[n] = e
      BY <1>1, <1>2, <2>1, HeldInt, AddsSets
    <2>3. \A x \in Node \ {n} : Held(new)[x] = Held(st)[x]
      BY <1>1, HeldInt, AddsSets
    <2>4. Held(st) \in [Node -> Int] /\ Held(new) \in [Node -> Int]
      BY <1>1, HeldInt
    <2> QED
      BY <2>1, <2>2, <2>3, <2>4 DEF Changes
  <1>7. PICK s : SumIs(Held(st), s) /\ b + s[MaxNode] = MaxElement
    BY <1>3 DEF PoolInv, Pool
  <1>8. PICK r : SumIs(Held(new), r) /\ r[MaxNode] = s[MaxNode] + e
    BY <1>6, <1>7, SumChanges
  <1>9. s[MaxNode] \in Int
    BY <1>7, NodeFinite DEF SumIs
  <1>10. (b - e) + r[MaxNode] = MaxElement /\ b - e >= 0
    BY <1>5, <1>7, <1>8, <1>9
  <1> QED
    BY <1>1, <1>4, <1>8, <1>10 DEF PoolInv, Pool

LEMMA RemovesPool ==
  ASSUME NEW st, NEW new, NEW n, Removes(st, new, n), PoolInv(st)
  PROVE  PoolInv(new)
  <1>1. TreeInv(st) /\ TreeInv(new) /\ n \in LiveIn(st) \ {Root}
    BY RemovesKeeps DEF PoolInv, Removes
  <1>2. PICK e \in Nat : e = Elements(st.name[n])
    BY <1>1, InFamily
  <1>3. PICK b \in Int : b = st.free_name_element
    BY <1>1, HeldInt
  <1>4. new.free_name_element = b + e
    BY <1>2, <1>3 DEF Removes, Released
  <1>5. b >= 0
    BY <1>3 DEF PoolInv
  <1>6. Changes(Held(st), Held(new), n, -e)
    <2>1. n \in Node /\ n \in 1..MaxNode
      BY RemovesSets, NodeFinite DEF Node, Root
    <2>2. Held(st)[n] = e /\ Held(new)[n] = 0
      BY <1>1, <1>2, <2>1, HeldInt, RemovesSets
    <2>3. \A x \in Node \ {n} : Held(new)[x] = Held(st)[x]
      BY <1>1, HeldInt, RemovesSets
    <2>4. Held(st) \in [Node -> Int] /\ Held(new) \in [Node -> Int]
      BY <1>1, HeldInt
    <2> QED
      BY <2>1, <2>2, <2>3, <2>4 DEF Changes
  <1>7. PICK s : SumIs(Held(st), s) /\ b + s[MaxNode] = MaxElement
    BY <1>3 DEF PoolInv, Pool
  <1>8. PICK r : SumIs(Held(new), r) /\ r[MaxNode] = s[MaxNode] + (-e)
    BY <1>6, <1>7, SumChanges
  <1>9. s[MaxNode] \in Int
    BY <1>7, NodeFinite DEF SumIs
  <1>10. (b + e) + r[MaxNode] = MaxElement /\ b + e >= 0
    BY <1>5, <1>7, <1>8, <1>9
  <1> QED
    BY <1>1, <1>4, <1>8, <1>10 DEF PoolInv, Pool
LEMMA InitPool ==
  ASSUME Init
  PROVE  PoolInv(T)
  <1>1. TreeInv(T) /\ T.free_name_element = MaxElement /\ MaxElement \in Nat
    BY InitTree, NameTreeAssumption DEF Init
  <1>2. LiveIn(T) = {Root}
    BY NodeFinite DEF Init, LiveIn, Root
  <1>3. Held(T) = [k \in Node |-> 0]
    BY <1>2 DEF Held
  <1> DEFINE s == [k \in 0..MaxNode |-> 0]
  <1>4. SumIs(Held(T), s) /\ s[MaxNode] = 0
    <2>1. \A k \in 1..MaxNode : k \in Node /\ k \in 0..MaxNode /\ k - 1 \in 0..MaxNode
      BY NodeFinite DEF Node
    <2> QED
      BY <2>1, <1>3, NodeFinite DEF SumIs
  <1> HIDE DEF s
  <1>5. T.free_name_element + s[MaxNode] = MaxElement
    BY <1>1, <1>4
  <1> QED
    BY <1>1, <1>4, <1>5 DEF PoolInv, Pool

LEMMA TurnPool ==
  ASSUME NEW st, PoolInv(st), NEW n \in LiveIn(st)
  PROVE  PoolInv(Turn(st, n)) /\ n \in LiveIn(Turn(st, n))
  <1>1. TreeInv(st)
    BY DEF PoolInv
  <1>2. n \in LiveIn(Turn(st, n))
    BY <1>1, TurnKeeps
  <1>3. CASE st.first_child[n] = None
    BY <1>2, <1>3 DEF Turn
  <1>4. CASE st.first_child[n] # None
    <2> DEFINE leaf == FirstLeaf(st, n)
    <2>1. leaf \in LiveIn(st) \ {Root} /\ Kids(st, leaf) = {}
      BY <1>1, <1>4, FirstLeafIs
    <2> HIDE DEF leaf
    <2>2. PoolInv(ReleaseOne(st, leaf))
      BY <1>1, <2>1, ReleaseRemoves, RemovesPool
    <2> QED
      BY <1>2, <1>4, <2>2 DEF Turn, leaf
  <1> QED
    BY <1>3, <1>4

LEMMA ReleaseBelowPool ==
  ASSUME NEW st, PoolInv(st), NEW n \in LiveIn(st)
  PROVE  PoolInv(ReleaseBelow(st, n)) /\ n \in LiveIn(ReleaseBelow(st, n))
  <1>1. PICK w : Emptying(st, n, w) /\ ReleaseBelow(st, n) = w[MaxNode]
    BY ReleaseBelowIs DEF PoolInv
  <1> DEFINE Z == {k \in 0..MaxNode : PoolInv(w[k]) /\ n \in LiveIn(w[k])}
  <1>2. MaxNode \in Nat
    BY NodeFinite
  <1>3. 0 \in Z
    BY <1>1, <1>2 DEF Emptying
  <1>4. ASSUME NEW k \in 1..MaxNode, k - 1 \in Z
        PROVE  k \in Z
    <2>1. PoolInv(w[k - 1]) /\ n \in LiveIn(w[k - 1]) /\ k \in 0..MaxNode
      BY <1>2, <1>4
    <2>2. PoolInv(Turn(w[k - 1], n)) /\ n \in LiveIn(Turn(w[k - 1], n))
      BY <2>1, TurnPool
    <2> QED
      BY <1>1, <2>1, <2>2 DEF Emptying
  <1> HIDE DEF Z
  <1>5. \A k \in 0..MaxNode : k \in Z
    BY <1>2, <1>3, <1>4, BoundedInduction
  <1> QED
    BY <1>1, <1>2, <1>5 DEF Z

LEMMA CreatePool ==
  ASSUME NEW st, PoolInv(st), NEW path \in Path, NEW given \in Capability,
         NEW f \in File, NEW c \in Capability
  PROVE  PoolInv(Create(st, path, given, f, c))
  <1> DEFINE new == Create(st, path, given, f, c)
  <1>1. TreeInv(st)
    BY DEF PoolInv
  <1>2. TreeInv(new) /\ (SameTree(st, new) \/ Grows(st, new, path, f, c))
    BY <1>1, CreateDoes, CreateKeeps
  <1> HIDE DEF new
  <1>3. CASE SameTree(st, new)
    BY <1>2, <1>3, SamePool DEF SameTree, new
  <1>4. CASE Grows(st, new, path, f, c)
    BY <1>4, AddsPool DEF Grows, new
  <1> QED
    BY <1>2, <1>3, <1>4

LEMMA ReleasePool ==
  ASSUME NEW st, PoolInv(st), NEW path \in Path, NEW with_children \in BOOLEAN,
         NEW given \in Capability
  PROVE  PoolInv(Release(st, path, with_children, given))
  <1> DEFINE n    == Search(st, Root, path)
             bare == IF with_children THEN ReleaseBelow(st, n) ELSE st
             new  == Release(st, path, with_children, given)
  <1>1. n \in LiveIn(st) \cup {None}
    BY PathFacts, SearchFinds, LiveFacts DEF PoolInv
  <1>2. new = IF n = None THEN st
              ELSE IF ~Accepts(st.modify[n], given) THEN st
              ELSE IF bare.first_child[n] # None \/ n = Root THEN bare
              ELSE ReleaseOne(bare, n)
    BY DEF Release
  <1> HIDE DEF n, bare, new
  <1>3. ASSUME n # None
        PROVE  PoolInv(bare) /\ n \in LiveIn(bare)
    BY <1>1, <1>3, ReleaseBelowPool DEF bare
  <1>4. ASSUME n # None, n # Root, bare.first_child[n] = None
        PROVE  PoolInv(ReleaseOne(bare, n))
    <2>1. n \in LiveIn(bare) \ {Root} /\ TreeInv(bare) /\ PoolInv(bare)
      BY <1>3, <1>4 DEF PoolInv
    <2>2. Kids(bare, n) = {}
      BY <1>4, <2>1 DEF TreeInv, FamiliesOK, FamilyOK
    <2>3. Removes(bare, ReleaseOne(bare, n), n)
      BY <2>1, <2>2, ReleaseRemoves
    <2> QED
      BY <2>1, <2>3, RemovesPool
  <1>5. PoolInv(new)
    BY <1>2, <1>3, <1>4
  <1> QED
    BY <1>5 DEF new

LEMMA NextKeepsPool ==
  ASSUME PoolInv(T), [Next]_T
  PROVE  PoolInv(T')
  <1>1. TreeInv(T) /\ TreeInv(T')
    BY NextKeepsTree DEF PoolInv
  <1>2. CASE ADD_NAME_AND_ID
    BY <1>2, CreatePool DEF ADD_NAME_AND_ID
  <1>3. CASE DELETE_NAME_AND_ID
    BY <1>3, ReleasePool DEF DELETE_NAME_AND_ID
  <1>4. CASE LIST_NAME_AND_ID
    <2>1. PICK path \in Path, given \in Capability : T' = List(T, path, given)
      BY <1>4 DEF LIST_NAME_AND_ID
    <2>2. \/ T' = T
          \/ \E n \in LiveIn(T) : Kids(T, n) # {} /\ Turned(T, T', n)
      BY <1>1, <2>1, ListTurns
    <2> QED
      BY <1>1, <2>2, SamePool DEF Turned
  <1>5. CASE UNCHANGED T
    BY <1>5
  <1> QED
    BY <1>2, <1>3, <1>4, <1>5 DEF Next

LEMMA PoolInvAccounted ==
  ASSUME PoolInv(T)
  PROVE  ElementsAccounted
  <1> DEFINE Rec(w) == w = [k \in 0..MaxNode |->
                              IF k = Root THEN 0
                              ELSE w[k - 1] + IF k \in Live THEN Elements(T.name[k]) ELSE 0]
             W == CHOOSE w : Rec(w)
  <1>1. TreeInv(T) /\ T.free_name_element >= 0 /\ MaxNode \in Nat
    BY NodeFinite DEF PoolInv
  <1>2. PICK s : SumIs(Held(T), s) /\ T.free_name_element + s[MaxNode] = MaxElement
    BY DEF PoolInv, Pool
  <1>3. Live = LiveIn(T)
    BY DEF Live, LiveIn
  <1>4. ASSUME NEW k \in 1..MaxNode
        PROVE  /\ k - 1 \in 0..MaxNode /\ k \in 0..MaxNode /\ k # Root
               /\ Held(T)[k] = IF k \in Live THEN Elements(T.name[k]) ELSE 0
    BY <1>1, <1>3, HeldInt DEF Node, Root
  <1>5. Rec(s)
    <2>1. s \in [0..MaxNode -> Int] /\ s[0] = 0
      BY <1>2 DEF SumIs
    <2>2. ASSUME NEW k \in 0..MaxNode, k # Root
          PROVE  s[k] = s[k - 1] + IF k \in Live THEN Elements(T.name[k]) ELSE 0
      <3>1. k \in 1..MaxNode
        BY <1>1, <2>2 DEF Root
      <3> QED
        BY <1>2, <1>4, <3>1 DEF SumIs
    <2> QED
      BY <2>1, <2>2 DEF Root
  <1>6. Rec(W)
    BY <1>5
  <1>7. ElementsAccounted <=> /\ T.free_name_element >= 0
                              /\ T.free_name_element + W[MaxNode] = MaxElement
    BY DEF ElementsAccounted
  <1> HIDE DEF W
  <1> DEFINE Z == {k \in 0..MaxNode : W[k] = s[k]}
  <1>8. 0 \in Z
    BY <1>1, <1>5, <1>6 DEF Root
  <1>9. ASSUME NEW k \in 1..MaxNode, k - 1 \in Z
        PROVE  k \in Z
    <2>1. /\ W[k] = W[k - 1] + IF k \in Live THEN Elements(T.name[k]) ELSE 0
          /\ s[k] = s[k - 1] + IF k \in Live THEN Elements(T.name[k]) ELSE 0
      BY <1>4, <1>5, <1>6
    <2> QED
      BY <1>4, <1>9, <2>1
  <1> HIDE DEF Z
  <1>10. \A k \in 0..MaxNode : k \in Z
    BY <1>1, <1>8, <1>9, BoundedInduction
  <1>11. W[MaxNode] = s[MaxNode]
    BY <1>1, <1>10 DEF Z
  <1> QED
    BY <1>1, <1>2, <1>7, <1>11

(* Every piece of the pool is free or in the name of one node of the tree, *)
(* whatever is added, refused for want of pieces (dns/create.c) or released*)
(* with all that hangs below it (dns/release.c).                           *)
THEOREM NameTreeElementsAccounted == Spec => []ElementsAccounted
  <1>1. Init => PoolInv(T)
    BY InitPool
  <1>2. PoolInv(T) /\ [Next]_T => PoolInv(T)'
    BY NextKeepsPool
  <1>3. PoolInv(T) => ElementsAccounted
    BY PoolInvAccounted
  <1> QED
    BY <1>1, <1>2, <1>3, PTL DEF Spec
=============================================================================

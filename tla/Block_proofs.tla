----------------------------- MODULE Block_proofs -----------------------------
(***************************************************************************)
(* Proofs about Block: a memory body with any blocks, pages, windows and   *)
(* threads keeps at most one block for a page, counts who uses a window,   *)
(* and lets nobody sleep for a block that no thread reads or writes.       *)
(*                                                                         *)
(* The invariant of the tables, TableOK, is stated with three sets the     *)
(* program has only in the heads of its threads:                           *)
(*   own    who reads or writes which block for which page: every block    *)
(*          that is busy has one owner, as the one that reads it, that     *)
(*          has it in the queue of its search, or that writes it;          *)
(*   stk    who has which block with a stack of the file system;           *)
(*   users  who is counted in lock_number of which window: the call, and   *)
(*          the file system while it is called.                            *)
(* The invariant of a thread, ThreadOK, says what it has of the three at   *)
(* every place it gives the lock up, so that no thread depends on the      *)
(* record of another.  IInv: there are three sets for which both hold.     *)
(*                                                                         *)
(* A handler is proved in the order it runs.  Mid says where a thread      *)
(* stands in the middle of an action: the tables are in order, and so are  *)
(* all other threads.  For every operator of BlockTable there is a lemma   *)
(* ...Keeps, that it keeps TableOK, and one Mid..., that it keeps Mid; the *)
(* lemmas of the handlers go from one to the next and end in IInv'.        *)
(*                                                                         *)
(* Above is a recursive function, and what it computes is known only where *)
(* parent_block_id goes round in no circle.  It does not, because a block  *)
(* is put below one for a page it takes its data from, and these pages     *)
(* have a depth (CallsAssumption): Ranked.  A search stays in the window   *)
(* of its call, which is counted, or goes to one that lends pages and is   *)
(* not closed: so a block is never read for a window that is not open.     *)
(***************************************************************************)
EXTENDS Block, FiniteSetTheorems, WellFoundedInduction, TLAPS

-----------------------------------------------------------------------------
(* The least and the greatest of numbers.                                  *)

LEMMA LeastNumber ==
  ASSUME NEW S, S # {}, S \subseteq Nat
  PROVE  \E x \in S : \A y \in S : x <= y
  <1> DEFINE Smaller == {ss \in Nat \X Nat : ss[1] < ss[2]}
  <1>1. IsWellFoundedOn(Smaller, Nat)
    BY NatLessThanWellFounded DEF OpToRel
  <1> HIDE DEF Smaller
  <1>2. PICK x \in S : \A y \in S : <<y, x>> \notin Smaller
    BY <1>1, WFMin
  <1>3. \A y \in S : ~(y < x)
    BY <1>2 DEF Smaller
  <1> QED
    BY <1>2, <1>3

LEMMA SetInduction ==
  ASSUME NEW S, 0 \in S, \A n \in Nat : n \in S => n + 1 \in S
  PROVE  \A n \in Nat : n \in S
  <1> DEFINE Missing == {n \in Nat : n \notin S}
  <1>1. CASE Missing # {}
    <2>1. PICK x \in Missing : \A y \in Missing : x <= y
      BY <1>1, LeastNumber
    <2>2. x \in Nat /\ x # 0 /\ x - 1 \in Nat /\ x - 1 \notin Missing /\ (x - 1) + 1 = x
      BY <2>1
    <2> QED
      BY <2>1, <2>2
  <1> QED
    BY <1>1

LEMMA GreatestNumber ==
  ASSUME NEW S, IsFiniteSet(S), S # {}, S \subseteq Nat
  PROVE  \E x \in S : \A y \in S : y <= x
  <1>1. PICK n \in Nat : ExistsSurjection(1..n, S)
    BY FS_NatSurjection
  <1>2. PICK f \in Surjection(1..n, S) : TRUE
    BY <1>1 DEF ExistsSurjection
  <1>3. f \in [1..n -> S] /\ \A y \in S : \E i \in 1..n : f[i] = y
    BY <1>2 DEF Surjection
  <1>n. \A i \in 1..n : f[i] \in Nat
    BY <1>3
  <1> DEFINE W == {k \in Nat : k > n \/ k = 0 \/ \E i \in 1..n : \A j \in 1..k : f[j] <= f[i]}
  <1>4. 0 \in W
    OBVIOUS
  <1>5. ASSUME NEW k \in Nat, k \in W
        PROVE  k + 1 \in W
    <2>1. CASE k + 1 > n
      BY <2>1
    <2>2. CASE k + 1 <= n /\ k = 0
      <3>1. 1 \in 1..n /\ \A j \in 1..1 : j = 1
        BY <2>2
      <3>2. f[1] <= f[1]
        BY <3>1, <1>n
      <3> QED
        BY <3>1, <3>2, <2>2
    <2>3. CASE k + 1 <= n /\ k # 0
      <3>1. PICK i \in 1..n : \A j \in 1..k : f[j] <= f[i]
        BY <2>3, <1>5
      <3>2. k + 1 \in 1..n /\ \A j \in 1..k : j \in 1..n
        BY <2>3
      <3>n. f[k + 1] \in Nat /\ f[i] \in Nat /\ \A j \in 1..k : f[j] \in Nat
        BY <3>2, <1>n
      <3>3. \A j \in 1..(k + 1) : j = k + 1 \/ j \in 1..k
        OBVIOUS
      <3>4. CASE f[k + 1] <= f[i]
        <4>1. \A j \in 1..(k + 1) : f[j] <= f[i]
          BY <3>1, <3>3, <3>4
        <4> QED
          BY <4>1
      <3>5. CASE f[i] < f[k + 1]
        <4>1. \A j \in 1..(k + 1) : f[j] <= f[k + 1]
          BY <3>1, <3>n, <3>3, <3>5
        <4> QED
          BY <4>1, <3>2
      <3> QED
        BY <3>n, <3>4, <3>5
    <2> QED
      BY <2>1, <2>2, <2>3
  <1> HIDE DEF W
  <1>6. n \in W
    BY <1>4, <1>5, SetInduction
  <1>7. n # 0
    <2>1. PICK y \in S : TRUE
      OBVIOUS
    <2>2. PICK i \in 1..n : f[i] = y
      BY <1>3
    <2> QED
      BY <2>2
  <1>8. PICK i \in 1..n : \A j \in 1..n : f[j] <= f[i]
    BY <1>6, <1>7 DEF W
  <1> QED
    BY <1>3, <1>8

(* A function of blocks with numbers as values has its least value.        *)
LEMMA LeastRank ==
  ASSUME NEW bs, bs # {}, NEW rank, \A x \in bs : rank[x] \in Nat
  PROVE  \E x \in bs : \A y \in bs : rank[x] <= rank[y]
  <1> DEFINE S == {rank[x] : x \in bs}
  <1>1. S # {} /\ S \subseteq Nat
    OBVIOUS
  <1> HIDE DEF S
  <1>2. PICK k \in S : \A y \in S : k <= y
    BY <1>1, LeastNumber
  <1> QED
    BY <1>2 DEF S

(* A block in hand: of the free ones one is chosen.                        *)
LEMMA ChosenBlocks ==
  ASSUME NEW n, n.free \subseteq Block, n.free # {}
  PROVE  /\ NextStack(n) \in n.free
         /\ \A p : NextBlock(n, p) \in n.free
  <1>1. IsFiniteSet(n.free) /\ n.free \subseteq Nat
    BY TableAssumption, FS_Subset
  <1>2. \E x \in n.free : \A y \in n.free : x >= y
    <2>1. PICK x \in n.free : \A y \in n.free : y <= x
      BY <1>1, GreatestNumber
    <2> QED
      BY <1>1, <2>1
  <1>3. \E x \in n.free : \A y \in n.free : x <= y
    BY <1>1, LeastNumber
  <1>4. Max(n.free) \in n.free
    BY <1>2 DEF Max
  <1>5. Min(n.free) \in n.free
    BY <1>3 DEF Min
  <1> QED
    BY <1>4, <1>5 DEF NextStack, NextBlock

-----------------------------------------------------------------------------
(* Depth, and what it makes of the trees.                                  *)

Depth == CHOOSE depth \in [Page -> 0..Cardinality(Page)] :
           \A p \in Page : \A x \in Sources(p) : depth[x] < depth[p]

LEMMA DepthIs ==
  /\ Depth \in [Page -> Nat]
  /\ \A p \in Page : \A x \in Sources(p) : Depth[x] < Depth[p]
  <1>1. /\ Depth \in [Page -> 0..Cardinality(Page)]
        /\ \A p \in Page : \A x \in Sources(p) : Depth[x] < Depth[p]
    BY CallsAssumption DEF Depth
  <1>2. Cardinality(Page) \in Nat
    BY TableAssumption, FS_CardinalityType
  <1>3. 0..Cardinality(Page) \subseteq Nat
    BY <1>2
  <1> QED
    BY <1>1, <1>3

(* How far up the tree a block is, at the most.                            *)
Rank(n) == [x \in Block |-> IF n.page[x] \in Page THEN Depth[n.page[x]] ELSE 0]

(* Every block below another is settled, the other is in use, and for a    *)
(* page that comes later.                                                  *)
Ranked(n) ==
  /\ n.parent \in [Block -> Block \cup {None}]
  /\ \A x \in Block : n.parent[x] # None =>
       /\ Settled(n, x)
       /\ n.state[n.parent[x]] # "free"
       /\ Rank(n)[n.parent[x]] < Rank(n)[x]

LEMMA RankIs ==
  ASSUME NEW n
  PROVE  Rank(n) \in [Block -> Nat]
  BY DepthIs DEF Rank

(* A set that has the parents of its blocks.                               *)
Closed(n, C) == \A x \in C : n.parent[x] # None => n.parent[x] \in C

LEMMA AboveIs ==
  ASSUME NEW n, n.parent \in [Block -> Block \cup {None}], NEW x \in Block
  PROVE  Above(n, x) = IF n.parent[x] = None THEN {x} ELSE {x} \cup Above(n, n.parent[x])
  <1> DEFINE Rec(f) == [y \in Block |-> IF n.parent[y] = None THEN {y}
                                        ELSE {y} \cup f[n.parent[y]]]
             W == CHOOSE f : f = Rec(f)
             C(y) == {z \in Block : \A D \in SUBSET Block : y \in D /\ Closed(n, D) => z \in D}
             G == [y \in Block |-> C(y)]
  <1>1. \A y \in Block : Above(n, y) = W[y]
    BY DEF Above
  <1>2. ASSUME NEW y \in Block
        PROVE  C(y) = IF n.parent[y] = None THEN {y} ELSE {y} \cup C(n.parent[y])
    <2>1. y \in C(y)
      OBVIOUS
    <2>2. CASE n.parent[y] = None
      <3>1. Closed(n, {y})
        BY <2>2 DEF Closed
      <3> QED
        BY <3>1, <2>1, <2>2
    <2>3. CASE n.parent[y] # None
      <3> DEFINE q == n.parent[y]
                 E == {y} \cup C(q)
      <3>1. q \in Block
        BY <2>3
      <3>2. C(q) \subseteq C(y)
        <4> SUFFICES ASSUME NEW z \in C(q), NEW D \in SUBSET Block, y \in D, Closed(n, D)
                     PROVE  z \in D
          OBVIOUS
        <4>1. q \in D
          BY <2>3 DEF Closed
        <4> QED
          BY <4>1
      <3>3. Closed(n, E)
        <4> SUFFICES ASSUME NEW z \in E, n.parent[z] # None
                     PROVE  n.parent[z] \in E
          BY DEF Closed
        <4>1. CASE z = y
          BY <4>1, <3>1
        <4>2. CASE z \in C(q)
          <5>1. z \in Block /\ n.parent[z] \in Block
            BY <4>2
          <5>2. \A D \in SUBSET Block : q \in D /\ Closed(n, D) => n.parent[z] \in D
            BY <4>2 DEF Closed
          <5> QED
            BY <5>1, <5>2
        <4> QED
          BY <4>1, <4>2
      <3>4. C(y) \subseteq E
        <4>1. E \in SUBSET Block /\ y \in E
          BY <3>1
        <4> HIDE DEF E
        <4> QED
          BY <4>1, <3>3
      <3> QED
        BY <2>1, <2>3, <3>2, <3>4
    <2> QED
      BY <2>2, <2>3
  <1>3. G = Rec(G)
    <2> HIDE DEF C
    <2>1. \A y \in Block : n.parent[y] # None => G[n.parent[y]] = C(n.parent[y])
      OBVIOUS
    <2> QED
      BY <2>1, <1>2
  <1> HIDE DEF G, C
  <1>4. W = Rec(W)
    BY <1>3
  <1> HIDE DEF W
  <1>5. W[x] = IF n.parent[x] = None THEN {x} ELSE {x} \cup W[n.parent[x]]
    BY <1>4
  <1>6. n.parent[x] # None => n.parent[x] \in Block
    OBVIOUS
  <1> QED
    BY <1>1, <1>5, <1>6

(* The blocks above a block are the least closed set with it.              *)
LEMMA AboveLeast ==
  ASSUME NEW n, Ranked(n), NEW x \in Block, NEW C, C \subseteq Block, x \in C, Closed(n, C)
  PROVE  Above(n, x) \subseteq C
  <1> DEFINE Bad == {y \in C : ~(Above(n, y) \subseteq C)}
             rank == Rank(n)
  <1>1. CASE Bad # {}
    <2>1. \A y \in Bad : rank[y] \in Nat
      BY RankIs
    <2>2. PICK y \in Bad : \A z \in Bad : rank[y] <= rank[z]
      BY <2>1, <1>1, LeastRank
    <2>3. y \in Block /\ n.parent \in [Block -> Block \cup {None}]
      BY <2>2 DEF Ranked
    <2>4. Above(n, y) = IF n.parent[y] = None THEN {y} ELSE {y} \cup Above(n, n.parent[y])
      BY <2>3, AboveIs
    <2>5. CASE n.parent[y] = None
      BY <2>2, <2>4, <2>5
    <2>6. CASE n.parent[y] # None
      <3>1. n.parent[y] \in C
        BY <2>2, <2>6 DEF Closed
      <3>2. n.parent[y] \in Bad
        BY <3>1, <2>2, <2>4, <2>6
      <3>3. rank[y] <= rank[n.parent[y]]
        BY <3>2, <2>2
      <3>4. rank[n.parent[y]] < rank[y]
        BY <2>3, <2>6 DEF Ranked
      <3>5. rank[y] \in Nat /\ rank[n.parent[y]] \in Nat
        BY <3>2, <2>1
      <3> QED
        BY <3>3, <3>4, <3>5
    <2> QED
      BY <2>5, <2>6
  <1>2. CASE Bad = {}
    BY <1>2
  <1> QED
    BY <1>1, <1>2

LEMMA AboveClosed ==
  ASSUME NEW n, Ranked(n), NEW x \in Block
  PROVE  /\ x \in Above(n, x) /\ Above(n, x) \subseteq Block
         /\ Closed(n, Above(n, x))
         /\ \A y \in Above(n, x) : Above(n, y) \subseteq Above(n, x)
  <1>1. n.parent \in [Block -> Block \cup {None}]
    BY DEF Ranked
  <1>2. \A y \in Block : Above(n, y) = IF n.parent[y] = None THEN {y}
                                       ELSE {y} \cup Above(n, n.parent[y])
    BY <1>1, AboveIs
  <1>3. \A y \in Block : y \in Above(n, y)
    BY <1>2
  <1>4. Above(n, x) \subseteq Block
    <2>1. Closed(n, Block)
      BY <1>1 DEF Closed
    <2> QED
      BY <2>1, AboveLeast
  <1> DEFINE C == {y \in Block : Above(n, y) \subseteq Above(n, x)}
  <1>5. Closed(n, C)
    <2> SUFFICES ASSUME NEW y \in C, n.parent[y] # None
                 PROVE  n.parent[y] \in C
      BY DEF Closed
    <2>1. n.parent[y] \in Block
      BY <1>1
    <2>2. Above(n, n.parent[y]) \subseteq Above(n, y)
      BY <1>2
    <2> QED
      BY <2>1, <2>2
  <1>6. Above(n, x) \subseteq C
    <2>1. C \subseteq Block /\ x \in C
      OBVIOUS
    <2> HIDE DEF C
    <2> QED
      BY <2>1, <1>5, AboveLeast
  <1>7. Closed(n, Above(n, x))
    <2> SUFFICES ASSUME NEW y \in Above(n, x), n.parent[y] # None
                 PROVE  n.parent[y] \in Above(n, x)
      BY DEF Closed
    <2>1. y \in Block /\ n.parent[y] \in Block
      BY <1>1, <1>4
    <2>2. n.parent[y] \in Above(n, y)
      BY <2>1, <1>2, <1>3
    <2> QED
      BY <2>2, <1>6
  <1> QED
    BY <1>3, <1>4, <1>6, <1>7

LEMMA RootIs ==
  ASSUME NEW n, Ranked(n), NEW x \in Block
  PROVE  /\ Root(n, x) \in Above(n, x) /\ Root(n, x) \in Block
         /\ n.parent[Root(n, x)] = None
  <1> DEFINE rank == Rank(n)
  <1>1. x \in Above(n, x) /\ Above(n, x) \subseteq Block /\ Closed(n, Above(n, x))
    BY AboveClosed
  <1>2. \A y \in Above(n, x) : rank[y] \in Nat
    BY <1>1, RankIs
  <1> HIDE DEF rank
  <1>3. PICK y \in Above(n, x) : \A z \in Above(n, x) : rank[y] <= rank[z]
    BY <1>1, <1>2, LeastRank
  <1>4. CASE n.parent[y] # None
    <2>1. n.parent[y] \in Above(n, x)
      BY <1>1, <1>3, <1>4 DEF Closed
    <2>2. rank[n.parent[y]] < rank[y]
      BY <1>1, <1>3, <1>4 DEF Ranked, rank
    <2> QED
      BY <2>1, <2>2, <1>2, <1>3
  <1>5. CASE n.parent[y] = None
    BY <1>1, <1>3, <1>5 DEF Root
  <1> QED
    BY <1>4, <1>5

(* What comes above is for pages that come later, and in use if the block  *)
(* is.                                                                     *)
LEMMA AboveRanks ==
  ASSUME NEW n, Ranked(n), NEW x \in Block, NEW y \in Above(n, x)
  PROVE  /\ Rank(n)[y] <= Rank(n)[x]
         /\ y # x => Rank(n)[y] < Rank(n)[x] /\ n.parent[x] # None
         /\ n.state[x] # "free" => n.state[y] # "free"
  <1> DEFINE rank == Rank(n)
             C == {z \in Block : z = x \/ (rank[z] < rank[x] /\ n.parent[x] # None)}
             D == {z \in Block : n.state[x] # "free" => n.state[z] # "free"}
  <1>1. \A z \in Block : rank[z] \in Nat
    BY RankIs
  <1> HIDE DEF rank
  <1>2. n.parent \in [Block -> Block \cup {None}]
        /\ \A z \in Block : n.parent[z] # None =>
              n.state[n.parent[z]] # "free" /\ rank[n.parent[z]] < rank[z]
    BY DEF Ranked, rank
  <1>3. Closed(n, C)
    <2> SUFFICES ASSUME NEW z \in C, n.parent[z] # None
                 PROVE  n.parent[z] \in C
      BY DEF Closed
    <2>1. n.parent[z] \in Block /\ rank[n.parent[z]] < rank[z]
      BY <1>2
    <2> QED
      BY <2>1, <1>1
  <1>4. Closed(n, D)
    BY <1>2 DEF Closed
  <1>5. Above(n, x) \subseteq C
    <2>1. C \subseteq Block /\ x \in C
      OBVIOUS
    <2> HIDE DEF C
    <2> QED
      BY <2>1, <1>3, AboveLeast
  <1>6. Above(n, x) \subseteq D
    <2>1. D \subseteq Block /\ x \in D
      OBVIOUS
    <2> HIDE DEF D
    <2> QED
      BY <2>1, <1>4, AboveLeast
  <1>7. y \in C /\ y \in D
    BY <1>5, <1>6
  <1>8. rank[x] \in Nat /\ rank[y] \in Nat
    BY <1>1, <1>7
  <1>9. rank[y] <= rank[x] /\ (y # x => rank[y] < rank[x] /\ n.parent[x] # None)
    BY <1>7, <1>8
  <1> QED
    BY <1>7, <1>9 DEF rank

(* Of some blocks above one block, there is a first.                       *)
LEMMA FirstIs ==
  ASSUME NEW n, Ranked(n), NEW x \in Block, NEW bs, bs # {}, bs \subseteq Above(n, x)
  PROVE  First(n, bs) \in bs /\ bs \subseteq Above(n, First(n, bs))
  <1> DEFINE C == {z \in Above(n, x) : \A y \in Above(n, x) : y \in Above(n, z) \/ z \in Above(n, y)}
             A == {z \in bs : bs \subseteq Above(n, z)}
             up == [z \in bs |-> Cardinality(Page) - Rank(n)[z]]
  <1>1. n.parent \in [Block -> Block \cup {None}]
    BY DEF Ranked
  <1>2. /\ x \in Above(n, x) /\ Above(n, x) \subseteq Block /\ Closed(n, Above(n, x))
        /\ \A y \in Block : Above(n, y) = IF n.parent[y] = None THEN {y}
                                          ELSE {y} \cup Above(n, n.parent[y])
    BY <1>1, AboveClosed, AboveIs
  <1>3. \A z \in Block : z \in Above(n, z) /\ Closed(n, Above(n, z))
    BY AboveClosed
  <1>4. Closed(n, C)
    <2> SUFFICES ASSUME NEW z \in C, n.parent[z] # None, NEW y \in Above(n, x)
                 PROVE  /\ n.parent[z] \in Above(n, x)
                        /\ y \in Above(n, n.parent[z]) \/ n.parent[z] \in Above(n, y)
      BY DEF Closed
    <2>1. z \in Block /\ y \in Block /\ n.parent[z] \in Above(n, x)
      BY <1>2 DEF Closed
    <2>2. CASE y \in Above(n, z)
      <3>1. y = z \/ y \in Above(n, n.parent[z])
        BY <2>1, <2>2, <1>2
      <3>2. n.parent[z] \in Above(n, z)
        BY <2>1, <1>3 DEF Closed
      <3> QED
        BY <3>1, <3>2, <2>1
    <2>3. CASE z \in Above(n, y)
      <3>1. n.parent[z] \in Above(n, y)
        BY <2>1, <2>3, <1>3 DEF Closed
      <3> QED
        BY <3>1, <2>1
    <2> QED
      BY <2>1, <2>2, <2>3
  <1>5. Above(n, x) \subseteq C
    <2>1. C \subseteq Block /\ x \in C
      BY <1>2
    <2> HIDE DEF C
    <2> QED
      BY <2>1, <1>4, AboveLeast
  <1>6. \A z \in bs : up[z] \in Nat
    <2> SUFFICES ASSUME NEW z \in bs
                 PROVE  Cardinality(Page) - Rank(n)[z] \in Nat
      OBVIOUS
    <2>1. Cardinality(Page) \in Nat
      BY TableAssumption, FS_CardinalityType
    <2>2. Depth \in [Page -> 0..Cardinality(Page)]
      BY CallsAssumption DEF Depth
    <2>3. Rank(n)[z] \in 0..Cardinality(Page)
      BY <1>2, <2>1, <2>2 DEF Rank
    <2> QED
      BY <2>1, <2>3
  <1> HIDE DEF up
  <1>7. PICK z \in bs : \A y \in bs : up[z] <= up[y]
    BY <1>6, LeastRank
  <1>8. ASSUME NEW y \in bs
        PROVE  y \in Above(n, z)
    <2>1. y \in Block /\ z \in Block /\ (y \in Above(n, z) \/ z \in Above(n, y))
      BY <1>2, <1>5, <1>7
    <2>2. CASE z \in Above(n, y) /\ z # y
      <3>1. Rank(n)[z] < Rank(n)[y]
        BY <2>1, <2>2, AboveRanks
      <3>2. Cardinality(Page) - Rank(n)[z] <= Cardinality(Page) - Rank(n)[y]
        BY <1>7 DEF up
      <3>3. Cardinality(Page) \in Nat /\ Rank(n)[y] \in Nat /\ Rank(n)[z] \in Nat
        BY <2>1, RankIs, TableAssumption, FS_CardinalityType
      <3> QED
        BY <3>1, <3>2, <3>3
    <2> QED
      BY <2>1, <2>2, <1>3
  <1>9. z \in A
    BY <1>7, <1>8
  <1> QED
    BY <1>9 DEF First

-----------------------------------------------------------------------------
(* Tables as functions of the names of their fields, and what each operator*)
(* does to them.                                                           *)
Fields == {"state", "lock", "page", "parent", "phys", "private", "free", "pool",
           "blocks", "pages", "entry", "open", "nowait", "calls", "waiting",
           "newer", "forgotten", "miscounted"}

IsTable(n) == n = [f \in Fields |-> n[f]]
SameBut(n, k, fs) == IsTable(k) /\ \A f \in Fields \ fs : k[f] = n[f]

LEMMA WokenIs ==
  ASSUME NEW n, IsTable(n), NEW bs
  PROVE  /\ SameBut(n, Woken(n, bs), {"waiting"})
         /\ Woken(n, bs).waiting =
              [t \in Thread |-> IF n.waiting[t] \in bs THEN None ELSE n.waiting[t]]
  BY DEF Woken, SameBut, IsTable, Fields

LEMMA MountedIs ==
  ASSUME NEW n, IsTable(n), NEW b, NEW d
  PROVE  SameBut(n, Mounted(n, b, d), {"phys", "pool", "pages"})
  BY DEF Mounted, SameBut, IsTable, Fields

LEMMA DismountedIs ==
  ASSUME NEW n, IsTable(n), NEW by
  PROVE  SameBut(n, Dismounted(n, by), {"phys", "pool", "pages", "newer", "forgotten"})
  BY DEF Dismounted, SameBut, IsTable, Fields

LEMMA GotIs ==
  ASSUME NEW n, IsTable(n), NEW b, NEW d
  PROVE  /\ SameBut(n, Got(n, b, d),
              {"phys", "pool", "pages", "free", "parent", "private", "blocks"})
         /\ Got(n, b, d).free = n.free \ {b}
         /\ Got(n, b, d).parent = [n.parent EXCEPT ![b] = None]
  <1> DEFINE k == [n EXCEPT !.free = @ \ {b}, !.parent[b] = None,
                    !.private = @ \ {b}, !.blocks[d] = @ + 1]
  <1>1. SameBut(n, k, {"free", "parent", "private", "blocks"})
        /\ k.free = n.free \ {b} /\ k.parent = [n.parent EXCEPT ![b] = None]
    BY DEF SameBut, IsTable, Fields
  <1>2. IsTable(k)
    BY <1>1 DEF SameBut
  <1> HIDE DEF k
  <1>3. SameBut(k, Mounted(k, b, d), {"phys", "pool", "pages"})
    BY <1>2, MountedIs
  <1>4. Got(n, b, d) = Mounted(k, b, d)
    BY DEF Got, k
  <1> QED
    BY <1>1, <1>3, <1>4 DEF SameBut, Fields

LEMMA GivenBackIs ==
  ASSUME NEW n, IsTable(n), NEW by
  PROVE  /\ SameBut(n, GivenBack(n, by),
              {"phys", "pool", "pages", "newer", "forgotten", "state", "page", "parent",
               "private", "free", "blocks", "waiting"})
         /\ GivenBack(n, by).state = [b \in Block |-> IF b \in All(by) THEN "free" ELSE n.state[b]]
         /\ GivenBack(n, by).page = [b \in Block |-> IF b \in All(by) THEN None ELSE n.page[b]]
         /\ GivenBack(n, by).parent = [b \in Block |-> IF b \in All(by) THEN None ELSE n.parent[b]]
         /\ GivenBack(n, by).free = n.free \cup All(by)
         /\ GivenBack(n, by).waiting =
              [t \in Thread |-> IF n.waiting[t] \in {Memory} THEN None ELSE n.waiting[t]]
  <1> DEFINE h == Dismounted(n, by)
             bs == All(by)
             k == [h EXCEPT
                    !.state  = [b \in Block |-> IF b \in bs THEN "free" ELSE @[b]],
                    !.page   = [b \in Block |-> IF b \in bs THEN None ELSE @[b]],
                    !.parent = [b \in Block |-> IF b \in bs THEN None ELSE @[b]],
                    !.private = @ \ bs, !.free = @ \cup bs,
                    !.blocks = [d \in Domain |-> @[d] - Cardinality(by[d])]]
  <1>1. SameBut(n, h, {"phys", "pool", "pages", "newer", "forgotten"})
    BY DismountedIs
  <1> HIDE DEF h, bs
  <1>2. /\ SameBut(h, k, {"state", "page", "parent", "private", "free", "blocks"})
        /\ k.state = [b \in Block |-> IF b \in bs THEN "free" ELSE h.state[b]]
        /\ k.page = [b \in Block |-> IF b \in bs THEN None ELSE h.page[b]]
        /\ k.parent = [b \in Block |-> IF b \in bs THEN None ELSE h.parent[b]]
        /\ k.free = h.free \cup bs
    BY <1>1 DEF SameBut, IsTable, Fields
  <1>3. GivenBack(n, by) = Woken(k, {Memory})
    BY DEF GivenBack, h, bs
  <1>4. IsTable(k)
    BY <1>2 DEF SameBut
  <1> HIDE DEF k
  <1>5. /\ SameBut(k, Woken(k, {Memory}), {"waiting"})
        /\ Woken(k, {Memory}).waiting =
              [t \in Thread |-> IF k.waiting[t] \in {Memory} THEN None ELSE k.waiting[t]]
    BY <1>4, WokenIs
  <1>6. h.state = n.state /\ h.page = n.page /\ h.parent = n.parent /\ h.free = n.free
        /\ k.waiting = n.waiting
    BY <1>1, <1>2 DEF SameBut, Fields
  <1>7. SameBut(n, GivenBack(n, by),
              {"phys", "pool", "pages", "newer", "forgotten", "state", "page", "parent",
               "private", "free", "blocks", "waiting"})
    BY <1>1, <1>2, <1>3, <1>5 DEF SameBut
  <1>8. /\ GivenBack(n, by).state = k.state /\ GivenBack(n, by).page = k.page
        /\ GivenBack(n, by).parent = k.parent /\ GivenBack(n, by).free = k.free
        /\ GivenBack(n, by).waiting = Woken(k, {Memory}).waiting
    BY <1>3, <1>5 DEF SameBut, Fields
  <1> QED
    BY <1>2, <1>5, <1>6, <1>7, <1>8 DEF bs

LEMMA MountedReadingIs ==
  ASSUME NEW n, IsTable(n), NEW p, NextBlock(n, p) \in Block,
         DOMAIN n.page = Block
  PROVE  /\ SameBut(n, MountedReading(n, p),
              {"phys", "pool", "pages", "free", "parent", "private", "blocks", "state",
               "page", "lock"})
         /\ MountedReading(n, p).state = [n.state EXCEPT ![NextBlock(n, p)] = "reading"]
         /\ MountedReading(n, p).page = [n.page EXCEPT ![NextBlock(n, p)] = p]
         /\ MountedReading(n, p).parent = [n.parent EXCEPT ![NextBlock(n, p)] = None]
         /\ MountedReading(n, p).free = n.free \ {NextBlock(n, p)}
  <1> DEFINE b == NextBlock(n, p)
             k == Got(n, b, DomainOfPage(p))
             h == [k EXCEPT !.state[b] = "reading", !.page[b] = p, !.lock[b] = 0]
  <1>1. /\ SameBut(n, k, {"phys", "pool", "pages", "free", "parent", "private", "blocks"})
        /\ k.free = n.free \ {b}
        /\ k.parent = [n.parent EXCEPT ![b] = None]
    BY GotIs
  <1> HIDE DEF k, b
  <1>2. /\ SameBut(k, h, {"state", "page", "lock"})
        /\ h.state = [k.state EXCEPT ![b] = "reading"]
        /\ h.page = [k.page EXCEPT ![b] = p]
    BY <1>1 DEF SameBut, IsTable, Fields
  <1>3. MountedReading(n, p) = h
    BY DEF MountedReading, k, b
  <1> HIDE DEF h
  <1>4. k.state = n.state /\ k.page = n.page /\ h.free = k.free /\ h.parent = k.parent
    BY <1>1, <1>2 DEF SameBut, Fields
  <1>5. SameBut(n, h, {"phys", "pool", "pages", "free", "parent", "private", "blocks", "state",
               "page", "lock"})
    BY <1>1, <1>2 DEF SameBut
  <1> QED
    BY <1>1, <1>2, <1>3, <1>4, <1>5 DEF b

UnmountedAs(n, bs, k) ==
  /\ SameBut(n, k, {"waiting", "state"})
  /\ k.state = [b \in Block |-> IF b \in bs THEN "not modified" ELSE n.state[b]]
  /\ k.waiting = [t \in Thread |-> IF n.waiting[t] \in bs THEN None ELSE n.waiting[t]]

LEMMA UnmountedReadingIs ==
  ASSUME NEW n, NEW bs, IsTable(n)
  PROVE  UnmountedAs(n, bs, UnmountedReading(n, bs))
  <1> DEFINE k == Woken(n, bs)
  <1>1. /\ SameBut(n, k, {"waiting"})
        /\ k.waiting = [t \in Thread |-> IF n.waiting[t] \in bs THEN None ELSE n.waiting[t]]
    BY WokenIs
  <1> HIDE DEF k
  <1>2. UnmountedReading(n, bs) =
          [k EXCEPT !.state = [b \in Block |-> IF b \in bs THEN "not modified" ELSE @[b]]]
    BY DEF UnmountedReading, k
  <1> DEFINE state == [b \in Block |-> IF b \in bs THEN "not modified" ELSE k.state[b]]
             h == [k EXCEPT !.state = state]
  <1>3. UnmountedReading(n, bs) = h
    BY <1>2
  <1>4. k.state = n.state
    BY <1>1 DEF SameBut, Fields
  <1> HIDE DEF state
  <1>5. SameBut(k, h, {"state"}) /\ h.state = state /\ h.waiting = k.waiting
    BY <1>1 DEF SameBut, IsTable, Fields
  <1> HIDE DEF h
  <1>6. SameBut(n, h, {"waiting", "state"})
    BY <1>1, <1>5 DEF SameBut
  <1> QED
    BY <1>1, <1>3, <1>4, <1>5, <1>6 DEF state, UnmountedAs

LEMMA CopiedIs ==
  ASSUME NEW n, IsTable(n), NEW b
  PROVE  /\ SameBut(n, Copied(n, b), {"phys", "pool", "pages", "parent", "state", "newer"})
         /\ Copied(n, b).parent = [n.parent EXCEPT ![b] = None]
         /\ Copied(n, b).state = [n.state EXCEPT ![b] = "modified"]
  <1> DEFINE k == Mounted(n, b, DomainOfPage(n.page[b]))
  <1>1. SameBut(n, k, {"phys", "pool", "pages"})
    BY MountedIs
  <1> HIDE DEF k
  <1>2. Copied(n, b) = [k EXCEPT !.parent[b] = None, !.state[b] = "modified",
                                 !.newer = @ \cup {k.phys[b]}]
    BY DEF Copied, k
  <1> DEFINE phys == k.phys[b]
             h == [k EXCEPT !.parent[b] = None, !.state[b] = "modified",
                            !.newer = @ \cup {phys}]
  <1>3. Copied(n, b) = h
    BY <1>2
  <1> HIDE DEF phys
  <1>4. /\ SameBut(k, h, {"parent", "state", "newer"})
        /\ h.parent = [k.parent EXCEPT ![b] = None]
        /\ h.state = [k.state EXCEPT ![b] = "modified"]
    BY <1>1 DEF SameBut, IsTable, Fields
  <1> HIDE DEF h
  <1>5. k.parent = n.parent /\ k.state = n.state
    BY <1>1 DEF SameBut, Fields
  <1>6. SameBut(n, h, {"phys", "pool", "pages", "parent", "state", "newer"})
    BY <1>1, <1>4 DEF SameBut
  <1> QED
    BY <1>3, <1>4, <1>5, <1>6

UpdatedStates(n, b, root) ==
  [x \in Block |-> IF x = root /\ n.state[x] = "not modified" THEN "modified"
                   ELSE IF x = b /\ n.state[x] = "modified" THEN "not modified"
                   ELSE n.state[x]]

LEMMA UpdatedIs ==
  ASSUME NEW n, NEW b, NEW root, IsTable(n)
  PROVE  /\ SameBut(n, Updated(n, b, root),
              {"phys", "pool", "pages", "newer", "forgotten", "state", "parent", "private"})
         /\ Updated(n, b, root).parent = [n.parent EXCEPT ![b] = root]
         /\ Updated(n, b, root).state = UpdatedStates(n, b, root)
  <1> DEFINE old == n.phys[root]
             phys == [x \in Block |-> IF x = root THEN n.phys[b]
                                      ELSE IF x = b THEN old ELSE n.phys[x]]
             h == [n EXCEPT !.phys = phys]
             k == Dismounted(h, ByDomain(n, {b}))
  <1>1. Updated(n, b, root) =
          [k EXCEPT
             !.state = [x \in Block |-> IF x = root /\ @[x] = "not modified" THEN "modified"
                                        ELSE IF x = b /\ @[x] = "modified" THEN "not modified"
                                        ELSE @[x]],
             !.parent[b] = root, !.private = @ \cup {b},
             !.newer = (@ \ {old}) \cup {n.phys[b]}, !.forgotten = @ \ {old}]
    BY DEF Updated
  <1>2. SameBut(n, h, {"phys"})
    BY DEF SameBut, IsTable, Fields
  <1> HIDE DEF h
  <1>3. SameBut(h, k, {"phys", "pool", "pages", "newer", "forgotten"})
    BY <1>2, DismountedIs DEF SameBut
  <1>4. SameBut(n, k, {"phys", "pool", "pages", "newer", "forgotten"})
    BY <1>2, <1>3 DEF SameBut
  <1> DEFINE given == n.phys[b]
             state == [x \in Block |-> IF x = root /\ k.state[x] = "not modified" THEN "modified"
                                      ELSE IF x = b /\ k.state[x] = "modified" THEN "not modified"
                                      ELSE k.state[x]]
             l == [k EXCEPT !.state = state, !.parent[b] = root, !.private = @ \cup {b},
                     !.newer = (@ \ {old}) \cup {given}, !.forgotten = @ \ {old}]
  <1>5. Updated(n, b, root) = l
    BY <1>1
  <1>6. k.parent = n.parent /\ k.state = n.state
    BY <1>4 DEF SameBut, Fields
  <1> HIDE DEF k, old, given, state
  <1>7. /\ SameBut(k, l, {"state", "parent", "private", "newer", "forgotten"})
        /\ l.parent = [k.parent EXCEPT ![b] = root] /\ l.state = state
    BY <1>4 DEF SameBut, IsTable, Fields
  <1> HIDE DEF l
  <1>8. SameBut(n, l, {"phys", "pool", "pages", "newer", "forgotten", "state", "parent",
                       "private"})
    BY <1>4, <1>7 DEF SameBut
  <1>9. l.state = UpdatedStates(n, b, root)
    BY <1>6, <1>7 DEF state, UpdatedStates
  <1> QED
    BY <1>5, <1>6, <1>7, <1>8, <1>9

LEMMA EnteredIs ==
  ASSUME NEW n, IsTable(n), NEW b, NEW readOnly
  PROVE  SameBut(n, Entered(n, b, readOnly), {"entry", "lock", "forgotten"})
  BY DEF Entered, EnteredIn, SameBut, IsTable, Fields

CountedAs(n, w, i, k) == SameBut(n, k, {"calls"}) /\ k.calls = [n.calls EXCEPT ![w] = @ + i]

LEMMA CountedIs ==
  ASSUME NEW n, NEW w, NEW i, IsTable(n)
  PROVE  CountedAs(n, w, i, Counted(n, w, i))
  BY DEF Counted, CountedAs, SameBut, IsTable, Fields

LEMMA WaitsIs ==
  ASSUME NEW n, IsTable(n), NEW t, NEW what
  PROVE  SameBut(n, Waits(n, t, what), {"waiting"})
         /\ Waits(n, t, what).waiting = [n.waiting EXCEPT ![t] = what]
  BY DEF Waits, SameBut, IsTable, Fields

-----------------------------------------------------------------------------
(* The invariant of the tables.  Three sets say what the threads have:     *)
(* own, the blocks threads read and write (a block read stays with its     *)
(* thread while it is in its queue), stk, the blocks with the stacks of    *)
(* the file system, and users, what lock_number of the windows counts.     *)
States == {"free", "reading", "writing", "not modified", "modified"}
Owns   == [t : Thread, b : Block, as : {"reader", "queued", "writer"}, page : Page]
Stacks == [t : Thread, s : Block, d : Domain]
Users  == [t : Thread, w : Window, kind : {"call", "control", "device"}]
StateOf(as) == IF as = "writer" THEN "writing" ELSE "reading"

Typed(n) ==
  /\ IsTable(n)
  /\ n.state \in [Block -> States]
  /\ n.page \in [Block -> Page \cup {None}]
  /\ n.parent \in [Block -> Block \cup {None}]
  /\ n.free \subseteq Block
  /\ n.open \subseteq Window /\ n.miscounted \subseteq Window
  /\ n.calls \in [Window -> Int]
  /\ n.waiting \in [Thread -> Block \cup {Memory, None}]

InUse(n, b) == n.page[b] \in Page /\ WindowOf[n.page[b]] \in n.open /\ b \notin n.free
Live(n) == \A b \in Block :
  IF n.state[b] = "free" THEN n.page[b] = None /\ n.parent[b] = None ELSE InUse(n, b)

Distinct(n) == \A x, y \in Block :
  n.state[x] # "free" /\ n.state[y] # "free" /\ n.page[x] = n.page[y] => x = y

Owned(n, own) ==
  /\ own \subseteq Owns
  /\ \A o \in own : n.state[o.b] = StateOf(o.as) /\ n.page[o.b] = o.page
  /\ \A o, x \in own : o.b = x.b => o = x
  /\ \A b \in Block : Busy(n, b) => \E o \in own : o.b = b

Stacked(n, stk) ==
  /\ stk \subseteq Stacks
  /\ \A k \in stk : n.state[k.s] = "free" /\ k.s \notin n.free
  /\ \A k, x \in stk : k.s = x.s => k = x
  /\ \A b \in Block : n.state[b] = "free" /\ b \notin n.free => \E k \in stk : k.s = b

UsersOf(users, w) == {u \in users : u.w = w}
Used(n, users) ==
  /\ users \subseteq Users /\ IsFiniteSet(users)
  /\ Lending \subseteq n.open /\ n.miscounted \cap n.open = {}
  /\ \A u \in users : u.w \in n.open \/ (u.kind = "control" /\ u.w \in n.miscounted)
  /\ \A w \in Window \ n.miscounted : n.calls[w] = Cardinality(UsersOf(users, w))

Awaited(n) == \A t \in Thread : n.waiting[t] \in Block => Busy(n, n.waiting[t])

TableOK(n, own, stk, users) ==
  /\ Typed(n) /\ Live(n) /\ Distinct(n) /\ Ranked(n)
  /\ Owned(n, own) /\ Stacked(n, stk) /\ Used(n, users) /\ Awaited(n)

(* What changes nobody's claim to anything.                                *)
Loose == {"lock", "phys", "private", "pool", "blocks", "pages", "entry", "nowait",
          "newer", "forgotten"}

Calm(n, k) ==
  /\ SameBut(n, k, Loose \cup {"state", "parent", "waiting"})
  /\ k.state \in [Block -> States]
  /\ \A b \in Block : k.state[b] = n.state[b] \/ (Settled(n, b) /\ Settled(k, b))
  /\ k.parent \in [Block -> Block \cup {None}]
  /\ \A b \in Block : k.parent[b] = n.parent[b] \/ k.parent[b] = None
  /\ k.waiting \in [Thread -> Block \cup {Memory, None}]
  /\ \A t \in Thread : k.waiting[t] = n.waiting[t] \/ k.waiting[t] = None

LEMMA ParentInUse ==
  ASSUME NEW n, Typed(n), Ranked(n), NEW x \in Block, n.parent[x] # None
  PROVE  /\ n.parent[x] \in Block /\ Settled(n, x)
         /\ n.state[n.parent[x]] # "free" /\ Rank(n)[n.parent[x]] < Rank(n)[x]
  BY DEF Typed, Ranked

LEMMA CalmKeeps ==
  ASSUME NEW n, NEW k, NEW own, NEW stk, NEW users,
         TableOK(n, own, stk, users), Calm(n, k)
  PROVE  TableOK(k, own, stk, users)
  <1>1. /\ k.page = n.page /\ k.free = n.free /\ k.open = n.open
        /\ k.miscounted = n.miscounted /\ k.calls = n.calls /\ IsTable(k)
    BY DEF Calm, SameBut, Fields, Loose
  <1>2. \A b \in Block : Busy(k, b) <=> Busy(n, b)
    BY DEF Calm, Busy, Settled
  <1>3. \A b \in Block : Settled(k, b) <=> Settled(n, b)
    BY DEF Calm, Settled
  <1>4. \A b \in Block : k.state[b] = "free" <=> n.state[b] = "free"
    BY DEF Calm, Settled
  <1>5. Typed(k)
    BY <1>1 DEF TableOK, Typed, Calm
  <1>6. Live(k)
    <2> SUFFICES ASSUME NEW b \in Block
                 PROVE  IF k.state[b] = "free" THEN k.page[b] = None /\ k.parent[b] = None
                        ELSE InUse(k, b)
      BY DEF Live
    <2>1. IF n.state[b] = "free" THEN n.page[b] = None /\ n.parent[b] = None
          ELSE InUse(n, b)
      BY DEF TableOK, Live
    <2>2. k.parent[b] = n.parent[b] \/ k.parent[b] = None
      BY DEF Calm
    <2> QED
      BY <1>1, <1>4, <2>1, <2>2 DEF InUse
  <1>7. Distinct(k)
    BY <1>1, <1>4 DEF TableOK, Distinct
  <1>8. Ranked(k)
    <2> SUFFICES ASSUME NEW x \in Block, k.parent[x] # None
                 PROVE  /\ Settled(k, x) /\ k.state[k.parent[x]] # "free"
                        /\ Rank(k)[k.parent[x]] < Rank(k)[x]
      BY <1>5 DEF Ranked, Typed
    <2>1. k.parent[x] = n.parent[x]
      BY DEF Calm
    <2>2. Rank(k) = Rank(n)
      BY <1>1 DEF Rank
    <2>3. /\ n.parent[x] \in Block /\ Settled(n, x)
          /\ n.state[n.parent[x]] # "free" /\ Rank(n)[n.parent[x]] < Rank(n)[x]
      BY <2>1, ParentInUse DEF TableOK
    <2> QED
      BY <2>1, <2>2, <2>3, <1>3, <1>4
  <1>9. Owned(k, own)
    <2>1. \A o \in own : n.state[o.b] = StateOf(o.as) /\ o.b \in Block
      BY DEF TableOK, Owned, Owns
    <2>2. \A o \in own : k.state[o.b] = StateOf(o.as)
      BY <2>1 DEF Calm, Settled, StateOf
    <2> QED
      BY <1>1, <1>2, <2>2 DEF TableOK, Owned
  <1>10. Stacked(k, stk)
    BY <1>1, <1>4 DEF TableOK, Stacked, Stacks
  <1>11. Used(k, users)
    BY <1>1 DEF TableOK, Used
  <1>12. Awaited(k)
    <2> SUFFICES ASSUME NEW t \in Thread, k.waiting[t] \in Block
                 PROVE  Busy(k, k.waiting[t])
      BY DEF Awaited
    <2>1. k.waiting[t] = n.waiting[t]
      BY TableAssumption DEF Calm
    <2> QED
      BY <2>1, <1>2 DEF TableOK, Awaited
  <1> QED
    BY <1>5, <1>6, <1>7, <1>8, <1>9, <1>10, <1>11, <1>12 DEF TableOK

LEMMA NoneIs == None \notin Block /\ None \notin Page /\ None \notin Window
                /\ None \notin Thread /\ None \notin Domain
                /\ Memory # None /\ Memory \notin Block
  BY TableAssumption

LEMMA StatesAre ==
  /\ "free" \in States /\ "reading" \in States /\ "writing" \in States
  /\ "not modified" \in States /\ "modified" \in States
  BY DEF States

(* A part of the invariant that speaks of fields that stay.                *)
LEMMA SameParts ==
  ASSUME NEW n, NEW k, NEW own, NEW stk, NEW users, TableOK(n, own, stk, users)
  PROVE  /\ k.state = n.state /\ k.page = n.page /\ k.parent = n.parent /\ k.free = n.free
            /\ k.open = n.open => Live(k)
         /\ k.state = n.state /\ k.page = n.page => Distinct(k) /\ Owned(k, own)
         /\ k.state = n.state /\ k.page = n.page /\ k.parent = n.parent => Ranked(k)
         /\ k.state = n.state /\ k.free = n.free => Stacked(k, stk)
         /\ k.open = n.open /\ k.miscounted = n.miscounted /\ k.calls = n.calls
            => Used(k, users)
         /\ k.state = n.state /\ k.waiting = n.waiting => Awaited(k)
  <1>1. k.state = n.state /\ k.page = n.page /\ k.parent = n.parent /\ k.free = n.free
        /\ k.open = n.open => Live(k)
    BY DEF TableOK, Live, InUse
  <1>2. k.state = n.state /\ k.page = n.page => Distinct(k)
    BY DEF TableOK, Distinct
  <1>3. k.state = n.state /\ k.page = n.page => Owned(k, own)
    BY DEF TableOK, Owned, Busy
  <1>4. k.state = n.state /\ k.page = n.page /\ k.parent = n.parent => Ranked(k)
    BY DEF TableOK, Ranked, Settled, Rank
  <1>5. k.state = n.state /\ k.free = n.free => Stacked(k, stk)
    BY DEF TableOK, Stacked
  <1>6. k.open = n.open /\ k.miscounted = n.miscounted /\ k.calls = n.calls
        => Used(k, users)
    BY DEF TableOK, Used
  <1>7. k.state = n.state /\ k.waiting = n.waiting => Awaited(k)
    BY DEF TableOK, Awaited, Busy
  <1> QED
    BY <1>1, <1>2, <1>3, <1>4, <1>5, <1>6, <1>7

(* wait for something                                                      *)
LEMMA WaitsKeeps ==
  ASSUME NEW n, NEW own, NEW stk, NEW users, TableOK(n, own, stk, users),
         NEW t \in Thread, NEW what, what = Memory \/ (what \in Block /\ Busy(n, what))
  PROVE  TableOK(Waits(n, t, what), own, stk, users)
  <1> DEFINE k == Waits(n, t, what)
  <1>0. IsTable(n)
    BY DEF TableOK, Typed
  <1>1. SameBut(n, k, {"waiting"}) /\ k.waiting = [n.waiting EXCEPT ![t] = what]
    BY <1>0, WaitsIs
  <1> HIDE DEF k
  <1>2. /\ k.state = n.state /\ k.page = n.page /\ k.parent = n.parent /\ k.free = n.free
        /\ k.open = n.open /\ k.miscounted = n.miscounted /\ k.calls = n.calls /\ IsTable(k)
    BY <1>1 DEF SameBut, Fields
  <1>3. Typed(k)
    BY <1>1, <1>2 DEF TableOK, Typed
  <1>4. Awaited(k)
    <2> SUFFICES ASSUME NEW u \in Thread, k.waiting[u] \in Block
                 PROVE  Busy(k, k.waiting[u])
      BY DEF Awaited
    <2>1. CASE u = t
      <3>1. k.waiting[u] = what
        BY <2>1, <1>1 DEF TableOK, Typed
      <3> QED
        BY <3>1, <1>2, NoneIs DEF Busy
    <2>2. CASE u # t
      <3>1. k.waiting[u] = n.waiting[u]
        BY <2>2, <1>1 DEF TableOK, Typed
      <3> QED
        BY <3>1, <1>2 DEF TableOK, Awaited, Busy
    <2> QED
      BY <2>1, <2>2
  <1>5. /\ Live(k) /\ Distinct(k) /\ Ranked(k) /\ Owned(k, own) /\ Stacked(k, stk)
        /\ Used(k, users)
    BY <1>2, SameParts
  <1> QED
    BY <1>3, <1>4, <1>5 DEF TableOK, k

(* get_free_block for a stack                                              *)
LEMMA GotKeeps ==
  ASSUME NEW n, NEW own, NEW stk, NEW users, TableOK(n, own, stk, users),
         NEW t \in Thread, NEW d \in Domain, NEW s \in n.free
  PROVE  TableOK(Got(n, s, d), own, stk \cup {[t |-> t, s |-> s, d |-> d]}, users)
  <1> DEFINE k == Got(n, s, d)
             e == [t |-> t, s |-> s, d |-> d]
  <1>0. Typed(n) /\ Live(n)
    BY DEF TableOK
  <1>1. /\ SameBut(n, k, {"phys", "pool", "pages", "free", "parent", "private", "blocks"})
        /\ k.free = n.free \ {s} /\ k.parent = [n.parent EXCEPT ![s] = None]
    BY <1>0, GotIs DEF Typed
  <1> HIDE DEF k
  <1>2. /\ k.state = n.state /\ k.page = n.page /\ k.waiting = n.waiting
        /\ k.open = n.open /\ k.miscounted = n.miscounted /\ k.calls = n.calls /\ IsTable(k)
    BY <1>1 DEF SameBut, Fields
  <1>3. s \in Block /\ n.state[s] = "free" /\ n.parent[s] = None
    BY <1>0 DEF Typed, Live, InUse
  <1>4. k.parent = n.parent
    BY <1>0, <1>1, <1>3 DEF Typed
  <1>5. Typed(k)
    BY <1>0, <1>1, <1>2, <1>4 DEF Typed
  <1>6. Live(k)
    BY <1>0, <1>1, <1>2, <1>4 DEF Live, InUse
  <1>7. Distinct(k) /\ Ranked(k) /\ Owned(k, own) /\ Used(k, users) /\ Awaited(k)
    BY <1>2, <1>4, SameParts
  <1>8. Stacked(k, stk \cup {e})
    <2>1. Stacked(n, stk)
      BY DEF TableOK
    <2>2. e \in Stacks /\ e.s = s
      BY <1>3 DEF Stacks
    <2> HIDE DEF e
    <2>3. \A x \in stk : x.s # s /\ x.s \in Block
      BY <2>1 DEF Stacked, Stacks
    <2>4. \A b \in Block : n.state[b] = "free" /\ b \notin n.free \ {s} =>
             \E x \in stk \cup {e} : x.s = b
      BY <2>1, <2>2 DEF Stacked
    <2>5. \A x, y \in stk \cup {e} : x.s = y.s => x = y
      BY <2>1, <2>2, <2>3 DEF Stacked
    <2>6. \A x \in stk \cup {e} : n.state[x.s] = "free" /\ x.s \notin n.free \ {s}
      BY <1>3, <2>1, <2>2 DEF Stacked
    <2>7. stk \cup {e} \subseteq Stacks
      BY <2>1, <2>2 DEF Stacked
    <2> QED
      BY <1>1, <1>2, <2>4, <2>5, <2>6, <2>7 DEF Stacked
  <1> QED
    BY <1>5, <1>6, <1>7, <1>8 DEF TableOK, k

(* blocks go back: settled ones with all below them, or a stack            *)
LEMMA GivenBackKeeps ==
  ASSUME NEW n, NEW own, NEW stk, NEW users, TableOK(n, own, stk, users),
         NEW by, NEW left, left \subseteq stk,
         \A b \in All(by) : b \in Block /\ ~Busy(n, b) /\ b \notin n.free,
         \A x \in Block : n.parent[x] \in All(by) => x \in All(by),
         \A k \in stk : k \in left <=> k.s \notin All(by)
  PROVE  TableOK(GivenBack(n, by), own, left, users)
  <1> DEFINE k == GivenBack(n, by)
             bs == All(by)
  <1>0. Typed(n) /\ Live(n)
    BY DEF TableOK
  <1>1. /\ SameBut(n, k,
              {"phys", "pool", "pages", "newer", "forgotten", "state", "page", "parent",
               "private", "free", "blocks", "waiting"})
        /\ k.state = [b \in Block |-> IF b \in bs THEN "free" ELSE n.state[b]]
        /\ k.page = [b \in Block |-> IF b \in bs THEN None ELSE n.page[b]]
        /\ k.parent = [b \in Block |-> IF b \in bs THEN None ELSE n.parent[b]]
        /\ k.free = n.free \cup bs
        /\ k.waiting = [t \in Thread |-> IF n.waiting[t] \in {Memory} THEN None ELSE n.waiting[t]]
    BY <1>0, GivenBackIs DEF Typed
  <1> HIDE DEF k, bs
  <1>2. k.open = n.open /\ k.miscounted = n.miscounted /\ k.calls = n.calls /\ IsTable(k)
    BY <1>1 DEF SameBut, Fields
  <1>a. \A b \in bs : b \in Block /\ ~Busy(n, b) /\ b \notin n.free
    BY DEF bs
  <1>b. \A x \in Block : n.parent[x] \in bs => x \in bs
    BY DEF bs
  <1>c. \A e \in stk : e \in left <=> e.s \notin bs
    BY DEF bs
  <1>3. Typed(k)
    <2> DEFINE state == [b \in Block |-> IF b \in bs THEN "free" ELSE n.state[b]]
    <2>0. n.state \in [Block -> States]
      BY <1>0 DEF Typed
    <2>1. state \in [Block -> States]
      BY <2>0, StatesAre
    <2>2. k.page \in [Block -> Page \cup {None}] /\ k.parent \in [Block -> Block \cup {None}]
      BY <1>0, <1>1 DEF Typed
    <2>3. k.waiting \in [Thread -> Block \cup {Memory, None}] /\ k.free \subseteq Block
      BY <1>0, <1>1, <1>a DEF Typed
    <2>4. k.state \in [Block -> States]
      BY <1>1, <2>1
    <2> QED
      BY <1>0, <1>2, <2>4, <2>2, <2>3 DEF Typed
  <1>4. Live(k)
    <2> SUFFICES ASSUME NEW b \in Block
                 PROVE  IF k.state[b] = "free" THEN k.page[b] = None /\ k.parent[b] = None
                        ELSE InUse(k, b)
      BY DEF Live
    <2>1. IF n.state[b] = "free" THEN n.page[b] = None /\ n.parent[b] = None
          ELSE InUse(n, b)
      BY <1>0 DEF Live
    <2>2. CASE b \in bs
      BY <2>2, <1>1
    <2>3. CASE b \notin bs
      <3>1. k.state[b] = n.state[b] /\ k.page[b] = n.page[b] /\ k.parent[b] = n.parent[b]
        BY <2>3, <1>1
      <3> QED
        BY <3>1, <2>1, <2>3, <1>1, <1>2 DEF InUse
    <2> QED
      BY <2>2, <2>3
  <1>5. Distinct(k)
    BY <1>1 DEF TableOK, Distinct
  <1>6. Ranked(k)
    <2> SUFFICES ASSUME NEW x \in Block, k.parent[x] # None
                 PROVE  /\ Settled(k, x) /\ k.state[k.parent[x]] # "free"
                        /\ Rank(k)[k.parent[x]] < Rank(k)[x]
      BY <1>3 DEF Ranked, Typed
    <2>1. x \notin bs /\ k.parent[x] = n.parent[x] /\ n.parent[x] # None
      BY <1>1
    <2>2. /\ n.parent[x] \in Block /\ Settled(n, x)
          /\ n.state[n.parent[x]] # "free" /\ Rank(n)[n.parent[x]] < Rank(n)[x]
      BY <2>1, ParentInUse DEF TableOK
    <2>3. n.parent[x] \notin bs
      BY <1>b, <2>1
    <2>4. \A y \in Block : y \notin bs => k.state[y] = n.state[y] /\ k.page[y] = n.page[y]
      BY <1>1
    <2>5. Rank(k)[x] = Rank(n)[x] /\ Rank(k)[n.parent[x]] = Rank(n)[n.parent[x]]
      BY <2>1, <2>2, <2>3, <2>4 DEF Rank
    <2> QED
      BY <2>1, <2>2, <2>3, <2>4, <2>5 DEF Settled
  <1>7. Owned(k, own)
    <2>1. \A o \in own : o.b \in Block /\ Busy(n, o.b)
      BY DEF TableOK, Owned, Owns, StateOf, Busy
    <2>2. \A o \in own : o.b \notin bs
      BY <2>1, <1>a
    <2>3. \A b \in Block : Busy(k, b) => Busy(n, b)
      BY <1>1 DEF Busy
    <2>4. \A o \in own : k.state[o.b] = n.state[o.b] /\ k.page[o.b] = n.page[o.b]
      BY <2>1, <2>2, <1>1
    <2> QED
      BY <2>3, <2>4 DEF TableOK, Owned
  <1>8. Stacked(k, left)
    <2>1. Stacked(n, stk)
      BY DEF TableOK
    <2>2. left \subseteq Stacks
      BY <2>1 DEF Stacked
    <2>3. \A e \in left : e \in stk /\ e.s \in Block /\ e.s \notin bs
      BY <1>c, <2>2 DEF Stacks
    <2>4. \A e \in left : k.state[e.s] = "free" /\ e.s \notin k.free
      BY <2>1, <2>3, <1>1 DEF Stacked
    <2>5. \A b \in Block : k.state[b] = "free" /\ b \notin k.free => \E e \in left : e.s = b
      <3> SUFFICES ASSUME NEW b \in Block, k.state[b] = "free", b \notin k.free
                   PROVE  \E e \in left : e.s = b
        OBVIOUS
      <3>1. b \notin bs /\ n.state[b] = "free" /\ b \notin n.free
        BY <1>1
      <3>2. PICK e \in stk : e.s = b
        BY <3>1, <2>1 DEF Stacked
      <3> QED
        BY <3>1, <3>2, <1>c
    <2> QED
      BY <2>1, <2>2, <2>3, <2>4, <2>5 DEF Stacked
  <1>9. Used(k, users)
    BY <1>2, SameParts
  <1>10. Awaited(k)
    <2> SUFFICES ASSUME NEW t \in Thread, k.waiting[t] \in Block
                 PROVE  Busy(k, k.waiting[t])
      BY DEF Awaited
    <2>1. k.waiting[t] = n.waiting[t]
      BY <1>1, NoneIs
    <2>2. Busy(n, n.waiting[t])
      BY <2>1 DEF TableOK, Awaited
    <2>3. n.waiting[t] \in Block /\ n.waiting[t] \notin bs
      BY <2>1, <2>2, <1>a
    <2> QED
      BY <2>1, <2>2, <2>3, <1>1 DEF Busy
  <1> QED
    BY <1>3, <1>4, <1>5, <1>6, <1>7, <1>8, <1>9, <1>10 DEF TableOK, k

LEMMA AllOfStack ==
  ASSUME NEW s, NEW d \in Domain
  PROVE  All(Stack(s, d)) = {s}
  BY DEF All, Stack

LEMMA StackBackKeeps ==
  ASSUME NEW n, NEW own, NEW stk, NEW users, TableOK(n, own, stk, users), NEW k \in stk
  PROVE  TableOK(GivenBack(n, Stack(k.s, k.d)), own, stk \ {k}, users)
  <1> DEFINE by == Stack(k.s, k.d)
             left == stk \ {k}
  <1>1. Stacked(n, stk) /\ Typed(n) /\ Ranked(n)
    BY DEF TableOK
  <1>2. k.s \in Block /\ k.d \in Domain
    BY <1>1 DEF Stacked, Stacks
  <1>3. All(by) = {k.s}
    BY <1>2, AllOfStack
  <1> HIDE DEF by
  <1>4. n.state[k.s] = "free" /\ k.s \notin n.free
    BY <1>1 DEF Stacked
  <1>5. \A b \in All(by) : b \in Block /\ ~Busy(n, b) /\ b \notin n.free
    BY <1>2, <1>3, <1>4 DEF Busy
  <1>6. \A x \in Block : n.parent[x] \in All(by) => x \in All(by)
    <2> SUFFICES ASSUME NEW x \in Block, n.parent[x] = k.s
                 PROVE  FALSE
      BY <1>3
    <2>1. n.parent[x] # None
      BY <1>2, NoneIs
    <2>2. n.state[n.parent[x]] # "free"
      BY <2>1, <1>1, ParentInUse
    <2> QED
      BY <2>2, <1>4
  <1>7. \A e \in stk : e \in left <=> e.s \notin All(by)
    BY <1>1, <1>3 DEF Stacked
  <1>8. left \subseteq stk
    OBVIOUS
  <1> HIDE DEF left
  <1>9. TableOK(GivenBack(n, by), own, left, users)
    BY <1>5, <1>6, <1>7, <1>8, GivenBackKeeps
  <1> QED
    BY <1>9 DEF by, left

(* free_one_block                                                          *)
LEMMA FreedKeeps ==
  ASSUME NEW n, NEW own, NEW stk, NEW users, TableOK(n, own, stk, users),
         NEW bs, \A b \in bs : b \in Block /\ Settled(n, b)
  PROVE  TableOK(Freed(n, bs), own, stk, users)
  <1> DEFINE trees == UNION {Tree(n, b) : b \in bs}
             by == ByDomain(n, trees)
  <1>1. Typed(n) /\ Ranked(n) /\ Live(n) /\ Stacked(n, stk)
    BY DEF TableOK
  <1>2. \A x \in trees : x \in Block /\ Settled(n, x)
    <2> SUFFICES ASSUME NEW b \in bs, NEW x \in Tree(n, b)
                 PROVE  x \in Block /\ Settled(n, x)
      OBVIOUS
    <2>1. x \in Block /\ b \in Above(n, x)
      BY DEF Tree
    <2>2. CASE x # b
      <3>1. n.parent[x] # None
        BY <2>1, <2>2, <1>1, AboveRanks
      <3> QED
        BY <3>1, <2>1, <1>1, ParentInUse
    <2> QED
      BY <2>1, <2>2
  <1>3. \A x \in Block : n.parent[x] \in trees => x \in trees
    <2> SUFFICES ASSUME NEW x \in Block, NEW b \in bs, n.parent[x] \in Tree(n, b)
                 PROVE  x \in Tree(n, b)
      OBVIOUS
    <2>1. n.parent[x] \in Block /\ n.parent[x] # None /\ b \in Above(n, n.parent[x])
      BY NoneIs DEF Tree
    <2>2. Above(n, n.parent[x]) \subseteq Above(n, x)
      BY <2>1, <1>1, AboveIs DEF Typed
    <2> QED
      BY <2>1, <2>2 DEF Tree
  <1> HIDE DEF trees
  <1>4. All(by) = trees
    <2>1. \A x \in trees : DomainOfPage(n.page[x]) \in Domain
      <3> SUFFICES ASSUME NEW x \in trees
                   PROVE  DomainOfPage(n.page[x]) \in Domain
        OBVIOUS
      <3>1. n.page[x] \in Page
        BY <1>1, <1>2 DEF Live, InUse, Settled
      <3> QED
        BY <3>1, TableAssumption DEF DomainOfPage
    <2> QED
      BY <2>1 DEF All, ByDomain
  <1>5. Freed(n, bs) = GivenBack(n, by)
    BY DEF Freed, trees
  <1> HIDE DEF by
  <1>6. \A b \in All(by) : b \in Block /\ ~Busy(n, b) /\ b \notin n.free
    BY <1>1, <1>2, <1>4 DEF Settled, Busy, Live, InUse
  <1>7. \A k \in stk : k \in stk <=> k.s \notin All(by)
    BY <1>1, <1>2, <1>4 DEF Stacked, Settled
  <1>8. \A x \in Block : n.parent[x] \in All(by) => x \in All(by)
    BY <1>3, <1>4
  <1>9. TableOK(GivenBack(n, by), own, stk, users)
    BY <1>6, <1>7, <1>8, GivenBackKeeps
  <1> QED
    BY <1>5, <1>9

(* mount_reading_block                                                     *)
LEMMA MountedReadingKeeps ==
  ASSUME NEW n, NEW own, NEW stk, NEW users, TableOK(n, own, stk, users),
         NEW t \in Thread, NEW p \in Page, WindowOf[p] \in n.open,
         Found(n, p) = {}, n.free # {}
  PROVE  TableOK(MountedReading(n, p),
           own \cup {[t |-> t, b |-> NextBlock(n, p), as |-> "queued", page |-> p]}, stk, users)
  <1> DEFINE k == MountedReading(n, p)
             b == NextBlock(n, p)
             e == [t |-> t, b |-> b, as |-> "queued", page |-> p]
  <1>0. Typed(n) /\ Live(n) /\ Owned(n, own) /\ Ranked(n)
    BY DEF TableOK
  <1>1. b \in n.free /\ b \in Block
    BY <1>0, ChosenBlocks DEF Typed
  <1>2. /\ SameBut(n, k, {"phys", "pool", "pages", "free", "parent", "private", "blocks",
              "state", "page", "lock"})
        /\ k.state = [n.state EXCEPT ![b] = "reading"]
        /\ k.page = [n.page EXCEPT ![b] = p]
        /\ k.parent = [n.parent EXCEPT ![b] = None]
        /\ k.free = n.free \ {b}
    <2>1. DOMAIN n.page = Block
      BY <1>0 DEF Typed
    <2> QED
      BY <1>0, <1>1, <2>1, MountedReadingIs DEF Typed
  <1>e. e \in Owns /\ e.b = b /\ e.page = p /\ e.as = "queued"
    BY <1>1 DEF Owns
  <1> HIDE DEF k, b, e
  <1>3. /\ k.open = n.open /\ k.miscounted = n.miscounted /\ k.calls = n.calls
        /\ k.waiting = n.waiting /\ IsTable(k)
    BY <1>2 DEF SameBut, Fields
  <1>4. n.state[b] = "free" /\ n.parent[b] = None
    BY <1>0, <1>1 DEF Live, InUse
  <1>5. k.parent = n.parent
    BY <1>0, <1>1, <1>2, <1>4 DEF Typed
  <1>6. /\ k.state[b] = "reading" /\ k.page[b] = p
        /\ \A x \in Block : x # b => k.state[x] = n.state[x] /\ k.page[x] = n.page[x]
    BY <1>0, <1>1, <1>2 DEF Typed
  <1>7. Typed(k)
    <2>1. n.state \in [Block -> States] /\ n.page \in [Block -> Page \cup {None}]
      BY <1>0 DEF Typed
    <2>2. [n.state EXCEPT ![b] = "reading"] \in [Block -> States]
      BY <2>1, StatesAre
    <2>3. [n.page EXCEPT ![b] = p] \in [Block -> Page \cup {None}]
      BY <2>1
    <2>4. k.state \in [Block -> States] /\ k.page \in [Block -> Page \cup {None}]
      BY <1>2, <2>2, <2>3
    <2> QED
      BY <1>0, <1>2, <1>3, <1>5, <2>4 DEF Typed
  <1>8. Live(k)
    <2> SUFFICES ASSUME NEW x \in Block
                 PROVE  IF k.state[x] = "free" THEN k.page[x] = None /\ k.parent[x] = None
                        ELSE InUse(k, x)
      BY DEF Live
    <2>1. CASE x = b
      BY <2>1, <1>2, <1>3, <1>6 DEF InUse
    <2>2. CASE x # b
      <3>1. IF n.state[x] = "free" THEN n.page[x] = None /\ n.parent[x] = None
            ELSE InUse(n, x)
        BY <1>0 DEF Live
      <3> QED
        BY <2>2, <3>1, <1>2, <1>3, <1>5, <1>6 DEF InUse
    <2> QED
      BY <2>1, <2>2
  <1>9. Distinct(k)
    <2>1. \A x \in Block : n.state[x] # "free" => n.page[x] # p
      BY DEF Found
    <2> QED
      BY <2>1, <1>6 DEF TableOK, Distinct
  <1>10. Ranked(k)
    <2> SUFFICES ASSUME NEW x \in Block, k.parent[x] # None
                 PROVE  /\ Settled(k, x) /\ k.state[k.parent[x]] # "free"
                        /\ Rank(k)[k.parent[x]] < Rank(k)[x]
      BY <1>7 DEF Ranked, Typed
    <2>1. /\ n.parent[x] \in Block /\ Settled(n, x)
          /\ n.state[n.parent[x]] # "free" /\ Rank(n)[n.parent[x]] < Rank(n)[x]
      BY <1>0, <1>5, ParentInUse
    <2>2. x # b /\ n.parent[x] # b
      BY <2>1, <1>4 DEF Settled
    <2>3. Rank(k)[x] = Rank(n)[x] /\ Rank(k)[n.parent[x]] = Rank(n)[n.parent[x]]
      BY <2>1, <2>2, <1>6 DEF Rank
    <2> QED
      BY <2>1, <2>2, <2>3, <1>5, <1>6 DEF Settled
  <1>11. Owned(k, own \cup {e})
    <2>1. \A o \in own : o.b \in Block /\ o.b # b
      BY <1>0, <1>4 DEF Owned, Owns, StateOf
    <2>2. \A o \in own \cup {e} : k.state[o.b] = StateOf(o.as) /\ k.page[o.b] = o.page
      BY <1>0, <1>e, <1>6, <2>1 DEF Owned, StateOf
    <2>3. \A o, x \in own \cup {e} : o.b = x.b => o = x
      BY <1>0, <1>e, <2>1 DEF Owned
    <2>4. \A x \in Block : Busy(k, x) => \E o \in own \cup {e} : o.b = x
      BY <1>0, <1>e, <1>6 DEF Owned, Busy
    <2>5. own \cup {e} \subseteq Owns
      BY <1>0, <1>e DEF Owned
    <2> QED
      BY <2>2, <2>3, <2>4, <2>5 DEF Owned
  <1>12. Stacked(k, stk)
    <2>1. Stacked(n, stk)
      BY DEF TableOK
    <2>2. \A x \in stk : x.s \in Block /\ x.s # b
      BY <2>1, <1>1 DEF Stacked, Stacks
    <2>3. \A x \in stk : k.state[x.s] = "free" /\ x.s \notin k.free
      BY <2>1, <2>2, <1>2, <1>6 DEF Stacked
    <2>4. \A x \in Block : k.state[x] = "free" /\ x \notin k.free => \E y \in stk : y.s = x
      BY <2>1, <1>2, <1>6 DEF Stacked
    <2> QED
      BY <2>1, <2>3, <2>4 DEF Stacked
  <1>13. Used(k, users)
    BY <1>3, SameParts
  <1>14. Awaited(k)
    BY <1>3, <1>6 DEF TableOK, Awaited, Busy
  <1> QED
    BY <1>7, <1>8, <1>9, <1>10, <1>11, <1>12, <1>13, <1>14 DEF TableOK, k, b, e

(* unmount_reading_block                                                   *)
LEMMA UnmountedKeeps ==
  ASSUME NEW n, NEW own, NEW stk, NEW users, NEW gone, NEW bs,
         TableOK(n, own, stk, users), gone \subseteq own, \A b : b \in bs <=> \E o \in gone : o.b = b
  PROVE  TableOK(UnmountedReading(n, bs), own \ gone, stk, users)
  <1> DEFINE k == UnmountedReading(n, bs)
  <1>0. Typed(n) /\ Live(n) /\ Owned(n, own) /\ Ranked(n)
    BY DEF TableOK
  <1>1. /\ SameBut(n, k, {"waiting", "state"})
        /\ k.state = [b \in Block |-> IF b \in bs THEN "not modified" ELSE n.state[b]]
        /\ k.waiting = [t \in Thread |-> IF n.waiting[t] \in bs THEN None ELSE n.waiting[t]]
    <2>1. IsTable(n)
      BY <1>0 DEF Typed
    <2>2. UnmountedAs(n, bs, k)
      BY <2>1, UnmountedReadingIs
    <2> HIDE DEF k
    <2> QED
      BY <2>2 DEF UnmountedAs
  <1> HIDE DEF k
  <1>2. /\ k.page = n.page /\ k.parent = n.parent /\ k.free = n.free /\ k.open = n.open
        /\ k.miscounted = n.miscounted /\ k.calls = n.calls /\ IsTable(k)
    BY <1>1 DEF SameBut, Fields
  <1>3. \A o \in own : o.b \in Block /\ Busy(n, o.b)
    BY <1>0 DEF Owned, Owns, StateOf, Busy
  <1>4. \A b \in bs : b \in Block /\ Busy(n, b)
    BY <1>3
  <1>5. /\ \A b \in Block : b \in bs => k.state[b] = "not modified"
        /\ \A b \in Block : b \notin bs => k.state[b] = n.state[b]
    BY <1>1
  <1>6. \A b \in Block : k.state[b] = "free" <=> n.state[b] = "free"
    BY <1>4, <1>5 DEF Busy
  <1>7. Typed(k)
    <2> DEFINE state == [b \in Block |-> IF b \in bs THEN "not modified" ELSE n.state[b]]
               waiting == [t \in Thread |-> IF n.waiting[t] \in bs THEN None ELSE n.waiting[t]]
    <2>0. n.state \in [Block -> States] /\ n.waiting \in [Thread -> Block \cup {Memory, None}]
      BY <1>0 DEF Typed
    <2>3. state \in [Block -> States]
      BY <2>0, StatesAre
    <2>4. waiting \in [Thread -> Block \cup {Memory, None}]
      BY <2>0
    <2>1. k.state \in [Block -> States]
      BY <1>1, <2>3
    <2>2. k.waiting \in [Thread -> Block \cup {Memory, None}]
      BY <1>1, <2>4
    <2> QED
      BY <1>0, <1>2, <2>1, <2>2 DEF Typed
  <1>8. Live(k)
    BY <1>0, <1>2, <1>6 DEF Live, InUse
  <1>9. Distinct(k)
    BY <1>2, <1>6 DEF TableOK, Distinct
  <1>10. Ranked(k)
    <2> SUFFICES ASSUME NEW x \in Block, n.parent[x] # None
                 PROVE  /\ Settled(k, x) /\ k.state[n.parent[x]] # "free"
                        /\ Rank(k)[n.parent[x]] < Rank(k)[x]
      BY <1>2, <1>7 DEF Ranked, Typed
    <2>1. /\ n.parent[x] \in Block /\ Settled(n, x)
          /\ n.state[n.parent[x]] # "free" /\ Rank(n)[n.parent[x]] < Rank(n)[x]
      BY <1>0, ParentInUse
    <2>2. Rank(k) = Rank(n)
      BY <1>2 DEF Rank
    <2>3. Settled(k, x)
      BY <2>1, <1>5 DEF Settled
    <2> QED
      BY <2>1, <2>2, <2>3, <1>6
  <1>11. Owned(k, own \ gone)
    <2>1. \A o \in own \ gone : o.b \notin bs
      BY <1>0 DEF Owned
    <2>2. \A o \in own \ gone : k.state[o.b] = StateOf(o.as) /\ k.page[o.b] = o.page
      BY <2>1, <1>0, <1>2, <1>3, <1>5 DEF Owned
    <2>3. \A b \in Block : Busy(k, b) => \E o \in own \ gone : o.b = b
      <3> SUFFICES ASSUME NEW b \in Block, Busy(k, b)
                   PROVE  \E o \in own \ gone : o.b = b
        OBVIOUS
      <3>1. b \notin bs /\ Busy(n, b)
        BY <1>5 DEF Busy
      <3>2. PICK o \in own : o.b = b
        BY <3>1, <1>0 DEF Owned
      <3> QED
        BY <3>1, <3>2
    <2> QED
      BY <2>2, <2>3, <1>0 DEF Owned
  <1>12. Stacked(k, stk)
    BY <1>2, <1>6 DEF TableOK, Stacked, Stacks
  <1>13. Used(k, users)
    BY <1>2, SameParts
  <1>14. Awaited(k)
    <2> SUFFICES ASSUME NEW t \in Thread, k.waiting[t] \in Block
                 PROVE  Busy(k, k.waiting[t])
      BY DEF Awaited
    <2>1. k.waiting[t] = n.waiting[t] /\ n.waiting[t] \notin bs
      BY <1>1, NoneIs
    <2>2. Busy(n, n.waiting[t]) /\ n.waiting[t] \in Block
      BY <2>1 DEF TableOK, Awaited
    <2> QED
      BY <2>1, <2>2, <1>5 DEF Busy
  <1> QED
    BY <1>7, <1>8, <1>9, <1>10, <1>11, <1>12, <1>13, <1>14 DEF TableOK, k

(* a settled block is put below another, mount_wait_reading_block,         *)
(* mount_update_block                                                      *)
LEMMA BelowKeeps ==
  ASSUME NEW n, NEW own, NEW stk, NEW users, TableOK(n, own, stk, users),
         NEW k, SameBut(n, k, Loose \cup {"state", "parent"}),
         k.state \in [Block -> States],
         \A b \in Block : k.state[b] = n.state[b] \/ (Settled(n, b) /\ Settled(k, b)),
         k.parent \in [Block -> Block \cup {None}],
         \A b \in Block : k.parent[b] \notin {n.parent[b], None} =>
           /\ Settled(n, b) /\ n.state[k.parent[b]] # "free"
           /\ Rank(n)[k.parent[b]] < Rank(n)[b]
  PROVE  TableOK(k, own, stk, users)
  <1>0. Typed(n) /\ Live(n) /\ Ranked(n)
    BY DEF TableOK
  <1>1. /\ k.page = n.page /\ k.free = n.free /\ k.open = n.open /\ k.waiting = n.waiting
        /\ k.miscounted = n.miscounted /\ k.calls = n.calls /\ IsTable(k)
    BY DEF SameBut, Fields, Loose
  <1>2. \A b \in Block : Busy(k, b) <=> Busy(n, b)
    BY DEF Busy, Settled
  <1>3. \A b \in Block : Settled(k, b) <=> Settled(n, b)
    BY DEF Settled
  <1>4. \A b \in Block : k.state[b] = "free" <=> n.state[b] = "free"
    BY DEF Settled
  <1>5. Typed(k)
    BY <1>0, <1>1 DEF Typed
  <1>6. Live(k)
    <2> SUFFICES ASSUME NEW b \in Block
                 PROVE  IF k.state[b] = "free" THEN k.page[b] = None /\ k.parent[b] = None
                        ELSE InUse(k, b)
      BY DEF Live
    <2>1. IF n.state[b] = "free" THEN n.page[b] = None /\ n.parent[b] = None
          ELSE InUse(n, b)
      BY <1>0 DEF Live
    <2>2. n.state[b] = "free" => k.parent[b] = None
      BY <2>1 DEF Settled
    <2> QED
      BY <1>1, <1>4, <2>1, <2>2 DEF InUse
  <1>7. Distinct(k)
    BY <1>1, <1>4 DEF TableOK, Distinct
  <1>8. Ranked(k)
    <2> SUFFICES ASSUME NEW x \in Block, k.parent[x] # None
                 PROVE  /\ Settled(k, x) /\ k.state[k.parent[x]] # "free"
                        /\ Rank(k)[k.parent[x]] < Rank(k)[x]
      BY DEF Ranked
    <2>1. Rank(k) = Rank(n)
      BY <1>1 DEF Rank
    <2>2. k.parent[x] \in Block
      OBVIOUS
    <2>3. CASE k.parent[x] = n.parent[x]
      BY <2>1, <2>2, <2>3, <1>0, <1>3, <1>4, ParentInUse
    <2>4. CASE k.parent[x] # n.parent[x]
      BY <2>1, <2>2, <2>4, <1>3, <1>4
    <2> QED
      BY <2>3, <2>4
  <1>9. Owned(k, own)
    <2>1. \A o \in own : n.state[o.b] = StateOf(o.as) /\ o.b \in Block
      BY DEF TableOK, Owned, Owns
    <2>2. \A o \in own : k.state[o.b] = StateOf(o.as)
      BY <2>1 DEF Settled, StateOf
    <2> QED
      BY <1>1, <1>2, <2>2 DEF TableOK, Owned
  <1>10. Stacked(k, stk)
    BY <1>1, <1>4 DEF TableOK, Stacked, Stacks
  <1>11. Used(k, users)
    BY <1>1, SameParts
  <1>12. Awaited(k)
    BY <1>1, <1>2 DEF TableOK, Awaited
  <1> QED
    BY <1>5, <1>6, <1>7, <1>8, <1>9, <1>10, <1>11, <1>12 DEF TableOK

(* mount_update_block                                                      *)
LEMMA UpdatedKeeps ==
  ASSUME NEW n, NEW own, NEW stk, NEW users, NEW b \in Block, NEW root \in Block,
         TableOK(n, own, stk, users), Settled(n, b), n.state[root] # "free",
         Rank(n)[root] < Rank(n)[b]
  PROVE  TableOK(Updated(n, b, root), own, stk, users)
  <1> DEFINE k == Updated(n, b, root)
             state == UpdatedStates(n, b, root)
  <1>0. /\ IsTable(n) /\ n.state \in [Block -> States]
        /\ n.parent \in [Block -> Block \cup {None}]
    BY DEF TableOK, Typed
  <1>1. /\ SameBut(n, k,
              {"phys", "pool", "pages", "newer", "forgotten", "state", "parent", "private"})
        /\ k.parent = [n.parent EXCEPT ![b] = root]
        /\ k.state = state
    BY <1>0, UpdatedIs
  <1> HIDE DEF k
  <1>2. SameBut(n, k, Loose \cup {"state", "parent"})
    BY <1>1 DEF SameBut, Loose
  <1>3. state \in [Block -> States]
    BY <1>0, StatesAre DEF UpdatedStates
  <1>4. \A x \in Block : \/ state[x] = n.state[x]
                         \/ n.state[x] = "not modified" /\ state[x] = "modified"
                         \/ n.state[x] = "modified" /\ state[x] = "not modified"
    BY DEF UpdatedStates
  <1> HIDE DEF state
  <1>5. \A x \in Block : k.state[x] = n.state[x] \/ (Settled(n, x) /\ Settled(k, x))
    BY <1>1, <1>4 DEF Settled
  <1>6. k.parent \in [Block -> Block \cup {None}]
    BY <1>0, <1>1
  <1>7. \A x \in Block : k.parent[x] # n.parent[x] => x = b /\ k.parent[x] = root
    BY <1>0, <1>1
  <1>8. \A x \in Block : k.parent[x] \notin {n.parent[x], None} =>
           /\ Settled(n, x) /\ n.state[k.parent[x]] # "free"
           /\ Rank(n)[k.parent[x]] < Rank(n)[x]
    BY <1>7
  <1>9. k.state \in [Block -> States]
    BY <1>1, <1>3
  <1>10. TableOK(k, own, stk, users)
    BY <1>2, <1>5, <1>6, <1>8, <1>9, BelowKeeps
  <1> QED
    BY <1>10 DEF k

(* copy_on_write                                                           *)
LEMMA CopiedKeeps ==
  ASSUME NEW n, NEW own, NEW stk, NEW users, NEW b \in Block,
         TableOK(n, own, stk, users), Settled(n, b), n.pool # {}, n.parent[b] # None
  PROVE  TableOK(Copied(n, b), own, stk, users)
  <1> DEFINE k == Copied(n, b)
  <1>0. /\ IsTable(n) /\ n.state \in [Block -> States]
        /\ n.parent \in [Block -> Block \cup {None}]
        /\ n.waiting \in [Thread -> Block \cup {Memory, None}]
    BY DEF TableOK, Typed
  <1>1. /\ SameBut(n, k, {"phys", "pool", "pages", "parent", "state", "newer"})
        /\ k.parent = [n.parent EXCEPT ![b] = None]
        /\ k.state = [n.state EXCEPT ![b] = "modified"]
    BY <1>0, CopiedIs
  <1> HIDE DEF k
  <1>2. SameBut(n, k, Loose \cup {"state", "parent", "waiting"})
    BY <1>1 DEF SameBut, Loose
  <1>3. k.state \in [Block -> States]
    BY <1>0, <1>1, StatesAre
  <1>4. k.state[b] = "modified" /\ \A x \in Block : x # b => k.state[x] = n.state[x]
    BY <1>0, <1>1
  <1>5. \A x \in Block : k.state[x] = n.state[x] \/ (Settled(n, x) /\ Settled(k, x))
    BY <1>4 DEF Settled
  <1>6. /\ k.parent \in [Block -> Block \cup {None}]
        /\ \A x \in Block : k.parent[x] = n.parent[x] \/ k.parent[x] = None
    BY <1>0, <1>1
  <1>7. k.waiting = n.waiting
    BY <1>1 DEF SameBut, Fields
  <1>8. Calm(n, k)
    BY <1>0, <1>2, <1>3, <1>5, <1>6, <1>7 DEF Calm
  <1> QED
    BY <1>8, CalmKeeps DEF k

(* clear_block_number                                                      *)
LEMMA ClearedIs ==
  ASSUME NEW n, IsTable(n), NEW b, n.state \in [Block -> States]
  PROVE  /\ SameBut(n, Cleared(n, b), {"entry", "lock", "state", "waiting"})
         /\ \E bs : Cleared(n, b).waiting =
              [t \in Thread |-> IF n.waiting[t] \in bs THEN None ELSE n.waiting[t]]
         /\ Cleared(n, b).state = [x \in Block |-> Cleared(n, b).state[x]]
         /\ \A x \in Block : \/ Cleared(n, b).state[x] = n.state[x]
                             \/ n.state[x] = "not modified" /\ Cleared(n, b).state[x] = "modified"
  <1> DEFINE tree == SettledTree(n, b)
             root == Root(n, b)
             mapped   == {x \in tree : n.lock[x] > 0 /\ n.entry[n.page[x]] # None}
             dirty    == \E x \in mapped : n.entry[n.page[x]].dirty
             below(y) == Cardinality({x \in mapped : y \in Above(n, x)})
             unused   == {x \in tree : n.lock[x] = IF x \in mapped THEN 1 ELSE 0}
             entry == [p \in Page |-> IF \E x \in mapped : n.page[x] = p THEN None ELSE n.entry[p]]
             lock == [y \in Block |-> n.lock[y] - below(y)]
             at == IF dirty /\ n.state[root] = "not modified" THEN "modified" ELSE n.state[root]
             k == [n EXCEPT !.entry = entry, !.lock = lock, !.state[root] = at]
  <1>1. Cleared(n, b) = Woken(k, unused)
    BY DEF Cleared, ClearedIn
  <1>2. at = n.state[root] \/ (n.state[root] = "not modified" /\ at = "modified")
    OBVIOUS
  <1> HIDE DEF tree, root, mapped, dirty, below, unused, entry, lock, at
  <1>3. /\ SameBut(n, k, {"entry", "lock", "state"})
        /\ k.state = [n.state EXCEPT ![root] = at]
        /\ k.waiting = n.waiting
    BY DEF SameBut, IsTable, Fields
  <1> HIDE DEF k
  <1>4. /\ SameBut(k, Woken(k, unused), {"waiting"})
        /\ Woken(k, unused).waiting =
              [t \in Thread |-> IF k.waiting[t] \in unused THEN None ELSE k.waiting[t]]
    BY <1>3, WokenIs DEF SameBut
  <1>5. SameBut(n, Woken(k, unused), {"entry", "lock", "state", "waiting"})
    BY <1>3, <1>4 DEF SameBut
  <1>6. Woken(k, unused).state = k.state
    BY <1>4 DEF SameBut, Fields
  <1>8. ASSUME NEW x \in Block
        PROVE  \/ k.state[x] = n.state[x]
               \/ n.state[x] = "not modified" /\ k.state[x] = "modified"
    BY <1>2, <1>3
  <1>9. \E bs : Cleared(n, b).waiting =
                 [t \in Thread |-> IF n.waiting[t] \in bs THEN None ELSE n.waiting[t]]
    BY <1>1, <1>3, <1>4
  <1>10. Cleared(n, b).state = [x \in Block |-> Cleared(n, b).state[x]]
    BY <1>1, <1>3, <1>6
  <1> QED
    BY <1>1, <1>5, <1>6, <1>8, <1>9, <1>10

LEMMA ClearedKeeps ==
  ASSUME NEW n, NEW own, NEW stk, NEW users, NEW b, TableOK(n, own, stk, users)
  PROVE  /\ TableOK(Cleared(n, b), own, stk, users)
         /\ Calm(n, Cleared(n, b)) /\ Cleared(n, b).parent = n.parent
  <1> DEFINE k == Cleared(n, b)
  <1>0. /\ IsTable(n) /\ n.state \in [Block -> States]
        /\ n.parent \in [Block -> Block \cup {None}]
        /\ n.waiting \in [Thread -> Block \cup {Memory, None}]
    BY DEF TableOK, Typed
  <1>1. /\ SameBut(n, k, {"entry", "lock", "state", "waiting"})
        /\ \E bs : k.waiting = [t \in Thread |-> IF n.waiting[t] \in bs THEN None ELSE n.waiting[t]]
        /\ k.state = [x \in Block |-> k.state[x]]
        /\ \A x \in Block : \/ k.state[x] = n.state[x]
                            \/ n.state[x] = "not modified" /\ k.state[x] = "modified"
    BY <1>0, ClearedIs
  <1> HIDE DEF k
  <1>2. SameBut(n, k, Loose \cup {"state", "parent", "waiting"})
    BY <1>1 DEF SameBut, Loose
  <1>3. \A x \in Block : k.state[x] = n.state[x] \/ (Settled(n, x) /\ Settled(k, x))
    BY <1>1 DEF Settled
  <1>4. k.state \in [Block -> States]
    BY <1>0, <1>1, StatesAre
  <1>5. PICK bs : k.waiting = [t \in Thread |-> IF n.waiting[t] \in bs THEN None ELSE n.waiting[t]]
    BY <1>1
  <1>6. /\ k.waiting \in [Thread -> Block \cup {Memory, None}]
        /\ \A t \in Thread : k.waiting[t] = n.waiting[t] \/ k.waiting[t] = None
    BY <1>0, <1>5
  <1>7. k.parent = n.parent
    BY <1>1 DEF SameBut, Fields
  <1>8. Calm(n, k)
    BY <1>0, <1>2, <1>3, <1>4, <1>6, <1>7 DEF Calm
  <1>9. TableOK(k, own, stk, users)
    BY <1>8, CalmKeeps
  <1> QED
    BY <1>1, <1>7, <1>8, <1>9 DEF k

LEMMA LooseIsCalm ==
  ASSUME NEW n, NEW k, Typed(n), SameBut(n, k, Loose)
  PROVE  Calm(n, k)
  <1>1. k.state = n.state /\ k.parent = n.parent /\ k.waiting = n.waiting
    BY DEF SameBut, Fields, Loose
  <1>2. SameBut(n, k, Loose \cup {"state", "parent", "waiting"})
    BY DEF SameBut
  <1> QED
    BY <1>1, <1>2 DEF Calm, Typed

(* setup_map_routine                                                       *)
LEMMA EnteredKeeps ==
  ASSUME NEW n, NEW own, NEW stk, NEW users, NEW b, NEW readOnly,
         TableOK(n, own, stk, users)
  PROVE  TableOK(Entered(n, b, readOnly), own, stk, users)
  <1> DEFINE k == Entered(n, b, readOnly)
  <1>0. Typed(n)
    BY DEF TableOK
  <1>1. SameBut(n, k, {"entry", "lock", "forgotten"})
    BY <1>0, EnteredIs DEF Typed
  <1> HIDE DEF k
  <1>2. SameBut(n, k, Loose)
    BY <1>1 DEF SameBut, Loose
  <1>3. Calm(n, k)
    BY <1>0, <1>2, LooseIsCalm
  <1> QED
    BY <1>3, CalmKeeps DEF k

(* lock_number of a window                                                 *)
LEMMA UsersAdd ==
  ASSUME NEW users, NEW u, IsFiniteSet(users), u \notin users
  PROVE  /\ IsFiniteSet(users \cup {u})
         /\ Cardinality(UsersOf(users \cup {u}, u.w)) = Cardinality(UsersOf(users, u.w)) + 1
         /\ \A w : w # u.w => UsersOf(users \cup {u}, w) = UsersOf(users, w)
         /\ \A w : Cardinality(UsersOf(users, w)) \in Nat
  <1>1. IsFiniteSet(users \cup {u})
    BY FS_AddElement
  <1>2. \A w : IsFiniteSet(UsersOf(users, w)) /\ Cardinality(UsersOf(users, w)) \in Nat
    BY FS_Subset, FS_CardinalityType DEF UsersOf
  <1>3. UsersOf(users \cup {u}, u.w) = UsersOf(users, u.w) \cup {u}
        /\ u \notin UsersOf(users, u.w)
    BY DEF UsersOf
  <1>4. Cardinality(UsersOf(users, u.w) \cup {u}) = Cardinality(UsersOf(users, u.w)) + 1
    BY <1>2, <1>3, FS_AddElement
  <1>5. \A w : w # u.w => UsersOf(users \cup {u}, w) = UsersOf(users, w)
    BY DEF UsersOf
  <1> QED
    BY <1>1, <1>2, <1>3, <1>4, <1>5

LEMMA CountedKeeps ==
  ASSUME NEW n, NEW own, NEW stk, NEW users, NEW u \in Users,
         TableOK(n, own, stk, users), u \notin users, u.w \in n.open
  PROVE  TableOK(Counted(n, u.w, 1), own, stk, users \cup {u})
  <1> DEFINE k == Counted(n, u.w, 1)
             more == users \cup {u}
  <1>0. Typed(n) /\ Used(n, users)
    BY DEF TableOK
  <1>1. SameBut(n, k, {"calls"}) /\ k.calls = [n.calls EXCEPT ![u.w] = @ + 1]
    BY <1>0, CountedIs DEF Typed, CountedAs
  <1> HIDE DEF k
  <1>2. /\ k.state = n.state /\ k.page = n.page /\ k.parent = n.parent /\ k.free = n.free
        /\ k.waiting = n.waiting /\ k.open = n.open /\ k.miscounted = n.miscounted /\ IsTable(k)
    BY <1>1 DEF SameBut, Fields
  <1>3. u.w \in Window /\ n.calls \in [Window -> Int]
    BY <1>0 DEF Users, Typed
  <1>4. Typed(k)
    BY <1>0, <1>1, <1>2, <1>3 DEF Typed
  <1>5. /\ IsFiniteSet(more)
        /\ Cardinality(UsersOf(more, u.w)) = Cardinality(UsersOf(users, u.w)) + 1
        /\ \A w : w # u.w => UsersOf(more, w) = UsersOf(users, w)
        /\ \A w : Cardinality(UsersOf(users, w)) \in Nat
    BY <1>0, UsersAdd DEF Used
  <1>6. more \subseteq Users
    BY <1>0 DEF Used
  <1>7. \A v \in more : v.w \in n.open \/ (v.kind = "control" /\ v.w \in n.miscounted)
    BY <1>0 DEF Used
  <1>8. \A w \in Window \ n.miscounted : k.calls[w] = Cardinality(UsersOf(more, w))
    <2> SUFFICES ASSUME NEW w \in Window \ n.miscounted
                 PROVE  k.calls[w] = Cardinality(UsersOf(more, w))
      OBVIOUS
    <2>1. n.calls[w] = Cardinality(UsersOf(users, w))
      BY <1>0 DEF Used
    <2>2. CASE w = u.w
      BY <2>1, <2>2, <1>1, <1>3, <1>5
    <2>3. CASE w # u.w
      BY <2>1, <2>3, <1>1, <1>3, <1>5
    <2> QED
      BY <2>2, <2>3
  <1> HIDE DEF more
  <1>9. Used(k, more)
    BY <1>0, <1>2, <1>5, <1>6, <1>7, <1>8 DEF Used
  <1>10. Live(k) /\ Distinct(k) /\ Ranked(k) /\ Owned(k, own) /\ Stacked(k, stk) /\ Awaited(k)
    BY <1>2, SameParts
  <1> QED
    BY <1>4, <1>9, <1>10 DEF TableOK, k, more

LEMMA UncountedKeeps ==
  ASSUME NEW n, NEW own, NEW stk, NEW users, NEW u \in users,
         TableOK(n, own, stk, users)
  PROVE  TableOK(Counted(n, u.w, -1), own, stk, users \ {u})
  <1> DEFINE k == Counted(n, u.w, -1)
             less == users \ {u}
  <1>0. Typed(n) /\ Used(n, users)
    BY DEF TableOK
  <1>i. PICK i \in Int : i = -1
    OBVIOUS
  <1>1. SameBut(n, k, {"calls"}) /\ k.calls = [n.calls EXCEPT ![u.w] = @ + i]
    <2>1. CountedAs(n, u.w, i, Counted(n, u.w, i))
      BY <1>0, CountedIs DEF Typed
    <2>2. k = Counted(n, u.w, i)
      BY <1>i
    <2> HIDE DEF k
    <2> QED
      BY <2>1, <2>2 DEF CountedAs
  <1> HIDE DEF k
  <1>2. /\ k.state = n.state /\ k.page = n.page /\ k.parent = n.parent /\ k.free = n.free
        /\ k.waiting = n.waiting /\ k.open = n.open /\ k.miscounted = n.miscounted /\ IsTable(k)
    BY <1>1 DEF SameBut, Fields
  <1>3. u.w \in Window /\ n.calls \in [Window -> Int]
    BY <1>0 DEF Users, Typed, Used
  <1>4. Typed(k)
    BY <1>0, <1>1, <1>2, <1>3 DEF Typed
  <1>5. /\ IsFiniteSet(less) /\ u \notin less /\ less \cup {u} = users
    BY <1>0, FS_Subset DEF Used
  <1>6. /\ Cardinality(UsersOf(users, u.w)) = Cardinality(UsersOf(less, u.w)) + 1
        /\ \A w : w # u.w => UsersOf(users, w) = UsersOf(less, w)
        /\ \A w : Cardinality(UsersOf(less, w)) \in Nat
    <2> HIDE DEF less
    <2>1. /\ Cardinality(UsersOf(less \cup {u}, u.w)) = Cardinality(UsersOf(less, u.w)) + 1
          /\ \A w : w # u.w => UsersOf(less \cup {u}, w) = UsersOf(less, w)
          /\ \A w : Cardinality(UsersOf(less, w)) \in Nat
      BY <1>5, UsersAdd
    <2> QED
      BY <1>5, <2>1
  <1>7. /\ less \subseteq Users
        /\ \A v \in less : v.w \in n.open \/ (v.kind = "control" /\ v.w \in n.miscounted)
    BY <1>0 DEF Used
  <1>8. \A w \in Window \ n.miscounted : k.calls[w] = Cardinality(UsersOf(less, w))
    <2> SUFFICES ASSUME NEW w \in Window \ n.miscounted
                 PROVE  k.calls[w] = Cardinality(UsersOf(less, w))
      OBVIOUS
    <2>1. n.calls[w] = Cardinality(UsersOf(users, w))
      BY <1>0 DEF Used
    <2>2. CASE w = u.w
      <3>1. k.calls[w] = n.calls[w] + i
        BY <2>2, <1>1, <1>3
      <3>2. n.calls[w] = Cardinality(UsersOf(less, w)) + 1
        BY <2>1, <2>2, <1>6
      <3>3. Cardinality(UsersOf(less, w)) \in Nat
        BY <1>6
      <3> QED
        BY <3>1, <3>2, <3>3, <1>i
    <2>3. CASE w # u.w
      BY <2>1, <2>3, <1>1, <1>3, <1>6
    <2> QED
      BY <2>2, <2>3
  <1> HIDE DEF less
  <1>9. Used(k, less)
    BY <1>0, <1>2, <1>5, <1>7, <1>8 DEF Used
  <1>10. Live(k) /\ Distinct(k) /\ Ranked(k) /\ Owned(k, own) /\ Stacked(k, stk) /\ Awaited(k)
    BY <1>2, SameParts
  <1> QED
    BY <1>4, <1>9, <1>10 DEF TableOK, k, less

(* operate_file_system: the window may have been closed                    *)
LEMMA MiscountedKeeps ==
  ASSUME NEW n, NEW k, NEW own, NEW stk, NEW users, NEW u \in Users,
         TableOK(n, own, stk, users), u \notin users, u.kind = "control",
         SameBut(n, k, {"calls", "miscounted"}),
         k.calls = [n.calls EXCEPT ![u.w] = @ + 1],
         k.miscounted = n.miscounted \cup ({u.w} \ n.open)
  PROVE  TableOK(k, own, stk, users \cup {u})
  <1> DEFINE more == users \cup {u}
  <1>0. Typed(n) /\ Used(n, users)
    BY DEF TableOK
  <1>2. /\ k.state = n.state /\ k.page = n.page /\ k.parent = n.parent /\ k.free = n.free
        /\ k.waiting = n.waiting /\ k.open = n.open /\ IsTable(k)
    BY DEF SameBut, Fields
  <1>3. u.w \in Window /\ n.calls \in [Window -> Int]
    BY <1>0 DEF Users, Typed
  <1>4. Typed(k)
    BY <1>0, <1>2, <1>3 DEF Typed
  <1>5. /\ IsFiniteSet(more)
        /\ Cardinality(UsersOf(more, u.w)) = Cardinality(UsersOf(users, u.w)) + 1
        /\ \A w : w # u.w => UsersOf(more, w) = UsersOf(users, w)
        /\ \A w : Cardinality(UsersOf(users, w)) \in Nat
    BY <1>0, UsersAdd DEF Used
  <1>6. more \subseteq Users /\ k.miscounted \cap k.open = {}
    BY <1>0, <1>2 DEF Used
  <1>7. \A v \in more : v.w \in k.open \/ (v.kind = "control" /\ v.w \in k.miscounted)
    BY <1>0, <1>2 DEF Used
  <1>8. \A w \in Window \ k.miscounted : k.calls[w] = Cardinality(UsersOf(more, w))
    <2> SUFFICES ASSUME NEW w \in Window \ k.miscounted
                 PROVE  k.calls[w] = Cardinality(UsersOf(more, w))
      OBVIOUS
    <2>1. n.calls[w] = Cardinality(UsersOf(users, w))
      BY <1>0 DEF Used
    <2>2. CASE w = u.w
      BY <2>1, <2>2, <1>3, <1>5
    <2>3. CASE w # u.w
      BY <2>1, <2>3, <1>3, <1>5
    <2> QED
      BY <2>2, <2>3
  <1> HIDE DEF more
  <1>9. Used(k, more)
    BY <1>0, <1>2, <1>5, <1>6, <1>7, <1>8 DEF Used
  <1>10. Live(k) /\ Distinct(k) /\ Ranked(k) /\ Owned(k, own) /\ Stacked(k, stk) /\ Awaited(k)
    BY <1>2, SameParts
  <1> QED
    BY <1>4, <1>9, <1>10 DEF TableOK, more

(* close_file_window                                                       *)
LEMMA ClosedKeeps ==
  ASSUME NEW n, NEW k, NEW own, NEW stk, NEW users, NEW w \in Window \ Lending,
         TableOK(n, own, stk, users), SameBut(n, k, {"open"}), k.open = n.open \ {w},
         BlocksOf(n, w) = {}, n.calls[w] <= 0
  PROVE  TableOK(k, own, stk, users)
  <1>0. Typed(n) /\ Used(n, users) /\ Live(n)
    BY DEF TableOK
  <1>2. /\ k.state = n.state /\ k.page = n.page /\ k.parent = n.parent /\ k.free = n.free
        /\ k.waiting = n.waiting /\ k.calls = n.calls /\ k.miscounted = n.miscounted
        /\ IsTable(k)
    BY DEF SameBut, Fields
  <1>3. Typed(k)
    BY <1>0, <1>2 DEF Typed
  <1>4. Live(k)
    <2>1. \A b \in Block : n.state[b] # "free" => WindowOf[n.page[b]] # w
      BY DEF BlocksOf
    <2> QED
      BY <2>1, <1>0, <1>2 DEF Live, InUse
  <1>5. w \notin n.miscounted => UsersOf(users, w) = {}
    <2> SUFFICES ASSUME w \notin n.miscounted
                 PROVE  UsersOf(users, w) = {}
      OBVIOUS
    <2>1. n.calls[w] = Cardinality(UsersOf(users, w))
      BY <1>0 DEF Used
    <2>2. IsFiniteSet(UsersOf(users, w))
      BY <1>0, FS_Subset DEF Used, UsersOf
    <2>3. Cardinality(UsersOf(users, w)) \in Nat
      BY <2>2, FS_CardinalityType
    <2>4. Cardinality(UsersOf(users, w)) = 0
      BY <2>1, <2>3
    <2> QED
      BY <2>2, <2>4, FS_EmptySet
  <1>6. \A u \in users : u.w \in k.open \/ (u.kind = "control" /\ u.w \in k.miscounted)
    BY <1>0, <1>2, <1>5 DEF Used, UsersOf
  <1>7. Used(k, users)
    BY <1>0, <1>2, <1>6 DEF Used
  <1>8. Distinct(k) /\ Ranked(k) /\ Owned(k, own) /\ Stacked(k, stk) /\ Awaited(k)
    BY <1>2, SameParts
  <1> QED
    BY <1>3, <1>4, <1>7, <1>8 DEF TableOK

(* open_file_window                                                        *)
LEMMA OpenedKeeps ==
  ASSUME NEW n, NEW k, NEW own, NEW stk, NEW users, NEW w \in Window,
         TableOK(n, own, stk, users), SameBut(n, k, {"open", "nowait", "calls"}),
         k.open = n.open \cup {w}, k.calls = [n.calls EXCEPT ![w] = 0],
         w \notin n.open \cup n.miscounted
  PROVE  TableOK(k, own, stk, users)
  <1>0. Typed(n) /\ Used(n, users) /\ Live(n)
    BY DEF TableOK
  <1>2. /\ k.state = n.state /\ k.page = n.page /\ k.parent = n.parent /\ k.free = n.free
        /\ k.waiting = n.waiting /\ k.miscounted = n.miscounted /\ IsTable(k)
    BY DEF SameBut, Fields
  <1>3. Typed(k)
    BY <1>0, <1>2 DEF Typed
  <1>4. Live(k)
    BY <1>0, <1>2 DEF Live, InUse
  <1>5. UsersOf(users, w) = {}
    BY <1>0 DEF Used, UsersOf
  <1>6. Cardinality(UsersOf(users, w)) = 0
    BY <1>5, FS_EmptySet
  <1>7. \A x \in Window \ k.miscounted : k.calls[x] = Cardinality(UsersOf(users, x))
    BY <1>0, <1>2, <1>6 DEF Used, Typed
  <1>8. Used(k, users)
    BY <1>0, <1>2, <1>7 DEF Used
  <1>9. Distinct(k) /\ Ranked(k) /\ Owned(k, own) /\ Stacked(k, stk) /\ Awaited(k)
    BY <1>2, SameParts
  <1> QED
    BY <1>3, <1>4, <1>8, <1>9 DEF TableOK

SameUse(n, k) ==
  /\ k.page = n.page /\ k.parent = n.parent /\ k.free = n.free /\ k.open = n.open
  /\ \A x \in Block : k.state[x] = "free" <=> n.state[x] = "free"

LEMMA SameUseKeeps ==
  ASSUME NEW n, NEW k, Live(n), Distinct(n), SameUse(n, k)
  PROVE  Live(k) /\ Distinct(k)
  BY DEF Live, InUse, Distinct, SameUse

(* write_one_block                                                         *)
LEMMA WritingKeeps ==
  ASSUME NEW n, NEW k, NEW own, NEW stk, NEW users, NEW t \in Thread, NEW b \in Block,
         TableOK(n, own, stk, users), Settled(n, b), n.parent[b] = None,
         SameBut(n, k, Loose \cup {"state"}), k.state = [n.state EXCEPT ![b] = "writing"]
  PROVE  TableOK(k, own \cup {[t |-> t, b |-> b, as |-> "writer", page |-> n.page[b]]},
                 stk, users)
  <1> DEFINE e == [t |-> t, b |-> b, as |-> "writer", page |-> n.page[b]]
  <1>0. Typed(n) /\ Live(n) /\ Owned(n, own) /\ Ranked(n)
    BY DEF TableOK
  <1>1. n.page[b] \in Page
    BY <1>0 DEF Live, InUse, Settled
  <1>e. e \in Owns /\ e.b = b /\ e.page = n.page[b] /\ e.as = "writer"
    BY <1>1 DEF Owns
  <1> HIDE DEF e
  <1>2. /\ k.page = n.page /\ k.parent = n.parent /\ k.free = n.free /\ k.open = n.open
        /\ k.miscounted = n.miscounted /\ k.calls = n.calls /\ k.waiting = n.waiting
        /\ IsTable(k)
    BY DEF SameBut, Fields, Loose
  <1>3. k.state[b] = "writing" /\ \A x \in Block : x # b => k.state[x] = n.state[x]
    BY <1>0 DEF Typed
  <1>4. \A x \in Block : k.state[x] = "free" <=> n.state[x] = "free"
    BY <1>3 DEF Settled
  <1>5. Typed(k)
    <2>1. n.state \in [Block -> States]
      BY <1>0 DEF Typed
    <2>2. k.state \in [Block -> States]
      BY <2>1, StatesAre
    <2> QED
      BY <1>0, <1>2, <2>2 DEF Typed
  <1>6. Live(k)
    BY <1>0, <1>2, <1>4 DEF Live, InUse
  <1>7. Distinct(k)
    BY <1>2, <1>4 DEF TableOK, Distinct
  <1>8. Ranked(k)
    <2> SUFFICES ASSUME NEW x \in Block, n.parent[x] # None
                 PROVE  /\ Settled(k, x) /\ k.state[n.parent[x]] # "free"
                        /\ Rank(k)[n.parent[x]] < Rank(k)[x]
      BY <1>2, <1>5 DEF Ranked, Typed
    <2>1. /\ n.parent[x] \in Block /\ Settled(n, x)
          /\ n.state[n.parent[x]] # "free" /\ Rank(n)[n.parent[x]] < Rank(n)[x]
      BY <1>0, ParentInUse
    <2>2. Rank(k) = Rank(n)
      BY <1>2 DEF Rank
    <2>3. Settled(k, x)
      BY <2>1, <1>3 DEF Settled
    <2> QED
      BY <2>1, <2>2, <2>3, <1>4
  <1>9. Owned(k, own \cup {e})
    <2>1. \A o \in own : o.b \in Block /\ o.b # b
      BY <1>0 DEF Owned, Owns, StateOf, Settled
    <2>2. \A o \in own \cup {e} : k.state[o.b] = StateOf(o.as) /\ k.page[o.b] = o.page
      BY <1>0, <1>2, <1>3, <1>e, <2>1 DEF Owned, StateOf
    <2>3. \A o, x \in own \cup {e} : o.b = x.b => o = x
      BY <1>0, <1>e, <2>1 DEF Owned
    <2>4. \A x \in Block : Busy(k, x) => \E o \in own \cup {e} : o.b = x
      BY <1>0, <1>e, <1>3 DEF Owned, Busy
    <2>5. own \cup {e} \subseteq Owns
      BY <1>0, <1>e DEF Owned
    <2> QED
      BY <2>2, <2>3, <2>4, <2>5 DEF Owned
  <1>10. Stacked(k, stk)
    BY <1>2, <1>4 DEF TableOK, Stacked, Stacks
  <1>11. Used(k, users)
    BY <1>2, SameParts
  <1>12. Awaited(k)
    BY <1>2, <1>3 DEF TableOK, Awaited, Busy
  <1> QED
    BY <1>5, <1>6, <1>7, <1>8, <1>9, <1>10, <1>11, <1>12 DEF TableOK, e

LEMMA WrittenKeeps ==
  ASSUME NEW n, NEW k, NEW own, NEW stk, NEW users, NEW o \in own,
         NEW to \in {"not modified", "modified"},
         TableOK(n, own, stk, users),
         SameBut(n, k, Loose \cup {"state", "waiting"}),
         k.state = [n.state EXCEPT ![o.b] = to],
         k.waiting = [t \in Thread |-> IF n.waiting[t] \in {o.b} THEN None ELSE n.waiting[t]]
  PROVE  TableOK(k, own \ {o}, stk, users)
  <1> DEFINE b == o.b
  <1>0. Typed(n) /\ Live(n) /\ Owned(n, own) /\ Ranked(n)
    BY DEF TableOK
  <1>1. b \in Block /\ Busy(n, b)
    BY <1>0 DEF Owned, Owns, StateOf, Busy
  <1>2. /\ k.page = n.page /\ k.parent = n.parent /\ k.free = n.free /\ k.open = n.open
        /\ k.miscounted = n.miscounted /\ k.calls = n.calls /\ IsTable(k)
    BY DEF SameBut, Fields, Loose
  <1>3. Settled(k, b) /\ \A x \in Block : x # b => k.state[x] = n.state[x]
    BY <1>0, <1>1 DEF Typed, Settled
  <1>4. \A x \in Block : k.state[x] = "free" <=> n.state[x] = "free"
    BY <1>1, <1>3 DEF Settled, Busy
  <1>5. Typed(k)
    <2>1. n.state \in [Block -> States] /\ n.waiting \in [Thread -> Block \cup {Memory, None}]
      BY <1>0 DEF Typed
    <2>2. k.state \in [Block -> States]
      BY <2>1, StatesAre
    <2>3. k.waiting \in [Thread -> Block \cup {Memory, None}]
      BY <2>1
    <2> QED
      BY <1>0, <1>2, <2>2, <2>3 DEF Typed
  <1>6. SameUse(n, k)
    BY <1>2, <1>4 DEF SameUse
  <1>7. Live(k) /\ Distinct(k)
    BY <1>6, SameUseKeeps DEF TableOK
  <1>8. Ranked(k)
    <2> SUFFICES ASSUME NEW x \in Block, n.parent[x] # None
                 PROVE  /\ Settled(k, x) /\ k.state[n.parent[x]] # "free"
                        /\ Rank(k)[n.parent[x]] < Rank(k)[x]
      BY <1>2, <1>5 DEF Ranked, Typed
    <2>1. /\ n.parent[x] \in Block /\ Settled(n, x)
          /\ n.state[n.parent[x]] # "free" /\ Rank(n)[n.parent[x]] < Rank(n)[x]
      BY <1>0, ParentInUse
    <2>2. Rank(k) = Rank(n)
      BY <1>2 DEF Rank
    <2>3. Settled(k, x)
      BY <2>1, <1>3 DEF Settled
    <2> QED
      BY <2>1, <2>2, <2>3, <1>4
  <1>9. Owned(k, own \ {o})
    <2>1. \A x \in own \ {o} : x.b \in Block /\ x.b # b
      BY <1>0 DEF Owned, Owns
    <2>2. \A x \in own \ {o} : k.state[x.b] = StateOf(x.as) /\ k.page[x.b] = x.page
      BY <1>0, <1>2, <1>3, <2>1 DEF Owned
    <2>4. \A x \in Block : Busy(k, x) => \E y \in own \ {o} : y.b = x
      <3> SUFFICES ASSUME NEW x \in Block, Busy(k, x)
                   PROVE  \E y \in own \ {o} : y.b = x
        OBVIOUS
      <3>1. x # b /\ Busy(n, x)
        BY <1>3 DEF Busy, Settled
      <3> QED
        BY <3>1, <1>0 DEF Owned
    <2> QED
      BY <2>2, <2>4, <1>0 DEF Owned
  <1>10. Stacked(k, stk)
    BY <1>2, <1>4 DEF TableOK, Stacked, Stacks
  <1>11. Used(k, users)
    BY <1>2, SameParts
  <1>12. Awaited(k)
    <2> SUFFICES ASSUME NEW t \in Thread, k.waiting[t] \in Block
                 PROVE  Busy(k, k.waiting[t])
      BY DEF Awaited
    <2>1. k.waiting[t] = n.waiting[t] /\ n.waiting[t] # b
      BY NoneIs
    <2>2. Busy(n, n.waiting[t]) /\ n.waiting[t] \in Block
      BY <2>1 DEF TableOK, Awaited
    <2> QED
      BY <2>1, <2>2, <1>3 DEF Busy
  <1> QED
    BY <1>5, <1>7, <1>8, <1>9, <1>10, <1>11, <1>12 DEF TableOK

(* do_read_block: the reader of a block has it locked while it reads.      *)
LEMMA MarkedKeeps ==
  ASSUME NEW n, NEW k, NEW own, NEW stk, NEW users, NEW o \in own, NEW as \in {"reader", "queued"},
         TableOK(n, own, stk, users), o.as # "writer", SameBut(n, k, {"lock"})
  PROVE  TableOK(k, (own \ {o}) \cup {[t |-> o.t, b |-> o.b, as |-> as, page |-> o.page]},
                 stk, users)
  <1> DEFINE e == [t |-> o.t, b |-> o.b, as |-> as, page |-> o.page]
             other == (own \ {o}) \cup {e}
  <1>1. SameBut(n, k, Loose)
    BY DEF SameBut, Loose
  <1>2. TableOK(k, own, stk, users)
    BY <1>1, LooseIsCalm, CalmKeeps DEF TableOK
  <1>3. Owned(k, own)
    BY <1>2 DEF TableOK
  <1>4. e \in Owns /\ e.b = o.b /\ e.page = o.page /\ StateOf(e.as) = StateOf(o.as)
    BY <1>3 DEF Owned, Owns, StateOf
  <1> HIDE DEF e
  <1>5. other \subseteq Owns
    BY <1>3, <1>4 DEF Owned
  <1>6. \A x \in other : k.state[x.b] = StateOf(x.as) /\ k.page[x.b] = x.page
    BY <1>3, <1>4 DEF Owned
  <1>7. \A x, y \in other : x.b = y.b => x = y
    BY <1>3, <1>4 DEF Owned
  <1>8. \A b \in Block : Busy(k, b) => \E x \in other : x.b = b
    BY <1>3, <1>4 DEF Owned
  <1> HIDE DEF other
  <1>9. Owned(k, other)
    BY <1>5, <1>6, <1>7, <1>8 DEF Owned
  <1>10. TableOK(k, other, stk, users)
    BY <1>2, <1>9 DEF TableOK
  <1> QED
    BY <1>10 DEF other, e

-----------------------------------------------------------------------------
(* The invariant of the threads.  What a thread has of the three sets      *)
(* follows from where it is.                                               *)
Mine(S, t) == {e \in S : e.t = t}
Own(t, b, as, p)  == [t |-> t, b |-> b, as |-> as, page |-> p]
StackOf(t, s, d)  == [t |-> t, s |-> s, d |-> d]
User(t, w, kind)  == [t |-> t, w |-> w, kind |-> kind]
CallOf(t, r) ==
  IF r.counted THEN {User(t, r.w, IF r.call = "control" THEN "control" ELSE "call")} ELSE {}

ThreadFields == {"at", "call", "w", "d", "counted", "page", "readOnly", "queue", "b", "s",
                 "tries", "mode", "flush", "preparing", "update", "kept"}

(* A page of the window of the call, or of one that is not closed.         *)
Lent(r, p) == p \in Page /\ WindowOf[p] \in Lending \cup {r.w}

(* The queue is of the blocks a search has read, the last one first, for   *)
(* pages that come later and later.                                        *)
InLine(r, Q) ==
  /\ r.queue \in Seq(Block)
  /\ \A i, j \in DOMAIN r.queue : r.queue[i] = r.queue[j] => i = j
  /\ \A x : x \in Range(r.queue) <=> \E o \in Q : o.b = x
  /\ \A o, x \in Q : \A i, j \in DOMAIN r.queue :
       o.b = r.queue[i] /\ x.b = r.queue[j] /\ i < j => Depth[o.page] < Depth[x.page]
  /\ \A o \in Q : o.as = "queued" /\ Lent(r, o.page) /\ Depth[r.page] < Depth[o.page]

Aimed(r, Q) ==
  /\ r.call \in {"map", "flush"}
  /\ Lent(r, r.page) /\ r.d = DomainOfPage(r.page)
  /\ InLine(r, Q)
  /\ r.call = "flush" =>
       /\ r.kept \in [b : Block, page : Page]
       /\ Depth[r.page] < Depth[r.kept.page]
       /\ \A o \in Q : Depth[o.page] < Depth[r.kept.page]

Empty(r, Q) == r.queue = <<>> /\ Q = {}
Preparing(r, Q) ==
  \/ Aimed(r, Q)
  \/ r.call = "sweep" /\ Empty(r, Q)
  \/ r.call = "control" /\ ~r.counted /\ Empty(r, Q)

Working(r, Q) ==
  \/ r.preparing /\ Preparing(r, Q)
  \/ ~r.preparing /\ r.call \in {"flush", "close", "sweep"} /\ Empty(r, Q)

CallOK(r) ==
  /\ DOMAIN r = ThreadFields
  /\ r.preparing \in BOOLEAN /\ r.counted \in BOOLEAN
  /\ r.counted => r.w \in Window
  /\ r.call \in {"map", "flush", "close"} => r.counted
  /\ r.call = "close" => r.w \notin Lending
  /\ r.call = "sweep" => ~r.counted /\ r.d \in Domain
  /\ r.call = "control" => r.w \in Window \cup {None} /\ r.d \in Domain
  /\ r.mode \in Modes
  /\ r.update => r.call = "flush"

AtIdle(t, r, O, S, U) == r = Idle /\ O = {} /\ S = {} /\ U = {}
AtPrepare(t, r, O, S, U) ==
  /\ r.at = "prepare" /\ ~r.preparing /\ Preparing(r, O) /\ S = {} /\ U = CallOf(t, r)

AtSearch(t, r, O, S, U) ==
  /\ r.at \in {"search", "waited"} /\ ~r.preparing /\ Aimed(r, O) /\ S = {} /\ U = CallOf(t, r)

AtReading(t, r, O, S, U) ==
  /\ r.at = "reading" /\ ~r.preparing
  /\ \E Q : Aimed(r, Q) /\ O = Q \cup {Own(t, r.b, "reader", r.page)}
  /\ S = {StackOf(t, r.s, DomainOfPage(r.page))}
  /\ U = CallOf(t, r) \cup {User(t, WindowOf[r.page], "device")}

AtLoop(t, r, O, S, U) ==
  /\ r.at = "loop" /\ ~r.preparing /\ r.call \in {"flush", "close", "sweep"}
  /\ Empty(r, O) /\ S = {} /\ U = CallOf(t, r)

AtWriting(t, r, O, S, U) ==
  /\ r.at = "writing"
  /\ \E Q : \E p \in Page :
       /\ Working(r, Q) /\ O = Q \cup {Own(t, r.b, "writer", p)}
       /\ S = {StackOf(t, r.s, DomainOfPage(p))}
       /\ U = CallOf(t, r) \cup {User(t, WindowOf[p], "device")}

AtFlushed(t, r, O, S, U) ==
  /\ r.at = "flushed" /\ Working(r, O) /\ S = {} /\ U = CallOf(t, r)

AtControl(t, r, O, S, U) ==
  /\ r.at = "control" /\ ~r.preparing /\ r.call = "control" /\ ~r.counted
  /\ Empty(r, O) /\ S = {} /\ U = {}

AtDevice(t, r, O, S, U) ==
  /\ r.at = "device" /\ ~r.preparing /\ r.call = "control"
  /\ Empty(r, O) /\ S = {StackOf(t, r.s, r.d)} /\ U = CallOf(t, r)

ThreadOK(t, r, O, S, U) ==
  /\ CallOK(r)
  /\ \/ AtIdle(t, r, O, S, U) \/ AtPrepare(t, r, O, S, U) \/ AtSearch(t, r, O, S, U)
     \/ AtReading(t, r, O, S, U) \/ AtLoop(t, r, O, S, U) \/ AtWriting(t, r, O, S, U)
     \/ AtFlushed(t, r, O, S, U) \/ AtControl(t, r, O, S, U) \/ AtDevice(t, r, O, S, U)

ThreadsOK(threads, own, stk, users) ==
  \A u \in threads : ThreadOK(u, th[u], Mine(own, u), Mine(stk, u), Mine(users, u))

IInv ==
  /\ th = [t \in Thread |-> th[t]]
  /\ \E own, stk, users : TableOK(m, own, stk, users) /\ ThreadsOK(Thread, own, stk, users)

(* In the middle of an action of a thread that has O, S and U.             *)
Mid(t, n, O, S, U) ==
  /\ t \in Thread /\ th = [u \in Thread |-> th[u]]
  /\ \E own, stk, users :
       /\ TableOK(n, own, stk, users) /\ ThreadsOK(Thread \ {t}, own, stk, users)
       /\ O = Mine(own, t) /\ S = Mine(stk, t) /\ U = Mine(users, t)

Moves(t, A, gone, new, B) ==
  B = (A \ gone) \cup new /\ gone \subseteq Mine(A, t) /\ \A e \in new : e.t = t

MovedTo(t, A, gone, new, B) ==
  /\ Mine(B, t) = (Mine(A, t) \ gone) \cup new
  /\ \A u : u # t => Mine(B, u) = Mine(A, u)

LEMMA Moved ==
  ASSUME NEW t, NEW A, NEW gone, NEW new, NEW B, Moves(t, A, gone, new, B)
  PROVE  MovedTo(t, A, gone, new, B)
  BY DEF Moves, MovedTo, Mine

LEMMA OthersStay ==
  ASSUME NEW t, NEW own, NEW stk, NEW users, NEW own1, NEW stk1, NEW users1,
         ThreadsOK(Thread \ {t}, own, stk, users),
         \A u : u # t => Mine(own1, u) = Mine(own, u),
         \A u : u # t => Mine(stk1, u) = Mine(stk, u),
         \A u : u # t => Mine(users1, u) = Mine(users, u)
  PROVE  ThreadsOK(Thread \ {t}, own1, stk1, users1)
  BY DEF ThreadsOK

LEMMA MidBegins ==
  ASSUME IInv, NEW t \in Thread
  PROVE  \E O, S, U : Mid(t, m, O, S, U) /\ ThreadOK(t, th[t], O, S, U)
  <1>1. PICK own, stk, users :
          TableOK(m, own, stk, users) /\ ThreadsOK(Thread, own, stk, users)
    BY DEF IInv
  <1>2. ThreadsOK(Thread \ {t}, own, stk, users)
        /\ ThreadOK(t, th[t], Mine(own, t), Mine(stk, t), Mine(users, t))
    BY <1>1 DEF ThreadsOK
  <1>3. Mid(t, m, Mine(own, t), Mine(stk, t), Mine(users, t))
    BY <1>1, <1>2 DEF Mid, IInv
  <1> QED
    BY <1>2, <1>3

Step(t, n, r) == m' = n /\ th' = [th EXCEPT ![t] = r]

LEMMA MidEnds ==
  ASSUME NEW t, NEW n, NEW r, NEW O, NEW S, NEW U,
         Mid(t, n, O, S, U), ThreadOK(t, r, O, S, U), Step(t, n, r)
  PROVE  IInv'
  <1>1. PICK own, stk, users :
          /\ TableOK(n, own, stk, users) /\ ThreadsOK(Thread \ {t}, own, stk, users)
          /\ O = Mine(own, t) /\ S = Mine(stk, t) /\ U = Mine(users, t)
    BY DEF Mid
  <1>2. t \in Thread /\ th = [u \in Thread |-> th[u]] /\ m' = n /\ th' = [th EXCEPT ![t] = r]
    BY DEF Mid, Step
  <1>3. th' = [u \in Thread |-> th'[u]] /\ th'[t] = r
        /\ \A u \in Thread \ {t} : th'[u] = th[u]
    BY <1>2
  <1>4. \A u \in Thread : ThreadOK(u, th'[u], Mine(own, u), Mine(stk, u), Mine(users, u))
    <2> SUFFICES ASSUME NEW u \in Thread
                 PROVE  ThreadOK(u, th'[u], Mine(own, u), Mine(stk, u), Mine(users, u))
      OBVIOUS
    <2>1. CASE u = t
      BY <2>1, <1>1, <1>3
    <2>2. CASE u # t
      BY <2>2, <1>1, <1>3 DEF ThreadsOK
    <2> QED
      BY <2>1, <2>2
  <1>5. TableOK(m', own, stk, users)
    BY <1>1, <1>2
  <1>6. \E own1, stk1, users1 : TableOK(m', own1, stk1, users1)
           /\ \A u \in Thread : ThreadOK(u, th'[u], Mine(own1, u), Mine(stk1, u), Mine(users1, u))
    BY <1>4, <1>5
  <1> QED
    BY <1>3, <1>6 DEF IInv, ThreadsOK

LEMMA MidSame ==
  ASSUME NEW t, NEW n, NEW k, NEW O, NEW S, NEW U, Mid(t, n, O, S, U),
         \A own, stk, users : TableOK(n, own, stk, users) => TableOK(k, own, stk, users)
  PROVE  Mid(t, k, O, S, U)
  BY DEF Mid

LEMMA MidOwn ==
  ASSUME NEW t, NEW n, NEW k, NEW O, NEW S, NEW U, NEW gone, NEW new, Mid(t, n, O, S, U),
         gone \subseteq O, \A e \in new : e.t = t,
         \A own, stk, users : TableOK(n, own, stk, users) /\ O \subseteq own
            => TableOK(k, (own \ gone) \cup new, stk, users)
  PROVE  Mid(t, k, (O \ gone) \cup new, S, U)
  <1>1. PICK own, stk, users :
          /\ TableOK(n, own, stk, users) /\ ThreadsOK(Thread \ {t}, own, stk, users)
          /\ O = Mine(own, t) /\ S = Mine(stk, t) /\ U = Mine(users, t)
    BY DEF Mid
  <1> DEFINE more == (own \ gone) \cup new
  <1>m. Moves(t, own, gone, new, more)
    BY <1>1 DEF Moves
  <1>2. Mine(more, t) = (O \ gone) \cup new /\ \A u : u # t => Mine(more, u) = Mine(own, u)
    <2> HIDE DEF more
    <2>1. MovedTo(t, own, gone, new, more)
      BY <1>m, Moved
    <2> QED
      BY <1>1, <2>1 DEF MovedTo
  <1>3. O \subseteq own
    BY <1>1 DEF Mine
  <1>4. TableOK(k, more, stk, users)
    BY <1>1, <1>3
  <1> HIDE DEF more
  <1>5. ThreadsOK(Thread \ {t}, more, stk, users)
    BY <1>1, <1>2, OthersStay
  <1> QED
    BY <1>1, <1>2, <1>4, <1>5 DEF Mid

LEMMA MidStk ==
  ASSUME NEW t, NEW n, NEW k, NEW O, NEW S, NEW U, NEW gone, NEW new, Mid(t, n, O, S, U),
         gone \subseteq S, \A e \in new : e.t = t,
         \A own, stk, users : TableOK(n, own, stk, users) /\ S \subseteq stk
            => TableOK(k, own, (stk \ gone) \cup new, users)
  PROVE  Mid(t, k, O, (S \ gone) \cup new, U)
  <1>1. PICK own, stk, users :
          /\ TableOK(n, own, stk, users) /\ ThreadsOK(Thread \ {t}, own, stk, users)
          /\ O = Mine(own, t) /\ S = Mine(stk, t) /\ U = Mine(users, t)
    BY DEF Mid
  <1> DEFINE more == (stk \ gone) \cup new
  <1>m. Moves(t, stk, gone, new, more)
    BY <1>1 DEF Moves
  <1>2. Mine(more, t) = (S \ gone) \cup new /\ \A u : u # t => Mine(more, u) = Mine(stk, u)
    <2> HIDE DEF more
    <2>1. MovedTo(t, stk, gone, new, more)
      BY <1>m, Moved
    <2> QED
      BY <1>1, <2>1 DEF MovedTo
  <1>3. S \subseteq stk
    BY <1>1 DEF Mine
  <1>4. TableOK(k, own, more, users)
    BY <1>1, <1>3
  <1> HIDE DEF more
  <1>5. ThreadsOK(Thread \ {t}, own, more, users)
    BY <1>1, <1>2, OthersStay
  <1> QED
    BY <1>1, <1>2, <1>4, <1>5 DEF Mid

LEMMA MidUsers ==
  ASSUME NEW t, NEW n, NEW k, NEW O, NEW S, NEW U, NEW gone, NEW new, Mid(t, n, O, S, U),
         gone \subseteq U, \A e \in new : e.t = t,
         \A own, stk, users : TableOK(n, own, stk, users) /\ U \subseteq users
              /\ (\A e \in users : e.t = t => e \in U)
            => TableOK(k, own, stk, (users \ gone) \cup new)
  PROVE  Mid(t, k, O, S, (U \ gone) \cup new)
  <1>1. PICK own, stk, users :
          /\ TableOK(n, own, stk, users) /\ ThreadsOK(Thread \ {t}, own, stk, users)
          /\ O = Mine(own, t) /\ S = Mine(stk, t) /\ U = Mine(users, t)
    BY DEF Mid
  <1> DEFINE more == (users \ gone) \cup new
  <1>m. Moves(t, users, gone, new, more)
    BY <1>1 DEF Moves
  <1>2. Mine(more, t) = (U \ gone) \cup new /\ \A u : u # t => Mine(more, u) = Mine(users, u)
    <2> HIDE DEF more
    <2>1. MovedTo(t, users, gone, new, more)
      BY <1>m, Moved
    <2> QED
      BY <1>1, <2>1 DEF MovedTo
  <1>3. U \subseteq users /\ \A e \in users : e.t = t => e \in U
    BY <1>1 DEF Mine
  <1>4. TableOK(k, own, stk, more)
    BY <1>1, <1>3
  <1> HIDE DEF more
  <1>5. ThreadsOK(Thread \ {t}, own, stk, more)
    BY <1>1, <1>2, OthersStay
  <1> QED
    BY <1>1, <1>2, <1>4, <1>5 DEF Mid

(* What a thread in the middle of an action knows.                         *)
Knows(t, n, O, S, U) ==
  /\ t \in Thread
  /\ Typed(n) /\ Live(n) /\ Distinct(n) /\ Ranked(n) /\ Awaited(n)
  /\ O \subseteq Owns /\ S \subseteq Stacks /\ U \subseteq Users
  /\ \A o \in O : o.t = t /\ n.state[o.b] = StateOf(o.as) /\ n.page[o.b] = o.page
  /\ \A o, x \in O : o.b = x.b => o = x
  /\ \A k \in S : k.t = t
  /\ \A u \in U :
       u.t = t /\ (u.w \in n.open \/ (u.kind = "control" /\ u.w \in n.miscounted))
  /\ Lending \subseteq n.open /\ n.miscounted \cap n.open = {}

LEMMA MidKnows ==
  ASSUME NEW t, NEW n, NEW O, NEW S, NEW U, Mid(t, n, O, S, U)
  PROVE  Knows(t, n, O, S, U)
  <1>1. PICK own, stk, users :
          /\ TableOK(n, own, stk, users)
          /\ O = Mine(own, t) /\ S = Mine(stk, t) /\ U = Mine(users, t)
    BY DEF Mid
  <1>2. /\ Typed(n) /\ Live(n) /\ Distinct(n) /\ Ranked(n) /\ Awaited(n)
        /\ Owned(n, own) /\ Stacked(n, stk) /\ Used(n, users)
    BY <1>1 DEF TableOK
  <1>3. /\ O \subseteq Owns /\ S \subseteq Stacks /\ U \subseteq Users
    BY <1>1, <1>2 DEF Mine, Owned, Stacked, Used
  <1>4. /\ \A o \in O : o.t = t /\ n.state[o.b] = StateOf(o.as) /\ n.page[o.b] = o.page
        /\ \A o, x \in O : o.b = x.b => o = x
    BY <1>1, <1>2 DEF Mine, Owned
  <1>5. /\ \A k \in S : k.t = t
        /\ \A u \in U :
             u.t = t /\ (u.w \in n.open \/ (u.kind = "control" /\ u.w \in n.miscounted))
        /\ Lending \subseteq n.open /\ n.miscounted \cap n.open = {}
    BY <1>1, <1>2 DEF Mine, Used
  <1>6. t \in Thread
    BY DEF Mid
  <1> QED
    BY <1>2, <1>3, <1>4, <1>5, <1>6 DEF Knows

LEMMA MidLoose ==
  ASSUME NEW t, NEW n, NEW k, NEW O, NEW S, NEW U, Mid(t, n, O, S, U), SameBut(n, k, Loose)
  PROVE  Mid(t, k, O, S, U)
  <1>1. \A own, stk, users : TableOK(n, own, stk, users) => TableOK(k, own, stk, users)
    BY LooseIsCalm, CalmKeeps DEF TableOK
  <1> QED
    BY <1>1, MidSame

LEMMA MidCalm ==
  ASSUME NEW t, NEW n, NEW k, NEW O, NEW S, NEW U, Mid(t, n, O, S, U), Calm(n, k)
  PROVE  Mid(t, k, O, S, U)
  <1>1. \A own, stk, users : TableOK(n, own, stk, users) => TableOK(k, own, stk, users)
    BY CalmKeeps
  <1> QED
    BY <1>1, MidSame

LEMMA MidWoken ==
  ASSUME NEW t, NEW n, NEW O, NEW S, NEW U, NEW bs, Mid(t, n, O, S, U)
  PROVE  Mid(t, Woken(n, bs), O, S, U)
  <1> DEFINE k == Woken(n, bs)
  <1>1. Typed(n)
    BY MidKnows DEF Knows
  <1>2. /\ SameBut(n, k, {"waiting"})
        /\ k.waiting = [u \in Thread |-> IF n.waiting[u] \in bs THEN None ELSE n.waiting[u]]
    BY <1>1, WokenIs DEF Typed
  <1> HIDE DEF k
  <1>3. /\ n.state \in [Block -> States] /\ n.parent \in [Block -> Block \cup {None}]
        /\ n.waiting \in [Thread -> Block \cup {Memory, None}]
    BY <1>1 DEF Typed
  <1>4. /\ k.waiting \in [Thread -> Block \cup {Memory, None}]
        /\ \A u \in Thread : k.waiting[u] = n.waiting[u] \/ k.waiting[u] = None
    BY <1>2, <1>3
  <1>5. k.state = n.state /\ k.parent = n.parent
    BY <1>2 DEF SameBut, Fields
  <1>6. SameBut(n, k, Loose \cup {"state", "parent", "waiting"})
    BY <1>2 DEF SameBut, Loose
  <1>7. Calm(n, k)
    BY <1>3, <1>4, <1>5, <1>6 DEF Calm
  <1> QED
    BY <1>7, MidCalm DEF k

LEMMA MidGot ==
  ASSUME NEW t, NEW n, NEW O, NEW S, NEW U, NEW d \in Domain, Mid(t, n, O, S, U), CanGet(n)
  PROVE  Mid(t, Got(n, NextStack(n), d), O, S \cup {StackOf(t, NextStack(n), d)}, U)
  <1> DEFINE k == Got(n, NextStack(n), d)
             e == StackOf(t, NextStack(n), d)
  <1>1. NextStack(n) \in n.free /\ t \in Thread
    BY MidKnows, ChosenBlocks DEF Knows, Typed, CanGet
  <1>2. ASSUME NEW own, NEW stk, NEW users, TableOK(n, own, stk, users)
        PROVE  TableOK(k, own, (stk \ {}) \cup {e}, users)
    BY <1>1, <1>2, GotKeeps DEF StackOf
  <1>3. \A x \in {e} : x.t = t
    BY DEF StackOf
  <1> HIDE DEF k, e
  <1>4. Mid(t, k, O, (S \ {}) \cup {e}, U)
    BY <1>2, <1>3, MidStk
  <1>5. (S \ {}) \cup {e} = S \cup {e}
    OBVIOUS
  <1> QED
    BY <1>4, <1>5 DEF k, e

LEMMA MidStackBack ==
  ASSUME NEW t, NEW n, NEW O, NEW U, NEW s, NEW d, Mid(t, n, O, {StackOf(t, s, d)}, U)
  PROVE  Mid(t, GivenBack(n, Stack(s, d)), O, {}, U)
  <1> DEFINE e == StackOf(t, s, d)
             k == GivenBack(n, Stack(s, d))
  <1>1. ASSUME NEW own, NEW stk, NEW users, TableOK(n, own, stk, users), {e} \subseteq stk
        PROVE  TableOK(k, own, (stk \ {e}) \cup {}, users)
    <2>1. e \in stk /\ e.s = s /\ e.d = d
      BY <1>1 DEF StackOf
    <2> HIDE DEF e
    <2>2. TableOK(GivenBack(n, Stack(e.s, e.d)), own, stk \ {e}, users)
      BY <1>1, <2>1, StackBackKeeps
    <2>3. (stk \ {e}) \cup {} = stk \ {e}
      OBVIOUS
    <2> QED
      BY <2>1, <2>2, <2>3
  <1> HIDE DEF k
  <1>2. Mid(t, n, O, {e}, U) /\ {e} \subseteq {e} /\ \A x \in {} : x.t = t
    OBVIOUS
  <1> HIDE DEF e
  <1>3. Mid(t, k, O, ({e} \ {e}) \cup {}, U)
    BY <1>1, <1>2, MidStk
  <1>4. ({e} \ {e}) \cup {} = {}
    OBVIOUS
  <1> QED
    BY <1>3, <1>4 DEF k

LEMMA MidMountedReading ==
  ASSUME NEW t, NEW n, NEW O, NEW S, NEW U, NEW p \in Page, Mid(t, n, O, S, U),
         WindowOf[p] \in n.open, Found(n, p) = {}, CanGet(n)
  PROVE  Mid(t, MountedReading(n, p), O \cup {Own(t, NextBlock(n, p), "queued", p)}, S, U)
  <1> DEFINE k == MountedReading(n, p)
             e == Own(t, NextBlock(n, p), "queued", p)
  <1>1. t \in Thread /\ n.free # {}
    BY MidKnows DEF Knows, CanGet
  <1>2. ASSUME NEW own, NEW stk, NEW users, TableOK(n, own, stk, users)
        PROVE  TableOK(k, (own \ {}) \cup {e}, stk, users)
    <2>1. TableOK(k, own \cup {e}, stk, users)
      BY <1>1, <1>2, MountedReadingKeeps DEF Own
    <2>2. (own \ {}) \cup {e} = own \cup {e}
      OBVIOUS
    <2> QED
      BY <2>1, <2>2
  <1>3. \A x \in {e} : x.t = t
    BY DEF Own
  <1> HIDE DEF k, e
  <1>4. Mid(t, k, (O \ {}) \cup {e}, S, U)
    BY <1>2, <1>3, MidOwn
  <1>5. (O \ {}) \cup {e} = O \cup {e}
    OBVIOUS
  <1> QED
    BY <1>4, <1>5 DEF k, e

LEMMA MidUnmounted ==
  ASSUME NEW t, NEW n, NEW O, NEW S, NEW U, NEW gone, NEW bs, Mid(t, n, O, S, U),
         gone \subseteq O, \A b : b \in bs <=> \E o \in gone : o.b = b
  PROVE  Mid(t, UnmountedReading(n, bs), O \ gone, S, U)
  <1> DEFINE k == UnmountedReading(n, bs)
  <1>1. ASSUME NEW own, NEW stk, NEW users, TableOK(n, own, stk, users), O \subseteq own
        PROVE  TableOK(k, (own \ gone) \cup {}, stk, users)
    <2>1. gone \subseteq own
      BY <1>1
    <2>2. TableOK(k, own \ gone, stk, users)
      BY <1>1, <2>1, UnmountedKeeps
    <2>3. (own \ gone) \cup {} = own \ gone
      OBVIOUS
    <2> QED
      BY <2>2, <2>3
  <1>2. \A x \in {} : x.t = t
    OBVIOUS
  <1> HIDE DEF k
  <1>3. Mid(t, k, (O \ gone) \cup {}, S, U)
    BY <1>1, <1>2, MidOwn
  <1>4. (O \ gone) \cup {} = O \ gone
    OBVIOUS
  <1> QED
    BY <1>3, <1>4 DEF k

LEMMA MidFreed ==
  ASSUME NEW t, NEW n, NEW O, NEW S, NEW U, NEW bs, Mid(t, n, O, S, U),
         \A b \in bs : b \in Block /\ Settled(n, b)
  PROVE  Mid(t, Freed(n, bs), O, S, U)
  <1>1. \A own, stk, users : TableOK(n, own, stk, users) => TableOK(Freed(n, bs), own, stk, users)
    BY FreedKeeps
  <1> QED
    BY <1>1, MidSame

LEMMA MidBelow ==
  ASSUME NEW t, NEW n, NEW k, NEW O, NEW S, NEW U, Mid(t, n, O, S, U),
         SameBut(n, k, {"parent"}),
         k.parent \in [Block -> Block \cup {None}],
         \A b \in Block : k.parent[b] \notin {n.parent[b], None} =>
           /\ Settled(n, b) /\ n.state[k.parent[b]] # "free"
           /\ Rank(n)[k.parent[b]] < Rank(n)[b]
  PROVE  Mid(t, k, O, S, U)
  <1>1. SameBut(n, k, Loose \cup {"state", "parent"}) /\ k.state = n.state
    BY DEF SameBut, Fields
  <1>2. k.state \in [Block -> States]
    BY <1>1, MidKnows DEF Knows, Typed
  <1>3. \A b \in Block : k.state[b] = n.state[b] \/ (Settled(n, b) /\ Settled(k, b))
    BY <1>1
  <1>4. \A own, stk, users : TableOK(n, own, stk, users) => TableOK(k, own, stk, users)
    BY <1>1, <1>2, <1>3, BelowKeeps
  <1> QED
    BY <1>4, MidSame

LEMMA MidUpdated ==
  ASSUME NEW t, NEW n, NEW O, NEW S, NEW U, NEW b \in Block, NEW root \in Block,
         Mid(t, n, O, S, U), Settled(n, b), n.parent[b] = None, n.state[root] # "free",
         Rank(n)[root] < Rank(n)[b]
  PROVE  Mid(t, Updated(n, b, root), O, S, U)
  <1>1. \A own, stk, users :
          TableOK(n, own, stk, users) => TableOK(Updated(n, b, root), own, stk, users)
    BY UpdatedKeeps
  <1> QED
    BY <1>1, MidSame

LEMMA MidCopied ==
  ASSUME NEW t, NEW n, NEW O, NEW S, NEW U, NEW b \in Block, Mid(t, n, O, S, U),
         Settled(n, b), n.parent[b] # None, n.pool # {}
  PROVE  Mid(t, Copied(n, b), O, S, U)
  <1>1. \A own, stk, users :
          TableOK(n, own, stk, users) => TableOK(Copied(n, b), own, stk, users)
    BY CopiedKeeps
  <1> QED
    BY <1>1, MidSame

LEMMA MidCleared ==
  ASSUME NEW t, NEW n, NEW O, NEW S, NEW U, NEW b, Mid(t, n, O, S, U)
  PROVE  /\ Mid(t, Cleared(n, b), O, S, U)
         /\ Calm(n, Cleared(n, b)) /\ Cleared(n, b).parent = n.parent
  <1>1. \A own, stk, users :
          TableOK(n, own, stk, users) => TableOK(Cleared(n, b), own, stk, users)
    BY ClearedKeeps
  <1>2. Mid(t, Cleared(n, b), O, S, U)
    BY <1>1, MidSame
  <1>3. \E own, stk, users : TableOK(n, own, stk, users)
    BY DEF Mid
  <1> QED
    BY <1>2, <1>3, ClearedKeeps

LEMMA MidEntered ==
  ASSUME NEW t, NEW n, NEW O, NEW S, NEW U, NEW b, NEW readOnly, Mid(t, n, O, S, U)
  PROVE  Mid(t, Entered(n, b, readOnly), O, S, U)
  <1>1. \A own, stk, users :
          TableOK(n, own, stk, users) => TableOK(Entered(n, b, readOnly), own, stk, users)
    BY EnteredKeeps
  <1> QED
    BY <1>1, MidSame

LEMMA MidWaits ==
  ASSUME NEW t, NEW n, NEW O, NEW S, NEW U, NEW what, Mid(t, n, O, S, U),
         what = Memory \/ (what \in Block /\ Busy(n, what))
  PROVE  Mid(t, Waits(n, t, what), O, S, U)
  <1>1. t \in Thread
    BY DEF Mid
  <1>2. \A own, stk, users :
          TableOK(n, own, stk, users) => TableOK(Waits(n, t, what), own, stk, users)
    BY <1>1, WaitsKeeps
  <1> QED
    BY <1>2, MidSame

LEMMA MidCounted ==
  ASSUME NEW t, NEW n, NEW O, NEW S, NEW U, NEW w \in Window, NEW kind \in {"call", "device"},
         Mid(t, n, O, S, U), User(t, w, kind) \notin U, w \in n.open
  PROVE  Mid(t, Counted(n, w, 1), O, S, U \cup {User(t, w, kind)})
  <1> DEFINE k == Counted(n, w, 1)
             e == User(t, w, kind)
  <1>1. t \in Thread
    BY DEF Mid
  <1>2. e \in Users /\ e.t = t /\ e.w = w
    BY <1>1 DEF User, Users
  <1> HIDE DEF e
  <1>3. ASSUME NEW own, NEW stk, NEW users, TableOK(n, own, stk, users),
               \A x \in users : x.t = t => x \in U
        PROVE  TableOK(k, own, stk, (users \ {}) \cup {e})
    <2>1. e \notin users
      BY <1>2, <1>3 DEF e
    <2>2. TableOK(k, own, stk, users \cup {e})
      BY <1>2, <1>3, <2>1, CountedKeeps
    <2>3. (users \ {}) \cup {e} = users \cup {e}
      OBVIOUS
    <2> QED
      BY <2>2, <2>3
  <1>4. \A x \in {e} : x.t = t
    BY <1>2
  <1> HIDE DEF k
  <1>5. Mid(t, k, O, S, (U \ {}) \cup {e})
    BY <1>3, <1>4, MidUsers
  <1>6. (U \ {}) \cup {e} = U \cup {e}
    OBVIOUS
  <1> QED
    BY <1>5, <1>6 DEF k, e

LEMMA MidUncounted ==
  ASSUME NEW t, NEW n, NEW O, NEW S, NEW U, NEW e \in U, Mid(t, n, O, S, U)
  PROVE  Mid(t, Counted(n, e.w, -1), O, S, U \ {e})
  <1> DEFINE k == Counted(n, e.w, -1)
  <1>1. ASSUME NEW own, NEW stk, NEW users, TableOK(n, own, stk, users), U \subseteq users
        PROVE  TableOK(k, own, stk, (users \ {e}) \cup {})
    <2>1. e \in users
      BY <1>1
    <2>2. TableOK(k, own, stk, users \ {e})
      BY <1>1, <2>1, UncountedKeeps
    <2>3. (users \ {e}) \cup {} = users \ {e}
      OBVIOUS
    <2> QED
      BY <2>2, <2>3
  <1>2. {e} \subseteq U /\ \A x \in {} : x.t = t
    OBVIOUS
  <1> HIDE DEF k
  <1>3. Mid(t, k, O, S, (U \ {e}) \cup {})
    BY <1>1, <1>2, MidUsers
  <1>4. (U \ {e}) \cup {} = U \ {e}
    OBVIOUS
  <1> QED
    BY <1>3, <1>4 DEF k

LEMMA MidMiscounted ==
  ASSUME NEW t, NEW n, NEW k, NEW O, NEW S, NEW U, NEW w \in Window,
         Mid(t, n, O, S, U), User(t, w, "control") \notin U,
         SameBut(n, k, {"calls", "miscounted"}),
         k.calls = [n.calls EXCEPT ![w] = @ + 1],
         k.miscounted = n.miscounted \cup ({w} \ n.open)
  PROVE  Mid(t, k, O, S, U \cup {User(t, w, "control")})
  <1> DEFINE e == User(t, w, "control")
  <1>1. t \in Thread
    BY DEF Mid
  <1>2. e \in Users /\ e.t = t /\ e.w = w /\ e.kind = "control"
    BY <1>1 DEF User, Users
  <1> HIDE DEF e
  <1>3. ASSUME NEW own, NEW stk, NEW users, TableOK(n, own, stk, users),
               \A x \in users : x.t = t => x \in U
        PROVE  TableOK(k, own, stk, (users \ {}) \cup {e})
    <2>1. e \notin users
      BY <1>2, <1>3 DEF e
    <2>2. TableOK(k, own, stk, users \cup {e})
      BY <1>2, <1>3, <2>1, MiscountedKeeps
    <2>3. (users \ {}) \cup {e} = users \cup {e}
      OBVIOUS
    <2> QED
      BY <2>2, <2>3
  <1>4. \A x \in {e} : x.t = t
    BY <1>2
  <1>5. Mid(t, k, O, S, (U \ {}) \cup {e})
    BY <1>3, <1>4, MidUsers
  <1>6. (U \ {}) \cup {e} = U \cup {e}
    OBVIOUS
  <1> QED
    BY <1>5, <1>6 DEF e

LEMMA MidClosed ==
  ASSUME NEW t, NEW n, NEW k, NEW O, NEW S, NEW U, NEW w \in Window \ Lending,
         Mid(t, n, O, S, U), SameBut(n, k, {"open"}), k.open = n.open \ {w},
         BlocksOf(n, w) = {}, n.calls[w] <= 0
  PROVE  Mid(t, k, O, S, U)
  <1>1. \A own, stk, users : TableOK(n, own, stk, users) => TableOK(k, own, stk, users)
    BY ClosedKeeps
  <1> QED
    BY <1>1, MidSame

LEMMA MidWriting ==
  ASSUME NEW t, NEW n, NEW k, NEW O, NEW S, NEW U, NEW b \in Block, Mid(t, n, O, S, U),
         Settled(n, b), n.parent[b] = None,
         SameBut(n, k, Loose \cup {"state"}), k.state = [n.state EXCEPT ![b] = "writing"]
  PROVE  Mid(t, k, O \cup {Own(t, b, "writer", n.page[b])}, S, U)
  <1> DEFINE e == Own(t, b, "writer", n.page[b])
  <1>1. t \in Thread
    BY DEF Mid
  <1>2. ASSUME NEW own, NEW stk, NEW users, TableOK(n, own, stk, users)
        PROVE  TableOK(k, (own \ {}) \cup {e}, stk, users)
    <2>1. TableOK(k, own \cup {e}, stk, users)
      BY <1>1, <1>2, WritingKeeps DEF Own
    <2>2. (own \ {}) \cup {e} = own \cup {e}
      OBVIOUS
    <2> QED
      BY <2>1, <2>2
  <1>3. \A x \in {e} : x.t = t
    BY DEF Own
  <1> HIDE DEF e
  <1>4. Mid(t, k, (O \ {}) \cup {e}, S, U)
    BY <1>2, <1>3, MidOwn
  <1>5. (O \ {}) \cup {e} = O \cup {e}
    OBVIOUS
  <1> QED
    BY <1>4, <1>5 DEF e

WrittenAs(n, k, b, to) ==
  /\ SameBut(n, k, Loose \cup {"state", "waiting"})
  /\ k.state = [n.state EXCEPT ![b] = to]
  /\ k.waiting = [u \in Thread |-> IF n.waiting[u] \in {b} THEN None ELSE n.waiting[u]]

LEMMA MidWritten ==
  ASSUME NEW t, NEW n, NEW k, NEW O, NEW S, NEW U, NEW o \in O,
         NEW to \in {"not modified", "modified"}, Mid(t, n, O, S, U), WrittenAs(n, k, o.b, to)
  PROVE  Mid(t, k, O \ {o}, S, U)
  <1>1. ASSUME NEW own, NEW stk, NEW users, TableOK(n, own, stk, users), O \subseteq own
        PROVE  TableOK(k, (own \ {o}) \cup {}, stk, users)
    <2>1. o \in own
      BY <1>1
    <2>2. TableOK(k, own \ {o}, stk, users)
      BY <1>1, <2>1, WrittenKeeps DEF WrittenAs
    <2>3. (own \ {o}) \cup {} = own \ {o}
      OBVIOUS
    <2> QED
      BY <2>2, <2>3
  <1>2. {o} \subseteq O /\ \A x \in {} : x.t = t
    OBVIOUS
  <1>3. Mid(t, k, (O \ {o}) \cup {}, S, U)
    BY <1>1, <1>2, MidOwn
  <1>4. (O \ {o}) \cup {} = O \ {o}
    OBVIOUS
  <1> QED
    BY <1>3, <1>4

LEMMA MidMarked ==
  ASSUME NEW t, NEW n, NEW k, NEW O, NEW S, NEW U, NEW o \in O, NEW as \in {"reader", "queued"},
         Mid(t, n, O, S, U), o.as # "writer", SameBut(n, k, {"lock"})
  PROVE  Mid(t, k, (O \ {o}) \cup {Own(t, o.b, as, o.page)}, S, U)
  <1> DEFINE e == Own(t, o.b, as, o.page)
  <1>0. o.t = t
    BY MidKnows DEF Knows
  <1>1. ASSUME NEW own, NEW stk, NEW users, TableOK(n, own, stk, users), O \subseteq own
        PROVE  TableOK(k, (own \ {o}) \cup {e}, stk, users)
    <2>1. o \in own
      BY <1>1
    <2> QED
      BY <1>0, <1>1, <2>1, MarkedKeeps DEF Own
  <1>2. {o} \subseteq O /\ \A x \in {e} : x.t = t
    BY DEF Own
  <1> HIDE DEF e
  <1>3. Mid(t, k, (O \ {o}) \cup {e}, S, U)
    BY <1>1, <1>2, MidOwn
  <1> QED
    BY <1>3 DEF e

-----------------------------------------------------------------------------
(* How the calls end.                                                      *)
LEMMA IdleIs == CallOK(Idle) /\ Idle.counted = FALSE /\ Idle.preparing = FALSE
  <1>1. DOMAIN Idle = ThreadFields
    BY DEF Idle, ThreadFields
  <1>2. /\ Idle.counted = FALSE /\ Idle.preparing = FALSE /\ Idle.update = FALSE
        /\ Idle.call = "none" /\ Idle.mode = NoMode
    BY DEF Idle
  <1>3. NoMode \in Modes
    <2>1. \A giveup, free, wait \in BOOLEAN : Mode(giveup, free, wait) \in Modes
      BY DEF Modes
    <2> QED
      BY <2>1, Zenon DEF NoMode
  <1> QED
    BY <1>1, <1>2, <1>3 DEF CallOK

LEMMA OneRoot ==
  ASSUME NEW n, Ranked(n), NEW x \in Block, NEW y \in Above(n, x), n.parent[y] = None
  PROVE  y = Root(n, x)
  <1> DEFINE r == Root(n, x)
             bs == {y, r}
             z == First(n, bs)
  <1>1. r \in Above(n, x) /\ r \in Block /\ n.parent[r] = None
    BY RootIs
  <1>2. bs # {} /\ bs \subseteq Above(n, x)
    BY <1>1
  <1>3. z \in bs /\ bs \subseteq Above(n, z)
    <2> HIDE DEF bs
    <2> QED
      BY <1>2, FirstIs
  <1>4. y \in Block
    BY AboveClosed
  <1>5. n.parent \in [Block -> Block \cup {None}]
    BY DEF Ranked
  <1>6. Above(n, z) = {z}
    BY <1>1, <1>3, <1>4, <1>5, AboveIs
  <1> QED
    BY <1>3, <1>6

(* lock_number of the window of a call                                     *)
LEMMA CallUncounted ==
  ASSUME NEW t, NEW n, NEW r, NEW O, NEW S, Mid(t, n, O, S, CallOf(t, r)), CallOK(r)
  PROVE  Mid(t, Uncounted(n, r), O, S, {})
  <1>1. CASE r.counted
    <2> DEFINE e == User(t, r.w, IF r.call = "control" THEN "control" ELSE "call")
    <2>1. CallOf(t, r) = {e} /\ e.w = r.w /\ Uncounted(n, r) = Counted(n, r.w, -1)
      BY <1>1 DEF CallOf, Uncounted, User
    <2> HIDE DEF e
    <2>2. Mid(t, n, O, S, {e}) /\ e \in {e}
      BY <2>1
    <2>3. Mid(t, Counted(n, e.w, -1), O, S, {e} \ {e})
      BY <2>2, MidUncounted
    <2>4. {e} \ {e} = {}
      OBVIOUS
    <2> QED
      BY <2>1, <2>3, <2>4
  <1>2. CASE ~r.counted
    BY <1>2 DEF CallOf, Uncounted
  <1> QED
    BY <1>1, <1>2

LEMMA IdleEnds ==
  ASSUME NEW t, NEW n, Mid(t, n, {}, {}, {}), Leaves(t, n, Idle)
  PROVE  IInv'
  <1>1. ThreadOK(t, Idle, {}, {}, {})
    BY IdleIs DEF ThreadOK, AtIdle
  <1>2. Step(t, n, Idle)
    BY DEF Leaves, Step
  <1> QED
    BY <1>1, <1>2, MidEnds

LEMMA EndsKeeps ==
  ASSUME NEW t, NEW n, NEW r, Mid(t, n, {}, {}, CallOf(t, r)), CallOK(r), Ends(t, n, r)
  PROVE  IInv'
  <1>1. Mid(t, Uncounted(n, r), {}, {}, {})
    BY CallUncounted
  <1> QED
    BY <1>1, IdleEnds DEF Ends

LEMMA FlushEndsKeeps ==
  ASSUME NEW t, NEW n, NEW r, Mid(t, n, {}, {}, CallOf(t, r)), CallOK(r), FlushEnds(t, n, r)
  PROVE  IInv'
  <1> DEFINE k == Uncounted(n, r)
             l == [k EXCEPT !.open = @ \ {r.w}]
  <1>1. Mid(t, k, {}, {}, {})
    BY CallUncounted
  <1>2. CASE r.call = "close" /\ BlocksOf(k, r.w) = {} /\ k.calls[r.w] <= 0
    <2>1. Leaves(t, l, Idle)
      BY <1>2 DEF FlushEnds
    <2>2. r.w \in Window \ Lending
      BY <1>2 DEF CallOK
    <2>3. IsTable(k)
      BY <1>1, MidKnows DEF Knows, Typed
    <2> HIDE DEF k
    <2>4. SameBut(k, l, {"open"}) /\ l.open = k.open \ {r.w}
      BY <2>3 DEF IsTable, SameBut, Fields
    <2> HIDE DEF l
    <2>5. Mid(t, l, {}, {}, {})
      BY <1>1, <1>2, <2>2, <2>4, MidClosed
    <2> QED
      BY <2>1, <2>5, IdleEnds
  <1>3. CASE ~(r.call = "close" /\ BlocksOf(k, r.w) = {} /\ k.calls[r.w] <= 0)
    <2>1. Leaves(t, k, Idle)
      BY <1>3 DEF FlushEnds
    <2> QED
      BY <1>1, <2>1, IdleEnds
  <1> QED
    BY <1>2, <1>3

(* A record that differs from that of a call in parts only.                *)
SameCall(r, k, fs) ==
  /\ DOMAIN k = ThreadFields
  /\ \A f \in ThreadFields \ fs : k[f] = r[f]

LEMMA SameCallOK ==
  ASSUME NEW r, NEW k, CallOK(r),
         SameCall(r, k, ThreadFields \ {"call", "w", "counted", "mode", "update"}),
         k.preparing \in BOOLEAN, r.call = "sweep" \/ r.call = "control" => k.d = r.d
  PROVE  CallOK(k) /\ \A t : CallOf(t, k) = CallOf(t, r)
  BY DEF CallOK, SameCall, ThreadFields, CallOf, User

LEMMA TurnedKeeps ==
  ASSUME NEW t, NEW n, NEW r, Mid(t, n, {}, {}, CallOf(t, r)), CallOK(r),
         ~r.preparing, r.call \in {"flush", "close", "sweep"}, Turned(t, n, r)
  PROVE  IInv'
  <1> DEFINE k == [r EXCEPT !.at = IF r.call = "sweep" THEN "prepare" ELSE "loop",
                            !.d = IF r.call = "sweep" THEN @ ELSE None, !.page = None,
                            !.b = None, !.kept = None, !.queue = <<>>, !.flush = NoMode]
  <1>1. CASE GoesOn(t, n, k)
    <2>0. DOMAIN r = ThreadFields
      BY DEF CallOK
    <2>1. SameCall(r, k, ThreadFields \ {"call", "w", "counted", "mode", "update", "preparing"})
      BY <2>0 DEF SameCall, ThreadFields
    <2>2. /\ k.at = IF r.call = "sweep" THEN "prepare" ELSE "loop"
          /\ k.d = IF r.call = "sweep" THEN r.d ELSE None
          /\ k.queue = <<>>
      BY <2>0 DEF ThreadFields
    <2>s. Step(t, n, k)
      BY <1>1 DEF GoesOn, Step
    <2> HIDE DEF k
    <2>3. k.call = r.call /\ k.preparing = r.preparing
      BY <2>1 DEF SameCall, ThreadFields
    <2>4. SameCall(r, k, ThreadFields \ {"call", "w", "counted", "mode", "update"})
      BY <2>1 DEF SameCall
    <2>5. CallOK(k) /\ CallOf(t, k) = CallOf(t, r)
      <3>1. r.preparing \in BOOLEAN
        BY DEF CallOK
      <3> QED
        BY <2>2, <2>3, <2>4, <3>1, SameCallOK
    <2>6. ThreadOK(t, k, {}, {}, CallOf(t, r))
      BY <2>2, <2>3, <2>5 DEF ThreadOK, AtLoop, AtPrepare, Empty, Preparing
    <2> QED
      BY <2>s, <2>6, MidEnds
  <1>2. CASE FlushEnds(t, n, r)
    BY <1>2, FlushEndsKeeps
  <1> QED
    BY <1>1, <1>2 DEF Turned

-----------------------------------------------------------------------------
(* prepare_free_block and flush_block.                                     *)
Queued(q, O) == \A x : x \in Range(q) <=> \E o \in O : o.b = x

LEMMA PreparingQueue ==
  ASSUME NEW r, NEW O, Preparing(r, O)
  PROVE  Queued(r.queue, O)
  <1>1. CASE Aimed(r, O)
    BY <1>1 DEF Aimed, InLine, Queued
  <1>2. CASE Empty(r, O)
    BY <1>2 DEF Empty, Queued, Range
  <1> QED
    BY <1>1, <1>2 DEF Preparing

LEMMA MidAbandoned ==
  ASSUME NEW t, NEW n, NEW q, NEW O, NEW S, NEW U, Mid(t, n, O, S, U), Queued(q, O)
  PROVE  Mid(t, Abandoned(n, q), {}, S, U)
  <1> DEFINE bs == Range(q)
             k == UnmountedReading(n, bs)
  <1>1. /\ O \subseteq O /\ \A b : b \in bs <=> \E o \in O : o.b = b
    BY DEF Queued
  <1>2. Mid(t, k, O \ O, S, U)
    <2> HIDE DEF bs
    <2> QED
      BY <1>1, MidUnmounted
  <1>3. O \ O = {}
    OBVIOUS
  <1>4. IsTable(n) /\ O \subseteq Owns
    BY MidKnows DEF Knows, Typed
  <1>5. \A b \in bs : b \in Block /\ Settled(k, b)
    <2>1. \A b \in bs : b \in Block
      BY <1>1, <1>4 DEF Owns
    <2> HIDE DEF bs
    <2>2. UnmountedAs(n, bs, k)
      BY <1>4, UnmountedReadingIs
    <2> QED
      BY <2>1, <2>2 DEF UnmountedAs, Settled
  <1> HIDE DEF bs, k
  <1>6. Mid(t, Freed(k, bs), {}, S, U)
    BY <1>2, <1>3, <1>5, MidFreed
  <1> QED
    BY <1>6 DEF Abandoned, bs, k

LEMMA FailsKeeps ==
  ASSUME NEW t, NEW n, NEW r, NEW O, Mid(t, n, O, {}, CallOf(t, r)), CallOK(r),
         Queued(r.queue, O), Ends(t, Abandoned(n, r.queue), r)
  PROVE  IInv'
  BY MidAbandoned, EndsKeeps

(* What a search is for stays when the rest of the record changes.         *)
Elsewhere == {"at", "b", "s", "tries", "mode", "flush", "preparing", "update", "readOnly"}

LEMMA SameAim ==
  ASSUME NEW r, NEW k, NEW Q, SameCall(r, k, Elsewhere)
  PROVE  /\ Aimed(r, Q) => Aimed(k, Q)
         /\ Preparing(r, Q) => Preparing(k, Q)
         /\ Working(r, Q) /\ k.preparing = r.preparing => Working(k, Q)
         /\ Preparing(r, Q) /\ k.preparing => Working(k, Q)
  <1>1. /\ k.call = r.call /\ k.w = r.w /\ k.d = r.d /\ k.counted = r.counted
        /\ k.page = r.page /\ k.queue = r.queue /\ k.kept = r.kept
    BY DEF SameCall, ThreadFields, Elsewhere
  <1>2. \A p : Lent(r, p) <=> Lent(k, p)
    BY <1>1 DEF Lent
  <1>3. InLine(r, Q) => InLine(k, Q)
    BY <1>1, <1>2 DEF InLine
  <1>4. Aimed(r, Q) => Aimed(k, Q)
    BY <1>1, <1>2, <1>3 DEF Aimed
  <1>5. Empty(r, Q) => Empty(k, Q)
    BY <1>1 DEF Empty
  <1> QED
    BY <1>1, <1>4, <1>5 DEF Preparing, Working

LEMMA SameCallOf ==
  ASSUME NEW r, NEW k, CallOK(r), SameCall(r, k, Elsewhere \ {"mode", "update"}),
         k.preparing \in BOOLEAN
  PROVE  /\ CallOK(k) /\ SameCall(r, k, Elsewhere) /\ k.call = r.call
         /\ \A t : CallOf(t, k) = CallOf(t, r)
  <1>1. /\ SameCall(r, k, ThreadFields \ {"call", "w", "counted", "mode", "update"})
        /\ SameCall(r, k, Elsewhere) /\ k.d = r.d /\ k.call = r.call
    BY DEF SameCall, ThreadFields, Elsewhere
  <1> QED
    BY <1>1, SameCallOK

LEMMA PreparedKeeps ==
  ASSUME NEW t, NEW n, NEW r, NEW ok, NEW O, Mid(t, n, O, {}, CallOf(t, r)), CallOK(r),
         Preparing(r, O), Prepared(t, n, r, ok)
  PROVE  IInv'
  <1> DEFINE k == [r EXCEPT !.tries = 0, !.preparing = FALSE, !.b = None, !.flush = NoMode]
             l == [k EXCEPT !.at = Follows(r)]
  <1>1. CASE GoesOn(t, n, l)
    <2>0. DOMAIN r = ThreadFields
      BY DEF CallOK
    <2>1. SameCall(r, l, Elsewhere \ {"mode", "update"})
      BY <2>0 DEF SameCall, ThreadFields, Elsewhere
    <2>2. l.at = Follows(r) /\ l.preparing = FALSE
      BY <2>0 DEF ThreadFields
    <2>s. Step(t, n, l)
      BY <1>1 DEF GoesOn, Step
    <2> HIDE DEF k, l
    <2>3. /\ CallOK(l) /\ CallOf(t, l) = CallOf(t, r)
          /\ SameCall(r, l, Elsewhere) /\ l.call = r.call
      BY <2>1, <2>2, SameCallOf
    <2>4. Preparing(l, O) /\ (Aimed(r, O) => Aimed(l, O))
      BY <2>3, SameAim
    <2>5. CASE Aimed(r, O)
      <3>1. l.at = "search"
        BY <2>2, <2>5 DEF Aimed, Follows
      <3> QED
        BY <3>1, <2>2, <2>3, <2>4, <2>5, <2>s, MidEnds DEF ThreadOK, AtSearch
    <2>6. CASE r.call = "sweep" /\ Empty(r, O)
      <3>1. l.at = "loop"
        BY <2>2, <2>6 DEF Follows
      <3>2. Empty(l, O)
        BY <2>3, <2>4, <2>6 DEF Preparing, Aimed
      <3> QED
        BY <3>1, <3>2, <2>2, <2>3, <2>6, <2>s, MidEnds DEF ThreadOK, AtLoop
    <2>7. CASE r.call = "control" /\ ~r.counted /\ Empty(r, O)
      <3>1. l.at = "control"
        BY <2>2, <2>7 DEF Follows
      <3>2. Empty(l, O) /\ ~l.counted
        BY <2>3, <2>4, <2>7 DEF Preparing, Aimed
      <3>3. CallOf(t, l) = {}
        BY <3>2 DEF CallOf
      <3>4. ThreadOK(t, l, O, {}, CallOf(t, r))
        BY <3>1, <3>2, <3>3, <2>2, <2>3, <2>7 DEF ThreadOK, AtControl
      <3> QED
        BY <3>4, <2>s, MidEnds
    <2> QED
      BY <2>5, <2>6, <2>7 DEF Preparing
  <1>2. CASE Ends(t, Abandoned(n, r.queue), r)
    BY <1>2, PreparingQueue, FailsKeeps
  <1> QED
    BY <1>1, <1>2 DEF Prepared

LEMMA FlushReturnsKeeps ==
  ASSUME NEW t, NEW n, NEW r, NEW ok, NEW O, Mid(t, n, O, {}, CallOf(t, r)), CallOK(r),
         Working(r, O), FlushReturns(t, n, r, ok)
  PROVE  IInv'
  <1>1. CASE r.preparing /\ Prepared(t, n, r, ok)
    BY <1>1, PreparedKeeps DEF Working
  <1>2. CASE r.preparing /\ GoesOn(t, n, [r EXCEPT !.at = "prepare", !.tries = @ + 1,
                                          !.preparing = FALSE, !.b = None, !.flush = NoMode])
    <2> DEFINE l == [r EXCEPT !.at = "prepare", !.tries = @ + 1,
                              !.preparing = FALSE, !.b = None, !.flush = NoMode]
    <2>0. DOMAIN r = ThreadFields
      BY DEF CallOK
    <2>1. SameCall(r, l, Elsewhere \ {"mode", "update"})
      BY <2>0 DEF SameCall, ThreadFields, Elsewhere
    <2>2. l.at = "prepare" /\ l.preparing = FALSE
      BY <2>0 DEF ThreadFields
    <2>s. Step(t, n, l)
      BY <1>2 DEF GoesOn, Step
    <2> HIDE DEF l
    <2>3. /\ CallOK(l) /\ CallOf(t, l) = CallOf(t, r)
          /\ SameCall(r, l, Elsewhere)
      BY <2>1, <2>2, SameCallOf
    <2>4. Preparing(l, O)
      BY <1>2, <2>3, SameAim DEF Working
    <2> QED
      BY <2>2, <2>3, <2>4, <2>s, MidEnds DEF ThreadOK, AtPrepare
  <1>3. CASE ~r.preparing /\ Turned(t, n, r)
    <2>1. O = {} /\ r.call \in {"flush", "close", "sweep"}
      BY <1>3 DEF Working, Empty
    <2> QED
      BY <1>3, <2>1, TurnedKeeps
  <1>4. CASE ~r.preparing /\ Ends(t, n, r)
    <2>1. O = {}
      BY <1>4 DEF Working, Empty
    <2> QED
      BY <1>4, <2>1, EndsKeeps
  <1> QED
    BY <1>1, <1>2, <1>3, <1>4 DEF FlushReturns

LEMMA MidSettled ==
  ASSUME NEW t, NEW n, NEW k, NEW O, NEW S, NEW U, NEW b \in Block,
         NEW to \in {"not modified", "modified"}, Mid(t, n, O, S, U), Settled(n, b),
         SameBut(n, k, Loose \cup {"state"}), k.state = [n.state EXCEPT ![b] = to]
  PROVE  Mid(t, k, O, S, U)
  <1>1. Typed(n)
    BY MidKnows DEF Knows
  <1>2. /\ n.state \in [Block -> States] /\ n.parent \in [Block -> Block \cup {None}]
        /\ n.waiting \in [Thread -> Block \cup {Memory, None}]
    BY <1>1 DEF Typed
  <1>3. k.parent = n.parent /\ k.waiting = n.waiting
        /\ SameBut(n, k, Loose \cup {"state", "parent", "waiting"})
    BY DEF SameBut, Fields, Loose
  <1>4. to \in States
    BY StatesAre
  <1>5. k.state \in [Block -> States]
    BY <1>2, <1>4
  <1>6. \A x \in Block : k.state[x] = n.state[x] \/ (Settled(n, x) /\ Settled(k, x))
    BY <1>2 DEF Settled
  <1>7. Calm(n, k)
    BY <1>2, <1>3, <1>5, <1>6 DEF Calm
  <1> QED
    BY <1>7, MidCalm

LEMMA MidFreedIfAsked ==
  ASSUME NEW t, NEW n, NEW r, NEW O, NEW S, NEW U, Mid(t, n, O, S, U), r.b \in Block
  PROVE  Mid(t, FreedIfAsked(n, r), O, S, U)
  <1>1. CASE r.flush.free /\ n.state[r.b] = "not modified" /\ n.lock[r.b] <= 0
    <2>1. \A b \in {r.b} : b \in Block /\ Settled(n, b)
      BY <1>1 DEF Settled
    <2>2. Mid(t, Freed(n, {r.b}), O, S, U)
      BY <2>1, MidFreed
    <2> QED
      BY <1>1, <2>2 DEF FreedIfAsked
  <1>2. CASE ~(r.flush.free /\ n.state[r.b] = "not modified" /\ n.lock[r.b] <= 0)
    BY <1>2 DEF FreedIfAsked
  <1> QED
    BY <1>1, <1>2

(* The block an update puts the flushed one below comes later.             *)
Onto(n, r) ==
  r.flush.onto # None =>
    /\ r.flush.onto \in Block /\ n.state[r.flush.onto] # "free"
    /\ Rank(n)[r.flush.onto] < Rank(n)[r.b]

LEMMA CalmIs ==
  ASSUME NEW n, NEW k, Calm(n, k), Typed(n)
  PROVE  /\ k.page = n.page /\ Rank(k) = Rank(n)
         /\ \A b \in Block : /\ Settled(n, b) => Settled(k, b)
                             /\ n.state[b] # "free" => k.state[b] # "free"
  <1>1. k.page = n.page
    BY DEF Calm, SameBut, Fields, Loose
  <1> QED
    BY <1>1 DEF Calm, Settled, Rank

LEMMA FlushedInMemoryKeeps ==
  ASSUME NEW t, NEW n, NEW r, NEW O, Mid(t, n, O, {}, CallOf(t, r)), CallOK(r),
         Working(r, O), r.b \in Block, Settled(n, r.b), Onto(n, r), FlushedInMemory(t, n, r)
  PROVE  IInv'
  <1>0. Typed(n) /\ Ranked(n) /\ IsTable(n)
    BY MidKnows DEF Knows, Typed
  <1>1. ASSUME NEW k, SameBut(n, k, Loose \cup {"state"}),
               k.state = [n.state EXCEPT ![r.b] = "not modified"],
               FlushReturns(t, FreedIfAsked(k, r), r, TRUE)
        PROVE  IInv'
    <2>1. Mid(t, k, O, {}, CallOf(t, r))
      BY <1>1, MidSettled
    <2>2. Mid(t, FreedIfAsked(k, r), O, {}, CallOf(t, r))
      BY <2>1, MidFreedIfAsked
    <2> QED
      BY <1>1, <2>2, FlushReturnsKeeps
  <1>2. CASE LET k == [n EXCEPT !.state[r.b] = "not modified"]
             IN  FlushReturns(t, FreedIfAsked(k, r), r, TRUE)
    <2> DEFINE k == [n EXCEPT !.state[r.b] = "not modified"]
    <2>1. SameBut(n, k, Loose \cup {"state"}) /\ k.state = [n.state EXCEPT ![r.b] = "not modified"]
      BY <1>0 DEF IsTable, SameBut, Fields, Loose
    <2> HIDE DEF k
    <2> QED
      BY <1>1, <1>2, <2>1 DEF k
  <1>3. CASE LET given == IF r.flush.giveup THEN {n.phys[r.b]} ELSE {}
                 k == [n EXCEPT !.state[r.b] = "not modified", !.newer = @ \ given,
                                !.forgotten = @ \ given]
             IN  FlushReturns(t, FreedIfAsked(k, r), r, TRUE)
    <2> DEFINE given == IF r.flush.giveup THEN {n.phys[r.b]} ELSE {}
               k == [n EXCEPT !.state[r.b] = "not modified", !.newer = @ \ given,
                              !.forgotten = @ \ given]
    <2> HIDE DEF given
    <2>1. SameBut(n, k, Loose \cup {"state"}) /\ k.state = [n.state EXCEPT ![r.b] = "not modified"]
      BY <1>0 DEF IsTable, SameBut, Fields, Loose
    <2> HIDE DEF k
    <2> QED
      BY <1>1, <1>3, <2>1 DEF k, given
  <1>4. CASE /\ n.parent[r.b] = None /\ r.flush.onto # None
             /\ LET root == Root(n, r.flush.onto)
                    k    == Cleared(n, root)
                IN  \/ k.lock[root] > 0 /\ FlushReturns(t, k, r, TRUE)
                    \/ /\ k.lock[root] <= 0
                       /\ FlushReturns(t, FreedIfAsked(Updated(k, r.b, root), r), r, TRUE)
    <2> DEFINE onto == r.flush.onto
               root == Root(n, onto)
               k == Cleared(n, root)
               u == Updated(k, r.b, root)
    <2>1. onto \in Block /\ n.state[onto] # "free" /\ Rank(n)[onto] < Rank(n)[r.b]
      BY <1>4 DEF Onto
    <2> HIDE DEF onto
    <2>2. root \in Above(n, onto) /\ root \in Block
      BY <1>0, <2>1, RootIs
    <2>3. Rank(n)[root] <= Rank(n)[onto] /\ n.state[root] # "free"
      BY <1>0, <2>1, <2>2, AboveRanks
    <2>4. Rank(n)[root] \in Nat /\ Rank(n)[onto] \in Nat /\ Rank(n)[r.b] \in Nat
      BY <2>1, <2>2, RankIs
    <2>5. Rank(n)[root] < Rank(n)[r.b]
      BY <2>1, <2>3, <2>4
    <2>6. Mid(t, k, O, {}, CallOf(t, r)) /\ Calm(n, k) /\ k.parent = n.parent
      BY MidCleared
    <2> HIDE DEF root
    <2>7. /\ Settled(k, r.b) /\ k.parent[r.b] = None /\ k.state[root] # "free"
          /\ Rank(k)[root] < Rank(k)[r.b]
      BY <1>0, <1>4, <2>2, <2>3, <2>5, <2>6, CalmIs
    <2> HIDE DEF k
    <2>8. Mid(t, u, O, {}, CallOf(t, r))
      BY <2>2, <2>6, <2>7, MidUpdated
    <2> HIDE DEF u
    <2>9. Mid(t, FreedIfAsked(u, r), O, {}, CallOf(t, r))
      BY <2>8, MidFreedIfAsked
    <2>10. FlushReturns(t, k, r, TRUE) \/ FlushReturns(t, FreedIfAsked(u, r), r, TRUE)
      BY <1>4 DEF k, u, root, onto
    <2> QED
      BY <2>6, <2>9, <2>10, FlushReturnsKeeps
  <1> QED
    BY <1>2, <1>3, <1>4 DEF FlushedInMemory

LEMMA MidNotGot ==
  ASSUME NEW t, NEW n, NEW O, NEW S, NEW U, Mid(t, n, O, S, U)
  PROVE  Mid(t, NotGot(n), O, S, U)
  BY MidWoken DEF NotGot

LEMMA WorkingQueue ==
  ASSUME NEW r, NEW O, Working(r, O)
  PROVE  \A o \in O : o.as = "queued"
  BY DEF Working, Preparing, Aimed, InLine, Empty

LEMMA WriteStartsKeeps ==
  ASSUME NEW t, NEW n, NEW r, NEW O, Mid(t, n, O, {}, CallOf(t, r)), CallOK(r),
         Working(r, O), r.b \in Block, Settled(n, r.b), n.parent[r.b] = None,
         WriteStarts(t, n, r)
  PROVE  IInv'
  <1> DEFINE p == n.page[r.b]
             w == WindowOf[p]
             s == NextStack(n)
             g == Got(n, s, DomainOf[w])
             k == Counted(g, w, 1)
             l == [k EXCEPT !.state[r.b] = "writing", !.newer = @ \ {n.phys[r.b]},
                            !.forgotten = @ \ {n.phys[r.b]}]
             x == [r EXCEPT !.at = "writing", !.s = s]
             U == CallOf(t, r) \cup {User(t, w, "device")}
             e == Own(t, r.b, "writer", p)
  <1>0. Typed(n) /\ Live(n) /\ IsTable(n)
    BY MidKnows DEF Knows, Typed
  <1>1. p \in Page /\ w \in n.open /\ w \in Window /\ DomainOf[w] \in Domain
    <2>1. n.state[r.b] # "free"
      BY DEF Settled
    <2>2. InUse(n, r.b)
      BY <1>0, <2>1 DEF Live
    <2> QED
      BY <2>2, TableAssumption DEF InUse
  <1>2. CASE CanGet(n) /\ Leaves(t, l, x)
    <2> HIDE DEF w, p
    <2>1. Mid(t, g, O, {} \cup {StackOf(t, s, DomainOf[w])}, CallOf(t, r))
      BY <1>1, <1>2, MidGot DEF CanGet
    <2>2. {} \cup {StackOf(t, s, DomainOf[w])} = {StackOf(t, s, DomainOf[w])}
      OBVIOUS
    <2>3. /\ SameBut(n, g, {"phys", "pool", "pages", "free", "parent", "private", "blocks"})
          /\ g.parent = [n.parent EXCEPT ![s] = None]
      BY <1>0, GotIs
    <2> HIDE DEF g
    <2>4. g.open = n.open /\ g.state = n.state /\ g.page = n.page
      BY <2>3 DEF SameBut, Fields
    <2>5. User(t, w, "device") \notin CallOf(t, r)
      BY DEF CallOf, User
    <2> DEFINE S == {StackOf(t, s, DomainOf[w])}
    <2>s. Mid(t, g, O, S, CallOf(t, r))
      BY <2>1, <2>2
    <2> HIDE DEF S
    <2>6. Mid(t, k, O, S, U)
      BY <1>1, <2>s, <2>4, <2>5, MidCounted
    <2>7. SameBut(g, k, {"calls"})
      <3>1. IsTable(g)
        BY <2>3 DEF SameBut
      <3> QED
        BY <3>1, CountedIs DEF CountedAs
    <2> HIDE DEF k
    <2>8. k.state = n.state /\ k.page = n.page /\ k.parent = [n.parent EXCEPT ![s] = None] /\ IsTable(k)
      BY <2>3, <2>4, <2>7 DEF SameBut, Fields
    <2>9. SameBut(k, l, Loose \cup {"state"}) /\ l.state = [k.state EXCEPT ![r.b] = "writing"]
      BY <2>8 DEF IsTable, SameBut, Fields, Loose
    <2> HIDE DEF l
    <2>10. Settled(k, r.b) /\ k.parent[r.b] = None /\ k.page[r.b] = p
      BY <1>0, <2>8 DEF Settled, p, Typed
    <2>11. Mid(t, l, O \cup {e}, S, U)
      BY <2>6, <2>9, <2>10, MidWriting
    <2>12. DOMAIN r = ThreadFields
      BY DEF CallOK
    <2>13. /\ SameCall(r, x, Elsewhere \ {"mode", "update"})
           /\ x.at = "writing" /\ x.s = s /\ x.b = r.b /\ x.preparing = r.preparing
      BY <2>12 DEF SameCall, ThreadFields, Elsewhere
    <2>14. Step(t, l, x)
      BY <1>2 DEF Leaves, Step
    <2> HIDE DEF x
    <2>15. r.preparing \in BOOLEAN
      BY DEF CallOK
    <2>16. CallOK(x) /\ CallOf(t, x) = CallOf(t, r) /\ SameCall(r, x, Elsewhere)
      BY <2>13, <2>15, SameCallOf
    <2>17. Working(x, O)
      BY <2>13, <2>16, SameAim
    <2>18. S = {StackOf(t, x.s, DomainOfPage(p))}
      BY <2>13 DEF S, DomainOfPage, w
    <2>19. e = Own(t, x.b, "writer", p)
      BY <2>13
    <2> HIDE DEF e
    <2>20. AtWriting(t, x, O \cup {e}, S, U)
      BY <1>1, <2>13, <2>16, <2>17, <2>18, <2>19 DEF AtWriting, w
    <2>21. ThreadOK(t, x, O \cup {e}, S, U)
      BY <2>16, <2>20 DEF ThreadOK
    <2> QED
      BY <2>11, <2>14, <2>21, MidEnds
  <1>3. CASE FlushReturns(t, NotGot(n), r, FALSE)
    BY <1>3, MidNotGot, FlushReturnsKeeps
  <1> QED
    BY <1>2, <1>3 DEF WriteStarts

LEMMA FlushBlockKeeps ==
  ASSUME NEW t, NEW k, NEW r, NEW O, Mid(t, k, O, {}, CallOf(t, r)), CallOK(r),
         Working(r, O), r.b \in Block, Onto(k, r), FlushBlock(t, k, r)
  PROVE  IInv'
  <1> DEFINE n == Cleared(k, r.b)
             x == [r EXCEPT !.at = "flushed"]
  <1>0. Typed(k)
    BY MidKnows DEF Knows
  <1>1. Mid(t, n, O, {}, CallOf(t, r)) /\ Calm(k, n)
    BY MidCleared
  <1>2. CASE Busy(k, r.b) /\ Leaves(t, Waits(k, t, r.b), x)
    <2>1. Mid(t, Waits(k, t, r.b), O, {}, CallOf(t, r))
      BY <1>2, MidWaits
    <2>2. DOMAIN r = ThreadFields /\ r.preparing \in BOOLEAN
      BY DEF CallOK
    <2>3. /\ SameCall(r, x, Elsewhere \ {"mode", "update"})
          /\ x.at = "flushed" /\ x.preparing = r.preparing
      BY <2>2 DEF SameCall, ThreadFields, Elsewhere
    <2>4. Step(t, Waits(k, t, r.b), x)
      BY <1>2 DEF Leaves, Step
    <2> HIDE DEF x
    <2>5. CallOK(x) /\ CallOf(t, x) = CallOf(t, r) /\ SameCall(r, x, Elsewhere)
      BY <2>2, <2>3, SameCallOf
    <2>6. Working(x, O)
      BY <2>3, <2>5, SameAim
    <2>7. ThreadOK(t, x, O, {}, CallOf(t, r))
      BY <2>3, <2>5, <2>6 DEF ThreadOK, AtFlushed
    <2> QED
      BY <2>1, <2>4, <2>7, MidEnds
  <1>3. CASE FlushReturns(t, k, r, TRUE) \/ FlushReturns(t, n, r, TRUE)
    BY <1>1, <1>3, FlushReturnsKeeps
  <1>4. CASE Settled(k, r.b) /\ FlushedInMemory(t, n, r)
    <2>1. Settled(n, r.b) /\ Onto(n, r)
      BY <1>0, <1>1, <1>4, CalmIs DEF Onto
    <2> HIDE DEF n
    <2> QED
      BY <1>1, <1>4, <2>1, FlushedInMemoryKeeps
  <1>5. CASE Settled(k, r.b) /\ n.parent[r.b] = None /\ WriteStarts(t, n, r)
    <2>1. Settled(n, r.b)
      BY <1>0, <1>1, <1>5, CalmIs
    <2> HIDE DEF n
    <2> QED
      BY <1>1, <1>5, <2>1, WriteStartsKeeps
  <1> QED
    BY <1>2, <1>3, <1>4, <1>5 DEF FlushBlock

-----------------------------------------------------------------------------
(* search_read_block.                                                      *)
BelowIn(q, b, x) == LET i == CHOOSE i \in DOMAIN q : q[i] = x
                    IN  IF i = 1 THEN b ELSE q[i - 1]

PutAs(n, b, q, k) ==
  /\ SameBut(n, k, {"parent"})
  /\ k.parent = [x \in Block |-> IF x \in Range(q) THEN BelowIn(q, b, x) ELSE n.parent[x]]

LEMMA PutBelowIs ==
  ASSUME NEW n, NEW b, NEW q, IsTable(n)
  PROVE  PutAs(n, b, q, PutBelow(n, b, q))
  BY DEF PutBelow, PutAs, BelowIn, SameBut, IsTable, Fields

LEMMA PlacedIs ==
  ASSUME NEW q \in Seq(Block), NEW b, NEW x \in Range(q)
  PROVE  \E i \in DOMAIN q : /\ q[i] = x /\ i \in Nat
                             /\ i = 1 => BelowIn(q, b, x) = b
                             /\ i # 1 => /\ BelowIn(q, b, x) = q[i - 1]
                                        /\ i - 1 \in DOMAIN q /\ i - 1 < i
  <1> DEFINE i == CHOOSE j \in DOMAIN q : q[j] = x
  <1>1. \E j \in DOMAIN q : q[j] = x
    BY DEF Range
  <1>2. i \in DOMAIN q /\ q[i] = x
    BY <1>1
  <1>3. DOMAIN q = 1..Len(q) /\ Len(q) \in Nat
    OBVIOUS
  <1>4. BelowIn(q, b, x) = IF i = 1 THEN b ELSE q[i - 1]
    BY DEF BelowIn
  <1> HIDE DEF i
  <1>5. i \in Nat /\ (i # 1 => i - 1 \in DOMAIN q /\ i - 1 < i)
    BY <1>2, <1>3
  <1> QED
    BY <1>2, <1>4, <1>5

(* The blocks read become one below the other, the first below the found.  *)
LinkedAs(n, k) == k.page = n.page /\ \A b \in Block : n.state[b] # "free" => k.state[b] # "free"

LEMMA MidLinked ==
  ASSUME NEW t, NEW n, NEW r, NEW O, NEW S, NEW U, NEW found \in Block, Mid(t, n, O, S, U),
         InLine(r, O), n.state[found] # "free", n.page[found] \in Page,
         \A o \in O : Depth[n.page[found]] < Depth[o.page]
  PROVE  Mid(t, Linked(n, found, r.queue), {}, S, U) /\ LinkedAs(n, Linked(n, found, r.queue))
  <1> DEFINE q == r.queue
             read == Range(q)
             a == Dismounted(n, ByDomain(n, read))
             c == UnmountedReading(a, read)
             l == PutBelow(c, found, q)
  <1>0. Typed(n) /\ IsTable(n) /\ O \subseteq Owns
        /\ \A o \in O : n.page[o.b] = o.page
    BY MidKnows DEF Knows, Typed
  <1>1. SameBut(n, a, {"phys", "pool", "pages", "newer", "forgotten"})
    BY <1>0, DismountedIs
  <1> HIDE DEF a
  <1>2. SameBut(n, a, Loose) /\ a.state = n.state /\ a.page = n.page /\ IsTable(a)
    BY <1>1 DEF SameBut, Loose, Fields
  <1>3. Mid(t, a, O, S, U)
    BY <1>2, MidLoose
  <1>4. \A b : b \in read <=> \E o \in O : o.b = b
    BY DEF InLine
  <1>5. q \in Seq(Block)
    BY DEF InLine
  <1>r. read \subseteq Block
    BY <1>0, <1>4 DEF Owns
  <1>j. \A i, j \in DOMAIN q : i < j => Depth[n.page[q[i]]] < Depth[n.page[q[j]]]
    <2> SUFFICES ASSUME NEW i \in DOMAIN q, NEW j \in DOMAIN q, i < j
                 PROVE  Depth[n.page[q[i]]] < Depth[n.page[q[j]]]
      OBVIOUS
    <2>1. q[i] \in read /\ q[j] \in read
      BY DEF Range
    <2>2. PICK o \in O : o.b = q[i]
      BY <2>1, <1>4
    <2>3. PICK x \in O : x.b = q[j]
      BY <2>1, <1>4
    <2>4. Depth[o.page] < Depth[x.page]
      BY <2>2, <2>3 DEF InLine
    <2> QED
      BY <1>0, <2>2, <2>3, <2>4
  <1>k. \A x \in read : n.page[x] \in Page /\ Depth[n.page[found]] < Depth[n.page[x]]
    <2> SUFFICES ASSUME NEW x \in read
                 PROVE  n.page[x] \in Page /\ Depth[n.page[found]] < Depth[n.page[x]]
      OBVIOUS
    <2>1. PICK o \in O : o.b = x
      BY <1>4
    <2> QED
      BY <1>0, <2>1 DEF Owns
  <1> HIDE DEF q, read
  <1>6. Mid(t, c, {}, S, U)
    <2>1. O \subseteq O /\ O \ O = {}
      OBVIOUS
    <2>2. Mid(t, c, O \ O, S, U)
      BY <1>3, <1>4, <2>1, MidUnmounted
    <2> QED
      BY <2>1, <2>2
  <1>7. UnmountedAs(a, read, c)
    BY <1>2, UnmountedReadingIs
  <1> HIDE DEF c
  <1>8. /\ c.page = n.page /\ IsTable(c)
        /\ \A b \in read : c.state[b] = "not modified"
        /\ \A b \in Block : n.state[b] # "free" => c.state[b] # "free"
    BY <1>2, <1>7, <1>r DEF UnmountedAs, SameBut, Fields
  <1>9. Typed(c) /\ Rank(c) = Rank(n)
    BY <1>6, <1>8, MidKnows DEF Knows, Rank
  <1>10. PutAs(c, found, q, l)
    BY <1>8, PutBelowIs
  <1> HIDE DEF l
  <1>p. /\ SameBut(c, l, {"parent"})
        /\ l.parent = [x \in Block |-> IF x \in read THEN BelowIn(q, found, x) ELSE c.parent[x]]
    BY <1>10 DEF PutAs, read
  <1>11. ASSUME NEW b \in Block
         PROVE  /\ l.parent[b] \in Block \cup {None}
                /\ l.parent[b] \notin {c.parent[b], None} =>
                     /\ Settled(c, b) /\ c.state[l.parent[b]] # "free"
                     /\ Rank(c)[l.parent[b]] < Rank(c)[b]
    <2>1. CASE b \notin read
      BY <2>1, <1>9, <1>p DEF Typed
    <2>2. CASE b \in read
      <3>1. PICK i \in DOMAIN q : /\ q[i] = b /\ i \in Nat
                                  /\ i = 1 => BelowIn(q, found, b) = found
                                  /\ i # 1 => /\ BelowIn(q, found, b) = q[i - 1]
                                             /\ i - 1 \in DOMAIN q /\ i - 1 < i
        BY <2>2, <1>5, PlacedIs DEF read
      <3>2. l.parent[b] = BelowIn(q, found, b)
        BY <2>2, <1>p
      <3>3. Settled(c, b)
        BY <2>2, <1>8 DEF Settled
      <3>4. n.page[b] \in Page /\ Rank(n)[b] = Depth[n.page[b]]
        BY <2>2, <1>k DEF Rank
      <3>5. CASE i = 1
        <4>1. Rank(n)[found] = Depth[n.page[found]]
          BY DEF Rank
        <4>2. l.parent[b] = found /\ c.state[found] # "free"
          BY <3>1, <3>2, <3>5, <1>8
        <4> QED
          BY <4>1, <4>2, <3>3, <3>4, <2>2, <1>k, <1>9
      <3>6. CASE i # 1
        <4> DEFINE y == q[i - 1]
        <4>1. y \in read /\ l.parent[b] = y
          BY <3>1, <3>2, <3>6 DEF Range, read
        <4>2. Depth[n.page[y]] < Depth[n.page[b]]
          BY <3>1, <3>6, <1>j
        <4>3. y \in Block /\ Rank(n)[y] = Depth[n.page[y]]
          BY <4>1, <1>r, <1>k DEF Rank
        <4>4. c.state[y] # "free"
          BY <4>1, <1>8
        <4> QED
          BY <4>1, <4>2, <4>3, <4>4, <3>3, <3>4, <1>9
      <3> QED
        BY <3>5, <3>6
    <2> QED
      BY <2>1, <2>2
  <1>12. l.parent \in [Block -> Block \cup {None}]
    BY <1>p, <1>11
  <1>13. Mid(t, l, {}, S, U)
    BY <1>6, <1>p, <1>11, <1>12, MidBelow
  <1>14. l.page = n.page /\ l.state = c.state
    BY <1>8, <1>p DEF SameBut, Fields
  <1>15. l = Linked(n, found, r.queue)
    BY DEF l, c, a, q, read, Linked
  <1> QED
    BY <1>8, <1>13, <1>14, <1>15 DEF LinkedAs

(* A block in use for a page of the search, or of one it led to.           *)
Target(r, n, b) ==
  /\ b \in Block /\ n.state[b] # "free" /\ n.page[b] \in Page /\ Lent(r, n.page[b])
  /\ r.call = "flush" => /\ r.kept \in [b : Block, page : Page]
                         /\ Depth[n.page[b]] < Depth[r.kept.page]

LEMMA ModesAre ==
  ASSUME NEW mode \in Modes
  PROVE  DOMAIN mode = {"giveup", "free", "wait", "onto"} /\ mode.onto = None
  <1>1. PICK giveup, free, wait \in BOOLEAN : mode = Mode(giveup, free, wait)
    BY DEF Modes
  <1> QED
    BY <1>1 DEF Mode

LEMMA ObtainedKeeps ==
  ASSUME NEW t, NEW n, NEW r, NEW b, Mid(t, n, {}, {}, CallOf(t, r)), CallOK(r),
         ~r.preparing, Target(r, n, b), Obtained(t, n, r, b)
  PROVE  IInv'
  <1> DEFINE k == [r EXCEPT !.queue = <<>>, !.page = None, !.d = None, !.kept = None]
             x == r.kept.b
             mode == [r.mode EXCEPT !.onto = Root(n, b)]
             y == [k EXCEPT !.b = x, !.flush = mode]
  <1>0. Typed(n) /\ Ranked(n) /\ DOMAIN r = ThreadFields /\ r.mode \in Modes
        /\ r.preparing \in BOOLEAN
    BY MidKnows DEF Knows, CallOK
  <1>1. CASE Ends(t, n, r)
    BY <1>1, EndsKeeps
  <1>2. CASE Ends(t, Entered(n, b, r.readOnly), r)
    BY <1>2, MidEntered, EndsKeeps
  <1>3. CASE r.call = "flush" /\ Turned(t, n, k)
    <2>1. /\ SameCall(r, k, ThreadFields \ {"call", "w", "counted", "mode", "update"})
          /\ k.preparing = r.preparing /\ k.call = r.call
      BY <1>0 DEF SameCall, ThreadFields
    <2> HIDE DEF k
    <2>2. CallOK(k) /\ CallOf(t, k) = CallOf(t, r)
      BY <1>0, <1>3, <2>1, SameCallOK
    <2> QED
      BY <1>3, <2>1, <2>2, TurnedKeeps
  <1>4. CASE r.call = "flush" /\ n.page[x] = r.kept.page /\ FlushBlock(t, n, y)
    <2>1. /\ SameCall(r, y, ThreadFields \ {"call", "w", "counted", "mode", "update"})
          /\ y.preparing = r.preparing /\ y.call = r.call /\ y.queue = <<>>
          /\ y.b = x /\ y.flush = mode
      BY <1>0 DEF SameCall, ThreadFields
    <2>2. mode.onto = Root(n, b)
      BY <1>0, ModesAre
    <2> HIDE DEF y, k, mode
    <2>3. CallOK(y) /\ CallOf(t, y) = CallOf(t, r)
      BY <1>0, <1>4, <2>1, SameCallOK
    <2>4. Working(y, {})
      BY <1>4, <2>1 DEF Working, Empty
    <2>5. /\ x \in Block /\ r.kept.page \in Page /\ b \in Block /\ n.state[b] # "free"
          /\ n.page[b] \in Page /\ Depth[n.page[b]] < Depth[r.kept.page]
      BY <1>4 DEF Target
    <2> DEFINE root == Root(n, b)
    <2>6. root \in Above(n, b) /\ root \in Block
      BY <1>0, <2>5, RootIs
    <2> HIDE DEF root
    <2>7. Rank(n)[root] <= Rank(n)[b] /\ n.state[root] # "free"
      BY <1>0, <2>5, <2>6, AboveRanks
    <2>8. Rank(n)[b] = Depth[n.page[b]] /\ Rank(n)[x] = Depth[r.kept.page]
      BY <1>4, <2>5 DEF Rank
    <2>9. Rank(n)[root] \in Nat /\ Rank(n)[b] \in Nat /\ Rank(n)[x] \in Nat
      BY <2>5, <2>6, RankIs
    <2>10. Rank(n)[root] < Rank(n)[x]
      BY <2>5, <2>7, <2>8, <2>9
    <2>11. Onto(n, y)
      BY <2>1, <2>2, <2>6, <2>7, <2>10 DEF Onto, root
    <2> QED
      BY <1>4, <2>1, <2>3, <2>4, <2>5, <2>11, FlushBlockKeeps
  <1> QED
    BY <1>1, <1>2, <1>3, <1>4 DEF Obtained

LEMMA OwnBlockIs ==
  ASSUME NEW n, Ranked(n), NEW b \in Block
  PROVE  /\ OwnBlock(n, b) \in Block
         /\ OwnBlock(n, b) # Root(n, b) =>
              n.parent[OwnBlock(n, b)] # None /\ Settled(n, OwnBlock(n, b))
  <1> DEFINE own == OwnBlock(n, b)
             private == Above(n, b) \cap n.private
  <1>1. own \in Above(n, b)
    <2>1. CASE private = {}
      BY <2>1, RootIs DEF OwnBlock
    <2>2. CASE private # {}
      <3>1. private \subseteq Above(n, b) /\ own = First(n, private)
        BY <2>2 DEF OwnBlock
      <3> HIDE DEF private, own
      <3>2. own \in private
        BY <2>2, <3>1, FirstIs
      <3> QED
        BY <3>1, <3>2
    <2> QED
      BY <2>1, <2>2
  <1> HIDE DEF own
  <1>2. own \in Block
    BY <1>1, AboveClosed
  <1>3. own # Root(n, b) => n.parent[own] # None
    BY <1>1, OneRoot
  <1>4. n.parent[own] # None => Settled(n, own)
    BY <1>2 DEF Ranked
  <1> QED
    BY <1>2, <1>3, <1>4 DEF own

(* A search that goes on, at a page.                                       *)
LEMMA SearchingKeeps ==
  ASSUME NEW t, NEW n, NEW r, NEW x, NEW O, NEW p, Mid(t, n, O, {}, CallOf(t, r)),
         CallOK(r), ~r.preparing, r.call \in {"map", "flush"}, Lent(r, p),
         SameCall(r, x, {"at", "page", "d", "tries", "queue", "b", "s"}),
         x.at = "prepare", x.page = p, x.d = DomainOfPage(p), InLine(x, O),
         r.call = "flush" =>
           /\ r.kept \in [b : Block, page : Page]
           /\ Depth[p] < Depth[r.kept.page]
           /\ \A o \in O : Depth[o.page] < Depth[r.kept.page],
         GoesOn(t, n, x)
  PROVE  IInv'
  <1>1. /\ x.call = r.call /\ x.kept = r.kept /\ x.w = r.w /\ x.preparing = r.preparing
        /\ SameCall(r, x, ThreadFields \ {"call", "w", "counted", "mode", "update"})
    BY DEF SameCall, ThreadFields
  <1>2. r.preparing \in BOOLEAN
    BY DEF CallOK
  <1>3. CallOK(x) /\ CallOf(t, x) = CallOf(t, r)
    BY <1>1, <1>2, SameCallOK
  <1>4. Lent(x, p)
    BY <1>1 DEF Lent
  <1>5. Aimed(x, O)
    BY <1>1, <1>4 DEF Aimed
  <1>6. ThreadOK(t, x, O, {}, CallOf(t, r))
    BY <1>1, <1>3, <1>5 DEF ThreadOK, AtPrepare, Preparing
  <1>7. Step(t, n, x)
    BY DEF GoesOn, Step
  <1> QED
    BY <1>6, <1>7, MidEnds

LEMMA NoneInLine ==
  ASSUME NEW r, r.queue = <<>>
  PROVE  InLine(r, {})
  BY DEF InLine, Range

LEMMA LinkingKeeps ==
  ASSUME NEW t, NEW k, NEW r, NEW O, NEW found, Mid(t, k, O, {}, CallOf(t, r)), CallOK(r),
         ~r.preparing, Aimed(r, O), found \in Block, k.state[found] # "free",
         k.page[found] = r.page, Linking(t, k, r, found)
  PROVE  IInv'
  <1> DEFINE n == Linked(k, found, r.queue)
             b == IF r.queue = <<>> THEN found ELSE r.queue[Len(r.queue)]
             own == OwnBlock(n, b)
             c == Cleared(n, own)
             z == [Searching(r, n.page[b]) EXCEPT !.queue = <<>>]
  <1>0. /\ DOMAIN r = ThreadFields /\ r.page \in Page /\ Lent(r, r.page) /\ InLine(r, O)
        /\ r.call \in {"map", "flush"}
    BY DEF CallOK, Aimed, Lent
  <1>1. \A o \in O : k.page[o.b] = o.page /\ o.page \in Page /\ k.state[o.b] # "free" /\ o.b \in Block
    <2>1. Knows(t, k, O, {}, CallOf(t, r))
      BY MidKnows
    <2> QED
      BY <2>1 DEF Knows, Owns, StateOf
  <1>2. /\ Mid(t, n, {}, {}, CallOf(t, r)) /\ n.page = k.page
        /\ \A x \in Block : k.state[x] # "free" => n.state[x] # "free"
    <2>1. \A o \in O : Depth[k.page[found]] < Depth[o.page]
      BY <1>0 DEF InLine
    <2>2. k.page[found] \in Page
      BY <1>0
    <2>3. Mid(t, n, {}, {}, CallOf(t, r)) /\ LinkedAs(k, n)
      BY <1>0, <2>1, <2>2, MidLinked
    <2> QED
      BY <2>3 DEF LinkedAs
  <1> HIDE DEF n
  <1>3. Target(r, n, b)
    <2>1. CASE r.queue = <<>>
      BY <2>1, <1>0, <1>2 DEF Target, Aimed
    <2>2. CASE r.queue # <<>>
      <3>1. r.queue \in Seq(Block)
        BY <1>0 DEF InLine
      <3>2. b = r.queue[Len(r.queue)] /\ Len(r.queue) \in DOMAIN r.queue
        BY <2>2, <3>1
      <3>3. b \in Range(r.queue)
        BY <3>2 DEF Range
      <3>4. PICK o \in O : o.b = b
        BY <3>3, <1>0 DEF InLine
      <3> HIDE DEF b
      <3>5. b \in Block /\ n.state[b] # "free" /\ n.page[b] = o.page /\ n.page[b] \in Page
        BY <3>4, <1>1, <1>2
      <3>6. Lent(r, n.page[b])
        BY <3>4, <3>5, <1>0 DEF InLine
      <3> QED
        BY <3>4, <3>5, <3>6 DEF Target, Aimed
    <2> QED
      BY <2>1, <2>2
  <1>4. b \in Block /\ Lent(r, n.page[b]) /\ n.page[b] \in Page /\ n.state[b] # "free"
    BY <1>3 DEF Target
  <1> HIDE DEF b
  <1>5. Typed(n) /\ Ranked(n)
    BY <1>2, MidKnows DEF Knows
  <1>6. own \in Block /\ (own # Root(n, b) => n.parent[own] # None /\ Settled(n, own))
    BY <1>4, <1>5, OwnBlockIs
  <1> HIDE DEF own
  <1>7. Mid(t, c, {}, {}, CallOf(t, r)) /\ Calm(n, c) /\ c.parent = n.parent
    BY <1>2, MidCleared
  <1> HIDE DEF c
  <1>8. CASE Obtained(t, n, r, b)
    BY <1>2, <1>3, <1>8, ObtainedKeeps
  <1>9. CASE Ends(t, c, r)
    BY <1>7, <1>9, EndsKeeps
  <1>10. CASE GoesOn(t, c, z)
    <2>1. /\ SameCall(r, z, {"at", "page", "d", "tries", "queue", "b", "s"})
          /\ z.at = "prepare" /\ z.page = n.page[b] /\ z.d = DomainOfPage(n.page[b])
          /\ z.queue = <<>>
      BY <1>0 DEF Searching, SameCall, ThreadFields
    <2> HIDE DEF z
    <2>2. InLine(z, {})
      BY <2>1, NoneInLine
    <2>3. r.call = "flush" =>
           /\ r.kept \in [b : Block, page : Page]
           /\ Depth[n.page[b]] < Depth[r.kept.page]
           /\ \A o \in {} : Depth[o.page] < Depth[r.kept.page]
      BY <1>3 DEF Target
    <2> QED
      BY <1>0, <1>4, <1>7, <1>10, <2>1, <2>2, <2>3, SearchingKeeps
  <1>11. CASE own # Root(n, b) /\ c.pool # {} /\ Obtained(t, Copied(c, own), r, b)
    <2> DEFINE u == Copied(c, own)
    <2>1. Settled(c, own) /\ c.parent[own] # None /\ c.page = n.page /\ c.state[b] # "free"
      BY <1>4, <1>5, <1>6, <1>7, <1>11, CalmIs
    <2>2. Mid(t, u, {}, {}, CallOf(t, r))
      BY <1>6, <1>7, <1>11, <2>1, MidCopied
    <2>3. Typed(c) /\ IsTable(c)
      BY <1>7, MidKnows DEF Knows, Typed
    <2>4. SameBut(c, u, {"phys", "pool", "pages", "parent", "state", "newer"})
          /\ u.state = [c.state EXCEPT ![own] = "modified"]
      BY <2>3, CopiedIs
    <2> HIDE DEF u
    <2>5. u.page = n.page /\ u.state[b] # "free"
      BY <1>4, <2>1, <2>3, <2>4 DEF SameBut, Fields, Typed
    <2>6. Target(r, u, b)
      BY <1>3, <2>5 DEF Target
    <2> QED
      BY <1>11, <2>2, <2>6, ObtainedKeeps DEF u
  <1> QED
    BY <1>8, <1>9, <1>10, <1>11 DEF Linking, n, b, own, c

-----------------------------------------------------------------------------
(* The actions.                                                            *)
LEMMA PlaceIs ==
  ASSUME NEW t, NEW r, NEW O, NEW S, NEW U, ThreadOK(t, r, O, S, U)
  PROVE  /\ CallOK(r)
         /\ r = Idle => O = {} /\ S = {} /\ U = {}
         /\ r.at = "prepare" => AtPrepare(t, r, O, S, U)
         /\ r.at \in {"search", "waited"} => AtSearch(t, r, O, S, U)
         /\ r.at = "reading" => AtReading(t, r, O, S, U)
         /\ r.at = "loop" => AtLoop(t, r, O, S, U)
         /\ r.at = "writing" => AtWriting(t, r, O, S, U)
         /\ r.at = "flushed" => AtFlushed(t, r, O, S, U)
         /\ r.at = "control" => AtControl(t, r, O, S, U)
         /\ r.at = "device" => AtDevice(t, r, O, S, U)
  <1>1. Idle.at = "idle"
    BY DEF Idle
  <1> QED
    BY <1>1 DEF ThreadOK, AtIdle, AtPrepare, AtSearch, AtReading, AtLoop, AtWriting, AtFlushed,
                AtControl, AtDevice

(* The record with its tries at zero                                       *)
LEMMA TriesZero ==
  ASSUME NEW t, NEW r, NEW x, CallOK(r), x = [r EXCEPT !.tries = 0]
  PROVE  /\ CallOK(x) /\ CallOf(t, x) = CallOf(t, r) /\ SameCall(r, x, Elsewhere)
         /\ x.preparing = r.preparing /\ x.at = r.at /\ x.b = r.b /\ x.s = r.s /\ x.mode = r.mode
         /\ x.update = r.update
         /\ x.call = r.call /\ x.w = r.w /\ x.d = r.d /\ x.counted = r.counted
         /\ x.page = r.page /\ x.queue = r.queue /\ x.kept = r.kept
  <1>1. DOMAIN r = ThreadFields /\ r.preparing \in BOOLEAN
    BY DEF CallOK
  <1>2. /\ SameCall(r, x, Elsewhere \ {"mode", "update"})
        /\ x.preparing = r.preparing /\ x.at = r.at /\ x.b = r.b /\ x.s = r.s /\ x.mode = r.mode
        /\ x.update = r.update
        /\ x.call = r.call /\ x.w = r.w /\ x.d = r.d /\ x.counted = r.counted
        /\ x.page = r.page /\ x.queue = r.queue /\ x.kept = r.kept
    BY <1>1 DEF SameCall, ThreadFields, Elsewhere
  <1>3. x.preparing \in BOOLEAN
    BY <1>1, <1>2
  <1>4. SameCall(r, x, Elsewhere \ {"mode", "update"})
    BY <1>2
  <1>5. CallOK(x) /\ CallOf(t, x) = CallOf(t, r) /\ SameCall(r, x, Elsewhere)
    BY <1>3, <1>4, SameCallOf
  <1> QED
    BY <1>2, <1>5

LEMMA PrepareFailsKeeps ==
  ASSUME IInv, NEW t \in Thread, PrepareFails(t)
  PROVE  IInv'
  <1>1. PICK O, S, U : Mid(t, m, O, S, U) /\ ThreadOK(t, th[t], O, S, U)
    BY MidBegins
  <1>2. AtPrepare(t, th[t], O, S, U) /\ CallOK(th[t])
    BY <1>1, PlaceIs DEF PrepareFails, At
  <1>3. S = {} /\ U = CallOf(t, th[t]) /\ Preparing(th[t], O)
    BY <1>2 DEF AtPrepare
  <1> QED
    BY <1>1, <1>2, <1>3, PreparedKeeps DEF PrepareFails

LEMMA PrepareKeeps ==
  ASSUME IInv, NEW t \in Thread, Prepare(t)
  PROVE  IInv'
  <1> DEFINE r == th[t]
             flush == Mode(FALSE, ShouldPrepareFree(m, r.d), FALSE)
             x(b) == [r EXCEPT !.b = b, !.preparing = TRUE, !.flush = flush]
             y == [r EXCEPT !.tries = @ + 1]
  <1>1. PICK O, S, U : Mid(t, m, O, S, U) /\ ThreadOK(t, r, O, S, U)
    BY MidBegins
  <1>2. AtPrepare(t, r, O, S, U) /\ CallOK(r)
    BY <1>1, PlaceIs DEF Prepare, At
  <1>3. S = {} /\ U = CallOf(t, r) /\ Preparing(r, O) /\ r.at = "prepare" /\ ~r.preparing
    BY <1>2 DEF AtPrepare
  <1>4. DOMAIN r = ThreadFields /\ r.preparing \in BOOLEAN
    BY <1>2 DEF CallOK
  <1>5. ASSUME NEW b \in Ring(m, r.d), FlushBlock(t, m, x(b))
        PROVE  IInv'
    <2> DEFINE k == x(b)
    <2>0. flush.onto = None
      BY DEF Mode
    <2> HIDE DEF r, flush
    <2>1. /\ SameCall(r, k, Elsewhere \ {"mode", "update"})
          /\ k.preparing = TRUE /\ k.b = b /\ k.flush = flush
      BY <1>4 DEF SameCall, ThreadFields, Elsewhere
    <2> HIDE DEF x
    <2>2. CallOK(k) /\ CallOf(t, k) = CallOf(t, r) /\ SameCall(r, k, Elsewhere)
      BY <1>2, <2>1, SameCallOf
    <2>3. Working(k, O)
      BY <1>3, <2>1, <2>2, SameAim
    <2>4. b \in Block
      BY DEF Ring
    <2>5. Onto(m, k)
      BY <2>0, <2>1 DEF Onto
    <2> QED
      BY <1>1, <1>3, <1>5, <2>1, <2>2, <2>3, <2>4, <2>5, FlushBlockKeeps
  <1>6. CASE GoesOn(t, m, y)
    <2> HIDE DEF r
    <2>1. /\ SameCall(r, y, Elsewhere \ {"mode", "update"})
          /\ y.preparing = r.preparing /\ y.at = r.at
      BY <1>4 DEF SameCall, ThreadFields, Elsewhere
    <2>s. Step(t, m, y)
      BY <1>6 DEF GoesOn, Step
    <2> HIDE DEF y
    <2>2. CallOK(y) /\ CallOf(t, y) = CallOf(t, r) /\ SameCall(r, y, Elsewhere)
      BY <1>2, <1>4, <2>1, SameCallOf
    <2>3. Preparing(y, O)
      BY <1>3, <2>2, SameAim
    <2>4. ThreadOK(t, y, O, S, U)
      BY <1>3, <2>1, <2>2, <2>3 DEF ThreadOK, AtPrepare
    <2> QED
      BY <1>1, <2>s, <2>4, MidEnds
  <1>7. CASE Leaves(t, Waits(m, t, Memory), r)
    <2>1. Mid(t, Waits(m, t, Memory), O, S, U)
      BY <1>1, MidWaits
    <2>2. Step(t, Waits(m, t, Memory), r)
      BY <1>7 DEF Leaves, Step
    <2> QED
      BY <1>1, <2>1, <2>2, MidEnds
  <1> QED
    BY <1>5, <1>6, <1>7 DEF Prepare

LEMMA LoopKeeps ==
  ASSUME IInv, NEW t \in Thread, Loop(t)
  PROVE  IInv'
  <1> DEFINE k == th[t]
             r == [k EXCEPT !.tries = 0]
             ring == IF r.call = "sweep" THEN Ring(m, r.d) ELSE BlocksOf(m, r.w)
             to(b) == IF r.update /\ m.parent[b] = None THEN UpdateOf[m.page[b]] ELSE None
             x(b) == [r EXCEPT !.b = b, !.flush = r.mode]
             z(b) == [r EXCEPT !.kept = [b |-> b, page |-> m.page[b]]]
  <1>1. PICK O, S, U : Mid(t, m, O, S, U) /\ ThreadOK(t, k, O, S, U)
    BY MidBegins
  <1>2. /\ CallOK(k) /\ ~k.preparing /\ k.call \in {"flush", "close", "sweep"}
        /\ k.queue = <<>> /\ O = {} /\ S = {} /\ U = CallOf(t, k)
    <2>1. CASE k.at = "loop"
      BY <1>1, <2>1, PlaceIs DEF AtLoop, Empty
    <2>2. CASE k.at = "prepare" /\ Follows(k) = "loop"
      <3>1. AtPrepare(t, k, O, S, U) /\ CallOK(k)
        BY <1>1, <2>2, PlaceIs
      <3>2. k.call = "sweep"
        BY <2>2, <3>1 DEF Follows, AtPrepare, Preparing, Aimed
      <3> QED
        BY <3>1, <3>2 DEF AtPrepare, Preparing, Aimed, Empty
    <2> QED
      BY <2>1, <2>2 DEF Loop, Ready, At
  <1> HIDE DEF k
  <1>3. /\ CallOK(r) /\ CallOf(t, r) = CallOf(t, k) /\ ~r.preparing
        /\ r.call \in {"flush", "close", "sweep"} /\ r.queue = <<>> /\ r.call = k.call
    BY <1>2, TriesZero
  <1>4. DOMAIN r = ThreadFields /\ r.preparing \in BOOLEAN /\ r.mode \in Modes
        /\ (r.update => r.call = "flush")
    BY <1>3 DEF CallOK
  <1>q. /\ ring = {} /\ FlushEnds(t, m, r)
        \/ \E b \in ring : \/ FlushBlock(t, m, x(b))
                           \/ to(b) # None /\ GoesOn(t, m, Searching(z(b), to(b)))
    BY DEF Loop, k
  <1> HIDE DEF r
  <1>5. CASE FlushEnds(t, m, r)
    BY <1>1, <1>2, <1>3, <1>5, FlushEndsKeeps
  <1>6. ASSUME NEW b \in ring, FlushBlock(t, m, x(b))
        PROVE  IInv'
    <2> DEFINE y == x(b)
    <2>1. /\ SameCall(r, y, Elsewhere \ {"mode", "update"})
          /\ y.preparing = r.preparing /\ y.b = b /\ y.flush = r.mode
      BY <1>4 DEF SameCall, ThreadFields, Elsewhere
    <2> HIDE DEF x
    <2>2. CallOK(y) /\ CallOf(t, y) = CallOf(t, r) /\ SameCall(r, y, Elsewhere)
      <3>1. y.preparing \in BOOLEAN
        BY <1>4, <2>1
      <3>2. CallOK(r) /\ SameCall(r, y, Elsewhere \ {"mode", "update"})
        BY <1>3, <2>1
      <3> HIDE DEF y
      <3> QED
        BY <3>1, <3>2, SameCallOf
    <2>3. Working(r, {})
      BY <1>3 DEF Working, Empty
    <2>4. Working(y, {})
      BY <2>1, <2>2, <2>3, SameAim
    <2>5. b \in Block
      BY DEF Ring, BlocksOf
    <2>6. Onto(m, y)
      BY <1>4, <2>1, ModesAre DEF Onto
    <2> QED
      BY <1>1, <1>2, <1>3, <1>6, <2>1, <2>2, <2>4, <2>5, <2>6, FlushBlockKeeps
  <1>7. ASSUME NEW b \in ring, to(b) # None, GoesOn(t, m, Searching(z(b), to(b)))
        PROVE  IInv'
    <2> DEFINE p == to(b)
               x1 == z(b)
               x2 == Searching(x1, p)
    <2>1. r.update /\ r.call = "flush" /\ p = UpdateOf[m.page[b]] /\ p # None
      BY <1>4, <1>7
    <2>2. b \in Block /\ m.state[b] # "free" /\ WindowOf[m.page[b]] = r.w
      BY <2>1 DEF BlocksOf
    <2>3. Knows(t, m, O, S, U)
      BY <1>1, MidKnows
    <2>4. m.page[b] \in Page
      BY <2>2, <2>3 DEF Knows, Live, InUse
    <2>5. p \in Page /\ p \in Sources(m.page[b])
      BY <2>1, <2>4, CallsAssumption DEF Sources
    <2>6. Depth[p] < Depth[m.page[b]]
      BY <2>4, <2>5, DepthIs
    <2>w. WindowOf[p] \in Window
      BY <2>5, TableAssumption
    <2>7. Lent(r, p)
      BY <2>2, <2>4, <2>5, <2>w DEF Lent, Lending
    <2> HIDE DEF to, p
    <2>8. /\ SameCall(r, x1, ThreadFields \ {"call", "w", "counted", "mode", "update"})
          /\ x1.preparing = r.preparing /\ x1.call = r.call /\ x1.queue = r.queue
          /\ x1.kept = [b |-> b, page |-> m.page[b]] /\ DOMAIN x1 = ThreadFields
          /\ x1.w = r.w
      BY <1>4 DEF SameCall, ThreadFields
    <2> HIDE DEF x1
    <2>9. CallOK(x1) /\ CallOf(t, x1) = CallOf(t, r)
      BY <1>3, <1>4, <2>1, <2>8, SameCallOK
    <2>10. /\ SameCall(x1, x2, {"at", "page", "d", "tries", "queue", "b", "s"})
           /\ x2.at = "prepare" /\ x2.page = p /\ x2.d = DomainOfPage(p) /\ x2.queue = <<>>
      BY <1>3, <2>8 DEF Searching, SameCall, ThreadFields
    <2>11. GoesOn(t, m, x2)
      BY <1>7 DEF x1, p
    <2> HIDE DEF x2
    <2>12. InLine(x2, {})
      BY <2>10, NoneInLine
    <2>13. /\ x1.kept \in [b : Block, page : Page]
           /\ Depth[p] < Depth[x1.kept.page]
           /\ \A o \in {} : Depth[o.page] < Depth[x1.kept.page]
      BY <2>2, <2>4, <2>6, <2>8
    <2>14. Lent(x1, p) /\ ~x1.preparing /\ x1.call \in {"map", "flush"}
      BY <1>3, <2>1, <2>7, <2>8 DEF Lent
    <2>15. Mid(t, m, {}, {}, CallOf(t, x1))
      BY <1>1, <1>2, <1>3, <2>9
    <2> QED
      BY <2>9, <2>10, <2>11, <2>12, <2>13, <2>14, <2>15, SearchingKeeps
  <1> QED
    BY <1>q, <1>5, <1>6, <1>7

LEMMA FlushedKeeps ==
  ASSUME IInv, NEW t \in Thread, Flushed(t)
  PROVE  IInv'
  <1>1. PICK O, S, U : Mid(t, m, O, S, U) /\ ThreadOK(t, th[t], O, S, U)
    BY MidBegins
  <1>2. AtFlushed(t, th[t], O, S, U) /\ CallOK(th[t])
    BY <1>1, PlaceIs DEF Flushed, At
  <1>3. S = {} /\ U = CallOf(t, th[t]) /\ Working(th[t], O)
    BY <1>2 DEF AtFlushed
  <1> QED
    BY <1>1, <1>2, <1>3, FlushReturnsKeeps DEF Flushed

(* The block with the stack of the file system goes back.                  *)
LEMMA MidStackGivenBack ==
  ASSUME NEW t, NEW n, NEW r, NEW w, NEW O, NEW S, NEW U, Mid(t, n, O, S, U),
         S = {StackOf(t, r.s, DomainOf[w])}, U = CallOf(t, r) \cup {User(t, w, "device")}
  PROVE  Mid(t, StackGivenBack(n, r, w), O, {}, CallOf(t, r))
  <1> DEFINE d == DomainOf[w]
             g == GivenBack(n, Stack(r.s, d))
             e == User(t, w, "device")
  <1>1. Mid(t, g, O, {}, U)
    BY MidStackBack
  <1>2. e \in U /\ e.w = w /\ U \ {e} = CallOf(t, r)
    BY DEF CallOf, User
  <1> HIDE DEF g, e
  <1>3. Mid(t, Counted(g, e.w, -1), O, {}, U \ {e})
    BY <1>1, <1>2, MidUncounted
  <1> QED
    BY <1>2, <1>3 DEF StackGivenBack, g

LEMMA WroteKeeps ==
  ASSUME IInv, NEW t \in Thread, NEW ok \in BOOLEAN, Wrote(t, ok)
  PROVE  IInv'
  <1> DEFINE r == th[t]
             w == WindowOf[m.page[r.b]]
             a == StackGivenBack(m, r, w)
             to == IF ok THEN "not modified" ELSE "modified"
             c == [a EXCEPT !.state[r.b] = IF ok THEN "not modified" ELSE "modified",
                            !.newer = IF ok THEN @ ELSE @ \cup {m.phys[r.b]}]
             n == Woken(c, {r.b})
             l == IF ok THEN FreedIfAsked(n, r) ELSE n
             k == [r EXCEPT !.s = None]
  <1>1. PICK O, S, U : Mid(t, m, O, S, U) /\ ThreadOK(t, r, O, S, U)
    BY MidBegins
  <1>2. AtWriting(t, r, O, S, U) /\ CallOK(r)
    BY <1>1, PlaceIs DEF Wrote, At
  <1>a. PICK Q : \E p \in Page :
          /\ Working(r, Q) /\ O = Q \cup {Own(t, r.b, "writer", p)}
          /\ S = {StackOf(t, r.s, DomainOfPage(p))}
          /\ U = CallOf(t, r) \cup {User(t, WindowOf[p], "device")}
    BY <1>2 DEF AtWriting
  <1>3. PICK p \in Page :
          /\ Working(r, Q) /\ O = Q \cup {Own(t, r.b, "writer", p)}
          /\ S = {StackOf(t, r.s, DomainOfPage(p))}
          /\ U = CallOf(t, r) \cup {User(t, WindowOf[p], "device")}
    BY <1>a
  <1> DEFINE e == Own(t, r.b, "writer", p)
  <1>q. FlushReturns(t, l, k, ok)
    BY DEF Wrote
  <1> HIDE DEF r
  <1>4. e \in O /\ e.b = r.b /\ e.page = p /\ e.as = "writer"
    BY <1>3 DEF Own
  <1> HIDE DEF e
  <1>5. r.b \in Block /\ m.page[r.b] = p
    BY <1>1, <1>4, MidKnows DEF Knows, Owns
  <1>6. w = WindowOf[p] /\ DomainOf[w] = DomainOfPage(p)
    BY <1>5 DEF DomainOfPage
  <1> HIDE DEF w
  <1>7. Mid(t, a, O, {}, CallOf(t, r))
    BY <1>1, <1>3, <1>6, MidStackGivenBack
  <1> HIDE DEF a
  <1>8. IsTable(a) /\ DOMAIN a.state = Block
    BY <1>7, MidKnows DEF Knows, Typed
  <1>9. /\ SameBut(a, c, {"state", "newer"})
        /\ c.state = [a.state EXCEPT ![r.b] = to]
    BY <1>8 DEF IsTable, SameBut, Fields
  <1> HIDE DEF c
  <1>10. IsTable(c) /\ c.waiting = a.waiting
    BY <1>9 DEF SameBut, Fields
  <1>11. /\ SameBut(c, n, {"waiting"})
         /\ n.waiting = [u \in Thread |-> IF a.waiting[u] \in {r.b} THEN None ELSE a.waiting[u]]
    BY <1>10, WokenIs
  <1> HIDE DEF n
  <1>12. SameBut(a, n, Loose \cup {"state", "waiting"}) /\ n.state = [a.state EXCEPT ![r.b] = to]
    BY <1>9, <1>11 DEF SameBut, Loose, Fields
  <1>13. to \in {"not modified", "modified"}
    OBVIOUS
  <1> HIDE DEF to
  <1>14. Mid(t, n, O \ {e}, {}, CallOf(t, r))
    <2>1. WrittenAs(a, n, r.b, to)
      BY <1>11, <1>12 DEF WrittenAs
    <2>2. WrittenAs(a, n, e.b, to)
      BY <1>4, <2>1
    <2> QED
      BY <1>4, <1>7, <1>13, <2>2, MidWritten
  <1>15. O \ {e} = Q
    BY <1>3, <1>4, WorkingQueue DEF e
  <1>16. Mid(t, n, Q, {}, CallOf(t, r))
    BY <1>14, <1>15
  <1>17. Mid(t, l, Q, {}, CallOf(t, r))
    BY <1>5, <1>16, MidFreedIfAsked
  <1> HIDE DEF l
  <1>18. DOMAIN r = ThreadFields /\ r.preparing \in BOOLEAN
    BY <1>2 DEF CallOK
  <1>19. SameCall(r, k, Elsewhere \ {"mode", "update"}) /\ k.preparing = r.preparing
    BY <1>18 DEF SameCall, ThreadFields, Elsewhere
  <1> HIDE DEF k
  <1>20. CallOK(k) /\ CallOf(t, k) = CallOf(t, r) /\ SameCall(r, k, Elsewhere)
    BY <1>2, <1>18, <1>19, SameCallOf
  <1>21. Working(k, Q)
    BY <1>3, <1>19, <1>20, SameAim
  <1> QED
    BY <1>17, <1>20, <1>21, <1>q, FlushReturnsKeeps

LEMMA SearchReady ==
  ASSUME NEW t, NEW O, NEW S, NEW U, ThreadOK(t, th[t], O, S, U), Ready(t, "search")
  PROVE  /\ CallOK(th[t]) /\ ~th[t].preparing /\ Aimed(th[t], O)
         /\ S = {} /\ U = CallOf(t, th[t])
  <1> DEFINE r == th[t]
  <1>1. CASE r.at = "search"
    BY <1>1, PlaceIs DEF AtSearch
  <1>2. CASE r.at = "prepare" /\ Follows(r) = "search"
    <2>1. AtPrepare(t, r, O, S, U) /\ CallOK(r)
      BY <1>2, PlaceIs
    <2>2. r.call # "sweep" /\ r.call # "control"
      BY <1>2 DEF Follows
    <2> QED
      BY <2>1, <2>2 DEF AtPrepare, Preparing
  <1> QED
    BY <1>1, <1>2 DEF Ready, At

LEMMA SearchFailsKeeps ==
  ASSUME NEW t, NEW n, NEW r, NEW O, Mid(t, n, O, {}, CallOf(t, r)), CallOK(r),
         Aimed(r, O), SearchFails(t, n, r)
  PROVE  IInv'
  <1>1. Queued(r.queue, O)
    BY DEF Aimed, InLine, Queued
  <1> QED
    BY <1>1, FailsKeeps DEF SearchFails

LEMMA SearchFindsKeeps ==
  ASSUME IInv, NEW t \in Thread, SearchFinds(t)
  PROVE  IInv'
  <1> DEFINE k == th[t]
             r == [k EXCEPT !.tries = 0]
  <1>1. PICK O, S, U : Mid(t, m, O, S, U) /\ ThreadOK(t, k, O, S, U)
    BY MidBegins
  <1>2. CallOK(k) /\ ~k.preparing /\ Aimed(k, O) /\ S = {} /\ U = CallOf(t, k)
    BY <1>1, SearchReady DEF SearchFinds
  <1>q. \E b \in Found(m, r.page) :
          LET busy == {y \in Above(m, b) : Busy(m, y)}
              x == First(m, busy)
          IN  \/ Linking(t, m, r, b)
              \/ SearchFails(t, m, r)
              \/ /\ busy # {}
                 /\ Leaves(t, Waits(m, t, x), [r EXCEPT !.at = "waited", !.b = WindowOf[m.page[x]]])
    BY DEF SearchFinds
  <1> HIDE DEF k
  <1>3. /\ CallOK(r) /\ CallOf(t, r) = CallOf(t, k) /\ SameCall(k, r, Elsewhere)
        /\ r.preparing = k.preparing
    BY <1>2, TriesZero
  <1> HIDE DEF r
  <1>4. Aimed(r, O) /\ ~r.preparing
    BY <1>2, <1>3, SameAim
  <1>5. Mid(t, m, O, {}, CallOf(t, r))
    BY <1>1, <1>2, <1>3
  <1>6. PICK b \in Found(m, r.page) :
          LET busy == {y \in Above(m, b) : Busy(m, y)}
              x == First(m, busy)
          IN  \/ Linking(t, m, r, b)
              \/ SearchFails(t, m, r)
              \/ /\ busy # {}
                 /\ Leaves(t, Waits(m, t, x), [r EXCEPT !.at = "waited", !.b = WindowOf[m.page[x]]])
    BY <1>q
  <1>7. b \in Block /\ m.state[b] # "free" /\ m.page[b] = r.page
    BY DEF Found
  <1> DEFINE busy == {y \in Above(m, b) : Busy(m, y)}
             x == First(m, busy)
             z == [r EXCEPT !.at = "waited", !.b = WindowOf[m.page[x]]]
  <1>8. CASE Linking(t, m, r, b)
    BY <1>3, <1>4, <1>5, <1>7, <1>8, LinkingKeeps
  <1>9. CASE SearchFails(t, m, r)
    BY <1>3, <1>4, <1>5, <1>9, SearchFailsKeeps
  <1>10. CASE busy # {} /\ Leaves(t, Waits(m, t, x), z)
    <2>1. Ranked(m)
      BY <1>1, MidKnows DEF Knows
    <2>2. busy \subseteq Above(m, b) /\ \A y \in busy : Busy(m, y)
      OBVIOUS
    <2> HIDE DEF busy
    <2>3. x \in busy
      BY <1>7, <1>10, <2>1, <2>2, FirstIs
    <2>4. x \in Block /\ Busy(m, x)
      BY <1>7, <2>1, <2>2, <2>3, AboveClosed
    <2>5. Mid(t, Waits(m, t, x), O, {}, CallOf(t, r))
      BY <1>5, <2>4, MidWaits
    <2> HIDE DEF x
    <2>6. DOMAIN r = ThreadFields /\ r.preparing \in BOOLEAN
      BY <1>3 DEF CallOK
    <2>7. /\ SameCall(r, z, Elsewhere \ {"mode", "update"})
          /\ z.at = "waited" /\ z.preparing = r.preparing
      BY <2>6 DEF SameCall, ThreadFields, Elsewhere
    <2>8. Step(t, Waits(m, t, x), z)
      BY <1>10 DEF Leaves, Step
    <2> HIDE DEF z
    <2>9. CallOK(z) /\ CallOf(t, z) = CallOf(t, r) /\ SameCall(r, z, Elsewhere)
      BY <1>3, <2>6, <2>7, SameCallOf
    <2>10. Aimed(z, O)
      BY <1>4, <2>9, SameAim
    <2>11. ThreadOK(t, z, O, {}, CallOf(t, r))
      BY <1>4, <2>7, <2>9, <2>10 DEF ThreadOK, AtSearch
    <2> QED
      BY <2>5, <2>8, <2>11, MidEnds
  <1> QED
    BY <1>6, <1>8, <1>9, <1>10

LEMMA WaitedKeeps ==
  ASSUME IInv, NEW t \in Thread, Waited(t)
  PROVE  IInv'
  <1> DEFINE r == th[t]
             x == [Searching(r, r.page) EXCEPT !.b = None]
  <1>1. PICK O, S, U : Mid(t, m, O, S, U) /\ ThreadOK(t, r, O, S, U)
    BY MidBegins
  <1>2. AtSearch(t, r, O, S, U) /\ CallOK(r)
    BY <1>1, PlaceIs DEF Waited, At
  <1>3. Aimed(r, O) /\ ~r.preparing /\ S = {} /\ U = CallOf(t, r)
    BY <1>2 DEF AtSearch
  <1>q. SearchFails(t, m, r) \/ GoesOn(t, m, x)
    BY DEF Waited
  <1> HIDE DEF r
  <1>4. CASE SearchFails(t, m, r)
    BY <1>1, <1>2, <1>3, <1>4, SearchFailsKeeps
  <1>5. CASE GoesOn(t, m, x)
    <2>1. DOMAIN r = ThreadFields
      BY <1>2 DEF CallOK
    <2>2. /\ SameCall(r, x, {"at", "page", "d", "tries", "queue", "b", "s"})
          /\ x.at = "prepare" /\ x.page = r.page /\ x.d = DomainOfPage(r.page)
          /\ x.queue = r.queue /\ x.w = r.w
      BY <2>1 DEF Searching, SameCall, ThreadFields
    <2> HIDE DEF x
    <2>3. InLine(r, O) /\ Lent(r, r.page) /\ r.call \in {"map", "flush"}
      BY <1>3 DEF Aimed
    <2>4. InLine(x, O)
      BY <2>2, <2>3 DEF InLine, Lent
    <2>5. r.call = "flush" =>
           /\ r.kept \in [b : Block, page : Page]
           /\ Depth[r.page] < Depth[r.kept.page]
           /\ \A o \in O : Depth[o.page] < Depth[r.kept.page]
      BY <1>3 DEF Aimed
    <2> QED
      BY <1>1, <1>2, <1>3, <1>5, <2>2, <2>3, <2>4, <2>5, SearchingKeeps
  <1> QED
    BY <1>q, <1>4, <1>5

(* The window of a search is open: the call is counted in it, or it lends. *)
LEMMA TargetOpen ==
  ASSUME NEW t, NEW n, NEW r, NEW O, NEW S, NEW U, NEW Q, Mid(t, n, O, S, U), CallOK(r),
         Aimed(r, Q), CallOf(t, r) \subseteq U
  PROVE  /\ r.page \in Page /\ WindowOf[r.page] \in n.open /\ WindowOf[r.page] \in Window
         /\ r.d \in Domain /\ r.d = DomainOfPage(r.page) /\ r.d = DomainOf[WindowOf[r.page]]
  <1> DEFINE e == User(t, r.w, "call")
  <1>1. r.page \in Page /\ WindowOf[r.page] \in Lending \cup {r.w} /\ r.d = DomainOfPage(r.page)
        /\ r.call \in {"map", "flush"}
    BY DEF Aimed, Lent
  <1>2. r.counted
    BY <1>1 DEF CallOK
  <1>3. e \in U /\ e.w = r.w /\ e.kind = "call"
    BY <1>1, <1>2 DEF CallOf, User
  <1> HIDE DEF e
  <1>4. Knows(t, n, O, S, U)
    BY MidKnows
  <1>5. e.w \in n.open /\ Lending \subseteq n.open
    BY <1>3, <1>4 DEF Knows
  <1>6. WindowOf[r.page] \in Window /\ DomainOf[WindowOf[r.page]] \in Domain
    BY <1>1, TableAssumption
  <1> QED
    BY <1>1, <1>3, <1>5, <1>6 DEF DomainOfPage

LEMMA SearchReadsKeeps ==
  ASSUME IInv, NEW t \in Thread, SearchReads(t)
  PROVE  IInv'
  <1> DEFINE r0 == th[t]
             r == [r0 EXCEPT !.tries = 0]
             p == r.page
             w == WindowOf[p]
             b == NextBlock(m, p)
             n == MountedReading(m, p)
             a == [n EXCEPT !.lock[b] = @ + 1]
             s == NextStack(n)
             k == Got(a, s, r.d)
             l == Counted(k, w, 1)
             z == [r EXCEPT !.at = "reading", !.b = b, !.s = s]
             e == Own(t, b, "queued", p)
             f == Own(t, b, "reader", p)
  <1>1. PICK O, S, U : Mid(t, m, O, S, U) /\ ThreadOK(t, r0, O, S, U)
    BY MidBegins
  <1>2. CallOK(r0) /\ ~r0.preparing /\ Aimed(r0, O) /\ S = {} /\ U = CallOf(t, r0)
    BY <1>1, SearchReady DEF SearchReads
  <1>q. /\ Found(m, p) = {}
        /\ \/ SearchFails(t, NotGot(m), r)
           \/ CanGet(m) /\ SearchFails(t, Freed(UnmountedReading(NotGot(n), {b}), {b}), r)
           \/ CanGet(m) /\ CanGet(n) /\ Leaves(t, l, z)
    BY DEF SearchReads
  <1> HIDE DEF r0
  <1>3. /\ CallOK(r) /\ CallOf(t, r) = CallOf(t, r0) /\ SameCall(r0, r, Elsewhere)
        /\ r.preparing = r0.preparing
    BY <1>2, TriesZero
  <1> HIDE DEF r
  <1>4. Aimed(r, O) /\ ~r.preparing
    BY <1>2, <1>3, SameAim
  <1>5. Mid(t, m, O, {}, CallOf(t, r))
    BY <1>1, <1>2, <1>3
  <1>6. /\ p \in Page /\ w \in m.open /\ w \in Window
        /\ r.d \in Domain /\ r.d = DomainOfPage(p) /\ r.d = DomainOf[w]
    BY <1>3, <1>4, <1>5, TargetOpen
  <1>7. ASSUME CanGet(m)
        PROVE  /\ Mid(t, n, O \cup {e}, {}, CallOf(t, r)) /\ b \in Block
               /\ n.state[b] = "reading" /\ n.open = m.open
    <2>1. Mid(t, n, O \cup {e}, {}, CallOf(t, r))
      BY <1>5, <1>6, <1>7, <1>q, MidMountedReading
    <2>2. Typed(m)
      BY <1>1, MidKnows DEF Knows
    <2>3. b \in Block
      BY <1>7, <2>2, ChosenBlocks DEF Typed, CanGet
    <2> DEFINE fields == {"phys", "pool", "pages", "free", "parent", "private", "blocks", "state",
                          "page", "lock"}
    <2>4. SameBut(m, n, fields) /\ n.state = [m.state EXCEPT ![b] = "reading"]
      BY <2>2, <2>3, MountedReadingIs DEF Typed
    <2> HIDE DEF n
    <2>5. n.open = m.open
      BY <2>4 DEF SameBut, Fields
    <2> QED
      BY <2>1, <2>2, <2>3, <2>4, <2>5 DEF Typed
  <1>8. e \notin O /\ f \notin O
    <2>1. Depth[p] \in Nat
      BY <1>6, DepthIs
    <2> QED
      BY <1>4, <2>1 DEF Aimed, InLine, Own
  <1>9. CASE SearchFails(t, NotGot(m), r)
    BY <1>3, <1>4, <1>5, <1>9, MidNotGot, SearchFailsKeeps
  <1>10. CASE CanGet(m) /\ SearchFails(t, Freed(UnmountedReading(NotGot(n), {b}), {b}), r)
    <2> DEFINE y == NotGot(n)
               x == UnmountedReading(y, {b})
    <2> HIDE DEF n
    <2>1. Mid(t, y, O \cup {e}, {}, CallOf(t, r))
      BY <1>7, <1>10, MidNotGot
    <2> HIDE DEF y
    <2>2. {e} \subseteq O \cup {e} /\ \A g : g \in {b} <=> \E o \in {e} : o.b = g
      BY DEF Own
    <2> HIDE DEF e
    <2>3. Mid(t, x, (O \cup {e}) \ {e}, {}, CallOf(t, r))
      BY <2>1, <2>2, MidUnmounted
    <2>4. (O \cup {e}) \ {e} = O
      BY <1>8
    <2>5. IsTable(y)
      BY <2>1, MidKnows DEF Knows, Typed
    <2>6. UnmountedAs(y, {b}, x)
      BY <2>5, UnmountedReadingIs
    <2> HIDE DEF x
    <2>7. b \in Block
      BY <1>7, <1>10
    <2> HIDE DEF b
    <2>8. \A g \in {b} : g \in Block /\ Settled(x, g)
      BY <2>6, <2>7 DEF UnmountedAs, Settled
    <2>9. Mid(t, Freed(x, {b}), O, {}, CallOf(t, r))
      BY <2>3, <2>4, <2>8, MidFreed
    <2>10. SearchFails(t, Freed(x, {b}), r)
      BY <1>10 DEF x, y
    <2> QED
      BY <1>3, <1>4, <2>9, <2>10, SearchFailsKeeps
  <1>11. CASE CanGet(m) /\ CanGet(n) /\ Leaves(t, l, z)
    <2>1. /\ Mid(t, n, O \cup {e}, {}, CallOf(t, r)) /\ b \in Block /\ n.open = m.open
      BY <1>7, <1>11
    <2>s. Step(t, l, z)
      BY <1>11 DEF Leaves, Step
    <2>c. CanGet(n)
      BY <1>11
    <2> HIDE DEF n, b
    <2>2. IsTable(n)
      BY <2>1, MidKnows DEF Knows, Typed
    <2>3. SameBut(n, a, {"lock"})
      BY <2>2 DEF IsTable, SameBut, Fields
    <2> HIDE DEF a
    <2>4. e \in O \cup {e} /\ e.b = b /\ e.page = p /\ e.as = "queued"
      BY DEF Own
    <2> HIDE DEF e, w, p
    <2>5. Mid(t, a, ((O \cup {e}) \ {e}) \cup {Own(t, e.b, "reader", e.page)}, {}, CallOf(t, r))
      BY <2>1, <2>3, <2>4, MidMarked
    <2>6. ((O \cup {e}) \ {e}) \cup {Own(t, e.b, "reader", e.page)} = O \cup {f}
      BY <1>8, <2>4
    <2> HIDE DEF f
    <2>7. Mid(t, a, O \cup {f}, {}, CallOf(t, r))
      BY <2>5, <2>6
    <2>8. a.free = n.free /\ a.pool = n.pool /\ a.open = n.open
      BY <2>3 DEF SameBut, Fields
    <2>9. CanGet(a) /\ NextStack(a) = s
      BY <2>8, <2>c DEF CanGet, NextStack
    <2> HIDE DEF s
    <2>10. Mid(t, k, O \cup {f}, {} \cup {StackOf(t, s, r.d)}, CallOf(t, r))
      BY <1>6, <2>7, <2>9, MidGot
    <2> DEFINE T == {StackOf(t, s, r.d)}
    <2>11. {} \cup {StackOf(t, s, r.d)} = T
      OBVIOUS
    <2> HIDE DEF T
    <2>12. Mid(t, k, O \cup {f}, T, CallOf(t, r))
      BY <2>10, <2>11
    <2>13. SameBut(a, k, {"phys", "pool", "pages", "free", "parent", "private", "blocks"})
      <3>1. IsTable(a)
        BY <2>3 DEF SameBut
      <3> QED
        BY <3>1, GotIs
    <2> HIDE DEF k
    <2>14. k.open = m.open
      BY <2>1, <2>8, <2>13 DEF SameBut, Fields
    <2>15. User(t, w, "device") \notin CallOf(t, r)
      BY DEF CallOf, User
    <2>16. Mid(t, l, O \cup {f}, T, CallOf(t, r) \cup {User(t, w, "device")})
      BY <1>6, <2>12, <2>14, <2>15, MidCounted
    <2> HIDE DEF l
    <2>17. DOMAIN r = ThreadFields /\ r.preparing \in BOOLEAN
      BY <1>3 DEF CallOK
    <2>18. /\ SameCall(r, z, Elsewhere \ {"mode", "update"})
           /\ z.at = "reading" /\ z.preparing = r.preparing /\ z.b = b /\ z.s = s
           /\ z.page = r.page
      BY <2>17 DEF SameCall, ThreadFields, Elsewhere
    <2> HIDE DEF z
    <2>19. CallOK(z) /\ CallOf(t, z) = CallOf(t, r) /\ SameCall(r, z, Elsewhere)
      BY <1>3, <2>17, <2>18, SameCallOf
    <2>20. Aimed(z, O)
      BY <1>4, <2>19, SameAim
    <2>21. f = Own(t, z.b, "reader", z.page) /\ T = {StackOf(t, z.s, DomainOfPage(z.page))}
           /\ w = WindowOf[z.page]
      BY <1>6, <2>18 DEF f, T, w, p
    <2>22. AtReading(t, z, O \cup {f}, T, CallOf(t, r) \cup {User(t, w, "device")})
      BY <1>4, <2>18, <2>19, <2>20, <2>21 DEF AtReading
    <2>23. ThreadOK(t, z, O \cup {f}, T, CallOf(t, r) \cup {User(t, w, "device")})
      BY <2>19, <2>22 DEF ThreadOK
    <2> QED
      BY <2>16, <2>23, <2>s, MidEnds
  <1> QED
    BY <1>q, <1>9, <1>10, <1>11

(* When the file system has answered a reader                              *)
LEMMA MidReadEnds ==
  ASSUME IInv, NEW t \in Thread, At(t, "reading")
  PROVE  \E Q :
    LET e == Own(t, th[t].b, "reader", th[t].page)
    IN  /\ CallOK(th[t]) /\ ~th[t].preparing /\ Aimed(th[t], Q)
        /\ Mid(t, ReadEnds(t), Q \cup {e}, {}, CallOf(t, th[t]))
        /\ e \notin Q
        /\ th[t].b \in Block /\ ReadEnds(t).page[th[t].b] = th[t].page
        /\ ReadEnds(t).state[th[t].b] = "reading"
  <1> DEFINE r == th[t]
             e == Own(t, r.b, "reader", r.page)
             w == WindowOf[r.page]
             a == StackGivenBack(m, r, w)
             n == [a EXCEPT !.lock[r.b] = @ - 1]
  <1>1. PICK O, S, U : Mid(t, m, O, S, U) /\ ThreadOK(t, r, O, S, U)
    BY MidBegins
  <1>2. AtReading(t, r, O, S, U) /\ CallOK(r)
    BY <1>1, PlaceIs DEF At
  <1>3. PICK Q : Aimed(r, Q) /\ O = Q \cup {e}
    BY <1>2 DEF AtReading
  <1>4. S = {StackOf(t, r.s, DomainOf[w])} /\ U = CallOf(t, r) \cup {User(t, w, "device")}
        /\ ~r.preparing
    BY <1>2 DEF AtReading, DomainOfPage
  <1>5. n = ReadEnds(t)
    BY DEF ReadEnds
  <1> HIDE DEF r, w
  <1>6. Mid(t, a, O, {}, CallOf(t, r))
    BY <1>1, <1>4, MidStackGivenBack
  <1> HIDE DEF a
  <1>7. IsTable(a)
    BY <1>6, MidKnows DEF Knows, Typed
  <1>8. SameBut(a, n, Loose)
    BY <1>7 DEF IsTable, SameBut, Fields, Loose
  <1> HIDE DEF n
  <1>9. Mid(t, n, O, {}, CallOf(t, r))
    BY <1>6, <1>8, MidLoose
  <1>10. e \notin Q
    BY <1>3 DEF Aimed, InLine, Own
  <1>11. e \in O /\ e.b = r.b /\ e.page = r.page /\ e.as = "reader"
    BY <1>3 DEF Own
  <1> HIDE DEF e
  <1>12. r.b \in Block /\ n.page[r.b] = r.page /\ n.state[r.b] = "reading"
    BY <1>9, <1>11, MidKnows DEF Knows, Owns, StateOf
  <1> QED
    BY <1>2, <1>3, <1>4, <1>5, <1>9, <1>10, <1>12 DEF r, e

(* The block read is no longer its reader's.                               *)
LEMMA MidRead ==
  ASSUME NEW t, NEW n, NEW b, NEW p, NEW Q, NEW U, Own(t, b, "reader", p) \notin Q,
         Mid(t, n, Q \cup {Own(t, b, "reader", p)}, {}, U)
  PROVE  /\ Mid(t, UnmountedReading(n, {b}), Q, {}, U)
         /\ b \in Block => Settled(UnmountedReading(n, {b}), b)
         /\ UnmountedReading(n, {b}).page = n.page
  <1> DEFINE e == Own(t, b, "reader", p)
             O == Q \cup {e}
             k == UnmountedReading(n, {b})
  <1>1. Mid(t, n, O, {}, U) /\ O \ {e} = Q
    OBVIOUS
  <1>2. {e} \subseteq O /\ \A x : x \in {b} <=> \E o \in {e} : o.b = x
    BY DEF Own
  <1> HIDE DEF e, O
  <1>3. Mid(t, k, O \ {e}, {}, U)
    BY <1>1, <1>2, MidUnmounted
  <1>4. IsTable(n)
    BY <1>1, MidKnows DEF Knows, Typed
  <1>5. UnmountedAs(n, {b}, k)
    BY <1>4, UnmountedReadingIs
  <1> HIDE DEF k
  <1>6. k.page = n.page /\ (b \in Block => Settled(k, b))
    BY <1>5 DEF UnmountedAs, SameBut, Fields, Settled
  <1> QED
    BY <1>1, <1>3, <1>6 DEF k

LEMMA ReadSucceedsKeeps ==
  ASSUME IInv, NEW t \in Thread, ReadSucceeds(t)
  PROVE  IInv'
  <1> DEFINE k == th[t]
             r == [k EXCEPT !.s = None]
             n == ReadEnds(t)
             e == Own(t, k.b, "reader", k.page)
             l == UnmountedReading(n, {k.b})
  <1>1. PICK Q : /\ CallOK(k) /\ ~k.preparing /\ Aimed(k, Q)
                 /\ Mid(t, n, Q \cup {e}, {}, CallOf(t, k)) /\ e \notin Q
                 /\ k.b \in Block /\ n.page[k.b] = k.page
    BY MidReadEnds DEF ReadSucceeds
  <1>q. Linking(t, UnmountedReading(n, {r.b}), r, r.b)
    BY DEF ReadSucceeds
  <1> HIDE DEF k, n
  <1>2. Mid(t, l, Q, {}, CallOf(t, k)) /\ Settled(l, k.b) /\ l.page = n.page
    BY <1>1, MidRead
  <1>3. DOMAIN k = ThreadFields /\ k.preparing \in BOOLEAN
    BY <1>1 DEF CallOK
  <1>4. /\ SameCall(k, r, Elsewhere \ {"mode", "update"})
        /\ r.preparing = k.preparing /\ r.b = k.b /\ r.page = k.page
    BY <1>3 DEF SameCall, ThreadFields, Elsewhere
  <1> HIDE DEF r
  <1>5. CallOK(r) /\ CallOf(t, r) = CallOf(t, k) /\ SameCall(k, r, Elsewhere)
    BY <1>1, <1>3, <1>4, SameCallOf
  <1>6. Aimed(r, Q)
    BY <1>1, <1>5, SameAim
  <1>7. Linking(t, l, r, k.b)
    BY <1>q, <1>4
  <1>8. l.state[k.b] # "free"
    BY <1>2 DEF Settled
  <1> HIDE DEF l
  <1> QED
    BY <1>1, <1>2, <1>4, <1>5, <1>6, <1>7, <1>8, LinkingKeeps

LEMMA ReadFailsKeeps ==
  ASSUME IInv, NEW t \in Thread, ReadFails(t)
  PROVE  IInv'
  <1> DEFINE k == th[t]
             n == ReadEnds(t)
             e == Own(t, k.b, "reader", k.page)
             l == UnmountedReading(n, {k.b})
  <1>1. PICK Q : /\ CallOK(k) /\ ~k.preparing /\ Aimed(k, Q)
                 /\ Mid(t, n, Q \cup {e}, {}, CallOf(t, k)) /\ e \notin Q
                 /\ k.b \in Block
    BY MidReadEnds DEF ReadFails
  <1>q. SearchFails(t, Freed(l, {k.b}), k)
    BY DEF ReadFails
  <1> HIDE DEF k, n
  <1>2. Mid(t, l, Q, {}, CallOf(t, k)) /\ Settled(l, k.b)
    BY <1>1, MidRead
  <1>3. \A b \in {k.b} : b \in Block /\ Settled(l, b)
    BY <1>1, <1>2
  <1> HIDE DEF l
  <1>4. Mid(t, Freed(l, {k.b}), Q, {}, CallOf(t, k))
    BY <1>2, <1>3, MidFreed
  <1> QED
    BY <1>1, <1>4, <1>q, SearchFailsKeeps

(* The block read goes to the front of the queue.                          *)
LEMMA QueueAdds ==
  ASSUME NEW q \in Seq(Block), NEW b \in Block
  PROVE  /\ <<b>> \o q \in Seq(Block)
         /\ Range(<<b>> \o q) = {b} \cup Range(q)
         /\ \A i \in DOMAIN (<<b>> \o q) :
              /\ i \in Nat
              /\ i = 1 => (<<b>> \o q)[i] = b
              /\ i # 1 => i - 1 \in DOMAIN q /\ (<<b>> \o q)[i] = q[i - 1]
  <1> DEFINE x == <<b>> \o q
  <1>1. /\ x \in Seq(Block) /\ Len(q) \in Nat /\ DOMAIN q = 1..Len(q)
        /\ DOMAIN x = 1..(Len(q) + 1)
        /\ \A i \in 1..(Len(q) + 1) : x[i] = IF i = 1 THEN b ELSE q[i - 1]
    OBVIOUS
  <1> HIDE DEF x
  <1>2. \A i \in DOMAIN x : /\ i \in Nat
                            /\ i = 1 => x[i] = b
                            /\ i # 1 => i - 1 \in DOMAIN q /\ x[i] = q[i - 1]
    BY <1>1
  <1>3. Range(x) \subseteq {b} \cup Range(q)
    BY <1>2 DEF Range
  <1>4. b \in Range(x)
    BY <1>1 DEF Range
  <1>5. ASSUME NEW j \in DOMAIN q
        PROVE  q[j] \in Range(x)
    <2>1. j + 1 \in DOMAIN x /\ x[j + 1] = q[j]
      BY <1>1
    <2> QED
      BY <2>1 DEF Range
  <1>6. Range(q) \subseteq Range(x)
    BY <1>5 DEF Range
  <1>7. Range(x) = {b} \cup Range(q)
    BY <1>3, <1>4, <1>6
  <1> QED
    BY <1>1, <1>2, <1>7 DEF x

LEMMA LineAdds ==
  ASSUME NEW t, NEW r, NEW x, NEW Q, NEW b \in Block, NEW p \in Page, InLine(r, Q),
         Lent(r, r.page), b \notin Range(r.queue), x.w = r.w, x.page = p,
         x.queue = <<b>> \o r.queue, Depth[p] < Depth[r.page]
  PROVE  InLine(x, Q \cup {Own(t, b, "queued", r.page)})
  <1> DEFINE f == Own(t, b, "queued", r.page)
             q == r.queue
             y == x.queue
             P == Q \cup {f}
  <1>1. q \in Seq(Block)
    BY DEF InLine
  <1>2. f.b = b /\ f.as = "queued" /\ f.page = r.page
    BY DEF Own
  <1> HIDE DEF f
  <1>3. /\ y \in Seq(Block) /\ Range(y) = {b} \cup Range(q)
        /\ \A i \in DOMAIN y : /\ i \in Nat
                               /\ i = 1 => y[i] = b
                               /\ i # 1 => i - 1 \in DOMAIN q /\ y[i] = q[i - 1]
    BY <1>1, QueueAdds
  <1>4. \A z : z \in Range(q) <=> \E o \in Q : o.b = z
    BY DEF InLine
  <1>5. \A o \in Q : o.b # b
    BY <1>4
  <1>6. \A i \in DOMAIN q : q[i] \in Range(q) /\ q[i] # b
    BY DEF Range
  <1>q. /\ \A i, j \in DOMAIN q : q[i] = q[j] => i = j
        /\ \A o, z \in Q : \A i, j \in DOMAIN q :
             o.b = q[i] /\ z.b = q[j] /\ i < j => Depth[o.page] < Depth[z.page]
        /\ \A o \in Q : o.as = "queued" /\ Lent(r, o.page) /\ Depth[r.page] < Depth[o.page]
    BY DEF InLine
  <1> HIDE DEF q, y
  <1>7. ASSUME NEW i \in DOMAIN y, NEW j \in DOMAIN y, y[i] = y[j]
        PROVE  i = j
    <2>1. CASE i = 1 /\ j # 1
      BY <2>1, <1>3, <1>6, <1>7
    <2>2. CASE i # 1 /\ j = 1
      BY <2>2, <1>3, <1>6, <1>7
    <2>3. CASE i # 1 /\ j # 1
      <3>1. i \in Nat /\ j \in Nat /\ i - 1 \in DOMAIN q /\ j - 1 \in DOMAIN q
            /\ q[i - 1] = q[j - 1]
        BY <2>3, <1>3, <1>7
      <3>2. i - 1 = j - 1
        BY <3>1, <1>q
      <3> QED
        BY <3>1, <3>2
    <2> QED
      BY <2>1, <2>2, <2>3
  <1>8. \A z : z \in Range(y) <=> \E o \in P : o.b = z
    BY <1>2, <1>3, <1>4
  <1>9. ASSUME NEW o \in P, NEW z \in P, NEW i \in DOMAIN y, NEW j \in DOMAIN y,
               o.b = y[i], z.b = y[j], i < j
        PROVE  Depth[o.page] < Depth[z.page]
    <2>1. j # 1
      <3>1. i \in 1..Len(y) /\ j \in 1..Len(y)
        BY <1>3
      <3> QED
        BY <3>1, <1>9
    <2>2. j - 1 \in DOMAIN q /\ z.b = q[j - 1] /\ z.b # b
      BY <2>1, <1>3, <1>6, <1>9
    <2>3. z \in Q
      BY <2>2, <1>2
    <2>4. CASE i = 1
      <3>1. o.b = b
        BY <2>4, <1>3, <1>9
      <3>2. o = f
        BY <3>1, <1>5
      <3> QED
        BY <3>2, <2>3, <1>2, <1>q
    <2>5. CASE i # 1
      <3>1. i - 1 \in DOMAIN q /\ o.b = q[i - 1] /\ o.b # b
        BY <2>5, <1>3, <1>6, <1>9
      <3>2. o \in Q
        BY <3>1, <1>2
      <3>3. i - 1 < j - 1
        BY <1>3, <1>9
      <3> QED
        BY <3>1, <3>2, <3>3, <2>2, <2>3, <1>q
    <2> QED
      BY <2>4, <2>5
  <1>10. ASSUME NEW o \in P
         PROVE  o.as = "queued" /\ Lent(x, o.page) /\ Depth[x.page] < Depth[o.page]
    <2>1. r.page \in Page /\ Lent(r, o.page) /\ o.page \in Page
      BY <1>2, <1>q DEF Lent
    <2>2. Depth[p] \in Nat /\ Depth[r.page] \in Nat /\ Depth[o.page] \in Nat
      BY <2>1, DepthIs
    <2>3. Depth[r.page] <= Depth[o.page]
      BY <2>2, <1>2, <1>q
    <2>4. Lent(x, o.page)
      BY <2>1 DEF Lent
    <2> QED
      BY <2>2, <2>3, <2>4, <1>2, <1>q
  <1> HIDE DEF P
  <1>11. InLine(x, P)
    BY <1>3, <1>7, <1>8, <1>9, <1>10 DEF InLine, y
  <1> QED
    BY <1>11 DEF P, f

LEMMA ReadRefersKeeps ==
  ASSUME IInv, NEW t \in Thread, NEW p \in Page, NEW private \in BOOLEAN,
         ReadRefers(t, p, private)
  PROVE  IInv'
  <1> DEFINE k == th[t]
             n == ReadEnds(t)
             e == Own(t, k.b, "reader", k.page)
             f == Own(t, k.b, "queued", k.page)
             l == [n EXCEPT !.private = IF private THEN @ \cup {k.b} ELSE @]
             x == Searching([k EXCEPT !.queue = <<k.b>> \o @, !.b = None, !.s = None], p)
  <1>1. PICK Q : /\ CallOK(k) /\ ~k.preparing /\ Aimed(k, Q)
                 /\ Mid(t, n, Q \cup {e}, {}, CallOf(t, k)) /\ e \notin Q
                 /\ k.b \in Block
    BY MidReadEnds DEF ReadRefers
  <1>q. p \in Answers[k.page] /\ GoesOn(t, l, x)
    BY DEF ReadRefers
  <1> HIDE DEF k, n
  <1>2. e \in Q \cup {e} /\ e.b = k.b /\ e.page = k.page /\ e.as = "reader"
    BY DEF Own
  <1> DEFINE O == Q \cup {e}
  <1>3. \A o \in Q : o.b # k.b
    <2>1. Knows(t, n, O, {}, CallOf(t, k))
      BY <1>1, MidKnows
    <2> HIDE DEF e
    <2> QED
      BY <1>1, <1>2, <2>1 DEF Knows
  <1>4. IsTable(n)
    BY <1>1, MidKnows DEF Knows, Typed
  <1>5. SameBut(n, n, {"lock"})
    BY <1>4 DEF SameBut
  <1>6. O \ {e} = Q
    BY <1>1
  <1> HIDE DEF e, O
  <1>7. Mid(t, n, (O \ {e}) \cup {Own(t, e.b, "queued", e.page)}, {}, CallOf(t, k))
    BY <1>1, <1>2, <1>5, MidMarked DEF O
  <1>8. Mid(t, n, Q \cup {f}, {}, CallOf(t, k))
    BY <1>2, <1>6, <1>7
  <1>9. SameBut(n, l, Loose)
    BY <1>4 DEF IsTable, SameBut, Fields, Loose
  <1> HIDE DEF l
  <1> DEFINE P == Q \cup {f}
  <1>10. Mid(t, l, P, {}, CallOf(t, k))
    BY <1>8, <1>9, MidLoose
  <1>11. DOMAIN k = ThreadFields
    BY <1>1 DEF CallOK
  <1>12. /\ SameCall(k, x, {"at", "page", "d", "tries", "queue", "b", "s"})
         /\ x.at = "prepare" /\ x.page = p /\ x.d = DomainOfPage(p)
         /\ x.queue = <<k.b>> \o k.queue /\ x.w = k.w
    BY <1>11 DEF Searching, SameCall, ThreadFields
  <1> HIDE DEF x
  <1>13. /\ k.call \in {"map", "flush"} /\ InLine(k, Q) /\ Lent(k, k.page) /\ k.page \in Page
    BY <1>1 DEF Aimed, Lent
  <1>14. p \in Sources(k.page) /\ Depth[p] < Depth[k.page]
    BY <1>q, <1>13, DepthIs DEF Sources
  <1>15. k.b \notin Range(k.queue)
    BY <1>3, <1>13 DEF InLine
  <1>16. InLine(x, P)
    BY <1>1, <1>12, <1>13, <1>14, <1>15, LineAdds
  <1>17. Lent(k, p)
    <2>1. WindowOf[p] \in Window
      BY TableAssumption
    <2> QED
      BY <1>13, <1>14, <2>1 DEF Lent, Lending
  <1>18. k.call = "flush" =>
           /\ k.kept \in [b : Block, page : Page]
           /\ Depth[p] < Depth[k.kept.page]
           /\ \A o \in P : Depth[o.page] < Depth[k.kept.page]
    <2> SUFFICES ASSUME k.call = "flush"
                 PROVE  /\ k.kept \in [b : Block, page : Page]
                        /\ Depth[p] < Depth[k.kept.page]
                        /\ \A o \in P : Depth[o.page] < Depth[k.kept.page]
      OBVIOUS
    <2>1. /\ k.kept \in [b : Block, page : Page]
          /\ Depth[k.page] < Depth[k.kept.page]
          /\ \A o \in Q : Depth[o.page] < Depth[k.kept.page]
      BY <1>1 DEF Aimed
    <2>2. k.kept.page \in Page /\ f.page = k.page
      BY <2>1 DEF Own
    <2>3. Depth[p] \in Nat /\ Depth[k.page] \in Nat /\ Depth[k.kept.page] \in Nat
      BY <2>2, <1>13, DepthIs
    <2> QED
      BY <2>1, <2>2, <2>3, <1>14
  <1> HIDE DEF P
  <1> QED
    BY <1>1, <1>q, <1>10, <1>12, <1>13, <1>16, <1>17, <1>18, SearchingKeeps

LEMMA ControlKeeps ==
  ASSUME IInv, NEW t \in Thread, Control(t)
  PROVE  IInv'
  <1> DEFINE k == th[t]
             r == [k EXCEPT !.tries = 0]
             s == NextStack(m)
             n == Got(m, s, r.d)
             c == [Counted(n, r.w, 1) EXCEPT !.miscounted = @ \cup ({r.w} \ m.open)]
             x == [r EXCEPT !.at = "device", !.s = s, !.counted = r.w # None]
             T == {StackOf(t, s, r.d)}
  <1>1. PICK O, S, U : Mid(t, m, O, S, U) /\ ThreadOK(t, k, O, S, U)
    BY MidBegins
  <1>2. /\ CallOK(k) /\ ~k.preparing /\ k.call = "control" /\ ~k.counted /\ k.queue = <<>>
        /\ O = {} /\ S = {} /\ U = {}
    <2>1. CASE k.at = "control"
      BY <1>1, <2>1, PlaceIs DEF AtControl, Empty
    <2>2. CASE k.at = "prepare" /\ Follows(k) = "control"
      <3>1. AtPrepare(t, k, O, S, U) /\ CallOK(k)
        BY <1>1, <2>2, PlaceIs
      <3>2. k.call \notin {"map", "flush", "sweep"}
        BY <2>2 DEF Follows
      <3> QED
        BY <3>1, <3>2 DEF AtPrepare, Preparing, Aimed, Empty, CallOf
    <2> QED
      BY <2>1, <2>2 DEF Control, Ready, At
  <1>q. \/ Ends(t, NotGot(m), r)
        \/ /\ CanGet(m)
           /\ Leaves(t, IF r.w = None THEN n ELSE c, x)
    BY DEF Control
  <1> HIDE DEF k
  <1>3. /\ CallOK(r) /\ ~r.preparing /\ r.call = "control" /\ ~r.counted /\ r.queue = <<>>
    BY <1>2, TriesZero
  <1> HIDE DEF r
  <1>4. CallOf(t, r) = {}
    BY <1>3 DEF CallOf
  <1>5. DOMAIN r = ThreadFields /\ r.preparing \in BOOLEAN /\ r.d \in Domain
        /\ r.w \in Window \cup {None} /\ ~r.update /\ r.mode \in Modes
    BY <1>3 DEF CallOK
  <1>6. CASE Ends(t, NotGot(m), r)
    BY <1>1, <1>2, <1>3, <1>4, <1>6, MidNotGot, EndsKeeps
  <1>7. CASE CanGet(m) /\ Leaves(t, IF r.w = None THEN n ELSE c, x)
    <2>1. Mid(t, n, {}, {} \cup {StackOf(t, s, r.d)}, {})
      BY <1>1, <1>2, <1>5, <1>7, MidGot
    <2>2. {} \cup {StackOf(t, s, r.d)} = T
      OBVIOUS
    <2>3. IsTable(m)
      BY <1>1, MidKnows DEF Knows, Typed
    <2>4. SameBut(m, n, {"phys", "pool", "pages", "free", "parent", "private", "blocks"})
      BY <2>3, GotIs
    <2>5. Step(t, IF r.w = None THEN n ELSE c, x)
      BY <1>7 DEF Leaves, Step
    <2>6. /\ x.at = "device" /\ x.s = s /\ x.counted = (r.w # None) /\ x.call = r.call
          /\ x.w = r.w /\ x.d = r.d /\ x.preparing = r.preparing /\ x.update = r.update
          /\ x.mode = r.mode /\ x.queue = r.queue /\ DOMAIN x = ThreadFields
      BY <1>5 DEF ThreadFields
    <2> HIDE DEF x, s, T
    <2>7. Mid(t, n, {}, T, {})
      BY <2>1, <2>2
    <2> HIDE DEF n
    <2>8. CallOK(x)
      BY <1>3, <1>5, <2>6 DEF CallOK
    <2>9. T = {StackOf(t, x.s, x.d)}
      BY <2>6 DEF T
    <2>10. AtDevice(t, x, {}, T, CallOf(t, x))
      BY <1>3, <2>6, <2>9 DEF AtDevice, Empty
    <2>11. ThreadOK(t, x, {}, T, CallOf(t, x))
      BY <2>8, <2>10 DEF ThreadOK
    <2>12. CASE r.w = None
      <3>1. CallOf(t, x) = {}
        BY <2>6, <2>12 DEF CallOf
      <3> QED
        BY <2>5, <2>7, <2>11, <2>12, <3>1, MidEnds
    <2>13. CASE r.w # None
      <3>1. CallOf(t, x) = {} \cup {User(t, r.w, "control")} /\ r.w \in Window
        BY <1>3, <1>5, <2>6, <2>13 DEF CallOf
      <3>2. IsTable(n) /\ n.open = m.open
        BY <2>4 DEF SameBut, Fields
      <3> DEFINE a == Counted(n, r.w, 1)
      <3>3. CountedAs(n, r.w, 1, a)
        BY <3>2, CountedIs
      <3> HIDE DEF a
      <3>4. /\ SameBut(n, a, {"calls"}) /\ a.calls = [n.calls EXCEPT ![r.w] = @ + 1]
        BY <3>3 DEF CountedAs
      <3>5. a.miscounted = n.miscounted /\ IsTable(a)
        BY <3>4 DEF SameBut, Fields
      <3>6. /\ SameBut(a, c, {"miscounted"}) /\ c.miscounted = a.miscounted \cup ({r.w} \ m.open)
        BY <3>5 DEF IsTable, SameBut, Fields, a
      <3> HIDE DEF c
      <3>7. /\ SameBut(n, c, {"calls", "miscounted"})
            /\ c.calls = [n.calls EXCEPT ![r.w] = @ + 1]
            /\ c.miscounted = n.miscounted \cup ({r.w} \ n.open)
        BY <3>2, <3>4, <3>5, <3>6 DEF SameBut, Fields
      <3>8. User(t, r.w, "control") \notin {}
        OBVIOUS
      <3>9. Mid(t, c, {}, T, {} \cup {User(t, r.w, "control")})
        BY <2>7, <3>1, <3>7, <3>8, MidMiscounted
      <3>10. Mid(t, c, {}, T, CallOf(t, x))
        BY <3>1, <3>9
      <3> QED
        BY <2>5, <2>11, <2>13, <3>10, MidEnds
    <2> QED
      BY <2>12, <2>13
  <1> QED
    BY <1>q, <1>6, <1>7

LEMMA ControlledKeeps ==
  ASSUME IInv, NEW t \in Thread, Controlled(t)
  PROVE  IInv'
  <1> DEFINE r == th[t]
  <1>1. PICK O, S, U : Mid(t, m, O, S, U) /\ ThreadOK(t, r, O, S, U)
    BY MidBegins
  <1>2. AtDevice(t, r, O, S, U) /\ CallOK(r)
    BY <1>1, PlaceIs DEF Controlled, At
  <1>3. O = {} /\ S = {StackOf(t, r.s, r.d)} /\ U = CallOf(t, r)
    BY <1>2 DEF AtDevice, Empty
  <1>4. Mid(t, GivenBack(m, Stack(r.s, r.d)), {}, {}, CallOf(t, r))
    BY <1>1, <1>3, MidStackBack
  <1> QED
    BY <1>2, <1>4, EndsKeeps DEF Controlled

(* What a call begins as                                                   *)
Begun(k) ==
  /\ CallOK(k)
  /\ \A t : ThreadOK(t, k, {}, {}, CallOf(t, k))
  /\ k.counted => k.w \in Window /\ k.call # "control"

LEMMA IdleDomain ==
  /\ DOMAIN Idle = ThreadFields /\ Idle.queue = <<>> /\ Idle.preparing = FALSE
  /\ Idle.update = FALSE /\ Idle.mode \in Modes /\ Idle.counted = FALSE
  <1>1. DOMAIN Idle = ThreadFields /\ Idle.queue = <<>>
    BY DEF Idle, ThreadFields
  <1>2. Idle.preparing = FALSE /\ Idle.update = FALSE /\ Idle.counted = FALSE
    BY DEF Idle
  <1>3. Idle.mode \in Modes
    BY IdleIs DEF CallOK
  <1> QED
    BY <1>1, <1>2, <1>3

LEMMA BeginsAre ==
  ASSUME NEW k \in Calls
  PROVE  Begun(k)
  <1>0. \A giveup, free, wait \in BOOLEAN : Mode(giveup, free, wait) \in Modes
    BY DEF Modes
  <1>1. ASSUME NEW p \in Page, NEW readOnly \in BOOLEAN, k = MapCall(p, readOnly)
        PROVE  Begun(k)
    <2>1. /\ DOMAIN k = ThreadFields /\ k.at = "prepare" /\ k.call = "map"
          /\ k.w = WindowOf[p] /\ k.counted = TRUE /\ k.page = p /\ k.d = DomainOfPage(p)
          /\ k.queue = <<>> /\ k.preparing = FALSE /\ k.update = FALSE /\ k.mode = Idle.mode
      BY <1>1, IdleDomain DEF MapCall, Searching, ThreadFields
    <2>2. WindowOf[p] \in Window
      BY TableAssumption
    <2>3. CallOK(k)
      BY <2>1, <2>2, IdleDomain DEF CallOK
    <2>4. Aimed(k, {})
      BY <2>1, NoneInLine DEF Aimed, Lent
    <2> QED
      BY <2>1, <2>2, <2>3, <2>4 DEF Begun, ThreadOK, AtPrepare, Preparing
  <1>2. ASSUME NEW w \in Window, NEW mode \in Modes, NEW update \in BOOLEAN,
               k = FlushCall(w, mode, update)
        PROVE  Begun(k)
    <2>1. /\ DOMAIN k = ThreadFields /\ k.at = "loop" /\ k.call = "flush"
          /\ k.w = w /\ k.counted = TRUE
          /\ k.queue = <<>> /\ k.preparing = FALSE /\ k.mode = mode
      BY <1>2, IdleDomain DEF FlushCall, ThreadFields
    <2>2. CallOK(k)
      BY <2>1 DEF CallOK
    <2> QED
      BY <2>1, <2>2 DEF Begun, ThreadOK, AtLoop, Empty
  <1>3. ASSUME NEW w \in Window \ Lending, NEW giveup \in BOOLEAN, NEW wait \in BOOLEAN,
               k = CloseCall(w, giveup, wait)
        PROVE  Begun(k)
    <2> DEFINE mode == Mode(giveup, TRUE, wait)
    <2>0. mode \in Modes
      BY <1>0, Zenon
    <2> HIDE DEF mode
    <2>1. /\ DOMAIN k = ThreadFields /\ k.at = "loop" /\ k.call = "close"
          /\ k.w = w /\ k.counted = TRUE
          /\ k.queue = <<>> /\ k.preparing = FALSE /\ k.update = FALSE /\ k.mode = mode
      BY <1>3, IdleDomain DEF CloseCall, ThreadFields, mode
    <2>2. CallOK(k)
      BY <2>0, <2>1 DEF CallOK
    <2> QED
      BY <2>1, <2>2 DEF Begun, ThreadOK, AtLoop, Empty
  <1>4. ASSUME NEW d \in Domain, NEW mode \in Modes, k = SweepCall(d, mode)
        PROVE  Begun(k)
    <2>1. /\ DOMAIN k = ThreadFields /\ k.at = "prepare" /\ k.call = "sweep"
          /\ k.d = d /\ k.counted = FALSE
          /\ k.queue = <<>> /\ k.preparing = FALSE /\ k.update = FALSE /\ k.mode = mode
      BY <1>4, IdleDomain DEF SweepCall, ThreadFields
    <2>2. CallOK(k)
      BY <2>1 DEF CallOK
    <2> QED
      BY <2>1, <2>2 DEF Begun, ThreadOK, AtPrepare, Preparing, Empty
  <1>5. ASSUME NEW w \in Window \cup {None}, NEW d \in Domain,
               k = [Idle EXCEPT !.at = "prepare", !.call = "control", !.w = w, !.d = d]
        PROVE  Begun(k)
    <2>1. /\ DOMAIN k = ThreadFields /\ k.at = "prepare" /\ k.call = "control"
          /\ k.d = d /\ k.w = w /\ k.counted = FALSE
          /\ k.queue = <<>> /\ k.preparing = FALSE /\ k.update = FALSE /\ k.mode = Idle.mode
      BY <1>5, IdleDomain DEF ThreadFields
    <2>2. CallOK(k)
      BY <2>1, IdleDomain DEF CallOK
    <2> QED
      BY <2>1, <2>2 DEF Begun, ThreadOK, AtPrepare, Preparing, Empty
  <1>6. ASSUME NEW w \in Window, k = ControlOpened(w)
        PROVE  Begun(k)
    <2>1. DomainOf[w] \in Domain
      BY TableAssumption
    <2> QED
      BY <2>1, <1>5, <1>6 DEF ControlOpened
  <1>7. ASSUME NEW d \in Domain, k = ControlUnopened(d)
        PROVE  Begun(k)
    <2>1. k = [Idle EXCEPT !.at = "prepare", !.call = "control", !.w = Idle.w, !.d = d]
      BY <1>7, IdleDomain DEF ControlUnopened, ThreadFields
    <2>2. Idle.w \in Window \cup {None}
      BY DEF Idle
    <2> QED
      BY <2>1, <2>2, <1>5
  <1>8. \/ \E p \in Page, readOnly \in BOOLEAN : k = MapCall(p, readOnly)
        \/ \E w \in Window, mode \in Modes, update \in BOOLEAN : k = FlushCall(w, mode, update)
        \/ \E w \in Window \ Lending, giveup, wait \in BOOLEAN : k = CloseCall(w, giveup, wait)
        \/ \E d \in Domain, mode \in Modes : k = SweepCall(d, mode)
        \/ \E w \in Window : k = ControlOpened(w)
        \/ \E d \in Domain : k = ControlUnopened(d)
    BY CallsAssumption
  <1> QED
    BY <1>1, <1>2, <1>3, <1>4, <1>6, <1>7, <1>8

LEMMA BeginKeeps ==
  ASSUME IInv, NEW t \in Thread, NEW k \in Calls, Begin(t, k)
  PROVE  IInv'
  <1>1. PICK O, S, U : Mid(t, m, O, S, U) /\ ThreadOK(t, th[t], O, S, U)
    BY MidBegins
  <1>2. O = {} /\ S = {} /\ U = {}
    BY <1>1, PlaceIs DEF Begin
  <1>3. CallOK(k) /\ ThreadOK(t, k, {}, {}, CallOf(t, k))
        /\ (k.counted => k.w \in Window /\ k.call # "control")
    BY BeginsAre DEF Begun
  <1>4. CASE k.counted
    <2>1. k.w \in m.open /\ k.w \in Window
      BY <1>3, <1>4, NoneIs DEF Begin
    <2>2. CallOf(t, k) = {} \cup {User(t, k.w, "call")} /\ User(t, k.w, "call") \notin {}
      BY <1>3, <1>4 DEF CallOf
    <2>3. Mid(t, Counted(m, k.w, 1), {}, {}, {} \cup {User(t, k.w, "call")})
      BY <1>1, <1>2, <2>1, <2>2, MidCounted
    <2>4. Step(t, Counted(m, k.w, 1), k)
      BY <1>4 DEF Begin, GoesOn, Step
    <2> QED
      BY <1>3, <2>2, <2>3, <2>4, MidEnds
  <1>5. CASE ~k.counted
    <2>1. CallOf(t, k) = {}
      BY <1>5 DEF CallOf
    <2>2. Step(t, m, k)
      BY <1>5 DEF Begin, GoesOn, Step
    <2> QED
      BY <1>1, <1>2, <1>3, <2>1, <2>2, MidEnds
  <1> QED
    BY <1>4, <1>5

(* What happens to the tables while no thread goes on                      *)
LEMMA TablesStay ==
  ASSUME IInv, th' = th,
         \A own, stk, users : TableOK(m, own, stk, users) => TableOK(m', own, stk, users)
  PROVE  IInv'
  <1>1. PICK own, stk, users : TableOK(m, own, stk, users) /\ ThreadsOK(Thread, own, stk, users)
    BY DEF IInv
  <1>2. ThreadsOK(Thread, own, stk, users)'
    BY <1>1 DEF ThreadsOK
  <1>3. TableOK(m, own, stk, users)'
    BY <1>1
  <1> QED
    BY <1>2, <1>3 DEF IInv

LEMMA TableIs ==
  ASSUME IInv
  PROVE  Typed(m) /\ IsTable(m)
  BY DEF IInv, TableOK, Typed

LEMMA OpenKeeps ==
  ASSUME IInv, NEW w \in Window, Open(w)
  PROVE  IInv'
  <1>1. /\ SameBut(m, m', {"open", "nowait", "calls"})
        /\ m'.open = m.open \cup {w} /\ m'.calls = [m.calls EXCEPT ![w] = 0]
    BY TableIs DEF Open, IsTable, SameBut, Fields
  <1>2. \A own, stk, users : TableOK(m, own, stk, users) => TableOK(m', own, stk, users)
    BY <1>1, OpenedKeeps DEF Open
  <1>3. th' = th
    BY DEF Open
  <1> QED
    BY <1>2, <1>3, TablesStay

LEMMA WakeupKeeps ==
  ASSUME IInv, Wakeup
  PROVE  IInv'
  <1>0. Typed(m) /\ IsTable(m) /\ th' = th
    BY TableIs DEF Wakeup
  <1>1. ASSUME NEW ws, NEW bs, m' = [Woken(m, bs) EXCEPT !.nowait = @ \cup ws]
        PROVE  Calm(m, m')
    <2> DEFINE k == Woken(m, bs)
    <2>1. /\ SameBut(m, k, {"waiting"})
          /\ k.waiting = [u \in Thread |-> IF m.waiting[u] \in bs THEN None ELSE m.waiting[u]]
      BY <1>0, WokenIs
    <2> HIDE DEF k
    <2>2. IsTable(k)
      BY <2>1 DEF SameBut
    <2>3. SameBut(k, m', {"nowait"}) /\ m'.waiting = k.waiting
      BY <1>1, <2>2 DEF IsTable, SameBut, Fields, k
    <2>4. SameBut(m, m', Loose \cup {"state", "parent", "waiting"})
          /\ m'.state = m.state /\ m'.parent = m.parent
      BY <2>1, <2>3 DEF SameBut, Fields, Loose
    <2>5. /\ m.state \in [Block -> States] /\ m.parent \in [Block -> Block \cup {None}]
          /\ m.waiting \in [Thread -> Block \cup {Memory, None}]
      BY <1>0 DEF Typed
    <2>6. /\ m'.waiting \in [Thread -> Block \cup {Memory, None}]
          /\ \A t \in Thread : m'.waiting[t] = m.waiting[t] \/ m'.waiting[t] = None
      BY <2>1, <2>3, <2>5
    <2> QED
      BY <2>4, <2>5, <2>6 DEF Calm
  <1>2. ASSUME NEW ws, m' = [m EXCEPT !.nowait = @ \ ws]
        PROVE  Calm(m, m')
    <2>1. SameBut(m, m', Loose)
      BY <1>0, <1>2 DEF IsTable, SameBut, Fields, Loose
    <2> QED
      BY <1>0, <2>1, LooseIsCalm
  <1>3. Calm(m, m')
    BY <1>1, <1>2 DEF Wakeup
  <1>4. \A own, stk, users : TableOK(m, own, stk, users) => TableOK(m', own, stk, users)
    BY <1>3, CalmKeeps
  <1> QED
    BY <1>0, <1>4, TablesStay

LEMMA TouchKeeps ==
  ASSUME IInv, NEW p \in Page, Touch(p)
  PROVE  IInv'
  <1>0. Typed(m) /\ IsTable(m) /\ th' = th
    BY TableIs DEF Touch
  <1>1. SameBut(m, m', Loose)
    BY <1>0 DEF Touch, IsTable, SameBut, Fields, Loose
  <1>2. \A own, stk, users : TableOK(m, own, stk, users) => TableOK(m', own, stk, users)
    BY <1>0, <1>1, LooseIsCalm, CalmKeeps
  <1> QED
    BY <1>0, <1>2, TablesStay

-----------------------------------------------------------------------------
LEMMA InitTable ==
  TableOK(EmptyTable(Window), {}, {}, {})
  <1> DEFINE n == EmptyTable(Window)
  <1>1. /\ IsTable(n)
        /\ n.state = [b \in Block |-> "free"] /\ n.page = [b \in Block |-> None]
        /\ n.parent = [b \in Block |-> None] /\ n.free = Block /\ n.open = Window
        /\ n.calls = [w \in Window |-> 0] /\ n.waiting = [t \in Thread |-> None]
        /\ n.miscounted = {}
    BY DEF EmptyTable, IsTable, Fields
  <1> HIDE DEF n
  <1>2. Typed(n)
    <2>1. n.state \in [Block -> States]
      BY <1>1, StatesAre
    <2>2. n.calls \in [Window -> Int]
      BY <1>1
    <2>3. n.page \in [Block -> Page \cup {None}] /\ n.parent \in [Block -> Block \cup {None}]
          /\ n.waiting \in [Thread -> Block \cup {Memory, None}]
      BY <1>1
    <2> QED
      BY <1>1, <2>1, <2>2, <2>3 DEF Typed
  <1>3. Live(n) /\ Distinct(n)
    BY <1>1 DEF Live, Distinct
  <1>4. Ranked(n)
    BY <1>1, <1>2 DEF Ranked, Typed
  <1>5. Owned(n, {}) /\ Stacked(n, {})
    BY <1>1 DEF Owned, Stacked, Busy
  <1>6. Used(n, {})
    <2>1. \A w : UsersOf({}, w) = {}
      BY DEF UsersOf
    <2>2. IsFiniteSet({}) /\ Cardinality({}) = 0
      BY FS_EmptySet
    <2> QED
      BY <1>1, <2>1, <2>2 DEF Used, Lending
  <1>7. Awaited(n)
    BY <1>1, NoneIs DEF Awaited
  <1> QED
    BY <1>2, <1>3, <1>4, <1>5, <1>6, <1>7 DEF TableOK, n

LEMMA InitIInv == Init => IInv
  <1> SUFFICES ASSUME Init
               PROVE  IInv
    OBVIOUS
  <1>1. TableOK(m, {}, {}, {})
    BY InitTable DEF Init
  <1>2. ThreadsOK(Thread, {}, {}, {})
    BY IdleIs DEF Init, ThreadsOK, ThreadOK, AtIdle, Mine
  <1> QED
    BY <1>1, <1>2 DEF IInv, Init

LEMMA NextIInv == IInv /\ [Next]_vars => IInv'
  <1> SUFFICES ASSUME IInv, [Next]_vars
               PROVE  IInv'
    OBVIOUS
  <1>1. CASE UNCHANGED vars
    BY <1>1 DEF vars, IInv, ThreadsOK
  <1>2. ASSUME NEW t \in Thread, NEW k \in Calls, Begin(t, k)
        PROVE  IInv'
    BY <1>2, BeginKeeps
  <1>3. ASSUME NEW t \in Thread,
               \/ PrepareFails(t) \/ Prepare(t) \/ Loop(t) \/ Flushed(t)
               \/ SearchFinds(t) \/ Waited(t) \/ SearchReads(t)
               \/ ReadSucceeds(t) \/ ReadFails(t) \/ Control(t) \/ Controlled(t)
        PROVE  IInv'
    BY <1>3, PrepareFailsKeeps, PrepareKeeps, LoopKeeps, FlushedKeeps, SearchFindsKeeps,
       WaitedKeeps, SearchReadsKeeps, ReadSucceedsKeeps, ReadFailsKeeps, ControlKeeps,
       ControlledKeeps
  <1>4. ASSUME NEW t \in Thread, NEW ok \in BOOLEAN, Wrote(t, ok)
        PROVE  IInv'
    BY <1>4, WroteKeeps
  <1>5. ASSUME NEW t \in Thread, NEW p \in Page, NEW private \in BOOLEAN,
               ReadRefers(t, p, private)
        PROVE  IInv'
    BY <1>5, ReadRefersKeeps
  <1>6. ASSUME NEW w \in Window, Open(w)
        PROVE  IInv'
    BY <1>6, OpenKeeps
  <1>7. CASE Wakeup
    BY <1>7, WakeupKeeps
  <1>8. ASSUME NEW p \in Page, Touch(p)
        PROVE  IInv'
    BY <1>8, TouchKeeps
  <1> QED
    BY <1>1, <1>2, <1>3, <1>4, <1>5, <1>6, <1>7, <1>8 DEF Next

(* Whatever threads call, wait for and are answered, and in whatever order *)
(* they have the lock: the blocks that are read and written, the stacks of *)
(* the file system and the windows in use are those some thread has, and   *)
(* the blocks that share memory form no circle.                            *)
THEOREM BlockInvariant == Spec => []IInv
  <1> QED
    BY InitIInv, NextIInv, PTL DEF Spec

-----------------------------------------------------------------------------
(* What the properties say of the three sets.                              *)
Claims(r, b) == b \in Range(r.queue) \/ (r.at \in {"reading", "writing"} /\ r.b = b)

LEMMA ClaimsAre ==
  ASSUME NEW t, NEW r, NEW O, NEW S, NEW U, ThreadOK(t, r, O, S, U)
  PROVE  /\ \A b : Claims(r, b) <=> \E o \in O : o.b = b
         /\ \A b \in Range(r.queue) : \E o \in O : o.b = b /\ o.as = "queued"
         /\ r.at = "reading" => \E o \in O : o.b = r.b /\ o.as = "reader" /\ o.page = r.page
         /\ r.at = "writing" => \E o \in O : o.b = r.b /\ o.as = "writer"
  <1>1. \A Q : Empty(r, Q) => Queued(r.queue, Q) /\ \A o \in Q : o.as = "queued"
    BY DEF Empty, Queued, Range
  <1>2. \A Q : Aimed(r, Q) => Queued(r.queue, Q) /\ \A o \in Q : o.as = "queued"
    BY DEF Aimed, InLine, Queued
  <1>3. \A Q : Preparing(r, Q) => Queued(r.queue, Q) /\ \A o \in Q : o.as = "queued"
    BY <1>1, <1>2 DEF Preparing
  <1>4. \A Q : Working(r, Q) => Queued(r.queue, Q) /\ \A o \in Q : o.as = "queued"
    BY <1>1, <1>3 DEF Working
  <1>5. CASE r.at \notin {"reading", "writing"}
    <2>1. Queued(r.queue, O) /\ \A o \in O : o.as = "queued"
      <3>1. CASE AtIdle(t, r, O, S, U)
        <4>1. Idle.queue = <<>> /\ O = {}
          BY <3>1 DEF AtIdle, Idle
        <4> QED
          BY <3>1, <4>1, <1>1 DEF AtIdle, Empty
      <3> QED
        BY <1>1, <1>2, <1>3, <1>4, <1>5, <3>1
           DEF ThreadOK, AtPrepare, AtSearch, AtReading, AtLoop, AtWriting, AtFlushed, AtControl,
               AtDevice
    <2> QED
      BY <1>5, <2>1 DEF Queued, Claims
  <1>6. CASE r.at = "reading"
    <2>1. PICK Q : Aimed(r, Q) /\ O = Q \cup {Own(t, r.b, "reader", r.page)}
      BY <1>6, PlaceIs DEF AtReading
    <2>2. Queued(r.queue, Q) /\ \A o \in Q : o.as = "queued"
      BY <2>1, <1>2
    <2> DEFINE e == Own(t, r.b, "reader", r.page)
    <2>3. e.b = r.b /\ e.as = "reader" /\ e.page = r.page /\ e \in O
      BY <2>1 DEF Own
    <2>4. \A o \in O : o \in Q \/ o = e
      BY <2>1
    <2>5. Q \subseteq O
      BY <2>1
    <2> HIDE DEF e
    <2> QED
      BY <1>6, <2>2, <2>3, <2>4, <2>5 DEF Queued, Claims
  <1>7. CASE r.at = "writing"
    <2>1. PICK Q : \E p \in Page : Working(r, Q) /\ O = Q \cup {Own(t, r.b, "writer", p)}
      BY <1>7, PlaceIs DEF AtWriting
    <2>p. PICK p \in Page : Working(r, Q) /\ O = Q \cup {Own(t, r.b, "writer", p)}
      BY <2>1
    <2>2. Queued(r.queue, Q) /\ \A o \in Q : o.as = "queued"
      BY <2>p, <1>4
    <2> DEFINE e == Own(t, r.b, "writer", p)
    <2>3. e.b = r.b /\ e.as = "writer" /\ e \in O
      BY <2>p DEF Own
    <2>4. \A o \in O : o \in Q \/ o = e
      BY <2>p
    <2>5. Q \subseteq O
      BY <2>p
    <2> HIDE DEF e
    <2> QED
      BY <1>7, <2>2, <2>3, <2>4, <2>5 DEF Queued, Claims
  <1> QED
    BY <1>5, <1>6, <1>7

LEMMA AtMostOne ==
  ASSUME NEW S, \A x, y \in S : x = y
  PROVE  Cardinality(S) <= 1
  <1>1. CASE S = {}
    BY <1>1, FS_EmptySet
  <1>2. CASE S # {}
    <2>1. PICK x \in S : TRUE
      BY <1>2
    <2>2. S = {x}
      BY <2>1
    <2> QED
      BY <2>2, FS_Singleton
  <1> QED
    BY <1>1, <1>2

LEMMA OneBlockPerPageHolds == IInv => OneBlockPerPage
  <1> SUFFICES ASSUME IInv
               PROVE  OneBlockPerPage
    OBVIOUS
  <1>1. PICK own, stk, users : TableOK(m, own, stk, users) /\ ThreadsOK(Thread, own, stk, users)
    BY DEF IInv
  <1>2. Typed(m) /\ Live(m) /\ Distinct(m) /\ Owned(m, own)
    BY <1>1 DEF TableOK
  <1>3. \A t \in Thread : ThreadOK(t, th[t], Mine(own, t), Mine(stk, t), Mine(users, t))
    BY <1>1 DEF ThreadsOK
  <1>4. ASSUME NEW p \in Page
        PROVE  Cardinality(Found(m, p)) <= 1
    <2>1. \A x, y \in Found(m, p) : x = y
      BY <1>2 DEF Found, Distinct
    <2> QED
      BY <2>1, AtMostOne
  <1>5. \A b \in Block : m.state[b] # "free" => WindowOf[m.page[b]] \in m.open
    BY <1>2 DEF Live, InUse
  <1>6. ASSUME NEW t \in Thread
        PROVE  /\ th[t].at = "reading" => m.state[th[t].b] = "reading" /\ m.page[th[t].b] = th[t].page
               /\ th[t].at = "writing" => m.state[th[t].b] = "writing"
               /\ \A i \in DOMAIN th[t].queue : m.state[th[t].queue[i]] = "reading"
    <2> DEFINE r == th[t]
               O == Mine(own, t)
    <2>1. ThreadOK(t, r, O, Mine(stk, t), Mine(users, t))
      BY <1>3
    <2>2. \A o \in O : m.state[o.b] = StateOf(o.as) /\ m.page[o.b] = o.page
      BY <1>2 DEF Owned, Mine
    <2> HIDE DEF r, O
    <2>3. /\ \A b \in Range(r.queue) : \E o \in O : o.b = b /\ o.as = "queued"
          /\ r.at = "reading" => \E o \in O : o.b = r.b /\ o.as = "reader" /\ o.page = r.page
          /\ r.at = "writing" => \E o \in O : o.b = r.b /\ o.as = "writer"
      BY <2>1, ClaimsAre
    <2>4. \A b \in Range(r.queue) : m.state[b] = "reading"
      BY <2>2, <2>3 DEF StateOf
    <2>5. \A i \in DOMAIN r.queue : m.state[r.queue[i]] = "reading"
      BY <2>4 DEF Range
    <2> QED
      BY <2>2, <2>3, <2>5 DEF StateOf, r
  <1>7. ASSUME NEW b \in Block, Busy(m, b)
        PROVE  Cardinality({t \in Thread : \/ b \in Range(th[t].queue)
                                           \/ th[t].at \in {"reading", "writing"} /\ th[t].b = b}) = 1
    <2>1. PICK o \in own : o.b = b
      BY <1>2, <1>7 DEF Owned
    <2>2. o.t \in Thread
      BY <1>2, <2>1 DEF Owned, Owns
    <2>3. \A t \in Thread : Claims(th[t], b) <=> \E x \in Mine(own, t) : x.b = b
      BY <1>3, ClaimsAre
    <2>4. \A t \in Thread : (\E x \in Mine(own, t) : x.b = b) <=> t = o.t
      BY <1>2, <2>1 DEF Owned, Mine
    <2>5. {t \in Thread : Claims(th[t], b)} = {o.t}
      BY <2>2, <2>3, <2>4
    <2>6. Cardinality({t \in Thread : Claims(th[t], b)}) = 1
      BY <2>5, FS_Singleton
    <2> QED
      BY <2>6 DEF Claims
  <1> QED
    BY <1>4, <1>5, <1>6, <1>7 DEF OneBlockPerPage

(* Two threads that search for the same page at the same time do not both  *)
(* mount a block for it, and a block that is read or written is in the     *)
(* hands of one thread, in the queue of one search or written by one.      *)
THEOREM BlockOneBlockPerPage == Spec => []OneBlockPerPage
  <1> QED
    BY BlockInvariant, OneBlockPerPageHolds, PTL

LEMMA CountedByThread ==
  ASSUME NEW A, NEW T, IsFiniteSet(A), \A u \in A : u.t \in T,
         \A t \in T : \E u \in A : u.t = t, \A u, v \in A : u.t = v.t => u = v
  PROVE  IsFiniteSet(T) /\ Cardinality(T) = Cardinality(A)
  <1> DEFINE f == [u \in A |-> u.t]
  <1>1. f \in Bijection(A, T)
    BY DEF Bijection, Injection, Surjection, IsInjective
  <1>2. ExistsBijection(A, T)
    BY <1>1 DEF ExistsBijection
  <1> QED
    BY <1>2, FS_Bijection

(* What lock_number of a window counts of a thread                         *)
LEMMA UsesAre ==
  ASSUME NEW t, NEW r, NEW O, NEW S, NEW U, ThreadOK(t, r, O, S, U)
  PROVE  /\ \A u, v \in U : u.kind # "device" /\ v.kind # "device" => u = v
         /\ \A u, v \in U : u.kind = "device" /\ v.kind = "device" => u = v
         /\ \A w : (r.counted /\ r.w = w) <=> \E u \in U : u.kind # "device" /\ u.w = w
         /\ r.at \notin {"reading", "writing"} => \A u \in U : u.kind # "device"
         /\ r.at = "reading" => \E u \in U : u.kind = "device" /\ u.w = WindowOf[r.page]
         /\ r.at = "writing" => \E u \in U : \E o \in O :
              u.kind = "device" /\ u.w = WindowOf[o.page] /\ o.b = r.b /\ o.as = "writer"
  <1> DEFINE C == CallOf(t, r)
  <1>1. /\ \A u \in C : u.kind # "device"
        /\ \A u, v \in C : u = v
        /\ \A w : (r.counted /\ r.w = w) <=> \E u \in C : u.w = w
    <2> DEFINE e == User(t, r.w, IF r.call = "control" THEN "control" ELSE "call")
    <2>1. e.kind # "device" /\ e.w = r.w
      BY DEF User
    <2>2. CASE r.counted
      <3>1. C = {e}
        BY <2>2 DEF CallOf
      <3> HIDE DEF C, e
      <3> QED
        BY <2>1, <2>2, <3>1
    <2>3. CASE ~r.counted
      <3>1. C = {}
        BY <2>3 DEF CallOf
      <3> HIDE DEF C
      <3> QED
        BY <2>3, <3>1
    <2> QED
      BY <2>2, <2>3
  <1> HIDE DEF C
  <1>2. CASE r.at \notin {"reading", "writing"}
    <2>1. U = C
      <3>1. CASE AtIdle(t, r, O, S, U)
        BY <3>1, IdleIs DEF AtIdle, C, CallOf
      <3>2. CASE AtControl(t, r, O, S, U)
        BY <3>2 DEF AtControl, C, CallOf
      <3> QED
        BY <1>2, <3>1, <3>2
           DEF ThreadOK, AtPrepare, AtSearch, AtReading, AtLoop, AtWriting, AtFlushed, AtDevice, C
    <2> QED
      BY <1>1, <1>2, <2>1
  <1>3. CASE r.at = "reading"
    <2> DEFINE e == User(t, WindowOf[r.page], "device")
    <2>1. U = C \cup {e}
      BY <1>3, PlaceIs DEF AtReading, C
    <2>2. e.kind = "device" /\ e.w = WindowOf[r.page]
      BY DEF User
    <2> HIDE DEF e
    <2> QED
      BY <1>1, <1>3, <2>1, <2>2
  <1>4. CASE r.at = "writing"
    <2>1. PICK Q : \E p \in Page : /\ O = Q \cup {Own(t, r.b, "writer", p)}
                                   /\ U = C \cup {User(t, WindowOf[p], "device")}
      BY <1>4, PlaceIs DEF AtWriting, C
    <2>2. PICK p \in Page : /\ O = Q \cup {Own(t, r.b, "writer", p)}
                            /\ U = C \cup {User(t, WindowOf[p], "device")}
      BY <2>1
    <2> DEFINE e == User(t, WindowOf[p], "device")
               o == Own(t, r.b, "writer", p)
    <2>3. e.kind = "device" /\ e.w = WindowOf[o.page] /\ o.b = r.b /\ o.as = "writer" /\ o \in O
          /\ U = C \cup {e}
      BY <2>2 DEF User, Own
    <2> HIDE DEF e, o
    <2> QED
      BY <1>1, <1>4, <2>3
  <1> QED
    BY <1>2, <1>3, <1>4

LEMMA WindowLocksHold == IInv => WindowLocks
  <1> SUFFICES ASSUME IInv, NEW w \in Window \ m.miscounted
               PROVE  m.calls[w] = Cardinality({t \in Thread : th[t].counted /\ th[t].w = w})
                                 + Cardinality({t \in Thread :
                                     \/ th[t].at = "reading" /\ WindowOf[th[t].page] = w
                                     \/ th[t].at = "writing" /\ WindowOf[m.page[th[t].b]] = w})
    BY DEF WindowLocks
  <1>1. PICK own, stk, users : TableOK(m, own, stk, users) /\ ThreadsOK(Thread, own, stk, users)
    BY DEF IInv
  <1>2. Typed(m) /\ Owned(m, own) /\ Used(m, users)
    BY <1>1 DEF TableOK
  <1>3. \A t \in Thread : ThreadOK(t, th[t], Mine(own, t), Mine(stk, t), Mine(users, t))
    BY <1>1 DEF ThreadsOK
  <1> DEFINE all == UsersOf(users, w)
             A == {u \in all : u.kind # "device"}
             B == {u \in all : u.kind = "device"}
             C == {t \in Thread : th[t].counted /\ th[t].w = w}
             D == {t \in Thread : \/ th[t].at = "reading" /\ WindowOf[th[t].page] = w
                                  \/ th[t].at = "writing" /\ WindowOf[m.page[th[t].b]] = w}
  <1>4. IsFiniteSet(all) /\ m.calls[w] = Cardinality(all)
    BY <1>2, FS_Subset DEF Used, UsersOf
  <1>5. IsFiniteSet(A) /\ IsFiniteSet(B)
    BY <1>4, FS_Subset
  <1>6. all = A \cup B /\ A \cap B = {}
    OBVIOUS
  <1>7. Cardinality(all) = Cardinality(A) + Cardinality(B)
    <2> HIDE DEF A, B, all
    <2>1. Cardinality(A \cup B) = Cardinality(A) + Cardinality(B) - Cardinality(A \cap B)
      BY <1>5, FS_Union
    <2>2. Cardinality(A \cap B) = 0
      BY <1>6, FS_EmptySet
    <2>3. Cardinality(A) \in Nat /\ Cardinality(B) \in Nat
      BY <1>5, FS_CardinalityType
    <2> QED
      BY <1>6, <2>1, <2>2, <2>3
  <1>8. \A u \in all : u \in users /\ u.w = w /\ u.t \in Thread /\ u \in Mine(users, u.t)
    BY <1>2 DEF UsersOf, Used, Users, Mine
  <1>9. \A t : \A u \in Mine(users, t) : u \in users /\ u.t = t
    BY DEF Mine
  <1>10. \A t \in Thread :
           LET r == th[t]
               U == Mine(users, t)
               O == Mine(own, t)
           IN  /\ \A u, v \in U : u.kind # "device" /\ v.kind # "device" => u = v
               /\ \A u, v \in U : u.kind = "device" /\ v.kind = "device" => u = v
               /\ \A x : (r.counted /\ r.w = x) <=> \E u \in U : u.kind # "device" /\ u.w = x
               /\ r.at \notin {"reading", "writing"} => \A u \in U : u.kind # "device"
               /\ r.at = "reading" => \E u \in U : u.kind = "device" /\ u.w = WindowOf[r.page]
               /\ r.at = "writing" => \E u \in U : \E o \in O :
                    u.kind = "device" /\ u.w = WindowOf[o.page] /\ o.b = r.b /\ o.as = "writer"
    BY <1>3, UsesAre
  <1>11. \A t : \A o \in Mine(own, t) : m.page[o.b] = o.page
    BY <1>2 DEF Owned, Mine
  <1>12. Cardinality(C) = Cardinality(A)
    <2>1. \A u \in A : u.t \in C
      BY <1>8, <1>10
    <2>2. \A t \in C : \E u \in A : u.t = t
      <3> SUFFICES ASSUME NEW t \in C
                   PROVE  \E u \in A : u.t = t
        OBVIOUS
      <3>1. t \in Thread /\ \E u \in Mine(users, t) : u.kind # "device" /\ u.w = w
        BY <1>10
      <3>2. PICK u \in Mine(users, t) : u.kind # "device" /\ u.w = w
        BY <3>1
      <3>3. u \in users /\ u.t = t
        BY <1>9
      <3>4. u \in A
        BY <3>2, <3>3 DEF UsersOf
      <3> QED
        BY <3>3, <3>4
    <2>3. \A u, v \in A : u.t = v.t => u = v
      <3> SUFFICES ASSUME NEW u \in A, NEW v \in A, u.t = v.t
                   PROVE  u = v
        OBVIOUS
      <3>1. u.t \in Thread /\ u \in Mine(users, u.t) /\ v \in Mine(users, u.t)
        BY <1>8
      <3> QED
        BY <3>1, <1>10
    <2> HIDE DEF A, C
    <2> QED
      BY <1>5, <2>1, <2>2, <2>3, CountedByThread
  <1>13. Cardinality(D) = Cardinality(B)
    <2>a. \A t \in Thread : t \in D <=> \E u \in Mine(users, t) : u.kind = "device" /\ u.w = w
      <3> SUFFICES ASSUME NEW t \in Thread
                   PROVE  t \in D <=> \E u \in Mine(users, t) : u.kind = "device" /\ u.w = w
        OBVIOUS
      <3> DEFINE r == th[t]
                 U == Mine(users, t)
                 O == Mine(own, t)
      <3>1. /\ \A u, v \in U : u.kind = "device" /\ v.kind = "device" => u = v
            /\ r.at \notin {"reading", "writing"} => \A u \in U : u.kind # "device"
            /\ r.at = "reading" => \E u \in U : u.kind = "device" /\ u.w = WindowOf[r.page]
            /\ r.at = "writing" => \E u \in U : \E o \in O :
                 u.kind = "device" /\ u.w = WindowOf[o.page] /\ o.b = r.b /\ o.as = "writer"
        BY <1>10
      <3>2. \A o \in O : m.page[o.b] = o.page
        BY <1>11
      <3>3. t \in D <=> \/ r.at = "reading" /\ WindowOf[r.page] = w
                        \/ r.at = "writing" /\ WindowOf[m.page[r.b]] = w
        OBVIOUS
      <3> HIDE DEF r, U, O, D
      <3>4. CASE r.at = "reading"
        BY <3>1, <3>3, <3>4 DEF U
      <3>5. CASE r.at = "writing"
        <4>1. PICK u \in U : \E o \in O :
                 u.kind = "device" /\ u.w = WindowOf[o.page] /\ o.b = r.b /\ o.as = "writer"
          BY <3>1, <3>5
        <4>2. u.kind = "device" /\ u.w = WindowOf[m.page[r.b]]
          BY <4>1, <3>2
        <4> QED
          BY <3>1, <3>3, <3>5, <4>2 DEF U
      <3>6. CASE r.at \notin {"reading", "writing"}
        BY <3>1, <3>3, <3>6 DEF U
      <3> QED
        BY <3>4, <3>5, <3>6
    <2>1. \A u \in B : u.t \in D
      <3> HIDE DEF D
      <3> QED
        BY <1>8, <2>a
    <2>2. \A t \in D : \E u \in B : u.t = t
      <3> SUFFICES ASSUME NEW t \in D
                   PROVE  \E u \in B : u.t = t
        OBVIOUS
      <3>0. t \in Thread
        OBVIOUS
      <3> HIDE DEF D
      <3>2. PICK u \in Mine(users, t) : u.kind = "device" /\ u.w = w
        BY <3>0, <2>a
      <3>3. u \in users /\ u.t = t
        BY <1>9
      <3>4. u \in B
        BY <3>2, <3>3 DEF UsersOf
      <3> QED
        BY <3>3, <3>4
    <2>3. \A u, v \in B : u.t = v.t => u = v
      <3> SUFFICES ASSUME NEW u \in B, NEW v \in B, u.t = v.t
                   PROVE  u = v
        OBVIOUS
      <3>1. u.t \in Thread /\ u \in Mine(users, u.t) /\ v \in Mine(users, u.t)
        BY <1>8
      <3> QED
        BY <3>1, <1>10
    <2> HIDE DEF B, D
    <2> QED
      BY <1>5, <2>1, <2>2, <2>3, CountedByThread
  <1> QED
    BY <1>4, <1>7, <1>12, <1>13

(* lock_number of a window is the number of calls about it and of calls of *)
(* the file system for it: a call that waits, fails or gives up on the way *)
(* is counted out once, so close_file_window finds the window in use as    *)
(* long as it is and no longer.                                            *)
THEOREM BlockWindowLocks == Spec => []WindowLocks
  <1> QED
    BY BlockInvariant, WindowLocksHold, PTL

LEMMA WaitersAtBusyHold == IInv => WaitersAtBusy
  BY DEF IInv, TableOK, Awaited, WaitersAtBusy

(* No wakeup of a block is missed: whoever still sleeps for a block sleeps *)
(* for one that is read or written, and who does that wakes it in the end. *)
THEOREM BlockWaitersAtBusy == Spec => []WaitersAtBusy
  <1> QED
    BY BlockInvariant, WaitersAtBusyHold, PTL
=============================================================================

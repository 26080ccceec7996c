---------------------------- MODULE PageTable_proofs ----------------------------
(***************************************************************************)
(* The processor walks no freed page table and translates to no page that  *)
(* went (PageTable), for any number of windows, threads and blocks.        *)
(*                                                                         *)
(* The argument: a table that may be walked has a reference, and only the  *)
(* switch that makes the processor forget it lowers references (Held,      *)
(* Walked).  So a table is freed only when nobody walks it, provided that  *)
(* its count of pages is exact (Counts) and it is nobody else's (Owned).   *)
(***************************************************************************)
EXTENDS PageTable, FiniteSetTheorems, TLAPS

TypeOK ==
  /\ opened \in [Window -> Key \cup {None}]
  /\ root \in [Window -> Block \cup {None}]
  /\ tables \in [Window -> Int]
  /\ table \in [Block -> [Part -> Block \cup {None}]]
  /\ item \in [Block -> [Part -> Int]]
  /\ reference \in [Block -> [Part -> Int]]
  /\ entry \in [Block -> [Page -> Frame \cup {None}]]
  /\ free \subseteq Block /\ lost \subseteq Block
  /\ ring \in [Index -> Loaded \cup {None}]
  /\ pointer \in Index
  /\ flush \in BOOLEAN
  /\ files \in [Slot -> File \cup {None}]
  /\ walks \subseteq Loaded
  /\ tlb \subseteq [at : Addr, page : Page, frame : Frame]

(* No block is used twice, and none in use is free or lost.                *)
Owned ==
  /\ free \cap lost = {}
  /\ \A w \in Window :
       /\ opened[w] = None => root[w] = None
       /\ root[w] \notin free \cup lost
       /\ \A r \in Part : TableOf(w, r) \notin free \cup lost
  /\ \A v, w \in Window : root[v] # None =>
       /\ root[v] = root[w] => v = w
       /\ \A r \in Part : TableOf(w, r) # root[v]
  /\ \A v, w \in Window, q, r \in Part :
       TableOf(v, q) # None /\ TableOf(v, q) = TableOf(w, r) => v = w /\ q = r

(* The number of elements of S that a table or a directory has an entry    *)
(* for.                                                                    *)
NumberIn(S, f) == Cardinality({x \in S : f[x] # None})

Counts ==
  /\ \A w \in Window : root[w] # None => tables[w] = NumberIn(Part, table[root[w]])
  /\ \A w \in Window, r \in Part : TableOf(w, r) # None =>
       item[root[w]][r] = NumberIn(Page, entry[TableOf(w, r)])
  /\ \A d \in Block, r \in Part : reference[d][r] >= Times(ring, d, r)

(* Blocks that hold no table of a window have no pages.                    *)
Empty ==
  \A b \in Block, p \in Page :
    b \in free \cup lost \/ (\E w \in Window : root[w] = b) => entry[b][p] = None

(* What the processor may walk is referred to, and is a table of the file  *)
(* there or a lost one.                                                    *)
Held ==
  \A e \in walks :
    /\ reference[e.dir][e.at[2]] > 0
    /\ table[e.dir][e.at[2]] = e.table
    /\ \/ e.dir \in lost /\ e.table \in lost
       \/ LET f == files[e.at[1]]
          IN  f # None /\ root[f.w] = e.dir /\ Fits(f)

(* Until it is told to forget, the processor keeps what is in the ring.    *)
Walked ==
  /\ InRing(ring) \subseteq walks
  /\ ~flush => walks \subseteq InRing(ring)
  /\ ~flush => \A t \in tlb : \E e \in InRing(ring) : e.at = t.at

IInv == TypeOK /\ Owned /\ Counts /\ Empty /\ Held /\ Walked /\ TranslationsAreCurrent

-----------------------------------------------------------------------------
(* Counting: one more, one less, and the slots of a ring.                  *)
LEMMA CountGains ==
  ASSUME NEW S, IsFiniteSet(S), NEW f, NEW g, NEW x \in S,
         f[x] = None, g[x] # None, \A y \in S : y # x => g[y] = f[y]
  PROVE  /\ NumberIn(S, f) \in Nat
         /\ NumberIn(S, g) = NumberIn(S, f) + 1
  <1> DEFINE F == {y \in S : f[y] # None}
             G == {y \in S : g[y] # None}
  <1>1. F \in SUBSET S
    OBVIOUS
  <1>2. IsFiniteSet(F)
    BY <1>1, FS_Subset
  <1>3. G = F \cup {x} /\ x \notin F
    OBVIOUS
  <1> HIDE DEF F, G
  <1>4. Cardinality(F) \in Nat /\ Cardinality(G) = Cardinality(F) + 1
    BY <1>2, <1>3, FS_CardinalityType, FS_AddElement
  <1> QED
    BY <1>4 DEF F, G, NumberIn

LEMMA IndexIsFinite == IsFiniteSet(Index)
  <1>1. 0 \in Int /\ RingSize - 1 \in Int
    BY PageTableAssumption
  <1> QED
    BY <1>1, FS_Interval DEF Index

Slots(rg, d, r) == {i \in Index : rg[i] # None /\ rg[i].dir = d /\ rg[i].at[2] = r}

LEMMA TimesBySlots ==
  ASSUME NEW rg, NEW d, NEW r
  PROVE  /\ Times(rg, d, r) = Cardinality(Slots(rg, d, r))
         /\ IsFiniteSet(Slots(rg, d, r))
         /\ Times(rg, d, r) \in Nat
         /\ Times(rg, d, r) = 0 <=> Slots(rg, d, r) = {}
  <1>1. Slots(rg, d, r) \in SUBSET Index
    BY DEF Slots
  <1>2. IsFiniteSet(Slots(rg, d, r))
    BY <1>1, IndexIsFinite, FS_Subset
  <1>3. Times(rg, d, r) = Cardinality(Slots(rg, d, r))
    BY DEF Times, Slots
  <1> QED
    BY <1>2, <1>3, FS_CardinalityType, FS_EmptySet

LEMMA TimesAfter ==
  ASSUME NEW rg, NEW new, NEW i \in Index, NEW e, NEW d, NEW r,
         new[i] = e, \A j \in Index : j # i => new[j] = rg[j]
  PROVE  Times(new, d, r) <= Times(rg, d, r) + Counted(d, r, e)
  <1> DEFINE Old == Slots(rg, d, r)
             New == Slots(new, d, r)
  <1>1. IsFiniteSet(Old) /\ IsFiniteSet(New)
    BY TimesBySlots
  <1>2. CASE Counted(d, r, e) = 1
    <2>1. New \in SUBSET (Old \cup {i})
      BY DEF Slots
    <2> HIDE DEF Old, New
    <2>2. /\ IsFiniteSet(Old \cup {i})
          /\ Cardinality(Old \cup {i}) <= Cardinality(Old) + 1
      BY <1>1, FS_AddElement, FS_CardinalityType
    <2>3. Cardinality(New) <= Cardinality(Old \cup {i})
      BY <2>1, <2>2, FS_Subset
    <2>4. /\ Cardinality(New) \in Nat /\ Cardinality(Old) \in Nat
          /\ Cardinality(Old \cup {i}) \in Nat
      BY <1>1, <2>2, FS_CardinalityType
    <2>5. Cardinality(New) <= Cardinality(Old) + 1
      BY <2>2, <2>3, <2>4
    <2> QED
      BY <2>5, <1>2, TimesBySlots DEF Old, New
  <1>3. CASE Counted(d, r, e) = 0
    <2>1. New \in SUBSET Old
      BY <1>3 DEF Slots, Counted
    <2> HIDE DEF Old, New
    <2>2. Cardinality(New) <= Cardinality(Old)
      BY <1>1, <2>1, FS_Subset
    <2>3. Cardinality(New) \in Nat /\ Cardinality(Old) \in Nat
      BY <1>1, FS_CardinalityType
    <2> QED
      BY <2>2, <2>3, <1>3, TimesBySlots DEF Old, New
  <1> QED
    BY <1>2, <1>3 DEF Counted

-----------------------------------------------------------------------------
(* What the invariant says of one table that may be walked.                *)
LEMMA LoadedFields ==
  ASSUME NEW e \in Loaded
  PROVE  e.at[1] \in Slot /\ e.at[2] \in Part /\ e.table \in Block /\ e.dir \in Block
         /\ e.table # None /\ e.dir # None /\ e # None
  BY PageTableAssumption DEF Loaded, Addr

LEMMA TableOfType ==
  ASSUME TypeOK, NEW w \in Window, NEW r \in Part
  PROVE  /\ TableOf(w, r) \in Block \cup {None}
         /\ TableOf(w, r) # None => root[w] \in Block /\ table[root[w]][r] = TableOf(w, r)
  BY DEF TypeOK, TableOf

LEMMA FileFields ==
  ASSUME TypeOK, NEW q \in Slot, files[q] # None
  PROVE  files[q] \in File /\ files[q].w \in Window
  BY DEF TypeOK, File

LEMMA HeldIsLive ==
  ASSUME TypeOK, Owned, Held, NEW e \in walks
  PROVE  /\ e \in Loaded
         /\ e.dir \notin free /\ e.table \notin free
         /\ \/ e.dir \in lost /\ e.table \in lost
            \/ LET f == files[e.at[1]]
               IN  /\ f # None /\ f.w \in Window /\ Fits(f)
                   /\ root[f.w] = e.dir
                   /\ TableOf(f.w, e.at[2]) = e.table
                   /\ opened[f.w] # None
  <1>1. e \in Loaded
    BY DEF TypeOK
  <1>2. e.at[1] \in Slot /\ e.at[2] \in Part /\ e.table # None /\ e.dir # None
    BY <1>1, LoadedFields
  <1>3. CASE e.dir \in lost /\ e.table \in lost
    BY <1>1, <1>3 DEF Owned
  <1>4. CASE ~(e.dir \in lost /\ e.table \in lost)
    <2> DEFINE f == files[e.at[1]]
    <2>1. f # None /\ root[f.w] = e.dir /\ Fits(f) /\ table[e.dir][e.at[2]] = e.table
      BY <1>4 DEF Held
    <2>2. f.w \in Window
      BY <1>2, <2>1, FileFields
    <2>3. TableOf(f.w, e.at[2]) = e.table
      BY <1>2, <2>1 DEF TableOf
    <2> HIDE DEF f
    <2>4. e.dir \notin free /\ e.table \notin free /\ opened[f.w] # None
      BY <1>2, <2>1, <2>2, <2>3 DEF Owned
    <2> QED
      BY <1>1, <2>1, <2>2, <2>3, <2>4 DEF f
  <1> QED
    BY <1>3, <1>4

(* What the processor finds by walking is current.                         *)
LEMMA FillIsCurrent ==
  ASSUME TypeOK', Owned', Held', Empty', NEW t, NEW e \in walks', NEW p \in Page,
         t = [at |-> e.at, page |-> p, frame |-> entry'[e.table][p]],
         entry'[e.table][p] # None
  PROVE  Current(t)'
  <1>1. e \in Loaded /\ e.at[1] \in Slot /\ e.at[2] \in Part /\ e.table \in Block
        /\ e.table # None /\ e.dir # None
    BY LoadedFields DEF TypeOK
  <1>2. e.table \notin lost'
    BY <1>1 DEF Empty
  <1> DEFINE f == files[e.at[1]]
  <1>3. (f # None /\ root[f.w] = e.dir /\ Fits(f) /\ table[e.dir][e.at[2]] = e.table)'
    BY <1>2 DEF Held
  <1>4. (f.w \in Window)'
    BY <1>1, <1>3 DEF TypeOK, File
  <1>5. (TableOf(f.w, e.at[2]) = e.table)'
    BY <1>1, <1>3 DEF TableOf
  <1>6. (opened[f.w] # None)'
    BY <1>1, <1>3, <1>4 DEF Owned
  <1>7. t.at = e.at /\ t.page = p /\ t.frame = entry'[e.table][p]
    OBVIOUS
  <1> QED
    BY <1>1, <1>3, <1>5, <1>6, <1>7 DEF Current

(* What the processor keeps, for each part of the invariant about it.      *)
LEMMA KeepsTyped ==
  ASSUME NEW W, NEW T, Keeps(W, T), W \subseteq Loaded,
         T \subseteq [at : Addr, page : Page, frame : Frame],
         ring' \in [Index -> Loaded \cup {None}],
         entry' \in [Block -> [Page -> Frame \cup {None}]]
  PROVE  /\ walks' \subseteq Loaded
         /\ tlb' \subseteq [at : Addr, page : Page, frame : Frame]
  <1>1. walks' \subseteq Loaded
    BY DEF Keeps, InRing
  <1>2. \A e \in walks', p \in Page : entry'[e.table][p] # None =>
          [at |-> e.at, page |-> p, frame |-> entry'[e.table][p]]
            \in [at : Addr, page : Page, frame : Frame]
    BY <1>1 DEF Loaded
  <1> QED
    BY <1>1, <1>2 DEF Keeps

LEMMA KeepsCurrent ==
  ASSUME TypeOK', Owned', Held', Empty', NEW W, NEW T, Keeps(W, T),
         \A t \in T : Current(t)'
  PROVE  TranslationsAreCurrent'
  <1> SUFFICES ASSUME NEW t \in tlb' PROVE Current(t)'
    BY DEF TranslationsAreCurrent
  <1>1. CASE t \in T
    BY <1>1
  <1>2. CASE \E e \in walks', p \in Page :
               /\ entry'[e.table][p] # None
               /\ t = [at |-> e.at, page |-> p, frame |-> entry'[e.table][p]]
    BY <1>2, FillIsCurrent
  <1> QED
    BY <1>1, <1>2 DEF Keeps

LEMMA KeepsPlaces ==
  ASSUME NEW W, NEW T, Keeps(W, T)
  PROVE  \A t \in tlb' : t \in T \/ \E e \in walks' : e.at = t.at
  BY DEF Keeps

(* ... when the ring stays as it is.                                       *)
LEMMA KeepsWalked ==
  ASSUME Walked, NEW W, NEW T, Keeps(W, T), W \subseteq walks, T \subseteq tlb,
         ring' = ring, flush' = flush
  PROVE  Walked' /\ walks' \subseteq walks
  <1>1. InRing(ring') = InRing(ring) /\ walks' = W \cup InRing(ring)
    BY DEF Keeps, InRing
  <1>2. \A t \in tlb' : t \in T \/ \E e \in walks' : e.at = t.at
    BY KeepsPlaces
  <1> QED
    BY <1>1, <1>2 DEF Walked

LEMMA CurrentStays ==
  ASSUME NEW t, Current(t), files' = files, opened' = opened,
         TableOf(files[t.at[1]].w, t.at[2])' = TableOf(files[t.at[1]].w, t.at[2]),
         LET c == TableOf(files[t.at[1]].w, t.at[2])
         IN  entry'[c][t.page] = entry[c][t.page]
  PROVE  Current(t)'
  BY DEF Current, Fits

LEMMA InRingMember ==
  ASSUME NEW rg, NEW e
  PROVE  e \in InRing(rg) <=> e # None /\ \E i \in Index : rg[i] = e
  BY DEF InRing

(* A part of a directory without a table is not loaded.                    *)
LEMMA OthersAreWalked ==
  ASSUME IInv, NEW d \in Block, NEW r \in Part,
         table[d][r] = None \/ reference[d][r] <= 0
  PROVE  /\ \A e \in walks : ~(e.dir = d /\ e.at[2] = r)
         /\ Times(ring, d, r) = 0
  <1>1. \A e \in walks : e.table # None
    BY LoadedFields DEF IInv, TypeOK
  <1>2. reference[d][r] \in Int
    BY DEF IInv, TypeOK
  <1>3. \A e \in walks : ~(e.dir = d /\ e.at[2] = r)
    BY <1>1, <1>2 DEF IInv, Held
  <1>4. Slots(ring, d, r) = {}
    BY <1>3, InRingMember DEF IInv, Walked, Slots
  <1> QED
    BY <1>3, <1>4, TimesBySlots

LEMMA LiveByInvariant == IInv => LoadedTablesAreLive
  BY HeldIsLive DEF IInv, LoadedTablesAreLive

-----------------------------------------------------------------------------
LEMMA InitOK == Init => IInv
  <1> SUFFICES ASSUME Init PROVE IInv
    OBVIOUS
  <1>0. 0 \in Index
    BY PageTableAssumption DEF Index
  <1>1. TypeOK
    BY <1>0 DEF Init, TypeOK
  <1>2. Owned
    BY PageTableAssumption DEF Init, Owned, TableOf
  <1>3. Counts
    <2>1. ASSUME NEW d \in Block, NEW r \in Part PROVE reference[d][r] >= Times(ring, d, r)
      <3>1. Slots(ring, d, r) = {}
        BY DEF Init, Slots
      <3>2. Times(ring, d, r) = 0
        BY <3>1, TimesBySlots
      <3> QED
        BY <3>2 DEF Init
    <2> QED
      BY <2>1 DEF Init, Counts, TableOf
  <1>4. Empty /\ Held /\ TranslationsAreCurrent
    BY DEF Init, Empty, Held, TranslationsAreCurrent
  <1>5. Walked
    BY InRingMember DEF Init, Walked
  <1> QED
    BY <1>1, <1>2, <1>3, <1>4, <1>5 DEF IInv

-----------------------------------------------------------------------------
(* Opening and closing a window.                                           *)
LEMMA MountOK ==
  ASSUME IInv, NEW w \in Window, NEW k \in Key, Mount(w, k)
  PROVE  IInv'
  <1> USE DEF windows, contents, loading, processor, ghosts
  <1>1. root' = root /\ root[w] = None
    BY DEF IInv, TypeOK, Owned, Mount
  <1>2. k # None
    BY PageTableAssumption
  <1>3. TypeOK'
    BY DEF IInv, TypeOK, Mount
  <1>4. Owned'
    BY <1>1, <1>2 DEF IInv, TypeOK, Owned, Mount, TableOf
  <1>5. Counts'
    <2>1. UNCHANGED <<root, table, item, reference, entry, ring>>
      BY <1>1 DEF Mount
    <2>2. \A v \in Window : root[v] # None => tables'[v] = tables[v]
      BY <1>1 DEF IInv, TypeOK, Mount
    <2> QED
      BY <2>1, <2>2 DEF IInv, Counts, TableOf
  <1>6. Empty'
    BY <1>1 DEF IInv, Empty, Mount
  <1>7. Held'
    BY <1>1, LoadedFields, FileFields DEF IInv, TypeOK, Held, Mount, Fits
  <1>8. Walked'
    BY DEF IInv, Walked, Mount, InRing
  <1>9. TranslationsAreCurrent'
    <2> SUFFICES ASSUME NEW t \in tlb PROVE Current(t)'
      BY DEF Mount, TranslationsAreCurrent
    <2>1. Current(t)
      BY DEF IInv, TranslationsAreCurrent
    <2>2. opened' = [opened EXCEPT ![w] = k] /\ opened[w] = None /\ opened \in [Window -> Key \cup {None}]
      BY DEF Mount, IInv, TypeOK
    <2>3. files[t.at[1]].w # w
      BY <2>1, <2>2 DEF Current
    <2>4. UNCHANGED <<root, table, entry, files>> /\ opened'[files[t.at[1]].w] = opened[files[t.at[1]].w]
      BY <1>1, <2>2, <2>3, FileFields, <2>1 DEF Mount
    <2>5. TableOf(files[t.at[1]].w, t.at[2])' = TableOf(files[t.at[1]].w, t.at[2])
      BY <2>4 DEF TableOf
    <2>6. Fits(files[t.at[1]])' <=> Fits(files[t.at[1]])
      BY <2>4 DEF Fits
    <2> QED
      BY <2>1, <2>4, <2>5, <2>6 DEF Current
  <1> QED
    BY <1>3, <1>4, <1>5, <1>6, <1>7, <1>8, <1>9 DEF IInv

LEMMA UnmountOK ==
  ASSUME IInv, NEW w \in Window, Unmount(w)
  PROVE  IInv'
  <1> USE DEF windows, contents, loading, processor, ghosts
  <1>1. /\ root' = [root EXCEPT ![w] = None] /\ opened' = [opened EXCEPT ![w] = None]
        /\ lost' = lost \cup BlocksOf(w)
        /\ UNCHANGED <<table, item, reference, entry, free, ring, pointer, flush, files,
                       walks, tlb>>
    BY DEF Unmount
  <1>2. /\ root \in [Window -> Block \cup {None}] /\ root'[w] = None
        /\ \A v \in Window : v # w => root'[v] = root[v] /\ opened'[v] = opened[v]
        /\ \A v \in Window, r \in Part : TableOf(v, r)' =
             IF v = w THEN None ELSE TableOf(v, r)
    BY <1>1 DEF IInv, TypeOK, TableOf
  <1>3. \A b : b \in BlocksOf(w) <=>
                b # None /\ (b = root[w] \/ \E r \in Part : b = TableOf(w, r))
    BY DEF BlocksOf
  <1>4. TypeOK'
    <2>1. BlocksOf(w) \subseteq Block
      BY <1>3, TableOfType DEF IInv, TypeOK
    <2> QED
      BY <2>1 DEF IInv, TypeOK, Unmount
  <1>5. Owned'
    <2>1. free \cap lost' = {}
      BY <1>1, <1>3 DEF IInv, Owned
    <2>2. ASSUME NEW v \in Window, v # w
          PROVE  root[v] \notin lost' /\ \A r \in Part : TableOf(v, r) \notin lost'
      <3>1. root[v] \notin lost /\ \A r \in Part : TableOf(v, r) \notin lost
        BY DEF IInv, Owned
      <3>2. root[v] \notin BlocksOf(w)
        BY <1>3, <2>2 DEF IInv, Owned
      <3>3. \A r \in Part : TableOf(v, r) \notin BlocksOf(w)
        BY <1>3, <2>2 DEF IInv, Owned
      <3> QED
        BY <1>1, <3>1, <3>2, <3>3
    <2>3. None \notin free \cup lost'
      BY <1>4, <1>1, PageTableAssumption DEF IInv, TypeOK
    <2>4. \A v \in Window :
            /\ opened'[v] = None => root'[v] = None
            /\ root'[v] \notin free' \cup lost'
            /\ \A r \in Part : TableOf(v, r)' \notin free' \cup lost'
      BY <1>1, <1>2, <2>2, <2>3 DEF IInv, Owned
    <2>5. \A v, u \in Window : root'[v] # None =>
            /\ root'[v] = root'[u] => v = u
            /\ \A r \in Part : TableOf(u, r)' # root'[v]
      BY <1>2 DEF IInv, Owned
    <2>6. \A v, u \in Window, q, r \in Part :
            TableOf(v, q)' # None /\ TableOf(v, q)' = TableOf(u, r)' => v = u /\ q = r
      BY <1>2 DEF IInv, Owned
    <2> QED
      BY <1>1, <2>1, <2>4, <2>5, <2>6 DEF Owned
  <1>6. Counts'
    <2>1. \A v \in Window : v # w => tables'[v] = tables[v]
      BY DEF Unmount, IInv, TypeOK
    <2>2. \A v \in Window : root'[v] # None => v # w /\ root'[v] = root[v]
      BY <1>2
    <2>3. \A v \in Window : root'[v] # None => tables'[v] = NumberIn(Part, table'[root'[v]])
      BY <1>1, <2>1, <2>2 DEF IInv, Counts
    <2>4. \A v \in Window, r \in Part : TableOf(v, r)' # None =>
            item'[root'[v]][r] = NumberIn(Page, entry'[TableOf(v, r)'])
      BY <1>1, <1>2, <2>2 DEF IInv, Counts, TableOf
    <2> QED
      BY <1>1, <2>3, <2>4 DEF IInv, Counts, TableOf
  <1>7. Empty'
    <2> SUFFICES ASSUME NEW b \in Block, NEW p \in Page,
                        b \in free \cup lost' \/ \E v \in Window : root'[v] = b
                 PROVE  entry[b][p] = None
      BY <1>1 DEF Empty
    <2>1. CASE b \in free \cup lost \/ \E v \in Window : root[v] = b
      BY <2>1 DEF IInv, Empty
    <2>2. CASE \E r \in Part : b = TableOf(w, r) /\ b # None
      BY <2>2 DEF Unmount, HasPage
    <2> QED
      BY <1>1, <1>2, <1>3, <2>1, <2>2, PageTableAssumption
  <1>8. Held'
    <2> SUFFICES ASSUME NEW e \in walks
                 PROVE  \/ e.dir \in lost' /\ e.table \in lost'
                        \/ LET f == files[e.at[1]]
                           IN  f # None /\ root'[f.w] = e.dir /\ Fits(f)'
      BY <1>1 DEF IInv, Held
    <2>1. e.at[2] \in Part /\ e.dir # None /\ e.table # None
      BY LoadedFields DEF IInv, TypeOK
    <2> DEFINE f == files[e.at[1]]
    <2>2. CASE e.dir \in lost /\ e.table \in lost
      BY <1>1, <2>2
    <2>3. CASE /\ f # None /\ f.w \in Window /\ Fits(f)
               /\ root[f.w] = e.dir /\ TableOf(f.w, e.at[2]) = e.table
      <3>1. CASE f.w = w
        BY <1>1, <1>3, <2>1, <2>3, <3>1
      <3>2. CASE f.w # w
        <4>1. root'[f.w] = root[f.w] /\ opened'[f.w] = opened[f.w]
          BY <1>2, <2>3, <3>2
        <4>2. Fits(f)'
          BY <1>1, <2>3, <4>1 DEF Fits
        <4> QED
          BY <2>3, <4>1, <4>2
      <3> QED
        BY <3>1, <3>2
    <2> QED
      BY <2>2, <2>3, HeldIsLive DEF IInv
  <1>9. Walked'
    BY <1>1 DEF IInv, Walked, InRing
  <1>10. TranslationsAreCurrent'
    <2> SUFFICES ASSUME NEW t \in tlb PROVE Current(t)'
      BY <1>1 DEF TranslationsAreCurrent
    <2>1. Current(t) /\ t.at[1] \in Slot /\ t.at[2] \in Part /\ t.page \in Page /\ t.frame # None
      BY PageTableAssumption DEF IInv, TranslationsAreCurrent, TypeOK, Addr
    <2> DEFINE v == files[t.at[1]].w
    <2>2. v \in Window
      BY <2>1, FileFields DEF Current, IInv
    <2>3. v # w
      BY <2>1 DEF Current, Unmount, HasPage
    <2> QED
      BY <1>1, <1>2, <2>1, <2>2, <2>3 DEF Current, Fits
  <1> QED
    BY <1>4, <1>5, <1>6, <1>7, <1>8, <1>9, <1>10 DEF IInv

-----------------------------------------------------------------------------
(* Entering a page.                                                        *)
LEMMA SetDirectoryOK ==
  ASSUME IInv, NEW w \in Window, opened[w] # None, NEW b \in free, SetDirectory(w, b)
  PROVE  IInv'
  <1> USE DEF windows, contents, loading, processor, ghosts
  <1>1. /\ root' = [root EXCEPT ![w] = b] /\ root[w] = None
        /\ table' = [table EXCEPT ![b] = [r \in Part |-> None]]
        /\ reference' = [reference EXCEPT ![b] = [r \in Part |-> 0]]
        /\ item' = [item EXCEPT ![b] = [r \in Part |-> 0]]
        /\ tables' = [tables EXCEPT ![w] = 0]
        /\ free' = free \ {b}
        /\ UNCHANGED <<opened, entry, ring, pointer, flush, files, walks, tlb, lost>>
    BY DEF SetDirectory
  <1>2. b \in Block /\ b # None /\ b \notin lost
    BY PageTableAssumption DEF IInv, TypeOK, Owned
  <1>3. TypeOK'
    BY <1>1, <1>2 DEF IInv, TypeOK
  <1>4. /\ root'[w] = b
        /\ \A v \in Window : v # w => root'[v] = root[v]
        /\ \A v \in Window : root[v] # b
        /\ \A v \in Window, r \in Part : TableOf(v, r)' = TableOf(v, r) /\ TableOf(v, r) # b
        /\ \A r \in Part : TableOf(w, r) = None
    BY <1>1, <1>2 DEF IInv, TypeOK, Owned, TableOf
  <1>5. Owned'
    BY <1>1, <1>2, <1>4 DEF IInv, Owned
  <1>6. \A e \in walks : e.dir # b
    BY HeldIsLive DEF IInv
  <1>7. Counts'
    <2>1. ASSUME NEW v \in Window, root'[v] # None
          PROVE  tables'[v] = NumberIn(Part, table'[root'[v]])
      <3>1. CASE v = w
        <4>1. {r \in Part : table'[b][r] # None} = {}
          BY <1>1, <1>2 DEF IInv, TypeOK
        <4>2. tables'[w] = 0 /\ root'[w] = b
          BY <1>1, <1>4 DEF IInv, TypeOK
        <4> QED
          BY <3>1, <4>1, <4>2, FS_EmptySet DEF NumberIn
      <3>2. CASE v # w
        <4>1. root'[v] = root[v] /\ root[v] \in Block /\ root[v] # b /\ tables'[v] = tables[v]
          BY <1>1, <1>4, <2>1, <3>2 DEF IInv, TypeOK
        <4>2. table'[root[v]] = table[root[v]]
          BY <1>1, <4>1 DEF IInv, TypeOK
        <4>3. tables[v] = NumberIn(Part, table[root[v]])
          BY <2>1, <4>1 DEF IInv, Counts
        <4> QED
          BY <4>1, <4>2, <4>3 DEF NumberIn
      <3> QED
        BY <3>1, <3>2
    <2>2. ASSUME NEW v \in Window, NEW r \in Part, TableOf(v, r)' # None
          PROVE  item'[root'[v]][r] = NumberIn(Page, entry'[TableOf(v, r)'])
      <3>1. TableOf(v, r) # None /\ root[v] \in Block /\ v # w /\ root[v] # b
        BY <1>4, <2>2, TableOfType DEF IInv
      <3>2. root'[v] = root[v] /\ item'[root[v]] = item[root[v]]
        BY <1>1, <1>4, <3>1 DEF IInv, TypeOK
      <3> QED
        BY <1>1, <1>4, <3>1, <3>2 DEF IInv, Counts
    <2>3. ASSUME NEW d \in Block, NEW r \in Part PROVE reference'[d][r] >= Times(ring, d, r)
      <3>1. CASE d = b
        <4>1. Slots(ring, d, r) = {}
          BY <1>6, <3>1, InRingMember DEF IInv, Walked, Slots
        <4>2. Times(ring, d, r) = 0
          BY <4>1, TimesBySlots
        <4>3. reference'[b] = [q \in Part |-> 0]
          BY <1>1, <1>2 DEF IInv, TypeOK
        <4> QED
          BY <3>1, <4>2, <4>3
      <3>2. CASE d # b
        BY <1>1, <3>2 DEF IInv, TypeOK, Counts
      <3> QED
        BY <3>1, <3>2
    <2> QED
      BY <1>1, <2>1, <2>2, <2>3 DEF Counts
  <1>8. Empty'
    BY <1>1, <1>4 DEF IInv, Empty
  <1>9. Held'
    <2> SUFFICES ASSUME NEW e \in walks
                 PROVE  /\ reference'[e.dir][e.at[2]] > 0
                        /\ table'[e.dir][e.at[2]] = e.table
                        /\ \/ e.dir \in lost /\ e.table \in lost
                           \/ LET f == files[e.at[1]]
                              IN  f # None /\ root'[f.w] = e.dir /\ Fits(f)'
      BY <1>1 DEF Held
    <2>1. e.at[2] \in Part /\ e.dir \in Block /\ e.dir # None
      BY LoadedFields DEF IInv, TypeOK
    <2>2. reference'[e.dir] = reference[e.dir] /\ table'[e.dir] = table[e.dir]
      BY <1>1, <1>6, <2>1 DEF IInv, TypeOK
    <2>3. \/ e.dir \in lost /\ e.table \in lost
          \/ LET f == files[e.at[1]]
             IN  f # None /\ f.w \in Window /\ root[f.w] = e.dir /\ Fits(f)
      BY HeldIsLive DEF IInv
    <2>4. Fits(files[e.at[1]])' <=> Fits(files[e.at[1]])
      BY <1>1 DEF Fits
    <2> QED
      BY <1>1, <1>4, <2>1, <2>2, <2>3, <2>4 DEF IInv, Held
  <1>10. Walked'
    BY <1>1 DEF IInv, Walked, InRing
  <1>11. TranslationsAreCurrent'
    <2> SUFFICES ASSUME NEW t \in tlb PROVE Current(t)'
      BY <1>1 DEF TranslationsAreCurrent
    <2>1. Current(t) /\ t.at[1] \in Slot /\ t.at[2] \in Part
      BY DEF IInv, TranslationsAreCurrent, TypeOK, Addr
    <2>2. files[t.at[1]].w \in Window
      BY <2>1, FileFields DEF Current, IInv
    <2> QED
      BY <1>1, <1>4, <2>1, <2>2 DEF Current, Fits
  <1> QED
    BY <1>3, <1>5, <1>7, <1>8, <1>9, <1>10, <1>11 DEF IInv

LEMMA SetInNewTableOK ==
  ASSUME IInv, NEW w \in Window, NEW r \in Part, NEW p \in Page, NEW f \in Frame,
         opened[w] # None, NEW b \in free, SetInNewTable(w, r, p, f, b)
  PROVE  IInv'
  <1> USE DEF windows, contents, loading, processor, ghosts
  <1>1. /\ table' = [table EXCEPT ![root[w]][r] = b]
        /\ item' = [item EXCEPT ![root[w]][r] = 1]
        /\ reference' = [reference EXCEPT ![root[w]][r] = 0]
        /\ tables' = [tables EXCEPT ![w] = @ + 1]
        /\ entry' = [entry EXCEPT ![b] = [q \in Page |-> IF q = p THEN f ELSE None]]
        /\ free' = free \ {b}
        /\ UNCHANGED <<opened, root, ring, pointer, flush, files, lost>>
        /\ Keeps(walks, tlb)
    BY DEF SetInNewTable
  <1>2. b \in Block /\ b # None /\ b \notin lost /\ f # None
    BY PageTableAssumption DEF IInv, TypeOK, Owned
  <1>3. root[w] \in Block /\ root[w] # b /\ table[root[w]][r] = None
    BY DEF IInv, TypeOK, Owned, SetInNewTable
  <1>4. TypeOK'
    <2>1. walks' \subseteq Loaded /\ tlb' \subseteq [at : Addr, page : Page, frame : Frame]
      <3>1. /\ ring' \in [Index -> Loaded \cup {None}]
            /\ entry' \in [Block -> [Page -> Frame \cup {None}]]
        BY <1>1 DEF IInv, TypeOK
      <3> QED
        BY <1>1, <3>1, KeepsTyped DEF IInv, TypeOK
    <2> QED
      BY <1>1, <1>2, <1>3, <2>1 DEF IInv, TypeOK
  <1>5. /\ \A v \in Window : root[v] # b /\ (root[v] = root[w] => v = w)
        /\ \A v \in Window, q \in Part : TableOf(v, q) # b
    BY <1>3, PageTableAssumption DEF IInv, TypeOK, Owned
  <1>6. \A c \in Block, q \in Part :
          ~(c = root[w] /\ q = r) => /\ table'[c][q] = table[c][q]
                                     /\ item'[c][q] = item[c][q]
                                     /\ reference'[c][q] = reference[c][q]
    BY <1>1, <1>3 DEF IInv, TypeOK
  <1>7. \A v \in Window, q \in Part : TableOf(v, q)' =
          IF v = w /\ q = r THEN b ELSE TableOf(v, q)
    <2> SUFFICES ASSUME NEW v \in Window, NEW q \in Part, root[v] # None
                 PROVE  table'[root[v]][q] = IF v = w /\ q = r THEN b ELSE table[root[v]][q]
      BY <1>1, <1>3, PageTableAssumption DEF IInv, TypeOK, TableOf
    <2>1. root[v] \in Block
      BY DEF IInv, TypeOK
    <2>2. table'[root[w]][r] = b
      BY <1>1, <1>3 DEF IInv, TypeOK
    <2> QED
      BY <1>5, <1>6, <2>1, <2>2
  <1>8. Owned'
    BY <1>1, <1>2, <1>5, <1>7 DEF IInv, Owned
  <1>9. Counts'
    <2>1. ASSUME NEW v \in Window, root[v] # None
          PROVE  tables'[v] = NumberIn(Part, table'[root[v]])
      <3>1. CASE v = w
        <4>1. /\ table[root[w]][r] = None /\ table'[root[w]][r] # None
              /\ \A q \in Part : q # r => table'[root[w]][q] = table[root[w]][q]
          BY <1>1, <1>2, <1>3, <1>6 DEF IInv, TypeOK
        <4>2. NumberIn(Part, table'[root[w]]) = NumberIn(Part, table[root[w]]) + 1
          BY <4>1, CountGains, PageTableAssumption, ZenonT(30)
        <4>3. tables'[w] = tables[w] + 1
          BY <1>1 DEF IInv, TypeOK
        <4> QED
          BY <2>1, <3>1, <4>2, <4>3 DEF IInv, Counts
      <3>2. CASE v # w
        <4>1. table'[root[v]] = table[root[v]] /\ tables'[v] = tables[v]
          BY <1>1, <1>5, <2>1, <3>2 DEF IInv, TypeOK
        <4> QED
          BY <2>1, <4>1 DEF IInv, Counts
      <3> QED
        BY <3>1, <3>2
    <2>2. ASSUME NEW v \in Window, NEW q \in Part, TableOf(v, q)' # None
          PROVE  item'[root[v]][q] = NumberIn(Page, entry'[TableOf(v, q)'])
      <3>1. CASE v = w /\ q = r
        <4>1. {x \in Page : entry'[b][x] # None} = {p}
          BY <1>1, <1>2 DEF IInv, TypeOK
        <4>2. NumberIn(Page, entry'[b]) = 1
          BY <4>1, FS_Singleton DEF NumberIn
        <4>3. item'[root[w]][r] = 1
          BY <1>1, <1>3 DEF IInv, TypeOK
        <4> QED
          BY <1>7, <3>1, <4>2, <4>3
      <3>2. CASE ~(v = w /\ q = r)
        <4>1. /\ TableOf(v, q)' = TableOf(v, q) /\ TableOf(v, q) # None
              /\ TableOf(v, q) # b /\ root[v] \in Block
          BY <1>5, <1>7, <2>2, <3>2, TableOfType DEF IInv
        <4>2. item'[root[v]][q] = item[root[v]][q]
          BY <1>5, <1>6, <3>2, <4>1
        <4>3. entry'[TableOf(v, q)] = entry[TableOf(v, q)]
          BY <1>1, <4>1, TableOfType DEF IInv, TypeOK
        <4> QED
          BY <4>1, <4>2, <4>3 DEF IInv, Counts
      <3> QED
        BY <3>1, <3>2
    <2>3. ASSUME NEW c \in Block, NEW q \in Part PROVE reference'[c][q] >= Times(ring, c, q)
      <3>1. CASE c = root[w] /\ q = r
        <4>1. reference'[root[w]][r] = 0
          BY <1>1, <1>3 DEF IInv, TypeOK
        <4> QED
          BY <1>3, <3>1, <4>1, OthersAreWalked
      <3>2. CASE ~(c = root[w] /\ q = r)
        BY <1>6, <3>2 DEF IInv, Counts
      <3> QED
        BY <3>1, <3>2
    <2> QED
      BY <1>1, <2>1, <2>2, <2>3 DEF Counts
  <1>10. Empty'
    BY <1>1, <1>2, <1>5 DEF IInv, TypeOK, Empty
  <1>11. walks' \subseteq walks /\ Walked'
    BY <1>1, KeepsWalked DEF IInv
  <1>12. Held'
    <2> SUFFICES ASSUME NEW e \in walks
                 PROVE  /\ reference'[e.dir][e.at[2]] > 0
                        /\ table'[e.dir][e.at[2]] = e.table
                        /\ \/ e.dir \in lost /\ e.table \in lost
                           \/ LET x == files[e.at[1]]
                              IN  x # None /\ root[x.w] = e.dir /\ Fits(x)'
      BY <1>1, <1>11 DEF Held
    <2>1. e.at[2] \in Part /\ e.dir \in Block
      BY LoadedFields DEF IInv, TypeOK
    <2>2. /\ reference'[e.dir][e.at[2]] = reference[e.dir][e.at[2]]
          /\ table'[e.dir][e.at[2]] = table[e.dir][e.at[2]]
      BY <1>3, <1>6, <2>1, OthersAreWalked
    <2> QED
      BY <1>1, <2>2 DEF IInv, Held, Fits
  <1>13. \A t \in tlb : Current(t)'
    <2> SUFFICES ASSUME NEW t \in tlb PROVE Current(t)'
      OBVIOUS
    <2>1. Current(t) /\ t.at[1] \in Slot /\ t.at[2] \in Part
      BY DEF IInv, TranslationsAreCurrent, TypeOK, Addr
    <2> DEFINE v == files[t.at[1]].w
               c == TableOf(v, t.at[2])
    <2>2. v \in Window
      BY <2>1, FileFields DEF Current, IInv
    <2>3. c # None /\ c # b /\ c \in Block
      BY <1>5, <2>1, <2>2, TableOfType DEF Current, IInv
    <2>4. ~(v = w /\ t.at[2] = r)
      BY <1>3, <2>3 DEF TableOf
    <2>5. TableOf(v, t.at[2])' = c /\ entry'[c][t.page] = entry[c][t.page]
      BY <1>1, <1>7, <2>1, <2>2, <2>3, <2>4 DEF IInv, TypeOK
    <2> QED
      BY <1>1, <2>1, <2>5, CurrentStays
  <1>14. TranslationsAreCurrent'
    BY <1>1, <1>4, <1>8, <1>10, <1>12, <1>13, KeepsCurrent
  <1> QED
    BY <1>4, <1>8, <1>9, <1>10, <1>11, <1>12, <1>14 DEF IInv

LEMMA SetInTableOK ==
  ASSUME IInv, NEW w \in Window, NEW r \in Part, NEW p \in Page, NEW f \in Frame,
         SetInTable(w, r, p, f)
  PROVE  IInv'
  <1> USE DEF windows, contents, loading, processor, ghosts
  <1> DEFINE b == TableOf(w, r)
  <1>1. /\ entry' = [entry EXCEPT ![b][p] = f]
        /\ UNCHANGED <<opened, root, tables, table, reference, free, ring, pointer, flush,
                       files, lost>>
        /\ \/ /\ entry[b][p] # None /\ item' = item /\ Invalidate(w, r, p)
           \/ /\ entry[b][p] = None /\ item' = [item EXCEPT ![root[w]][r] = @ + 1]
              /\ Keeps(walks, tlb)
        /\ b # None
    BY DEF SetInTable, HasPage
  <1>2. b \in Block /\ root[w] \in Block /\ table[root[w]][r] = b /\ f # None
    BY <1>1, TableOfType, PageTableAssumption DEF IInv
  <1>3. /\ \A v \in Window : root[v] # b /\ (root[v] = root[w] => v = w)
        /\ \A v \in Window, q \in Part : TableOf(v, q) = b => v = w /\ q = r
        /\ b \notin free /\ b \notin lost
    BY <1>1, <1>2, PageTableAssumption DEF IInv, TypeOK, Owned
  <1>4. PICK W \in SUBSET walks, T \in SUBSET tlb :
          /\ Keeps(W, T)
          /\ \A t \in T : t.page = p => t.at \notin At(w, r) \/ entry[b][p] = None
    BY <1>1 DEF Invalidate
  <1>5. TypeOK'
    <2>1. walks' \subseteq Loaded /\ tlb' \subseteq [at : Addr, page : Page, frame : Frame]
      <3>1. /\ ring' \in [Index -> Loaded \cup {None}]
            /\ entry' \in [Block -> [Page -> Frame \cup {None}]]
        BY <1>1 DEF IInv, TypeOK
      <3>2. W \subseteq Loaded /\ T \subseteq [at : Addr, page : Page, frame : Frame]
        BY <1>4 DEF IInv, TypeOK
      <3> QED
        BY <1>4, <3>1, <3>2, KeepsTyped
    <2> HIDE DEF b
    <2> QED
      BY <1>1, <1>2, <2>1 DEF IInv, TypeOK
  <1>6. \A v \in Window, q \in Part : TableOf(v, q)' = TableOf(v, q)
    BY <1>1 DEF TableOf
  <1>7. Owned'
    BY <1>1, <1>6 DEF IInv, Owned
  <1> HIDE DEF b
  <1>8. Counts'
    <2>1. ASSUME NEW v \in Window, NEW q \in Part, TableOf(v, q) # None
          PROVE  item'[root[v]][q] = NumberIn(Page, entry'[TableOf(v, q)])
      <3>1. TableOf(v, q) \in Block /\ root[v] \in Block
        BY <2>1, TableOfType DEF IInv
      <3>2. item[root[v]][q] = NumberIn(Page, entry[TableOf(v, q)])
        BY <2>1 DEF IInv, Counts
      <3>3. CASE v = w /\ q = r /\ entry[b][p] = None
        <4>1. entry'[b][p] # None /\ \A x \in Page : x # p => entry'[b][x] = entry[b][x]
          BY <1>1, <1>2 DEF IInv, TypeOK
        <4>2. NumberIn(Page, entry'[b]) = NumberIn(Page, entry[b]) + 1
          BY <3>3, <4>1, CountGains, PageTableAssumption
        <4>3. item'[root[w]][r] = item[root[w]][r] + 1
          BY <1>1, <1>2, <3>3 DEF IInv, TypeOK
        <4> QED
          BY <3>2, <3>3, <4>2, <4>3 DEF b
      <3>4. CASE v = w /\ q = r /\ entry[b][p] # None
        <4>1. {x \in Page : entry'[b][x] # None} = {x \in Page : entry[b][x] # None}
          BY <1>1, <1>2, <3>4 DEF IInv, TypeOK
        <4>2. NumberIn(Page, entry'[b]) = NumberIn(Page, entry[b])
          BY <4>1 DEF NumberIn
        <4>3. item' = item
          BY <1>1, <3>4
        <4> QED
          BY <3>2, <3>4, <4>2, <4>3 DEF b
      <3>5. CASE ~(v = w /\ q = r)
        <4>1. TableOf(v, q) # b
          BY <1>3, <3>5
        <4>2. entry'[TableOf(v, q)] = entry[TableOf(v, q)]
          BY <1>1, <3>1, <4>1 DEF IInv, TypeOK
        <4>3. item'[root[v]][q] = item[root[v]][q]
          BY <1>1, <1>3, <3>1, <3>5 DEF IInv, TypeOK
        <4> QED
          BY <3>2, <4>2, <4>3
      <3> QED
        BY <3>3, <3>4, <3>5
    <2> QED
      BY <1>1, <1>6, <2>1 DEF IInv, Counts
  <1>9. Empty'
    BY <1>1, <1>3 DEF IInv, TypeOK, Empty
  <1>10. walks' \subseteq walks /\ Walked'
    BY <1>1, <1>4, KeepsWalked DEF IInv
  <1>11. Held'
    BY <1>1, <1>10 DEF IInv, Held, Fits
  <1>12. \A t \in T : Current(t)'
    <2> SUFFICES ASSUME NEW t \in T PROVE Current(t)'
      OBVIOUS
    <2>1. Current(t) /\ t.at \in Addr /\ t.at[1] \in Slot /\ t.at[2] \in Part /\ t.frame # None
      BY <1>4, PageTableAssumption DEF IInv, TranslationsAreCurrent, TypeOK, Addr
    <2> DEFINE v == files[t.at[1]].w
               c == TableOf(v, t.at[2])
    <2>2. v \in Window
      BY <2>1, FileFields DEF Current, IInv
    <2>3. c # None /\ c \in Block /\ entry[c][t.page] # None /\ files[t.at[1]] # None
      BY <2>1, <2>2, TableOfType DEF Current, IInv
    <2>4. ~(c = b /\ t.page = p)
      <3> SUFFICES ASSUME c = b, t.page = p PROVE FALSE
        OBVIOUS
      <3>1. v = w /\ t.at[2] = r
        BY <1>3, <2>1, <2>2
      <3>2. t.at \in At(w, r)
        BY <2>1, <2>3, <3>1 DEF At
      <3> QED
        BY <1>4, <2>3, <3>2
    <2>5. TableOf(v, t.at[2])' = c /\ entry'[c][t.page] = entry[c][t.page]
      <3>1. TableOf(v, t.at[2])' = c
        BY <1>1, <1>6, <2>1, <2>2
      <3> HIDE DEF c, v
      <3> QED
        BY <1>1, <2>3, <2>4, <3>1 DEF IInv, TypeOK
    <2> QED
      BY <1>1, <2>1, <2>5, CurrentStays
  <1>13. TranslationsAreCurrent'
    BY <1>4, <1>5, <1>7, <1>9, <1>11, <1>12, KeepsCurrent
  <1> QED
    BY <1>5, <1>7, <1>8, <1>9, <1>10, <1>11, <1>13 DEF IInv

-----------------------------------------------------------------------------
(* Clearing a page, first when the table stays.                            *)
LEMMA ClearItemOK ==
  ASSUME IInv, NEW w \in Window, NEW r \in Part, NEW p \in Page, ClearItem(w, r, p)
  PROVE  IInv'
  <1> USE DEF windows, contents, loading, processor, ghosts
  <1> DEFINE b == TableOf(w, r)
             d == root[w]
             frees == ~ClearKeeps(w, r)
  <1>1. /\ entry' = [entry EXCEPT ![b][p] = None]
        /\ item' = [item EXCEPT ![d][r] = @ - 1]
        /\ UNCHANGED <<reference, ring, pointer, flush, files, lost>>
        /\ Invalidate(w, r, p)
        /\ b # None /\ entry[b][p] # None
    BY DEF ClearItem, HasPage
  <1>2. b \in Block /\ d \in Block /\ table[d][r] = b
    BY <1>1, TableOfType DEF IInv
  <1>3. /\ \A v \in Window : root[v] # b /\ (root[v] = d => v = w)
        /\ \A v \in Window, q \in Part : TableOf(v, q) # d
        /\ \A v \in Window, q \in Part : TableOf(v, q) = b => v = w /\ q = r
        /\ b \notin free /\ b \notin lost /\ d \notin free /\ d \notin lost
    <2>1. d # None
      BY <1>2, PageTableAssumption
    <2>2. \A v \in Window : root[v] # b /\ (root[v] = d => v = w)
      BY <1>1, <1>2, <2>1 DEF IInv, Owned
    <2>3. \A v \in Window, q \in Part : TableOf(v, q) # d
      BY <2>1 DEF IInv, Owned
    <2>4. \A v \in Window, q \in Part : TableOf(v, q) = b => v = w /\ q = r
      BY <1>1 DEF IInv, Owned
    <2>5. b \notin free /\ b \notin lost /\ d \notin free /\ d \notin lost
      BY DEF IInv, Owned
    <2> QED
      BY <2>2, <2>3, <2>4, <2>5
  <1>4. PICK W \in SUBSET walks, T \in SUBSET tlb :
          Keeps(W, T) /\ \A t \in T : t.page = p => t.at \notin At(w, r)
    BY <1>1 DEF Invalidate
  <1> HIDE DEF b, d, frees
  <1>5. NumberIn(Page, entry'[b]) \in Nat /\ item'[d][r] = NumberIn(Page, entry'[b])
    <2>1. entry'[b][p] = None /\ \A x \in Page : x # p => entry[b][x] = entry'[b][x]
      BY <1>1, <1>2 DEF IInv, TypeOK
    <2>2. /\ NumberIn(Page, entry'[b]) \in Nat
          /\ NumberIn(Page, entry[b]) = NumberIn(Page, entry'[b]) + 1
      <3> DEFINE old == entry[b]
                 new == entry'[b]
      <3>1. /\ new[p] = None /\ old[p] # None
            /\ \A x \in Page : x # p => old[x] = new[x]
        BY <1>1, <2>1
      <3> HIDE DEF old, new
      <3>2. NumberIn(Page, new) \in Nat /\ NumberIn(Page, old) = NumberIn(Page, new) + 1
        BY <3>1, CountGains, PageTableAssumption
      <3> QED
        BY <3>2 DEF old, new
    <2>3. item'[d][r] = item[d][r] - 1
      BY <1>1, <1>2 DEF IInv, TypeOK
    <2>4. item[d][r] = NumberIn(Page, entry[b])
      BY <1>1 DEF IInv, Counts, b, d
    <2> QED
      BY <2>2, <2>3, <2>4
  <1>6. /\ \A c \in Block : c # b => entry'[c] = entry[c]
        /\ \A c \in Block, q \in Part : ~(c = d /\ q = r) => item'[c][q] = item[c][q]
    BY <1>1, <1>2 DEF IInv, TypeOK
  <1>7. walks' \subseteq walks /\ Walked'
    BY <1>1, <1>4, KeepsWalked DEF IInv
  (* What may be freed has no pages and is not walked.                     *)
  <1>8. frees => \A x \in Page : entry'[b][x] = None
    <2> SUFFICES ASSUME frees PROVE \A x \in Page : entry'[b][x] = None
      OBVIOUS
    <2> DEFINE S == {x \in Page : entry'[b][x] # None}
    <2>1. Cardinality(S) = 0
      BY <1>5 DEF frees, ClearKeeps, NumberIn, d
    <2>2. IsFiniteSet(S)
      <3>1. S \in SUBSET Page
        OBVIOUS
      <3> HIDE DEF S
      <3> QED
        BY <3>1, FS_Subset, PageTableAssumption
    <2>3. S = {}
      BY <2>1, <2>2, FS_EmptySet
    <2> QED
      BY <2>3
  <1>9. frees => \A e \in walks : ~(e.dir = d /\ e.at[2] = r)
    <2> SUFFICES ASSUME frees PROVE \A e \in walks : ~(e.dir = d /\ e.at[2] = r)
      OBVIOUS
    <2>1. reference[d][r] \in Int
      BY <1>2 DEF IInv, TypeOK
    <2>2. reference[d][r] <= 0
      BY <2>1 DEF frees, ClearKeeps, d
    <2> QED
      BY <1>2, <2>2, OthersAreWalked
  (* The directory goes with its last table.                               *)
  <1>10. /\ opened' = opened
         /\ root' \in [Window -> Block \cup {None}] /\ tables' \in [Window -> Int]
         /\ table' \in [Block -> [Part -> Block \cup {None}]]
         /\ frees => table'[d][r] = None
         /\ \A c \in Block, q \in Part :
              ~(frees /\ c = d /\ q = r) => table'[c][q] = table[c][q]
         /\ \A v \in Window : v # w => root'[v] = root[v] /\ tables'[v] = tables[v]
         /\ root'[w] = d \/ (/\ frees /\ root'[w] = None
                             /\ \A q \in Part : q # r => table[d][q] = None)
         /\ root'[w] = d => tables'[w] = NumberIn(Part, table'[d])
         /\ free' \subseteq free \cup {b, d}
         /\ ~frees => free' = free
         /\ d \in free' => root'[w] = None
    <2>1. /\ opened \in [Window -> Key \cup {None}]
          /\ root \in [Window -> Block \cup {None}] /\ tables \in [Window -> Int]
          /\ table \in [Block -> [Part -> Block \cup {None}]]
          /\ root[w] = d /\ tables[w] = NumberIn(Part, table[d])
      <3>1. d # None
        BY <1>2, PageTableAssumption
      <3> QED
        BY <3>1 DEF IInv, TypeOK, Counts, d
    <2>2. CASE ~frees
      <3>1. UNCHANGED <<opened, root, tables, table, free>>
        BY <2>2 DEF ClearItem, frees
      <3>2. d \notin free'
        BY <1>3, <3>1
      <3> QED
        BY <2>1, <2>2, <3>1, <3>2
    <2>3. CASE frees
      <3>1. /\ opened' = opened
            /\ table' = [table EXCEPT ![d][r] = None]
            /\ \/ /\ tables[w] > 1
                  /\ tables' = [tables EXCEPT ![w] = @ - 1]
                  /\ free' = free \cup {b}
                  /\ root' = root
               \/ /\ ~(tables[w] > 1)
                  /\ tables' = [tables EXCEPT ![w] = 0]
                  /\ free' = free \cup {b, d}
                  /\ root' = [root EXCEPT ![w] = None]
        BY <2>3 DEF ClearItem, frees, b, d
      <3>2. /\ table' \in [Block -> [Part -> Block \cup {None}]]
            /\ table'[d][r] = None
            /\ \A c \in Block, q \in Part :
                 ~(c = d /\ q = r) => table'[c][q] = table[c][q]
        BY <1>2, <2>1, <3>1
      <3>3. /\ NumberIn(Part, table'[d]) \in Nat
            /\ tables[w] = NumberIn(Part, table'[d]) + 1
        <4> DEFINE old == table[d]
                   new == table'[d]
        <4>1. new[r] = None /\ old[r] # None
              /\ \A q \in Part : q # r => old[q] = new[q]
          BY <1>1, <1>2, <3>2
        <4> HIDE DEF old, new
        <4>2. NumberIn(Part, new) \in Nat /\ NumberIn(Part, old) = NumberIn(Part, new) + 1
          BY <4>1, CountGains, PageTableAssumption
        <4> QED
          BY <2>1, <4>2 DEF old, new
      <3>4. CASE tables[w] > 1
        <4>1. /\ tables' = [tables EXCEPT ![w] = @ - 1]
              /\ free' = free \cup {b} /\ root' = root
          BY <3>1, <3>4
        <4>2. tables'[w] = NumberIn(Part, table'[d])
          BY <2>1, <3>3, <4>1
        <4>3. tables' \in [Window -> Int] /\ \A v \in Window : v # w => tables'[v] = tables[v]
          BY <2>1, <4>1
        <4>4. d \notin free'
          BY <1>2, <1>3, <4>1 DEF b, d
        <4> QED
          BY <2>1, <2>3, <3>1, <3>2, <4>1, <4>2, <4>3, <4>4
      <3>5. CASE ~(tables[w] > 1)
        <4>1. \A q \in Part : q # r => table[d][q] = None
          <5> DEFINE S == {q \in Part : table'[d][q] # None}
          <5>1. Cardinality(S) = 0
            BY <3>3, <3>5 DEF NumberIn
          <5>2. IsFiniteSet(S)
            <6>1. S \in SUBSET Part
              OBVIOUS
            <6> HIDE DEF S
            <6> QED
              BY <6>1, FS_Subset, PageTableAssumption
          <5>3. S = {}
            BY <5>1, <5>2, FS_EmptySet
          <5> QED
            BY <1>2, <3>2, <5>3
        <4>2. root'[w] = None /\ d # None
          BY <1>2, <2>1, <3>1, <3>5, PageTableAssumption
        <4>3. /\ tables' = [tables EXCEPT ![w] = 0]
              /\ free' = free \cup {b, d} /\ root' = [root EXCEPT ![w] = None]
          BY <3>1, <3>5
        <4>4. tables' \in [Window -> Int] /\ \A v \in Window : v # w => tables'[v] = tables[v]
          BY <2>1, <4>3
        <4>5. /\ root' \in [Window -> Block \cup {None}]
              /\ \A v \in Window : v # w => root'[v] = root[v]
          BY <2>1, <4>3
        <4> QED
          BY <2>3, <3>1, <3>2, <4>1, <4>2, <4>3, <4>4, <4>5
      <3> QED
        BY <3>4, <3>5
    <2> QED
      BY <2>2, <2>3
  <1>11. \A v \in Window : root'[v] # None => root'[v] = root[v]
    BY <1>10 DEF d
  <1>12. \A v \in Window, q \in Part :
           /\ frees /\ v = w /\ q = r => TableOf(v, q)' = None
           /\ ~(frees /\ v = w /\ q = r) => TableOf(v, q)' = TableOf(v, q)
    <2> SUFFICES ASSUME NEW v \in Window, NEW q \in Part
                 PROVE  /\ frees /\ v = w /\ q = r => TableOf(v, q)' = None
                        /\ ~(frees /\ v = w /\ q = r) => TableOf(v, q)' = TableOf(v, q)
      OBVIOUS
    <2>1. CASE root'[v] = None /\ v # w
      BY <1>10, <2>1 DEF TableOf
    <2>2. CASE root'[v] = None /\ v = w
      BY <1>2, <1>10, <2>2, PageTableAssumption DEF TableOf, d
    <2>3. CASE root'[v] # None
      <3>1. root'[v] = root[v] /\ root[v] \in Block /\ (root[v] = d => v = w)
        BY <1>3, <1>11, <2>3 DEF IInv, TypeOK
      <3> QED
        BY <1>10, <2>3, <3>1 DEF TableOf, d
    <2> QED
      BY <2>1, <2>2, <2>3
  <1>13. TypeOK'
    <2>1. walks' \subseteq Loaded /\ tlb' \subseteq [at : Addr, page : Page, frame : Frame]
      <3>1. /\ ring' \in [Index -> Loaded \cup {None}]
            /\ entry' \in [Block -> [Page -> Frame \cup {None}]]
        BY <1>1 DEF IInv, TypeOK
      <3>2. W \subseteq Loaded /\ T \subseteq [at : Addr, page : Page, frame : Frame]
        BY <1>4 DEF IInv, TypeOK
      <3> QED
        BY <1>4, <3>1, <3>2, KeepsTyped
    <2>2. free' \subseteq Block
      BY <1>2, <1>10 DEF IInv, TypeOK
    <2>3. item' \in [Block -> [Part -> Int]] /\ entry' \in [Block -> [Page -> Frame \cup {None}]]
      BY <1>1, <1>2 DEF IInv, TypeOK
    <2> QED
      BY <1>1, <1>10, <2>1, <2>2, <2>3 DEF IInv, TypeOK
  <1>14. Owned'
    <2>1. free' \cap lost' = {}
      BY <1>1, <1>3, <1>10 DEF IInv, Owned
    <2>2. ASSUME NEW v \in Window
          PROVE  /\ opened'[v] = None => root'[v] = None
                 /\ root'[v] \notin free' \cup lost'
                 /\ \A q \in Part : TableOf(v, q)' \notin free' \cup lost'
      <3>1. None \notin free' \cup lost'
        BY <1>13, PageTableAssumption DEF TypeOK
      <3>2. root'[v] \notin free' \cup lost'
        BY <1>1, <1>3, <1>10, <1>11, <3>1 DEF IInv, Owned
      <3>3. ASSUME NEW q \in Part PROVE TableOf(v, q)' \notin free' \cup lost'
        <4>1. CASE frees /\ v = w /\ q = r
          BY <1>12, <3>1, <4>1
        <4>2. CASE ~(frees /\ v = w /\ q = r)
          <5>1. /\ TableOf(v, q)' = TableOf(v, q)
                /\ TableOf(v, q) \notin free \cup lost /\ TableOf(v, q) # d
            BY <1>3, <1>12, <4>2 DEF IInv, Owned
          <5>2. CASE frees
            BY <1>1, <1>3, <1>10, <4>2, <5>1, <5>2
          <5>3. CASE ~frees
            BY <1>1, <1>10, <5>1, <5>3
          <5> QED
            BY <5>2, <5>3
        <4> QED
          BY <4>1, <4>2
      <3>4. opened'[v] = None => root'[v] = None
        BY <1>10, <1>11 DEF IInv, Owned
      <3> QED
        BY <3>2, <3>3, <3>4
    <2>3. \A v, u \in Window : root'[v] # None =>
            /\ root'[v] = root'[u] => v = u
            /\ \A q \in Part : TableOf(u, q)' # root'[v]
      BY <1>11, <1>12 DEF IInv, Owned
    <2>4. \A v, u \in Window, q, x \in Part :
            TableOf(v, q)' # None /\ TableOf(v, q)' = TableOf(u, x)' => v = u /\ q = x
      BY <1>12 DEF IInv, Owned
    <2> QED
      BY <2>1, <2>2, <2>3, <2>4 DEF Owned
  <1>15. Counts'
    <2>1. ASSUME NEW v \in Window, root'[v] # None
          PROVE  tables'[v] = NumberIn(Part, table'[root'[v]])
      <3>1. CASE v = w
        BY <1>10, <1>11, <2>1, <3>1 DEF d
      <3>2. CASE v # w
        <4>1. root'[v] = root[v] /\ root[v] # d /\ root[v] \in Block /\ tables'[v] = tables[v]
          BY <1>3, <1>10, <1>11, <2>1, <3>2 DEF IInv, TypeOK
        <4>2. table'[root[v]] = table[root[v]]
          BY <1>10, <4>1 DEF IInv, TypeOK
        <4> QED
          BY <2>1, <4>1, <4>2 DEF IInv, Counts
      <3> QED
        BY <3>1, <3>2
    <2>2. ASSUME NEW v \in Window, NEW q \in Part, TableOf(v, q)' # None
          PROVE  item'[root'[v]][q] = NumberIn(Page, entry'[TableOf(v, q)'])
      <3>1. TableOf(v, q)' = TableOf(v, q) /\ TableOf(v, q) # None
        BY <1>12, <2>2
      <3>2. root'[v] = root[v] /\ root[v] \in Block /\ TableOf(v, q) \in Block
        <4>1. root'[v] # None
          BY <2>2 DEF TableOf
        <4> QED
          BY <1>11, <3>1, <4>1, TableOfType DEF IInv
      <3>3. CASE v = w /\ q = r
        BY <1>5, <3>1, <3>2, <3>3 DEF b, d
      <3>4. CASE ~(v = w /\ q = r)
        <4>1. TableOf(v, q) # b /\ ~(root[v] = d /\ q = r)
          BY <1>3, <3>4
        <4> QED
          BY <1>6, <3>1, <3>2, <4>1 DEF IInv, Counts
      <3> QED
        BY <3>3, <3>4
    <2> QED
      BY <1>1, <2>1, <2>2 DEF IInv, Counts
  <1>16. Empty'
    <2> SUFFICES ASSUME NEW c \in Block, NEW x \in Page,
                        c \in free' \cup lost' \/ \E v \in Window : root'[v] = c
                 PROVE  entry'[c][x] = None
      BY DEF Empty
    <2>1. CASE c = b
      <3>1. frees
        BY <1>1, <1>3, <1>10, <1>11, <1>2, PageTableAssumption, <2>1
      <3> QED
        BY <1>8, <2>1, <3>1
    <2>2. CASE c # b
      <3>1. c \in free \cup lost \/ \E v \in Window : root[v] = c
        BY <1>1, <1>2, <1>10, <1>11, <2>2, PageTableAssumption DEF d
      <3>2. entry[c][x] = None
        BY <3>1 DEF IInv, Empty
      <3> QED
        BY <1>6, <2>2, <3>2
    <2> QED
      BY <2>1, <2>2
  <1>17. Held'
    <2> SUFFICES ASSUME NEW e \in walks
                 PROVE  /\ reference[e.dir][e.at[2]] > 0
                        /\ table'[e.dir][e.at[2]] = e.table
                        /\ \/ e.dir \in lost /\ e.table \in lost
                           \/ LET x == files[e.at[1]]
                              IN  x # None /\ root'[x.w] = e.dir /\ Fits(x)
      BY <1>1, <1>7, <1>10 DEF Held, Fits
    <2>1. e.at[1] \in Slot /\ e.at[2] \in Part /\ e.dir \in Block /\ e.table # None
      BY LoadedFields DEF IInv, TypeOK
    <2>2. ~(frees /\ e.dir = d /\ e.at[2] = r)
      BY <1>9
    <2>3. table'[e.dir][e.at[2]] = table[e.dir][e.at[2]] /\ table[e.dir][e.at[2]] = e.table
      BY <1>10, <2>1, <2>2 DEF IInv, Held
    <2>4. CASE files[e.at[1]] # None /\ root[files[e.at[1]].w] = e.dir /\ Fits(files[e.at[1]])
      <3> DEFINE v == files[e.at[1]].w
      <3>1. v \in Window
        BY <2>1, <2>4, FileFields DEF IInv
      <3>2. CASE v = w
        BY <1>10, <2>1, <2>2, <2>3, <2>4, <3>2 DEF IInv, Held, d
      <3>3. CASE v # w
        BY <1>10, <2>3, <2>4, <3>1, <3>3 DEF IInv, Held
      <3> QED
        BY <3>2, <3>3
    <2> QED
      BY <2>3, <2>4 DEF IInv, Held
  <1>18. \A t \in T : Current(t)'
    <2> SUFFICES ASSUME NEW t \in T PROVE Current(t)'
      OBVIOUS
    <2>1. Current(t) /\ t.at \in Addr /\ t.at[1] \in Slot /\ t.at[2] \in Part /\ t.frame # None
          /\ t.page \in Page
      BY <1>4, PageTableAssumption DEF IInv, TranslationsAreCurrent, TypeOK, Addr
    <2> DEFINE v == files[t.at[1]].w
               c == TableOf(v, t.at[2])
    <2>2. v \in Window
      BY <2>1, FileFields DEF Current, IInv
    <2>3. c # None /\ c \in Block /\ entry[c][t.page] # None /\ files[t.at[1]] # None
      BY <2>1, <2>2, TableOfType DEF Current, IInv
    <2>4. ~(c = b /\ t.page = p)
      <3> SUFFICES ASSUME c = b, t.page = p PROVE FALSE
        OBVIOUS
      <3>1. v = w /\ t.at[2] = r
        BY <1>3, <2>1, <2>2
      <3>2. t.at \in At(w, r)
        BY <2>1, <2>3, <3>1 DEF At
      <3> QED
        BY <1>4, <3>2
    <2>5. entry'[c][t.page] = entry[c][t.page]
      <3>1. entry \in [Block -> [Page -> Frame \cup {None}]]
        BY DEF IInv, TypeOK
      <3> HIDE DEF c
      <3> QED
        BY <1>1, <1>2, <2>1, <2>3, <2>4, <3>1
    <2>6. ~(frees /\ v = w /\ t.at[2] = r)
      BY <1>8, <2>1, <2>3, <2>5 DEF b
    <2>7. TableOf(v, t.at[2])' = c
      BY <1>1, <1>12, <2>1, <2>2, <2>6
    <2> QED
      BY <1>1, <1>10, <2>1, <2>5, <2>7, CurrentStays
  <1>19. TranslationsAreCurrent'
    BY <1>4, <1>13, <1>14, <1>16, <1>17, <1>18, KeepsCurrent
  <1> QED
    BY <1>7, <1>13, <1>14, <1>15, <1>16, <1>17, <1>19 DEF IInv

-----------------------------------------------------------------------------
(* A page fault, and a thread that goes on.                                *)
LEMMA EntryTyped ==
  ASSUME TypeOK, NEW fs \in [Slot -> File \cup {None}], NEW a \in Addr, fs[a[1]] # None
  PROVE  LET e == EntryFor(fs, a)
         IN  /\ e \in Loaded \cup {None}
             /\ e # None => /\ e.at = a /\ e.dir = root[fs[a[1]].w]
                            /\ table[e.dir][a[2]] = e.table
  <1>1. a[1] \in Slot /\ a[2] \in Part /\ fs[a[1]].w \in Window
    BY DEF Addr, File
  <1>2. TableOf(fs[a[1]].w, a[2]) # None =>
          /\ TableOf(fs[a[1]].w, a[2]) \in Block /\ root[fs[a[1]].w] \in Block
          /\ table[root[fs[a[1]].w]][a[2]] = TableOf(fs[a[1]].w, a[2])
    BY <1>1, TableOfType
  <1> QED
    BY <1>1, <1>2 DEF EntryFor, Loaded

LEMMA FaultOK ==
  ASSUME IInv, NEW a \in Addr, Fault(a)
  PROVE  IInv'
  <1> USE DEF windows, contents, loading, processor, ghosts
  <1> DEFINE e == EntryFor(files, a)
  <1>1. /\ Allowed(files, a)
        /\ flush' = (flush \/ ring[pointer] # None)
        /\ ring' = [ring EXCEPT ![pointer] = e]
        /\ reference' = Refers(reference, e)
        /\ pointer' = IF e = None THEN pointer ELSE (pointer + 1) % RingSize
        /\ UNCHANGED <<opened, root, tables, table, item, entry, free, files, lost>>
        /\ Keeps(walks, tlb)
    BY DEF Fault, Evicts
  <1>2. /\ e \in Loaded \cup {None}
        /\ e # None => /\ e.at = a /\ e.dir = root[files[a[1]].w]
                       /\ table[e.dir][a[2]] = e.table
        /\ files[a[1]] # None /\ Fits(files[a[1]])
    BY <1>1, EntryTyped DEF IInv, TypeOK, Allowed
  <1> HIDE DEF e
  <1>3. pointer \in Index /\ ring'[pointer] = e /\ \A j \in Index : j # pointer => ring'[j] = ring[j]
    BY <1>1 DEF IInv, TypeOK
  <1>4. InRing(ring') \subseteq InRing(ring) \cup ({e} \ {None})
    BY <1>3 DEF InRing
  <1>5. \A d \in Block, r \in Part :
          /\ reference'[d][r] = reference[d][r] + Counted(d, r, e)
          /\ Counted(d, r, e) \in {0, 1} /\ reference[d][r] \in Int
    BY <1>1 DEF IInv, TypeOK, Refers, Counted
  <1>6. TypeOK'
    <2>1. ring' \in [Index -> Loaded \cup {None}]
      BY <1>1, <1>2 DEF IInv, TypeOK
    <2>2. walks' \subseteq Loaded /\ tlb' \subseteq [at : Addr, page : Page, frame : Frame]
      BY <1>1, <2>1, KeepsTyped DEF IInv, TypeOK
    <2>3. pointer' \in Index
      BY <1>1, <1>3, PageTableAssumption DEF Index
    <2>4. reference' \in [Block -> [Part -> Int]]
      <3>1. \A d \in Block, r \in Part : reference[d][r] + Counted(d, r, e) \in Int
        BY <1>5
      <3> QED
        BY <1>1, <3>1 DEF Refers
    <2>5. flush' \in BOOLEAN
      BY <1>1 DEF IInv, TypeOK
    <2> QED
      BY <1>1, <2>1, <2>2, <2>3, <2>4, <2>5 DEF IInv, TypeOK
  <1>7. \A v \in Window, r \in Part : TableOf(v, r)' = TableOf(v, r)
    BY <1>1 DEF TableOf
  <1>8. Owned' /\ Empty'
    BY <1>1, <1>7 DEF IInv, Owned, Empty
  <1>9. Counts'
    <2>1. ASSUME NEW d \in Block, NEW r \in Part PROVE reference'[d][r] >= Times(ring', d, r)
      <3>1. Times(ring', d, r) <= Times(ring, d, r) + Counted(d, r, e)
        BY <1>3, TimesAfter
      <3>2. Times(ring, d, r) \in Nat /\ Times(ring', d, r) \in Nat
        BY TimesBySlots
      <3>3. reference[d][r] >= Times(ring, d, r)
        BY DEF IInv, Counts
      <3> QED
        BY <1>5, <3>1, <3>2, <3>3
    <2> QED
      BY <1>1, <1>7, <2>1 DEF IInv, Counts
  <1>10. Held'
    <2> SUFFICES ASSUME NEW x \in walks'
                 PROVE  /\ reference'[x.dir][x.at[2]] > 0
                        /\ table[x.dir][x.at[2]] = x.table
                        /\ \/ x.dir \in lost /\ x.table \in lost
                           \/ LET f == files[x.at[1]]
                              IN  f # None /\ root[f.w] = x.dir /\ Fits(f)
      BY <1>1 DEF Held, Fits
    <2>1. x \in Loaded /\ x.dir \in Block /\ x.at[2] \in Part
      BY <1>6, LoadedFields DEF TypeOK
    <2>2. CASE x \in walks
      BY <1>5, <2>1, <2>2 DEF IInv, Held
    <2>3. CASE x = e
      <3>1. Counted(x.dir, x.at[2], e) = 1
        BY <2>1, <2>3, PageTableAssumption DEF Counted
      <3>2. reference[x.dir][x.at[2]] >= 0
        <4>1. Times(ring, x.dir, x.at[2]) \in Nat
          BY TimesBySlots
        <4>2. reference[x.dir][x.at[2]] >= Times(ring, x.dir, x.at[2])
          BY <2>1 DEF IInv, Counts
        <4> QED
          BY <1>5, <2>1, <4>1, <4>2
      <3>3. x # None
        BY <2>1, PageTableAssumption
      <3>4. reference'[x.dir][x.at[2]] > 0
        BY <1>5, <2>1, <3>1, <3>2
      <3> QED
        BY <1>2, <2>3, <3>3, <3>4
    <2> QED
      BY <1>1, <1>4, <2>2, <2>3 DEF IInv, Walked, Keeps
  <1>11. Walked'
    <2>1. InRing(ring') \subseteq walks'
      BY <1>1 DEF Keeps
    <2>2. ASSUME ~flush'
          PROVE  /\ walks' \subseteq InRing(ring')
                 /\ \A t \in tlb' : \E x \in InRing(ring') : x.at = t.at
      <3>1. ~flush /\ ring[pointer] = None
        BY <1>1, <2>2
      <3>2. InRing(ring) \subseteq InRing(ring')
        BY <1>3, <3>1 DEF InRing
      <3>3. walks' \subseteq InRing(ring')
        BY <1>1, <3>1, <3>2 DEF IInv, Walked, Keeps
      <3>4. \A t \in tlb' : t \in tlb \/ \E x \in walks' : x.at = t.at
        BY <1>1, KeepsPlaces
      <3> QED
        BY <3>1, <3>2, <3>3, <3>4 DEF IInv, Walked
    <2> QED
      BY <2>1, <2>2 DEF Walked
  <1>12. \A t \in tlb : Current(t)'
    <2> SUFFICES ASSUME NEW t \in tlb PROVE Current(t)'
      OBVIOUS
    <2>1. Current(t)
      BY DEF IInv, TranslationsAreCurrent
    <2>2. TableOf(files[t.at[1]].w, t.at[2])' = TableOf(files[t.at[1]].w, t.at[2])
      BY <1>1 DEF TableOf
    <2> QED
      BY <1>1, <2>1, <2>2, CurrentStays
  <1>13. TranslationsAreCurrent'
    BY <1>1, <1>6, <1>8, <1>10, <1>12, KeepsCurrent
  <1> QED
    BY <1>6, <1>8, <1>9, <1>10, <1>11, <1>13 DEF IInv

LEMMA ReloadedTyped ==
  ASSUME TypeOK, NEW t \in Threads, NEW i \in Index
  PROVE  LET x == Reloaded(t.files, t.recent)[i]
         IN  x = None \/ /\ x \in Loaded
                         /\ t.files[x.at[1]] # None /\ Fits(t.files[x.at[1]])
                         /\ x.dir = root[t.files[x.at[1]].w]
                         /\ table[x.dir][x.at[2]] = x.table
  <1> DEFINE n == ((i + RingSize - pointer) % RingSize) + 1
             D == DOMAIN t.recent
             k == CHOOSE j \in D : IsLoad(t.files, t.recent, j, n)
  <1>1. Reloaded(t.files, t.recent)[i] =
          IF \E j \in D : IsLoad(t.files, t.recent, j, n)
          THEN EntryFor(t.files, t.recent[k]) ELSE None
    BY DEF Reloaded
  <1>2. t.files \in [Slot -> File \cup {None}] /\ \A j \in D : t.recent[j] \in Addr
    BY PageTableAssumption DEF Recent
  <1>3. CASE \E j \in D : IsLoad(t.files, t.recent, j, n)
    <2>1. k \in D /\ IsLoad(t.files, t.recent, k, n)
      BY <1>3
    <2> DEFINE a == t.recent[k]
    <2> HIDE DEF n, k
    <2>2. a \in Addr /\ Allowed(t.files, a) /\ EntryFor(t.files, a) # None
      BY <1>2, <2>1 DEF IsLoad, Loads
    <2>3. Reloaded(t.files, t.recent)[i] = EntryFor(t.files, a)
      BY <1>1, <1>3
    <2> HIDE DEF a
    <2>4. t.files[a[1]] # None /\ Fits(t.files[a[1]])
      BY <2>2 DEF Allowed
    <2> QED
      BY <1>2, <2>2, <2>3, <2>4, EntryTyped
  <1>4. CASE ~\E j \in D : IsLoad(t.files, t.recent, j, n)
    BY <1>1, <1>4
  <1> QED
    BY <1>3, <1>4

LEMMA RestoreOK ==
  ASSUME IInv, NEW t \in Threads, Restore(t.files, t.recent)
  PROVE  IInv'
  <1> USE DEF windows, contents, loading, processor, ghosts
  <1>1. /\ files' = t.files
        /\ flush' = FALSE
        /\ UNCHANGED <<opened, root, tables, table, item, entry, free, lost>>
    BY DEF Restore
  <1>2. \A v \in Window, r \in Part : TableOf(v, r)' = TableOf(v, r)
    BY <1>1 DEF TableOf
  <1>3. Owned' /\ Empty'
    BY <1>1, <1>2 DEF IInv, Owned, Empty
  <1>4. files' \in [Slot -> File \cup {None}]
    BY <1>1, PageTableAssumption
  <1>5. CASE modified \/ t.files # files
    <2>1. /\ ring' = Reloaded(t.files, t.recent)
          /\ reference' = [d \in Block |-> [r \in Part |->
                             reference[d][r] - Times(ring, d, r) + Times(ring', d, r)]]
          /\ pointer' = 0
      BY <1>5 DEF Restore, NotifyThreadSwitch
    <2>2. Keeps({}, {})
      <3>1. CASE flush \/ InRing(ring) # {}
        BY <1>5, <3>1 DEF Restore
      <3>2. CASE ~flush /\ InRing(ring) = {}
        <4>1. Keeps(walks, tlb)
          BY <3>2 DEF Restore
        <4>2. walks = {} /\ tlb = {}
          BY <3>2 DEF IInv, Walked
        <4> QED
          BY <4>1, <4>2
      <3> QED
        BY <3>1, <3>2
    <2>3. walks' = InRing(ring')
      BY <2>2 DEF Keeps
    <2>4. \A x \in walks' :
            /\ x \in Loaded
            /\ t.files[x.at[1]] # None /\ Fits(t.files[x.at[1]])
            /\ x.dir = root[t.files[x.at[1]].w]
            /\ table[x.dir][x.at[2]] = x.table
      <3> SUFFICES ASSUME NEW x \in InRing(ring')
                   PROVE  /\ x \in Loaded
                          /\ t.files[x.at[1]] # None /\ Fits(t.files[x.at[1]])
                          /\ x.dir = root[t.files[x.at[1]].w]
                          /\ table[x.dir][x.at[2]] = x.table
        BY <2>3
      <3>1. PICK i \in Index : x = ring'[i] /\ x # None
        BY DEF InRing
      <3>2. TypeOK /\ t \in Threads /\ x = Reloaded(t.files, t.recent)[i]
        BY <2>1, <3>1 DEF IInv
      <3> QED
        BY <3>1, <3>2, ReloadedTyped
    <2>5. ring' \in [Index -> Loaded \cup {None}]
      <3>1. \A i \in Index : ring'[i] \in Loaded \cup {None}
        BY <2>1, ReloadedTyped DEF IInv
      <3>2. ring' = [i \in Index |-> ring'[i]]
        BY <2>1 DEF Reloaded
      <3> QED
        BY <3>1, <3>2
    <2>6. \A d \in Block, r \in Part :
            reference'[d][r] \in Int /\ reference'[d][r] >= Times(ring', d, r)
      <3> SUFFICES ASSUME NEW d \in Block, NEW r \in Part
                   PROVE  reference'[d][r] \in Int /\ reference'[d][r] >= Times(ring', d, r)
        OBVIOUS
      <3>1. reference'[d][r] = reference[d][r] - Times(ring, d, r) + Times(ring', d, r)
        BY <2>1
      <3>2. reference[d][r] \in Int /\ reference[d][r] >= Times(ring, d, r)
        BY DEF IInv, TypeOK, Counts
      <3>3. Times(ring, d, r) \in Nat /\ Times(ring', d, r) \in Nat
        BY TimesBySlots
      <3> QED
        BY <3>1, <3>2, <3>3
    <2>7. TypeOK'
      <3>1. walks' \subseteq Loaded /\ tlb' \subseteq [at : Addr, page : Page, frame : Frame]
        <4>1. entry' \in [Block -> [Page -> Frame \cup {None}]]
          BY <1>1 DEF IInv, TypeOK
        <4> QED
          BY <2>2, <2>5, <4>1, KeepsTyped
      <3>2. reference' \in [Block -> [Part -> Int]]
        BY <2>1, <2>6
      <3>3. pointer' \in Index
        BY <2>1, PageTableAssumption DEF Index
      <3> QED
        BY <1>1, <1>4, <2>5, <3>1, <3>2, <3>3 DEF IInv, TypeOK
    <2>8. Counts'
      BY <1>1, <1>2, <2>6 DEF IInv, Counts
    <2>9. Held'
      <3>1. ASSUME NEW x \in walks' PROVE reference'[x.dir][x.at[2]] > 0
        <4>1. x \in Loaded /\ x.dir \in Block /\ x.at[2] \in Part
          BY <2>4, LoadedFields
        <4>2. Slots(ring', x.dir, x.at[2]) # {}
          BY <2>3, InRingMember DEF Slots
        <4>3. Times(ring', x.dir, x.at[2]) \in Nat /\ Times(ring', x.dir, x.at[2]) # 0
          BY <4>2, TimesBySlots
        <4> QED
          BY <2>6, <4>1, <4>3
      <3> QED
        BY <1>1, <2>4, <3>1 DEF Held, Fits
    <2>10. Walked'
      BY <2>2, <2>3, KeepsPlaces DEF Walked
    <2>11. TranslationsAreCurrent'
      BY <1>3, <2>2, <2>7, <2>9, KeepsCurrent
    <2> QED
      BY <1>3, <2>7, <2>8, <2>9, <2>10, <2>11 DEF IInv
  <1>6. CASE ~modified /\ t.files = files
    <2>1. UNCHANGED <<ring, reference, pointer>> /\ files' = files
      BY <1>1, <1>6 DEF Restore
    <2>2. PICK W \in SUBSET walks, T \in SUBSET tlb :
            Keeps(W, T) /\ (flush => W = {} /\ T = {})
      BY <1>6 DEF Restore
    <2>3. walks' \subseteq walks
      BY <2>1, <2>2 DEF IInv, Walked, Keeps
    <2>4. TypeOK'
      <3>1. walks' \subseteq Loaded /\ tlb' \subseteq [at : Addr, page : Page, frame : Frame]
        <4>1. /\ ring' \in [Index -> Loaded \cup {None}]
              /\ entry' \in [Block -> [Page -> Frame \cup {None}]]
          BY <1>1, <2>1 DEF IInv, TypeOK
        <4>2. W \subseteq Loaded /\ T \subseteq [at : Addr, page : Page, frame : Frame]
          BY <2>2 DEF IInv, TypeOK
        <4> QED
          BY <2>2, <4>1, <4>2, KeepsTyped
      <3> QED
        BY <1>1, <1>4, <2>1, <3>1 DEF IInv, TypeOK
    <2>5. Counts'
      BY <1>1, <1>2, <2>1 DEF IInv, Counts
    <2>6. Held'
      BY <1>1, <2>1, <2>3 DEF IInv, Held, Fits
    <2>7. Walked'
      <3>1. InRing(ring') = InRing(ring) /\ walks' = W \cup InRing(ring)
        BY <2>1, <2>2 DEF Keeps, InRing
      <3>2. walks' = InRing(ring')
        BY <2>2, <3>1 DEF IInv, Walked
      <3>3. \A x \in T : \E y \in InRing(ring') : y.at = x.at
        BY <2>2, <3>1 DEF IInv, Walked
      <3>4. \A x \in tlb' : x \in T \/ \E y \in walks' : y.at = x.at
        BY <2>2, KeepsPlaces
      <3> QED
        BY <3>2, <3>3, <3>4 DEF Walked
    <2>8. \A x \in T : Current(x)'
      <3> SUFFICES ASSUME NEW x \in T PROVE Current(x)'
        OBVIOUS
      <3>1. Current(x)
        BY <2>2 DEF IInv, TranslationsAreCurrent
      <3>2. TableOf(files[x.at[1]].w, x.at[2])' = TableOf(files[x.at[1]].w, x.at[2])
        BY <1>1, <2>1 DEF TableOf
      <3> QED
        BY <1>1, <2>1, <3>1, <3>2, CurrentStays
    <2>9. TranslationsAreCurrent'
      BY <1>3, <2>2, <2>4, <2>6, <2>8, KeepsCurrent
    <2> QED
      BY <1>3, <2>4, <2>5, <2>6, <2>7, <2>9 DEF IInv
  <1> QED
    BY <1>5, <1>6

-----------------------------------------------------------------------------
(* No step, of any thread or window, breaks the invariant.                 *)
LEMMA StepOK == IInv /\ [Next]_vars => IInv'
  <1> SUFFICES ASSUME IInv, [Next]_vars PROVE IInv'
    OBVIOUS
  <1>1. CASE UNCHANGED vars
    <2>1. UNCHANGED <<opened, root, tables, table, item, reference, entry, free, ring,
                      pointer, flush, files, walks, tlb, lost>>
      BY <1>1 DEF vars, windows, contents, loading, processor, ghosts
    <2>2. TypeOK' /\ Empty'
      BY <2>1 DEF IInv, TypeOK, Empty
    <2>3. Owned' /\ Counts'
      BY <2>1 DEF IInv, Owned, Counts, TableOf
    <2>4. Held' /\ Walked'
      BY <2>1 DEF IInv, Held, Walked, Fits, InRing
    <2>5. TranslationsAreCurrent'
      BY <2>1 DEF IInv, TranslationsAreCurrent, Current, Fits, TableOf
    <2> QED
      BY <2>2, <2>3, <2>4, <2>5 DEF IInv
  <1>2. ASSUME NEW w \in Window, NEW k \in Key, Mount(w, k) PROVE IInv'
    BY <1>2, MountOK
  <1>3. ASSUME NEW w \in Window, Unmount(w) PROVE IInv'
    BY <1>3, UnmountOK
  <1>4. ASSUME NEW w \in Window, NEW r \in Part, NEW p \in Page, ClearItem(w, r, p) PROVE IInv'
    BY <1>4, ClearItemOK
  <1>5. ASSUME NEW w \in Window, NEW r \in Part, NEW p \in Page, NEW f \in Frame,
               SetItem(w, r, p, f)
        PROVE  IInv'
    <2>1. opened[w] # None
      BY <1>5 DEF SetItem, PartsOf
    <2>2. PICK b \in free : \/ SetDirectory(w, b) \/ SetInNewTable(w, r, p, f, b)
                            \/ SetInTable(w, r, p, f)
      BY <1>5 DEF SetItem
    <2> QED
      BY <2>1, <2>2, SetDirectoryOK, SetInNewTableOK, SetInTableOK
  <1>6. ASSUME NEW a \in Addr, Fault(a) PROVE IInv'
    BY <1>6, FaultOK
  <1>7. ASSUME NEW t \in Threads, Restore(t.files, t.recent) PROVE IInv'
    BY <1>7, RestoreOK
  <1> QED
    BY <1>1, <1>2, <1>3, <1>4, <1>5, <1>6, <1>7 DEF Next

-----------------------------------------------------------------------------
(* A table that the processor may walk is never on the free list, and is   *)
(* what the thread that runs has there, or a table nobody will use again.  *)
(* (tlb.c and page_table.c: tables are given back by their counts alone.)  *)
THEOREM PageTableLoadedTablesAreLive == Spec => []LoadedTablesAreLive
  <1>1. IInv => LoadedTablesAreLive
    BY LiveByInvariant
  <1> QED
    BY InitOK, StepOK, <1>1, PTL DEF Spec

(* No translation that the processor may use is stale: not after a page is *)
(* cleared or moved, nor after another thread goes on.                     *)
THEOREM PageTableTranslationsAreCurrent == Spec => []TranslationsAreCurrent
  <1>1. IInv => TranslationsAreCurrent
    BY DEF IInv
  <1> QED
    BY InitOK, StepOK, <1>1, PTL DEF Spec
-----------------------------------------------------------------------------
(* The exact counts.  Every reference is a slot of the ring or leaked, and *)
(* only a table, or a lost directory, has any: so nothing is forgotten when*)
(* a directory or a table begins with none.                                *)
Exact ==
  /\ leaked \in [Block -> [Part -> Int]]
  /\ \A d \in Block, r \in Part : reference[d][r] = Times(ring, d, r) + leaked[d][r]

Unreferenced ==
  \A d \in Block, r \in Part :
    \/ reference[d][r] = 0
    \/ d \in lost
    \/ \E w \in Window : root[w] = d /\ table[d][r] # None

Used == \A b \in Block : b \in free \cup lost \/ \E w \in Window : b \in BlocksOf(w)

Whole == IInv /\ Exact /\ Unreferenced /\ Used

LEMMA TimesSwaps ==
  ASSUME NEW rg, NEW new, NEW i \in Index, NEW e, NEW d, NEW r,
         new[i] = e, \A j \in Index : j # i => new[j] = rg[j]
  PROVE  Times(new, d, r) + Counted(d, r, rg[i]) = Times(rg, d, r) + Counted(d, r, e)
  <1> DEFINE Rest == {j \in Index : j # i /\ rg[j] # None /\ rg[j].dir = d /\ rg[j].at[2] = r}
             Old == Slots(rg, d, r)
             New == Slots(new, d, r)
  <1>1. Rest \in SUBSET Index /\ i \notin Rest
    OBVIOUS
  <1>2. Old = IF Counted(d, r, rg[i]) = 1 THEN Rest \cup {i} ELSE Rest
    BY DEF Slots, Counted
  <1>3. New = IF Counted(d, r, e) = 1 THEN Rest \cup {i} ELSE Rest
    BY DEF Slots, Counted
  <1>4. Times(rg, d, r) = Cardinality(Old) /\ Times(new, d, r) = Cardinality(New)
    BY TimesBySlots
  <1>5. Counted(d, r, e) \in {0, 1} /\ Counted(d, r, rg[i]) \in {0, 1}
    BY DEF Counted
  <1> HIDE DEF Rest, Old, New
  <1>6. IsFiniteSet(Rest)
    BY <1>1, IndexIsFinite, FS_Subset
  <1>7. Cardinality(Rest) \in Nat /\ Cardinality(Rest \cup {i}) = Cardinality(Rest) + 1
    BY <1>1, <1>6, FS_CardinalityType, FS_AddElement
  <1> QED
    BY <1>2, <1>3, <1>4, <1>5, <1>7

(* A block that begins as a directory, and a part that begins to have a    *)
(* table, have no reference.                                               *)
LEMMA NewIsUnreferenced ==
  ASSUME IInv, Unreferenced
  PROVE  /\ \A d \in free, r \in Part : reference[d][r] = 0
         /\ \A w \in Window, r \in Part :
              root[w] # None /\ TableOf(w, r) = None => reference[root[w]][r] = 0
  <1>1. ASSUME NEW d \in free, NEW r \in Part PROVE reference[d][r] = 0
    <2>1. d \in Block /\ d \notin lost /\ \A w \in Window : root[w] # d
      BY DEF IInv, TypeOK, Owned
    <2> QED
      BY <2>1 DEF Unreferenced
  <1>2. ASSUME NEW w \in Window, NEW r \in Part, root[w] # None, TableOf(w, r) = None
        PROVE  reference[root[w]][r] = 0
    <2>1. root[w] \in Block /\ root[w] \notin lost /\ table[root[w]][r] = None
      BY <1>2 DEF IInv, TypeOK, Owned, TableOf
    <2> QED
      BY <2>1 DEF Unreferenced
  <1> QED
    BY <1>1, <1>2

LEMMA InitWhole == Init => Whole
  <1> SUFFICES ASSUME Init PROVE Whole
    OBVIOUS
  <1>1. \A d \in Block, r \in Part : Times(ring, d, r) = 0
    <2> SUFFICES ASSUME NEW d \in Block, NEW r \in Part PROVE Times(ring, d, r) = 0
      OBVIOUS
    <2>1. Slots(ring, d, r) = {}
      BY DEF Init, Slots
    <2> QED
      BY <2>1, TimesBySlots
  <1>2. Exact /\ Unreferenced /\ Used
    BY <1>1 DEF Init, Exact, Unreferenced, Used
  <1> QED
    BY <1>2, InitOK DEF Whole

(* One action each: references stay exact.                                 *)
LEMMA ExactStays ==
  ASSUME Whole, [Next]_vars
  PROVE  Exact'
  <1> USE DEF windows, contents, loading, processor, ghosts
  <1>1. ASSUME reference' = reference, ring' = ring, leaked' = leaked PROVE Exact'
    BY <1>1 DEF Whole, Exact
  <1>2. CASE UNCHANGED vars
    BY <1>1, <1>2 DEF vars
  <1>3. ASSUME NEW w \in Window, (\E k \in Key : Mount(w, k)) \/ Unmount(w) PROVE Exact'
    BY <1>1, <1>3 DEF Mount, Unmount
  <1>4. ASSUME NEW w \in Window, NEW r \in Part, NEW p \in Page, ClearItem(w, r, p) PROVE Exact'
    BY <1>1, <1>4 DEF ClearItem
  <1>5. ASSUME NEW w \in Window, NEW r \in Part, NEW p \in Page, NEW f \in Frame,
               SetItem(w, r, p, f)
        PROVE  Exact'
    <2>1. PICK b \in free : \/ SetDirectory(w, b) \/ SetInNewTable(w, r, p, f, b)
                            \/ SetInTable(w, r, p, f)
      BY <1>5 DEF SetItem
    <2>2. CASE SetDirectory(w, b)
      <3>1. /\ reference' = [reference EXCEPT ![b] = [x \in Part |-> 0]]
            /\ ring' = ring /\ leaked' = leaked
        BY <2>2 DEF SetDirectory
      <3>2. \A x \in Part : reference[b][x] = 0
        BY NewIsUnreferenced DEF Whole
      <3>3. \A d \in Block, x \in Part : reference'[d][x] = reference[d][x]
        BY <3>1, <3>2 DEF Whole, IInv, TypeOK
      <3> QED
        BY <3>1, <3>3 DEF Whole, Exact
    <2>3. CASE SetInNewTable(w, r, p, f, b)
      <3>1. /\ reference' = [reference EXCEPT ![root[w]][r] = 0]
            /\ ring' = ring /\ leaked' = leaked
            /\ root[w] # None /\ table[root[w]][r] = None
        BY <2>3 DEF SetInNewTable
      <3>2. reference[root[w]][r] = 0
        BY <3>1, NewIsUnreferenced DEF Whole, TableOf
      <3>3. \A d \in Block, x \in Part : reference'[d][x] = reference[d][x]
        BY <3>1, <3>2 DEF Whole, IInv, TypeOK
      <3> QED
        BY <3>1, <3>3 DEF Whole, Exact
    <2>4. CASE SetInTable(w, r, p, f)
      BY <1>1, <2>4 DEF SetInTable
    <2> QED
      BY <2>1, <2>2, <2>3, <2>4
  <1>6. ASSUME NEW a \in Addr, Fault(a) PROVE Exact'
    <2>1. PICK e : e = EntryFor(files, a)
      OBVIOUS
    <2>2. /\ leaked' = [d \in Block |-> [r \in Part |-> leaked[d][r] + Counted(d, r, ring[pointer])]]
          /\ reference' = [d \in Block |-> [r \in Part |-> reference[d][r] + Counted(d, r, e)]]
          /\ ring' = [ring EXCEPT ![pointer] = e]
      BY <1>6, <2>1 DEF Fault, Evicts, Refers
    <2>3. pointer \in Index /\ ring'[pointer] = e /\ \A j \in Index : j # pointer => ring'[j] = ring[j]
      BY <2>2 DEF Whole, IInv, TypeOK
    <2>4. \A d \in Block, r \in Part :
            Counted(d, r, e) \in Int /\ Counted(d, r, ring[pointer]) \in Int
      BY DEF Counted
    <2>5. leaked' \in [Block -> [Part -> Int]]
      BY <2>2, <2>4 DEF Whole, Exact
    <2>6. ASSUME NEW d \in Block, NEW r \in Part
          PROVE  reference'[d][r] = Times(ring', d, r) + leaked'[d][r]
      <3>1. /\ leaked'[d][r] = leaked[d][r] + Counted(d, r, ring[pointer])
            /\ reference'[d][r] = reference[d][r] + Counted(d, r, e)
            /\ reference[d][r] = Times(ring, d, r) + leaked[d][r]
            /\ leaked[d][r] \in Int
        BY <2>2 DEF Whole, Exact
      <3>2. PICK new : new = ring'
        OBVIOUS
      <3>3. Times(new, d, r) + Counted(d, r, ring[pointer]) = Times(ring, d, r) + Counted(d, r, e)
        <4>1. PICK rg : rg = ring
          OBVIOUS
        <4>2. PICK i \in Index : i = pointer
          BY <2>3
        <4>3. new[i] = e /\ \A j \in Index : j # i => new[j] = rg[j]
          BY <2>3, <3>2, <4>1, <4>2
        <4>4. Times(new, d, r) + Counted(d, r, rg[i]) = Times(rg, d, r) + Counted(d, r, e)
          BY <4>3, TimesSwaps
        <4> QED
          BY <4>1, <4>2, <4>4
      <3>4. Times(new, d, r) \in Nat /\ Times(ring, d, r) \in Nat
        BY TimesBySlots
      <3> QED
        BY <2>4, <3>1, <3>2, <3>3, <3>4
    <2> QED
      BY <2>5, <2>6 DEF Exact
  <1>7. ASSUME NEW t \in Threads, Restore(t.files, t.recent) PROVE Exact'
    <2>1. CASE modified \/ t.files # files
      <3>1. /\ leaked' = leaked
            /\ reference' = [d \in Block |-> [r \in Part |->
                               reference[d][r] - Times(ring, d, r) + Times(ring', d, r)]]
        BY <1>7, <2>1 DEF Restore, NotifyThreadSwitch
      <3>2. ASSUME NEW d \in Block, NEW r \in Part
            PROVE  reference'[d][r] = Times(ring', d, r) + leaked[d][r]
        <4>1. Times(ring, d, r) \in Nat /\ Times(ring', d, r) \in Nat
          BY TimesBySlots
        <4>2. /\ reference'[d][r] = reference[d][r] - Times(ring, d, r) + Times(ring', d, r)
              /\ reference[d][r] = Times(ring, d, r) + leaked[d][r]
              /\ leaked[d][r] \in Int
          BY <3>1 DEF Whole, Exact
        <4> QED
          BY <4>1, <4>2
      <3> QED
        BY <3>1, <3>2 DEF Whole, Exact
    <2>2. CASE ~(modified \/ t.files # files)
      BY <1>1, <1>7, <2>2 DEF Restore
    <2> QED
      BY <2>1, <2>2
  <1> QED
    BY <1>2, <1>3, <1>4, <1>5, <1>6, <1>7 DEF Next
(* A window with one table at most has none but that one.                  *)
LEMMA OneTable ==
  ASSUME IInv, NEW w \in Window, NEW r \in Part, TableOf(w, r) # None, ~(tables[w] > 1)
  PROVE  \A x \in Part : x # r => TableOf(w, x) = None
  <1>1. PICK f : f = table[root[w]]
    OBVIOUS
  <1>2. root[w] # None /\ \A x \in Part : TableOf(w, x) = f[x]
    BY <1>1 DEF TableOf
  <1>3. tables[w] = NumberIn(Part, f) /\ tables[w] \in Int
    BY <1>1, <1>2 DEF IInv, TypeOK, Counts
  <1>4. PICK g : g = [x \in Part |-> IF x = r THEN None ELSE f[x]]
    OBVIOUS
  <1>5. g[r] = None /\ f[r] # None /\ \A x \in Part : x # r => f[x] = g[x]
    BY <1>2, <1>4
  <1>6. NumberIn(Part, g) \in Nat /\ NumberIn(Part, f) = NumberIn(Part, g) + 1
    BY <1>5, CountGains, PageTableAssumption
  <1> DEFINE S == {x \in Part : g[x] # None}
  <1>7. Cardinality(S) = 0
    BY <1>3, <1>6 DEF NumberIn
  <1>8. IsFiniteSet(S)
    <2>1. S \in SUBSET Part
      OBVIOUS
    <2> HIDE DEF S
    <2> QED
      BY <2>1, FS_Subset, PageTableAssumption
  <1>9. S = {}
    BY <1>7, <1>8, FS_EmptySet
  <1> QED
    BY <1>2, <1>5, <1>9

(* What ClearItem leaves of the tables of its window.                      *)
LEMMA ClearedTables ==
  ASSUME IInv, NEW w \in Window, NEW r \in Part, NEW p \in Page, ClearItem(w, r, p)
  PROVE  /\ UNCHANGED <<reference, lost>>
         /\ \A v \in Window : v # w => root'[v] = root[v]
         /\ \A c \in Block : c # root[w] => table'[c] = table[c]
         /\ \/ UNCHANGED <<root, table, free>>
            \/ /\ root' = root
               /\ free' = free \cup {TableOf(w, r)}
               /\ \A x \in Part : x # r => table'[root[w]][x] = table[root[w]][x]
               /\ reference[root[w]][r] = 0
            \/ /\ free' = free \cup {TableOf(w, r), root[w]}
               /\ \A x \in Part : x # r => TableOf(w, x) = None
               /\ reference[root[w]][r] = 0
  <1> USE DEF windows, contents, loading, processor, ghosts
  <1>1. UNCHANGED <<reference, lost>>
    BY DEF ClearItem
  <1>2. TableOf(w, r) # None /\ root[w] \in Block
    BY TableOfType DEF ClearItem, IInv
  <1>3. CASE ClearKeeps(w, r)
    BY <1>1, <1>3 DEF ClearItem
  <1>4. CASE ~ClearKeeps(w, r)
    <2>1. reference[root[w]][r] = 0
      <3>1. /\ reference[root[w]][r] >= Times(ring, root[w], r)
            /\ reference[root[w]][r] \in Int
        BY <1>2 DEF IInv, TypeOK, Counts
      <3>2. Times(ring, root[w], r) \in Nat
        BY TimesBySlots
      <3>3. ~(reference[root[w]][r] > 0)
        BY <1>1, <1>4 DEF ClearKeeps
      <3> QED
        BY <3>1, <3>2, <3>3
    <2>2. table' = [table EXCEPT ![root[w]][r] = None]
      BY <1>4 DEF ClearItem
    <2>3. /\ \A c \in Block : c # root[w] => table'[c] = table[c]
          /\ \A x \in Part : x # r => table'[root[w]][x] = table[root[w]][x]
      BY <1>2, <2>2 DEF IInv, TypeOK
    <2>4. CASE tables[w] > 1
      <3>1. root' = root /\ free' = free \cup {TableOf(w, r)}
        BY <1>4, <2>4 DEF ClearItem
      <3> QED
        BY <1>1, <2>1, <2>3, <3>1
    <2>5. CASE ~(tables[w] > 1)
      <3>1. root' = [root EXCEPT ![w] = None] /\ free' = free \cup {TableOf(w, r), root[w]}
        BY <1>4, <2>5 DEF ClearItem
      <3>2. \A v \in Window : v # w => root'[v] = root[v]
        BY <3>1 DEF IInv, TypeOK
      <3>3. \A x \in Part : x # r => TableOf(w, x) = None
        BY <1>2, <2>5, OneTable
      <3> QED
        BY <1>1, <2>1, <2>3, <3>1, <3>2, <3>3
    <2> QED
      BY <2>4, <2>5
  <1> QED
    BY <1>3, <1>4

LEMMA UnreferencedStays ==
  ASSUME Whole, [Next]_vars
  PROVE  Unreferenced'
  <1> USE DEF windows, contents, loading, processor, ghosts
  <1> SUFFICES ASSUME NEW d \in Block, NEW q \in Part,
                      reference'[d][q] # 0, d \notin lost',
                      \A v \in Window : root'[v] = d => table'[d][q] = None
               PROVE  FALSE
    BY DEF Unreferenced
  <1>0. d # None /\ (reference[d][q] # 0 /\ d \notin lost =>
                       \E v \in Window : root[v] = d /\ table[d][q] # None)
    BY PageTableAssumption DEF Whole, Unreferenced
  <1>1. CASE UNCHANGED vars
    BY <1>0, <1>1 DEF vars
  <1>2. ASSUME NEW w \in Window, (\E k \in Key : Mount(w, k)) \/ Unmount(w) PROVE FALSE
    <2>1. UNCHANGED <<reference, table>> /\ lost \subseteq lost'
      BY <1>2 DEF Mount, Unmount
    <2>2. PICK v \in Window : root[v] = d /\ table[d][q] # None
      BY <1>0, <2>1
    <2>3. root'[v] # d
      BY <2>1, <2>2
    <2>4. root' = [root EXCEPT ![w] = None]
      BY <1>2 DEF Mount, Unmount
    <2>5. v = w
      BY <2>2, <2>3, <2>4 DEF Whole, IInv, TypeOK
    <2>6. opened[w] # None
      BY <1>0, <2>2, <2>5 DEF Whole, IInv, Owned
    <2>7. Unmount(w)
      BY <1>2, <2>6 DEF Mount
    <2>8. d \in BlocksOf(w)
      BY <1>0, <2>2, <2>5 DEF BlocksOf
    <2> QED
      BY <2>7, <2>8 DEF Unmount
  <1>3. ASSUME NEW w \in Window, NEW r \in Part, NEW p \in Page, ClearItem(w, r, p) PROVE FALSE
    <2>1. /\ UNCHANGED <<reference, lost>>
          /\ \A v \in Window : v # w => root'[v] = root[v]
          /\ \A c \in Block : c # root[w] => table'[c] = table[c]
          /\ \/ UNCHANGED <<root, table, free>>
             \/ /\ root' = root
                /\ free' = free \cup {TableOf(w, r)}
                /\ \A x \in Part : x # r => table'[root[w]][x] = table[root[w]][x]
                /\ reference[root[w]][r] = 0
             \/ /\ free' = free \cup {TableOf(w, r), root[w]}
                /\ \A x \in Part : x # r => TableOf(w, x) = None
                /\ reference[root[w]][r] = 0
      BY <1>3, ClearedTables DEF Whole
    <2>2. PICK v \in Window : root[v] = d /\ table[d][q] # None
      BY <1>0, <2>1
    <2>3. CASE v # w
      <3>1. root[w] # d
        BY <1>0, <2>2, <2>3 DEF Whole, IInv, Owned
      <3> QED
        BY <2>1, <2>2, <2>3, <3>1
    <2>4. CASE v = w
      <3>1. TableOf(w, q) # None
        BY <1>0, <2>2, <2>4 DEF TableOf
      <3> QED
        BY <2>1, <2>2, <2>4, <3>1
    <2> QED
      BY <2>3, <2>4
  <1>4. ASSUME NEW w \in Window, NEW r \in Part, NEW p \in Page, NEW f \in Frame,
               SetItem(w, r, p, f)
        PROVE  FALSE
    <2>1. PICK b \in free : \/ SetDirectory(w, b) \/ SetInNewTable(w, r, p, f, b)
                            \/ SetInTable(w, r, p, f)
      BY <1>4 DEF SetItem
    <2>2. CASE SetDirectory(w, b)
      <3>1. /\ root' = [root EXCEPT ![w] = b] /\ root[w] = None
            /\ table' = [table EXCEPT ![b] = [x \in Part |-> None]]
            /\ reference' = [reference EXCEPT ![b] = [x \in Part |-> 0]]
            /\ lost' = lost
        BY <2>2 DEF SetDirectory
      <3>2. d # b
        BY <3>1 DEF Whole, IInv, TypeOK
      <3>3. reference'[d] = reference[d] /\ table'[d] = table[d]
        BY <3>1, <3>2 DEF Whole, IInv, TypeOK
      <3>4. PICK v \in Window : root[v] = d /\ table[d][q] # None
        BY <1>0, <3>1, <3>3
      <3>5. root'[v] = d
        BY <1>0, <3>1, <3>4 DEF Whole, IInv, TypeOK
      <3> QED
        BY <3>3, <3>4, <3>5
    <2>3. CASE SetInNewTable(w, r, p, f, b)
      <3>1. /\ reference' = [reference EXCEPT ![root[w]][r] = 0]
            /\ table' = [table EXCEPT ![root[w]][r] = b]
            /\ root[w] # None /\ root' = root /\ lost' = lost
        BY <2>3 DEF SetInNewTable
      <3>2. ~(d = root[w] /\ q = r)
        BY <3>1 DEF Whole, IInv, TypeOK
      <3>3. reference'[d][q] = reference[d][q] /\ table'[d][q] = table[d][q]
        BY <3>1, <3>2 DEF Whole, IInv, TypeOK
      <3> QED
        BY <1>0, <3>1, <3>3
    <2>4. CASE SetInTable(w, r, p, f)
      BY <1>0, <2>4 DEF SetInTable
    <2> QED
      BY <2>1, <2>2, <2>3, <2>4
  <1>5. ASSUME NEW a \in Addr, Fault(a) PROVE FALSE
    <2>1. PICK e : e = EntryFor(files, a)
      OBVIOUS
    <2>2. /\ reference' = [c \in Block |-> [r \in Part |-> reference[c][r] + Counted(c, r, e)]]
          /\ UNCHANGED <<root, table, lost>> /\ Allowed(files, a)
      BY <1>5, <2>1 DEF Fault, Refers
    <2>3. reference[d][q] = 0 /\ Counted(d, q, e) # 0
      <3>1. reference[d][q] = 0
        BY <1>0, <2>2
      <3> QED
        BY <2>2, <3>1 DEF Counted
    <2>4. e # None /\ e.dir = d /\ e.at[2] = q
      BY <2>3 DEF Counted
    <2>5. files[a[1]] # None /\ a[1] \in Slot /\ files[a[1]].w \in Window
      BY <2>2, FileFields DEF Allowed, Addr, Whole, IInv
    <2>6. /\ e \in Loaded /\ e.dir = root[files[a[1]].w]
          /\ e.at = a /\ table[e.dir][a[2]] = e.table
      <3>1. TypeOK /\ files \in [Slot -> File \cup {None}]
        BY DEF Whole, IInv, TypeOK
      <3> QED
        BY <2>1, <2>4, <2>5, <3>1, EntryTyped
    <2>7. table[d][q] # None
      BY <2>4, <2>6, LoadedFields
    <2> QED
      BY <2>2, <2>4, <2>5, <2>6, <2>7
  <1>6. ASSUME NEW t \in Threads, Restore(t.files, t.recent) PROVE FALSE
    <2>1. UNCHANGED <<root, table, lost>>
      BY <1>6 DEF Restore
    <2>2. reference[d][q] = 0
      BY <1>0, <2>1
    <2>3. /\ ring' = Reloaded(t.files, t.recent)
          /\ reference' = [c \in Block |-> [r \in Part |->
                             reference[c][r] - Times(ring, c, r) + Times(ring', c, r)]]
      BY <1>6, <2>2 DEF Restore, NotifyThreadSwitch
    <2>4. Times(ring, d, q) \in Nat /\ Times(ring', d, q) \in Nat
      BY TimesBySlots
    <2>5. Times(ring, d, q) = 0
      BY <2>2, <2>4 DEF Whole, IInv, Counts
    <2>6. Times(ring', d, q) # 0
      BY <2>2, <2>3, <2>4, <2>5
    <2>7. Slots(ring', d, q) # {}
      BY <2>6, TimesBySlots
    <2>8. PICK i \in Index : ring'[i] # None /\ ring'[i].dir = d /\ ring'[i].at[2] = q
      BY <2>7 DEF Slots
    <2>9. PICK x : x = ring'[i]
      OBVIOUS
    <2>10. /\ x \in Loaded /\ t.files[x.at[1]] # None
           /\ x.dir = root[t.files[x.at[1]].w] /\ table[x.dir][x.at[2]] = x.table
      BY <2>3, <2>8, <2>9, ReloadedTyped DEF Whole, IInv
    <2>11. x.table # None /\ x.at[1] \in Slot
      BY <2>10, LoadedFields
    <2>12. t.files[x.at[1]].w \in Window
      BY <2>10, <2>11, PageTableAssumption DEF File
    <2> QED
      BY <2>1, <2>8, <2>9, <2>10, <2>11, <2>12
  <1> QED
    BY <1>1, <1>2, <1>3, <1>4, <1>5, <1>6 DEF Next
LEMMA UsedStays ==
  ASSUME Whole, [Next]_vars
  PROVE  Used'
  <1> USE DEF windows, contents, loading, processor, ghosts
  <1> SUFFICES ASSUME NEW c \in Block, c \notin free', c \notin lost',
                      \A v \in Window : c \notin BlocksOf(v)'
               PROVE  FALSE
    BY DEF Used
  <1>0. /\ c # None
        /\ c \in free \/ c \in lost \/ \E v \in Window : c \in BlocksOf(v)
        /\ \A v \in Window : c \in BlocksOf(v) <=>
             root[v] = c \/ \E r \in Part : TableOf(v, r) = c
        /\ \A v \in Window : root'[v] # c
        /\ \A v \in Window, r \in Part : TableOf(v, r)' # c
    BY PageTableAssumption DEF Whole, Used, BlocksOf
  <1>1. ASSUME free' = free, lost' = lost, root' = root, table' = table PROVE FALSE
    <2>1. \A v \in Window, r \in Part : TableOf(v, r)' = TableOf(v, r)
      BY <1>1 DEF TableOf
    <2> QED
      BY <1>0, <1>1, <2>1
  <1>2. CASE UNCHANGED vars
    BY <1>1, <1>2 DEF vars
  <1>3. ASSUME NEW w \in Window, NEW k \in Key, Mount(w, k) PROVE FALSE
    <2>1. root[w] = None
      BY <1>3 DEF Mount, Whole, IInv, Owned
    <2>2. root' = root
      BY <1>3, <2>1 DEF Mount, Whole, IInv, TypeOK
    <2> QED
      BY <1>1, <1>3, <2>2 DEF Mount
  <1>4. ASSUME NEW w \in Window, Unmount(w) PROVE FALSE
    <2>1. /\ free' = free /\ table' = table /\ lost' = lost \cup BlocksOf(w)
          /\ \A v \in Window : v # w => root'[v] = root[v]
      BY <1>4 DEF Unmount, Whole, IInv, TypeOK
    <2>2. PICK v \in Window : c \in BlocksOf(v)
      BY <1>0, <2>1
    <2>3. v # w
      BY <2>1, <2>2
    <2>4. \A r \in Part : TableOf(v, r)' = TableOf(v, r)
      BY <2>1, <2>3 DEF TableOf
    <2> QED
      BY <1>0, <2>1, <2>2, <2>3, <2>4
  <1>5. ASSUME NEW w \in Window, NEW r \in Part, NEW p \in Page, ClearItem(w, r, p) PROVE FALSE
    <2>1. /\ UNCHANGED <<reference, lost>>
          /\ \A v \in Window : v # w => root'[v] = root[v]
          /\ \A d \in Block : d # root[w] => table'[d] = table[d]
          /\ \/ UNCHANGED <<root, table, free>>
             \/ /\ root' = root
                /\ free' = free \cup {TableOf(w, r)}
                /\ \A x \in Part : x # r => table'[root[w]][x] = table[root[w]][x]
                /\ reference[root[w]][r] = 0
             \/ /\ free' = free \cup {TableOf(w, r), root[w]}
                /\ \A x \in Part : x # r => TableOf(w, x) = None
                /\ reference[root[w]][r] = 0
      BY <1>5, ClearedTables DEF Whole
    <2>2. PICK v \in Window : c \in BlocksOf(v)
      BY <1>0, <2>1
    <2>3. CASE v # w
      <3>1. root'[v] = root[v] /\ (root[v] # None => root[v] \in Block /\ root[v] # root[w])
        BY <2>1, <2>3 DEF Whole, IInv, TypeOK, Owned
      <3>2. \A x \in Part : TableOf(v, x)' = TableOf(v, x)
        BY <2>1, <3>1 DEF TableOf
      <3> QED
        BY <1>0, <2>2, <3>1, <3>2
    <2>4. CASE v = w
      <3>1. c # root[w] => \E x \in Part : TableOf(w, x) = c
        BY <1>0, <2>2, <2>4
      <3>2. CASE UNCHANGED <<root, table, free>>
        BY <1>1, <2>1, <3>2
      <3>3. CASE root' = root /\ free' = free \cup {TableOf(w, r)}
                 /\ \A x \in Part : x # r => table'[root[w]][x] = table[root[w]][x]
        <4>1. PICK x \in Part : TableOf(w, x) = c
          BY <1>0, <3>1, <3>3
        <4>2. x # r /\ root[w] # None
          BY <1>0, <3>3, <4>1 DEF TableOf
        <4>3. TableOf(w, x)' = TableOf(w, x)
          BY <3>3, <4>2 DEF TableOf
        <4> QED
          BY <1>0, <4>1, <4>3
      <3>4. CASE free' = free \cup {TableOf(w, r), root[w]}
                 /\ \A x \in Part : x # r => TableOf(w, x) = None
        BY <1>0, <3>1, <3>4
      <3> QED
        BY <2>1, <3>2, <3>3, <3>4
    <2> QED
      BY <2>3, <2>4
  <1>6. ASSUME NEW w \in Window, NEW r \in Part, NEW p \in Page, NEW f \in Frame,
               SetItem(w, r, p, f)
        PROVE  FALSE
    <2>1. PICK b \in free : \/ SetDirectory(w, b) \/ SetInNewTable(w, r, p, f, b)
                            \/ SetInTable(w, r, p, f)
      BY <1>6 DEF SetItem
    <2>0. b \in Block /\ b # None /\ \A v \in Window : root[v] # b
      BY PageTableAssumption DEF Whole, IInv, TypeOK, Owned
    <2>2. CASE SetDirectory(w, b)
      <3>1. /\ root[w] = None /\ lost' = lost /\ free' = free \ {b}
            /\ root'[w] = b /\ \A v \in Window : v # w => root'[v] = root[v]
            /\ \A d \in Block : d # b => table'[d] = table[d]
        BY <2>0, <2>2 DEF SetDirectory, Whole, IInv, TypeOK
      <3>2. c # b
        BY <1>0, <3>1
      <3>3. PICK v \in Window : c \in BlocksOf(v)
        BY <1>0, <3>1, <3>2
      <3>4. v # w
        BY <1>0, <3>1, <3>3 DEF TableOf
      <3>5. \A x \in Part : TableOf(v, x)' = TableOf(v, x)
        BY <2>0, <3>1, <3>4 DEF TableOf, Whole, IInv, TypeOK
      <3> QED
        BY <1>0, <3>1, <3>3, <3>4, <3>5
    <2>3. CASE SetInNewTable(w, r, p, f, b)
      <3>1. /\ root[w] # None /\ root[w] \in Block /\ table[root[w]][r] = None
            /\ lost' = lost /\ free' = free \ {b} /\ root' = root
            /\ table' = [table EXCEPT ![root[w]][r] = b]
        BY <2>3 DEF SetInNewTable, Whole, IInv, TypeOK
      <3>2. TableOf(w, r)' = b
        BY <3>1 DEF TableOf, Whole, IInv, TypeOK
      <3>3. c # b
        BY <1>0, <3>2
      <3>4. PICK v \in Window : c \in BlocksOf(v)
        BY <1>0, <3>1, <3>3
      <3>5. PICK x \in Part : TableOf(v, x) = c
        BY <1>0, <3>1, <3>4
      <3>6. root[v] \in Block /\ table[root[v]][x] = c
        BY <1>0, <3>5, TableOfType DEF Whole, IInv
      <3>7. table'[root[v]][x] = c
        BY <1>0, <3>1, <3>6 DEF Whole, IInv, TypeOK
      <3>8. TableOf(v, x)' = c
        BY <3>1, <3>6, <3>7, PageTableAssumption DEF TableOf
      <3> QED
        BY <1>0, <3>8
    <2>4. CASE SetInTable(w, r, p, f)
      BY <1>1, <2>4 DEF SetInTable
    <2> QED
      BY <2>1, <2>2, <2>3, <2>4
  <1>7. ASSUME NEW a \in Addr, Fault(a) PROVE FALSE
    BY <1>1, <1>7 DEF Fault
  <1>8. ASSUME NEW t \in Threads, Restore(t.files, t.recent) PROVE FALSE
    BY <1>1, <1>8 DEF Restore
  <1> QED
    BY <1>2, <1>3, <1>4, <1>5, <1>6, <1>7, <1>8 DEF Next

LEMMA WholeStays == Whole /\ [Next]_vars => Whole'
  BY StepOK, ExactStays, UnreferencedStays, UsedStays DEF Whole

LEMMA AccountedByInvariant == Whole => TablesAccounted
  <1> SUFFICES ASSUME Whole PROVE TablesAccounted
    OBVIOUS
  <1>1. ASSUME NEW b \in Block
        PROVE  Cardinality({w \in Window : b \in BlocksOf(w)})
                 + (IF b \in free THEN 1 ELSE 0) + (IF b \in lost THEN 1 ELSE 0) = 1
    <2>1. b # None /\ \A w \in Window : b \in BlocksOf(w) <=>
                        root[w] = b \/ \E r \in Part : TableOf(w, r) = b
      BY PageTableAssumption DEF BlocksOf
    <2>2. CASE b \in free \cup lost
      <3>1. {w \in Window : b \in BlocksOf(w)} = {}
        BY <2>1, <2>2 DEF Whole, IInv, Owned
      <3>2. ~(b \in free /\ b \in lost)
        BY DEF Whole, IInv, Owned
      <3> QED
        BY <2>2, <3>1, <3>2, FS_EmptySet
    <2>3. CASE b \notin free \cup lost
      <3>1. PICK w \in Window : b \in BlocksOf(w)
        BY <2>3 DEF Whole, Used
      <3>2. \A v \in Window : b \in BlocksOf(v) => v = w
        <4> SUFFICES ASSUME NEW v \in Window, b \in BlocksOf(v) PROVE v = w
          OBVIOUS
        <4>1. CASE root[w] = b
          BY <2>1, <4>1 DEF Whole, IInv, Owned
        <4>2. CASE root[v] = b
          BY <2>1, <3>1, <4>2 DEF Whole, IInv, Owned
        <4>3. CASE root[w] # b /\ root[v] # b
          <5>1. PICK q \in Part, r \in Part : TableOf(v, q) = b /\ TableOf(w, r) = b
            BY <2>1, <3>1, <4>3
          <5> QED
            BY <2>1, <5>1 DEF Whole, IInv, Owned
        <4> QED
          BY <4>1, <4>2, <4>3
      <3>3. {v \in Window : b \in BlocksOf(v)} = {w}
        BY <3>1, <3>2
      <3> QED
        BY <2>3, <3>3, FS_Singleton
    <2> QED
      BY <2>2, <2>3
  <1>2. ASSUME NEW w \in Window, root[w] # None
        PROVE  /\ tables[w] = Cardinality({r \in Part : TableOf(w, r) # None})
               /\ \A r \in Part : TableOf(w, r) # None =>
                    /\ item[root[w]][r] = Cardinality({p \in Page : HasPage(TableOf(w, r), p)})
                    /\ reference[root[w]][r] = Times(ring, root[w], r) + leaked[root[w]][r]
    <2>1. tables[w] = Cardinality({r \in Part : TableOf(w, r) # None})
      BY <1>2 DEF Whole, IInv, Counts, NumberIn, TableOf
    <2>2. ASSUME NEW r \in Part, TableOf(w, r) # None
          PROVE  /\ item[root[w]][r] = Cardinality({p \in Page : HasPage(TableOf(w, r), p)})
                 /\ reference[root[w]][r] = Times(ring, root[w], r) + leaked[root[w]][r]
      <3>1. item[root[w]][r] = Cardinality({p \in Page : HasPage(TableOf(w, r), p)})
        BY <2>2 DEF Whole, IInv, Counts, NumberIn, HasPage
      <3>2. root[w] \in Block
        BY <1>2 DEF Whole, IInv, TypeOK
      <3> QED
        BY <3>1, <3>2 DEF Whole, Exact
    <2> QED
      BY <2>1, <2>2
  <1> QED
    BY <1>1, <1>2 DEF TablesAccounted

(* Every block is free, lost or of one window, and the counts by which     *)
(* tables are given back are exact: the tables of a window, the pages of a *)
(* table, and the references, in the ring or leaked.  (memory.c: tables are*)
(* counted where they are entered and cleared, tlb.c where they are loaded.) *)
THEOREM PageTableTablesAccounted == Spec => []TablesAccounted
  BY InitWhole, WholeStays, AccountedByInvariant, PTL DEF Spec
=============================================================================

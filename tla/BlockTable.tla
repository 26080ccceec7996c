------------------------------ MODULE BlockTable ------------------------------
(***************************************************************************)
(* The tables of a memory body: blocks, pages of physical memory, file     *)
(* windows and the entries of the page tables, and the functions of        *)
(* driver/lru that change them without waiting.                            *)
(*                                                                         *)
(* The tables are one record, m; an operator returns the changed record:   *)
(*   state, lock     block_state and lock_number                           *)
(*   page            the file window and logic block a block is for        *)
(*   parent          parent_block_id: the block whose memory it shares     *)
(*   phys            physical_id                                           *)
(*   private         blocks with PRIVATE_SHARE_MEMORY_BLOCK_FLAG           *)
(*   free, pool      the free blocks and the free physical pages           *)
(*   blocks, pages   block_number, physical_block_number of every domain   *)
(*   entry           the page table entry of every page                    *)
(*   open, nowait    windows in FILE_OPEN, with FILE_WINDOW_NO_WAIT_FLAG   *)
(*   calls           lock_number of every window                           *)
(*   waiting         the block or memory a thread sleeps for in memory_wait*)
(* and three things no program has:                                         *)
(*   newer           physical pages with data that no file has             *)
(*   forgotten       those of which the processor's dirty bit was lost     *)
(*   miscounted      windows closed before a call that was to be about them*)
(*                                                                         *)
(* Rings and hash lists are sets here: who is in them follows from the     *)
(* state and the page of a block, and any order of a ring is possible.     *)
(* Which of the free blocks or pages is taken makes no difference: a page  *)
(* has a block it prefers, a block a page, and stacks are taken from the   *)
(* other end, so that tables that differ in nothing else are the same.     *)
(***************************************************************************)
EXTENDS Sequences, FiniteSetsExt, SwapPolicy

CONSTANTS Block, Phys,    \* blocks and physical pages, as numbers
          Page, Window, Domain, Thread,
          WindowOf,       \* the window of every page
          Preferred,      \* the block every page prefers, a number also used for Phys
          DomainOf,       \* memory_domain_id of every window
          Swappable,      \* windows with FILE_WINDOW_SWAP_OUT_FLAG
          CopyOnWrite,    \* windows with FILE_WINDOW_COPY_ON_WRITE_FLAG
          BlockLimit, PageLimit,  \* the two limits of every domain
          Reserve,        \* what CanWrite leaves to the threads that write
          Memory, None

ASSUME TableAssumption ==
  /\ Block \subseteq Nat /\ Phys \subseteq Nat /\ IsFiniteSet(Block) /\ IsFiniteSet(Phys)
  /\ WindowOf \in [Page -> Window] /\ DomainOf \in [Window -> Domain]
  /\ Swappable \subseteq Window /\ CopyOnWrite \subseteq Window
  /\ \A d \in Domain : /\ InOrder(BlockLimit[d], Cardinality(Block))
                       /\ InOrder(PageLimit[d], Cardinality(Phys))
  /\ Reserve \in Nat /\ Memory \notin Block
  /\ IsFiniteSet(Page) /\ IsFiniteSet(Thread)
  /\ None \notin Block \cup Phys \cup Page \cup Window \cup Domain \cup Thread \cup {Memory}

DomainOfPage(p) == DomainOf[WindowOf[p]]

EmptyTable(opened) ==
  [state |-> [b \in Block |-> "free"], lock |-> [b \in Block |-> 0],
   page |-> [b \in Block |-> None], parent |-> [b \in Block |-> None],
   phys |-> [b \in Block |-> None], private |-> {},
   free |-> Block, pool |-> Phys,
   blocks |-> [d \in Domain |-> 0], pages |-> [d \in Domain |-> 0],
   entry |-> [p \in Page |-> None], open |-> opened, nowait |-> {},
   calls |-> [w \in Window |-> 0], waiting |-> [t \in Thread |-> None],
   newer |-> {}, forgotten |-> {}, miscounted |-> {}]

-----------------------------------------------------------------------------
(* Who is where.                                                           *)
Busy(m, b)    == m.state[b] \in {"reading", "writing"}
Settled(m, b) == m.state[b] \in {"not modified", "modified"}
BlocksOf(m, w) == {b \in Block : m.state[b] # "free" /\ WindowOf[m.page[b]] = w}
Ring(m, d)     == {b \in Block : Settled(m, b) /\ DomainOfPage(m.page[b]) = d}

(* search_block                                                            *)
FoundSettled(m, p) == {b \in Block : Settled(m, b) /\ m.page[b] = p}  \* mutant
Found(m, p) == {b \in Block : m.state[b] # "free" /\ m.page[b] = p}

(* The blocks from b up to the one that has the memory, and those that     *)
(* share what b has.                                                       *)
Above(m, b) ==
  LET above[x \in Block] ==
        IF m.parent[x] = None THEN {x} ELSE {x} \cup above[m.parent[x]]
  IN  above[b]
Root(m, b)   == CHOOSE x \in Above(m, b) : m.parent[x] = None
Tree(m, b)   == {x \in Block : b \in Above(m, x)}
First(m, bs) == CHOOSE x \in bs : bs \subseteq Above(m, x)

ShouldPrepareWrite(m, d) ==
  \/ ShouldWrite(BlockLimit[d], m.blocks[d], Cardinality(m.free))
  \/ ShouldWrite(PageLimit[d], m.pages[d], Cardinality(m.pool))
ShouldPrepareFree(m, d) ==
  \/ ShouldFree(BlockLimit[d], m.blocks[d], Cardinality(m.free))
  \/ ShouldFree(PageLimit[d], m.pages[d], Cardinality(m.pool))
CanPrepareWrite(m, d) ==
  /\ CanWrite(BlockLimit[d], m.blocks[d], Cardinality(m.free), Reserve)
  /\ CanWrite(PageLimit[d], m.pages[d], Cardinality(m.pool), Reserve)
  /\ Ring(m, d) # {}

-----------------------------------------------------------------------------
(* wakeup_block, and the same for those who wait for memory.  The woken    *)
(* wake each other (MemoryLock); here all wake at once.                    *)
Woken(m, bs) ==
  [m EXCEPT !.waiting = [t \in Thread |-> IF @[t] \in bs THEN None ELSE @[t]]]

(* Blocks by the domains that have them: those of windows, and a stack.    *)
ByDomain(m, bs) == [d \in Domain |-> {b \in bs : DomainOfPage(m.page[b]) = d}]
Stack(s, d)     == [e \in Domain |-> IF e = d THEN {s} ELSE {}]
All(by)         == UNION {by[d] : d \in Domain}

(* mount_physical_block, dismount_physical_block                           *)
Mounted(m, b, d) ==
  LET p == IF b \in m.pool THEN b ELSE Min(m.pool)
  IN  [m EXCEPT !.phys[b] = p, !.pool = @ \ {p}, !.pages[d] = @ + 1]
Dismounted(m, by) ==
  LET bs == {b \in All(by) : m.phys[b] # None}
      ps == {m.phys[b] : b \in bs}
  IN  [m EXCEPT !.phys = [b \in Block |-> IF b \in bs THEN None ELSE @[b]],
                !.pool = @ \cup ps,
                !.pages = [d \in Domain |-> @[d] - Cardinality(by[d] \cap bs)],
                !.newer = @ \ (m.forgotten \cap ps), !.forgotten = @ \ ps]

(* get_free_block: nothing is taken unless there is a block and a page.    *)
CanGet(m)     == m.free # {} /\ m.pool # {}
NextStack(m)  == Max(m.free)
NextBlock(m, p) == IF Preferred[p] \in m.free THEN Preferred[p] ELSE Min(m.free)
Got(m, b, d)  ==
  Mounted([m EXCEPT !.free = @ \ {b}, !.parent[b] = None,
                    !.private = @ \ {b}, !.blocks[d] = @ + 1], b, d)
NotGot(m)     == IF m.free = {} THEN m ELSE Woken(m, {Memory})

(* free_free_block, and free_one_block: a block and all that share its     *)
(* memory.                                                                 *)
GivenBack(m, by) ==
  LET bs == All(by)
  IN  Woken([Dismounted(m, by) EXCEPT
        !.state  = [b \in Block |-> IF b \in bs THEN "free" ELSE @[b]],
        !.page   = [b \in Block |-> IF b \in bs THEN None ELSE @[b]],
        !.parent = [b \in Block |-> IF b \in bs THEN None ELSE @[b]],
        !.private = @ \ bs, !.free = @ \cup bs,
        !.blocks = [d \in Domain |-> @[d] - Cardinality(by[d])]], {Memory})
Freed(m, bs) == GivenBack(m, ByDomain(m, UNION {Tree(m, b) : b \in bs}))

(* mount_reading_block, unmount_reading_block                              *)
MountedReading(m, p) ==
  LET b == NextBlock(m, p)
  IN  [Got(m, b, DomainOfPage(p)) EXCEPT
         !.state[b] = "reading", !.page[b] = p, !.lock[b] = 0]
UnmountedSilently(m, bs) ==                                      \* mutant
  [m EXCEPT !.state = [b \in Block |-> IF b \in bs THEN "not modified" ELSE @[b]]]
UnmountedReading(m, bs) ==
  [Woken(m, bs) EXCEPT
     !.state = [b \in Block |-> IF b \in bs THEN "not modified" ELSE @[b]]]

(* clear_block_number: the entries of the block and of those below it are  *)
(* taken away; the dirty bit of an entry goes to the block with the memory.*)
ClearedIn(m, tree, root) ==
  LET mapped   == {x \in tree : m.lock[x] > 0 /\ m.entry[m.page[x]] # None}
      dirty    == \E x \in mapped : m.entry[m.page[x]].dirty
      below(y) == Cardinality({x \in mapped : y \in Above(m, x)})
      unused   == {x \in tree : m.lock[x] = IF x \in mapped THEN 1 ELSE 0}
  IN  Woken([m EXCEPT
        !.entry = [p \in Page |-> IF \E x \in mapped : m.page[x] = p THEN None ELSE @[p]],
        !.lock  = [y \in Block |-> @[y] - below(y)],
        !.state[root] = IF dirty /\ @ = "not modified" THEN "modified" ELSE @], unused)
SettledTree(m, b) == {x \in Tree(m, b) : Settled(m, x)}

ClearedAlone(m, b) ==                                            \* mutant
  [ClearedIn(m, SettledTree(m, b), Root(m, b)) EXCEPT
     !.entry = [p \in Page |-> IF p = m.page[b] THEN None ELSE m.entry[p]]]
ClearedMarked(m, b) == ClearedIn(m, SettledTree(m, b), b)        \* mutant
Cleared(m, b) == ClearedIn(m, SettledTree(m, b), Root(m, b))

(* mount_wait_reading_block: the answers have led from page to page, and   *)
(* the last block found has the memory.  The blocks read on the way give   *)
(* theirs back and become, one below the other, its descendants.           *)
PutBelow(m, b, queue) ==
  [m EXCEPT !.parent = [x \in Block |->
     IF x \in Range(queue)
     THEN LET i == CHOOSE i \in DOMAIN queue : queue[i] = x
          IN  IF i = 1 THEN b ELSE queue[i - 1]
     ELSE @[x]]]
LinkedKeeping(m, b, queue) ==                                    \* mutant
  PutBelow(UnmountedReading(m, Range(queue)), b, queue)
Linked(m, b, queue) ==
  LET read == Range(queue)
  IN  PutBelow(UnmountedReading(Dismounted(m, ByDomain(m, read)), read), b, queue)

(* The same when the search fails: all it has read is given back.          *)
Abandoned(m, queue) == Freed(UnmountedReading(m, Range(queue)), Range(queue))

(* search_read_block: the block a thread that writes has to make its own,  *)
(* the first private one from b upwards.                                   *)
OwnBlock(m, b) ==
  LET private == Above(m, b) \cap m.private
  IN  IF private = {} THEN Root(m, b) ELSE First(m, private)

(* copy_on_write: b and those below it leave the tree with a copy.         *)
Copied(m, b) ==
  LET n == Mounted(m, b, DomainOfPage(m.page[b]))
  IN  [n EXCEPT !.parent[b] = None, !.state[b] = "modified",
                !.newer = @ \cup {n.phys[b]}]

(* flush_block with a parent_bn, mount_update_block: the root takes the    *)
(* memory of b, and b becomes a block below it.                            *)
Updated(m, b, root) ==
  LET old == m.phys[root]
      n   == [m EXCEPT !.phys = [x \in Block |-> IF x = root THEN m.phys[b]
                                                 ELSE IF x = b THEN old ELSE @[x]]]
  IN  [Dismounted(n, ByDomain(m, {b})) EXCEPT
         !.state = [x \in Block |-> IF x = root /\ @[x] = "not modified" THEN "modified"
                                    ELSE IF x = b /\ @[x] = "modified" THEN "not modified"
                                    ELSE @[x]],
         !.parent[b] = root, !.private = @ \cup {b},
         !.newer = (@ \ {old}) \cup {m.phys[b]}, !.forgotten = @ \ {old}]

(* setup_map_routine: a new entry locks the block and those above it; one  *)
(* that was there already is overwritten, and its dirty bit with it.       *)
EnteredIn(m, b, readOnly, locked) ==
  LET p    == m.page[b]
      to   == m.phys[Root(m, b)]
      last == m.entry[p]
      n    == [m EXCEPT !.entry[p] = [to |-> to, write |-> ~readOnly, dirty |-> FALSE]]
  IN  IF last = None
      THEN [n EXCEPT !.lock = [x \in Block |-> IF x \in locked THEN @[x] + 1 ELSE @[x]]]
      ELSE [n EXCEPT !.forgotten = IF last.dirty /\ m.state[Root(m, b)] = "not modified"
                                     THEN @ \cup {last.to} ELSE @]
EnteredAlone(m, b, readOnly) == EnteredIn(m, b, readOnly, {b})   \* mutant
Entered(m, b, readOnly) == EnteredIn(m, b, readOnly, Above(m, b))
=============================================================================

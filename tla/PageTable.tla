------------------------------- MODULE PageTable -------------------------------
(***************************************************************************)
(* The page tables of the i386 (arch/sys_c).                               *)
(*                                                                         *)
(* The pages of an open file window are entered in page tables, one for    *)
(* each part of the window (4 MB), and the page tables of a window in its  *)
(* directory, one more block of memory.  Tables and directories are taken  *)
(* when the first page needs them and given back with the last one.  The   *)
(* processor finds a table through the page directory: the kernel puts a   *)
(* table there when a program first misses it, notes it in a ring, counts  *)
(* it in the directory of the window, and takes all of them out when       *)
(* another thread, or the same with other files, goes on.                  *)
(*                                                                         *)
(* The processor keeps what it has read: the tables of its page directory  *)
(* (walks) and translations (tlb).  It may read ahead whatever it can      *)
(* reach and drops nothing by itself here, which is the worst that the     *)
(* code must live with.                                                    *)
(*                                                                         *)
(* All of this runs with interrupts off on the one processor of this       *)
(* architecture, so every operation is one step.                           *)
(***************************************************************************)
EXTENDS Naturals, Sequences, FiniteSets

CONSTANTS Window, Part,  \* the file windows, and the parts of a window
          Page, Frame,    \* the pages of a part, and what they are mapped to
          Block,          \* the blocks of memory that hold tables
          Key, System,    \* the capabilities of files, and that of the system
          Slot,           \* the places where a thread has files mapped
          Length,         \* the number of parts of a window
          RingSize,       \* CR2_BUF_NUMBER
          Threads,        \* what the kernel knows of threads: files and addresses
          MaxLeaked,      \* bounds the model
          None

VARIABLES opened,     \* the capability of the file that is open in a window
          root,       \* the directory of a window
          tables,     \* reference_number of a window: the tables it has
          table,      \* page_table_block of a directory
          item,       \* item_number of a directory: the pages in a table
          reference,  \* reference_number of a directory
          entry,      \* the entries of a table
          free,       \* the blocks nobody has
          ring,       \* buf and reference, with the page directory
          pointer,    \* the slot of the ring that is next
          modified,   \* page_dir_modify_flag
          flush,      \* tlb_flag
          files,      \* the files of the thread that runs
          walks, tlb, \* what the processor keeps
          lost,       \* ghost: blocks of windows that closed with tables left
          leaked      \* ghost: references that nobody will lower

windows   == <<opened, root, tables>>
contents  == <<table, item, reference, entry>>
loading   == <<ring, pointer, modified, flush>>
processor == <<walks, tlb>>
ghosts    == <<lost, leaked>>
vars == <<windows, contents, free, loading, files, processor, ghosts>>

Index == 0 .. RingSize - 1
Addr  == Slot \X Part
File  == [w : Window, key : Key]
(* The addresses a thread lately missed are different ones.                *)
Recent == {s \in UNION {[1 .. n -> Addr] : n \in 0 .. RingSize} :
             \A i, j \in DOMAIN s : s[i] = s[j] => i = j}

(* A table that is in the page directory: where, and whose count it is in. *)
Loaded == [at : Addr, table : Block, dir : Block]

ASSUME PageTableAssumption ==
  /\ IsFiniteSet(Part) /\ IsFiniteSet(Page)
  /\ RingSize \in Nat \ {0}
  /\ None \notin Block \cup Frame \cup Key \cup File \cup Loaded
  /\ Threads \subseteq [files : [Slot -> File \cup {None}], recent : Recent]

-----------------------------------------------------------------------------
(* The table of part r of window w, if there is one.                       *)
PartsOf(w) == {r \in Part : opened[w] # None /\ r < Length[w]}
TableOf(w, r) == IF root[w] = None THEN None ELSE table[root[w]][r]
HasPage(b, p) == entry[b][p] # None
InRing(rg) == {rg[i] : i \in Index} \ {None}

(* What the processor may keep after a step: what it kept and did not have *)
(* to drop, and everything it can find from there.                         *)
Keeps(oldWalks, oldTlb) ==
  /\ walks' = oldWalks \cup InRing(ring')
  /\ tlb' = oldTlb \cup
       UNION {{[at |-> e.at, page |-> p, frame |-> entry'[e.table][p]] :
                 p \in {q \in Page : entry'[e.table][q] # None}} : e \in walks'}

(* clear_tlb: invlpg of a page, at every place where the thread has it.    *)
At(w, r) == {a \in Addr : files[a[1]] # None /\ files[a[1]].w = w /\ a[2] = r}
Invalidate(w, r, p) ==
  Keeps({e \in walks : e.at \notin At(w, r)},
        {t \in tlb : ~(t.at \in At(w, r) /\ t.page = p)})

Init ==
  /\ opened = [w \in Window |-> None]
  /\ root = [w \in Window |-> None]
  /\ tables = [w \in Window |-> 0]
  /\ table = [b \in Block |-> [r \in Part |-> None]]
  /\ item = [b \in Block |-> [r \in Part |-> 0]]
  /\ reference = [b \in Block |-> [r \in Part |-> 0]]
  /\ entry = [b \in Block |-> [p \in Page |-> None]]
  /\ free = Block
  /\ ring = [i \in Index |-> None]
  /\ pointer = 0
  /\ modified = TRUE
  /\ flush = TRUE
  /\ files = [s \in Slot |-> None]
  /\ walks = {} /\ tlb = {}
  /\ lost = {}
  /\ leaked = [b \in Block |-> [r \in Part |-> 0]]

-----------------------------------------------------------------------------
(* mount_page_table, when a window is opened.                              *)
Mount(w, k) ==
  /\ opened[w] = None
  /\ opened' = [opened EXCEPT ![w] = k]
  /\ root' = [root EXCEPT ![w] = None]
  /\ tables' = [tables EXCEPT ![w] = 0]
  /\ UNCHANGED <<contents, free, loading, files, processor, ghosts>>

(* The blocks of a window: its directory and its tables.                   *)
BlocksOf(w) == ({root[w]} \cup {TableOf(w, r) : r \in Part}) \ {None}

(* unmount_page_table, when a window is closed: that is when none of its   *)
(* pages is in memory any more (close_file_window).  Tables that were in   *)
(* the page directory when their last page went are still there: nobody    *)
(* gives them back now.                                                    *)
Unmount(w) ==
  /\ opened[w] # None
  /\ \A r \in Part : TableOf(w, r) # None => \A p \in Page : ~HasPage(TableOf(w, r), p)
  /\ opened' = [opened EXCEPT ![w] = None]
  /\ root' = [root EXCEPT ![w] = None]
  /\ tables' = [tables EXCEPT ![w] = 0]
  /\ lost' = lost \cup BlocksOf(w)
  /\ UNCHANGED <<contents, free, loading, files, processor, leaked>>

-----------------------------------------------------------------------------
(* memory_set_tlb_item with a block b the caller has taken in case it is   *)
(* needed.  The first call for a window makes its directory and enters     *)
(* nothing: the program misses the page again and comes back.              *)
SetDirectory(w, b) ==
  /\ root[w] = None
  /\ root' = [root EXCEPT ![w] = b]
  /\ tables' = [tables EXCEPT ![w] = 0]
  /\ table' = [table EXCEPT ![b] = [r \in Part |-> None]]
  /\ item' = [item EXCEPT ![b] = [r \in Part |-> 0]]
  /\ reference' = [reference EXCEPT ![b] = [r \in Part |-> 0]]
  /\ free' = free \ {b}
  /\ UNCHANGED <<opened, entry, loading, files, processor, ghosts>>

SetInNewTable(w, r, p, f, b) ==
  /\ root[w] # None
  /\ table[root[w]][r] = None
  /\ table' = [table EXCEPT ![root[w]][r] = b]
  /\ item' = [item EXCEPT ![root[w]][r] = 1]
  /\ reference' = [reference EXCEPT ![root[w]][r] = 0]
  /\ tables' = [tables EXCEPT ![w] = @ + 1]
  /\ entry' = [entry EXCEPT ![b] = [q \in Page |-> IF q = p THEN f ELSE None]]
  /\ free' = free \ {b}
  /\ UNCHANGED <<opened, root, loading, files, ghosts>>
  /\ Keeps(walks, tlb)

(* Fault: a page that was there already is counted again.                  *)
SetCountsAgain(w, r, p, f) ==
  LET b == TableOf(w, r)
  IN  /\ b # None
      /\ entry' = [entry EXCEPT ![b][p] = f]
      /\ item' = [item EXCEPT ![root[w]][r] = @ + 1]
      /\ UNCHANGED <<windows, table, reference, free, loading, files, ghosts>>
      /\ Invalidate(w, r, p)

SetInTable(w, r, p, f) ==
  LET b == TableOf(w, r)
  IN  /\ b # None
      /\ entry' = [entry EXCEPT ![b][p] = f]
      /\ UNCHANGED <<windows, table, reference, free, loading, files, ghosts>>
      /\ IF HasPage(b, p)
         THEN item' = item /\ Invalidate(w, r, p)
         ELSE item' = [item EXCEPT ![root[w]][r] = @ + 1] /\ Keeps(walks, tlb)

SetItem(w, r, p, f) ==
  /\ r \in PartsOf(w)
  /\ \E b \in free : \/ SetDirectory(w, b)
                     \/ SetInNewTable(w, r, p, f, b)
                     \/ SetInTable(w, r, p, f)

(* memory_clear_tlb_item: with its last page a table that is in nobody's   *)
(* page directory is given back, and the directory with its last table.    *)
(* Fault: only pages keep a table.                                         *)
PagesKeep(w, r) == item'[root[w]][r] > 0

ClearKeeps(w, r) ==
  item'[root[w]][r] > 0 \/ reference[root[w]][r] > 0

ClearItem(w, r, p) ==
  LET d == root[w]
      b == TableOf(w, r)
  IN  /\ r \in PartsOf(w)
      /\ b # None
      /\ HasPage(b, p)
      /\ entry' = [entry EXCEPT ![b][p] = None]
      /\ item' = [item EXCEPT ![d][r] = @ - 1]
      /\ IF ClearKeeps(w, r)
         THEN UNCHANGED <<windows, table, free, modified>>
         ELSE /\ modified' = TRUE
              /\ table' = [table EXCEPT ![d][r] = None]
              /\ IF tables[w] > 1
                 THEN /\ tables' = [tables EXCEPT ![w] = @ - 1]
                      /\ free' = free \cup {b}
                      /\ root' = root
                 ELSE /\ tables' = [tables EXCEPT ![w] = 0]
                      /\ free' = free \cup {b, d}
                      /\ root' = [root EXCEPT ![w] = None]
              /\ opened' = opened
      /\ UNCHANGED <<reference, ring, pointer, flush, files, ghosts>>
      /\ Invalidate(w, r, p)

-----------------------------------------------------------------------------
(* page_fault_process at an address whose table is not in the page         *)
(* directory: what a thread with files fs may load there.                  *)
Fits(f) == opened[f.w] = f.key \/ f.key = System
Allowed(fs, a) ==
  LET f == fs[a[1]]
  IN  f # None /\ a[2] \in PartsOf(f.w) /\ Fits(f)
Missing(a) == \A e \in InRing(ring) : e.at # a
EntryFor(fs, a) ==
  LET w == fs[a[1]].w
  IN  IF TableOf(w, a[2]) = None THEN None
      ELSE [at |-> a, table |-> TableOf(w, a[2]), dir |-> root[w]]

(* How often part r of directory d is in a set of slots of a ring.         *)
Times(rg, d, r) ==
  Cardinality({i \in Index : rg[i] # None /\ rg[i].dir = d /\ rg[i].at[2] = r})
Counted(d, r, e) == IF e # None /\ e.dir = d /\ e.at[2] = r THEN 1 ELSE 0

(* add_tlb_buf: the table in the next slot of the ring goes out of the     *)
(* page directory, also when there is none to come in.  Its reference is   *)
(* not lowered.                                                            *)
(* Fault: the processor is not told.                                       *)
EvictsInSilence(i) ==
  /\ flush' = flush
  /\ leaked' = [d \in Block |-> [r \in Part |-> leaked[d][r] + Counted(d, r, ring[i])]]

Evicts(i) ==
  /\ flush' = (flush \/ ring[i] # None)
  /\ leaked' = [d \in Block |-> [r \in Part |-> leaked[d][r] + Counted(d, r, ring[i])]]
Refers(old, e) ==
  [d \in Block |-> [r \in Part |-> old[d][r] + Counted(d, r, e)]]

Fault(a) ==
  LET e == EntryFor(files, a)
  IN  /\ Missing(a)
      /\ Allowed(files, a)
      /\ ring[pointer] # None =>
           leaked[ring[pointer].dir][ring[pointer].at[2]] < MaxLeaked
      /\ Evicts(pointer)
      /\ ring' = [ring EXCEPT ![pointer] = e]
      /\ reference' = Refers(reference, e)
      /\ pointer' = IF e = None THEN pointer ELSE (pointer + 1) % RingSize
      /\ UNCHANGED <<windows, table, item, entry, free, modified, files, lost>>
      /\ Keeps(walks, tlb)

-----------------------------------------------------------------------------
(* process_file_capability_modify and prepare_for_restore: a thread with   *)
(* files fs goes on, that lately missed the addresses of recent.  Nothing  *)
(* is done if it has the files of the one before, unless a table went.     *)
Loads(fs, a) == Allowed(fs, a) /\ EntryFor(fs, a) # None

(* The n-th of the recent addresses that has a table.                      *)
IsLoad(fs, recent, k, n) ==
  Loads(fs, recent[k]) /\ Cardinality({j \in 1 .. k : Loads(fs, recent[j])}) = n

(* Their tables, from the slot of the pointer on.                          *)
Reloaded(fs, recent) ==
  [i \in Index |->
     LET n == ((i + RingSize - pointer) % RingSize) + 1
     IN  IF \E k \in DOMAIN recent : IsLoad(fs, recent, k, n)
         THEN EntryFor(fs, recent[CHOOSE k \in DOMAIN recent : IsLoad(fs, recent, k, n)])
         ELSE None]

NotifyThreadSwitch(fs, recent) ==
  /\ ring' = Reloaded(fs, recent)
  /\ reference' = [d \in Block |-> [r \in Part |->
                     reference[d][r] - Times(ring, d, r) + Times(ring', d, r)]]
  /\ pointer' = 0

Restore(fs, recent) ==
  LET switch == modified \/ fs # files
      drop   == flush \/ (switch /\ InRing(ring) # {})
  IN  /\ files' = fs
      /\ modified' = FALSE
      /\ flush' = FALSE
      /\ IF switch THEN NotifyThreadSwitch(fs, recent)
                   ELSE UNCHANGED <<ring, reference, pointer>>
      /\ UNCHANGED <<windows, table, item, entry, free, ghosts>>
      /\ IF drop THEN Keeps({}, {}) ELSE Keeps(walks, tlb)

-----------------------------------------------------------------------------
Next ==
  \/ \E w \in Window : (\E k \in Key : Mount(w, k)) \/ Unmount(w)
  \/ \E w \in Window, r \in Part, p \in Page :
       ClearItem(w, r, p) \/ \E f \in Frame : SetItem(w, r, p, f)
  \/ \E a \in Addr : Fault(a)
  \/ \E t \in Threads : Restore(t.files, t.recent)

Spec == Init /\ [][Next]_vars

-----------------------------------------------------------------------------
(* A page table the processor can still walk, through the page directory   *)
(* or because it keeps an entry of it, is no free block: it is the table   *)
(* of that part of the file the thread has there, or one of a window that  *)
(* was closed, that nobody will use again.  (tlb.c and memory.c:155: a     *)
(* table is given back by its counts while it may be loaded.)              *)
LoadedTablesAreLive ==
  \A e \in walks :
    /\ e.table \notin free
    /\ \/ e.table \in lost
       \/ /\ files[e.at[1]] # None
          /\ TableOf(files[e.at[1]].w, e.at[2]) = e.table

(* A translation of a page that is in memory, in the frame it is in, of    *)
(* the file the thread that runs has there, with the capability of the one *)
(* that is open or that of the system.                                     *)
Current(t) ==
  LET f == files[t.at[1]]
  IN  /\ f # None
      /\ opened[f.w] # None
      /\ Fits(f)
      /\ TableOf(f.w, t.at[2]) # None
      /\ entry[TableOf(f.w, t.at[2])][t.page] = t.frame

(* Whatever address the processor may translate, the translation is        *)
(* current.  (clear_tlb and tlb_flag: frames are reused when a page is     *)
(* cleared, and another thread has other files at the same addresses.)     *)
TranslationsAreCurrent == \A t \in tlb : Current(t)

(* Every block is free, or a table or the directory of one window, or      *)
(* lost, and the counts that decide when one is given back are exact: the  *)
(* tables of a window, the pages of a table, and its references, which are *)
(* the slots of the ring it is in and those that were evicted from it.     *)
TablesAccounted ==
  /\ \A b \in Block :
       Cardinality({w \in Window : b \in BlocksOf(w)})
         + (IF b \in free THEN 1 ELSE 0) + (IF b \in lost THEN 1 ELSE 0) = 1
  /\ \A w \in Window : root[w] # None =>
       /\ tables[w] = Cardinality({r \in Part : TableOf(w, r) # None})
       /\ \A r \in Part : TableOf(w, r) # None =>
            /\ item[root[w]][r] = Cardinality({p \in Page : HasPage(TableOf(w, r), p)})
            /\ reference[root[w]][r] = Times(ring, root[w], r) + leaked[root[w]][r]
=============================================================================

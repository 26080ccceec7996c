--------------------------------- MODULE Block ---------------------------------
(***************************************************************************)
(* The memory body: threads that map, flush and close file windows         *)
(* (driver/lru).                                                           *)
(*                                                                         *)
(* A call of the body runs with the memory lock (MemoryLock) and gives it  *)
(* up in three places only: when it waits for a block another thread reads *)
(* or writes (wait_at_block), when it waits for memory                     *)
(* (not_enough_memory_wait) and when it calls the file system              *)
(* (operate_device).  What it found before may be gone after.  Programs    *)
(* write to the pages they have mapped at any time.                        *)
(*                                                                         *)
(* A thread is a record: where it is (at), its call, the page it searches, *)
(* the blocks it has read while the answers led it to other pages (queue), *)
(* the block it works on (b), the block with the stack of the file system  *)
(* (s), how often it tried to prepare (tries), and how it flushes (mode).  *)
(* at: "idle", "prepare", "search", "waited", "reading", "loop",           *)
(*     "writing", "flushed", "control", "device", one for every part of    *)
(*     the calls that starts with the lock given up or is gone through     *)
(*     again and again.                                                    *)
(***************************************************************************)
EXTENDS BlockTable

CONSTANTS Answers,     \* the pages the file system may refer the reader of a page to
          UpdateOf,    \* the page an update of a page goes to, or None
          Calls,       \* the calls threads make: bounds the model
          Wakeable     \* the windows wakeup_file_window is called for: bounds the model

VARIABLES m,        \* the tables
          th,       \* the threads
          holder    \* the thread that has the memory lock

vars == <<m, th, holder>>

(* onto: the block below which an update puts the flushed one.             *)
Mode(giveup, free, wait) ==
  [giveup |-> giveup, free |-> free, wait |-> wait, onto |-> None]
NoMode == Mode(FALSE, FALSE, FALSE)

(* w, d: the window and the domain; counted: it is in lock_number of w;    *)
(* mode: of the flush that was called; flush: of the one that runs, and    *)
(* preparing whether it runs to prepare; kept: the block a search is for.  *)
Idle ==
  [at |-> "idle", call |-> "none", w |-> None, d |-> None, counted |-> FALSE,
   page |-> None, readOnly |-> FALSE, queue |-> <<>>, b |-> None, s |-> None,
   tries |-> 0, mode |-> NoMode, flush |-> NoMode, preparing |-> FALSE,
   update |-> FALSE, kept |-> None]

Init ==
  /\ m = EmptyTable(Window)
  /\ th = [t \in Thread |-> Idle]
  /\ holder = None

-----------------------------------------------------------------------------
(* Of a thread with tables n and record r: it goes on, it gives the lock   *)
(* up, its call ends.                                                      *)
GoesOn(t, n, r) == m' = n /\ th' = [th EXCEPT ![t] = r] /\ holder' = t
Leaves(t, n, r) == m' = n /\ th' = [th EXCEPT ![t] = r] /\ holder' = None
Counted(n, w, k) == [n EXCEPT !.calls[w] = @ + k]
Uncounted(n, r) == IF r.counted THEN Counted(n, r.w, -1) ELSE n
Ends(t, n, r) == Leaves(t, Uncounted(n, r), Idle)

Waits(n, t, what) == [n EXCEPT !.waiting[t] = what]

(* It is there, awake, and has the lock or takes it again.                 *)
At(t, place) ==
  /\ th[t].at = place
  /\ m.waiting[t] = None
  /\ holder \in {t, None}

(* A search, from its page on.                                             *)
Searching(r, p) ==
  [r EXCEPT !.at = "prepare", !.page = p, !.d = DomainOfPage(p), !.tries = 0]

-----------------------------------------------------------------------------
(* The calls, as what the thread is when they begin: memory_setup_map for  *)
(* one page, flush_file_window, close_file_window, flush_memory_domain,    *)
(* control_opened_file, control_unopened_file.                             *)
MapCall(p, readOnly) ==
  Searching([Idle EXCEPT !.call = "map", !.w = WindowOf[p], !.counted = TRUE,
                         !.readOnly = readOnly], p)
FlushCall(w, mode, update) ==
  [Idle EXCEPT !.at = "loop", !.call = "flush", !.w = w, !.counted = TRUE,
               !.mode = mode, !.update = update]
CloseCall(w, giveup, wait) ==
  [Idle EXCEPT !.at = "loop", !.call = "close", !.w = w, !.counted = TRUE,
               !.mode = Mode(giveup, TRUE, wait)]
SweepCall(d, mode) ==
  [Idle EXCEPT !.at = "prepare", !.call = "sweep", !.d = d, !.mode = mode]
ControlOpened(w) ==
  [Idle EXCEPT !.at = "prepare", !.call = "control", !.w = w, !.d = DomainOf[w]]
ControlUnopened(d) ==
  [Idle EXCEPT !.at = "prepare", !.call = "control", !.d = d]

(* What the file system takes a page from: pages it refers to, and the one *)
(* an update goes to.  It goes round in no circle, and a window from which *)
(* another takes pages is not closed.                                      *)
Sources(p) == Answers[p] \cup ({UpdateOf[p]} \ {None})
Lending    == {w \in Window : \E p \in Page : \E x \in Sources(p) :
                 WindowOf[x] = w /\ WindowOf[p] # w}
Modes      == {Mode(giveup, free, wait) : giveup, free, wait \in BOOLEAN}

ASSUME CallsAssumption ==
  /\ Answers \in [Page -> SUBSET Page] /\ UpdateOf \in [Page -> Page \cup {None}]
  /\ \E depth \in [Page -> 0..Cardinality(Page)] :
       \A p \in Page : \A x \in Sources(p) : depth[x] < depth[p]
  /\ Calls \subseteq {MapCall(p, readOnly) : p \in Page, readOnly \in BOOLEAN}
             \cup {FlushCall(w, mode, update) :
                      w \in Window, mode \in Modes, update \in BOOLEAN}
             \cup {CloseCall(w, giveup, wait) :
                      w \in Window \ Lending, giveup, wait \in BOOLEAN}
             \cup {SweepCall(d, mode) : d \in Domain, mode \in Modes}
             \cup {ControlOpened(w) : w \in Window} \cup {ControlUnopened(d) : d \in Domain}

Begin(t, k) ==
  /\ holder = None
  /\ th[t] = Idle
  /\ k.w = None \/ k.w \in m.open
  /\ GoesOn(t, IF k.counted THEN Counted(m, k.w, 1) ELSE m, k)

-----------------------------------------------------------------------------
(* prepare_free_block: what follows when it returns.                       *)
Follows(r) == CASE r.call \in {"map", "flush"} -> "search"
                [] r.call = "sweep"            -> "loop"
                [] OTHER                       -> "control"
Prepared(t, n, r, ok) ==
  LET k == [r EXCEPT !.tries = 0, !.preparing = FALSE, !.b = None, !.flush = NoMode]
  IN  \/ ok /\ GoesOn(t, n, [k EXCEPT !.at = Follows(r)])
      \/ ~ok /\ Ends(t, Abandoned(n, r.queue), r)

PrepareFails(t) ==
  LET r == th[t]
  IN  /\ At(t, "prepare")
      /\ r.tries = BlockLimit[r.d].max
      /\ Prepared(t, m, r, FALSE)

(* It is at what it prepared for, or has nothing to prepare.               *)
Ready(t, place) ==
  \/ At(t, place)
  \/ /\ At(t, "prepare")
     /\ Follows(th[t]) = place
     /\ th[t].tries < BlockLimit[th[t].d].max
     /\ ~ShouldPrepareWrite(m, th[t].d)

-----------------------------------------------------------------------------
(* The loops of flush_file_window and flush_memory_domain, and the test    *)
(* close_file_window makes at the end.  max_flush_number is up to the      *)
(* caller: the loop may end after any of its turns.                        *)
FlushEnds(t, n, r) ==
  LET k == Uncounted(n, r)
  IN  IF r.call = "close" /\ BlocksOf(k, r.w) = {} /\ k.calls[r.w] <= 0
      THEN Leaves(t, [k EXCEPT !.open = @ \ {r.w}], Idle)
      ELSE Leaves(t, k, Idle)

Turned(t, n, r) ==
  \/ GoesOn(t, n, [r EXCEPT !.at = IF r.call = "sweep" THEN "prepare" ELSE "loop",
                            !.d = IF r.call = "sweep" THEN @ ELSE None, !.page = None,
                            !.b = None, !.kept = None, !.queue = <<>>, !.flush = NoMode])
  \/ FlushEnds(t, n, r)

FlushReturns(t, n, r, ok) ==
  \/ r.preparing /\ (~ok \/ ~r.flush.free) /\ Prepared(t, n, r, ok)
  \/ /\ r.preparing /\ ok /\ r.flush.free
     /\ GoesOn(t, n, [r EXCEPT !.at = "prepare", !.tries = @ + 1, !.preparing = FALSE,
                               !.b = None, !.flush = NoMode])
  \/ ~r.preparing /\ ok /\ Turned(t, n, r)
  \/ ~r.preparing /\ ~ok /\ Ends(t, n, r)

-----------------------------------------------------------------------------
(* flush_block                                                             *)
FreedIfAsked(n, r) ==
  IF r.flush.free /\ n.state[r.b] = "not modified" /\ n.lock[r.b] <= 0
  THEN Freed(n, {r.b}) ELSE n

(* What does not go to a file: a copy below another block, an update, data *)
(* nobody changed or wants.                                                *)
FlushedInMemory(t, n, r) ==
  \/ /\ n.parent[r.b] # None
     /\ LET k == [n EXCEPT !.state[r.b] = "not modified"]
        IN  FlushReturns(t, FreedIfAsked(k, r), r, TRUE)
  \/ /\ n.parent[r.b] = None
     /\ r.flush.onto # None
     /\ LET root == Root(n, r.flush.onto)
            k    == Cleared(n, root)
        IN  \/ k.lock[root] > 0 /\ FlushReturns(t, k, r, TRUE)
            \/ /\ k.lock[root] <= 0
               /\ FlushReturns(t, FreedIfAsked(Updated(k, r.b, root), r), r, TRUE)
  \/ /\ n.parent[r.b] = None
     /\ r.flush.onto = None
     /\ n.state[r.b] # "modified" \/ r.flush.giveup
     /\ LET given == IF r.flush.giveup THEN {n.phys[r.b]} ELSE {}
            k == [n EXCEPT !.state[r.b] = "not modified", !.newer = @ \ given,
                           !.forgotten = @ \ given]
        IN  FlushReturns(t, FreedIfAsked(k, r), r, TRUE)

(* write_one_block, read_write_file_system: off to the file system, with a *)
(* block for its stack, unless there is none.                              *)
WriteStarts(t, n, r) ==
  LET w == WindowOf[n.page[r.b]]
      k == Counted(Got(n, NextStack(n), DomainOf[w]), w, 1)
  IN  \/ /\ CanGet(n)
         /\ Leaves(t, [k EXCEPT !.state[r.b] = "writing", !.newer = @ \ {n.phys[r.b]},
                                !.forgotten = @ \ {n.phys[r.b]}],
                   [r EXCEPT !.at = "writing", !.s = NextStack(n)])
      \/ ~CanGet(n) /\ FlushReturns(t, NotGot(n), r, FALSE)

FlushBlock(t, k, r) ==
  LET n    == Cleared(k, r.b)
      noWait == ~r.flush.wait \/ WindowOf[k.page[r.b]] \in k.nowait
  IN  \/ k.state[r.b] = "free" /\ FlushReturns(t, k, r, TRUE)
      \/ Busy(k, r.b) /\ noWait /\ FlushReturns(t, k, r, TRUE)
      \/ Busy(k, r.b) /\ ~noWait /\ Leaves(t, Waits(k, t, r.b), [r EXCEPT !.at = "flushed"])
      \/ /\ Settled(k, r.b)
         /\ \/ n.lock[r.b] > 0 /\ FlushReturns(t, n, r, TRUE)
            \/ n.lock[r.b] <= 0 /\ FlushedInMemory(t, n, r)
            \/ /\ n.lock[r.b] <= 0
               /\ n.state[r.b] = "modified" /\ n.parent[r.b] = None
               /\ r.flush.onto = None /\ ~r.flush.giveup
               /\ WriteStarts(t, n, r)

Prepare(t) ==
  LET r == th[t]
  IN  /\ At(t, "prepare")
      /\ r.tries < BlockLimit[r.d].max
      /\ ShouldPrepareWrite(m, r.d)
      /\ \/ /\ CanPrepareWrite(m, r.d)
            /\ \E b \in Ring(m, r.d) :
                 IF WindowOf[m.page[b]] \in Swappable
                 THEN FlushBlock(t, m, [r EXCEPT !.b = b, !.preparing = TRUE,
                        !.flush = Mode(FALSE, ShouldPrepareFree(m, r.d), FALSE)])
                 ELSE GoesOn(t, m, [r EXCEPT !.tries = @ + 1])
         \/ /\ ~CanPrepareWrite(m, r.d)
            /\ Leaves(t, Waits(m, t, Memory), r)

Loop(t) ==
  LET r == [th[t] EXCEPT !.tries = 0]
      ring == IF r.call = "sweep" THEN Ring(m, r.d) ELSE BlocksOf(m, r.w)
  IN  /\ Ready(t, "loop")
      /\ \/ ring = {} /\ FlushEnds(t, m, r)
         \/ \E b \in ring :
              LET to == IF r.update /\ m.parent[b] = None THEN UpdateOf[m.page[b]] ELSE None
              IN  \/ to = None /\ FlushBlock(t, m, [r EXCEPT !.b = b, !.flush = r.mode])
                  \/ to # None /\ GoesOn(t, m, Searching([r EXCEPT
                       !.kept = [b |-> b, page |-> m.page[b]]], to))

Flushed(t) == At(t, "flushed") /\ FlushReturns(t, m, th[t], TRUE)

(* The file system answers: the data is in the file, or it is not.         *)
StackGivenBack(n, r, w) == Counted(GivenBack(n, Stack(r.s, DomainOf[w])), w, -1)

Wrote(t, ok) ==
  LET r == th[t]
      w == WindowOf[m.page[r.b]]
      n == Woken([StackGivenBack(m, r, w) EXCEPT
                    !.state[r.b] = IF ok THEN "not modified" ELSE "modified",
                    !.newer = IF ok THEN @ ELSE @ \cup {m.phys[r.b]}], {r.b})
      k == [r EXCEPT !.s = None]
  IN  /\ At(t, "writing")
      /\ FlushReturns(t, IF ok THEN FreedIfAsked(n, r) ELSE n, k, ok)

-----------------------------------------------------------------------------
(* search_read_block, read_one_block                                       *)
SearchFails(t, n, r) == Ends(t, Abandoned(n, r.queue), r)

(* The block found is what the call wanted.  An update goes on only if the *)
(* block to be flushed is still the one it was.                            *)
Obtained(t, n, r, b) ==
  \/ /\ r.call = "map"
     /\ \/ Ends(t, n, r)
        \/ n.pool # {} /\ Ends(t, Entered(n, b, r.readOnly), r)
  \/ /\ r.call = "flush"
     /\ LET x == r.kept.b
            same == n.page[x] = r.kept.page /\ n.parent[x] = None
            k == [r EXCEPT !.queue = <<>>, !.page = None, !.d = None, !.kept = None]
        IN  \/ ~same /\ Turned(t, n, k)
            \/ same /\ FlushBlock(t, n, [k EXCEPT !.b = x,
                                           !.flush = [r.mode EXCEPT !.onto = Root(n, b)]])

(* From the last block found back to the page the search was for; a thread *)
(* that is to write to it then makes its memory its own.                   *)
Linking(t, k, r, found) ==
  LET n == Linked(k, found, r.queue)
      b == IF r.queue = <<>> THEN found ELSE r.queue[Len(r.queue)]
      own == OwnBlock(n, b)
      c == Cleared(n, own)
      shared == \/ r.readOnly /\ WindowOf[n.page[b]] \in CopyOnWrite
                \/ own = Root(n, b)
  IN  \/ shared /\ Obtained(t, n, r, b)
      \/ /\ ~shared /\ c.lock[own] > 0
         /\ \/ WindowOf[n.page[own]] \in n.nowait /\ Ends(t, c, r)
            \/ /\ WindowOf[n.page[own]] \notin n.nowait
               /\ GoesOn(t, c, [Searching(r, n.page[b]) EXCEPT !.queue = <<>>])
      \/ ~shared /\ c.lock[own] <= 0 /\ c.pool = {} /\ Ends(t, c, r)
      \/ ~shared /\ c.lock[own] <= 0 /\ c.pool # {} /\ Obtained(t, Copied(c, own), r, b)

(* The page is there: wait if any block it depends on is read or written.  *)
SearchFinds(t) ==
  LET r == [th[t] EXCEPT !.tries = 0]
  IN  /\ Ready(t, "search")
      /\ \E b \in Found(m, r.page) :
           LET busy == {y \in Above(m, b) : Busy(m, y)}
               x == First(m, busy)
           IN  \/ busy = {} /\ Linking(t, m, r, b)
               \/ /\ busy # {} /\ WindowOf[m.page[x]] \in m.nowait
                  /\ SearchFails(t, m, r)
               \/ /\ busy # {} /\ WindowOf[m.page[x]] \notin m.nowait
                  /\ Leaves(t, Waits(m, t, x), [r EXCEPT !.at = "waited", !.b = WindowOf[m.page[x]]])

(* Woken, it starts again at the page: the block may be gone by now.       *)
Waited(t) ==
  LET r == th[t]
  IN  /\ At(t, "waited")
      /\ \/ r.b \in m.nowait /\ SearchFails(t, m, r)
         \/ r.b \notin m.nowait /\ GoesOn(t, m, [Searching(r, r.page) EXCEPT !.b = None])

(* The page is not there: a block to read it, one for the stack, and off   *)
(* to the file system.                                                     *)
SearchReads(t) ==
  LET r == [th[t] EXCEPT !.tries = 0]
      b == NextBlock(m, r.page)
      n == MountedReading(m, r.page)
      k == Got([n EXCEPT !.lock[b] = @ + 1], NextStack(n), r.d)
  IN  /\ Ready(t, "search")
      /\ Found(m, r.page) = {}
      /\ \/ ~CanGet(m) /\ SearchFails(t, NotGot(m), r)
         \/ /\ CanGet(m) /\ ~CanGet(n)
            /\ SearchFails(t, Freed(UnmountedReading(NotGot(n), {b}), {b}), r)
         \/ /\ CanGet(m) /\ CanGet(n)
            /\ Leaves(t, Counted(k, WindowOf[r.page], 1),
                      [r EXCEPT !.at = "reading", !.b = b, !.s = NextStack(n)])

(* What the file system says of the page: it has been read, it has not, or *)
(* it is the same as another page.                                         *)
ReadEnds(t) == [StackGivenBack(m, th[t], WindowOf[th[t].page]) EXCEPT !.lock[th[t].b] = @ - 1]

ReadSucceeds(t) ==
  LET r == [th[t] EXCEPT !.s = None]
  IN  /\ At(t, "reading")
      /\ Linking(t, UnmountedReading(ReadEnds(t), {r.b}), r, r.b)

ReadFails(t) ==
  LET r == th[t]
  IN  /\ At(t, "reading")
      /\ SearchFails(t, Freed(UnmountedReading(ReadEnds(t), {r.b}), {r.b}), r)

ReadRefers(t, p, private) ==
  LET r == th[t]
      n == ReadEnds(t)
  IN  /\ At(t, "reading")
      /\ p \in Answers[r.page]
      /\ GoesOn(t, [n EXCEPT !.private = IF private THEN @ \cup {r.b} ELSE @],
                Searching([r EXCEPT !.queue = <<r.b>> \o @, !.b = None, !.s = None], p))

-----------------------------------------------------------------------------
(* operate_file_system: a call of the file system that is about no block.  *)
Control(t) ==
  LET r == [th[t] EXCEPT !.tries = 0]
      n == Got(m, NextStack(m), r.d)
  IN  /\ Ready(t, "control")
      /\ \/ ~CanGet(m) /\ Ends(t, NotGot(m), r)
         \/ /\ CanGet(m)
            /\ Leaves(t, IF r.w = None THEN n
                         ELSE [Counted(n, r.w, 1) EXCEPT !.miscounted = @ \cup ({r.w} \ m.open)],
                      [r EXCEPT !.at = "device", !.s = NextStack(m), !.counted = r.w # None])

Controlled(t) ==
  LET r == th[t]
  IN  /\ At(t, "device")
      /\ Ends(t, GivenBack(m, Stack(r.s, r.d)), r)

(* open_file_window; a window closed under a call that is to be about it   *)
(* keeps a wrong lock_number and is not opened again here.                 *)
Open(w) ==
  /\ holder = None
  /\ w \notin m.open \cup m.miscounted
  /\ m' = [m EXCEPT !.open = @ \cup {w}, !.nowait = @ \ {w}, !.calls[w] = 0]
  /\ UNCHANGED <<th, holder>>

(* wakeup_file_window, wakeup_memory_domain: with the flag set the waiters *)
(* at some blocks of the windows are woken, and find it.                   *)
Wakeup ==
  /\ holder = None
  /\ \E ws \in SUBSET (Wakeable \cap m.open) :
       \/ \E bs \in SUBSET (Range(m.waiting) \cap UNION {BlocksOf(m, w) : w \in ws}) :
            m' = [Woken(m, bs) EXCEPT !.nowait = @ \cup ws]
       \/ m' = [m EXCEPT !.nowait = @ \ ws]
  /\ UNCHANGED <<th, holder>>

(* A program writes to a page it has mapped.                               *)
Touch(p) ==
  /\ m.entry[p] # None
  /\ m.entry[p].write
  /\ m' = [m EXCEPT !.entry[p].dirty = TRUE, !.newer = @ \cup {m.entry[p].to},
                    !.forgotten = @ \ {m.entry[p].to}]
  /\ UNCHANGED <<th, holder>>

-----------------------------------------------------------------------------
Next ==
  \/ \E t \in Thread :
       \/ \E k \in Calls : Begin(t, k)
       \/ PrepareFails(t) \/ Prepare(t) \/ Loop(t) \/ Flushed(t)
       \/ \E ok \in BOOLEAN : Wrote(t, ok)
       \/ SearchFinds(t) \/ Waited(t) \/ SearchReads(t)
       \/ ReadSucceeds(t) \/ ReadFails(t)
       \/ \E p \in Page, private \in BOOLEAN : ReadRefers(t, p, private)
       \/ Control(t) \/ Controlled(t)
  \/ \E w \in Window : Open(w)
  \/ Wakeup
  \/ \E p \in Page : Touch(p)

Spec == Init /\ [][Next]_vars

-----------------------------------------------------------------------------
(* block_free.c, mount_wait_block.c, copy_on_write.c, flush_block.c: of    *)
(* every block and page exactly one thing is made, and the domain that has *)
(* it counts it: a stack is that of one call of the file system, a block   *)
(* is for a page of an open window, and its memory is its own unless it is *)
(* below another.  No page is free while it holds data of a file.          *)
PagesAccounted ==
  LET stacks == {b \in Block : m.state[b] = "free"} \ m.free
      live   == {b \in Block : m.state[b] # "free"}
      domain(b) == IF b \in stacks THEN (CHOOSE d \in Domain :
                     \E t \in Thread : th[t].s = b /\
                       d = IF th[t].at = "device" THEN th[t].d ELSE DomainOfPage(m.page[th[t].b]))
                   ELSE DomainOfPage(m.page[b])
  IN  /\ \A b \in stacks : Cardinality({t \in Thread : th[t].s = b}) = 1
      /\ \A t \in Thread : th[t].s # None => th[t].s \in stacks
      /\ \A b \in m.free : m.state[b] = "free" /\ m.phys[b] = None
      /\ \A b \in stacks \cup live : (m.phys[b] = None) <=> (m.parent[b] # None)
      /\ \A b \in Block : m.phys[b] # None =>
           m.phys[b] \notin m.pool /\ \A x \in Block : m.phys[x] = m.phys[b] => x = b
      /\ \A p \in Phys : p \in m.pool \/ \E b \in Block : m.phys[b] = p
      /\ \A d \in Domain :
           LET mine == {b \in stacks \cup live : domain(b) = d}
           IN  /\ m.blocks[d] = Cardinality(mine)
               /\ m.pages[d] = Cardinality({b \in mine : m.phys[b] # None})
      /\ m.newer \cap m.pool = {}

(* search_read_block.c, read_block.c: two threads that miss the same page, *)
(* or one that comes back from a wait, never make two blocks for it; a     *)
(* closed window has none; and while a thread reads or writes a block      *)
(* nobody else takes it for anything.                                      *)
OneBlockPerPage ==
  /\ \A p \in Page : Cardinality(Found(m, p)) <= 1
  /\ \A b \in Block : m.state[b] # "free" => WindowOf[m.page[b]] \in m.open
  /\ \A t \in Thread :
       /\ th[t].at = "reading" => m.state[th[t].b] = "reading" /\ m.page[th[t].b] = th[t].page
       /\ th[t].at = "writing" => m.state[th[t].b] = "writing"
       /\ \A i \in DOMAIN th[t].queue : m.state[th[t].queue[i]] = "reading"
  /\ \A b \in Block : Busy(m, b) =>
       Cardinality({t \in Thread : \/ b \in Range(th[t].queue)
                                   \/ th[t].at \in {"reading", "writing"} /\ th[t].b = b}) = 1

(* setupmap.c, clear_block.c: an entry leads to the memory its page has    *)
(* now, and a page whose data moves between memory and file, or that is    *)
(* below one that does, has none.                                          *)
MappingsFollowRoot ==
  \A p \in Page : m.entry[p] # None =>
    \E b \in Found(m, p) :
      /\ m.entry[p].to = m.phys[Root(m, b)]
      /\ \A x \in Above(m, b) : ~Busy(m, x)

(* setupmap.c, clear_block.c: lock_number of a block is the number of      *)
(* entries that lead to it or to one below it, and one for the reader:     *)
(* nothing else keeps a block from being cleared, and so from being freed. *)
BlockLocks ==
  \A b \in Block : m.state[b] # "free" =>
    m.lock[b] = Cardinality({x \in Tree(m, b) : m.entry[m.page[x]] # None})
              + Cardinality({t \in Thread : th[t].at = "reading" /\ th[t].b = b})
(* close_file.c, control_opened_file.c: lock_number of a window is the     *)
(* number of calls in the middle of which it must not be closed, unless    *)
(* one began to be about it after a wait in which it was closed.           *)
WindowLocks ==
  \A w \in Window \ m.miscounted :
    m.calls[w] = Cardinality({t \in Thread : th[t].counted /\ th[t].w = w})
               + Cardinality({t \in Thread :
                   \/ th[t].at = "reading" /\ WindowOf[th[t].page] = w
                   \/ th[t].at = "writing" /\ WindowOf[m.page[th[t].b]] = w})
(* Both counters tell who depends on a block and on a window.              *)
LocksCountUsers == BlockLocks /\ WindowLocks

(* clear_block.c, flush_block.c, copy_on_write.c: data that no file has is *)
(* in a block marked as modified, or some entry that leads to it is dirty, *)
(* until it is given up or has been lost with an overwritten dirty bit.    *)
ModificationsAreKnown ==
  \A p \in m.newer \ m.forgotten :
    \E b \in Block :
      /\ m.phys[b] = p
      /\ \/ m.state[b] = "modified"
         \/ \E x \in Tree(m, b) : m.entry[m.page[x]] # None /\ m.entry[m.page[x]].dirty

(* wait_block.c: who waits for a block waits for one that some thread      *)
(* reads or writes, and that will wake it.                                 *)
WaitersAtBusy ==
  \A t \in Thread : m.waiting[t] \in Block => Busy(m, m.waiting[t])
(* prepare.c: who waits for memory has someone who will give a block back. *)
MemoryComes ==
  \A t \in Thread : m.waiting[t] = Memory =>
    \E u \in Thread : th[u].at # "idle" /\ m.waiting[u] = None
(* Nobody waits for what does not come.                                    *)
WaitersServed == WaitersAtBusy /\ MemoryComes
=============================================================================

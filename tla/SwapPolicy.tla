------------------------------ MODULE SwapPolicy ------------------------------
(***************************************************************************)
(* When a memory domain has to write blocks back or to free them           *)
(* (driver/lru/swap_policy.c) and how its limits are set (resource.c).     *)
(*                                                                         *)
(* A domain has two limits, one on its blocks (trigger, max_block_number)  *)
(* and one on its pages of physical memory (physical_trigger,              *)
(* physical_max_block_number).  They are used in the same way: a limit is  *)
(* a record here and every operator is about one of them.                  *)
(***************************************************************************)
EXTENDS Integers

Limit == [max : Int, write : Int, free : Int, systemWrite : Int, systemFree : Int]

(* What install leaves in a domain.                                        *)
NoLimit == [max |-> 0, write |-> 0, free |-> 0, systemWrite |-> 0, systemFree |-> 0]

-----------------------------------------------------------------------------
(* n: what the domain has of the resource; systemFree: what is free of it  *)
(* in the whole body; reserve: what has to be left to the threads that     *)
(* write (8 in the code).                                                  *)
ShouldFree(l, n, systemFree)  == systemFree < l.systemFree \/ n >= l.free
ShouldWrite(l, n, systemFree) ==
  ShouldFree(l, n, systemFree) \/ systemFree < l.systemWrite \/ n >= l.write
CanWrite(l, n, systemFree, reserve) == n < l.max /\ systemFree >= reserve

-----------------------------------------------------------------------------
AtMost(x, y)  == IF x >= y THEN y ELSE x
AtLeast(x, y) == IF x < y THEN y ELSE x

(* A request brought within bounds: total is what the body has in all.     *)
InBounds(r, total) ==
  LET max  == AtLeast(r.max, 1)
      free == AtLeast(AtMost(r.free, max - 1), 0)
      half(x) == AtLeast(AtMost(x, total \div 2), 0)
  IN  [max |-> max, free |-> free,
       write |-> AtLeast(AtMost(r.write, free), 0),
       systemWrite |-> half(r.systemWrite), systemFree |-> half(r.systemFree)]

(* allocate_memory_resource: the system's capability sets the limit, the   *)
(* domain's own can only make it tighter.                                  *)
Allocated(l, r, total, system) ==
  LET b == InBounds(r, total)
  IN  IF system THEN b
      ELSE [max |-> AtMost(l.max, b.max), write |-> AtMost(l.write, b.write),
            free |-> AtMost(l.free, b.free),
            systemWrite |-> AtLeast(l.systemWrite, b.systemWrite),
            systemFree |-> AtLeast(l.systemFree, b.systemFree)]

(* resource.c: the order of the thresholds, without which a domain could   *)
(* be full without having to free anything, or have to wait for blocks     *)
(* that nothing obliges anyone to write back.  A domain that was never     *)
(* given anything has no blocks at all.                                    *)
InOrder(l, total) ==
  /\ l \in Limit
  /\ \/ 0 <= l.write /\ l.write <= l.free /\ l.free < l.max
     \/ l.write = 0 /\ l.free = 0 /\ l.max = 0
  /\ l.systemWrite \in 0..(total \div 2)
  /\ l.systemFree \in 0..(total \div 2)
=============================================================================

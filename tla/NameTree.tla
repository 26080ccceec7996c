------------------------------ MODULE NameTree ------------------------------
(***************************************************************************)
(* The name service as coded (dns/): a tree of nodes in two arrays, the    *)
(* children of a node in a ring of brothers, free nodes in a list that goes*)
(* through right_brother, and names in pieces of a pool.  Its driver has a *)
(* device lock of one unit (test/driver.c), so a request is one step.      *)
(*                                                                         *)
(* A path is the sequence of its parts between separators; parts may be    *)
(* empty, and the empty string is one empty part.  So is a node's name: a  *)
(* path whose only separator comes first is taken whole (create.c).        *)
(* Pieces of the pool are alike, and only their number is kept.            *)
(***************************************************************************)
EXTENDS Integers, FiniteSets, Sequences

CONSTANTS Component,   \* the parts of a path other than the empty one
          Empty,       \* the empty part
          Length,      \* how long each part is
          Path,        \* the paths callers give
          Capability,  \* the capabilities callers show
          System,      \* os->system_capability
          Zero,        \* the capability of zeros
          File,        \* files, by their capability
          MaxNode, MaxElement   \* DNS_MAX_TREE_NODE_NUMBER - 1, DNS_MAX_NAME_NUMBER

ASSUME NameTreeAssumption ==
  /\ Empty \notin Component
  /\ Length \in [Component -> Nat \ {0}]
  /\ Path \subseteq Seq(Component \cup {Empty}) \ {<<>>}
  /\ System \in Capability /\ File \subseteq Capability
  /\ MaxNode \in Nat \ {0} /\ MaxElement \in Nat

VARIABLE T   \* my_dns; its fields as in dns.h, see Init

None == -1
Root == 0
Node == 0..MaxNode
End  == <<Empty>>   \* the empty string

-----------------------------------------------------------------------------
(* Faults a change of the code might introduce: a capability not compared; *)
(* a search that looks at the first child only.  Two others stand before   *)
(* the definitions they change.  No definition uses them.                  *)
AcceptsAny(held, given)  == TRUE
ChildrenFirstOnly(st, n) == {st.first_child[n]} \ {None}

-----------------------------------------------------------------------------
(* DNS_NAME_ELEMENT_LENGTH is two, and a name ends with a zero.            *)
Chars(x) == IF x = Empty THEN 0 ELSE Length[x]
Elements(name) ==
  LET sum[k \in 0..Len(name)] == IF k = 0 THEN 0 ELSE sum[k - 1] + Chars(name[k])
  IN  (sum[Len(name)] + Len(name) - 1) \div 2 + 1

Accepts(held, given) == given \in {held, System}

(* What following one link again and again reaches from n.                 *)
Chain(link, n) ==
  LET within[k \in 0..MaxNode] ==
        IF k = 0 THEN {n} \ {None}
        ELSE LET before == within[k - 1]
             IN  before \cup ({link[x] : x \in before} \ {None})
  IN  within[MaxNode]
Children(st, n) == Chain(st.right_brother, st.first_child[n])

(* dns_search_part_tree_node: down the tree while a child is called like   *)
(* the next part.  No two such brothers have one name (TreeConsistent).    *)
Called(st, n, x) == {c \in Children(st, n) : st.name[c] = <<x>>}
Down(st, at) ==
  LET found == Called(st, at.node, Head(at.rest))
  IN  IF found = {} THEN at
      ELSE [node |-> CHOOSE c \in found : TRUE,
            rest |-> IF Len(at.rest) = 1 THEN End ELSE Tail(at.rest)]
SearchPart(st, n, path) ==
  LET at[k \in 0..Len(path)] ==
        IF k = 0 THEN [node |-> n, rest |-> path] ELSE Down(st, at[k - 1])
  IN  at[Len(path)]

(* dns_search_tree_node: nothing of the path may be left.                  *)
Search(st, n, path) ==
  LET at == SearchPart(st, n, path)
  IN  IF at.rest = End THEN at.node ELSE None

-----------------------------------------------------------------------------
(* The first free node becomes the right brother of the first child.       *)
Insert(st, parent, name, f, m) ==
  LET n     == st.free_tree_node
      left  == st.first_child[parent]
      right == IF left = None THEN n ELSE st.right_brother[left]
      taken == [st EXCEPT !.free_tree_node = st.right_brother[n],
                          !.free_name_element = @ - Elements(name),
                          !.name[n] = name, !.parent[n] = parent,
                          !.file[n] = f, !.modify[n] = m,
                          !.first_child[n] = None, !.child_number[n] = 0,
                          !.left_brother[n] = left, !.right_brother[n] = right]
      joined == IF left = None
                THEN [taken EXCEPT !.first_child[parent] = n, !.left_brother[n] = n]
                ELSE [taken EXCEPT !.right_brother[left] = n, !.left_brother[right] = n]
  IN  [joined EXCEPT !.child_number[parent] = @ + 1]

(* Where dns_create_tree_node cuts the path.                               *)
IsWhole(path) == Len(path) = 1 \/ (Len(path) = 2 /\ path[1] = Empty)
Parent(st, path) ==
  IF IsWhole(path) THEN Root ELSE Search(st, Root, SubSeq(path, 1, Len(path) - 1))
LastName(path) == IF IsWhole(path) THEN path ELSE <<path[Len(path)]>>

Create(st, path, given, f, m) ==
  LET parent == Parent(st, path)
      name   == LastName(path)
      same   == Search(st, parent, name)
  IN  IF path = End
      THEN IF given = System
           THEN [st EXCEPT !.file[Root] = f, !.modify[Root] = m] ELSE st
      ELSE IF parent = None THEN st
      ELSE IF ~Accepts(st.modify[parent], given) THEN st
      ELSE IF same # None THEN [st EXCEPT !.modify[same] = m]
      ELSE IF st.free_tree_node = None \/ Elements(name) > st.free_name_element THEN st
      ELSE Insert(st, parent, name, f, m)

-----------------------------------------------------------------------------
(* Fault: the parent's first child is not moved on.                        *)
OutOfRingKeepsFirst(st, n) ==
  LET up    == st.parent[n]
      left  == st.left_brother[n]
      right == st.right_brother[n]
  IN  IF n = left
      THEN [st EXCEPT !.first_child[up] = None, !.child_number[up] = 0]
      ELSE [st EXCEPT !.child_number[up] = @ - 1,
                      !.right_brother[left] = right, !.left_brother[right] = left]

(* dns_release_one_tree_node.                                              *)
OutOfRing(st, n) ==
  LET up    == st.parent[n]
      left  == st.left_brother[n]
      right == st.right_brother[n]
  IN  IF n = left
      THEN [st EXCEPT !.first_child[up] = None, !.child_number[up] = 0]
      ELSE [st EXCEPT !.child_number[up] = @ - 1,
                      !.right_brother[left] = right, !.left_brother[right] = left,
                      !.first_child[up] = IF @ = n THEN right ELSE @]
(* Fault: the pieces of the name are not given back.                       *)
ReleaseOneKeepsElements(st, n) ==
  [OutOfRing(st, n) EXCEPT !.name[n] = <<>>, !.parent[n] = None,
     !.left_brother[n] = None, !.first_child[n] = None, !.child_number[n] = 0,
     !.right_brother[n] = st.free_tree_node, !.free_tree_node = n]

ReleaseOne(st, n) ==
  [OutOfRing(st, n) EXCEPT !.free_name_element = @ + Elements(st.name[n]),
     !.name[n] = <<>>, !.parent[n] = None, !.left_brother[n] = None,
     !.first_child[n] = None, !.child_number[n] = 0,
     !.right_brother[n] = st.free_tree_node, !.free_tree_node = n]

(* As long as n has children, the first leaf below it goes.                *)
FirstLeaf(st, n) ==
  CHOOSE leaf \in Chain(st.first_child, n) : st.first_child[leaf] = None
ReleaseBelow(st, n) ==
  LET after[k \in 0..MaxNode] ==
        IF k = 0 THEN st
        ELSE LET r == after[k - 1]
             IN  IF r.first_child[n] = None THEN r ELSE ReleaseOne(r, FirstLeaf(r, n))
  IN  after[MaxNode]

(* dns_release_tree_node.  The root is refused, but only after its children*)
(* have gone.                                                              *)
Release(st, path, with_children, given) ==
  LET n    == Search(st, Root, path)
      bare == IF with_children THEN ReleaseBelow(st, n) ELSE st
  IN  IF n = None THEN st
      ELSE IF ~Accepts(st.modify[n], given) THEN st
      ELSE IF bare.first_child[n] # None \/ n = Root THEN bare
      ELSE ReleaseOne(bare, n)

(* dns_get_first_name: the next listing begins with the next brother.      *)
List(st, path, given) ==
  LET n     == Search(st, Root, path)
      first == st.first_child[n]
  IN  IF n = None THEN st
      ELSE IF ~Accepts(st.file[n], given) THEN st
      ELSE IF first = None THEN st
      ELSE [st EXCEPT !.first_child[n] = st.right_brother[first]]

-----------------------------------------------------------------------------
Init ==
  T = [free_tree_node |-> 1, free_name_element |-> MaxElement,
       name          |-> [n \in Node |-> <<>>],
       parent        |-> [n \in Node |-> None],
       left_brother  |-> [n \in Node |-> IF n = Root THEN Root ELSE None],
       right_brother |-> [n \in Node |-> IF n = Root THEN Root
                                         ELSE IF n = MaxNode THEN None ELSE n + 1],
       first_child   |-> [n \in Node |-> None],
       child_number  |-> [n \in Node |-> 0],
       file          |-> [n \in Node |-> IF n = Root THEN System ELSE Zero],
       modify        |-> [n \in Node |-> Zero]]

ADD_NAME_AND_ID ==
  \E path \in Path, given, m \in Capability, f \in File : T' = Create(T, path, given, f, m)
DELETE_NAME_AND_ID ==
  \E path \in Path, with_children \in BOOLEAN, given \in Capability :
    T' = Release(T, path, with_children, given)
LIST_NAME_AND_ID ==
  \E path \in Path, given \in Capability : T' = List(T, path, given)

Next == ADD_NAME_AND_ID \/ DELETE_NAME_AND_ID \/ LIST_NAME_AND_ID

Spec == Init /\ [][Next]_T

-----------------------------------------------------------------------------
Ids == Node \cup {None}
Live == {n \in Node : n = Root \/ T.parent[n] # None}

(* The free list holds exactly the nodes outside the tree.  The children of*)
(* a node are one ring, to the left as to the right, as many as            *)
(* child_number says, and called differently unless no search finds them.  *)
(* Every node hangs below the root: after any mixture of additions,        *)
(* removals of whole subtrees and listings, which turn the rings.          *)
TreeConsistent ==
  /\ Chain(T.right_brother, T.free_tree_node) = Node \ Live
  /\ \A n \in Live :
       LET kids == Children(T, n)
       IN  /\ kids = {c \in Node : T.parent[c] = n}
           /\ T.child_number[n] = Cardinality(kids)
           /\ \A c \in kids : /\ T.left_brother[T.right_brother[c]] = c
                              /\ T.right_brother[T.left_brother[c]] = c
           /\ \A c, d \in kids : c # d /\ T.name[c] = T.name[d] => Len(T.name[c]) > 1
           /\ Root \in Chain(T.parent, n)

(* Every piece of the pool is free or in a name: none is lost when a name  *)
(* does not fit or a subtree goes, none is handed out twice.               *)
ElementsAccounted ==
  LET used[k \in 0..MaxNode] ==
        IF k = Root THEN 0
        ELSE used[k - 1] + IF k \in Live THEN Elements(T.name[k]) ELSE 0
  IN  T.free_name_element >= 0 /\ T.free_name_element + used[MaxNode] = MaxElement

(* The directory a tree stands for: every node has the path its parents    *)
(* spell; the nodes no search finds have a separator in their own name.    *)
AsDirectory(st) ==
  LET path[n \in Node] == IF n = Root THEN <<>> ELSE path[st.parent[n]] \o st.name[n]
      seen   == {n \in Node : n = Root \/ (st.parent[n] # None /\ Len(st.name[n]) = 1)}
      pathOf == [n \in seen |-> path[n]]
  IN  [p \in {pathOf[n] : n \in seen} |->
         LET n == CHOOSE n \in seen : pathOf[n] = p
         IN  [file |-> st.file[n], modify |-> st.modify[n]]]

Abstract == INSTANCE Directory

(* Every request, whoever makes it, does to the names what Directory says: *)
(* where a search down the rings ends, which nodes of a subtree go, who may*)
(* do so.  Only when nodes or pieces run out, an addition does nothing.    *)
ImplementsDirectory ==
  LET d == AsDirectory(T)
      DirectoryOf(st) == IF st = T THEN d ELSE AsDirectory(st)
  IN  \A path \in Path, given \in Capability :
        /\ \A f \in File, m \in Capability :
             LET after  == DirectoryOf(Create(T, path, given, f, m))
                 noRoom == \/ Live = Node
                           \/ Elements(LastName(path)) > T.free_name_element
             IN  \/ after = Abstract!Added(d, path, given, f, m)
                 \/ after = d /\ noRoom
        /\ \A with_children \in BOOLEAN :
             DirectoryOf(Release(T, path, with_children, given))
               = Abstract!Removed(d, path, with_children, given)
        /\ DirectoryOf(List(T, path, given)) = d

(* A search goes as far as there are names, empty parts having none, and   *)
(* says what is left: name_to_id_routine gives the rest of the path to the *)
(* file it found.                                                          *)
SearchFindsLongestPrefix ==
  LET d == AsDirectory(T)
  IN  \A path \in Path :
        LET at == SearchPart(T, Root, path)
            to == Abstract!Resolved(d, path)
        IN  /\ at.rest = to.rest
            /\ d[to.name] = [file |-> T.file[at.node], modify |-> T.modify[at.node]]
            /\ Len(to.name) = 0 <=> at.node = Root
=============================================================================

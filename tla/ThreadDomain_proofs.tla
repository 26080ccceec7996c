-------------------------- MODULE ThreadDomain_proofs --------------------------
(***************************************************************************)
(* Proofs about ThreadDomain for any threads, stacks, domains, quotas and  *)
(* any number of a monitor's units.                                        *)
(*                                                                         *)
(* Chains and the free list are taken together (Tidy): every stack is in   *)
(* one of them, once.  They change in two ways only, a stack is taken      *)
(* (Taken) and the first ones of a chain are given back (Given), and what  *)
(* every counter, and every monitor, has to follow is which stacks these   *)
(* are.                                                                    *)
(***************************************************************************)
EXTENDS ThreadDomain, Ops_proofs, FiniteSetTheorems

InUse(ch) == UNION {Members(ch[t]) : t \in Thread}

Tidy(ch, f) ==
  /\ \A t \in Thread : Distinct(ch[t])
  /\ Distinct(f)
  /\ \A t, u \in Thread : t # u => Members(ch[t]) \cap Members(ch[u]) = {}
  /\ \A t \in Thread : Members(ch[t]) \cap Members(f) = {}
  /\ Members(f) \cup InUse(ch) = Stack

-----------------------------------------------------------------------------
LEMMA Member ==
  ASSUME NEW c, NEW s, NEW n, n = Len(c)
  PROVE  s \in Members(c) <=> \E i \in 1..n : s = c[i]
  BY DEF Members

LEMMA User ==
  ASSUME NEW ch, NEW s
  PROVE  s \in InUse(ch) <=> \E t \in Thread : s \in Members(ch[t])
  BY DEF InUse

LEMMA MembersOf ==
  ASSUME NEW X, NEW c \in Seq(X)
  PROVE  /\ Len(c) \in Nat
         /\ \A i \in 1..Len(c) : c[i] \in X
         /\ Members(c) \subseteq X
         /\ c = <<>> <=> Len(c) = 0
         /\ c # <<>> => c[1] \in Members(c)
  <1>1. Len(c) \in Nat /\ \A i \in 1..Len(c) : c[i] \in X
    BY LenProperties, ElementOfSeq
  <1>2. c = <<>> <=> Len(c) = 0
    BY EmptySeq, LenProperties
  <1> QED
    BY <1>1, <1>2 DEF Members

LEMMA Joined ==
  ASSUME NEW X, NEW a \in Seq(X), NEW b \in Seq(X), NEW r, r = a \o b
  PROVE  /\ r \in Seq(X) /\ Len(r) = Len(a) + Len(b)
         /\ \A i \in 1..(Len(a) + Len(b)) : r[i] = IF i <= Len(a) THEN a[i] ELSE b[i - Len(a)]
  BY ConcatProperties

OnTop(ch, t, x) == [ch EXCEPT ![t] = <<x>> \o ch[t]]
Cut(ch, t, k)   == [ch EXCEPT ![t] = SubSeq(ch[t], k + 1, Len(ch[t]))]
Back(ch, t, k)  == [i \in 1..k |-> ch[t][k + 1 - i]]
First(ch, t, k) == {ch[t][i] : i \in 1..k}

(* The first stack of the free list becomes the top of a chain.            *)
IsTaken(ch, t, x, new, g) ==
  /\ new \in [Thread -> Seq(Stack)] /\ g \in Seq(Stack)
  /\ Tidy(new, g)
  /\ x \in Stack /\ x \notin InUse(ch) /\ InUse(new) = InUse(ch) \cup {x}
  /\ new[t][1] = x /\ new[t] # <<>>
  /\ Members(new[t]) = Members(ch[t]) \cup {x}
  /\ \A u \in Thread : u # t => new[u] = ch[u]

LEMMA Taken ==
  ASSUME NEW ch \in [Thread -> Seq(Stack)], NEW f \in Seq(Stack), Tidy(ch, f), f # <<>>,
         NEW t \in Thread, NEW x, x = f[1],
         NEW new, new = OnTop(ch, t, x), NEW g, g = Tail(f)
  PROVE  IsTaken(ch, t, x, new, g)
  <1>1. PICK c \in Seq(Stack), L \in Nat, M \in Nat : c = ch[t] /\ L = Len(c) /\ M = Len(f)
    BY MembersOf
  <1>2. M >= 1 /\ x \in Stack /\ x \in Members(f)
    BY <1>1, MembersOf
  <1>3. PICK r : r = <<x>> \o c
    OBVIOUS
  <1>4. /\ r \in Seq(Stack) /\ Len(r) = L + 1 /\ r[1] = x
        /\ \A i \in 1..L : r[i + 1] = c[i]
    <2>1. <<x>> \in Seq(Stack) /\ Len(<<x>>) = 1 /\ <<x>>[1] = x
      BY <1>2
    <2>2. /\ r \in Seq(Stack) /\ Len(r) = Len(<<x>>) + Len(c)
          /\ \A i \in 1..(Len(<<x>>) + Len(c)) :
               r[i] = IF i <= Len(<<x>>) THEN <<x>>[i] ELSE c[i - Len(<<x>>)]
      <3>1. PICK o : o = <<x>>
        OBVIOUS
      <3>2. r = o \o c /\ o \in Seq(Stack) /\ c \in Seq(Stack)
        BY <1>1, <1>3, <2>1, <3>1
      <3>3. /\ r \in Seq(Stack) /\ Len(r) = Len(o) + Len(c)
            /\ \A i \in 1..(Len(o) + Len(c)) : r[i] = IF i <= Len(o) THEN o[i] ELSE c[i - Len(o)]
        BY <3>2, Joined
      <3> QED
        BY <3>1, <3>3, Zenon
    <2>3. Len(r) = L + 1
      BY <1>1, <2>1, <2>2
    <2>4. ASSUME NEW i \in 1..L PROVE r[i + 1] = c[i]
      <3>1. i + 1 \in 1..(Len(<<x>>) + Len(c)) /\ ~(i + 1 <= Len(<<x>>)) /\ (i + 1) - Len(<<x>>) = i
        BY <1>1, <2>1
      <3> QED
        BY <2>2, <3>1
    <2>5. r[1] = x
      <3>1. 1 \in 1..(Len(<<x>>) + Len(c)) /\ 1 <= Len(<<x>>)
        BY <1>1, <2>1
      <3> QED
        BY <2>1, <2>2, <3>1
    <2> QED
      BY <2>2, <2>3, <2>4, <2>5
  <1>5. /\ g \in Seq(Stack) /\ Len(g) = M - 1
        /\ \A i \in 1..(M - 1) : g[i] = f[i + 1]
    BY <1>1, HeadTailProperties
  <1>6. Members(r) = Members(c) \cup {x}
    <2>1. ASSUME NEW i \in 1..(L + 1) PROVE r[i] = x \/ \E j \in 1..L : r[i] = c[j]
      <3>1. i = 1 \/ (i - 1 \in 1..L /\ (i - 1) + 1 = i)
        OBVIOUS
      <3> QED
        BY <1>4, <3>1
    <2>2. ASSUME NEW j \in 1..L PROVE \E i \in 1..(L + 1) : c[j] = r[i]
      <3>1. j + 1 \in 1..(L + 1)
        OBVIOUS
      <3> QED
        BY <1>4, <3>1
    <2>3. 1 \in 1..(L + 1)
      OBVIOUS
    <2> QED
      BY <1>1, <1>4, <2>1, <2>2, <2>3 DEF Members
  <1>7. Members(f) = Members(g) \cup {x} /\ x \notin Members(g) /\ Distinct(g)
    <2>1. ASSUME NEW i \in 1..M PROVE f[i] = x \/ \E j \in 1..(M - 1) : f[i] = g[j]
      <3>1. i = 1 \/ (i - 1 \in 1..(M - 1) /\ (i - 1) + 1 = i)
        BY <1>1
      <3> QED
        BY <1>5, <3>1
    <2>2. ASSUME NEW j \in 1..(M - 1) PROVE j + 1 \in 1..M /\ j + 1 # 1 /\ g[j] = f[j + 1]
      BY <1>1, <1>5
    <2>3. Distinct(f) /\ 1 \in 1..M
      BY <1>2 DEF Tidy
    <2>4. ASSUME NEW j \in 1..(M - 1) PROVE g[j] # x
      BY <1>1, <2>2, <2>3 DEF Distinct
    <2>5. \A i, j \in 1..(M - 1) : i # j => i + 1 # j + 1
      OBVIOUS
    <2>6. Distinct(g)
      BY <1>1, <1>5, <2>2, <2>3, <2>5 DEF Distinct
    <2>7. ASSUME NEW s PROVE s \in Members(f) <=> s \in Members(g) \cup {x}
      <3>1. s \in Members(f) <=> \E i \in 1..M : s = f[i]
        BY <1>1, Member
      <3>2. s \in Members(g) <=> \E i \in 1..(M - 1) : s = g[i]
        <4>1. M - 1 = Len(g)
          BY <1>5
        <4> QED
          BY <4>1, Member, Zenon
      <3>3. x = f[1]
        OBVIOUS
      <3> QED
        BY <2>1, <2>2, <2>3, <3>1, <3>2, <3>3
    <2>8. x \notin Members(g)
      <3>1. \A s : s \in Members(g) <=> \E i \in 1..(M - 1) : s = g[i]
        <4>1. M - 1 = Len(g)
          BY <1>5
        <4> QED
          BY <4>1, Member, Zenon
      <3> QED
        BY <2>4, <3>1
    <2> QED
      BY <2>6, <2>7, <2>8
  <1>8. x \notin InUse(ch) /\ x \notin Members(c)
    BY <1>1, <1>2 DEF Tidy, InUse
  <1>9. Distinct(r)
    <2> SUFFICES ASSUME NEW i \in 1..(L + 1), NEW j \in 1..(L + 1), i # j PROVE r[i] # r[j]
      BY <1>4 DEF Distinct
    <2>1. Distinct(c)
      BY <1>1 DEF Tidy
    <2>2. \A m \in 1..(L + 1) : m = 1 \/ (m - 1 \in 1..L /\ r[m] = c[m - 1])
      <3> SUFFICES ASSUME NEW m \in 1..(L + 1), m # 1 PROVE m - 1 \in 1..L /\ r[m] = c[m - 1]
        OBVIOUS
      <3>1. m - 1 \in 1..L /\ (m - 1) + 1 = m
        OBVIOUS
      <3> QED
        BY <1>4, <3>1
    <2>3. \A m \in 1..L : c[m] # x
      BY <1>1, <1>8 DEF Members
    <2>4. i - 1 # j - 1
      OBVIOUS
    <2>5. \A m, n \in 1..L : m # n => c[m] # c[n]
      BY <1>1, <2>1 DEF Distinct
    <2>6. r[1] = x
      BY <1>4
    <2>7. CASE i = 1 \/ j = 1
      BY <2>2, <2>3, <2>6, <2>7
    <2>8. CASE i # 1 /\ j # 1
      BY <2>2, <2>4, <2>5, <2>8
    <2> QED
      BY <2>7, <2>8
  <1>10. /\ new \in [Thread -> Seq(Stack)] /\ new[t] = r
         /\ \A u \in Thread : u # t => new[u] = ch[u]
    BY <1>1, <1>3, <1>4 DEF OnTop
  <1>11. InUse(new) = InUse(ch) \cup {x}
    <2>1. \A u \in Thread : Members(new[u]) = Members(ch[u]) \/ u = t
      BY <1>10
    <2>2. Members(new[t]) = Members(ch[t]) \cup {x}
      BY <1>1, <1>6, <1>10
    <2>3. ASSUME NEW s PROVE s \in InUse(new) <=> s \in InUse(ch) \cup {x}
      BY <2>1, <2>2, User, ZenonT(30)
    <2> QED
      BY <2>3
  <1>12. Tidy(new, g)
    <2>1. \A u \in Thread : Distinct(new[u])
      BY <1>9, <1>10 DEF Tidy
    <2>2. ASSUME NEW u \in Thread, NEW v \in Thread, u # v
          PROVE  Members(new[u]) \cap Members(new[v]) = {}
      <3>1. Members(ch[u]) \cap Members(ch[v]) = {}
        BY <2>2 DEF Tidy
      <3>2. x \notin Members(ch[u]) /\ x \notin Members(ch[v])
        BY <1>8, User
      <3> QED
        BY <1>1, <1>6, <1>10, <2>2, <3>1, <3>2
    <2>3. ASSUME NEW u \in Thread PROVE Members(new[u]) \cap Members(g) = {}
      <3>1. Members(ch[u]) \cap Members(f) = {}
        BY DEF Tidy
      <3>2. CASE u = t
        BY <1>1, <1>6, <1>7, <1>10, <3>1, <3>2
      <3>3. CASE u # t
        BY <1>7, <1>10, <3>1, <3>3
      <3> QED
        BY <3>2, <3>3
    <2>4. Members(g) \cup InUse(new) = Stack
      BY <1>7, <1>11 DEF Tidy
    <2> QED
      BY <1>7, <2>1, <2>2, <2>3, <2>4 DEF Tidy
  <1>13. new[t] # <<>>
    BY <1>4, <1>10, MembersOf
  <1> QED
    BY <1>1, <1>2, <1>4, <1>5, <1>6, <1>8, <1>10, <1>11, <1>12, <1>13 DEF IsTaken

(* The first k stacks of a chain go to the front of the free list.         *)
IsGiven(ch, t, S, new, g) ==
  /\ new \in [Thread -> Seq(Stack)] /\ g \in Seq(Stack)
  /\ Tidy(new, g)
  /\ S \subseteq Members(ch[t]) /\ InUse(new) = InUse(ch) \ S
  /\ Members(new[t]) = Members(ch[t]) \ S
  /\ \A u \in Thread : u # t => new[u] = ch[u]

LEMMA Given ==
  ASSUME NEW ch \in [Thread -> Seq(Stack)], NEW f \in Seq(Stack), Tidy(ch, f),
         NEW t \in Thread, NEW k \in 0..Len(ch[t]),
         NEW new, new = Cut(ch, t, k), NEW g, g = Back(ch, t, k) \o f,
         NEW S, S = First(ch, t, k)
  PROVE  IsGiven(ch, t, S, new, g)
  <1>1. PICK c \in Seq(Stack), L \in Nat, M \in Nat : c = ch[t] /\ L = Len(c) /\ M = Len(f)
    BY MembersOf
  <1>2. k \in 0..L /\ k \in Nat /\ \A i \in 1..L : c[i] \in Stack
    BY <1>1, MembersOf
  <1>3. Distinct(c) /\ Distinct(f) /\ Members(c) \cap Members(f) = {}
    BY <1>1 DEF Tidy
  <1>4. PICK r : r = SubSeq(c, k + 1, Len(c))
    OBVIOUS
  <1>5. /\ r \in Seq(Stack) /\ Distinct(r)
        /\ \A s : s \in Members(r) <=> s \in Members(c) /\ ~(\E i \in 1..k : c[i] = s)
    <2>1. k \in 0..Len(c)
      BY <1>1, <1>2
    <2>2. /\ SubSeq(c, k + 1, Len(c)) \in Seq(Stack)
          /\ Len(SubSeq(c, k + 1, Len(c))) = Len(c) - k
          /\ Distinct(SubSeq(c, k + 1, Len(c)))
          /\ \A s : s \in Members(SubSeq(c, k + 1, Len(c))) <=>
                      s \in Members(c) /\ ~(\E i \in 1..k : c[i] = s)
      BY <1>3, <2>1, Dropped, Zenon
    <2> QED
      BY <1>4, <2>2, Zenon
  <1>6. S \subseteq Members(c) /\ Members(r) = Members(c) \ S
    <2>1. \A s : s \in S <=> \E i \in 1..k : c[i] = s
      BY <1>1 DEF First
    <2>2. \A i \in 1..k : i \in 1..Len(c)
      BY <1>1, <1>2
    <2>3. S \subseteq Members(c)
      BY <2>1, <2>2, Member
    <2> QED
      BY <1>5, <2>1, <2>3
  <1>7. PICK b : b = [i \in 1..k |-> c[k + 1 - i]]
    OBVIOUS
  <1>8. /\ b \in Seq(Stack) /\ Len(b) = k
        /\ \A i \in 1..k : k + 1 - i \in 1..k /\ k + 1 - i \in 1..L /\ b[i] = c[k + 1 - i]
    <2>1. \A i \in 1..k : k + 1 - i \in 1..k /\ k + 1 - i \in 1..L
      BY <1>2
    <2>2. b \in [1..k -> Stack]
      BY <1>2, <1>7, <2>1
    <2>3. b \in Seq(Stack) /\ Len(b) = k
      BY <1>2, <2>2, IsASeq, LenProperties
    <2> QED
      BY <1>7, <2>1, <2>3
  <1>9. /\ g \in Seq(Stack) /\ Len(g) = k + M
        /\ \A i \in 1..(k + M) : g[i] = IF i <= k THEN b[i] ELSE f[i - k]
    <2>1. g = b \o f
      BY <1>1, <1>7 DEF Back
    <2>0. b \in Seq(Stack) /\ f \in Seq(Stack)
      BY <1>8
    <2>2. /\ b \o f \in Seq(Stack) /\ Len(b \o f) = Len(b) + Len(f)
          /\ \A i \in 1..(Len(b) + Len(f)) :
               (b \o f)[i] = IF i <= Len(b) THEN b[i] ELSE f[i - Len(b)]
      BY <2>0, ConcatProperties, Zenon
    <2> QED
      BY <1>1, <1>8, <2>1, <2>2
  <1>10. Members(b) = S
    <2>1. \A i \in 1..k : k + 1 - i \in 1..k /\ k + 1 - (k + 1 - i) = i
      BY <1>2
    <2>2. ASSUME NEW i \in 1..k PROVE b[i] \in S
      BY <1>1, <1>8 DEF First
    <2>3. ASSUME NEW i \in 1..k PROVE c[i] \in Members(b)
      <3>1. PICK j \in 1..k : j = k + 1 - i /\ k + 1 - j = i
        BY <2>1
      <3>2. b[j] = c[i]
        BY <1>8, <3>1
      <3> QED
        BY <1>8, <3>2 DEF Members
    <2>4. ASSUME NEW s PROVE s \in Members(b) <=> s \in S
      <3>1. s \in S <=> \E i \in 1..k : s = c[i]
        BY <1>1 DEF First
      <3>2. s \in Members(b) <=> \E i \in 1..k : s = b[i]
        <4>1. k = Len(b)
          BY <1>8
        <4> QED
          BY <4>1, Member, Zenon
      <3> QED
        BY <2>2, <2>3, <3>1, <3>2
    <2> QED
      BY <2>4
  <1>11. \A i \in 1..(k + M) : \/ i <= k /\ i \in 1..k /\ g[i] = b[i]
                               \/ i > k /\ i - k \in 1..M /\ g[i] = f[i - k]
    BY <1>1, <1>2, <1>9
  <1>12. Members(g) = S \cup Members(f)
    <2>1. ASSUME NEW i \in 1..(k + M) PROVE g[i] \in S \cup Members(f)
      BY <1>1, <1>8, <1>10, <1>11, ZenonT(30) DEF Members
    <2>2. ASSUME NEW i \in 1..k PROVE b[i] \in Members(g)
      <3>1. i \in 1..(k + M) /\ i <= k
        BY <1>1, <1>2
      <3> QED
        BY <1>9, <3>1 DEF Members
    <2>3. ASSUME NEW i \in 1..M PROVE f[i] \in Members(g)
      <3>1. i + k \in 1..(k + M) /\ ~(i + k <= k) /\ (i + k) - k = i
        BY <1>1, <1>2
      <3>2. g[i + k] = f[i]
        BY <1>9, <3>1
      <3> QED
        BY <1>9, <3>1, <3>2 DEF Members
    <2>4. ASSUME NEW s PROVE s \in Members(g) <=> s \in S \cup Members(f)
      <3>1. s \in Members(g) <=> \E i \in 1..(k + M) : s = g[i]
        <4>1. k + M = Len(g)
          BY <1>9
        <4> QED
          BY <4>1, Member, ZenonT(30)
      <3>2. s \in Members(f) <=> \E i \in 1..M : s = f[i]
        BY <1>1, Member
      <3>3. s \in S <=> \E i \in 1..k : s = b[i]
        <4>1. k = Len(b)
          BY <1>8
        <4>2. s \in Members(b) <=> \E i \in 1..k : s = b[i]
          BY <4>1, Member, Zenon
        <4> QED
          BY <1>10, <4>2
      <3>4. ASSUME s \in Members(g) PROVE s \in S \cup Members(f)
        BY <2>1, <3>1, <3>4
      <3>5. ASSUME s \in S PROVE s \in Members(g)
        BY <2>2, <3>3, <3>5
      <3>6. ASSUME s \in Members(f) PROVE s \in Members(g)
        BY <2>3, <3>2, <3>6
      <3> QED
        BY <3>4, <3>5, <3>6
    <2> QED
      BY <2>4
  <1>13. Distinct(g)
    <2> SUFFICES ASSUME NEW i \in 1..(k + M), NEW j \in 1..(k + M), i # j PROVE g[i] # g[j]
      BY <1>9 DEF Distinct
    <2>1. \A x, y \in 1..k : x # y => b[x] # b[y]
      <3> SUFFICES ASSUME NEW x \in 1..k, NEW y \in 1..k, x # y PROVE b[x] # b[y]
        OBVIOUS
      <3>1. PICK y1 \in 1..Len(c), x1 \in 1..Len(c) : x1 = k + 1 - x /\ y1 = k + 1 - y
        BY <1>1, <1>8
      <3>2. x1 # y1
        <4>1. k \in Int /\ x \in Int /\ y \in Int
          BY <1>2
        <4> QED
          BY <3>1, <4>1
      <3>3. c[x1] # c[y1]
        BY <1>3, <3>2 DEF Distinct
      <3> QED
        BY <1>8, <3>1, <3>3
    <2>2. \A x, y \in 1..M : x # y => f[x] # f[y]
      BY <1>1, <1>3 DEF Distinct
    <2>3. \A x \in 1..k, y \in 1..M : b[x] # f[y]
      <3> SUFFICES ASSUME NEW x \in 1..k, NEW y \in 1..M PROVE b[x] # f[y]
        OBVIOUS
      <3>1. b[x] \in S
        BY <1>8, <1>10 DEF Members
      <3>2. f[y] \in Members(f)
        BY <1>1 DEF Members
      <3> QED
        BY <1>3, <1>6, <3>1, <3>2
    <2>4. i - k # j - k
      BY <1>2
    <2> QED
      BY <1>11, <2>1, <2>2, <2>3, <2>4
  <1>14. /\ new \in [Thread -> Seq(Stack)] /\ new[t] = r
         /\ \A u \in Thread : u # t => new[u] = ch[u]
    BY <1>1, <1>4, <1>5 DEF Cut
  <1>15. InUse(new) = InUse(ch) \ S
    <2>1. \A u \in Thread : Members(new[u]) = Members(ch[u]) \ S
      BY <1>1, <1>6, <1>14 DEF Tidy
    <2>2. ASSUME NEW s PROVE s \in InUse(new) <=> s \in InUse(ch) \ S
      <3>1. s \in InUse(new) <=> \E u \in Thread : s \in Members(new[u])
        BY User, Zenon
      <3>2. s \in InUse(ch) <=> \E u \in Thread : s \in Members(ch[u])
        BY User, Zenon
      <3>3. \A u \in Thread : s \in Members(new[u]) <=> s \in Members(ch[u]) /\ s \notin S
        BY <2>1
      <3> QED
        BY <3>1, <3>2, <3>3, Zenon
    <2> QED
      BY <2>2
  <1>16. Tidy(new, g)
    <2>1. \A u \in Thread : Members(new[u]) \subseteq Members(ch[u])
      BY <1>1, <1>6, <1>14
    <2>2. \A u \in Thread : Distinct(new[u])
      BY <1>5, <1>14 DEF Tidy
    <2>3. \A u, v \in Thread : u # v => Members(new[u]) \cap Members(new[v]) = {}
      BY <2>1 DEF Tidy
    <2>4. ASSUME NEW u \in Thread PROVE Members(new[u]) \cap Members(g) = {}
      BY <1>1, <1>6, <1>12, <1>14 DEF Tidy
    <2>5. Members(g) \cup InUse(new) = Stack
      <3>1. S \subseteq Stack
        BY <1>1, <1>6, MembersOf
      <3> QED
        BY <1>12, <1>15, <3>1 DEF Tidy
    <2> QED
      BY <1>13, <2>2, <2>3, <2>4, <2>5 DEF Tidy
  <1> QED
    BY <1>1, <1>6, <1>9, <1>14, <1>15, <1>16 DEF IsGiven
-----------------------------------------------------------------------------
(* V of every monitor, any number of times: what VSettled says of one.     *)
LEMMA VEachSettled ==
  ASSUME NEW Q, Settled(Q), NEW n \in [Domain -> Nat], NEW N, N = VEach(Q, n)
  PROVE  /\ Settled(N)
         /\ \A d \in Domain : N.value[d] = Q.value[d] + n[d]
         /\ \A t \in Thread : N.sleep[t] \in {Q.sleep[t], None}
  <1>1. /\ Q \in SemaphoreState /\ Q.stray = {}
        /\ Q.value \in [Semaphore -> Int] /\ Q.ring \in [Semaphore -> Seq(Thread)]
        /\ Q.sleep \in [Thread -> Semaphore \cup {None}]
        /\ Domain \subseteq Semaphore /\ None \notin Semaphore
    BY SettledTypes, ThreadDomainAssumption, SemaphoreAssumption DEF Settled
  <1>2. PICK K : K = [d \in Domain |-> Min2(n[d], Len(Q.ring[d]))]
    OBVIOUS
  <1>3. \A d \in Domain :
          /\ K[d] \in Nat /\ K[d] \in 0..Len(Q.ring[d]) /\ Len(Q.ring[d]) \in Nat
          /\ K[d] = IF n[d] < Len(Q.ring[d]) THEN n[d] ELSE Len(Q.ring[d])
    <2> SUFFICES ASSUME NEW d \in Domain
                 PROVE  /\ K[d] \in Nat /\ K[d] \in 0..Len(Q.ring[d]) /\ Len(Q.ring[d]) \in Nat
                        /\ K[d] = IF n[d] < Len(Q.ring[d]) THEN n[d] ELSE Len(Q.ring[d])
      OBVIOUS
    <2>1. Len(Q.ring[d]) \in Nat
      BY <1>1, LenProperties
    <2> QED
      BY <1>2, <2>1 DEF Min2
  <1>4. /\ N.value = [s \in Semaphore |-> IF s \in Domain THEN Q.value[s] + n[s] ELSE Q.value[s]]
        /\ N.ring = [s \in Semaphore |-> IF s \in Domain
                       THEN SubSeq(Q.ring[s], K[s] + 1, Len(Q.ring[s])) ELSE Q.ring[s]]
        /\ N.stray = Q.stray
        /\ N.sleep = [t \in Thread |->
                        IF \E d \in Domain : \E i \in 1..K[d] : Q.ring[d][i] = t
                        THEN None ELSE Q.sleep[t]]
        /\ N \in [value : {N.value}, ring : {N.ring}, stray : {N.stray}, sleep : {N.sleep}]
    <2> DEFINE m(d)  == Min2(n[d], Len(Q.ring[d]))
               value == [s \in Semaphore |-> IF s \in Domain THEN Q.value[s] + n[s] ELSE Q.value[s]]
               ring  == [s \in Semaphore |-> IF s \in Domain
                           THEN SubSeq(Q.ring[s], m(s) + 1, Len(Q.ring[s])) ELSE Q.ring[s]]
               sleep == [t \in Thread |-> IF \E d \in Domain : \E i \in 1..m(d) : Q.ring[d][i] = t
                                         THEN None ELSE Q.sleep[t]]
    <2>1. \A d \in Domain : m(d) = K[d]
      BY <1>2
    <2>2. N = [Q EXCEPT !.value = value, !.ring = ring, !.sleep = sleep]
      BY Zenon DEF VEach
    <2>3. /\ N.value = value /\ N.ring = ring /\ N.stray = Q.stray /\ N.sleep = sleep
          /\ N \in [value : {N.value}, ring : {N.ring}, stray : {N.stray}, sleep : {N.sleep}]
      <3> HIDE DEF value, ring, sleep
      <3> QED
        BY <1>1, <2>2 DEF SemaphoreState
    <2>4. ring = [s \in Semaphore |-> IF s \in Domain
                    THEN SubSeq(Q.ring[s], K[s] + 1, Len(Q.ring[s])) ELSE Q.ring[s]]
      <3> HIDE DEF m
      <3> QED
        BY <2>1
    <2>5. sleep = [t \in Thread |-> IF \E d \in Domain : \E i \in 1..K[d] : Q.ring[d][i] = t
                                   THEN None ELSE Q.sleep[t]]
      <3> HIDE DEF m
      <3> QED
        BY <2>1
    <2> QED
      BY <2>3, <2>4, <2>5
  <1>5. \A d \in Domain :
          /\ N.ring[d] \in Seq(Thread) /\ Len(N.ring[d]) = Len(Q.ring[d]) - K[d]
          /\ Distinct(N.ring[d])
          /\ \A t : t \in Ring(N, d) <=> t \in Ring(Q, d) /\ ~(\E i \in 1..K[d] : Q.ring[d][i] = t)
    <2> SUFFICES ASSUME NEW d \in Domain
                 PROVE  /\ N.ring[d] \in Seq(Thread) /\ Len(N.ring[d]) = Len(Q.ring[d]) - K[d]
                        /\ Distinct(N.ring[d])
                        /\ \A t : t \in Ring(N, d) <=>
                                    t \in Ring(Q, d) /\ ~(\E i \in 1..K[d] : Q.ring[d][i] = t)
      OBVIOUS
    <2>1. Q.ring[d] \in Seq(Thread) /\ Distinct(Q.ring[d]) /\ K[d] \in 0..Len(Q.ring[d])
      BY <1>1, <1>3 DEF Settled, Sound, RingsSleep
    <2>2. PICK r : r = SubSeq(Q.ring[d], K[d] + 1, Len(Q.ring[d]))
      OBVIOUS
    <2>3. N.ring[d] = r
      BY <1>1, <1>4, <2>2
    <2>4. /\ r \in Seq(Thread) /\ Len(r) = Len(Q.ring[d]) - K[d] /\ Distinct(r)
          /\ \A t : t \in Members(r) <=>
                      t \in Members(Q.ring[d]) /\ ~(\E i \in 1..K[d] : Q.ring[d][i] = t)
      BY <2>1, <2>2, Dropped, Zenon
    <2> QED
      BY <2>3, <2>4, Zenon DEF Ring
  <1>6. \A s \in Semaphore : s \notin Domain => N.ring[s] = Q.ring[s] /\ N.value[s] = Q.value[s]
    BY <1>4
  <1>7. N \in SemaphoreState
    <2>1. \A s \in Semaphore : N.ring[s] \in Seq(Thread) /\ N.value[s] \in Int
      <3> SUFFICES ASSUME NEW s \in Semaphore PROVE N.ring[s] \in Seq(Thread) /\ N.value[s] \in Int
        OBVIOUS
      <3>1. CASE s \in Domain
        <4>1. N.value[s] = Q.value[s] + n[s]
          BY <1>4, <3>1
        <4>2. Q.value[s] \in Int /\ n[s] \in Nat
          BY <1>1, <3>1
        <4>3. N.ring[s] \in Seq(Thread)
          BY <1>5, <3>1
        <4> QED
          BY <4>1, <4>2, <4>3
      <3>2. CASE s \notin Domain
        BY <1>1, <1>6, <3>2
      <3> QED
        BY <3>1, <3>2
    <2>2. N.value \in [Semaphore -> Int] /\ N.ring \in [Semaphore -> Seq(Thread)]
      BY <1>4, <2>1
    <2>3. N.stray \subseteq Seq(Thread) /\ N.sleep \in [Thread -> Semaphore \cup {None}]
      BY <1>1, <1>4
    <2> QED
      BY <1>4, <2>2, <2>3 DEF SemaphoreState
  <1>8. \A d \in Domain : \A i \in 1..K[d] : Q.sleep[Q.ring[d][i]] = d
    <2> SUFFICES ASSUME NEW d \in Domain, NEW i \in 1..K[d] PROVE Q.sleep[Q.ring[d][i]] = d
      OBVIOUS
    <2>1. i \in 1..Len(Q.ring[d])
      BY <1>3
    <2>2. Q.ring[d][i] \in Ring(Q, d)
      BY <2>1 DEF Ring, Members
    <2> QED
      BY <1>1, <2>2, SettledTypes
  <1>9. \A s \in Semaphore : \A t \in Ring(N, s) : t \in Thread /\ t \in Ring(Q, s) /\ N.sleep[t] = s
    <2> SUFFICES ASSUME NEW s \in Semaphore, NEW t \in Ring(N, s)
                 PROVE  t \in Thread /\ t \in Ring(Q, s) /\ N.sleep[t] = s
      OBVIOUS
    <2>1. t \in Ring(Q, s)
      BY <1>5, <1>6 DEF Ring
    <2>2. Q.sleep[t] = s /\ t \in Thread
      BY <1>1, <2>1, SettledTypes, MembersOf DEF Ring
    <2>3. ~(\E d \in Domain : \E i \in 1..K[d] : Q.ring[d][i] = t)
      BY <1>5, <1>8, <2>2
    <2> QED
      BY <1>4, <2>1, <2>2, <2>3
  <1>10. RingsSleep(N)
    <2>1. \A s \in Semaphore : Distinct(N.ring[s])
      BY <1>5, <1>6 DEF Settled, Sound, RingsSleep
    <2> QED
      BY <1>9, <2>1 DEF RingsSleep
  <1>11. Counted(N, {})
    <2> SUFFICES ASSUME NEW s \in Semaphore
                 PROVE  Len(N.ring[s]) = IF N.value[s] < 0 THEN -N.value[s] ELSE 0
      BY DEF Counted
    <2>1. Len(Q.ring[s]) = (IF Q.value[s] < 0 THEN -Q.value[s] ELSE 0) /\ Q.value[s] \in Int
      BY <1>1, SettledTypes
    <2>2. CASE s \notin Domain
      BY <1>6, <2>1, <2>2
    <2>3. CASE s \in Domain
      <3>1. N.value[s] = Q.value[s] + n[s] /\ n[s] \in Nat
        BY <1>1, <1>4, <2>3
      <3>2. /\ Len(N.ring[s]) = Len(Q.ring[s]) - K[s]
            /\ K[s] = IF n[s] < Len(Q.ring[s]) THEN n[s] ELSE Len(Q.ring[s])
        BY <1>3, <1>5, <2>3
      <3> QED
        BY <2>1, <3>1, <3>2
    <2> QED
      BY <2>2, <2>3
  <1>12. Placed(N)
    <2> SUFFICES ASSUME NEW t \in Thread, ~Awake(N, t) PROVE t \in Ring(N, N.sleep[t])
      BY DEF Placed
    <2>1. /\ ~(\E d \in Domain : \E i \in 1..K[d] : Q.ring[d][i] = t)
          /\ N.sleep[t] = Q.sleep[t]
      BY <1>4 DEF Awake
    <2>2. t \in Ring(Q, Q.sleep[t]) /\ Q.sleep[t] \in Semaphore
      BY <1>1, <2>1, SettledTypes DEF Awake
    <2>3. PICK s \in Semaphore : s = Q.sleep[t] /\ t \in Ring(Q, s)
      BY <2>2
    <2>4. t \in Ring(N, s)
      <3>1. CASE s \in Domain
        BY <1>5, <2>1, <2>3, <3>1
      <3>2. CASE s \notin Domain
        BY <1>6, <2>3, <3>2 DEF Ring
      <3> QED
        BY <3>1, <3>2
    <2> QED
      BY <2>1, <2>3, <2>4
  <1>13. StraySleep(N, {}) /\ StrayApart(N) /\ N.stray = {}
    BY <1>1, <1>4 DEF StraySleep, StrayApart
  <1>14. Settled(N)
    BY <1>7, <1>10, <1>11, <1>12, <1>13 DEF Settled, Sound
  <1>15. \A d \in Domain : N.value[d] = Q.value[d] + n[d]
    BY <1>1, <1>4
  <1>16. \A t \in Thread : N.sleep[t] \in {Q.sleep[t], None}
    BY <1>4
  <1> QED
    BY <1>14, <1>15, <1>16
-----------------------------------------------------------------------------
(* What the counters count, as functions of the state, so that what a step *)
(* leaves alone is plain.                                                  *)
Inside(U, r, d)  == {s \in U : r[s].current_domain_id = d}
Charged(U, r, d) == {s \in U : r[s].release_domain_id = d}
Held(U, r, d)    == {s \in U : r[s].current_domain_id = d /\ ~r[s].p_flag}
Living(hm, d)    == {t \in Thread : hm[t] = d}
Asking(f, ch, r, d) ==
  {t \in Thread : f[t] = "monitor" /\ r[ch[t][1]].current_domain_id = d}

Known(ch, r) ==
  \A t \in Thread : \A s \in Members(ch[t]) :
    r[s].current_thread_id = t \/ (r[s].current_thread_id = None /\ s = BootStack)
Homed(ch, hm)   == \A t \in Thread : hm[t] = None <=> ch[t] = <<>>
Occupied(ch, f) == \A t \in Thread : f[t] # "none" => ch[t] # <<>>
Entries(e, U, r) == \A d \in Domain : e[d] = Cardinality(Inside(U, r, d))
Population(n, hm) ==
  \A d \in Domain : n[d] = Cardinality(Living(hm, d)) /\ n[d] <= MaxThread[d]
Charges(n, g, m, U, r) ==
  \A d \in Domain : n[d] + g[d] = Cardinality(Charged(U, r, d)) /\ m[d] = MaxStack[d] + g[d]
Balanced(v, U, r, f, ch, dr) ==
  \A d \in Domain :
    v[d] + Cardinality(Held(U, r, d)) - Cardinality(Asking(f, ch, r, d)) = Units + dr[d]

Typed == TypeOK /\ incarnation \in [Domain -> UNION {Incarnation[d] : d \in Domain}]

(* The inductive invariant.  To the three that are checked it adds what    *)
(* calls and returns rest on: semaphores whose sleepers are in their rings,*)
(* and a thread without a stack is doing nothing.                          *)
IInv ==
  /\ Typed
  /\ Settled(q)
  /\ Tidy(chain, free)
  /\ Known(chain, rt)
  /\ Homed(chain, home)
  /\ Occupied(chain, function)
  /\ Entries(enter_thread_number, InUse(chain), rt)
  /\ Population(thread_number, home)
  /\ Charges(return_stack_number, grown, max_return_stack_number, InUse(chain), rt)
  /\ Balanced(q.value, InUse(chain), rt, function, chain, drift)

-----------------------------------------------------------------------------
Count(b) == IF b THEN 1 ELSE 0

(* Two finite sets that differ in at most one element.                     *)
LEMMA OneDiffers ==
  ASSUME NEW S, IsFiniteSet(S), NEW T, NEW x, \A y : y # x => (y \in T <=> y \in S)
  PROVE  /\ IsFiniteSet(T) /\ Cardinality(S) \in Nat /\ Cardinality(T) \in Nat
         /\ Cardinality(T) = Cardinality(S) + Count(x \in T) - Count(x \in S)
  <1>0. Cardinality(S) \in Nat
    BY FS_CardinalityType
  <1>1. CASE x \in S /\ x \notin T
    <2>1. T = S \ {x}
      BY <1>1
    <2>2. IsFiniteSet(T) /\ Cardinality(T) = Cardinality(S) - 1
      BY <1>1, <2>1, FS_RemoveElement
    <2> QED
      BY <1>0, <1>1, <2>2, FS_CardinalityType DEF Count
  <1>2. CASE x \notin S /\ x \in T
    <2>1. T = S \cup {x}
      BY <1>2
    <2>2. IsFiniteSet(T) /\ Cardinality(T) = Cardinality(S) + 1
      BY <1>2, <2>1, FS_AddElement
    <2> QED
      BY <1>0, <1>2, <2>2 DEF Count
  <1>3. CASE x \in S <=> x \in T
    <2>1. T = S
      BY <1>3
    <2> QED
      BY <1>0, <1>3, <2>1 DEF Count
  <1> QED
    BY <1>1, <1>2, <1>3

(* ... in at most two.                                                     *)
LEMMA TwoDiffer ==
  ASSUME NEW S, IsFiniteSet(S), NEW T, NEW x, NEW z, x # z,
         \A y : y # x /\ y # z => (y \in T <=> y \in S)
  PROVE  /\ IsFiniteSet(T) /\ Cardinality(S) \in Nat /\ Cardinality(T) \in Nat
         /\ Cardinality(T) = Cardinality(S) + Count(x \in T) - Count(x \in S)
                                            + Count(z \in T) - Count(z \in S)
  <1>1. PICK M : M = IF x \in T THEN S \cup {x} ELSE S \ {x}
    OBVIOUS
  <1>2. \A y : y # x => (y \in M <=> y \in S)
    BY <1>1
  <1>3. x \in M <=> x \in T
    BY <1>1
  <1>4. \A y : y # z => (y \in T <=> y \in M)
    BY <1>1
  <1>5. z \in M <=> z \in S
    BY <1>1
  <1>6. /\ IsFiniteSet(M) /\ Cardinality(S) \in Nat /\ Cardinality(M) \in Nat
        /\ Cardinality(M) = Cardinality(S) + Count(x \in M) - Count(x \in S)
    BY <1>2, OneDiffers, Zenon
  <1>7. /\ IsFiniteSet(T) /\ Cardinality(T) \in Nat
        /\ Cardinality(T) = Cardinality(M) + Count(z \in T) - Count(z \in M)
    BY <1>4, <1>6, OneDiffers, Zenon
  <1>8. Count(x \in M) = Count(x \in T) /\ Count(z \in M) = Count(z \in S)
    BY <1>3, <1>5 DEF Count
  <1>9. Count(x \in T) \in Int /\ Count(x \in S) \in Int /\ Count(z \in T) \in Int /\ Count(z \in S) \in Int
    BY DEF Count
  <1> QED
    BY <1>6, <1>7, <1>8, <1>9

LEMMA Subset ==
  ASSUME NEW S, IsFiniteSet(S), NEW T \in SUBSET S
  PROVE  IsFiniteSet(T) /\ Cardinality(T) \in Nat
  BY FS_Subset, FS_CardinalityType

(* What is counted is finite.                                              *)
LEMMA Finite ==
  ASSUME NEW ch \in [Thread -> Seq(Stack)], NEW r, NEW f, NEW hm, NEW d, NEW U, U = InUse(ch)
  PROVE  /\ U \subseteq Stack /\ IsFiniteSet(U)
         /\ IsFiniteSet(Inside(U, r, d)) /\ IsFiniteSet(Charged(U, r, d))
         /\ IsFiniteSet(Held(U, r, d)) /\ IsFiniteSet(Living(hm, d))
         /\ IsFiniteSet(Asking(f, ch, r, d))
         /\ Cardinality(Inside(U, r, d)) \in Nat /\ Cardinality(Charged(U, r, d)) \in Nat
         /\ Cardinality(Held(U, r, d)) \in Nat /\ Cardinality(Living(hm, d)) \in Nat
         /\ Cardinality(Asking(f, ch, r, d)) \in Nat
  <1>1. U \subseteq Stack
    <2>1. \A t \in Thread : Members(ch[t]) \subseteq Stack
      BY MembersOf
    <2> QED
      BY <2>1, User
  <1>2. IsFiniteSet(U) /\ IsFiniteSet(Thread)
    BY <1>1, FS_Subset, ThreadDomainAssumption
  <1>3. Inside(U, r, d) \subseteq U /\ Charged(U, r, d) \subseteq U /\ Held(U, r, d) \subseteq U
    BY DEF Inside, Charged, Held
  <1>4. Living(hm, d) \subseteq Thread /\ Asking(f, ch, r, d) \subseteq Thread
    BY DEF Living, Asking
  <1> QED
    BY <1>1, <1>2, <1>3, <1>4, Subset

-----------------------------------------------------------------------------
(* What a step keeps if it leaves the identities of the stacks alone.      *)
SameStacks(U, r, r1) ==
  \A s \in U : /\ r1[s].current_thread_id = r[s].current_thread_id
               /\ r1[s].current_domain_id = r[s].current_domain_id
               /\ r1[s].release_domain_id = r[s].release_domain_id

LEMMA KeptIds ==
  ASSUME NEW ch, NEW U, U = InUse(ch), NEW r, NEW r1, SameStacks(U, r, r1)
  PROVE  /\ Known(ch, r) => Known(ch, r1)
         /\ \A d : Inside(U, r1, d) = Inside(U, r, d)
         /\ \A d : Charged(U, r1, d) = Charged(U, r, d)
         /\ \A e : Entries(e, U, r) => Entries(e, U, r1)
         /\ \A n, g, m : Charges(n, g, m, U, r) => Charges(n, g, m, U, r1)
  <1>1. \A d : Inside(U, r1, d) = Inside(U, r, d) /\ Charged(U, r1, d) = Charged(U, r, d)
    BY DEF SameStacks, Inside, Charged
  <1>2. \A t \in Thread : Members(ch[t]) \subseteq U
    BY User
  <1>3. Known(ch, r) => Known(ch, r1)
    BY <1>2 DEF Known, SameStacks
  <1>4. \A e : Entries(e, U, r) => Entries(e, U, r1)
    BY <1>1, Zenon DEF Entries
  <1>5. \A n, g, m : Charges(n, g, m, U, r) => Charges(n, g, m, U, r1)
    BY <1>1, Zenon DEF Charges
  <1> QED
    BY <1>1, <1>3, <1>4, <1>5, Zenon

(* Nobody who asks for a monitor asks for another one, or no longer.       *)
LEMMA KeptAsking ==
  ASSUME NEW f, NEW f1, NEW ch, NEW ch1, NEW r, NEW r1,
         \A t \in Thread : f1[t] = "monitor" <=> f[t] = "monitor",
         \A t \in Thread : f[t] = "monitor" =>
           r1[ch1[t][1]].current_domain_id = r[ch[t][1]].current_domain_id
  PROVE  \A d : Asking(f1, ch1, r1, d) = Asking(f, ch, r, d)
  BY DEF Asking

LEMMA KeptHeld ==
  ASSUME NEW U, NEW r, NEW r1,
         \A s \in U : /\ r1[s].current_domain_id = r[s].current_domain_id
                      /\ r1[s].p_flag = r[s].p_flag
  PROVE  \A d : Held(U, r1, d) = Held(U, r, d)
  BY DEF Held
-----------------------------------------------------------------------------
LEMMA InitHolds == Init => IInv
  <1> SUFFICES ASSUME Init PROVE IInv
    OBVIOUS
  <1>0. /\ Domain \subseteq Semaphore /\ Other \in Semaphore /\ None \notin Semaphore
        /\ None \notin Thread /\ None \notin Domain
        /\ BootThread \in Thread /\ BootStack \in Stack /\ BootDomain \in Domain
        /\ IsFiniteSet(Stack) /\ IsFiniteSet(Thread)
        /\ Units \in Nat /\ MaxThread \in [Domain -> Nat] /\ MaxStack \in [Domain -> Nat]
        /\ MaxThread[BootDomain] >= 1
    BY ThreadDomainAssumption, SemaphoreAssumption
  <1>1. /\ q.value = [s \in Semaphore |-> IF s \in Domain THEN Units ELSE 0]
        /\ q.ring = [s \in Semaphore |-> <<>>]
        /\ q.stray = {} /\ q.sleep = [t \in Thread |-> None]
        /\ q \in [value : {q.value}, ring : {q.ring}, stray : {q.stray}, sleep : {q.sleep}]
    BY DEF Init
  <1>2. q \in SemaphoreState
    <2>1. <<>> \in Seq(Thread)
      OBVIOUS
    <2>2. /\ q.value \in [Semaphore -> Int] /\ q.ring \in [Semaphore -> Seq(Thread)]
          /\ q.stray \subseteq Seq(Thread) /\ q.sleep \in [Thread -> Semaphore \cup {None}]
      BY <1>0, <1>1, <2>1
    <2> QED
      BY <1>1, <2>2 DEF SemaphoreState
  <1>3. Settled(q)
    <2>1. Counted(q, {})
      <3>1. Len(<<>>) = 0
        BY EmptySeq
      <3> QED
        BY <1>0, <1>1, <3>1 DEF Counted
    <2>2. RingsSleep(q)
      BY <1>1 DEF RingsSleep, Distinct, Ring, Members
    <2>3. StraySleep(q, {}) /\ StrayApart(q) /\ Placed(q)
      BY <1>1 DEF StraySleep, StrayApart, Placed, Awake
    <2> QED
      BY <1>1, <1>2, <2>1, <2>2, <2>3 DEF Settled, Sound
  <1>4. /\ chain = [t \in Thread |-> IF t = BootThread THEN <<BootStack>> ELSE <<>>]
        /\ chain \in [Thread -> Seq(Stack)]
        /\ Members(chain[BootThread]) = {BootStack} /\ Distinct(chain[BootThread])
        /\ chain[BootThread] # <<>>
        /\ \A t \in Thread : t # BootThread =>
             chain[t] = <<>> /\ Members(chain[t]) = {} /\ Distinct(chain[t])
    <2>1. <<>> \in Seq(Stack) /\ <<BootStack>> \in Seq(Stack) /\ Len(<<>>) = 0 /\ Len(<<BootStack>>) = 1
      BY <1>0
    <2>2. chain = [t \in Thread |-> IF t = BootThread THEN <<BootStack>> ELSE <<>>]
      BY DEF Init
    <2>3. Members(<<BootStack>>) = {BootStack} /\ Distinct(<<BootStack>>) /\ <<BootStack>> # <<>>
      BY <2>1 DEF Members, Distinct
    <2>4. Members(<<>>) = {} /\ Distinct(<<>>)
      BY <2>1 DEF Members, Distinct
    <2> QED
      BY <1>0, <2>1, <2>2, <2>3, <2>4
  <1>5. /\ free \in Seq(Stack) /\ Distinct(free) /\ Members(free) = Stack \ {BootStack}
    <2>1. PICK n : n = Cardinality(Stack) - 1
      OBVIOUS
    <2>2. PICK T : T = Stack \ {BootStack}
      OBVIOUS
    <2>3. n \in Nat /\ IsFiniteSet(T) /\ Cardinality(T) = n
      <3>1. Cardinality(Stack) \in Nat /\ Cardinality(Stack) # 0
        BY <1>0, FS_CardinalityType, FS_EmptySet
      <3>2. IsFiniteSet(T) /\ Cardinality(T) = Cardinality(Stack) - 1
        BY <1>0, <2>2, FS_RemoveElement
      <3> QED
        BY <2>1, <3>1, <3>2
    <2>4. free \in [1..n -> T] /\ \A i, j \in 1..n : i # j => free[i] # free[j]
      <3>1. free \in [1..n -> T] /\ \A i, j \in DOMAIN free : i # j => free[i] # free[j]
        BY <2>1, <2>2 DEF Init
      <3> QED
        BY <3>1
    <2>5. free \in Injection(1..n, T)
      BY <2>4 DEF Injection, IsInjective
    <2>6. Cardinality(1..n) = n
      BY <2>3, FS_Interval
    <2>7. free \in Surjection(1..n, T)
      BY <2>3, <2>5, <2>6, FS_Injection, Zenon
    <2>8. free \in Seq(T) /\ Len(free) = n
      BY <2>3, <2>4, IsASeq, LenProperties
    <2>9. free \in Seq(Stack)
      <3>1. free \in [1..n -> Stack]
        BY <2>2, <2>4
      <3> QED
        BY <2>3, <3>1, IsASeq
    <2>10. \A s \in T : \E i \in 1..n : free[i] = s
      BY <2>7 DEF Surjection
    <2>11. Members(free) = T
      BY <2>4, <2>8, <2>10 DEF Members
    <2> QED
      BY <2>2, <2>4, <2>8, <2>9, <2>11 DEF Distinct
  <1>6. InUse(chain) = {BootStack}
    <2>1. ASSUME NEW s PROVE s \in InUse(chain) <=> s \in {BootStack}
      BY <1>0, <1>4, User
    <2> QED
      BY <2>1
  <1>7. Tidy(chain, free)
    <2>1. \A t, u \in Thread : t # u => Members(chain[t]) \cap Members(chain[u]) = {}
      BY <1>4
    <2>2. \A t \in Thread : Distinct(chain[t]) /\ Members(chain[t]) \cap Members(free) = {}
      BY <1>4, <1>5
    <2> QED
      BY <1>0, <1>5, <1>6, <2>1, <2>2 DEF Tidy
  <1>8. incarnation \in [Domain -> UNION {Incarnation[d] : d \in Domain}]
        /\ \A d \in Domain : incarnation[d] \in Incarnation[d]
    <2>1. incarnation = [d \in Domain |-> CHOOSE i \in Incarnation[d] : TRUE]
      BY DEF Init
    <2>2. \A d \in Domain : (CHOOSE i \in Incarnation[d] : TRUE) \in Incarnation[d]
      BY ThreadDomainAssumption
    <2> QED
      BY <2>1, <2>2
  <1>9. rt = [s \in Stack |-> IF s = BootStack THEN NewStack(None, BootDomain, BootDomain)
                             ELSE FreeStack]
    BY DEF Init
  <1>10. rt \in [Stack -> Rt] /\ rt[BootStack] = NewStack(None, BootDomain, BootDomain)
    <2>1. NewStack(None, BootDomain, BootDomain) \in Rt
      BY <1>0, <1>8 DEF NewStack, Rt
    <2>2. FreeStack \in Rt
      <3>1. PICK Ids : Ids = (UNION {Incarnation[d] : d \in Domain}) \cup {None}
        OBVIOUS
      <3>2. None \in Ids /\ None \in Thread \cup {None}
        BY <3>1
      <3> QED
        BY <1>0, <3>1, <3>2 DEF FreeStack, Rt
    <2> QED
      BY <1>0, <1>9, <2>1, <2>2
  <1>11. /\ rt[BootStack].current_domain_id = BootDomain
         /\ rt[BootStack].release_domain_id = BootDomain
         /\ rt[BootStack].p_flag = TRUE /\ rt[BootStack].current_thread_id = None
    BY <1>10 DEF NewStack
  <1>12. /\ home = [t \in Thread |-> IF t = BootThread THEN BootDomain ELSE None]
         /\ function = [t \in Thread |-> "none"]
         /\ max_return_stack_number = MaxStack
         /\ drift = [d \in Domain |-> 0] /\ grown = [d \in Domain |-> 0]
         /\ enter_thread_number = [d \in Domain |-> IF d = BootDomain THEN 1 ELSE 0]
         /\ thread_number = [d \in Domain |-> IF d = BootDomain THEN 1 ELSE 0]
         /\ return_stack_number = [d \in Domain |-> IF d = BootDomain THEN 1 ELSE 0]
    BY DEF Init
  <1>13. Typed
    <2>1. home \in [Thread -> Domain \cup {None}]
          /\ function \in [Thread -> {"none", "call", "monitor", "exit"}]
      BY <1>0, <1>12
    <2>2. /\ enter_thread_number \in [Domain -> Int] /\ thread_number \in [Domain -> Int]
          /\ return_stack_number \in [Domain -> Int] /\ max_return_stack_number \in [Domain -> Int]
          /\ drift \in [Domain -> Int] /\ grown \in [Domain -> Int]
      BY <1>0, <1>12
    <2> QED
      BY <1>2, <1>4, <1>5, <1>8, <1>10, <2>1, <2>2 DEF Typed, TypeOK
  <1>14. Known(chain, rt) /\ Homed(chain, home) /\ Occupied(chain, function)
    <2>1. Known(chain, rt)
      BY <1>4, <1>11 DEF Known
    <2>2. Homed(chain, home)
      BY <1>0, <1>4, <1>12 DEF Homed
    <2>3. Occupied(chain, function)
      BY <1>12 DEF Occupied
    <2> QED
      BY <2>1, <2>2, <2>3
  <1>15. /\ \A x : Cardinality({x}) = 1
         /\ Cardinality({}) = 0
    BY FS_Singleton, FS_EmptySet
  <1>16. ASSUME NEW d \in Domain
         PROVE  /\ Inside({BootStack}, rt, d) = (IF d = BootDomain THEN {BootStack} ELSE {})
                /\ Charged({BootStack}, rt, d) = (IF d = BootDomain THEN {BootStack} ELSE {})
                /\ Held({BootStack}, rt, d) = {}
                /\ Living(home, d) = (IF d = BootDomain THEN {BootThread} ELSE {})
                /\ Asking(function, chain, rt, d) = {}
    <2>1. /\ Inside({BootStack}, rt, d) = (IF d = BootDomain THEN {BootStack} ELSE {})
          /\ Charged({BootStack}, rt, d) = (IF d = BootDomain THEN {BootStack} ELSE {})
      BY <1>11 DEF Inside, Charged
    <2>2. Held({BootStack}, rt, d) = {} /\ Asking(function, chain, rt, d) = {}
      BY <1>11, <1>12 DEF Held, Asking
    <2>3. Living(home, d) = (IF d = BootDomain THEN {BootThread} ELSE {})
      BY <1>0, <1>12 DEF Living
    <2> QED
      BY <2>1, <2>2, <2>3
  <1>17. Entries(enter_thread_number, InUse(chain), rt)
    BY <1>6, <1>12, <1>15, <1>16 DEF Entries
  <1>18. Population(thread_number, home)
    <2>1. ASSUME NEW d \in Domain
          PROVE  /\ thread_number[d] = Cardinality(Living(home, d))
                 /\ thread_number[d] <= MaxThread[d]
      <3>1. MaxThread[d] \in Nat /\ thread_number[d] = IF d = BootDomain THEN 1 ELSE 0
        BY <1>0, <1>12
      <3>2. Cardinality(Living(home, d)) = IF d = BootDomain THEN 1 ELSE 0
        BY <1>15, <1>16
      <3> QED
        BY <1>0, <3>1, <3>2
    <2> QED
      BY <2>1 DEF Population
  <1>19. Charges(return_stack_number, grown, max_return_stack_number, InUse(chain), rt)
    <2>1. ASSUME NEW d \in Domain
          PROVE  /\ return_stack_number[d] + grown[d] = Cardinality(Charged({BootStack}, rt, d))
                 /\ max_return_stack_number[d] = MaxStack[d] + grown[d]
      <3>1. /\ MaxStack[d] \in Nat /\ return_stack_number[d] = (IF d = BootDomain THEN 1 ELSE 0)
            /\ grown[d] = 0 /\ max_return_stack_number[d] = MaxStack[d]
        BY <1>0, <1>12
      <3>2. Cardinality(Charged({BootStack}, rt, d)) = IF d = BootDomain THEN 1 ELSE 0
        BY <1>15, <1>16
      <3> QED
        BY <3>1, <3>2
    <2> QED
      BY <1>6, <2>1 DEF Charges
  <1>20. Balanced(q.value, InUse(chain), rt, function, chain, drift)
    <2>1. ASSUME NEW d \in Domain
          PROVE  q.value[d] + Cardinality(Held({BootStack}, rt, d))
                   - Cardinality(Asking(function, chain, rt, d)) = Units + drift[d]
      <3>1. q.value[d] = Units /\ Units \in Int /\ drift[d] = 0
        BY <1>0, <1>1, <1>12
      <3>2. /\ Cardinality(Held({BootStack}, rt, d)) = 0
            /\ Cardinality(Asking(function, chain, rt, d)) = 0
        BY <1>15, <1>16
      <3> QED
        BY <3>1, <3>2
    <2> QED
      BY <1>6, <2>1 DEF Balanced
  <1> QED
    BY <1>3, <1>7, <1>13, <1>14, <1>17, <1>18, <1>19, <1>20 DEF IInv
-----------------------------------------------------------------------------
LEMMA Types ==
  ASSUME IInv
  PROVE  /\ chain \in [Thread -> Seq(Stack)] /\ free \in Seq(Stack)
         /\ rt \in [Stack -> Rt] /\ home \in [Thread -> Domain \cup {None}]
         /\ function \in [Thread -> {"none", "call", "monitor", "exit"}]
         /\ enter_thread_number \in [Domain -> Int] /\ thread_number \in [Domain -> Int]
         /\ return_stack_number \in [Domain -> Int] /\ max_return_stack_number \in [Domain -> Int]
         /\ drift \in [Domain -> Int] /\ grown \in [Domain -> Int]
         /\ q.value \in [Semaphore -> Int]
         /\ Domain \subseteq Semaphore /\ Other \in Semaphore /\ Other \notin Domain
         /\ None \notin Domain /\ None \notin Semaphore /\ None \notin Thread
         /\ Units \in Int
  <1>1. TypeOK /\ Settled(q)
    BY DEF IInv, Typed
  <1>2. q.value \in [Semaphore -> Int]
    BY <1>1, SettledTypes
  <1>3. /\ Domain \subseteq Semaphore /\ Other \in Semaphore /\ Other \notin Domain
        /\ None \notin Domain /\ None \notin Semaphore /\ None \notin Thread
        /\ Units \in Int
    BY ThreadDomainAssumption, SemaphoreAssumption
  <1> QED
    BY <1>1, <1>2, <1>3 DEF TypeOK

LEMMA RtFields ==
  ASSUME NEW r \in [Stack -> Rt], NEW s \in Stack
  PROVE  /\ r[s].current_domain_id \in Domain /\ r[s].release_domain_id \in Domain
         /\ r[s].p_flag \in BOOLEAN /\ r[s].time_out \in BOOLEAN
         /\ r[s].current_thread_id \in Thread \cup {None}
  BY DEF Rt

LEMMA TopOf ==
  ASSUME IInv, NEW t \in Thread, Created(t)
  PROVE  /\ Top(t) \in Stack /\ Top(t) \in Members(chain[t]) /\ Top(t) \in InUse(chain)
         /\ DomainOf(t) \in Domain
         /\ \A u \in Thread : u # t => Top(t) \notin Members(chain[u])
  <1>1. chain[t] \in Seq(Stack) /\ rt \in [Stack -> Rt]
    BY Types
  <1>2. Top(t) \in Members(chain[t]) /\ Members(chain[t]) \subseteq Stack
    BY <1>1, MembersOf DEF Created, Top
  <1>3. DomainOf(t) \in Domain
    BY <1>1, <1>2, RtFields DEF DomainOf
  <1>4. Top(t) \in InUse(chain)
    BY <1>2, User
  <1>5. \A u \in Thread : u # t => Top(t) \notin Members(chain[u])
    BY <1>2 DEF IInv, Tidy
  <1> QED
    BY <1>2, <1>3, <1>4, <1>5

(* Only one thread begins or ends to ask for a monitor.                    *)
LEMMA AskingOne ==
  ASSUME IInv, NEW t \in Thread, NEW f1, NEW ch1, NEW r1, NEW d,
         \A u \in Thread : u # t => (f1[u] = "monitor" <=> function[u] = "monitor"),
         \A u \in Thread : u # t /\ function[u] = "monitor" =>
           r1[ch1[u][1]].current_domain_id = rt[chain[u][1]].current_domain_id
  PROVE  /\ Cardinality(Asking(f1, ch1, r1, d)) \in Nat
         /\ Cardinality(Asking(function, chain, rt, d)) \in Nat
         /\ Cardinality(Asking(f1, ch1, r1, d)) =
              Cardinality(Asking(function, chain, rt, d))
                + Count(t \in Asking(f1, ch1, r1, d)) - Count(t \in Asking(function, chain, rt, d))
  <1>1. PICK S, T : S = Asking(function, chain, rt, d) /\ T = Asking(f1, ch1, r1, d)
    OBVIOUS
  <1>2. IsFiniteSet(S)
    BY <1>1, Types, Finite
  <1>3. \A y : y # t => (y \in T <=> y \in S)
    BY <1>1 DEF Asking
  <1>4. /\ Cardinality(S) \in Nat /\ Cardinality(T) \in Nat
        /\ Cardinality(T) = Cardinality(S) + Count(t \in T) - Count(t \in S)
    BY <1>2, <1>3, OneDiffers, Zenon
  <1> QED
    BY <1>1, <1>4, Zenon

(* The flag, the domain or the use of only one stack changes.              *)
LEMMA HeldOne ==
  ASSUME IInv, NEW s, NEW U1, NEW r1, NEW d,
         \A x : x # s => (x \in U1 <=> x \in InUse(chain)),
         \A x \in InUse(chain) : x # s => /\ r1[x].current_domain_id = rt[x].current_domain_id
                                          /\ r1[x].p_flag = rt[x].p_flag
  PROVE  /\ Cardinality(Held(U1, r1, d)) \in Nat
         /\ Cardinality(Held(InUse(chain), rt, d)) \in Nat
         /\ Cardinality(Held(U1, r1, d)) =
              Cardinality(Held(InUse(chain), rt, d))
                + Count(s \in Held(U1, r1, d)) - Count(s \in Held(InUse(chain), rt, d))
  <1>1. PICK S, T : S = Held(InUse(chain), rt, d) /\ T = Held(U1, r1, d)
    OBVIOUS
  <1>2. IsFiniteSet(S)
    BY <1>1, Types, Finite
  <1>3. \A y : y # s => (y \in T <=> y \in S)
    BY <1>1 DEF Held
  <1>4. /\ Cardinality(S) \in Nat /\ Cardinality(T) \in Nat
        /\ Cardinality(T) = Cardinality(S) + Count(s \in T) - Count(s \in S)
    BY <1>2, <1>3, OneDiffers, Zenon
  <1> QED
    BY <1>1, <1>4, Zenon

(* Most steps change no stack but its flags.                               *)
LEMMA Light ==
  ASSUME IInv, UNCHANGED <<stacks, home, counters>>, SameStacks(Stack, rt, rt')
  PROVE  /\ chain' = chain /\ free' = free /\ home' = home
         /\ Tidy(chain', free') /\ Known(chain', rt') /\ Homed(chain', home')
         /\ Entries(enter_thread_number', InUse(chain'), rt')
         /\ Population(thread_number', home')
         /\ Charges(return_stack_number', grown', max_return_stack_number', InUse(chain'), rt')
         /\ enter_thread_number' = enter_thread_number /\ thread_number' = thread_number
         /\ return_stack_number' = return_stack_number
         /\ max_return_stack_number' = max_return_stack_number /\ grown' = grown
  <1>1. /\ chain' = chain /\ free' = free /\ home' = home
        /\ enter_thread_number' = enter_thread_number /\ thread_number' = thread_number
        /\ return_stack_number' = return_stack_number
        /\ max_return_stack_number' = max_return_stack_number /\ grown' = grown
    BY DEF stacks, counters
  <1>2. PICK r1, U : r1 = rt' /\ U = InUse(chain)
    OBVIOUS
  <1>3. SameStacks(U, rt, r1)
    <2>1. U \subseteq Stack
      BY <1>2, Types, Finite
    <2> QED
      BY <1>2, <2>1 DEF SameStacks
  <1>4. /\ Known(chain, r1) /\ Entries(enter_thread_number, U, r1)
        /\ Charges(return_stack_number, grown, max_return_stack_number, U, r1)
    BY <1>2, <1>3, KeptIds, Zenon DEF IInv
  <1>5. Tidy(chain, free) /\ Homed(chain, home) /\ Population(thread_number, home)
    BY DEF IInv
  <1> QED
    BY <1>1, <1>2, <1>4, <1>5, Zenon

(* ... so that the rest of the invariant follows from the monitors.        *)
LEMMA LightKeeps ==
  ASSUME IInv, UNCHANGED <<stacks, home, counters>>, SameStacks(Stack, rt, rt'),
         rt' \in [Stack -> Rt], Settled(q'), drift' \in [Domain -> Int],
         function' \in [Thread -> {"none", "call", "monitor", "exit"}],
         incarnation' \in [Domain -> UNION {Incarnation[d] : d \in Domain}],
         \A d \in Domain : incarnation'[d] \in Incarnation[d],
         \A t \in Thread : function'[t] # "none" => Created(t),
         Balanced(q'.value, InUse(chain), rt', function', chain, drift')
  PROVE  IInv'
  <1>1. /\ chain' = chain /\ free' = free /\ home' = home
        /\ Tidy(chain', free') /\ Known(chain', rt') /\ Homed(chain', home')
        /\ Entries(enter_thread_number', InUse(chain'), rt')
        /\ Population(thread_number', home')
        /\ Charges(return_stack_number', grown', max_return_stack_number', InUse(chain'), rt')
        /\ enter_thread_number' = enter_thread_number /\ thread_number' = thread_number
        /\ return_stack_number' = return_stack_number
        /\ max_return_stack_number' = max_return_stack_number /\ grown' = grown
    BY Light
  <1>2. q' \in SemaphoreState
    BY DEF Settled, Sound
  <1>3. TypeOK'
    BY <1>1, <1>2 DEF IInv, Typed, TypeOK
  <1>4. Typed'
    BY <1>3 DEF IInv, Typed
  <1>5. Occupied(chain', function')
    BY <1>1 DEF Occupied, Created
  <1>6. Balanced(q'.value, InUse(chain'), rt', function', chain', drift')
    BY <1>1, Zenon
  <1> QED
    BY <1>1, <1>4, <1>5, <1>6 DEF IInv
-----------------------------------------------------------------------------
(* The two flags of a stack.                                               *)
WithFlag(r, s, b)    == [r EXCEPT ![s].p_flag = b]
WithTimeOut(r, s, b) == [r EXCEPT ![s].time_out = b]
WithTimeOuts(r, b)   == [s \in Stack |-> [r[s] EXCEPT !.time_out = b[s]]]

LEMMA FlagSet ==
  ASSUME NEW r \in [Stack -> Rt], NEW s \in Stack, NEW b \in BOOLEAN,
         NEW r1, r1 = WithFlag(r, s, b)
  PROVE  /\ r1 \in [Stack -> Rt] /\ SameStacks(Stack, r, r1)
         /\ r1[s].p_flag = b
         /\ \A x \in Stack : x # s => r1[x] = r[x]
  <1>1. /\ r1[s] = [r[s] EXCEPT !.p_flag = b] /\ DOMAIN r1 = Stack
        /\ r1 = [x \in Stack |-> r1[x]]
        /\ \A x \in Stack : x # s => r1[x] = r[x]
    BY DEF WithFlag
  <1>2. r[s] \in Rt
    OBVIOUS
  <1>3. /\ [r[s] EXCEPT !.p_flag = b] \in Rt /\ r1[s].p_flag = b
        /\ r1[s].current_thread_id = r[s].current_thread_id
        /\ r1[s].current_domain_id = r[s].current_domain_id
        /\ r1[s].release_domain_id = r[s].release_domain_id
    BY <1>1, <1>2 DEF Rt
  <1>4. r1 \in [Stack -> Rt]
    <2>1. \A x \in Stack : r1[x] \in Rt
      BY <1>1, <1>3
    <2> QED
      BY <1>1, <2>1, Zenon
  <1> QED
    BY <1>1, <1>3, <1>4 DEF SameStacks

LEMMA TimeOutsSet ==
  ASSUME NEW r \in [Stack -> Rt], NEW b \in [Stack -> BOOLEAN],
         NEW r1, r1 = WithTimeOuts(r, b)
  PROVE  /\ r1 \in [Stack -> Rt] /\ SameStacks(Stack, r, r1)
         /\ \A s \in Stack : r1[s].p_flag = r[s].p_flag
  <1>1. ASSUME NEW s \in Stack
        PROVE  /\ r1[s] \in Rt /\ r1[s].p_flag = r[s].p_flag
               /\ r1[s].current_thread_id = r[s].current_thread_id
               /\ r1[s].current_domain_id = r[s].current_domain_id
               /\ r1[s].release_domain_id = r[s].release_domain_id
    <2>1. r1[s] = [r[s] EXCEPT !.time_out = b[s]]
      BY DEF WithTimeOuts
    <2>2. r[s] \in Rt /\ b[s] \in BOOLEAN
      OBVIOUS
    <2> QED
      BY <2>1, <2>2 DEF Rt
  <1>2. r1 \in [Stack -> Rt]
    <2>1. r1 = [s \in Stack |-> r1[s]]
      BY DEF WithTimeOuts
    <2> QED
      BY <1>1, <2>1
  <1> QED
    BY <1>1, <1>2 DEF SameStacks

LEMMA TimeOutSet ==
  ASSUME NEW r \in [Stack -> Rt], NEW s \in Stack, NEW c \in BOOLEAN,
         NEW r1, r1 = WithTimeOut(r, s, c)
  PROVE  /\ r1 \in [Stack -> Rt] /\ SameStacks(Stack, r, r1)
         /\ \A x \in Stack : r1[x].p_flag = r[x].p_flag
  <1>1. /\ r1[s] = [r[s] EXCEPT !.time_out = c] /\ DOMAIN r1 = Stack
        /\ r1 = [x \in Stack |-> r1[x]]
        /\ \A x \in Stack : x # s => r1[x] = r[x]
    BY DEF WithTimeOut
  <1>2. r[s] \in Rt
    OBVIOUS
  <1>3. /\ [r[s] EXCEPT !.time_out = c] \in Rt /\ r1[s].p_flag = r[s].p_flag
        /\ r1[s].current_thread_id = r[s].current_thread_id
        /\ r1[s].current_domain_id = r[s].current_domain_id
        /\ r1[s].release_domain_id = r[s].release_domain_id
    BY <1>1, <1>2 DEF Rt
  <1>4. r1 \in [Stack -> Rt]
    <2>1. \A x \in Stack : r1[x] \in Rt
      BY <1>1, <1>3
    <2> QED
      BY <1>1, <2>1, Zenon
  <1> QED
    BY <1>1, <1>3, <1>4 DEF SameStacks

-----------------------------------------------------------------------------
(* A thread that asks for a monitor has a stack.                           *)
LEMMA Asker ==
  ASSUME IInv, NEW u \in Thread, function[u] # "none"
  PROVE  /\ Created(u) /\ chain[u][1] \in Members(chain[u]) /\ chain[u][1] \in Stack
         /\ chain[u][1] \in InUse(chain)
  <1>1. Created(u)
    BY DEF IInv, Occupied, Created
  <1> QED
    BY <1>1, TopOf DEF Top

(* The monitors of a step that leaves domains and flags alone: what a      *)
(* thread asked for, or got, is all that can change.                       *)
LEMMA FlagsKept ==
  ASSUME IInv, NEW r1, SameStacks(Stack, rt, r1), \A s \in Stack : r1[s].p_flag = rt[s].p_flag,
         NEW t \in Thread, NEW f1, \A u \in Thread : u # t => f1[u] = function[u], NEW d
  PROVE  /\ Held(InUse(chain), r1, d) = Held(InUse(chain), rt, d)
         /\ Cardinality(Held(InUse(chain), rt, d)) \in Nat
         /\ Cardinality(Asking(f1, chain, r1, d)) \in Nat
         /\ Cardinality(Asking(function, chain, rt, d)) \in Nat
         /\ Cardinality(Asking(f1, chain, r1, d)) =
              Cardinality(Asking(function, chain, rt, d))
                + Count(t \in Asking(f1, chain, r1, d)) - Count(t \in Asking(function, chain, rt, d))
  <1>1. InUse(chain) \subseteq Stack /\ Cardinality(Held(InUse(chain), rt, d)) \in Nat
    BY Types, Finite
  <1>2. Held(InUse(chain), r1, d) = Held(InUse(chain), rt, d)
    BY <1>1 DEF Held, SameStacks
  <1>3. \A u \in Thread : u # t => (f1[u] = "monitor" <=> function[u] = "monitor")
    OBVIOUS
  <1>4. \A u \in Thread : u # t /\ function[u] = "monitor" =>
          r1[chain[u][1]].current_domain_id = rt[chain[u][1]].current_domain_id
    BY Asker DEF SameStacks
  <1>5. /\ Cardinality(Asking(f1, chain, r1, d)) \in Nat
        /\ Cardinality(Asking(function, chain, rt, d)) \in Nat
        /\ Cardinality(Asking(f1, chain, r1, d)) =
              Cardinality(Asking(function, chain, rt, d))
                + Count(t \in Asking(f1, chain, r1, d)) - Count(t \in Asking(function, chain, rt, d))
    BY <1>3, <1>4, AskingOne
  <1> QED
    BY <1>1, <1>2, <1>5, Zenon

LEMMA SelectKeeps ==
  ASSUME IInv, NEW t \in Thread, Select(t)
  PROVE  IInv'
  <1>1. PICK s : s = Top(t)
    OBVIOUS
  <1>2. /\ Created(t) /\ UNCHANGED <<q, stacks, home, incarnation, counters>>
    BY DEF Select
  <1>3. s \in Stack /\ s \in InUse(chain) /\ DomainOf(t) \in Domain /\ chain[t][1] = s
    BY <1>1, <1>2, TopOf DEF Top
  <1>4. q' = q /\ Settled(q') /\ incarnation' = incarnation
    BY <1>2 DEF IInv
  <1>5. CASE /\ ~Live(s)
             /\ function' = [function EXCEPT ![t] = "exit"]
             /\ rt' = [rt EXCEPT ![s].time_out = FALSE]
             /\ drift' = IF function[t] = "monitor" THEN Plus(drift, DomainOf(t), 1) ELSE drift
    <2>1. PICK r1, f1, c : r1 = rt' /\ f1 = function' /\ c = FALSE
      OBVIOUS
    <2>2. /\ r1 \in [Stack -> Rt] /\ SameStacks(Stack, rt, r1)
          /\ \A x \in Stack : r1[x].p_flag = rt[x].p_flag
      <3>1. r1 = WithTimeOut(rt, s, c) /\ rt \in [Stack -> Rt]
        BY <1>5, <2>1, Types DEF WithTimeOut
      <3>2. c \in BOOLEAN
        BY <2>1
      <3> QED
        BY <1>3, <3>1, <3>2, TimeOutSet
    <2>3. /\ f1 \in [Thread -> {"none", "call", "monitor", "exit"}]
          /\ f1[t] = "exit" /\ \A u \in Thread : u # t => f1[u] = function[u]
      BY <1>5, <2>1, Types
    <2>4. \A u \in Thread : f1[u] # "none" => Created(u)
      BY <1>2, <2>3 DEF IInv, Occupied, Created
    <2>5. drift' \in [Domain -> Int]
          /\ \A d \in Domain :
               drift'[d] = drift[d] + IF function[t] = "monitor" /\ DomainOf(t) = d THEN 1 ELSE 0
      <3>1. drift \in [Domain -> Int]
        BY Types
      <3> QED
        BY <1>3, <1>5, <3>1 DEF Plus, Count
    <2>6. Balanced(q.value, InUse(chain), r1, f1, chain, drift')
      <3> SUFFICES ASSUME NEW d \in Domain
                   PROVE  q.value[d] + Cardinality(Held(InUse(chain), r1, d))
                            - Cardinality(Asking(f1, chain, r1, d)) = Units + drift'[d]
        BY DEF Balanced
      <3>1. PICK h, a, a1, k, k1 :
              /\ h = Cardinality(Held(InUse(chain), rt, d)) /\ a = Cardinality(Asking(function, chain, rt, d))
              /\ a1 = Cardinality(Asking(f1, chain, r1, d))
              /\ k = Count(t \in Asking(function, chain, rt, d))
              /\ k1 = Count(t \in Asking(f1, chain, r1, d))
        OBVIOUS
      <3>2. /\ Cardinality(Held(InUse(chain), r1, d)) = h
            /\ h \in Nat /\ a \in Nat /\ a1 \in Nat /\ a1 = a + k1 - k
        <4>1. /\ Held(InUse(chain), r1, d) = Held(InUse(chain), rt, d)
              /\ Cardinality(Held(InUse(chain), rt, d)) \in Nat
              /\ Cardinality(Asking(f1, chain, r1, d)) \in Nat
              /\ Cardinality(Asking(function, chain, rt, d)) \in Nat
              /\ Cardinality(Asking(f1, chain, r1, d)) =
                   Cardinality(Asking(function, chain, rt, d))
                     + Count(t \in Asking(f1, chain, r1, d)) - Count(t \in Asking(function, chain, rt, d))
          BY <2>2, <2>3, FlagsKept
        <4> QED
          BY <3>1, <4>1, Zenon
      <3>3. k1 = 0 /\ k \in Int
        BY <2>3, <3>1 DEF Asking, Count
      <3>4. k = IF function[t] = "monitor" /\ DomainOf(t) = d THEN 1 ELSE 0
        BY <1>1, <1>3, <3>1 DEF Asking, DomainOf, Count
      <3>5. q.value[d] + h - a = Units + drift[d]
        BY <3>1 DEF IInv, Balanced
      <3>6. q.value[d] \in Int /\ Units \in Int /\ drift[d] \in Int
        BY Types
      <3> QED
        BY <2>5, <3>1, <3>2, <3>3, <3>4, <3>5, <3>6
    <2> QED
      BY <1>2, <1>4, <2>1, <2>2, <2>3, <2>4, <2>5, <2>6, LightKeeps DEF IInv, Typed, TypeOK
  <1>6. CASE /\ function[t] = "none" /\ rt[s].p_flag
             /\ function' = [function EXCEPT ![t] = "monitor"]
             /\ rt' = [rt EXCEPT ![s].p_flag = FALSE]
             /\ UNCHANGED drift
    <2>1. PICK r1, f1, c : r1 = rt' /\ f1 = function' /\ c = FALSE
      OBVIOUS
    <2>2. /\ r1 \in [Stack -> Rt] /\ SameStacks(Stack, rt, r1) /\ r1[s].p_flag = FALSE
          /\ \A x \in Stack : x # s => r1[x] = rt[x]
      <3>1. r1 = WithFlag(rt, s, c) /\ rt \in [Stack -> Rt]
        BY <1>6, <2>1, Types DEF WithFlag
      <3>2. /\ r1 \in [Stack -> Rt] /\ SameStacks(Stack, rt, r1) /\ r1[s].p_flag = c
            /\ \A x \in Stack : x # s => r1[x] = rt[x]
        <4>1. c \in BOOLEAN
          BY <2>1
        <4> QED
          BY <1>3, <3>1, <4>1, FlagSet
      <3> QED
        BY <2>1, <3>2
    <2>3. /\ f1 \in [Thread -> {"none", "call", "monitor", "exit"}]
          /\ f1[t] = "monitor" /\ \A u \in Thread : u # t => f1[u] = function[u]
      BY <1>6, <2>1, Types
    <2>4. \A u \in Thread : f1[u] # "none" => Created(u)
      BY <1>2, <2>3 DEF IInv, Occupied, Created
    <2>5. drift' = drift /\ drift' \in [Domain -> Int]
      BY <1>6, Types
    <2>6. Balanced(q.value, InUse(chain), r1, f1, chain, drift')
      <3> SUFFICES ASSUME NEW d \in Domain
                   PROVE  q.value[d] + Cardinality(Held(InUse(chain), r1, d))
                            - Cardinality(Asking(f1, chain, r1, d)) = Units + drift'[d]
        BY DEF Balanced
      <3>1. PICK h, h1, a, a1, k, k1, m, m1 :
              /\ h = Cardinality(Held(InUse(chain), rt, d)) /\ h1 = Cardinality(Held(InUse(chain), r1, d))
              /\ a = Cardinality(Asking(function, chain, rt, d)) /\ a1 = Cardinality(Asking(f1, chain, r1, d))
              /\ k = Count(t \in Asking(function, chain, rt, d))
              /\ k1 = Count(t \in Asking(f1, chain, r1, d))
              /\ m = Count(s \in Held(InUse(chain), rt, d))
              /\ m1 = Count(s \in Held(InUse(chain), r1, d))
        OBVIOUS
      <3>2. h \in Nat /\ h1 \in Nat /\ h1 = h + m1 - m
        <4>1. \A x \in InUse(chain) : x # s => /\ r1[x].current_domain_id = rt[x].current_domain_id
                                               /\ r1[x].p_flag = rt[x].p_flag
          <5>1. InUse(chain) \subseteq Stack
            BY Types, Finite
          <5> QED
            BY <2>2, <5>1
        <4>2. /\ Cardinality(Held(InUse(chain), r1, d)) \in Nat
              /\ Cardinality(Held(InUse(chain), rt, d)) \in Nat
              /\ Cardinality(Held(InUse(chain), r1, d)) =
                   Cardinality(Held(InUse(chain), rt, d))
                     + Count(s \in Held(InUse(chain), r1, d)) - Count(s \in Held(InUse(chain), rt, d))
          BY <4>1, HeldOne, Zenon
        <4> QED
          BY <3>1, <4>2, Zenon
      <3>3. a \in Nat /\ a1 \in Nat /\ a1 = a + k1 - k
        <4>1. \A u \in Thread : u # t /\ function[u] = "monitor" =>
                r1[chain[u][1]].current_domain_id = rt[chain[u][1]].current_domain_id
          BY <2>2, Asker DEF SameStacks
        <4>2. \A u \in Thread : u # t => (f1[u] = "monitor" <=> function[u] = "monitor")
          BY <2>3
        <4>3. /\ Cardinality(Asking(f1, chain, r1, d)) \in Nat
              /\ Cardinality(Asking(function, chain, rt, d)) \in Nat
              /\ Cardinality(Asking(f1, chain, r1, d)) =
                   Cardinality(Asking(function, chain, rt, d))
                     + Count(t \in Asking(f1, chain, r1, d)) - Count(t \in Asking(function, chain, rt, d))
          BY <4>1, <4>2, AskingOne
        <4> QED
          BY <3>1, <4>3, Zenon
      <3>4. k = 0 /\ m = 0 /\ k1 = m1 /\ m1 \in Int
        <4>1. k = 0 /\ m = 0
          BY <1>6, <3>1 DEF Asking, Held, Count
        <4>2. k1 = Count(r1[s].current_domain_id = d)
          BY <1>3, <2>3, <3>1 DEF Asking, Count
        <4>3. m1 = Count(r1[s].current_domain_id = d)
          BY <1>3, <2>2, <3>1 DEF Held, Count
        <4> QED
          BY <4>1, <4>2, <4>3 DEF Count
      <3>5. q.value[d] + h - a = Units + drift[d]
        BY <3>1 DEF IInv, Balanced
      <3>6. q.value[d] \in Int /\ Units \in Int /\ drift[d] \in Int
        BY Types
      <3> QED
        BY <2>5, <3>1, <3>2, <3>3, <3>4, <3>5, <3>6
    <2> QED
      BY <1>2, <1>4, <2>1, <2>2, <2>3, <2>4, <2>5, <2>6, LightKeeps DEF IInv, Typed, TypeOK
  <1> QED
    BY <1>1, <1>5, <1>6 DEF Select
-----------------------------------------------------------------------------
(* A system call ends, or begins, for a thread that asks for no monitor.   *)
LEMMA NotAsking ==
  ASSUME IInv, NEW t \in Thread, function[t] # "monitor",
         NEW f1, f1[t] # "monitor", \A u \in Thread : u # t => f1[u] = function[u],
         NEW r1, SameStacks(Stack, rt, r1), NEW d
  PROVE  Asking(f1, chain, r1, d) = Asking(function, chain, rt, d)
  <1>1. \A u \in Thread : function[u] = "monitor" => chain[u][1] \in Stack
    BY Asker
  <1> QED
    BY <1>1 DEF Asking, SameStacks

LEMMA SystemCallKeeps ==
  ASSUME IInv, NEW t \in Thread, SystemCall(t)
  PROVE  IInv'
  <1>1. /\ Created(t) /\ function[t] = "none" /\ function' = [function EXCEPT ![t] = "call"]
        /\ q' = q /\ rt' = rt /\ drift' = drift /\ incarnation' = incarnation
        /\ UNCHANGED <<stacks, home, counters>>
    BY DEF SystemCall
  <1>2. PICK f1 : f1 = function'
    OBVIOUS
  <1>3. /\ f1 \in [Thread -> {"none", "call", "monitor", "exit"}]
        /\ f1[t] = "call" /\ \A u \in Thread : u # t => f1[u] = function[u]
    BY <1>1, <1>2, Types
  <1>4. SameStacks(Stack, rt, rt)
    BY DEF SameStacks
  <1>5. \A d : Asking(f1, chain, rt, d) = Asking(function, chain, rt, d)
    <2>1. function[t] # "monitor" /\ f1[t] # "monitor"
      BY <1>1, <1>3
    <2> QED
      BY <1>3, <1>4, <2>1, NotAsking
  <1>6. Balanced(q.value, InUse(chain), rt, f1, chain, drift)
    BY <1>5 DEF IInv, Balanced
  <1>7. \A u \in Thread : f1[u] # "none" => Created(u)
    BY <1>1, <1>3 DEF IInv, Occupied, Created
  <1> QED
    BY <1>1, <1>2, <1>3, <1>4, <1>6, <1>7, LightKeeps, Types DEF IInv, Typed, TypeOK

LEMMA MonitorPKeeps ==
  ASSUME IInv, NEW t \in Thread, MonitorP(t)
  PROVE  IInv'
  <1>1. /\ Created(t) /\ Awake(q, t) /\ function[t] = "monitor"
        /\ function' = [function EXCEPT ![t] = "none"]
        /\ q' = P(q, t, DomainOf(t), TRUE)
        /\ rt' = rt /\ drift' = drift /\ incarnation' = incarnation
        /\ UNCHANGED <<stacks, home, counters>>
    BY DEF MonitorP, Runs, Done
  <1>2. PICK f1, Z, e : f1 = function' /\ Z = q' /\ e = DomainOf(t)
    OBVIOUS
  <1>3. /\ f1 \in [Thread -> {"none", "call", "monitor", "exit"}]
        /\ f1[t] = "none" /\ \A u \in Thread : u # t => f1[u] = function[u]
    BY <1>1, <1>2, Types
  <1>4. SameStacks(Stack, rt, rt)
    BY DEF SameStacks
  <1>5. e \in Domain /\ e \in Semaphore
    BY <1>1, <1>2, TopOf, Types
  <1>6. Settled(Z) /\ Z.value = [q.value EXCEPT ![e] = q.value[e] - 1]
    <2>1. Z = PSleeping(q, t, e)
      BY <1>1, <1>2 DEF PSleeping
    <2>2. Settled(q)
      BY DEF IInv
    <2>3. /\ Settled(Z)
          /\ Z.value = [q.value EXCEPT ![e] = q.value[e] - 1]
          /\ q.value[e] > 0 => Z.sleep = q.sleep
          /\ ~(q.value[e] > 0) => Z.sleep = [q.sleep EXCEPT ![t] = e]
      BY <1>1, <1>5, <2>1, <2>2, PSettled, SMTT(30)
    <2> QED
      BY <2>3
  <1>7. Balanced(Z.value, InUse(chain), rt, f1, chain, drift)
    <2> SUFFICES ASSUME NEW d \in Domain
                 PROVE  Z.value[d] + Cardinality(Held(InUse(chain), rt, d))
                          - Cardinality(Asking(f1, chain, rt, d)) = Units + drift[d]
      BY DEF Balanced
    <2>1. PICK h, a, a1, k, k1 :
            /\ h = Cardinality(Held(InUse(chain), rt, d))
            /\ a = Cardinality(Asking(function, chain, rt, d)) /\ a1 = Cardinality(Asking(f1, chain, rt, d))
            /\ k = Count(t \in Asking(function, chain, rt, d))
            /\ k1 = Count(t \in Asking(f1, chain, rt, d))
      OBVIOUS
    <2>2. /\ h \in Nat /\ a \in Nat /\ a1 \in Nat /\ a1 = a + k1 - k
      <3>1. /\ Held(InUse(chain), rt, d) = Held(InUse(chain), rt, d)
            /\ Cardinality(Held(InUse(chain), rt, d)) \in Nat
            /\ Cardinality(Asking(f1, chain, rt, d)) \in Nat
            /\ Cardinality(Asking(function, chain, rt, d)) \in Nat
            /\ Cardinality(Asking(f1, chain, rt, d)) =
                 Cardinality(Asking(function, chain, rt, d))
                   + Count(t \in Asking(f1, chain, rt, d)) - Count(t \in Asking(function, chain, rt, d))
        BY <1>3, <1>4, FlagsKept
      <3> QED
        BY <2>1, <3>1, Zenon
    <2>3. k1 = 0
      BY <1>3, <2>1 DEF Asking, Count
    <2>4. k = IF e = d THEN 1 ELSE 0
      BY <1>1, <1>2, <2>1 DEF Asking, DomainOf, Top, Count
    <2>5. q.value[d] + h - a = Units + drift[d]
      BY <2>1 DEF IInv, Balanced
    <2>6. q.value[d] \in Int /\ Units \in Int /\ drift[d] \in Int /\ d \in Semaphore
      BY Types
    <2>7. Z.value[d] = q.value[d] - IF e = d THEN 1 ELSE 0
      <3>1. q.value \in [Semaphore -> Int]
        BY Types
      <3> QED
        BY <1>5, <1>6, <2>6, <3>1
    <2> QED
      BY <2>1, <2>2, <2>3, <2>4, <2>5, <2>6, <2>7
  <1>8. \A u \in Thread : f1[u] # "none" => Created(u)
    BY <1>1, <1>3 DEF IInv, Occupied, Created
  <1> QED
    BY <1>1, <1>2, <1>3, <1>4, <1>6, <1>7, <1>8, LightKeeps, Types DEF IInv, Typed, TypeOK

LEMMA AllocateResourceKeeps ==
  ASSUME IInv, NEW t \in Thread, AllocateResource(t)
  PROVE  IInv'
  <1>1. /\ Created(t) /\ function[t] = "call" /\ function' = [function EXCEPT ![t] = "none"]
        /\ q' = q /\ rt' = rt /\ drift' = drift
        /\ UNCHANGED <<stacks, home, counters>>
    BY DEF AllocateResource, Runs, Done
  <1>2. PICK f1 : f1 = function'
    OBVIOUS
  <1>3. /\ f1 \in [Thread -> {"none", "call", "monitor", "exit"}]
        /\ f1[t] = "none" /\ \A u \in Thread : u # t => f1[u] = function[u]
    BY <1>1, <1>2, Types
  <1>4. SameStacks(Stack, rt, rt)
    BY DEF SameStacks
  <1>5. \A d : Asking(f1, chain, rt, d) = Asking(function, chain, rt, d)
    <2>1. function[t] # "monitor" /\ f1[t] # "monitor"
      BY <1>1, <1>3
    <2> QED
      BY <1>3, <1>4, <2>1, NotAsking
  <1>6. Balanced(q.value, InUse(chain), rt, f1, chain, drift)
    BY <1>5 DEF IInv, Balanced
  <1>7. \A u \in Thread : f1[u] # "none" => Created(u)
    BY <1>1, <1>3 DEF IInv, Occupied, Created
  <1>8. /\ incarnation' \in [Domain -> UNION {Incarnation[d] : d \in Domain}]
        /\ \A d \in Domain : incarnation'[d] \in Incarnation[d]
    <2>1. PICK d \in Domain : \E i \in Incarnation[d] : incarnation' = [incarnation EXCEPT ![d] = i]
      BY DEF AllocateResource
    <2>2. PICK i \in Incarnation[d] : incarnation' = [incarnation EXCEPT ![d] = i]
      BY <2>1
    <2>3. PICK Ids : Ids = UNION {Incarnation[e] : e \in Domain}
      OBVIOUS
    <2>4. incarnation \in [Domain -> Ids] /\ i \in Ids /\ \A e \in Domain : incarnation[e] \in Incarnation[e]
      BY <2>3 DEF IInv, Typed, TypeOK
    <2> QED
      BY <2>2, <2>3, <2>4
  <1> QED
    BY <1>1, <1>2, <1>3, <1>4, <1>6, <1>7, <1>8, LightKeeps, Types DEF IInv
LEMMA SemaphoreOperationKeeps ==
  ASSUME IInv, NEW t \in Thread, SemaphoreOperation(t)
  PROVE  IInv'
  <1>1. /\ Created(t) /\ Awake(q, t) /\ function[t] = "call"
        /\ function' = [function EXCEPT ![t] = "none"]
        /\ drift' = drift /\ incarnation' = incarnation
        /\ UNCHANGED <<stacks, home, counters>>
    BY DEF SemaphoreOperation, Runs, Done
  <1>2. PICK f1, Z, e, s, r1 : /\ f1 = function' /\ Z = q' /\ e = DomainOf(t) /\ s = Top(t)
                               /\ r1 = rt'
    OBVIOUS
  <1>3. /\ f1 \in [Thread -> {"none", "call", "monitor", "exit"}]
        /\ f1[t] = "none" /\ \A u \in Thread : u # t => f1[u] = function[u]
    BY <1>1, <1>2, Types
  <1>4. /\ e \in Domain /\ e \in Semaphore /\ s \in Stack /\ s \in InUse(chain)
        /\ rt[s].current_domain_id = e /\ e # Other /\ Other \in Semaphore
    BY <1>1, <1>2, TopOf, Types DEF DomainOf
  <1>5. Settled(q) /\ q.value \in [Semaphore -> Int] /\ rt \in [Stack -> Rt]
    BY Types DEF IInv
  <1>6. \A u \in Thread : f1[u] # "none" => Created(u)
    BY <1>1, <1>3 DEF IInv, Occupied, Created
  <1>7. function[t] # "monitor" /\ f1[t] # "monitor"
    BY <1>1, <1>3
  <1>8. CASE /\ q' = V(q, Other, -1) /\ UNCHANGED rt
    <2>1. Settled(Z) /\ \A x \in Semaphore : x # Other => Z.value[x] = q.value[x]
      <3>1. PICK n \in Int : n = -1
        OBVIOUS
      <3>2. PICK w \in Semaphore : w = Other
        BY <1>4
      <3>3. Z = V(q, w, n) /\ n \in Int /\ w \in Semaphore /\ Settled(q)
        BY <1>2, <1>5, <1>8, <3>1, <3>2
      <3>4. /\ Settled(Z)
            /\ \A x \in Semaphore : x # w => Z.value[x] = q.value[x]
            /\ \A u \in Thread :
                 Z.sleep[u] = q.sleep[u] \/ (q.sleep[u] = w /\ Z.sleep[u] = None)
        BY <3>3, VSettled
      <3> QED
        BY <3>2, <3>4
    <2>2. SameStacks(Stack, rt, rt) /\ r1 = rt
      BY <1>2, <1>8 DEF SameStacks
    <2>3. \A d : Asking(f1, chain, rt, d) = Asking(function, chain, rt, d)
      BY <1>3, <1>7, <2>2, NotAsking
    <2>4. \A d \in Domain : Z.value[d] = q.value[d]
      BY <2>1, Types
    <2>5. Balanced(Z.value, InUse(chain), rt, f1, chain, drift)
      BY <2>3, <2>4 DEF IInv, Balanced
    <2> QED
      BY <1>1, <1>2, <1>3, <1>5, <1>6, <2>1, <2>2, <2>5, LightKeeps, Types DEF IInv, Typed, TypeOK
  <1>9. ASSUME NEW giveup \in BOOLEAN,
               q' = P(IF giveup /\ ~rt[s].p_flag THEN V(q, e, 1) ELSE q, t, Other, TRUE),
               rt' = [rt EXCEPT ![s].p_flag = @ \/ giveup]
        PROVE  IInv'
    <2>1. PICK Y, b, gives : /\ Y = (IF giveup /\ ~rt[s].p_flag THEN V(q, e, 1) ELSE q)
                             /\ b = (rt[s].p_flag \/ giveup)
                             /\ gives = (giveup /\ ~rt[s].p_flag)
      OBVIOUS
    <2>2. /\ Settled(Y) /\ Awake(Y, t)
          /\ \A x \in Semaphore : Y.value[x] = IF gives /\ x = e THEN q.value[x] + 1 ELSE q.value[x]
      <3>1. CASE ~gives
        BY <1>1, <1>5, <2>1, <3>1
      <3>2. CASE gives
        <4>1. Y = V(q, e, 1)
          BY <2>1, <3>2
        <4>2. /\ Settled(Y)
              /\ Y.value = [q.value EXCEPT ![e] = q.value[e] + 1]
              /\ ~(q.value[e] < 0) => Y.sleep = q.sleep
              /\ q.value[e] < 0 =>
                   /\ q.ring[e][1] \in Thread /\ q.sleep[q.ring[e][1]] = e
                   /\ Y.sleep = [q.sleep EXCEPT ![q.ring[e][1]] = None]
          BY <1>4, <1>5, <4>1, VOne, SMTT(30)
        <4>3. q.sleep \in [Thread -> Semaphore \cup {None}]
          BY <1>5, SettledTypes
        <4>4. Y.sleep[t] = None
          BY <1>1, <4>2, <4>3 DEF Awake
        <4> QED
          BY <1>5, <3>2, <4>2, <4>4 DEF Awake
      <3> QED
        BY <3>1, <3>2
    <2>3. /\ Settled(Z) /\ Z.value = [Y.value EXCEPT ![Other] = Y.value[Other] - 1]
      <3>1. Z = PSleeping(Y, t, Other)
        BY <1>2, <1>9, <2>1 DEF PSleeping
      <3>2. /\ Settled(Z)
            /\ Z.value = [Y.value EXCEPT ![Other] = Y.value[Other] - 1]
            /\ Y.value[Other] > 0 => Z.sleep = Y.sleep
            /\ ~(Y.value[Other] > 0) => Z.sleep = [Y.sleep EXCEPT ![t] = Other]
        BY <1>4, <2>2, <3>1, PSettled, SMTT(30)
      <3> QED
        BY <3>2
    <2>4. \A d \in Domain : Z.value[d] = q.value[d] + IF gives /\ d = e THEN 1 ELSE 0
      <3>1. Y.value \in [Semaphore -> Int]
        BY <2>2, SettledTypes
      <3>2. \A d \in Domain : d \in Semaphore /\ d # Other /\ q.value[d] \in Int
        BY Types
      <3> QED
        BY <2>2, <2>3, <3>1, <3>2
    <2>5. b \in BOOLEAN
      BY <1>4, <1>5, <2>1, RtFields
    <2>6. /\ r1 \in [Stack -> Rt] /\ SameStacks(Stack, rt, r1) /\ r1[s].p_flag = b
          /\ \A x \in Stack : x # s => r1[x] = rt[x]
      <3>1. r1 = WithFlag(rt, s, b)
        <4>1. [rt EXCEPT ![s].p_flag = @ \/ giveup] = [rt EXCEPT ![s].p_flag = rt[s].p_flag \/ giveup]
          BY <1>4, <1>5 DEF Rt
        <4> QED
          BY <1>2, <1>9, <2>1, <4>1 DEF WithFlag
      <3> QED
        BY <1>4, <1>5, <2>5, <3>1, FlagSet
    <2>7. \A d : Asking(f1, chain, r1, d) = Asking(function, chain, rt, d)
      BY <1>3, <1>7, <2>6, NotAsking
    <2>8. Balanced(Z.value, InUse(chain), r1, f1, chain, drift)
      <3> SUFFICES ASSUME NEW d \in Domain
                   PROVE  Z.value[d] + Cardinality(Held(InUse(chain), r1, d))
                            - Cardinality(Asking(f1, chain, r1, d)) = Units + drift[d]
        BY DEF Balanced
      <3>1. PICK h, h1, a, m, m1 :
              /\ h = Cardinality(Held(InUse(chain), rt, d)) /\ h1 = Cardinality(Held(InUse(chain), r1, d))
              /\ a = Cardinality(Asking(function, chain, rt, d))
              /\ m = Count(s \in Held(InUse(chain), rt, d))
              /\ m1 = Count(s \in Held(InUse(chain), r1, d))
        OBVIOUS
      <3>2. h \in Nat /\ h1 \in Nat /\ h1 = h + m1 - m
        <4>1. \A x \in InUse(chain) : x # s => /\ r1[x].current_domain_id = rt[x].current_domain_id
                                               /\ r1[x].p_flag = rt[x].p_flag
          <5>1. InUse(chain) \subseteq Stack
            BY Types, Finite
          <5> QED
            BY <2>6, <5>1
        <4>2. /\ Cardinality(Held(InUse(chain), r1, d)) \in Nat
              /\ Cardinality(Held(InUse(chain), rt, d)) \in Nat
              /\ Cardinality(Held(InUse(chain), r1, d)) =
                   Cardinality(Held(InUse(chain), rt, d))
                     + Count(s \in Held(InUse(chain), r1, d)) - Count(s \in Held(InUse(chain), rt, d))
          BY <4>1, HeldOne, Zenon
        <4> QED
          BY <3>1, <4>2, Zenon
      <3>3. m = IF e = d /\ ~rt[s].p_flag THEN 1 ELSE 0
        BY <1>4, <3>1 DEF Held, Count
      <3>4. m1 = IF e = d /\ ~b THEN 1 ELSE 0
        <4>1. r1[s].current_domain_id = e
          BY <1>4, <2>6 DEF SameStacks
        <4> QED
          BY <1>4, <2>6, <3>1, <4>1 DEF Held, Count
      <3>5. q.value[d] + h - a = Units + drift[d]
        BY <3>1 DEF IInv, Balanced
      <3>6. q.value[d] \in Int /\ Units \in Int /\ drift[d] \in Int /\ a \in Nat
        BY <3>1, Types, Finite
      <3>7. m1 - m = 0 - IF gives /\ d = e THEN 1 ELSE 0
        <4>1. rt[s].p_flag \in BOOLEAN
          BY <1>4, <1>5, RtFields
        <4>2. (gives <=> giveup /\ ~rt[s].p_flag) /\ (b <=> rt[s].p_flag \/ giveup)
          BY <2>1, Zenon
        <4>3. CASE rt[s].p_flag
          <5>1. ~gives /\ b
            BY <4>2, <4>3, Zenon
          <5> QED
            BY <3>3, <3>4, <4>3, <5>1
        <4>4. CASE ~rt[s].p_flag /\ giveup
          <5>1. gives /\ b
            BY <4>2, <4>4, Zenon
          <5> QED
            BY <3>3, <3>4, <4>4, <5>1
        <4>5. CASE ~rt[s].p_flag /\ ~giveup
          <5>1. ~gives /\ ~b
            BY <4>2, <4>5, Zenon
          <5> QED
            BY <3>3, <3>4, <4>5, <5>1
        <4> QED
          BY <4>3, <4>4, <4>5, Zenon
      <3>8. Z.value[d] + h1 - a = Units + drift[d]
        <4>1. PICK g : g = IF gives /\ d = e THEN 1 ELSE 0
          OBVIOUS
        <4>2. g \in Int /\ m1 \in Int /\ m \in Int /\ m1 - m = 0 - g
          BY <3>3, <3>4, <3>7, <4>1
        <4>3. Z.value[d] = q.value[d] + g
          BY <2>4, <4>1
        <4> QED
          BY <3>2, <3>5, <3>6, <4>2, <4>3
      <3> QED
        BY <2>7, <3>1, <3>8
    <2> QED
      BY <1>1, <1>2, <1>3, <1>6, <2>3, <2>6, <2>8, LightKeeps, Types DEF IInv, Typed, TypeOK
  <1> QED
    BY <1>2, <1>8, <1>9 DEF SemaphoreOperation

LEMMA MandatoryExitKeeps ==
  ASSUME IInv, NEW t \in Thread, MandatoryExit(t)
  PROVE  IInv'
  <1>1. /\ Created(t) /\ function[t] = "call" /\ function' = [function EXCEPT ![t] = "none"]
        /\ incarnation' = incarnation /\ UNCHANGED <<stacks, home, counters>>
    BY DEF MandatoryExit, Runs, Done
  <1>2. PICK u \in Thread : \E n \in 1..Len(chain[u]) :
          /\ q' = VThread(q, u)
          /\ rt' = [s \in Stack |-> [rt[s] EXCEPT !.time_out = @ \/ s \in Gone(u, n)]]
          /\ drift' = IF q.sleep[u] \in Domain THEN Plus(drift, q.sleep[u], 1) ELSE drift
    BY DEF MandatoryExit
  <1>3. PICK n \in 1..Len(chain[u]) :
          /\ q' = VThread(q, u)
          /\ rt' = [s \in Stack |-> [rt[s] EXCEPT !.time_out = @ \/ s \in Gone(u, n)]]
          /\ drift' = IF q.sleep[u] \in Domain THEN Plus(drift, q.sleep[u], 1) ELSE drift
    BY <1>2
  <1>4. PICK f1, Z, r1, G, w : f1 = function' /\ Z = q' /\ r1 = rt' /\ G = Gone(u, n) /\ w = q.sleep[u]
    OBVIOUS
  <1>5. /\ f1 \in [Thread -> {"none", "call", "monitor", "exit"}]
        /\ f1[t] = "none" /\ \A x \in Thread : x # t => f1[x] = function[x]
    BY <1>1, <1>4, Types
  <1>6. Settled(q) /\ q.value \in [Semaphore -> Int] /\ rt \in [Stack -> Rt]
    BY Types DEF IInv
  <1>7. \A x \in Thread : f1[x] # "none" => Created(x)
    BY <1>1, <1>5 DEF IInv, Occupied, Created
  <1>8. /\ r1 \in [Stack -> Rt] /\ SameStacks(Stack, rt, r1)
        /\ \A s \in Stack : r1[s].p_flag = rt[s].p_flag
    <2>1. PICK b : b = [s \in Stack |-> rt[s].time_out \/ s \in G]
      OBVIOUS
    <2>2. b \in [Stack -> BOOLEAN]
      BY <1>6, <2>1, RtFields
    <2>3. r1 = WithTimeOuts(rt, b)
      <3>1. \A s \in Stack : rt[s] \in Rt
        BY <1>6
      <3>2. \A s \in Stack : [rt[s] EXCEPT !.time_out = @ \/ s \in G] = [rt[s] EXCEPT !.time_out = b[s]]
        BY <2>1, <3>1 DEF Rt
      <3> QED
        BY <1>3, <1>4, <3>2 DEF WithTimeOuts
    <2> QED
      BY <1>6, <2>2, <2>3, TimeOutsSet
  <1>9. \A d : Asking(f1, chain, r1, d) = Asking(function, chain, rt, d)
    <2>1. function[t] # "monitor" /\ f1[t] # "monitor"
      BY <1>1, <1>5
    <2> QED
      BY <1>5, <1>8, <2>1, NotAsking
  <1>10. \A d : Held(InUse(chain), r1, d) = Held(InUse(chain), rt, d)
    <2>1. InUse(chain) \subseteq Stack
      BY Types, Finite
    <2> QED
      BY <1>8, <2>1 DEF Held, SameStacks
  <1>11. /\ Settled(Z)
         /\ \A x \in Semaphore : Z.value[x] = q.value[x] + IF x = w THEN 1 ELSE 0
    <2>1. CASE Awake(q, u)
      <3>1. Z = q /\ w = None
        BY <1>3, <1>4, <2>1 DEF VThread, Awake
      <3> QED
        BY <1>6, <3>1, Types
    <2>2. CASE ~Awake(q, u)
      <3>1. w \in Semaphore
        <4>1. q.sleep[u] \in Semaphore \cup {None}
          BY <1>6, SettledTypes
        <4> QED
          BY <1>4, <2>2, <4>1 DEF Awake
      <3>2. Z = VThread(q, u)
        BY <1>3, <1>4
      <3>3. /\ Settled(Z)
            /\ q.value[w] < 0
            /\ Z.value = [q.value EXCEPT ![w] = q.value[w] + 1]
            /\ Z.sleep = [q.sleep EXCEPT ![u] = None]
        <4>1. w = q.sleep[u]
          BY <1>4
        <4>2. Settled(q) /\ u \in Thread
          BY <1>2, <1>6
        <4> QED
          BY <2>2, <3>1, <3>2, <4>1, <4>2, VThreadOne
      <3> QED
        BY <1>6, <3>1, <3>3
    <2> QED
      BY <2>1, <2>2
  <1>12. /\ drift' \in [Domain -> Int]
         /\ \A d \in Domain : drift'[d] = drift[d] + IF d = w THEN 1 ELSE 0
    <2>1. drift \in [Domain -> Int]
      BY Types
    <2> QED
      BY <1>3, <1>4, <2>1 DEF Plus
  <1>13. Balanced(Z.value, InUse(chain), r1, f1, chain, drift')
    <2> SUFFICES ASSUME NEW d \in Domain
                 PROVE  Z.value[d] + Cardinality(Held(InUse(chain), r1, d))
                          - Cardinality(Asking(f1, chain, r1, d)) = Units + drift'[d]
      BY DEF Balanced
    <2>1. PICK h, a, k : /\ h = Cardinality(Held(InUse(chain), rt, d))
                         /\ a = Cardinality(Asking(function, chain, rt, d))
                         /\ k = IF d = w THEN 1 ELSE 0
      OBVIOUS
    <2>2. h \in Nat /\ a \in Nat /\ k \in Int
      <3>1. h \in Nat /\ a \in Nat
        BY <2>1, Types, Finite
      <3>2. k \in Int
        BY <2>1
      <3> QED
        BY <3>1, <3>2
    <2>3. q.value[d] + h - a = Units + drift[d]
      BY <2>1 DEF IInv, Balanced
    <2>4. d \in Semaphore /\ q.value[d] \in Int /\ Units \in Int /\ drift[d] \in Int
      BY Types
    <2>5. Z.value[d] = q.value[d] + k /\ drift'[d] = drift[d] + k
      BY <1>11, <1>12, <2>1, <2>4
    <2>6. /\ Cardinality(Held(InUse(chain), r1, d)) = h
          /\ Cardinality(Asking(f1, chain, r1, d)) = a
      BY <1>9, <1>10, <2>1
    <2>7. Z.value[d] + h - a = Units + drift'[d]
      <3>1. PICK v \in Int, r \in Int : v = q.value[d] /\ r = drift[d]
        BY <2>4
      <3>2. Z.value[d] = v + k /\ drift'[d] = r + k /\ v + h - a = Units + r
        BY <2>3, <2>5, <3>1
      <3>3. h \in Nat /\ a \in Nat /\ k \in Int /\ Units \in Int /\ v \in Int /\ r \in Int
        BY <2>2, <2>4, <3>1
      <3>4. (v + k) + h - a = Units + (r + k)
        BY <3>2, <3>3
      <3> QED
        BY <3>2, <3>4
    <2> QED
      BY <2>6, <2>7
  <1> QED
    BY <1>1, <1>4, <1>5, <1>7, <1>8, <1>11, <1>12, <1>13, LightKeeps DEF IInv, Typed, TypeOK

LEMMA TimeOutKeeps ==
  ASSUME IInv, NEW s \in Stack, TimeOut(s)
  PROVE  IInv'
  <1>1. /\ function' = function /\ drift' = drift /\ incarnation' = incarnation
        /\ rt' = [rt EXCEPT ![s].time_out = TRUE]
        /\ UNCHANGED <<stacks, home, counters>>
    BY DEF TimeOut
  <1>2. PICK Z, r1, c : Z = q' /\ r1 = rt' /\ c = TRUE
    OBVIOUS
  <1>3. Settled(q) /\ q.value \in [Semaphore -> Int] /\ rt \in [Stack -> Rt]
    BY Types DEF IInv
  <1>4. /\ r1 \in [Stack -> Rt] /\ SameStacks(Stack, rt, r1)
        /\ \A x \in Stack : r1[x].p_flag = rt[x].p_flag
    <2>1. r1 = WithTimeOut(rt, s, c) /\ c \in BOOLEAN
      BY <1>1, <1>2 DEF WithTimeOut
    <2> QED
      BY <1>3, <2>1, TimeOutSet
  <1>5. \A d : Asking(function, chain, r1, d) = Asking(function, chain, rt, d)
    <2>1. \A u \in Thread : function[u] = "monitor" => chain[u][1] \in Stack
      BY Asker
    <2> QED
      BY <1>4, <2>1 DEF Asking, SameStacks
  <1>6. \A d : Held(InUse(chain), r1, d) = Held(InUse(chain), rt, d)
    <2>1. InUse(chain) \subseteq Stack
      BY Types, Finite
    <2> QED
      BY <1>4, <2>1 DEF Held, SameStacks
  <1>7. Settled(Z) /\ \A d \in Domain : Z.value[d] = q.value[d]
    <2>1. CASE UNCHANGED q
      BY <1>2, <1>3, <2>1
    <2>2. CASE ~UNCHANGED q
      <3>1. PICK t : t = rt[s].current_thread_id
        OBVIOUS
      <3>2. t # None /\ q.sleep[t] = Other /\ Z = VThread(q, t)
        BY <1>2, <2>2, <3>1 DEF TimeOut
      <3>3. t \in Thread
        BY <1>3, <3>1, <3>2, RtFields
      <3>4. PICK w : w = Other
        OBVIOUS
      <3>5. w \in Semaphore /\ w = q.sleep[t] /\ ~Awake(q, t)
        BY <3>2, <3>4, Types DEF Awake
      <3>6. /\ Settled(Z)
            /\ q.value[w] < 0
            /\ Z.value = [q.value EXCEPT ![w] = q.value[w] + 1]
            /\ Z.sleep = [q.sleep EXCEPT ![t] = None]
        BY <1>3, <3>2, <3>3, <3>5, VThreadOne
      <3>7. \A d \in Domain : d \in Semaphore /\ d # w
        BY <3>4, Types
      <3> QED
        BY <1>3, <3>6, <3>7
    <2> QED
      BY <2>1, <2>2
  <1>8. Balanced(Z.value, InUse(chain), r1, function, chain, drift)
    BY <1>5, <1>6, <1>7 DEF IInv, Balanced
  <1>9. \A u \in Thread : function[u] # "none" => Created(u)
    BY DEF IInv, Occupied, Created
  <1> QED
    BY <1>1, <1>2, <1>4, <1>7, <1>8, <1>9, LightKeeps, Types DEF IInv, Typed, TypeOK
-----------------------------------------------------------------------------
(* Only one stack is entered, left, taken or given back.                   *)
LEMMA InsideOne ==
  ASSUME IInv, NEW s, NEW U1, NEW r1, NEW d,
         \A x : x # s => (x \in U1 <=> x \in InUse(chain)),
         \A x \in InUse(chain) : x # s => r1[x].current_domain_id = rt[x].current_domain_id
  PROVE  /\ Cardinality(Inside(U1, r1, d)) \in Nat
         /\ Cardinality(Inside(InUse(chain), rt, d)) \in Nat
         /\ Cardinality(Inside(U1, r1, d)) =
              Cardinality(Inside(InUse(chain), rt, d))
                + Count(s \in Inside(U1, r1, d)) - Count(s \in Inside(InUse(chain), rt, d))
  <1>1. PICK S, T : S = Inside(InUse(chain), rt, d) /\ T = Inside(U1, r1, d)
    OBVIOUS
  <1>2. IsFiniteSet(S)
    BY <1>1, Types, Finite
  <1>3. \A y : y # s => (y \in T <=> y \in S)
    BY <1>1 DEF Inside
  <1>4. /\ Cardinality(S) \in Nat /\ Cardinality(T) \in Nat
        /\ Cardinality(T) = Cardinality(S) + Count(s \in T) - Count(s \in S)
    BY <1>2, <1>3, OneDiffers, Zenon
  <1> QED
    BY <1>1, <1>4, Zenon

LEMMA ChargedOne ==
  ASSUME IInv, NEW s, NEW U1, NEW r1, NEW d,
         \A x : x # s => (x \in U1 <=> x \in InUse(chain)),
         \A x \in InUse(chain) : x # s => r1[x].release_domain_id = rt[x].release_domain_id
  PROVE  /\ Cardinality(Charged(U1, r1, d)) \in Nat
         /\ Cardinality(Charged(InUse(chain), rt, d)) \in Nat
         /\ Cardinality(Charged(U1, r1, d)) =
              Cardinality(Charged(InUse(chain), rt, d))
                + Count(s \in Charged(U1, r1, d)) - Count(s \in Charged(InUse(chain), rt, d))
  <1>1. PICK S, T : S = Charged(InUse(chain), rt, d) /\ T = Charged(U1, r1, d)
    OBVIOUS
  <1>2. IsFiniteSet(S)
    BY <1>1, Types, Finite
  <1>3. \A y : y # s => (y \in T <=> y \in S)
    BY <1>1 DEF Charged
  <1>4. /\ Cardinality(S) \in Nat /\ Cardinality(T) \in Nat
        /\ Cardinality(T) = Cardinality(S) + Count(s \in T) - Count(s \in S)
    BY <1>2, <1>3, OneDiffers, Zenon
  <1> QED
    BY <1>1, <1>4, Zenon

(* One that leaves one domain for another.                                 *)
Shifted(f, d, to) == Plus(Plus(f, d, -1), to, 1)

LEMMA Moved ==
  ASSUME NEW f \in [Domain -> Int], NEW d \in Domain, NEW to \in Domain,
         NEW g, g = Shifted(f, d, to)
  PROVE  /\ g \in [Domain -> Int]
         /\ \A e \in Domain :
              g[e] = f[e] - (IF e = d THEN 1 ELSE 0) + (IF e = to THEN 1 ELSE 0)
  <1>1. PICK m : m = Plus(f, d, -1)
    OBVIOUS
  <1>2. m \in [Domain -> Int] /\ \A e \in Domain : m[e] = f[e] - IF e = d THEN 1 ELSE 0
    BY <1>1 DEF Plus
  <1>3. g = Plus(m, to, 1)
    BY <1>1 DEF Shifted
  <1>4. g \in [Domain -> Int] /\ \A e \in Domain : g[e] = m[e] + IF e = to THEN 1 ELSE 0
    BY <1>2, <1>3 DEF Plus
  <1> QED
    BY <1>2, <1>4

LEMMA JumpKeeps ==
  ASSUME IInv, NEW t \in Thread, Runs(t, "call"), ThreadJump(t), Done(t)
  PROVE  IInv'
  <1>1. /\ Created(t) /\ function[t] = "call" /\ function' = [function EXCEPT ![t] = "none"]
        /\ q' = q /\ chain' = chain /\ free' = free /\ home' = home /\ incarnation' = incarnation
        /\ thread_number' = thread_number /\ return_stack_number' = return_stack_number
        /\ max_return_stack_number' = max_return_stack_number /\ grown' = grown
    BY DEF Runs, Done, ThreadJump, stacks
  <1>2. PICK f1, s, d, r1 : f1 = function' /\ s = Top(t) /\ d = DomainOf(t) /\ r1 = rt'
    OBVIOUS
  <1>3. PICK to \in Domain :
          /\ r1 = [rt EXCEPT ![s] = [@ EXCEPT
                    !.current_thread_id = t, !.current_domain_id = to,
                    !.domain_id = incarnation[to], !.time_out = FALSE]]
          /\ enter_thread_number' = Entered(d, to)
          /\ drift' = IF rt[s].p_flag THEN drift ELSE Plus(Plus(drift, d, -1), to, 1)
    BY <1>2 DEF ThreadJump
  <1>4. /\ s \in Stack /\ s \in Members(chain[t]) /\ s \in InUse(chain) /\ d \in Domain
        /\ rt[s].current_domain_id = d /\ \A u \in Thread : u # t => s \notin Members(chain[u])
    BY <1>1, <1>2, TopOf DEF DomainOf
  <1>5. /\ f1 \in [Thread -> {"none", "call", "monitor", "exit"}]
        /\ f1[t] = "none" /\ \A u \in Thread : u # t => f1[u] = function[u]
    BY <1>1, <1>2, Types
  <1>6. /\ r1 \in [Stack -> Rt] /\ \A x \in Stack : x # s => r1[x] = rt[x]
        /\ r1[s].current_thread_id = t /\ r1[s].current_domain_id = to
        /\ r1[s].release_domain_id = rt[s].release_domain_id /\ r1[s].p_flag = rt[s].p_flag
    <2>1. rt \in [Stack -> Rt]
      BY Types
    <2>2. PICK y : y = [rt[s] EXCEPT !.current_thread_id = t, !.current_domain_id = to,
                                     !.domain_id = incarnation[to], !.time_out = FALSE]
      OBVIOUS
    <2>3. /\ r1[s] = y /\ DOMAIN r1 = Stack /\ r1 = [x \in Stack |-> r1[x]]
          /\ \A x \in Stack : x # s => r1[x] = rt[x]
      BY <1>3, <1>4, <2>1, <2>2
    <2>4. PICK Ids : Ids = (UNION {Incarnation[e] : e \in Domain}) \cup {None}
      OBVIOUS
    <2>5. incarnation[to] \in Ids
      BY <1>3, <2>4 DEF IInv, Typed, TypeOK
    <2>6. rt[s] \in Rt
      BY <1>4, <2>1
    <2>7. /\ y \in Rt /\ y.current_thread_id = t /\ y.current_domain_id = to
          /\ y.release_domain_id = rt[s].release_domain_id /\ y.p_flag = rt[s].p_flag
      BY <1>3, <2>2, <2>4, <2>5, <2>6 DEF Rt
    <2>8. \A x \in Stack : r1[x] \in Rt
      BY <2>1, <2>3, <2>7
    <2>9. r1 \in [Stack -> Rt]
      BY <2>3, <2>8, Zenon
    <2> QED
      BY <2>3, <2>7, <2>9
  <1>7. InUse(chain) \subseteq Stack
    BY Types, Finite
  <1>8. /\ enter_thread_number' \in [Domain -> Int]
        /\ \A e \in Domain : enter_thread_number'[e] =
             enter_thread_number[e] - (IF e = d THEN 1 ELSE 0) + (IF e = to THEN 1 ELSE 0)
    <2>1. enter_thread_number' = Plus(Plus(enter_thread_number, d, -1), to, 1)
      BY <1>3 DEF Entered
    <2>2. PICK g : g = enter_thread_number'
      OBVIOUS
    <2>3. /\ g \in [Domain -> Int]
          /\ \A e \in Domain : g[e] =
               enter_thread_number[e] - (IF e = d THEN 1 ELSE 0) + (IF e = to THEN 1 ELSE 0)
      <3>1. enter_thread_number \in [Domain -> Int] /\ d \in Domain /\ to \in Domain
        BY <1>3, <1>4, Types
      <3>2. g = Shifted(enter_thread_number, d, to)
        BY <2>1, <2>2 DEF Shifted
      <3> QED
        BY <3>1, <3>2, Moved
    <2> QED
      BY <2>2, <2>3
  <1>9. /\ drift' \in [Domain -> Int]
        /\ \A e \in Domain : drift'[e] =
             IF rt[s].p_flag THEN drift[e]
             ELSE drift[e] - (IF e = d THEN 1 ELSE 0) + (IF e = to THEN 1 ELSE 0)
    <2>1. CASE rt[s].p_flag
      BY <1>3, <2>1, Types
    <2>2. CASE ~rt[s].p_flag
      <3>1. PICK g : g = drift'
        OBVIOUS
      <3>2. g = Shifted(drift, d, to)
        BY <1>3, <2>2, <3>1 DEF Shifted
      <3>3. /\ g \in [Domain -> Int]
            /\ \A e \in Domain :
                 g[e] = drift[e] - (IF e = d THEN 1 ELSE 0) + (IF e = to THEN 1 ELSE 0)
        <4>1. drift \in [Domain -> Int] /\ d \in Domain /\ to \in Domain
          BY <1>3, <1>4, Types
        <4> QED
          BY <3>2, <4>1, Moved
      <3> QED
        BY <2>2, <3>1, <3>3
    <2> QED
      BY <2>1, <2>2
  <1>10. \A x : x # s => (x \in InUse(chain) <=> x \in InUse(chain))
    OBVIOUS
  <1>11. Known(chain, r1)
    <2>1. \A u \in Thread : Members(chain[u]) \subseteq InUse(chain)
      BY User
    <2> QED
      BY <1>4, <1>6, <1>7, <2>1 DEF IInv, Known
  <1>12. Entries(enter_thread_number', InUse(chain), r1)
    <2> SUFFICES ASSUME NEW e \in Domain
                 PROVE  enter_thread_number'[e] = Cardinality(Inside(InUse(chain), r1, e))
      BY DEF Entries
    <2>1. PICK n, n1, k, k1 :
            /\ n = Cardinality(Inside(InUse(chain), rt, e)) /\ n1 = Cardinality(Inside(InUse(chain), r1, e))
            /\ k = Count(s \in Inside(InUse(chain), rt, e)) /\ k1 = Count(s \in Inside(InUse(chain), r1, e))
      OBVIOUS
    <2>2. n \in Nat /\ n1 \in Nat /\ n1 = n + k1 - k
      <3>1. \A x \in InUse(chain) : x # s => r1[x].current_domain_id = rt[x].current_domain_id
        BY <1>6, <1>7
      <3>2. /\ Cardinality(Inside(InUse(chain), r1, e)) \in Nat
            /\ Cardinality(Inside(InUse(chain), rt, e)) \in Nat
            /\ Cardinality(Inside(InUse(chain), r1, e)) =
                 Cardinality(Inside(InUse(chain), rt, e))
                   + Count(s \in Inside(InUse(chain), r1, e)) - Count(s \in Inside(InUse(chain), rt, e))
        BY <1>10, <3>1, InsideOne, Zenon
      <3> QED
        BY <2>1, <3>2, Zenon
    <2>3. k = (IF e = d THEN 1 ELSE 0) /\ k1 = (IF e = to THEN 1 ELSE 0)
      BY <1>4, <1>6, <2>1 DEF Inside, Count
    <2>4. enter_thread_number[e] = n
      BY <2>1 DEF IInv, Entries
    <2> QED
      BY <1>8, <2>1, <2>2, <2>3, <2>4
  <1>13. Charges(return_stack_number, grown, max_return_stack_number, InUse(chain), r1)
    <2>1. \A e : Charged(InUse(chain), r1, e) = Charged(InUse(chain), rt, e)
      BY <1>6, <1>7 DEF Charged
    <2> QED
      BY <2>1 DEF IInv, Charges
  <1>14. \A e : Asking(f1, chain, r1, e) = Asking(function, chain, rt, e)
    <2>1. \A u \in Thread : f1[u] = "monitor" <=> function[u] = "monitor"
      BY <1>1, <1>5
    <2>2. \A u \in Thread : function[u] = "monitor" =>
            r1[chain[u][1]].current_domain_id = rt[chain[u][1]].current_domain_id
      <3> SUFFICES ASSUME NEW u \in Thread, function[u] = "monitor"
                   PROVE  r1[chain[u][1]].current_domain_id = rt[chain[u][1]].current_domain_id
        OBVIOUS
      <3>1. u # t /\ chain[u][1] \in Members(chain[u]) /\ chain[u][1] \in Stack
        BY <1>1, Asker
      <3>2. chain[u][1] # s
        BY <1>4, <3>1
      <3> QED
        BY <1>6, <3>1, <3>2
    <2> QED
      BY <2>1, <2>2 DEF Asking
  <1>15. Balanced(q.value, InUse(chain), r1, f1, chain, drift')
    <2> SUFFICES ASSUME NEW e \in Domain
                 PROVE  q.value[e] + Cardinality(Held(InUse(chain), r1, e))
                          - Cardinality(Asking(f1, chain, r1, e)) = Units + drift'[e]
      BY DEF Balanced
    <2>1. PICK h, h1, a, k, k1 :
            /\ h = Cardinality(Held(InUse(chain), rt, e)) /\ h1 = Cardinality(Held(InUse(chain), r1, e))
            /\ a = Cardinality(Asking(function, chain, rt, e))
            /\ k = Count(s \in Held(InUse(chain), rt, e)) /\ k1 = Count(s \in Held(InUse(chain), r1, e))
      OBVIOUS
    <2>2. h \in Nat /\ h1 \in Nat /\ h1 = h + k1 - k
      <3>1. \A x \in InUse(chain) : x # s => /\ r1[x].current_domain_id = rt[x].current_domain_id
                                             /\ r1[x].p_flag = rt[x].p_flag
        BY <1>6, <1>7
      <3>2. /\ Cardinality(Held(InUse(chain), r1, e)) \in Nat
            /\ Cardinality(Held(InUse(chain), rt, e)) \in Nat
            /\ Cardinality(Held(InUse(chain), r1, e)) =
                 Cardinality(Held(InUse(chain), rt, e))
                   + Count(s \in Held(InUse(chain), r1, e)) - Count(s \in Held(InUse(chain), rt, e))
        BY <1>10, <3>1, HeldOne, Zenon
      <3> QED
        BY <2>1, <3>2, Zenon
    <2>3. /\ k = (IF e = d /\ ~rt[s].p_flag THEN 1 ELSE 0)
          /\ k1 = (IF e = to /\ ~rt[s].p_flag THEN 1 ELSE 0)
      BY <1>4, <1>6, <2>1 DEF Held, Count
    <2>4. q.value[e] + h - a = Units + drift[e]
      BY <2>1 DEF IInv, Balanced
    <2>5. /\ q.value[e] \in Int /\ Units \in Int /\ drift[e] \in Int
      BY Types
    <2>6. a \in Nat
      BY <2>1, Types, Finite
    <2>7. q.value[e] + h1 - a = Units + drift'[e]
      <3>1. CASE rt[s].p_flag
        BY <1>9, <2>2, <2>3, <2>4, <2>5, <2>6, <3>1
      <3>2. CASE ~rt[s].p_flag
        BY <1>9, <2>2, <2>3, <2>4, <2>5, <2>6, <3>2
      <3> QED
        BY <3>1, <3>2
    <2> QED
      BY <1>14, <2>1, <2>7
  <1>16. Occupied(chain, f1)
    BY <1>1, <1>5 DEF IInv, Occupied, Created
  <1>17. TypeOK'
    BY <1>1, <1>2, <1>5, <1>6, <1>8, <1>9 DEF IInv, Typed, TypeOK
  <1>18. Typed'
    BY <1>1, <1>17 DEF IInv, Typed
  <1> QED
    BY <1>1, <1>2, <1>11, <1>12, <1>13, <1>15, <1>16, <1>18 DEF IInv
-----------------------------------------------------------------------------
FunctionKept ==
  /\ function' \in [Thread -> {"none", "call", "monitor", "exit"}]
  /\ \A w \in Thread : function'[w] = "monitor" <=> function[w] = "monitor"
  /\ \A w \in Thread : function'[w] # "none" => function[w] # "none"

(* A thread begins, on a stack of its own.                                 *)
LEMMA NewThreadKeeps ==
  ASSUME IInv, NEW d \in Domain, NEW to \in Domain, NewThread(d, to), FunctionKept
  PROVE  IInv'
  <1>1. /\ free # <<>> /\ thread_number[d] < MaxThread[d] /\ free' = Tail(free)
        /\ q' = q /\ incarnation' = incarnation /\ drift' = drift /\ grown' = grown
        /\ max_return_stack_number' = max_return_stack_number
        /\ thread_number' = Plus(thread_number, d, 1)
        /\ return_stack_number' = Plus(return_stack_number, d, 1)
        /\ enter_thread_number' = Plus(enter_thread_number, to, 1)
    BY DEF NewThread
  <1>2. PICK u \in Thread : /\ ~Created(u)
                            /\ chain' = [chain EXCEPT ![u] = <<free[1]>>]
                            /\ rt' = [rt EXCEPT ![free[1]] = NewStack(u, to, d)]
                            /\ home' = [home EXCEPT ![u] = d]
    BY DEF NewThread
  <1>3. PICK x, g, new, r1, f1 : /\ x = free[1] /\ g = free' /\ new = chain' /\ r1 = rt'
                                 /\ f1 = function'
    OBVIOUS
  <1>4. u \in Thread /\ chain[u] = <<>>
    BY <1>2 DEF Created
  <1>5. /\ new \in [Thread -> Seq(Stack)] /\ g \in Seq(Stack)
        /\ Tidy(new, g)
        /\ x \in Stack /\ x \notin InUse(chain) /\ InUse(new) = InUse(chain) \cup {x}
        /\ new[u][1] = x /\ new[u] # <<>>
        /\ Members(new[u]) = Members(chain[u]) \cup {x}
        /\ \A w \in Thread : w # u => new[w] = chain[w]
    <2>1. chain \in [Thread -> Seq(Stack)] /\ free \in Seq(Stack) /\ Tidy(chain, free)
      BY Types DEF IInv
    <2>2. <<x>> \o chain[u] = <<x>>
      <3>1. x \in Stack
        BY <1>1, <1>3, <2>1, MembersOf
      <3>2. <<x>> \in Seq(Stack)
        BY <3>1
      <3> QED
        BY <1>4, <3>2, ConcatEmptySeq
    <2>3. new = OnTop(chain, u, x)
      BY <1>2, <1>3, <2>2, Zenon DEF OnTop
    <2>4. g = Tail(free) /\ x = free[1] /\ free # <<>>
      BY <1>1, <1>3
    <2>5. IsTaken(chain, u, x, new, g)
      BY <1>4, <2>1, <2>3, <2>4, Taken
    <2> QED
      BY <2>5 DEF IsTaken
  <1>6. Members(new[u]) = {x}
    <2>1. Members(<<>>) = {}
      BY EmptySeq DEF Members
    <2> QED
      BY <1>4, <1>5, <2>1
  <1>7. InUse(chain) \subseteq Stack /\ rt \in [Stack -> Rt]
    BY Types, Finite
  <1>8. /\ r1 \in [Stack -> Rt] /\ \A y \in Stack : y # x => r1[y] = rt[y]
        /\ r1[x].current_thread_id = u /\ r1[x].current_domain_id = to
        /\ r1[x].release_domain_id = d /\ r1[x].p_flag = TRUE
    <2>1. PICK y : y = NewStack(u, to, d)
      OBVIOUS
    <2>2. PICK Ids : Ids = (UNION {Incarnation[e] : e \in Domain}) \cup {None}
      OBVIOUS
    <2>3. incarnation[to] \in Ids
      BY <2>2 DEF IInv, Typed, TypeOK
    <2>4. y \in Rt /\ y.current_thread_id = u /\ y.current_domain_id = to
          /\ y.release_domain_id = d /\ y.p_flag = TRUE
      BY <1>4, <2>1, <2>2, <2>3 DEF NewStack, Rt
    <2>5. r1 = [rt EXCEPT ![x] = y]
      BY <1>2, <1>3, <2>1
    <2> QED
      BY <1>5, <1>7, <2>4, <2>5
  <1>9. /\ thread_number' \in [Domain -> Int] /\ return_stack_number' \in [Domain -> Int]
        /\ enter_thread_number' \in [Domain -> Int]
        /\ \A e \in Domain :
             /\ thread_number'[e] = thread_number[e] + IF e = d THEN 1 ELSE 0
             /\ return_stack_number'[e] = return_stack_number[e] + IF e = d THEN 1 ELSE 0
             /\ enter_thread_number'[e] = enter_thread_number[e] + IF e = to THEN 1 ELSE 0
    <2>1. PICK tn, rn, en, one : /\ tn = thread_number' /\ rn = return_stack_number'
                                 /\ en = enter_thread_number' /\ one = 1
      OBVIOUS
    <2>2. /\ tn = Plus(thread_number, d, one) /\ rn = Plus(return_stack_number, d, one)
          /\ en = Plus(enter_thread_number, to, one) /\ one \in Int
      BY <1>1, <2>1
    <2>3. /\ thread_number \in [Domain -> Int] /\ return_stack_number \in [Domain -> Int]
          /\ enter_thread_number \in [Domain -> Int]
      BY Types
    <2>4. tn \in [Domain -> Int] /\ \A e \in Domain : tn[e] = thread_number[e] + IF e = d THEN one ELSE 0
      BY <2>2, <2>3 DEF Plus
    <2>5. rn \in [Domain -> Int] /\ \A e \in Domain : rn[e] = return_stack_number[e] + IF e = d THEN one ELSE 0
      BY <2>2, <2>3 DEF Plus
    <2>6. en \in [Domain -> Int] /\ \A e \in Domain : en[e] = enter_thread_number[e] + IF e = to THEN one ELSE 0
      BY <2>2, <2>3 DEF Plus
    <2> QED
      BY <2>1, <2>4, <2>5, <2>6
  <1>10. /\ home' \in [Thread -> Domain \cup {None}] /\ home'[u] = d
         /\ \A w \in Thread : w # u => home'[w] = home[w]
    BY <1>2, <1>4, Types
  <1>11. Known(new, r1)
    <2> SUFFICES ASSUME NEW w \in Thread, NEW y \in Members(new[w])
                 PROVE  r1[y].current_thread_id = w \/ (r1[y].current_thread_id = None /\ y = BootStack)
      BY DEF Known
    <2>1. CASE w = u
      BY <1>6, <1>8, <2>1
    <2>2. CASE w # u
      <3>1. y \in Members(chain[w]) /\ y \in InUse(chain)
        BY <1>5, <2>2, User
      <3>2. r1[y] = rt[y]
        BY <1>5, <1>7, <1>8, <3>1
      <3> QED
        BY <3>1, <3>2 DEF IInv, Known
    <2> QED
      BY <2>1, <2>2
  <1>12. Homed(new, home')
    <2>1. None \notin Domain
      BY Types
    <2> QED
      BY <1>5, <1>10, <2>1 DEF IInv, Homed
  <1>13. Occupied(new, f1)
    BY <1>3, <1>4, <1>5 DEF IInv, Occupied, FunctionKept
  <1>14. \A y : y # x => (y \in InUse(new) <=> y \in InUse(chain))
    BY <1>5
  <1>15. Entries(enter_thread_number', InUse(new), r1)
    <2> SUFFICES ASSUME NEW e \in Domain
                 PROVE  enter_thread_number'[e] = Cardinality(Inside(InUse(new), r1, e))
      BY DEF Entries
    <2>1. PICK n, n1, k, k1 :
            /\ n = Cardinality(Inside(InUse(chain), rt, e)) /\ n1 = Cardinality(Inside(InUse(new), r1, e))
            /\ k = Count(x \in Inside(InUse(chain), rt, e)) /\ k1 = Count(x \in Inside(InUse(new), r1, e))
      OBVIOUS
    <2>2. n \in Nat /\ n1 \in Nat /\ n1 = n + k1 - k
      <3>1. \A y \in InUse(chain) : y # x => r1[y].current_domain_id = rt[y].current_domain_id
        BY <1>7, <1>8
      <3>2. /\ Cardinality(Inside(InUse(new), r1, e)) \in Nat
            /\ Cardinality(Inside(InUse(chain), rt, e)) \in Nat
            /\ Cardinality(Inside(InUse(new), r1, e)) =
                 Cardinality(Inside(InUse(chain), rt, e))
                   + Count(x \in Inside(InUse(new), r1, e)) - Count(x \in Inside(InUse(chain), rt, e))
        BY <1>14, <3>1, InsideOne, Zenon
      <3> QED
        BY <2>1, <3>2, Zenon
    <2>3. k = 0 /\ k1 = (IF e = to THEN 1 ELSE 0)
      BY <1>5, <1>8, <2>1 DEF Inside, Count
    <2>4. enter_thread_number[e] = n
      BY <2>1 DEF IInv, Entries
    <2> QED
      BY <1>9, <2>1, <2>2, <2>3, <2>4
  <1>16. Charges(return_stack_number', grown, max_return_stack_number, InUse(new), r1)
    <2> SUFFICES ASSUME NEW e \in Domain
                 PROVE  /\ return_stack_number'[e] + grown[e] = Cardinality(Charged(InUse(new), r1, e))
                        /\ max_return_stack_number[e] = MaxStack[e] + grown[e]
      BY DEF Charges
    <2>1. PICK n, n1, k, k1 :
            /\ n = Cardinality(Charged(InUse(chain), rt, e)) /\ n1 = Cardinality(Charged(InUse(new), r1, e))
            /\ k = Count(x \in Charged(InUse(chain), rt, e)) /\ k1 = Count(x \in Charged(InUse(new), r1, e))
      OBVIOUS
    <2>2. n \in Nat /\ n1 \in Nat /\ n1 = n + k1 - k
      <3>1. \A y \in InUse(chain) : y # x => r1[y].release_domain_id = rt[y].release_domain_id
        BY <1>7, <1>8
      <3>2. /\ Cardinality(Charged(InUse(new), r1, e)) \in Nat
            /\ Cardinality(Charged(InUse(chain), rt, e)) \in Nat
            /\ Cardinality(Charged(InUse(new), r1, e)) =
                 Cardinality(Charged(InUse(chain), rt, e))
                   + Count(x \in Charged(InUse(new), r1, e)) - Count(x \in Charged(InUse(chain), rt, e))
        BY <1>14, <3>1, ChargedOne, Zenon
      <3> QED
        BY <2>1, <3>2, Zenon
    <2>3. k = 0 /\ k1 = (IF e = d THEN 1 ELSE 0)
      BY <1>5, <1>8, <2>1 DEF Charged, Count
    <2>4. /\ return_stack_number[e] + grown[e] = n
          /\ max_return_stack_number[e] = MaxStack[e] + grown[e]
      BY <2>1 DEF IInv, Charges
    <2>5. return_stack_number[e] \in Int /\ grown[e] \in Int
      BY Types
    <2> QED
      BY <1>9, <2>1, <2>2, <2>3, <2>4, <2>5
  <1>17. Population(thread_number', home')
    <2> SUFFICES ASSUME NEW e \in Domain
                 PROVE  /\ thread_number'[e] = Cardinality(Living(home', e))
                        /\ thread_number'[e] <= MaxThread[e]
      BY DEF Population
    <2>1. PICK S, T : S = Living(home, e) /\ T = Living(home', e)
      OBVIOUS
    <2>2. IsFiniteSet(S)
      BY <2>1, Types, Finite
    <2>3. \A y : y # u => (y \in T <=> y \in S)
      BY <1>10, <2>1 DEF Living
    <2>4. /\ Cardinality(S) \in Nat /\ Cardinality(T) \in Nat
          /\ Cardinality(T) = Cardinality(S) + Count(u \in T) - Count(u \in S)
      BY <2>2, <2>3, OneDiffers, Zenon
    <2>5. Count(u \in S) = 0 /\ Count(u \in T) = IF e = d THEN 1 ELSE 0
      <3>1. home[u] = None /\ None \notin Domain
        BY <1>4, Types DEF IInv, Homed
      <3> QED
        BY <1>4, <1>10, <2>1, <3>1 DEF Living, Count
    <2>6. thread_number[e] = Cardinality(S) /\ thread_number[e] <= MaxThread[e]
      BY <2>1 DEF IInv, Population
    <2>7. MaxThread[e] \in Nat
      BY ThreadDomainAssumption
    <2> QED
      BY <1>1, <1>9, <2>1, <2>4, <2>5, <2>6, <2>7
  <1>18. Balanced(q.value, InUse(new), r1, f1, new, drift)
    <2>1. \A e : Held(InUse(new), r1, e) = Held(InUse(chain), rt, e)
      BY <1>5, <1>7, <1>8 DEF Held
    <2>2. \A e : Asking(f1, new, r1, e) = Asking(function, chain, rt, e)
      <3>1. \A w \in Thread : function[w] = "monitor" =>
              r1[new[w][1]].current_domain_id = rt[chain[w][1]].current_domain_id
        <4> SUFFICES ASSUME NEW w \in Thread, function[w] = "monitor"
                     PROVE  r1[new[w][1]].current_domain_id = rt[chain[w][1]].current_domain_id
          OBVIOUS
        <4>1. Created(w) /\ chain[w][1] \in InUse(chain)
          BY Asker
        <4>2. w # u
          BY <1>2, <4>1
        <4>3. chain[w][1] # x /\ chain[w][1] \in Stack
          BY <1>5, <1>7, <4>1
        <4> QED
          BY <1>5, <1>8, <4>2, <4>3
      <3> QED
        BY <1>3, <3>1 DEF Asking, FunctionKept
    <2> QED
      BY <2>1, <2>2 DEF IInv, Balanced
  <1>19. TypeOK'
    BY <1>1, <1>3, <1>5, <1>8, <1>9, <1>10 DEF IInv, Typed, TypeOK, FunctionKept
  <1>20. Typed'
    BY <1>1, <1>19 DEF IInv, Typed
  <1> QED
    BY <1>1, <1>3, <1>5, <1>11, <1>12, <1>13, <1>15, <1>16, <1>17, <1>18, <1>20 DEF IInv
LEMMA CreateThreadKeeps ==
  ASSUME IInv, NEW t \in Thread, CreateThread(t)
  PROVE  IInv'
  <1>1. /\ Created(t) /\ function[t] = "call" /\ function' = [function EXCEPT ![t] = "none"]
    BY DEF CreateThread, Runs, Done
  <1>2. PICK d \in Domain : NewThread(d, DomainOf(t))
    BY DEF CreateThread
  <1>3. PICK to \in Domain : to = DomainOf(t)
    BY <1>1, TopOf
  <1>4. d \in Domain /\ to \in Domain /\ NewThread(d, to)
    BY <1>2, <1>3
  <1>5. FunctionKept
    BY <1>1, Types DEF FunctionKept
  <1> QED
    BY <1>4, <1>5, NewThreadKeeps

LEMMA DomainTimeOutKeeps ==
  ASSUME IInv, NEW d \in Domain, DomainTimeOut(d)
  PROVE  IInv'
  <1>1. NewThread(d, d) /\ function' = function
    BY DEF DomainTimeOut
  <1>2. FunctionKept
    BY <1>1, Types DEF FunctionKept
  <1> QED
    BY <1>1, <1>2, NewThreadKeeps

-----------------------------------------------------------------------------
(* A call: the flag of the caller's stack and that of the new one.         *)
LEMMA CallKeeps ==
  ASSUME IInv, NEW t \in Thread, Runs(t, "call"), ThreadCall(t), Done(t)
  PROVE  IInv'
  <1>1. /\ Created(t) /\ function[t] = "call" /\ function' = [function EXCEPT ![t] = "none"]
        /\ home' = home /\ incarnation' = incarnation /\ thread_number' = thread_number
        /\ return_stack_number' = return_stack_number /\ drift' = drift
    BY DEF Runs, Done, ThreadCall
  <1>2. PICK f1, old, d, s, new, g, r1, Z, mx, gr, en :
          /\ f1 = function' /\ old = Top(t) /\ d = DomainOf(t) /\ s = free[1] /\ new = chain'
          /\ g = free' /\ r1 = rt' /\ Z = q' /\ mx = max_return_stack_number' /\ gr = grown'
          /\ en = enter_thread_number'
    OBVIOUS
  <1>3. /\ free # <<>> /\ g = Tail(free) /\ new = OnTop(chain, t, s)
        /\ mx = Plus(max_return_stack_number, d, 1) /\ gr = Plus(grown, d, 1)
    BY <1>2 DEF ThreadCall, CallStack, OnTop
  <1>4. PICK to \in Domain, giveup_monitor_flag \in BOOLEAN :
          LET gives == to # d /\ giveup_monitor_flag /\ ~rt[old].p_flag
          IN  /\ q' = IF gives THEN V(q, d, 1) ELSE q
              /\ rt' = [rt EXCEPT
                   ![old].p_flag = @ \/ to = d \/ gives,
                   ![s] = [NewStack(t, to, d) EXCEPT
                             !.p_flag = IF to = d THEN rt[old].p_flag ELSE TRUE]]
              /\ enter_thread_number' = Plus(enter_thread_number, to, 1)
    BY <1>2 DEF ThreadCall
  <1>5. PICK gives : gives = (to # d /\ giveup_monitor_flag /\ ~rt[old].p_flag)
    OBVIOUS
  <1>6. /\ Z = IF gives THEN V(q, d, 1) ELSE q
        /\ r1 = [rt EXCEPT
                   ![old].p_flag = @ \/ to = d \/ gives,
                   ![s] = [NewStack(t, to, d) EXCEPT
                             !.p_flag = IF to = d THEN rt[old].p_flag ELSE TRUE]]
        /\ en = Plus(enter_thread_number, to, 1)
    BY <1>2, <1>4, <1>5
  <1>7. gives \in BOOLEAN /\ (gives => to # d /\ ~rt[old].p_flag)
    BY <1>5
  <1>8. to \in Domain
    BY <1>4
  <1>9. /\ old \in Stack /\ old \in Members(chain[t]) /\ old \in InUse(chain) /\ d \in Domain
        /\ rt[old].current_domain_id = d
        /\ \A u \in Thread : u # t => old \notin Members(chain[u])
    BY <1>1, <1>2, TopOf DEF DomainOf
  <1>10. /\ f1 \in [Thread -> {"none", "call", "monitor", "exit"}]
         /\ f1[t] = "none" /\ \A u \in Thread : u # t => f1[u] = function[u]
    BY <1>1, <1>2, Types
  <1>11. IsTaken(chain, t, s, new, g)
    <2>1. chain \in [Thread -> Seq(Stack)] /\ free \in Seq(Stack) /\ Tidy(chain, free)
      BY Types DEF IInv
    <2>2. s = free[1]
      BY <1>2
    <2> QED
      BY <1>3, <2>1, <2>2, Taken
  <1>12. /\ new \in [Thread -> Seq(Stack)] /\ g \in Seq(Stack)
         /\ Tidy(new, g)
         /\ s \in Stack /\ s \notin InUse(chain) /\ InUse(new) = InUse(chain) \cup {s}
         /\ new[t][1] = s /\ new[t] # <<>>
         /\ Members(new[t]) = Members(chain[t]) \cup {s}
         /\ \A u \in Thread : u # t => new[u] = chain[u]
    BY <1>11 DEF IsTaken
  <1>13. old # s
    BY <1>9, <1>12
  <1>14. InUse(chain) \subseteq Stack /\ rt \in [Stack -> Rt] /\ rt[old].p_flag \in BOOLEAN
    BY <1>9, Types, Finite, RtFields
  <1>15. /\ r1 \in [Stack -> Rt]
         /\ \A x \in Stack : x # old /\ x # s => r1[x] = rt[x]
         /\ r1[old].current_thread_id = rt[old].current_thread_id
         /\ r1[old].current_domain_id = rt[old].current_domain_id
         /\ r1[old].release_domain_id = rt[old].release_domain_id
         /\ r1[s].current_thread_id = t /\ r1[s].current_domain_id = to
         /\ r1[s].release_domain_id = d
         /\ r1[old].p_flag = (rt[old].p_flag \/ to = d \/ gives)
         /\ r1[s].p_flag = (IF to = d THEN rt[old].p_flag ELSE TRUE)
    <2>1. PICK b, c, y, z : /\ b = (rt[old].p_flag \/ to = d \/ gives)
                            /\ c = (IF to = d THEN rt[old].p_flag ELSE TRUE)
                            /\ y = [NewStack(t, to, d) EXCEPT !.p_flag = c]
                            /\ z = [rt[old] EXCEPT !.p_flag = b]
      OBVIOUS
    <2>2. b \in BOOLEAN /\ c \in BOOLEAN
      BY <1>7, <1>14, <2>1
    <2>3. PICK Ids : Ids = (UNION {Incarnation[e] : e \in Domain}) \cup {None}
      OBVIOUS
    <2>4. incarnation[to] \in Ids
      BY <1>8, <2>3 DEF IInv, Typed, TypeOK
    <2>5. y = [current_thread_id |-> t, current_domain_id |-> to, release_domain_id |-> d,
               domain_id |-> incarnation[to], p_flag |-> c, time_out |-> FALSE]
      BY <2>1 DEF NewStack
    <2>6. /\ y \in Rt /\ y.current_thread_id = t /\ y.current_domain_id = to
          /\ y.release_domain_id = d /\ y.p_flag = c
      BY <1>8, <1>9, <2>2, <2>3, <2>4, <2>5 DEF Rt
    <2>7. rt[old] \in Rt
      BY <1>9, <1>14
    <2>8. /\ z \in Rt /\ z.current_thread_id = rt[old].current_thread_id
          /\ z.current_domain_id = rt[old].current_domain_id
          /\ z.release_domain_id = rt[old].release_domain_id /\ z.p_flag = b
      BY <2>1, <2>2, <2>7 DEF Rt
    <2>9. r1 = [[rt EXCEPT ![old] = z] EXCEPT ![s] = y]
      BY <1>6, <1>9, <1>14, <2>1, <2>7 DEF Rt
    <2>10. /\ r1[old] = z /\ r1[s] = y /\ \A x \in Stack : x # old /\ x # s => r1[x] = rt[x]
           /\ r1 = [x \in Stack |-> r1[x]]
      BY <1>9, <1>12, <1>13, <1>14, <2>9
    <2>11. \A x \in Stack : r1[x] \in Rt
      BY <1>14, <2>6, <2>8, <2>10
    <2>12. r1 \in [Stack -> Rt]
      BY <2>10, <2>11, Zenon
    <2> QED
      BY <2>1, <2>6, <2>8, <2>10, <2>12
  <1>16. /\ en \in [Domain -> Int]
         /\ \A e \in Domain : en[e] = enter_thread_number[e] + IF e = to THEN 1 ELSE 0
    <2>1. enter_thread_number \in [Domain -> Int]
      BY Types
    <2> QED
      BY <1>6, <1>8, <2>1 DEF Plus
  <1>17. /\ mx \in [Domain -> Int]
         /\ \A e \in Domain : mx[e] = max_return_stack_number[e] + IF e = d THEN 1 ELSE 0
    <2>1. max_return_stack_number \in [Domain -> Int]
      BY Types
    <2> QED
      BY <1>3, <1>9, <2>1 DEF Plus
  <1>18. /\ gr \in [Domain -> Int]
         /\ \A e \in Domain : gr[e] = grown[e] + IF e = d THEN 1 ELSE 0
    <2>1. grown \in [Domain -> Int]
      BY Types
    <2> QED
      BY <1>3, <1>9, <2>1 DEF Plus
  <1>19. /\ Settled(Z)
         /\ \A e \in Domain : Z.value[e] = q.value[e] + IF gives /\ e = d THEN 1 ELSE 0
    <2>1. Settled(q) /\ d \in Semaphore /\ q.value \in [Semaphore -> Int] /\ Domain \subseteq Semaphore
      BY <1>9, Types DEF IInv
    <2>2. CASE ~gives
      <3>1. Z = q /\ \A e \in Domain : q.value[e] \in Int
        BY <1>6, <2>1, <2>2
      <3> QED
        BY <2>1, <2>2, <3>1
    <2>3. CASE gives
      <3>1. Z = V(q, d, 1)
        BY <1>6, <2>3
      <3>2. /\ Settled(Z)
            /\ Z.value = [q.value EXCEPT ![d] = q.value[d] + 1]
            /\ ~(q.value[d] < 0) => Z.sleep = q.sleep
            /\ q.value[d] < 0 =>
                 /\ q.ring[d][1] \in Thread /\ q.sleep[q.ring[d][1]] = d
                 /\ Z.sleep = [q.sleep EXCEPT ![q.ring[d][1]] = None]
        BY <2>1, <3>1, VOne, SMTT(30)
      <3> QED
        BY <2>1, <2>3, <3>2
    <2> QED
      BY <2>2, <2>3
  <1>20. Known(new, r1)
    <2> SUFFICES ASSUME NEW w \in Thread, NEW y \in Members(new[w])
                 PROVE  r1[y].current_thread_id = w \/ (r1[y].current_thread_id = None /\ y = BootStack)
      BY DEF Known
    <2>1. CASE y = s
      <3>1. w = t
        <4>1. w # t => y \in InUse(chain)
          BY <1>12, User
        <4> QED
          BY <1>12, <2>1, <4>1
      <3> QED
        BY <1>15, <2>1, <3>1
    <2>2. CASE y # s
      <3>1. y \in Members(chain[w]) /\ y \in Stack
        <4>1. y \in Members(chain[w])
          BY <1>12, <2>2
        <4> QED
          BY <1>14, <4>1, User
      <3>2. r1[y].current_thread_id = rt[y].current_thread_id
        BY <1>15, <2>2, <3>1
      <3> QED
        BY <3>1, <3>2 DEF IInv, Known
    <2> QED
      BY <2>1, <2>2
  <1>21. Homed(new, home)
    <2>1. home[t] # None
      BY <1>1 DEF IInv, Homed, Created
    <2> QED
      BY <1>12, <2>1 DEF IInv, Homed
  <1>22. Occupied(new, f1)
    BY <1>10, <1>12 DEF IInv, Occupied
  <1>23. \A y : y # s => (y \in InUse(new) <=> y \in InUse(chain))
    BY <1>12
  <1>24. Entries(en, InUse(new), r1)
    <2> SUFFICES ASSUME NEW e \in Domain PROVE en[e] = Cardinality(Inside(InUse(new), r1, e))
      BY DEF Entries
    <2>1. PICK n, n1, k, k1 :
            /\ n = Cardinality(Inside(InUse(chain), rt, e)) /\ n1 = Cardinality(Inside(InUse(new), r1, e))
            /\ k = Count(s \in Inside(InUse(chain), rt, e)) /\ k1 = Count(s \in Inside(InUse(new), r1, e))
      OBVIOUS
    <2>2. n \in Nat /\ n1 \in Nat /\ n1 = n + k1 - k
      <3>1. \A y \in InUse(chain) : y # s => r1[y].current_domain_id = rt[y].current_domain_id
        BY <1>14, <1>15
      <3>2. /\ Cardinality(Inside(InUse(new), r1, e)) \in Nat
            /\ Cardinality(Inside(InUse(chain), rt, e)) \in Nat
            /\ Cardinality(Inside(InUse(new), r1, e)) =
                 Cardinality(Inside(InUse(chain), rt, e))
                   + Count(s \in Inside(InUse(new), r1, e)) - Count(s \in Inside(InUse(chain), rt, e))
        BY <1>23, <3>1, InsideOne, Zenon
      <3> QED
        BY <2>1, <3>2, Zenon
    <2>3. k = 0 /\ k1 = (IF e = to THEN 1 ELSE 0)
      BY <1>12, <1>15, <2>1 DEF Inside, Count
    <2>4. enter_thread_number[e] = n
      BY <2>1 DEF IInv, Entries
    <2> QED
      BY <1>16, <2>1, <2>2, <2>3, <2>4
  <1>25. Charges(return_stack_number, gr, mx, InUse(new), r1)
    <2> SUFFICES ASSUME NEW e \in Domain
                 PROVE  /\ return_stack_number[e] + gr[e] = Cardinality(Charged(InUse(new), r1, e))
                        /\ mx[e] = MaxStack[e] + gr[e]
      BY DEF Charges
    <2>1. PICK n, n1, k, k1 :
            /\ n = Cardinality(Charged(InUse(chain), rt, e)) /\ n1 = Cardinality(Charged(InUse(new), r1, e))
            /\ k = Count(s \in Charged(InUse(chain), rt, e)) /\ k1 = Count(s \in Charged(InUse(new), r1, e))
      OBVIOUS
    <2>2. n \in Nat /\ n1 \in Nat /\ n1 = n + k1 - k
      <3>1. \A y \in InUse(chain) : y # s => r1[y].release_domain_id = rt[y].release_domain_id
        BY <1>14, <1>15
      <3>2. /\ Cardinality(Charged(InUse(new), r1, e)) \in Nat
            /\ Cardinality(Charged(InUse(chain), rt, e)) \in Nat
            /\ Cardinality(Charged(InUse(new), r1, e)) =
                 Cardinality(Charged(InUse(chain), rt, e))
                   + Count(s \in Charged(InUse(new), r1, e)) - Count(s \in Charged(InUse(chain), rt, e))
        BY <1>23, <3>1, ChargedOne, Zenon
      <3> QED
        BY <2>1, <3>2, Zenon
    <2>3. k = 0 /\ k1 = (IF e = d THEN 1 ELSE 0)
      BY <1>12, <1>15, <2>1 DEF Charged, Count
    <2>4. /\ return_stack_number[e] + grown[e] = n
          /\ max_return_stack_number[e] = MaxStack[e] + grown[e]
      BY <2>1 DEF IInv, Charges
    <2>5. return_stack_number[e] \in Int /\ grown[e] \in Int /\ MaxStack[e] \in Int
      BY Types, ThreadDomainAssumption
    <2>6. gr[e] = grown[e] + k1 /\ mx[e] = max_return_stack_number[e] + k1 /\ k1 \in Int
      BY <1>17, <1>18, <2>3
    <2>7. return_stack_number[e] + gr[e] = n1
      BY <2>2, <2>3, <2>4, <2>5, <2>6
    <2>8. mx[e] = MaxStack[e] + gr[e]
      BY <2>4, <2>5, <2>6
    <2> QED
      BY <2>1, <2>7, <2>8
  <1>26. \A e : Asking(f1, new, r1, e) = Asking(function, chain, rt, e)
    <2>1. \A w \in Thread : function[w] = "monitor" =>
            r1[new[w][1]].current_domain_id = rt[chain[w][1]].current_domain_id
      <3> SUFFICES ASSUME NEW w \in Thread, function[w] = "monitor"
                   PROVE  r1[new[w][1]].current_domain_id = rt[chain[w][1]].current_domain_id
        OBVIOUS
      <3>1. w # t /\ chain[w][1] \in Stack /\ chain[w][1] \in InUse(chain)
        BY <1>1, Asker
      <3>2. new[w] = chain[w] /\ chain[w][1] # s
        BY <1>12, <3>1
      <3> QED
        BY <1>15, <3>1, <3>2
    <2>2. \A w \in Thread : f1[w] = "monitor" <=> function[w] = "monitor"
      BY <1>1, <1>10
    <2> QED
      BY <2>1, <2>2 DEF Asking
  <1>27. Balanced(Z.value, InUse(new), r1, f1, new, drift)
    <2> SUFFICES ASSUME NEW e \in Domain
                 PROVE  Z.value[e] + Cardinality(Held(InUse(new), r1, e))
                          - Cardinality(Asking(f1, new, r1, e)) = Units + drift[e]
      BY DEF Balanced
    <2>1. PICK S, T : S = Held(InUse(chain), rt, e) /\ T = Held(InUse(new), r1, e)
      OBVIOUS
    <2>2. IsFiniteSet(S)
      BY <2>1, Types, Finite
    <2>3. \A y : y # old /\ y # s => (y \in T <=> y \in S)
      BY <1>14, <1>15, <1>23, <2>1 DEF Held
    <2>4. /\ Cardinality(S) \in Nat /\ Cardinality(T) \in Nat
          /\ Cardinality(T) = Cardinality(S) + Count(old \in T) - Count(old \in S)
                                            + Count(s \in T) - Count(s \in S)
      BY <1>13, <2>2, <2>3, TwoDiffer, Zenon
    <2>5. PICK h, h1, a, ko, ko1, ks, ks1 :
            /\ h = Cardinality(S) /\ h1 = Cardinality(T) /\ a = Cardinality(Asking(function, chain, rt, e))
            /\ ko = Count(old \in S) /\ ko1 = Count(old \in T)
            /\ ks = Count(s \in S) /\ ks1 = Count(s \in T)
      OBVIOUS
    <2>6. h \in Nat /\ h1 \in Nat /\ h1 = h + ko1 - ko + ks1 - ks
      BY <2>4, <2>5, Zenon
    <2>7. ks = 0 /\ ko = IF e = d /\ ~rt[old].p_flag THEN 1 ELSE 0
      BY <1>9, <1>12, <2>1, <2>5 DEF Held, Count
    <2>8. ko1 = IF e = d /\ ~r1[old].p_flag THEN 1 ELSE 0
      BY <1>9, <1>12, <1>15, <2>1, <2>5 DEF Held, Count
    <2>9. ks1 = IF e = to /\ ~r1[s].p_flag THEN 1 ELSE 0
      BY <1>12, <1>15, <2>1, <2>5 DEF Held, Count
    <2>10. PICK k : k = IF gives /\ e = d THEN 1 ELSE 0
      OBVIOUS
    <2>11. k \in {0, 1} /\ ko \in {0, 1} /\ ko1 \in {0, 1} /\ ks1 \in {0, 1}
      BY <2>7, <2>8, <2>9, <2>10
    <2>12. ko1 + ks1 = ko - k
      <3>1. CASE rt[old].p_flag
        <4>1. r1[old].p_flag /\ r1[s].p_flag /\ ~gives
          BY <1>7, <1>15, <3>1
        <4> QED
          BY <2>7, <2>8, <2>9, <2>10, <3>1, <4>1
      <3>2. CASE ~rt[old].p_flag /\ to = d
        <4>1. r1[old].p_flag /\ ~r1[s].p_flag /\ ~gives
          BY <1>7, <1>15, <3>2
        <4> QED
          BY <2>7, <2>8, <2>9, <2>10, <3>2, <4>1
      <3>3. CASE ~rt[old].p_flag /\ to # d /\ gives
        <4>1. r1[old].p_flag /\ r1[s].p_flag
          BY <1>15, <3>3
        <4> QED
          BY <2>7, <2>8, <2>9, <2>10, <3>3, <4>1
      <3>4. CASE ~rt[old].p_flag /\ to # d /\ ~gives
        <4>1. ~r1[old].p_flag /\ r1[s].p_flag
          BY <1>15, <3>4
        <4> QED
          BY <2>7, <2>8, <2>9, <2>10, <3>4, <4>1
      <3> QED
        BY <3>1, <3>2, <3>3, <3>4, Zenon
    <2>13. q.value[e] + h - a = Units + drift[e]
      BY <2>1, <2>5 DEF IInv, Balanced
    <2>14. /\ q.value[e] \in Int /\ Units \in Int /\ drift[e] \in Int
      BY Types
    <2>15. a \in Nat
      BY <2>5, Types, Finite
    <2>16. Z.value[e] = q.value[e] + k
      BY <1>19, <2>10
    <2>17. Z.value[e] + h1 - a = Units + drift[e]
      BY <2>6, <2>7, <2>11, <2>12, <2>13, <2>14, <2>15, <2>16
    <2> QED
      BY <1>26, <2>1, <2>5, <2>17
  <1>28. TypeOK'
    <2>1. Z \in SemaphoreState
      BY <1>19, SettledTypes
    <2> QED
      BY <1>1, <1>2, <1>10, <1>12, <1>15, <1>16, <1>17, <1>18, <2>1 DEF IInv, Typed, TypeOK
  <1>29. Typed'
    BY <1>1, <1>28 DEF IInv, Typed
  <1>30. Population(thread_number, home)
    BY DEF IInv
  <1> QED
    BY <1>1, <1>2, <1>12, <1>19, <1>20, <1>21, <1>22, <1>24, <1>25, <1>27, <1>29, <1>30 DEF IInv
-----------------------------------------------------------------------------
(* What is left of a finite set.                                           *)
LEMMA LeftOver ==
  ASSUME NEW S, IsFiniteSet(S), NEW G, G \subseteq S, NEW T, T = S \ G
  PROVE  /\ Cardinality(T) \in Nat /\ Cardinality(G) \in Nat /\ Cardinality(S) \in Nat
         /\ Cardinality(T) = Cardinality(S) - Cardinality(G)
  <1>1. S \cap G = G
    OBVIOUS
  <1>2. IsFiniteSet(T) /\ Cardinality(T) = Cardinality(S) - Cardinality(G)
    BY <1>1, FS_Difference
  <1>3. IsFiniteSet(G)
    BY FS_Subset
  <1> QED
    BY <1>2, <1>3, FS_CardinalityType

(* A return pops the stack on top, and no more than there are.             *)
LEMMA PoppedRange ==
  ASSUME IInv, NEW t \in Thread, Created(t)
  PROVE  Popped(t) \in 0..Len(chain[t]) /\ Popped(t) # 0
  <1>1. PICK n \in Nat : n = Len(chain[t]) /\ n # 0
    BY Types, MembersOf DEF Created
  <1>2. PICK S : S = {i \in 1..n : \A j \in 2..i : ~Live(chain[t][j])}
    OBVIOUS
  <1>3. S \in SUBSET (1..n) /\ 1 \in S
    BY <1>1, <1>2
  <1>4. IsFiniteSet(1..n) /\ Cardinality(1..n) = n
    <2>1. /\ IsFiniteSet(1..n)
          /\ Cardinality(1..n) = IF 1 > n THEN 0 ELSE n - 1 + 1
      BY FS_Interval
    <2> QED
      BY <1>1, <2>1
  <1>5. IsFiniteSet(S) /\ Cardinality(S) <= n /\ Cardinality(S) \in Nat
    BY <1>3, <1>4, FS_Subset, FS_CardinalityType
  <1>6. Cardinality(S) # 0
    BY <1>3, <1>5, FS_EmptySet
  <1>7. Popped(t) = Cardinality(S)
    BY <1>1, <1>2 DEF Popped
  <1> QED
    BY <1>1, <1>5, <1>6, <1>7
(* A return: everything counted loses what the stacks given back were.     *)
LEMMA ReturnKeeps ==
  ASSUME IInv, NEW t \in Thread, Created(t), function[t] \notin {"none", "monitor"},
         ThreadReturn(t), Done(t)
  PROVE  IInv'
  <1>1. PICK f1, k, S, new, g, r1, Z, en, rn, dr, n :
          /\ f1 = function' /\ k = Popped(t) /\ S = Gone(t, k) /\ new = chain' /\ g = free'
          /\ r1 = rt' /\ Z = q' /\ en = enter_thread_number' /\ rn = return_stack_number'
          /\ dr = drift' /\ n = [d \in Domain |-> Cardinality({s \in In(S, d) : Owes(s)})]
    OBVIOUS
  <1>2. /\ Z = VEach(q, n)
        /\ new = Cut(chain, t, k) /\ g = Back(chain, t, k) \o free
        /\ r1 = [s \in Stack |-> IF s \in S THEN FreeStack ELSE rt[s]]
        /\ en = [d \in Domain |-> enter_thread_number[d] - Cardinality(In(S, d))]
        /\ rn = [d \in Domain |-> return_stack_number[d]
                                  - Cardinality({s \in S : rt[s].release_domain_id = d})]
        /\ dr = [d \in Domain |->
                   drift[d] - Cardinality({s \in In(S, d) : ~rt[s].p_flag /\ ~Same(s)})]
        /\ f1 = [function EXCEPT ![t] = "none"]
        /\ incarnation' = incarnation /\ max_return_stack_number' = max_return_stack_number
        /\ grown' = grown
    BY <1>1 DEF ThreadReturn, Left, Cut, Back, Done
  <1>3. new[t] = Left(t, k) /\ chain \in [Thread -> Seq(Stack)]
    BY <1>2, Types DEF Cut, Left
  <1>4. /\ new[t] = <<>> => home' = [home EXCEPT ![t] = None]
                            /\ thread_number' = Plus(thread_number, home[t], -1)
        /\ new[t] # <<>> => home' = home /\ thread_number' = thread_number
    BY <1>1, <1>3 DEF ThreadReturn
  <1>5. IsGiven(chain, t, S, new, g)
    <2>1. k \in 0..Len(chain[t])
      BY <1>1, PoppedRange
    <2>2. free \in Seq(Stack) /\ Tidy(chain, free)
      BY Types DEF IInv
    <2>3. S = First(chain, t, k)
      BY <1>1 DEF Gone, First
    <2> QED
      BY <1>2, <1>3, <2>1, <2>2, <2>3, Given
  <1>6. /\ new \in [Thread -> Seq(Stack)] /\ g \in Seq(Stack) /\ Tidy(new, g)
        /\ S \subseteq Members(chain[t]) /\ InUse(new) = InUse(chain) \ S
        /\ Members(new[t]) = Members(chain[t]) \ S
        /\ \A u \in Thread : u # t => new[u] = chain[u]
    BY <1>5 DEF IsGiven
  <1>7. PICK U, U1 : U = InUse(chain) /\ U1 = InUse(new)
    OBVIOUS
  <1>8. /\ U \subseteq Stack /\ IsFiniteSet(U) /\ S \subseteq U /\ U1 = U \ S
        /\ IsFiniteSet(S)
    <2>1. U \subseteq Stack /\ IsFiniteSet(U)
      BY <1>3, <1>7, Finite
    <2>2. S \subseteq U
      BY <1>6, <1>7, User
    <2> QED
      BY <1>6, <1>7, <2>1, <2>2, FS_Subset
  <1>9. r1 \in [Stack -> Rt] /\ \A s \in U1 : r1[s] = rt[s]
    <2>1. rt \in [Stack -> Rt]
      BY Types
    <2>2. FreeStack \in Rt
      <3>1. PICK Ids : Ids = (UNION {Incarnation[d] : d \in Domain}) \cup {None}
        OBVIOUS
      <3>2. None \in Ids /\ None \in Thread \cup {None} /\ BootDomain \in Domain
        BY <3>1, ThreadDomainAssumption
      <3> QED
        BY <3>1, <3>2 DEF FreeStack, Rt
    <2> QED
      BY <1>2, <1>8, <2>1, <2>2
  <1>10. /\ f1 \in [Thread -> {"none", "call", "monitor", "exit"}]
         /\ f1[t] = "none" /\ \A u \in Thread : u # t => f1[u] = function[u]
    BY <1>2, Types
  <1>11. \A d \in Domain : In(S, d) \subseteq S /\ IsFiniteSet(In(S, d))
    BY <1>8, FS_Subset DEF In
  <1>12. n \in [Domain -> Nat]
    <2>1. ASSUME NEW d \in Domain PROVE Cardinality({s \in In(S, d) : Owes(s)}) \in Nat
      BY <1>11, Subset
    <2> QED
      BY <1>1, <2>1
  <1>13. Settled(Z) /\ \A d \in Domain : Z.value[d] = q.value[d] + n[d]
    BY <1>2, <1>12, VEachSettled DEF IInv
  <1>14. Known(new, r1)
    <2> SUFFICES ASSUME NEW w \in Thread, NEW y \in Members(new[w])
                 PROVE  r1[y].current_thread_id = w \/ (r1[y].current_thread_id = None /\ y = BootStack)
      BY DEF Known
    <2>1. y \in Members(chain[w]) /\ y \in U1
      BY <1>6, <1>7, User
    <2> QED
      BY <1>9, <2>1 DEF IInv, Known
  <1>15. Occupied(new, f1)
    BY <1>6, <1>10 DEF IInv, Occupied
  <1>16. PICK hm, tn : hm = home' /\ tn = thread_number'
    OBVIOUS
  <1>17. home[t] \in Domain /\ home \in [Thread -> Domain \cup {None}] /\ None \notin Domain
    BY Types DEF IInv, Homed, Created
  <1>18. /\ hm \in [Thread -> Domain \cup {None}]
         /\ \A u \in Thread : u # t => hm[u] = home[u]
         /\ hm[t] = IF new[t] = <<>> THEN None ELSE home[t]
    BY <1>4, <1>16, <1>17
  <1>19. Homed(new, hm)
    BY <1>6, <1>17, <1>18 DEF IInv, Homed
  <1>20. /\ tn \in [Domain -> Int]
         /\ \A d \in Domain : tn[d] = thread_number[d] - IF new[t] = <<>> /\ d = home[t] THEN 1 ELSE 0
    <2>1. thread_number \in [Domain -> Int]
      BY Types
    <2>2. CASE new[t] # <<>>
      BY <1>4, <1>16, <2>1, <2>2
    <2>3. CASE new[t] = <<>>
      <3>1. tn = Plus(thread_number, home[t], -1)
        BY <1>4, <1>16, <2>3
      <3> QED
        BY <1>17, <2>1, <2>3, <3>1 DEF Plus
    <2> QED
      BY <2>2, <2>3
  <1>21. Population(tn, hm)
    <2> SUFFICES ASSUME NEW e \in Domain
                 PROVE  tn[e] = Cardinality(Living(hm, e)) /\ tn[e] <= MaxThread[e]
      BY DEF Population
    <2>1. PICK A, B : A = Living(home, e) /\ B = Living(hm, e)
      OBVIOUS
    <2>2. IsFiniteSet(A)
      BY <1>3, <2>1, Finite
    <2>3. \A y : y # t => (y \in B <=> y \in A)
      BY <1>18, <2>1 DEF Living
    <2>4. /\ Cardinality(A) \in Nat /\ Cardinality(B) \in Nat
          /\ Cardinality(B) = Cardinality(A) + Count(t \in B) - Count(t \in A)
      BY <2>2, <2>3, OneDiffers, Zenon
    <2>5. /\ Count(t \in A) = IF e = home[t] THEN 1 ELSE 0
          /\ Count(t \in B) = IF e = home[t] /\ new[t] # <<>> THEN 1 ELSE 0
      BY <1>17, <1>18, <2>1 DEF Living, Count
    <2>6. thread_number[e] = Cardinality(A) /\ thread_number[e] <= MaxThread[e]
      BY <2>1 DEF IInv, Population
    <2>7. MaxThread[e] \in Nat
      BY ThreadDomainAssumption
    <2> QED
      BY <1>20, <2>1, <2>4, <2>5, <2>6, <2>7
  <1>22. en \in [Domain -> Int] /\ Entries(en, U1, r1)
    <2> SUFFICES ASSUME NEW e \in Domain
                 PROVE  en[e] \in Int /\ en[e] = Cardinality(Inside(U1, r1, e))
      BY <1>2 DEF Entries
    <2>1. PICK A, B, G : A = Inside(U, rt, e) /\ B = Inside(U1, r1, e) /\ G = In(S, e)
      OBVIOUS
    <2>2. IsFiniteSet(A) /\ enter_thread_number[e] = Cardinality(A)
      BY <1>3, <1>7, <2>1, Finite DEF IInv, Entries
    <2>3. G \subseteq A /\ B = A \ G
      BY <1>8, <1>9, <2>1 DEF Inside, In
    <2>4. /\ Cardinality(B) \in Nat /\ Cardinality(G) \in Nat /\ Cardinality(A) \in Nat
          /\ Cardinality(B) = Cardinality(A) - Cardinality(G)
      BY <2>2, <2>3, LeftOver, Zenon
    <2> QED
      BY <1>2, <2>1, <2>2, <2>4
  <1>23. rn \in [Domain -> Int] /\ Charges(rn, grown, max_return_stack_number, U1, r1)
    <2> SUFFICES ASSUME NEW e \in Domain
                 PROVE  /\ rn[e] \in Int /\ rn[e] + grown[e] = Cardinality(Charged(U1, r1, e))
                        /\ max_return_stack_number[e] = MaxStack[e] + grown[e]
      BY <1>2 DEF Charges
    <2>1. PICK A, B, G : /\ A = Charged(U, rt, e) /\ B = Charged(U1, r1, e)
                         /\ G = {s \in S : rt[s].release_domain_id = e}
      OBVIOUS
    <2>2. /\ IsFiniteSet(A) /\ return_stack_number[e] + grown[e] = Cardinality(A)
          /\ max_return_stack_number[e] = MaxStack[e] + grown[e]
      BY <1>3, <1>7, <2>1, Finite DEF IInv, Charges
    <2>3. G \subseteq A /\ B = A \ G
      BY <1>8, <1>9, <2>1 DEF Charged
    <2>4. /\ Cardinality(B) \in Nat /\ Cardinality(G) \in Nat /\ Cardinality(A) \in Nat
          /\ Cardinality(B) = Cardinality(A) - Cardinality(G)
      BY <2>2, <2>3, LeftOver, Zenon
    <2>5. return_stack_number[e] \in Int /\ grown[e] \in Int
      BY Types
    <2>6. rn[e] = return_stack_number[e] - Cardinality(G)
      BY <1>2, <2>1
    <2> QED
      BY <2>1, <2>2, <2>4, <2>5, <2>6
  <1>24. \A e : Asking(f1, new, r1, e) = Asking(function, chain, rt, e)
    <2>1. \A w \in Thread : function[w] = "monitor" =>
            r1[new[w][1]].current_domain_id = rt[chain[w][1]].current_domain_id
      <3> SUFFICES ASSUME NEW w \in Thread, function[w] = "monitor"
                   PROVE  r1[new[w][1]].current_domain_id = rt[chain[w][1]].current_domain_id
        OBVIOUS
      <3>1. w # t /\ Created(w)
        BY Asker
      <3>2. new[w] = chain[w] /\ chain[w][1] \in Members(chain[w])
        BY <1>3, <1>6, <3>1, MembersOf DEF Created
      <3>3. chain[w][1] \in U1
        BY <1>7, <3>2, User
      <3> QED
        BY <1>9, <3>2, <3>3
    <2>2. \A w \in Thread : f1[w] = "monitor" <=> function[w] = "monitor"
      BY <1>10
    <2> QED
      BY <2>1, <2>2 DEF Asking
  <1>25. dr \in [Domain -> Int] /\ Balanced(Z.value, U1, r1, f1, new, dr)
    <2> SUFFICES ASSUME NEW e \in Domain
                 PROVE  /\ dr[e] \in Int
                        /\ Z.value[e] + Cardinality(Held(U1, r1, e))
                             - Cardinality(Asking(f1, new, r1, e)) = Units + dr[e]
      BY <1>2 DEF Balanced
    <2>1. PICK A, B, G, G1, G2 :
            /\ A = Held(U, rt, e) /\ B = Held(U1, r1, e)
            /\ G = {s \in In(S, e) : ~rt[s].p_flag}
            /\ G1 = {s \in In(S, e) : Owes(s)}
            /\ G2 = {s \in In(S, e) : ~rt[s].p_flag /\ ~Same(s)}
      OBVIOUS
    <2>2. IsFiniteSet(A)
      BY <1>3, <1>7, <2>1, Finite
    <2>3. G \subseteq A /\ B = A \ G /\ IsFiniteSet(G)
      <3>1. G \subseteq A /\ B = A \ G
        BY <1>8, <1>9, <2>1 DEF Held, In
      <3> QED
        BY <2>2, <3>1, FS_Subset
    <2>4. G2 \subseteq G /\ G1 = G \ G2
      BY <2>1 DEF Owes
    <2>5. PICK a, b, c, c1, c2, m :
            /\ a = Cardinality(A) /\ b = Cardinality(B) /\ c = Cardinality(G)
            /\ c1 = Cardinality(G1) /\ c2 = Cardinality(G2)
            /\ m = Cardinality(Asking(function, chain, rt, e))
      OBVIOUS
    <2>6. a \in Nat /\ b \in Nat /\ c \in Nat /\ b = a - c
      <3>1. /\ Cardinality(B) \in Nat /\ Cardinality(G) \in Nat /\ Cardinality(A) \in Nat
            /\ Cardinality(B) = Cardinality(A) - Cardinality(G)
        BY <2>2, <2>3, LeftOver, Zenon
      <3> QED
        BY <2>5, <3>1, Zenon
    <2>7. c1 \in Nat /\ c2 \in Nat /\ c = c1 + c2
      <3>1. IsFiniteSet(G)
        BY <2>3
      <3>2. /\ Cardinality(G1) \in Nat /\ Cardinality(G2) \in Nat /\ Cardinality(G) \in Nat
            /\ Cardinality(G1) = Cardinality(G) - Cardinality(G2)
        BY <2>4, <3>1, LeftOver, Zenon
      <3>3. c1 \in Nat /\ c2 \in Nat /\ c \in Nat /\ c1 = c - c2
        BY <2>5, <3>2, Zenon
      <3> QED
        BY <3>3
    <2>8. m \in Nat
      BY <1>3, <2>5, Finite
    <2>9. q.value[e] + a - m = Units + drift[e]
      BY <1>7, <2>1, <2>5 DEF IInv, Balanced
    <2>10. q.value[e] \in Int /\ Units \in Int /\ drift[e] \in Int
      BY Types
    <2>11. Z.value[e] = q.value[e] + c1
      BY <1>1, <1>13, <2>1, <2>5
    <2>12. dr[e] = drift[e] - c2
      BY <1>2, <2>1, <2>5
    <2>13. dr[e] \in Int /\ Z.value[e] + b - m = Units + dr[e]
      <3>1. PICK v, z, d, d2, u :
              v = q.value[e] /\ z = Z.value[e] /\ d = drift[e] /\ d2 = dr[e] /\ u = Units
        OBVIOUS
      <3>2. /\ v \in Int /\ u \in Int /\ d \in Int
            /\ v + a - m = u + d /\ z = v + c1 /\ d2 = d - c2
        BY <2>9, <2>10, <2>11, <2>12, <3>1, Zenon
      <3>3. d2 \in Int /\ z + b - m = u + d2
        BY <2>6, <2>7, <2>8, <3>2
      <3> QED
        BY <3>1, <3>3, Zenon
    <2> QED
      BY <1>24, <2>1, <2>5, <2>13
  <1>26. TypeOK'
    <2>1. Z \in SemaphoreState
      BY <1>13, SettledTypes
    <2> QED
      BY <1>1, <1>2, <1>6, <1>9, <1>10, <1>16, <1>18, <1>20, <1>22, <1>23, <1>25, <2>1
         DEF IInv, Typed, TypeOK
  <1>27. Typed'
    BY <1>2, <1>26 DEF IInv, Typed
  <1> QED
    BY <1>1, <1>2, <1>6, <1>7, <1>13, <1>14, <1>15, <1>16, <1>19, <1>21, <1>22, <1>23, <1>25,
       <1>27 DEF IInv
-----------------------------------------------------------------------------
LEMMA StepKeeps ==
  ASSUME IInv, [Next]_vars
  PROVE  IInv'
  <1>1. CASE UNCHANGED vars
    <2>1. /\ q' = q /\ chain' = chain /\ free' = free /\ rt' = rt /\ home' = home
          /\ function' = function /\ incarnation' = incarnation
          /\ enter_thread_number' = enter_thread_number /\ thread_number' = thread_number
          /\ return_stack_number' = return_stack_number
          /\ max_return_stack_number' = max_return_stack_number
          /\ drift' = drift /\ grown' = grown
      BY <1>1 DEF vars
    <2>2. Typed'
      BY <2>1 DEF IInv, Typed, TypeOK
    <2> QED
      BY <2>1, <2>2 DEF IInv
  <1>2. ASSUME NEW t \in Thread, Exit(t) PROVE IInv'
    <2>1. Created(t) /\ function[t] = "exit" /\ ThreadReturn(t) /\ Done(t)
      BY <1>2 DEF Exit, Runs
    <2>2. function[t] \notin {"none", "monitor"}
      BY <2>1
    <2> QED
      BY <2>1, <2>2, ReturnKeeps
  <1>3. ASSUME NEW t \in Thread, Return(t) PROVE IInv'
    <2>1. Created(t) /\ function[t] = "call" /\ ThreadReturn(t) /\ Done(t)
      BY <1>3 DEF Return, Runs
    <2>2. function[t] \notin {"none", "monitor"}
      BY <2>1
    <2> QED
      BY <2>1, <2>2, ReturnKeeps
  <1>4. ASSUME NEW t \in Thread, Migrate(t) PROVE IInv'
    <2>1. Runs(t, "call") /\ Done(t) /\ (ThreadJump(t) \/ ThreadCall(t))
      BY <1>4 DEF Migrate
    <2>2. CASE ThreadJump(t)
      BY <2>1, <2>2, JumpKeeps
    <2>3. CASE ThreadCall(t)
      BY <2>1, <2>3, CallKeeps
    <2> QED
      BY <2>1, <2>2, <2>3
  <1>5. ASSUME NEW t \in Thread,
               Select(t) \/ SystemCall(t) \/ MonitorP(t) \/ CreateThread(t)
                 \/ SemaphoreOperation(t) \/ MandatoryExit(t) \/ AllocateResource(t)
        PROVE  IInv'
    BY <1>5, SelectKeeps, SystemCallKeeps, MonitorPKeeps, CreateThreadKeeps,
       SemaphoreOperationKeeps, MandatoryExitKeeps, AllocateResourceKeeps, Zenon
  <1>6. ASSUME NEW s \in Stack, TimeOut(s) PROVE IInv'
    BY <1>6, TimeOutKeeps
  <1>7. ASSUME NEW d \in Domain, DomainTimeOut(d) PROVE IInv'
    BY <1>7, DomainTimeOutKeeps
  <1> QED
    BY <1>1, <1>2, <1>3, <1>4, <1>5, <1>6, <1>7, Zenon DEF Next

LEMMA Invariant == Spec => []IInv
  <1>1. IInv /\ [Next]_vars => IInv'
    BY StepKeeps
  <1> QED
    BY <1>1, InitHolds, PTL DEF Spec

LEMMA UsedIs == Used = InUse(chain)
  BY DEF Used, InUse

(* Every reachable state has the types that TypeOK names.                  *)
THEOREM ThreadDomainTypeOK == Spec => []TypeOK
  <1>1. IInv => TypeOK
    BY DEF IInv, Typed
  <1> QED
    BY <1>1, Invariant, PTL

(* current.c, migrate.c, return.c, p_system_call.c: a monitor's value and  *)
(* the stacks that hold a unit of it, but for the P's still to run, add up *)
(* to what it started with, but for the three mistakes the drift counts,   *)
(* whatever the numbers of threads, stacks, domains and units.             *)
THEOREM ThreadDomainMonitorUnits == Spec => []MonitorUnits
  <1>1. ASSUME IInv PROVE MonitorUnits
    <2> SUFFICES ASSUME NEW d \in Domain
                 PROVE  q.value[d] + Cardinality({s \in In(Used, d) : ~rt[s].p_flag})
                          - Cardinality({t \in Thread : function[t] = "monitor" /\ DomainOf(t) = d})
                        = Units + drift[d]
      BY DEF MonitorUnits
    <2>1. {s \in In(Used, d) : ~rt[s].p_flag} = Held(InUse(chain), rt, d)
      BY UsedIs DEF In, Held
    <2>2. {t \in Thread : function[t] = "monitor" /\ DomainOf(t) = d} = Asking(function, chain, rt, d)
      BY DEF Asking, DomainOf, Top
    <2> QED
      BY <1>1, <2>1, <2>2 DEF IInv, Balanced
  <1> QED
    BY <1>1, Invariant, PTL

(* create.c, migrate.c, return.c: a return stack is free or in the chain   *)
(* of one thread, once, and knows its thread; only idle threads have none. *)
THEOREM ThreadDomainStacksAccounted == Spec => []StacksAccounted
  <1>1. ASSUME IInv PROVE StacksAccounted
    <2>1. chain \in [Thread -> Seq(Stack)] /\ free \in Seq(Stack) /\ None \notin Thread
          /\ Tidy(chain, free)
      BY <1>1, Types DEF IInv
    <2>2. ASSUME NEW s \in Stack PROVE Cardinality(Places(s)) = 1
      <3>1. DOMAIN free = 1..Len(free) /\ \A t \in Thread : DOMAIN chain[t] = 1..Len(chain[t])
        BY <2>1, LenProperties
      <3>2. \A p : p \in Places(s) <=>
              \/ \E i \in 1..Len(free) : free[i] = s /\ p = <<None, i>>
              \/ \E t \in Thread : \E i \in 1..Len(chain[t]) : chain[t][i] = s /\ p = <<t, i>>
        BY <3>1 DEF Places
      <3>3. s \in Members(free) <=> \E i \in 1..Len(free) : s = free[i]
        BY Member
      <3>4. \A t \in Thread : s \in Members(chain[t]) <=> \E i \in 1..Len(chain[t]) : s = chain[t][i]
        BY Member
      <3>5. \A i, j \in 1..Len(free) : free[i] = s /\ free[j] = s => i = j
        BY <2>1 DEF Tidy, Distinct
      <3>6. \A t \in Thread : \A i, j \in 1..Len(chain[t]) : chain[t][i] = s /\ chain[t][j] = s => i = j
        BY <2>1 DEF Tidy, Distinct
      <3>7. \E p : Places(s) = {p}
        <4>1. CASE s \in Members(free)
          <5>1. \A t \in Thread : s \notin Members(chain[t])
            BY <2>1, <4>1 DEF Tidy
          <5>2. PICK i \in 1..Len(free) : free[i] = s
            BY <3>3, <4>1
          <5>3. \A p : p \in Places(s) <=> p = <<None, i>>
            BY <3>2, <3>4, <3>5, <5>1, <5>2
          <5>4. Places(s) = {<<None, i>>}
            BY <5>3
          <5> QED
            BY <5>4
        <4>2. CASE s \notin Members(free)
          <5>1. PICK t \in Thread : s \in Members(chain[t])
            BY <2>1, <4>2, User DEF Tidy
          <5>2. \A u \in Thread : u # t => s \notin Members(chain[u])
            BY <2>1, <5>1 DEF Tidy
          <5>3. PICK i \in 1..Len(chain[t]) : chain[t][i] = s
            BY <3>4, <5>1
          <5>4. \A p : p \in Places(s) <=> p = <<t, i>>
            BY <3>2, <3>3, <3>4, <3>6, <4>2, <5>1, <5>2, <5>3
          <5>5. Places(s) = {<<t, i>>}
            BY <5>4
          <5> QED
            BY <5>5
        <4> QED
          BY <4>1, <4>2
      <3> QED
        BY <3>7, FS_Singleton
    <2>3. ASSUME NEW t \in Thread, NEW i \in DOMAIN chain[t]
          PROVE  \/ rt[chain[t][i]].current_thread_id = t
                 \/ rt[chain[t][i]].current_thread_id = None /\ chain[t][i] = BootStack
      <3>1. chain[t][i] \in Members(chain[t])
        BY <2>1, LenProperties DEF Members
      <3> QED
        BY <1>1, <3>1 DEF IInv, Known
    <2>4. \A t \in Thread : home[t] = None <=> chain[t] = <<>>
      BY <1>1 DEF IInv, Homed
    <2> QED
      BY <2>2, <2>3, <2>4 DEF StacksAccounted
  <1> QED
    BY <1>1, Invariant, PTL

(* The counters that quotas are compared with are those of the stacks and  *)
(* threads there are, and no domain has more threads than it may have.     *)
THEOREM ThreadDomainCountersAgree == Spec => []CountersAgree
  <1>1. ASSUME IInv PROVE CountersAgree
    <2> SUFFICES ASSUME NEW d \in Domain
                 PROVE  /\ enter_thread_number[d] = Cardinality(In(Used, d))
                        /\ thread_number[d] = Cardinality({t \in Thread : home[t] = d})
                        /\ thread_number[d] <= MaxThread[d]
                        /\ return_stack_number[d] + grown[d]
                             = Cardinality({s \in Used : rt[s].release_domain_id = d})
                        /\ max_return_stack_number[d] = MaxStack[d] + grown[d]
      BY DEF CountersAgree
    <2>1. In(Used, d) = Inside(InUse(chain), rt, d)
      BY UsedIs DEF In, Inside
    <2>2. {t \in Thread : home[t] = d} = Living(home, d)
      BY DEF Living
    <2>3. {s \in Used : rt[s].release_domain_id = d} = Charged(InUse(chain), rt, d)
      BY UsedIs DEF Charged
    <2> QED
      BY <1>1, <2>1, <2>2, <2>3 DEF IInv, Entries, Population, Charges
  <1> QED
    BY <1>1, Invariant, PTL
=============================================================================

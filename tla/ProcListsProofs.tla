-------------------------- MODULE ProcListsProofs --------------------------
(***************************************************************************)
(* The run list and the sleep hash of kernel/sleep.c stay intact, and the  *)
(* lists implement the wait queues, for any number of processes, addresses *)
(* and buckets.                                                            *)
(*                                                                         *)
(* A list is described without positions: its links are inverse to each    *)
(* other, only the head has no predecessor, and a rank falls along `next'. *)
(* Insertion and removal keep this by first-order arguments; that a walk   *)
(* meets every process once follows by induction, for each list once.      *)
(***************************************************************************)
EXTENDS ProcLists, FiniteSetTheorems, TLAPS

Ref == Procs \cup {NULL}

ListType(I) == [head : [I -> Ref], next : [Procs -> Ref], prev : [Procs -> Ref]]

Linked(l, i, S, r) ==
    /\ l.head[i] \in S \cup {NULL}
    /\ \A p \in S :
          /\ p = l.head[i] <=> l.prev[p] = NULL
          /\ l.next[p] \in S \cup {NULL}
          /\ l.prev[p] \in S \cup {NULL}
          /\ l.next[p] # NULL => l.prev[l.next[p]] = p /\ r[l.next[p]] < r[p]
          /\ l.prev[p] # NULL => l.next[l.prev[p]] = p

\* List i of l holds the processes of S.
ListOf(l, i, S) == \E N \in Nat : \E r \in [Procs -> 0..N] : Linked(l, i, S, r)

\* From l to m the heads of the lists of J, the links of the processes of Q
\* stay.
SameHeads(l, m, J) == \A j \in J : m.head[j] = l.head[j]

Keeps(l, m, Q) == \A q \in Q : m.next[q] = l.next[q] /\ m.prev[q] = l.prev[q]

----------------------------------------------------------------------------
\* A list is not disturbed by what happens to the links of others.
LEMMA Undisturbed ==
    ASSUME NEW l, NEW m, NEW i, NEW S \in SUBSET Procs, ListOf(l, i, S),
           m.head[i] = l.head[i], Keeps(l, m, S)
    PROVE  ListOf(m, i, S)
<1>0. PICK N \in Nat : \E r \in [Procs -> 0..N] : Linked(l, i, S, r)
  BY Zenon DEF ListOf
<1>1. PICK r \in [Procs -> 0..N] : Linked(l, i, S, r)
  BY Zenon, <1>0
<1>2. Linked(m, i, S, r)
  BY SMTT(20), <1>1 DEF Linked, Keeps
<1> QED BY Zenon, <1>2 DEF ListOf

\* A process that is not in the list is inserted at the head.
LEMMA Insert ==
    ASSUME NEW l, NEW m, NEW i, NEW S \in SUBSET Procs, ListOf(l, i, S),
           NEW p \in Procs \ S,
           m.head[i] = p, m.next[p] = l.head[i], m.prev[p] = NULL,
           \A q \in S : m.next[q] = l.next[q],
           \A q \in S : m.prev[q] = IF q = l.head[i] THEN p ELSE l.prev[q]
    PROVE  ListOf(m, i, S \cup {p})
<1>0. PICK N \in Nat : \E r \in [Procs -> 0..N] : Linked(l, i, S, r)
  BY Zenon DEF ListOf
<1>1. PICK r \in [Procs -> 0..N] : Linked(l, i, S, r)
  BY Zenon, <1>0
<1> DEFINE t == [r EXCEPT ![p] = N + 1]
           h == l.head[i]
<1>2. /\ t \in [Procs -> 0..(N + 1)] /\ N + 1 \in Nat
      /\ \A q \in S : t[q] = r[q] /\ r[q] < t[p]
  BY SMTT(30)
<1>3. /\ h \in S \cup {NULL} /\ p # NULL /\ NULL \notin S
      /\ \A q \in S :
          /\ q = h <=> l.prev[q] = NULL
          /\ l.next[q] \in S \cup {NULL}
          /\ l.prev[q] \in S \cup {NULL}
          /\ l.next[q] # NULL => l.prev[l.next[q]] = q /\ r[l.next[q]] < r[q]
          /\ l.prev[q] # NULL => l.next[l.prev[q]] = q
  BY Zenon, <1>1, ProcListsAssumption DEF Linked
<1> HIDE DEF t, h
<1>4. /\ m.head[i] = p /\ m.next[p] = h /\ m.prev[p] = NULL
      /\ \A q \in S : m.next[q] = l.next[q]
      /\ \A q \in S : m.prev[q] = IF q = h THEN p ELSE l.prev[q]
  BY Zenon DEF h
<1>5. ASSUME NEW q \in S \cup {p}
      PROVE  /\ q = m.head[i] <=> m.prev[q] = NULL
             /\ m.next[q] \in S \cup {p} \cup {NULL}
             /\ m.prev[q] \in S \cup {p} \cup {NULL}
             /\ m.next[q] # NULL => m.prev[m.next[q]] = q /\ t[m.next[q]] < t[q]
             /\ m.prev[q] # NULL => m.next[m.prev[q]] = q
  <2>1. CASE q = p
    BY Zenon, <1>2, <1>3, <1>4, <2>1
  <2>2. CASE q \in S
    <3>1. q # p /\ m.prev[q] # NULL
      BY SMTT(20), <1>3, <1>4, <2>2
    <3>2. m.next[q] # NULL => m.prev[m.next[q]] = q /\ t[m.next[q]] < t[q]
      <4> SUFFICES ASSUME l.next[q] # NULL PROVE m.prev[l.next[q]] = q /\ t[l.next[q]] < t[q]
        BY Zenon, <1>4, <2>2
      <4>1. l.next[q] \in S /\ l.prev[l.next[q]] = q /\ q # NULL
        BY Zenon, <1>3, <2>2
      <4>2. l.next[q] # h
        BY Zenon, <1>3, <4>1
      <4>3. t[l.next[q]] = r[l.next[q]] /\ t[q] = r[q]
        BY Zenon, <1>2, <2>2, <4>1
      <4> QED BY Zenon, <1>3, <1>4, <2>2, <4>1, <4>2, <4>3
    <3>3. m.next[m.prev[q]] = q
      <4>1. CASE q = h
        BY Zenon, <1>4, <2>2, <4>1
      <4>2. CASE q # h
        BY SMTT(20), <1>3, <1>4, <2>2, <4>2
      <4> QED BY Zenon, <4>1, <4>2
    <3>4. m.next[q] \in S \cup {p} \cup {NULL} /\ m.prev[q] \in S \cup {p} \cup {NULL}
      BY Zenon, <1>3, <1>4, <2>2
    <3> QED BY Zenon, <1>4, <3>1, <3>2, <3>3, <3>4
  <2> QED BY Zenon, <2>1, <2>2
<1>6. Linked(m, i, S \cup {p}, t)
  BY Zenon, <1>4, <1>5 DEF Linked
<1> QED BY Zenon, <1>2, <1>6 DEF ListOf

\* A process of the list is removed.
LEMMA Remove ==
    ASSUME NEW l, NEW m, NEW i, NEW S \in SUBSET Procs, ListOf(l, i, S), NEW p \in S,
           m.head[i] = IF l.head[i] = p THEN l.next[p] ELSE l.head[i],
           \A q \in S \ {p} : m.next[q] = IF q = l.prev[p] THEN l.next[p] ELSE l.next[q],
           \A q \in S \ {p} : m.prev[q] = IF q = l.next[p] THEN l.prev[p] ELSE l.prev[q]
    PROVE  ListOf(m, i, S \ {p})
<1>0. PICK N \in Nat : \E r \in [Procs -> 0..N] : Linked(l, i, S, r)
  BY Zenon DEF ListOf
<1>1. PICK r \in [Procs -> 0..N] : Linked(l, i, S, r)
  BY Zenon, <1>0
<1> DEFINE a == l.prev[p]
           b == l.next[p]
<1>2. /\ l.head[i] \in S \cup {NULL} /\ NULL \notin S
      /\ \A q \in S :
          /\ q = l.head[i] <=> l.prev[q] = NULL
          /\ l.next[q] \in S \cup {NULL}
          /\ l.prev[q] \in S \cup {NULL}
          /\ l.next[q] # NULL => l.prev[l.next[q]] = q /\ r[l.next[q]] < r[q]
          /\ l.prev[q] # NULL => l.next[l.prev[q]] = q
  BY Zenon, <1>1, ProcListsAssumption DEF Linked
<1>3. /\ a \in (S \ {p}) \cup {NULL} /\ b \in (S \ {p}) \cup {NULL}
      /\ l.head[i] = p <=> a = NULL
      /\ a # NULL => l.next[a] = p
      /\ b # NULL => l.prev[b] = p
      /\ a # NULL /\ b # NULL => r[b] < r[a]
  <2>1. b # NULL => r[b] < r[p] /\ b \in S
    BY Zenon, <1>2
  <2>2. a # NULL => r[p] < r[a] /\ a \in S
    BY SMTT(20), <1>2
  <2>3. b # p /\ a # p
    <3>1. p # NULL /\ r[p] \in 0..N
      BY Zenon, <1>2
    <3> HIDE DEF a, b
    <3>2. ~(r[p] < r[p])
      BY SMTT(20), <3>1
    <3>3. CASE b = p
      BY Zenon, <2>1, <3>1, <3>2, <3>3
    <3>4. CASE a = p
      BY Zenon, <2>2, <3>1, <3>2, <3>4
    <3> QED BY Zenon, <3>3, <3>4
  <2>4. a # NULL /\ b # NULL => r[b] < r[a]
    BY SMTT(30), <2>1, <2>2
  <2> QED BY Zenon, <1>2, <2>3, <2>4
<1>4. /\ m.head[i] = IF l.head[i] = p THEN b ELSE l.head[i]
      /\ \A q \in S \ {p} : m.next[q] = IF q = a THEN b ELSE l.next[q]
      /\ \A q \in S \ {p} : m.prev[q] = IF q = b THEN a ELSE l.prev[q]
  BY Zenon
<1> HIDE DEF a, b
<1>5. m.head[i] \in (S \ {p}) \cup {NULL}
  BY Zenon, <1>2, <1>3, <1>4
<1>6. ASSUME NEW q \in S \ {p}
      PROVE  /\ q = m.head[i] <=> m.prev[q] = NULL
             /\ m.next[q] \in (S \ {p}) \cup {NULL}
             /\ m.prev[q] \in (S \ {p}) \cup {NULL}
             /\ m.next[q] # NULL => m.prev[m.next[q]] = q /\ r[m.next[q]] < r[q]
             /\ m.prev[q] # NULL => m.next[m.prev[q]] = q
  <2>0. q # NULL /\ l.next[q] = p <=> q = a
    BY SMTT(20), <1>2, <1>3 DEF a
  <2>1. q = m.head[i] <=> m.prev[q] = NULL
    <3>1. CASE q = b
      BY Zenon, <1>2, <1>3, <1>4, <3>1
    <3>2. CASE q # b
      BY SMTT(20), <1>2, <1>3, <1>4, <3>2
    <3> QED BY Zenon, <3>1, <3>2
  <2>2. CASE q = a
    <3>1. m.next[q] = b
      BY Zenon, <1>4, <2>2
    <3>2. m.next[q] # NULL => m.prev[m.next[q]] = q /\ r[m.next[q]] < r[q]
      <4> SUFFICES ASSUME b # NULL PROVE m.prev[b] = q /\ r[b] < r[q]
        BY Zenon, <3>1
      <4>1. b \in S \ {p} /\ a # NULL
        BY Zenon, <1>2, <1>3, <2>2
      <4> QED BY Zenon, <1>3, <1>4, <2>2, <4>1
    <3>3. q # b
      <4>2. b # NULL => r[b] < r[a]
        BY Zenon, <1>2, <1>3, <2>2
      <4> QED BY SMTT(30), <1>2, <2>2, <4>2
    <3>4. m.prev[q] = l.prev[q]
      BY Zenon, <1>4, <3>3
    <3>5. l.prev[q] # p
      BY SMTT(30), <1>2, <1>3, <2>2, <3>3 DEF b
    <3>6. m.prev[q] # NULL => m.next[m.prev[q]] = q
      BY SMTT(30), <1>2, <1>3, <1>4, <2>2, <3>4, <3>5
    <3> QED BY Zenon, <1>2, <1>3, <2>1, <3>1, <3>2, <3>4, <3>5, <3>6
  <2>3. CASE q # a
    <3>1. m.next[q] = l.next[q] /\ l.next[q] # p
      BY Zenon, <1>2, <1>4, <2>0, <2>3
    <3>2. m.next[q] # NULL => m.prev[m.next[q]] = q /\ r[m.next[q]] < r[q]
      <4> SUFFICES ASSUME l.next[q] # NULL PROVE m.prev[l.next[q]] = q /\ r[l.next[q]] < r[q]
        BY Zenon, <3>1
      <4>1. l.next[q] \in S \ {p} /\ l.prev[l.next[q]] = q
        BY Zenon, <1>2, <3>1
      <4>2. l.next[q] # b
        BY Zenon, <1>3, <4>1
      <4> QED BY Zenon, <1>2, <1>4, <4>1, <4>2
    <3>3. /\ m.prev[q] # NULL => m.next[m.prev[q]] = q
          /\ m.prev[q] \in (S \ {p}) \cup {NULL}
      <4>1. CASE q = b
        BY Zenon, <1>3, <1>4, <4>1
      <4>2. CASE q # b
        <5>1. m.prev[q] = l.prev[q] /\ l.prev[q] # p
          BY SMTT(20), <1>2, <1>4, <4>2 DEF b
        <5>2. l.prev[q] # NULL => l.prev[q] \in S \ {p} /\ l.next[l.prev[q]] = q
          BY Zenon, <1>2, <5>1
        <5>3. l.prev[q] # NULL => l.prev[q] # a
          BY Zenon, <1>3, <5>2
        <5> QED BY Zenon, <1>4, <5>1, <5>2, <5>3
      <4> QED BY Zenon, <4>1, <4>2
    <3>4. m.next[q] \in (S \ {p}) \cup {NULL}
      BY Zenon, <1>2, <3>1
    <3> QED BY Zenon, <2>1, <3>2, <3>3, <3>4
  <2> QED BY Zenon, <2>2, <2>3
<1>7. Linked(m, i, S \ {p}, r)
  BY Zenon, <1>5, <1>6 DEF Linked
<1> QED BY Zenon, <1>1, <1>7 DEF ListOf

----------------------------------------------------------------------------
(* What a walk along a list meets. *)

\* Induction: a set with 0 and with the successor of each of its numbers
\* has all of them.
LEMMA SetInduction ==
    ASSUME NEW T, 0 \in T, \A n \in Nat : n \in T => n + 1 \in T
    PROVE  Nat \subseteq T
<1> SUFFICES ASSUME Nat \ T # {} PROVE FALSE
  BY Zenon
<1>1. PICK x \in Nat \ T : \A y \in Nat \ T : ~(<<y, x>> \in OpToRel(<, Nat))
  <2>1. IsWellFoundedOn(OpToRel(<, Nat), Nat)
    BY Zenon, NatLessThanWellFounded
  <2> HIDE DEF OpToRel
  <2> QED BY Zenon, <2>1, WFMin
<1>2. \A y \in Nat \ T : ~(y < x)
  BY Zenon, <1>1 DEF OpToRel
<1>3. x # 0 /\ x - 1 \in Nat
  OBVIOUS
<1>4. x - 1 \in T
  BY <1>2, <1>3
<1> QED BY SMTT(30), <1>3, <1>4

\* A set of numbers that is not empty has a least one.
LEMMA HasMin ==
    ASSUME NEW T \in SUBSET Nat, T # {}
    PROVE  \E x \in T : \A y \in T : x <= y
<1>1. PICK x \in T : \A y \in T : ~(<<y, x>> \in OpToRel(<, Nat))
  <2>1. IsWellFoundedOn(OpToRel(<, Nat), Nat)
    BY ZenonT(40), NatLessThanWellFounded
  <2> HIDE DEF OpToRel
  <2> QED BY Zenon, <2>1, WFMin
<1>2. ASSUME NEW y \in T PROVE x <= y
  <2>1. x \in Nat /\ y \in Nat
    BY Zenon
  <2>2. ~(y < x)
    BY Zenon, <1>1, <2>1 DEF OpToRel
  <2> QED BY SMTT(30), <2>1, <2>2
<1> QED BY Zenon, <1>2

\* The n-th process of a walk, f[n], and the walk of M steps.
Node(l, i, f, n) ==
    IF n = 1 THEN l.head[i]
    ELSE LET p == f[n - 1] IN IF p = NULL THEN NULL ELSE l.next[p]

Follows(l, i, M, f) == f = [n \in 1..M |-> Node(l, i, f, n)]

\* There is such a walk of every length.
LEMMA WalkExists ==
    ASSUME NEW l, NEW i, NEW M \in Nat
    PROVE  \E f : Follows(l, i, M, f)
<1> DEFINE T == {m \in Nat : \E f : Follows(l, i, m, f)}
<1>1. 0 \in T
  <2> DEFINE f == [n \in 1..0 |-> NULL]
  <2>1. Follows(l, i, 0, f)
    BY DEF Follows
  <2> QED BY Zenon, <2>1
<1>2. ASSUME NEW m \in Nat, m \in T PROVE m + 1 \in T
  <2>1. PICK f : Follows(l, i, m, f)
    BY Zenon, <1>2
  <2> DEFINE g == [n \in 1..(m + 1) |-> IF n <= m THEN f[n] ELSE Node(l, i, f, m + 1)]
  <2>2. ASSUME NEW n \in 1..(m + 1) PROVE g[n] = Node(l, i, g, n)
    <3>1. CASE n <= m
      <4>1. n \in 1..m /\ g[n] = f[n]
        BY <3>1
      <4>2. f[n] = Node(l, i, f, n)
        BY Zenon, <2>1, <4>1 DEF Follows
      <4>3. n # 1 => g[n - 1] = f[n - 1]
        BY <3>1
      <4> QED BY Zenon, <4>1, <4>2, <4>3 DEF Node
    <3>2. CASE n = m + 1
      <4>1. g[n] = Node(l, i, f, n)
        BY <3>2
      <4>2. n # 1 => g[n - 1] = f[n - 1]
        BY <3>2
      <4> QED BY Zenon, <4>1, <4>2 DEF Node
    <3> QED BY <3>1, <3>2
  <2>3. Follows(l, i, m + 1, g)
    BY Zenon, <2>2 DEF Follows
  <2> HIDE DEF g
  <2>4. \E h : Follows(l, i, m + 1, h)
    BY Zenon, <2>3
  <2> QED BY <2>4
<1>3. Nat \subseteq T
  <2> HIDE DEF T
  <2> QED BY Zenon, <1>1, <1>2, SetInduction
<1> QED BY Zenon, <1>3

\* The chain is the part of the walk before its end.
LEMMA ChainIs ==
    ASSUME NEW l, NEW i
    PROVE  LET M == Cardinality(Procs) + 1 IN
           \E f : /\ Follows(l, i, M, f)
                  /\ Chain(l, i) = [n \in {m \in 1..M : f[m] # NULL} |-> f[n]]
<1> DEFINE M == Cardinality(Procs) + 1
           f == CHOOSE g : Follows(l, i, M, g)
<1>1. M \in Nat
  BY FS_CardinalityType, ProcListsAssumption
<1>2. \E g : Follows(l, i, M, g)
  BY Zenon, <1>1, WalkExists
<1>3. Follows(l, i, M, f)
  BY Zenon, <1>2
<1>4. Chain(l, i) = [n \in {m \in 1..M : f[m] # NULL} |-> f[n]]
  BY Zenon DEF Chain, Follows, Node
<1> QED BY Zenon, <1>3, <1>4

\* A walk along a list meets each process of the list once, and ends.
LEMMA ChainOf ==
    ASSUME NEW l, NEW i, NEW S \in SUBSET Procs, ListOf(l, i, S)
    PROVE  /\ Threads(l, i, S)
           /\ \E k \in Nat : Chain(l, i) \in [1..k -> S]
<1> DEFINE C == Cardinality(Procs)
           M == C + 1
<1>1. C \in Nat /\ M \in Nat /\ IsFiniteSet(Procs)
  BY FS_CardinalityType, ProcListsAssumption
<1>2. PICK f : /\ Follows(l, i, M, f)
               /\ Chain(l, i) = [n \in {m \in 1..M : f[m] # NULL} |-> f[n]]
  BY Zenon, ChainIs
<1>0. PICK N \in Nat : \E r \in [Procs -> 0..N] : Linked(l, i, S, r)
  BY Zenon DEF ListOf
<1>3. PICK r \in [Procs -> 0..N] : Linked(l, i, S, r)
  BY Zenon, <1>0
<1>4. /\ l.head[i] \in S \cup {NULL} /\ NULL \notin S
      /\ \A q \in S :
          /\ q = l.head[i] <=> l.prev[q] = NULL
          /\ l.next[q] \in S \cup {NULL}
          /\ l.prev[q] \in S \cup {NULL}
          /\ l.next[q] # NULL => l.prev[l.next[q]] = q /\ r[l.next[q]] < r[q]
          /\ l.prev[q] # NULL => l.next[l.prev[q]] = q
  BY Zenon, <1>3, ProcListsAssumption DEF Linked
<1> HIDE DEF M
<1>5. /\ 1 \in 1..M /\ f[1] = l.head[i]
      /\ \A n \in Nat : n + 1 \in 1..M /\ n # 0 =>
            n \in 1..M /\ f[n + 1] = IF f[n] = NULL THEN NULL ELSE l.next[f[n]]
  <2>1. \A n \in 1..M : f[n] = Node(l, i, f, n)
    BY Zenon, <1>2 DEF Follows
  <2>2. 1 \in 1..M
    BY <1>1 DEF M
  <2>3. f[1] = l.head[i]
    BY Zenon, <2>1, <2>2 DEF Node
  <2>4. ASSUME NEW n \in Nat, n + 1 \in 1..M, n # 0
        PROVE  n \in 1..M /\ f[n + 1] = IF f[n] = NULL THEN NULL ELSE l.next[f[n]]
    <3>1. n \in 1..M /\ n + 1 # 1 /\ (n + 1) - 1 = n
      BY <1>1, <2>4
    <3>2. f[n + 1] = Node(l, i, f, n + 1)
      BY Zenon, <2>1, <2>4
    <3> QED BY Zenon, <3>1, <3>2 DEF Node
  <2> QED BY Zenon, <2>2, <2>3, <2>4
\* The walk stays in the list; ranks fall along it.
<1>6. \A n \in Nat : n \in 1..M => f[n] \in S \cup {NULL}
  <2> DEFINE T == {n \in Nat : n \in 1..M => f[n] \in S \cup {NULL}}
  <2>1. 0 \in T
    OBVIOUS
  <2>2. ASSUME NEW n \in Nat, n \in T PROVE n + 1 \in T
    <3> SUFFICES ASSUME n + 1 \in 1..M PROVE f[n + 1] \in S \cup {NULL}
      OBVIOUS
    <3>1. CASE n = 0
      BY <1>4, <1>5, <3>1
    <3>2. CASE n # 0
      BY Zenon, <1>4, <1>5, <2>2, <3>2
    <3> QED BY Zenon, <3>1, <3>2
  <2>3. Nat \subseteq T
    <3> HIDE DEF T
    <3> QED BY Zenon, <2>1, <2>2, SetInduction
  <2> QED BY Zenon, <2>3
<1>7. ASSUME NEW n \in Nat, n + 1 \in 1..M, n # 0, f[n + 1] # NULL
      PROVE  /\ n \in 1..M /\ f[n] \in S /\ f[n + 1] \in S
             /\ l.next[f[n]] = f[n + 1] /\ l.prev[f[n + 1]] = f[n]
             /\ r[f[n + 1]] < r[f[n]]
  <2>1. n \in 1..M /\ f[n] \in S \cup {NULL} /\ f[n + 1] \in S \cup {NULL} /\ n + 1 \in Nat
    BY <1>5, <1>6, <1>7
  <2>2. f[n] # NULL /\ l.next[f[n]] = f[n + 1]
    BY Zenon, <1>5, <1>7
  <2> QED BY Zenon, <1>4, <1>7, <2>1, <2>2
<1>8. \A n \in Nat : n \in 1..M /\ f[n] # NULL =>
         \A m \in 1..(n - 1) : f[m] \in S /\ r[f[n]] < r[f[m]]
  <2> DEFINE T == {n \in Nat : n \in 1..M /\ f[n] # NULL =>
                     \A m \in 1..(n - 1) : f[m] \in S /\ r[f[n]] < r[f[m]]}
  <2>1. 0 \in T
    OBVIOUS
  <2>2. ASSUME NEW n \in Nat, n \in T PROVE n + 1 \in T
    <3> SUFFICES ASSUME n + 1 \in 1..M, f[n + 1] # NULL, NEW m \in 1..n
                 PROVE  f[m] \in S /\ r[f[n + 1]] < r[f[m]]
      OBVIOUS
    <3>1. n # 0
      OBVIOUS
    <3>2. n \in 1..M /\ f[n] \in S /\ f[n] # NULL /\ f[n + 1] \in S /\ r[f[n + 1]] < r[f[n]]
      BY Zenon, <1>4, <1>7, <3>1
    <3>3. CASE m = n
      BY Zenon, <3>2, <3>3
    <3>4. CASE m # n
      <4>1. m \in 1..(n - 1)
        BY <3>4
      <4>2. f[m] \in S /\ r[f[n]] < r[f[m]]
        BY Zenon, <2>2, <3>2, <4>1
      <4>3. r[f[m]] \in Nat /\ r[f[n]] \in Nat /\ r[f[n + 1]] \in Nat
        BY <3>2, <4>2
      <4> QED BY <3>2, <4>2, <4>3
    <3> QED BY Zenon, <3>3, <3>4
  <2>3. Nat \subseteq T
    <3> HIDE DEF T
    <3> QED BY Zenon, <2>1, <2>2, SetInduction
  <2> QED BY Zenon, <2>3
\* So it ends: there are not enough processes for M steps.
<1>9. \E n \in 1..M : f[n] = NULL
  <2> SUFFICES ASSUME \A n \in 1..M : f[n] # NULL PROVE FALSE
    BY Zenon
  <2>1. \A n \in 1..M : n \in Nat /\ f[n] \in Procs
    BY <1>6
  <2> DEFINE g == [n \in 1..M |-> f[n]]
  <2>2. g \in [1..M -> Procs]
    BY Zenon, <2>1
  <2>3. IsFiniteSet(1..M) /\ Cardinality(Procs) < Cardinality(1..M)
    BY <1>1, FS_Interval DEF M
  <2>4. PICK x \in 1..M, y \in 1..M : x # y /\ g[x] = g[y]
    <3> HIDE DEF g
    <3> QED BY Zenon, <1>1, <2>2, <2>3, FS_PigeonHole
  <2>5. f[x] = f[y] /\ x \in Nat /\ y \in Nat
    BY Zenon, <2>1, <2>4
  <2>6. CASE x < y
    <3>1. x \in 1..(y - 1)
      BY <2>6
    <3>2. r[f[y]] < r[f[x]] /\ r[f[x]] \in Nat
      BY <1>8, <2>5, <3>1
    <3> QED BY <2>5, <3>2
  <2>7. CASE y < x
    <3>1. y \in 1..(x - 1)
      BY <2>7
    <3>2. r[f[x]] < r[f[y]] /\ r[f[y]] \in Nat
      BY <1>8, <2>5, <3>1
    <3> QED BY <2>5, <3>2
  <2> QED BY <2>4, <2>6, <2>7
<1>10. PICK z \in 1..M : f[z] = NULL /\ \A n \in 1..M : f[n] = NULL => z <= n
  <2> DEFINE T == {n \in 1..M : f[n] = NULL}
  <2>1. T \in SUBSET Nat /\ T # {}
    BY <1>9
  <2>2. \E x \in T : \A y \in T : x <= y
    <3> HIDE DEF T
    <3> QED BY Zenon, <2>1, HasMin
  <2> QED BY Zenon, <2>2
<1>11. {m \in 1..M : f[m] # NULL} = 1..(z - 1)
  <2>1. ASSUME NEW m \in 1..M, f[m] # NULL PROVE m \in 1..(z - 1)
    <3>1. CASE z < m
      <4>1. z \in 1..(m - 1) /\ m \in Nat
        BY <3>1
      <4> QED BY Zenon, <1>4, <1>8, <1>10, <2>1, <4>1
    <3>2. z # m
      BY Zenon, <1>10, <2>1
    <3> QED BY <3>1, <3>2
  <2>2. ASSUME NEW m \in 1..(z - 1) PROVE m \in 1..M /\ f[m] # NULL
    <3>1. m \in 1..M /\ ~(z <= m)
      BY SMTT(20), <1>1
    <3> QED BY Zenon, <1>10, <3>1
  <2> QED BY Zenon, <2>1, <2>2
<1> DEFINE k == z - 1
           c == Chain(l, i)
<1>12. /\ k \in Nat /\ c = [n \in 1..k |-> f[n]] /\ k + 1 \in 1..M /\ f[k + 1] = NULL
       /\ \A n \in 1..k : n \in Nat /\ n \in 1..M /\ f[n] \in S /\ f[n] # NULL
  <2>1. k \in Nat /\ k + 1 = z
    OBVIOUS
  <2>2. c = [n \in 1..k |-> f[n]]
    BY Zenon, <1>2, <1>11
  <2>3. ASSUME NEW n \in 1..k PROVE n \in Nat /\ n \in 1..M /\ f[n] \in S /\ f[n] # NULL
    <3>1. n \in Nat
      OBVIOUS
    <3>2. n \in 1..M /\ f[n] # NULL
      BY Zenon, <1>11
    <3> QED BY Zenon, <1>6, <3>1, <3>2
  <2> QED BY Zenon, <1>10, <2>1, <2>2, <2>3
<1> HIDE DEF k, c
<1>13. \A q \in S : \E n \in 1..k : f[n] = q
  <2> DEFINE T == {q \in S : ~\E n \in 1..k : f[n] = q}
             U == {N - r[q] : q \in T}
  <2> SUFFICES ASSUME T # {} PROVE FALSE
    BY Zenon
  <2>1. U \in SUBSET Nat /\ U # {}
    <3>1. \A q \in T : N - r[q] \in Nat
      BY <1>3
    <3> QED BY Zenon, <3>1
  <2>2. PICK x \in U : \A y \in U : x <= y
    <3> HIDE DEF U
    <3> QED BY Zenon, <2>1, HasMin
  <2>3. PICK q \in T : \A s \in T : N - r[q] <= N - r[s]
    BY Zenon, <2>2
  <2>4. q \in S /\ ~\E n \in 1..k : f[n] = q
    BY Zenon
  <2>5. CASE l.prev[q] = NULL
    <3>1. q = f[1]
      BY Zenon, <1>4, <1>5, <2>4, <2>5
    <3>2. 1 \in 1..k
      <4>1. f[1] # NULL
        BY Zenon, <1>4, <2>4, <3>1
      <4>2. k # 0
        BY SMTT(30), <1>12, <4>1
      <4> QED BY <1>12, <4>2
    <3> QED BY Zenon, <2>4, <3>1, <3>2
  <2>6. CASE l.prev[q] # NULL
    <3>1. PICK s \in S : s = l.prev[q] /\ l.next[s] = q /\ q # NULL
      BY Zenon, <1>4, <2>4, <2>6
    <3>2. r[q] < r[s] /\ r[q] \in Nat /\ r[s] \in Nat /\ r[s] <= N /\ r[q] <= N
      <4>1. r[q] < r[s]
        BY Zenon, <1>4, <3>1
      <4> QED BY <1>3, <2>4, <4>1
    <3>3. s \notin T
      BY <2>3, <3>2
    <3>4. PICK n \in 1..k : f[n] = s
      BY Zenon, <3>3
    <3>5. n \in Nat /\ n # 0 /\ n + 1 \in 1..M /\ f[n] # NULL
      <4>1. n \in Nat /\ n # 0 /\ n + 1 \in 1..M
        BY SMTT(30), <1>12
      <4> QED BY Zenon, <1>12, <4>1
    <3>6. f[n + 1] = q
      BY Zenon, <1>5, <3>1, <3>4, <3>5
    <3>7. n + 1 \in 1..k
      <4>1. n # k
        BY Zenon, <1>12, <3>1, <3>6
      <4> QED BY SMTT(30), <1>12, <4>1
    <3> QED BY Zenon, <2>4, <3>6, <3>7
  <2> QED BY Zenon, <2>5, <2>6
<1>14. DOMAIN c = 1..k /\ \A n \in 1..k : c[n] = f[n]
  BY Zenon, <1>12
<1>15. Range(c) = S
  <2>1. Range(c) = {c[n] : n \in 1..k}
    BY Zenon, <1>14 DEF Range
  <2>2. ASSUME NEW n \in 1..k PROVE c[n] \in S
    BY Zenon, <1>12, <1>14
  <2>3. ASSUME NEW q \in S PROVE \E n \in 1..k : c[n] = q
    BY Zenon, <1>13, <1>14
  <2> HIDE DEF c, k
  <2> QED BY Zenon, <2>1, <2>2, <2>3
<1>16. IsInjective(c)
  <2> SUFFICES ASSUME NEW x \in 1..k, NEW y \in 1..k, f[x] = f[y] PROVE x = y
    BY Zenon, <1>14 DEF IsInjective
  <2>1. /\ x \in Nat /\ y \in Nat /\ x \in 1..M /\ y \in 1..M
        /\ f[x] \in S /\ f[x] # NULL /\ f[y] # NULL /\ r[f[x]] \in Nat
    BY <1>12
  <2>2. CASE x < y
    <3>1. x \in 1..(y - 1)
      BY <2>1, <2>2
    <3>2. r[f[y]] < r[f[x]]
      BY Zenon, <1>8, <2>1, <3>1
    <3> QED BY <2>1, <3>2
  <2>3. CASE y < x
    <3>1. y \in 1..(x - 1)
      BY <2>1, <2>3
    <3>2. r[f[x]] < r[f[y]]
      BY Zenon, <1>8, <2>1, <3>1
    <3> QED BY <2>1, <3>2
  <2> QED BY <2>1, <2>2, <2>3
<1>17. ASSUME NEW n \in DOMAIN c, n > 1 PROVE l.prev[c[n]] = c[n - 1]
  <2>1. n - 1 \in 1..k /\ n - 1 \in Nat /\ n - 1 # 0 /\ (n - 1) + 1 = n /\ n \in 1..k
    BY <1>12, <1>14, <1>17
  <2>2. n \in 1..M /\ f[n] # NULL
    BY Zenon, <1>12, <2>1
  <2>3. l.prev[f[n]] = f[n - 1]
    BY Zenon, <1>7, <2>1, <2>2
  <2> QED BY Zenon, <1>14, <2>1, <2>3
<1>18. c # <<>> => l.prev[c[1]] = NULL
  <2> SUFFICES ASSUME k # 0 PROVE l.prev[c[1]] = NULL
    BY <1>12
  <2>1. 1 \in 1..k
    BY <1>12
  <2>2. c[1] = l.head[i] /\ c[1] \in S
    BY Zenon, <1>5, <1>12, <1>14, <2>1
  <2> QED BY Zenon, <1>4, <2>2
<1>19. Threads(l, i, S)
  BY Zenon, <1>15, <1>16, <1>17, <1>18 DEF Threads, c
<1>20. c \in [1..k -> S]
  BY Zenon, <1>12
<1> QED BY Zenon, <1>12, <1>19, <1>20 DEF c

\* Of numbers in a row there is a largest.
LEMMA HasMax ==
    ASSUME NEW k \in Nat, NEW g \in [1..k -> Nat], k # 0
    PROVE  \E n \in 1..k : \A m \in 1..k : g[m] <= g[n]
<1> DEFINE T == {j \in Nat : j \in 1..k => \E n \in 1..j : \A m \in 1..j : g[m] <= g[n]}
<1>1. 0 \in T
  OBVIOUS
<1>2. ASSUME NEW j \in Nat, j \in T PROVE j + 1 \in T
  <2> SUFFICES ASSUME j + 1 \in 1..k
               PROVE  \E n \in 1..(j + 1) : \A m \in 1..(j + 1) : g[m] <= g[n]
    OBVIOUS
  <2>1. CASE j = 0
    <3>1. 1 \in 1..(j + 1) /\ \A m \in 1..(j + 1) : g[m] <= g[1]
      BY <2>1
    <3> QED BY Zenon, <3>1
  <2>2. CASE j # 0
    <3>1. PICK n \in 1..j : \A m \in 1..j : g[m] <= g[n]
      <4>1. j \in 1..k
        BY <2>2
      <4> QED BY Zenon, <1>2, <4>1
    <3>2. CASE g[j + 1] <= g[n]
      <4>1. n \in 1..(j + 1) /\ \A m \in 1..(j + 1) : g[m] <= g[n]
        BY <3>1, <3>2
      <4> QED BY Zenon, <4>1
    <3>3. CASE ~(g[j + 1] <= g[n])
      <4>1. j + 1 \in 1..(j + 1)
        OBVIOUS
      <4>2. \A m \in 1..(j + 1) : g[m] <= g[j + 1]
        BY SMTT(30), <3>1, <3>3
      <4> QED BY Zenon, <4>1, <4>2
    <3> QED BY Zenon, <3>2, <3>3
  <2> QED BY Zenon, <2>1, <2>2
<1>3. Nat \subseteq T
  <2> HIDE DEF T
  <2> QED BY Zenon, <1>1, <1>2, SetInduction
<1>4. k \in T /\ k \in 1..k
  <2> HIDE DEF T
  <2> QED BY <1>3
<1> QED BY Zenon, <1>4

\* An empty list.
LEMMA EmptyRange == Range(<<>>) = {}
BY DEF Range

\* do_sched() chooses a process of the run list, if there is one.
LEMMA FirstOf ==
    ASSUME NEW l, NEW S \in SUBSET Procs, ListOf(l, "run", S), NEW cc \in [Procs -> Nat]
    PROVE  First(l, cc) \in IF S = {} THEN {Idle} ELSE S
<1> DEFINE c == Chain(l, "run")
           best == {n \in DOMAIN c : \A m \in DOMAIN c : cc[c[m]] <= cc[c[n]]}
<1>1. PICK k \in Nat : c \in [1..k -> S]
  BY Zenon, ChainOf
<1>2. Range(c) = S
  BY Zenon, ChainOf DEF Threads
<1>3. First(l, cc) = IF c = <<>> THEN Idle ELSE c[CHOOSE n \in best : \A m \in best : n <= m]
  BY Zenon DEF First
<1> HIDE DEF c
<1>4. CASE k = 0
  <2>1. c = <<>>
    BY <1>1, <1>4
  <2>2. S = {}
    BY Zenon, <1>2, <2>1, EmptyRange
  <2> QED BY Zenon, <1>3, <2>1, <2>2
<1>5. CASE k # 0
  <2> DEFINE g == [n \in 1..k |-> cc[c[n]]]
  <2>1. g \in [1..k -> Nat]
    BY Zenon, <1>1
  <2>2. PICK n \in 1..k : \A m \in 1..k : g[m] <= g[n]
    <3> HIDE DEF g
    <3> QED BY Zenon, <1>5, <2>1, HasMax
  <2>3. n \in best /\ best \in SUBSET Nat
    <3>1. DOMAIN c = 1..k
      BY Zenon, <1>1
    <3>2. \A m \in 1..k : cc[c[m]] <= cc[c[n]]
      BY Zenon, <2>2
    <3>3. 1..k \subseteq Nat
      OBVIOUS
    <3> QED BY Zenon, <3>1, <3>2, <3>3
  <2> DEFINE x == CHOOSE y \in best : \A m \in best : y <= m
  <2>4. x \in best
    <3> HIDE DEF best
    <3>1. \E y \in best : \A m \in best : y <= m
      BY Zenon, <2>3, HasMin
    <3> QED BY Zenon, <3>1
  <2>5. c # <<>>
    BY <1>1, <1>5
  <2>6. c[x] \in S
    BY Zenon, <1>1, <2>4
  <2> QED BY Zenon, <1>3, <2>5, <2>6
<1> QED BY Zenon, <1>4, <1>5

----------------------------------------------------------------------------
(* What the operations do to the lists. *)

\* The run list holds the processes of S, and no other process has links.
RunList(l, S) ==
    /\ l \in ListType({"run"}) /\ ListOf(l, "run", S)
    /\ \A q \in Procs \ S : l.next[q] = NULL /\ l.prev[q] = NULL

\* The buckets hold the processes F tells, each in one bucket.
SleepLists(l, F) ==
    /\ l \in ListType(Buckets)
    /\ \A i \in Buckets : F[i] \in SUBSET Procs /\ ListOf(l, i, F[i])
    /\ \A i, j \in Buckets : i # j => F[i] \cap F[j] = {}

\* The links of a list stay in the list.
LEMMA Inside ==
    ASSUME NEW l, NEW i, NEW S \in SUBSET Procs, ListOf(l, i, S)
    PROVE  /\ l.head[i] \in S \cup {NULL}
           /\ \A q \in S : l.next[q] \in S \cup {NULL} /\ l.prev[q] \in S \cup {NULL}
BY Zenon DEF ListOf, Linked

\* A record of links.
LEMMA Fields ==
    ASSUME NEW I, NEW l \in ListType(I)
    PROVE  l.head \in [I -> Ref] /\ l.next \in [Procs -> Ref] /\ l.prev \in [Procs -> Ref]
BY Zenon DEF ListType

\* runnable() inserts a process that is not in the run list.
LEMMA PushRunOf ==
    ASSUME NEW S \in SUBSET Procs, NEW l, RunList(l, S), NEW p \in Procs \ S
    PROVE  RunList(PushRun(l, p), S \cup {p})
<1> DEFINE h == l.head["run"]
           H == [l.head EXCEPT !["run"] = p]
           X == IF h = NULL THEN l.next ELSE [l.next EXCEPT ![p] = h]
           P == IF h = NULL THEN l.prev ELSE [l.prev EXCEPT ![h] = p]
           m == PushRun(l, p)
<1>1. /\ l.head \in [{"run"} -> Ref] /\ l.next \in [Procs -> Ref] /\ l.prev \in [Procs -> Ref]
      /\ h \in S \cup {NULL} /\ NULL \notin Procs /\ p \in Ref /\ h \in Ref
      /\ \A q \in Procs \ S : l.next[q] = NULL /\ l.prev[q] = NULL
      /\ ListOf(l, "run", S)
  BY Zenon, Fields, Inside, ProcListsAssumption DEF RunList, Ref
<1>2. m = [head |-> H, next |-> X, prev |-> P]
  BY Zenon DEF PushRun
<1>3. /\ H \in [{"run"} -> Ref] /\ X \in [Procs -> Ref] /\ P \in [Procs -> Ref]
      /\ H["run"] = p
      /\ \A q \in Procs : X[q] = IF q = p THEN h ELSE l.next[q]
      /\ \A q \in Procs : P[q] = IF q = h THEN p ELSE l.prev[q]
  BY Zenon, <1>1
<1> HIDE DEF H, X, P
<1>4. /\ m \in ListType({"run"}) /\ m.head["run"] = p
      /\ \A q \in Procs : m.next[q] = IF q = p THEN h ELSE l.next[q]
      /\ \A q \in Procs : m.prev[q] = IF q = h THEN p ELSE l.prev[q]
  <2>1. m \in ListType({"run"}) /\ m.head = H /\ m.next = X /\ m.prev = P
    BY SMTT(20), <1>2, <1>3 DEF ListType
  <2> QED BY Zenon, <1>3, <2>1
<1> HIDE DEF h, m
<1>5. ListOf(m, "run", S \cup {p})
  <2>1. m.next[p] = h /\ m.prev[p] = NULL
    BY Zenon, <1>1, <1>4
  <2>2. \A q \in S : q \in Procs /\ q # p
    BY Zenon
  <2>3. \A q \in S : m.next[q] = l.next[q]
    BY Zenon, <1>4, <2>2
  <2>4. \A q \in S : m.prev[q] = IF q = h THEN p ELSE l.prev[q]
    BY Zenon, <1>4, <2>2
  <2>5. ListOf(l, "run", S) /\ m.head["run"] = p
    BY Zenon, <1>1, <1>4
  <2> QED BY SMTT(20), <2>1, <2>3, <2>4, <2>5, Insert DEF h
<1>6. ASSUME NEW q \in Procs \ (S \cup {p}) PROVE m.next[q] = NULL /\ m.prev[q] = NULL
  BY SMTT(20), <1>1, <1>4
<1>7. RunList(m, S \cup {p})
  BY Zenon, <1>4, <1>5, <1>6 DEF RunList
<1> QED BY Zenon, <1>7 DEF m

\* The removal of a process of list i; the links of the others stay.
LEMMA DetachOf ==
    ASSUME NEW I, NEW i \in I, NEW S \in SUBSET Procs, NEW l \in ListType(I),
           ListOf(l, i, S), NEW p \in S
    PROVE  /\ Detach(l, i, p) \in ListType(I)
           /\ ListOf(Detach(l, i, p), i, S \ {p})
           /\ SameHeads(l, Detach(l, i, p), I \ {i})
           /\ Keeps(l, Detach(l, i, p), Procs \ S)
<1> DEFINE a == l.prev[p]
           b == l.next[p]
           H == IF l.head[i] = p THEN [l.head EXCEPT ![i] = b] ELSE l.head
           X == IF a = NULL THEN l.next ELSE [l.next EXCEPT ![a] = b]
           P == IF b = NULL THEN l.prev ELSE [l.prev EXCEPT ![b] = a]
           m == Detach(l, i, p)
<1>1. /\ l.head \in [I -> Ref] /\ l.next \in [Procs -> Ref] /\ l.prev \in [Procs -> Ref]
      /\ a \in S \cup {NULL} /\ b \in S \cup {NULL} /\ NULL \notin Procs
      /\ a \in Ref /\ b \in Ref
  BY Zenon, Fields, Inside, ProcListsAssumption DEF Ref
<1>2. m = [head |-> H, next |-> X, prev |-> P]
  BY Zenon DEF Detach
<1>3. /\ H \in [I -> Ref] /\ X \in [Procs -> Ref] /\ P \in [Procs -> Ref]
      /\ H[i] = IF l.head[i] = p THEN b ELSE l.head[i]
      /\ \A j \in I \ {i} : H[j] = l.head[j]
      /\ \A q \in Procs : X[q] = IF q = a THEN b ELSE l.next[q]
      /\ \A q \in Procs : P[q] = IF q = b THEN a ELSE l.prev[q]
  <2> HIDE DEF a, b
  <2> QED BY Zenon, <1>1 DEF Ref
<1> HIDE DEF H, X, P
<1>4. m \in ListType(I) /\ m.head = H /\ m.next = X /\ m.prev = P
  BY SMTT(20), <1>2, <1>3 DEF ListType
<1> HIDE DEF m
<1>5. ListOf(m, i, S \ {p})
  <2>1. m.head[i] = IF l.head[i] = p THEN b ELSE l.head[i]
    BY Zenon, <1>3, <1>4
  <2>2. \A q \in S \ {p} : m.next[q] = IF q = a THEN b ELSE l.next[q]
    BY Zenon, <1>3, <1>4
  <2>3. \A q \in S \ {p} : m.prev[q] = IF q = b THEN a ELSE l.prev[q]
    BY Zenon, <1>3, <1>4
  <2> QED BY Zenon, <2>1, <2>2, <2>3, Remove
<1>6. \A j \in I \ {i} : m.head[j] = l.head[j]
  BY Zenon, <1>3, <1>4
<1>7. ASSUME NEW q \in Procs \ S PROVE m.next[q] = l.next[q] /\ m.prev[q] = l.prev[q]
  <2>1. q # a /\ q # b /\ q \in Procs
    <3> HIDE DEF a, b
    <3> QED BY Zenon, <1>1
  <2> QED BY Zenon, <1>3, <1>4, <2>1
<1> QED BY Zenon, <1>4, <1>5, <1>6, <1>7 DEF m, Keeps, SameHeads

\* proc_slot_init(), and the end of not_runnable(), clear the links of a
\* process that is in no list.
LEMMA ClearOf ==
    ASSUME NEW I, NEW l \in ListType(I), NEW p \in Procs
    PROVE  /\ ClearLinks(l, p) \in ListType(I) /\ ClearLinks(l, p).head = l.head
           /\ \A q \in Procs : /\ ClearLinks(l, p).next[q] = IF q = p THEN NULL ELSE l.next[q]
                               /\ ClearLinks(l, p).prev[q] = IF q = p THEN NULL ELSE l.prev[q]
<1>1. l.head \in [I -> Ref] /\ l.next \in [Procs -> Ref] /\ l.prev \in [Procs -> Ref]
  BY Zenon, Fields
<1>2. ClearLinks(l, p) = [head |-> l.head, next |-> [l.next EXCEPT ![p] = NULL],
                          prev |-> [l.prev EXCEPT ![p] = NULL]]
  BY Zenon DEF ClearLinks
<1> DEFINE m == ClearLinks(l, p)
<1> HIDE DEF m
<1>3. m = [head |-> l.head, next |-> [l.next EXCEPT ![p] = NULL],
           prev |-> [l.prev EXCEPT ![p] = NULL]]
  BY Zenon, <1>2 DEF m
<1>4. /\ m \in ListType(I) /\ m.head = l.head
      /\ \A q \in Procs : /\ m.next[q] = IF q = p THEN NULL ELSE l.next[q]
                          /\ m.prev[q] = IF q = p THEN NULL ELSE l.prev[q]
  BY Zenon, <1>1, <1>3 DEF ListType, Ref
<1> QED BY Zenon, <1>4 DEF m

\* Clearing the links of a process that is not runnable changes nothing.
LEMMA ClearRunOf ==
    ASSUME NEW S \in SUBSET Procs, NEW l, RunList(l, S), NEW p \in Procs \ S
    PROVE  RunList(ClearLinks(l, p), S)
<1> DEFINE m == ClearLinks(l, p)
<1>1. /\ m \in ListType({"run"}) /\ m.head = l.head
      /\ \A q \in Procs : /\ m.next[q] = IF q = p THEN NULL ELSE l.next[q]
                          /\ m.prev[q] = IF q = p THEN NULL ELSE l.prev[q]
  BY SMTT(20), ClearOf DEF RunList
<1> HIDE DEF m
<1>2. Keeps(l, m, S)
  BY Zenon, <1>1 DEF Keeps
<1>3. ListOf(m, "run", S)
  BY Zenon, <1>1, <1>2, Undisturbed DEF RunList
<1>4. \A q \in Procs \ S : m.next[q] = NULL /\ m.prev[q] = NULL
  BY Zenon, <1>1 DEF RunList
<1> QED BY Zenon, <1>1, <1>3, <1>4 DEF RunList, m

\* not_runnable() takes a process out of the run list; of one that is not in
\* it (a stopped process that is stopped again) it changes nothing.
LEMMA DetachRunOf ==
    ASSUME NEW S \in SUBSET Procs, NEW l, RunList(l, S), NEW p \in Procs
    PROVE  RunList(DetachRun(l, p), S \ {p})
<1>1. DetachRun(l, p) = ClearLinks(Detach(l, "run", p), p)
  BY Zenon DEF DetachRun
<1>2. CASE p \in S
  <2> DEFINE m == Detach(l, "run", p)
             d == ClearLinks(m, p)
  <2>1. /\ m \in ListType({"run"}) /\ ListOf(m, "run", S \ {p})
        /\ Keeps(l, m, Procs \ S)
    <3> DEFINE J == {"run"}
               r == "run"
    <3>1. r \in J /\ l \in ListType(J) /\ ListOf(l, r, S)
      BY Zenon DEF RunList
    <3> HIDE DEF m, J, r
    <3>2. Detach(l, r, p) \in ListType(J)
      BY Zenon, <1>2, <3>1, DetachOf
    <3>3. ListOf(Detach(l, r, p), r, S \ {p})
      BY Zenon, <1>2, <3>1, DetachOf
    <3>4. Keeps(l, Detach(l, r, p), Procs \ S)
      BY Zenon, <1>2, <3>1, DetachOf
    <3> QED BY Zenon, <3>2, <3>3, <3>4 DEF m, J, r
  <2> HIDE DEF m
  <2>2. /\ d \in ListType({"run"}) /\ d.head = m.head
        /\ \A q \in Procs : /\ d.next[q] = IF q = p THEN NULL ELSE m.next[q]
                            /\ d.prev[q] = IF q = p THEN NULL ELSE m.prev[q]
    BY SMTT(20), <2>1, ClearOf
  <2> HIDE DEF d
  <2>3. ListOf(d, "run", S \ {p})
    <3>1. Keeps(m, d, S \ {p})
      BY Zenon, <2>2 DEF Keeps
    <3>2. S \ {p} \in SUBSET Procs /\ d.head["run"] = m.head["run"]
      BY Zenon, <2>2
    <3> QED BY Zenon, <2>1, <3>1, <3>2, Undisturbed
  <2>4. ASSUME NEW q \in Procs \ (S \ {p}) PROVE d.next[q] = NULL /\ d.prev[q] = NULL
    <3>1. CASE q = p
      BY Zenon, <2>2, <3>1
    <3>2. CASE q # p
      BY Zenon, <2>1, <2>2, <3>2 DEF RunList, Keeps
    <3> QED BY Zenon, <3>1, <3>2
  <2>5. RunList(d, S \ {p})
    BY Zenon, <2>2, <2>3, <2>4 DEF RunList
  <2> QED BY Zenon, <1>1, <2>5 DEF d, m
<1>3. CASE p \notin S
  <2>1. /\ l \in ListType({"run"}) /\ l.head \in [{"run"} -> Ref]
        /\ l.next[p] = NULL /\ l.prev[p] = NULL /\ l.head["run"] # p
    <3>1. l \in ListType({"run"}) /\ l.next[p] = NULL /\ l.prev[p] = NULL
      BY Zenon, <1>3 DEF RunList
    <3>2. l.head["run"] \in S \cup {NULL} /\ p # NULL
      BY Zenon, Inside, ProcListsAssumption DEF RunList
    <3> QED BY Zenon, <1>3, <3>1, <3>2, Fields
  <2>2. Detach(l, "run", p) = [head |-> l.head, next |-> l.next, prev |-> l.prev]
    BY Zenon, <2>1 DEF Detach
  <2>3. l = [head |-> l.head, next |-> l.next, prev |-> l.prev]
    BY Zenon, <2>1 DEF ListType
  <2>4. RunList(ClearLinks(l, p), S)
    BY Zenon, <1>3, ClearRunOf
  <2>5. S \ {p} = S
    BY Zenon, <1>3
  <2> QED BY Zenon, <1>1, <2>2, <2>3, <2>4, <2>5
<1> QED BY Zenon, <1>2, <1>3

\* An operation on one bucket that only writes links of the processes of U.
LEMMA OneBucket ==
    ASSUME NEW F, NEW l, SleepLists(l, F), NEW i \in Buckets, NEW G, NEW U \in SUBSET Procs,
           \A j \in Buckets \ {i} : G[j] = F[j] /\ F[j] \cap U = {}, G[i] \subseteq U,
           NEW m \in ListType(Buckets), ListOf(m, i, G[i]),
           SameHeads(l, m, Buckets \ {i}), Keeps(l, m, Procs \ U)
    PROVE  SleepLists(m, G)
<1>1. ASSUME NEW j \in Buckets PROVE G[j] \in SUBSET Procs /\ ListOf(m, j, G[j])
  <2>1. CASE j = i
    BY Zenon, <2>1
  <2>2. CASE j # i
    <3>1. F[j] \in SUBSET Procs /\ ListOf(l, j, F[j]) /\ G[j] = F[j]
      BY Zenon, <2>2 DEF SleepLists
    <3>2. m.head[j] = l.head[j]
      BY Zenon, <2>2 DEF SameHeads
    <3>3. Keeps(l, m, F[j])
      BY Zenon, <2>2, <3>1 DEF Keeps
    <3>4. ListOf(m, j, F[j])
      BY Zenon, <3>1, <3>2, <3>3, Undisturbed
    <3> QED BY Zenon, <3>1, <3>4
  <2> QED BY Zenon, <2>1, <2>2
<1>2. ASSUME NEW j \in Buckets, NEW k \in Buckets, j # k PROVE G[j] \cap G[k] = {}
  <2>1. CASE j = i
    BY Zenon, <1>2, <2>1
  <2>2. CASE k = i
    BY Zenon, <1>2, <2>2
  <2>3. CASE j # i /\ k # i
    BY Zenon, <1>2, <2>3 DEF SleepLists
  <2> QED BY Zenon, <2>1, <2>2, <2>3
<1> QED BY Zenon, <1>1, <1>2 DEF SleepLists

\* sleep() inserts a process that is in no bucket.
LEMMA PushSleepOf ==
    ASSUME NEW F, NEW l, SleepLists(l, F), NEW i \in Buckets, NEW p \in Procs,
           \A j \in Buckets : p \notin F[j],
           NEW G, G[i] = F[i] \cup {p}, \A j \in Buckets \ {i} : G[j] = F[j]
    PROVE  SleepLists(PushSleep(l, i, p), G)
<1> DEFINE S == F[i]
           h == l.head[i]
           H == [l.head EXCEPT ![i] = p]
           X == [l.next EXCEPT ![p] = h]
           P == IF h = NULL THEN [l.prev EXCEPT ![p] = NULL]
                ELSE [l.prev EXCEPT ![p] = NULL, ![h] = p]
           m == PushSleep(l, i, p)
<1>0. l \in ListType(Buckets) /\ S \in SUBSET Procs /\ ListOf(l, i, S) /\ p \in Procs \ S
  BY Zenon DEF SleepLists
<1> HIDE DEF S
<1>1. /\ l.head \in [Buckets -> Ref] /\ l.next \in [Procs -> Ref] /\ l.prev \in [Procs -> Ref]
      /\ h \in S \cup {NULL} /\ NULL \notin Procs /\ p \in Ref /\ h \in Ref
  BY Zenon, <1>0, Fields, Inside, ProcListsAssumption DEF Ref
<1>2. m = [head |-> H, next |-> X, prev |-> P]
  BY Zenon DEF PushSleep
<1>3. /\ H \in [Buckets -> Ref] /\ X \in [Procs -> Ref] /\ P \in [Procs -> Ref]
      /\ H[i] = p /\ \A j \in Buckets \ {i} : H[j] = l.head[j]
      /\ \A q \in Procs : X[q] = IF q = p THEN h ELSE l.next[q]
      /\ \A q \in Procs : P[q] = IF q = h THEN p ELSE IF q = p THEN NULL ELSE l.prev[q]
  <2> HIDE DEF h
  <2> QED BY Zenon, <1>0, <1>1 DEF Ref
<1> HIDE DEF H, X, P
<1>4. m \in ListType(Buckets) /\ m.head = H /\ m.next = X /\ m.prev = P
  BY SMTT(20), <1>2, <1>3 DEF ListType
<1> HIDE DEF m, h
<1>5. ListOf(m, i, S \cup {p})
  <2>0. p # h /\ \A q \in S : q \in Procs /\ q # p
    BY Zenon, <1>0, <1>1
  <2>1. m.head[i] = p /\ m.next[p] = h /\ m.prev[p] = NULL
    BY Zenon, <1>3, <1>4, <2>0
  <2>2. \A q \in S : m.next[q] = l.next[q]
    BY Zenon, <1>3, <1>4, <2>0
  <2>3. \A q \in S : m.prev[q] = IF q = h THEN p ELSE l.prev[q]
    BY Zenon, <1>3, <1>4, <2>0
  <2> QED BY SMTT(20), <1>0, <2>1, <2>2, <2>3, Insert DEF h
<1>6. SameHeads(l, m, Buckets \ {i})
  BY Zenon, <1>3, <1>4 DEF SameHeads
<1>7. Keeps(l, m, Procs \ (S \cup {p}))
  <2>1. ASSUME NEW q \in Procs \ (S \cup {p}) PROVE q # h /\ q # p /\ q \in Procs
    BY Zenon, <1>0, <1>1
  <2> QED BY Zenon, <1>3, <1>4, <2>1 DEF Keeps
<1> DEFINE U == S \cup {p}
<1>8. /\ U \in SUBSET Procs /\ G[i] \subseteq U /\ ListOf(m, i, G[i]) /\ Keeps(l, m, Procs \ U)
      /\ \A j \in Buckets \ {i} : G[j] = F[j] /\ F[j] \cap U = {}
  <2>1. G[i] = U
    BY Zenon DEF S
  <2>2. ASSUME NEW j \in Buckets \ {i} PROVE F[j] \cap U = {}
    BY Zenon DEF SleepLists, S
  <2> QED BY Zenon, <1>0, <1>5, <1>7, <2>1, <2>2
<1> HIDE DEF U
<1> QED BY Zenon, <1>4, <1>6, <1>8, OneBucket DEF m

\* From F to G, bucket i loses the processes of R.
Loses(F, G, i, R) == G[i] = F[i] \ R /\ \A j \in Buckets \ {i} : G[j] = F[j]

\* wakeup() and wakeup_proc() take a process out of its bucket.
LEMMA DetachSleepOf ==
    ASSUME NEW F, NEW l, SleepLists(l, F), NEW i \in Buckets, NEW p \in F[i],
           NEW G, Loses(F, G, i, {p})
    PROVE  SleepLists(Detach(l, i, p), G)
<1> DEFINE S == F[i]
           m == Detach(l, i, p)
<1>0. l \in ListType(Buckets) /\ S \in SUBSET Procs /\ ListOf(l, i, S) /\ p \in S
  BY Zenon DEF SleepLists
<1>1. /\ m \in ListType(Buckets) /\ ListOf(m, i, S \ {p})
      /\ SameHeads(l, m, Buckets \ {i})
      /\ Keeps(l, m, Procs \ S)
  <2> HIDE DEF S
  <2>1. m \in ListType(Buckets)
    BY Zenon, <1>0, DetachOf
  <2>2. ListOf(m, i, S \ {p})
    BY Zenon, <1>0, DetachOf
  <2>3. SameHeads(l, m, Buckets \ {i})
    BY Zenon, <1>0, DetachOf
  <2>4. Keeps(l, m, Procs \ S)
    BY Zenon, <1>0, DetachOf
  <2> QED BY Zenon, <2>1, <2>2, <2>3, <2>4
<1>2. /\ G[i] \subseteq S /\ ListOf(m, i, G[i])
      /\ \A j \in Buckets \ {i} : G[j] = F[j] /\ F[j] \cap S = {}
  <2>1. ASSUME NEW j \in Buckets \ {i} PROVE F[j] \cap S = {}
    BY Zenon DEF SleepLists
  <2> QED BY Zenon, <1>1, <2>1 DEF Loses
<1> HIDE DEF S, m
<1> QED BY Zenon, <1>0, <1>1, <1>2, OneBucket DEF m

\* proc_slot_init() clears the links of a process that is in no bucket.
LEMMA ClearSleepOf ==
    ASSUME NEW F, NEW l, SleepLists(l, F), NEW p \in Procs, \A j \in Buckets : p \notin F[j]
    PROVE  SleepLists(ClearLinks(l, p), F)
<1> DEFINE m == ClearLinks(l, p)
<1>1. /\ m \in ListType(Buckets) /\ m.head = l.head
      /\ \A q \in Procs : /\ m.next[q] = IF q = p THEN NULL ELSE l.next[q]
                          /\ m.prev[q] = IF q = p THEN NULL ELSE l.prev[q]
  BY SMTT(20), ClearOf DEF SleepLists
<1> HIDE DEF m
<1>2. ASSUME NEW j \in Buckets PROVE ListOf(m, j, F[j])
  <2>1. F[j] \in SUBSET Procs /\ ListOf(l, j, F[j]) /\ m.head[j] = l.head[j]
    BY Zenon, <1>1 DEF SleepLists
  <2>2. Keeps(l, m, F[j])
    BY Zenon, <1>1, <2>1 DEF Keeps
  <2> QED BY Zenon, <2>1, <2>2, Undisturbed
<1> QED BY Zenon, <1>1, <1>2 DEF SleepLists, m

\* do_sched() gives out quanta.
LEMMA QuantumOf ==
    ASSUME NEW l, NEW cc \in [Procs -> Nat]
    PROVE  Quantum(l, cc) \in [Procs -> Nat]
BY Zenon, ProcListsAssumption DEF Quantum

\* The lists after n processes of bucket i, in the order c, have been passed.
After(c, i, W, f, n) ==
    IF n = 0 THEN [run |-> run, slp |-> slp]
    ELSE LET l == f[n - 1] IN
         IF c[n] \notin W THEN l
         ELSE [run |-> PushRun(l.run, c[n]), slp |-> Detach(l.slp, i, c[n])]

Passes(c, i, W, k, f) == f = [n \in 0..k |-> After(c, i, W, f, n)]

\* wakeup() comes to the end of the bucket.
LEMMA PassesExists ==
    ASSUME NEW c, NEW i, NEW W, NEW k \in Nat
    PROVE  \E f : Passes(c, i, W, k, f)
<1> DEFINE T == {m \in Nat : \E f : Passes(c, i, W, m, f)}
<1>1. 0 \in T
  <2> DEFINE f == [n \in 0..0 |-> [run |-> run, slp |-> slp]]
  <2>1. Passes(c, i, W, 0, f)
    BY DEF Passes, After
  <2> HIDE DEF f
  <2> QED BY Zenon, <2>1
<1>2. ASSUME NEW m \in Nat, m \in T PROVE m + 1 \in T
  <2>1. PICK f : Passes(c, i, W, m, f)
    BY Zenon, <1>2
  <2> DEFINE g == [n \in 0..(m + 1) |-> IF n <= m THEN f[n] ELSE After(c, i, W, f, m + 1)]
  <2>2. ASSUME NEW n \in 0..(m + 1) PROVE g[n] = After(c, i, W, g, n)
    <3>1. n # 0 => g[n - 1] = f[n - 1]
      OBVIOUS
    <3>2. CASE n <= m
      <4>1. n \in 0..m /\ g[n] = f[n]
        BY <3>2
      <4>2. f[n] = After(c, i, W, f, n)
        BY Zenon, <2>1, <4>1 DEF Passes
      <4> QED BY Zenon, <3>1, <4>1, <4>2 DEF After
    <3>3. CASE n = m + 1
      <4>1. g[n] = After(c, i, W, f, n)
        BY <3>3
      <4> QED BY Zenon, <3>1, <4>1 DEF After
    <3> QED BY <3>2, <3>3
  <2>3. Passes(c, i, W, m + 1, g)
    BY Zenon, <2>2 DEF Passes
  <2> HIDE DEF g
  <2>4. \E h : Passes(c, i, W, m + 1, h)
    BY Zenon, <2>3
  <2> QED BY <2>4
<1>3. Nat \subseteq T
  <2> HIDE DEF T
  <2> QED BY Zenon, <1>1, <1>2, SetInduction
<1> QED BY Zenon, <1>3

\* wakeup() moves the processes of W from their bucket to the run list.
LEMMA WalkOf ==
    ASSUME NEW S \in SUBSET Procs, RunList(run, S), NEW F, SleepLists(slp, F),
           NEW i \in Buckets, NEW W \in SUBSET F[i], F[i] \cap S = {},
           NEW G, Loses(F, G, i, W)
    PROVE  RunList(Walk(i, W).run, S \cup W) /\ SleepLists(Walk(i, W).slp, G)
<1> DEFINE c == Chain(slp, i)
<1>1. ListOf(slp, i, F[i]) /\ F[i] \in SUBSET Procs
  BY Zenon DEF SleepLists
<1>2. PICK k \in Nat : c \in [1..k -> F[i]]
  BY Zenon, <1>1, ChainOf
<1>3. IsInjective(c) /\ Range(c) = F[i]
  BY Zenon, <1>1, ChainOf DEF Threads
<1> DEFINE f == CHOOSE g : Passes(c, i, W, k, g)
<1>4. Passes(c, i, W, k, f)
  <2> HIDE DEF c
  <2>1. \E g : Passes(c, i, W, k, g)
    BY Zenon, PassesExists
  <2> QED BY Zenon, <2>1
<1>5. Walk(i, W) = f[k]
  <2>1. Len(c) = k
    <3> HIDE DEF c
    <3>1. c \in Seq(F[i])
      BY SMTT(20), <1>2
    <3> QED BY SMTT(20), <1>2, <3>1
  <2> QED BY Zenon, <2>1 DEF Walk, Passes, After
<1> HIDE DEF c, f
<1> DEFINE Done(n) == {c[m] : m \in 1..n} \cap W
           Left(n) == [j \in Buckets |-> IF j = i THEN F[i] \ Done(n) ELSE F[j]]
           T == {n \in Nat : n \in 0..k => /\ RunList(f[n].run, S \cup Done(n))
                                           /\ SleepLists(f[n].slp, Left(n))}
<1>6. 0 \in T
  <2>1. f[0] = [run |-> run, slp |-> slp]
    BY <1>4 DEF Passes, After
  <2>2. S \cup Done(0) = S /\ Done(0) = {}
    <3>1. 1..0 = {}
      OBVIOUS
    <3> QED BY Zenon, <3>1
  <2>3. \A j \in Buckets : Left(0)[j] = F[j]
    BY Zenon, <2>2
  <2>4. RunList(f[0].run, S \cup Done(0))
    <3>1. f[0].run = run
      BY <2>1
    <3> HIDE DEF Done
    <3> QED BY Zenon, <2>2, <3>1
  <2>5. SleepLists(f[0].slp, Left(0))
    <3> HIDE DEF Left
    <3>1. f[0].slp = slp
      BY <2>1
    <3> QED BY Zenon, <2>3, <3>1 DEF SleepLists
  <2> HIDE DEF Done, Left
  <2> QED BY Zenon, <2>4, <2>5
<1>7. ASSUME NEW n \in Nat, n \in T PROVE n + 1 \in T
  <2> SUFFICES ASSUME n + 1 \in 0..k
               PROVE  /\ RunList(f[n + 1].run, S \cup Done(n + 1))
                      /\ SleepLists(f[n + 1].slp, Left(n + 1))
    <3> HIDE DEF Done, Left
    <3> QED OBVIOUS
  <2> DEFINE x == c[n + 1]
  <2>1. n \in 0..k /\ n + 1 \in 1..k /\ n + 1 # 0 /\ (n + 1) - 1 = n /\ 1..n \subseteq 1..k
        /\ n + 1 \notin 1..n /\ 1..(n + 1) = (1..n) \cup {n + 1}
    OBVIOUS
  <2>2. RunList(f[n].run, S \cup Done(n)) /\ SleepLists(f[n].slp, Left(n))
    <3> HIDE DEF Done, Left
    <3> QED BY Zenon, <1>7, <2>1
  <2>3. f[n + 1] = After(c, i, W, f, n + 1)
    BY Zenon, <1>4 DEF Passes
  <2>4. x \in F[i] /\ x \notin {c[m] : m \in 1..n}
    <3>1. x \in F[i]
      BY Zenon, <1>2, <2>1
    <3>2. ASSUME NEW m \in 1..n PROVE c[m] # x
      <4>1. m \in 1..k /\ m # n + 1
        BY Zenon, <2>1
      <4>2. \A a, b \in DOMAIN c : c[a] = c[b] => a = b
        BY Zenon, <1>3 DEF IsInjective
      <4>3. DOMAIN c = 1..k
        BY Zenon, <1>2
      <4> QED BY Zenon, <2>1, <4>1, <4>2, <4>3
    <3> QED BY Zenon, <3>1, <3>2
  <2>5. {c[m] : m \in 1..(n + 1)} = {c[m] : m \in 1..n} \cup {x}
    BY Zenon, <2>1
  <2>6. CASE x \notin W
    <3>1. f[n + 1] = f[n]
      BY Zenon, <2>1, <2>3, <2>6 DEF After
    <3>2. Done(n + 1) = Done(n)
      BY Zenon, <2>5, <2>6
    <3>3. Left(n + 1) = Left(n)
      BY Zenon, <3>2
    <3> HIDE DEF Done, Left
    <3> QED BY Zenon, <2>2, <3>1, <3>2, <3>3
  <2>7. CASE x \in W
    <3> DEFINE l == f[n]
    <3>1. /\ f[n + 1].run = PushRun(l.run, x)
          /\ f[n + 1].slp = Detach(l.slp, i, x)
      <4>1. f[n + 1] = [run |-> PushRun(l.run, x), slp |-> Detach(l.slp, i, x)]
        BY Zenon, <2>1, <2>3, <2>7 DEF After
      <4> HIDE DEF x, l
      <4> QED BY <4>1
    <3>2. Done(n + 1) = Done(n) \cup {x} /\ x \notin Done(n)
      BY Zenon, <2>4, <2>5, <2>7
    <3>3. x \in Procs \ (S \cup Done(n)) /\ S \cup Done(n) \in SUBSET Procs
      <4>1. Done(n) \in SUBSET Procs
        BY Zenon, <1>1
      <4> QED BY Zenon, <1>1, <2>4, <3>2, <4>1
    <3>4. S \cup Done(n + 1) = (S \cup Done(n)) \cup {x}
      BY Zenon, <3>2
    <3>5. x \in Left(n)[i] /\ Loses(Left(n), Left(n + 1), i, {x})
      <4>1. /\ Left(n)[i] = F[i] \ Done(n) /\ Left(n + 1)[i] = F[i] \ Done(n + 1)
            /\ \A j \in Buckets \ {i} : Left(n + 1)[j] = Left(n)[j]
        <5> HIDE DEF Done
        <5> QED BY Zenon
      <4> HIDE DEF Done, Left
      <4>2. F[i] \ Done(n + 1) = (F[i] \ Done(n)) \ {x}
        BY Zenon, <3>2
      <4> QED BY Zenon, <2>4, <3>2, <4>1, <4>2 DEF Loses
    <3> HIDE DEF Done, Left, x, l
    <3>6. RunList(PushRun(l.run, x), (S \cup Done(n)) \cup {x})
      BY Zenon, <2>2, <3>3, PushRunOf DEF l
    <3>7. SleepLists(Detach(l.slp, i, x), Left(n + 1))
      <4>1. SleepLists(l.slp, Left(n))
        BY Zenon, <2>2 DEF l
      <4> QED BY Zenon, <3>5, <4>1, DetachSleepOf
    <3> QED BY Zenon, <3>1, <3>4, <3>6, <3>7
  <2> QED BY Zenon, <2>6, <2>7
<1>8. Nat \subseteq T
  <2> HIDE DEF T
  <2> QED BY Zenon, <1>6, <1>7, SetInduction
<1>9. RunList(f[k].run, S \cup Done(k)) /\ SleepLists(f[k].slp, Left(k))
  <2>1. k \in 0..k
    OBVIOUS
  <2> HIDE DEF Done, Left
  <2> QED BY Zenon, <1>8, <2>1
<1>10. Done(k) = W
  <2>1. Range(c) = {c[m] : m \in 1..k}
    BY Zenon, <1>2 DEF Range
  <2> QED BY Zenon, <1>3, <2>1
<1>11. \A j \in Buckets : Left(k)[j] = G[j]
  BY Zenon, <1>10 DEF Loses
<1>12. SleepLists(f[k].slp, G)
  <2> HIDE DEF Left, Done
  <2> QED BY Zenon, <1>9, <1>11 DEF SleepLists
<1> QED BY Zenon, <1>5, <1>9, <1>10, <1>12

----------------------------------------------------------------------------
(* The inductive invariant. *)

Asleep == [i \in Buckets |-> Sleepers(i)]

TypeOK ==
    /\ state \in [Procs -> {"UNUSED", "RUNNING", "SLEEPING", "STOPPED", "ZOMBIE"}]
    /\ sleep_address \in [Procs -> Addresses \cup {NULL}]
    /\ notint \in [Procs -> BOOLEAN]
    /\ cpu_count \in [Procs -> Nat]
    /\ current \in Procs \cup {Idle}

\* The fields of the processes agree: who sleeps has an address and, perhaps,
\* PF_NOTINTERRUPT; who has the CPU neither sleeps nor has ended.
FieldsAgree ==
    /\ \A p \in Procs : state[p] = "SLEEPING" <=> sleep_address[p] # NULL
    /\ \A p \in Procs : notint[p] => state[p] = "SLEEPING"
    /\ current \in Procs => state[current] \in {"RUNNING", "STOPPED"}

\* What was tested before the interrupts were disabled still holds: a process
\* that is about to be woken is not uninterruptible, and nobody else has
\* continued the one that is about to be.
TestHolds ==
    \A p \in Procs :
        /\ op = <<"wakeup_proc", p>> => ~notint[p]
        /\ op = <<"runnable", p>> => p \in Continued /\ state[p] = "STOPPED"

IInv ==
    /\ TypeOK /\ FieldsAgree /\ TestHolds
    /\ RunList(run, Running) /\ SleepLists(slp, Asleep)

\* The sets change where one process does.
LEMMA OneChanges ==
    ASSUME NEW p \in Procs,
           \A q \in Procs \ {p} : state'[q] = state[q] /\ sleep_address'[q] = sleep_address[q]
    PROVE  /\ state'[p] = "RUNNING" => Running' = Running \cup {p}
           /\ state'[p] # "RUNNING" => Running' = Running \ {p}
           /\ \A j \in Buckets : state'[p] # "SLEEPING" => Asleep'[j] = Asleep[j] \ {p}
           /\ \A j \in Buckets : state'[p] = "SLEEPING" =>
                 Asleep'[j] = IF SLEEP_HASH[sleep_address'[p]] = j THEN Asleep[j] \cup {p}
                              ELSE Asleep[j] \ {p}
<1>1. /\ state'[p] = "RUNNING" => Running' = Running \cup {p}
      /\ state'[p] # "RUNNING" => Running' = Running \ {p}
  BY Zenon DEF Running
<1>2. ASSUME NEW j \in Buckets
      PROVE  /\ Asleep[j] = {q \in Procs : state[q] = "SLEEPING" /\ SLEEP_HASH[sleep_address[q]] = j}
             /\ Asleep'[j] = {q \in Procs : state'[q] = "SLEEPING" /\ SLEEP_HASH[sleep_address'[q]] = j}
  BY Zenon DEF Asleep, Sleepers
<1>3. ASSUME NEW j \in Buckets, state'[p] # "SLEEPING" PROVE Asleep'[j] = Asleep[j] \ {p}
  BY SMTT(20), <1>2, <1>3
<1>4. ASSUME NEW j \in Buckets, state'[p] = "SLEEPING"
      PROVE  Asleep'[j] = IF SLEEP_HASH[sleep_address'[p]] = j THEN Asleep[j] \cup {p}
                          ELSE Asleep[j] \ {p}
  <2>1. CASE SLEEP_HASH[sleep_address'[p]] = j
    <3>1. Asleep'[j] = Asleep[j] \cup {p}
      BY SMTT(20), <1>2, <1>4, <2>1
    <3> QED BY Zenon, <2>1, <3>1
  <2>2. CASE SLEEP_HASH[sleep_address'[p]] # j
    <3>1. Asleep'[j] = Asleep[j] \ {p}
      BY SMTT(20), <1>2, <1>4, <2>2
    <3> QED BY Zenon, <2>2, <3>1
  <2> QED BY Zenon, <2>1, <2>2
<1> QED BY Zenon, <1>1, <1>3, <1>4

\* Who does not sleep is in no bucket.
LEMMA NotAsleep ==
    ASSUME NEW p \in Procs, state[p] # "SLEEPING"
    PROVE  \A j \in Buckets : p \notin Asleep[j] /\ Asleep[j] \ {p} = Asleep[j]
BY Zenon DEF Asleep, Sleepers

\* The buckets do not change when nobody goes to sleep or wakes.
LEMMA SameBuckets ==
    ASSUME NEW l, NEW F, SleepLists(l, F), NEW G, \A j \in Buckets : G[j] = F[j]
    PROVE  SleepLists(l, G)
BY Zenon DEF SleepLists

\* What do_sched() leaves behind.
LEMMA Scheduled ==
    ASSUME NEW l, NEW S \in SUBSET Procs, RunList(l, S), NEW cc \in [Procs -> Nat],
           do_sched(l, cc)
    PROVE  cpu_count' \in [Procs -> Nat] /\ current' \in IF S = {} THEN {Idle} ELSE S
<1>1. cpu_count' \in [Procs -> Nat]
  BY Zenon, QuantumOf DEF do_sched
<1>2. ListOf(l, "run", S) /\ current' = First(l, cpu_count')
  BY Zenon DEF RunList, do_sched
<1> QED BY Zenon, <1>1, <1>2, FirstOf

\* The process that is given the CPU is runnable.
LEMMA HasCpu ==
    ASSUME current' \in IF Running' = {} THEN {Idle} ELSE Running'
    PROVE  /\ current' \in Procs \cup {Idle}
           /\ current' \in Procs => state'[current'] = "RUNNING"
<1>1. Running' = {q \in Procs : state'[q] = "RUNNING"}
  BY Zenon DEF Running
<1>2. CASE Running' = {}
  BY Zenon, <1>2, ProcListsAssumption
<1>3. CASE Running' # {}
  <2>1. current' \in Running'
    BY Zenon, <1>3
  <2> QED BY Zenon, <1>1, <2>1
<1> QED BY Zenon, <1>2, <1>3

\* The first state.
LEMMA InitIInv == Init => IInv
<1> SUFFICES ASSUME Init PROVE IInv
  BY Zenon
<1>1. PICK k \in Procs : /\ run = PushRun(EmptyLists({"run"}), k)
                         /\ state = [p \in Procs |-> IF p = k THEN "RUNNING" ELSE "UNUSED"]
  BY Zenon DEF Init
<1>2. ASSUME NEW I
      PROVE  /\ EmptyLists(I) \in ListType(I)
             /\ \A i \in I : ListOf(EmptyLists(I), i, {})
             /\ \A q \in Procs : EmptyLists(I).next[q] = NULL /\ EmptyLists(I).prev[q] = NULL
  <2> DEFINE e == EmptyLists(I)
  <2>1. /\ e.head = [i \in I |-> NULL] /\ e.next = [p \in Procs |-> NULL]
        /\ e.prev = [p \in Procs |-> NULL] /\ e \in ListType(I)
    BY Zenon DEF EmptyLists, NoLinks, ListType, Ref
  <2> HIDE DEF e
  <2>2. ASSUME NEW i \in I PROVE ListOf(e, i, {})
    <3> DEFINE r == [p \in Procs |-> 0]
    <3>1. 0 \in Nat /\ r \in [Procs -> 0..0]
      OBVIOUS
    <3>2. e.head[i] = NULL
      BY Zenon, <2>1
    <3> HIDE DEF r
    <3>3. Linked(e, i, {}, r)
      BY Zenon, <3>2 DEF Linked
    <3> QED BY Zenon, <3>1, <3>3 DEF ListOf
  <2> QED BY Zenon, <2>1, <2>2 DEF e
<1>3. RunList(run, Running)
  <2>1. RunList(EmptyLists({"run"}), {})
    BY Zenon, <1>2 DEF RunList
  <2>2. RunList(run, {} \cup {k})
    BY Zenon, <1>1, <2>1, PushRunOf
  <2>3. Running = {} \cup {k}
    BY Zenon, <1>1 DEF Running
  <2> QED BY Zenon, <2>2, <2>3
<1>4. SleepLists(slp, Asleep)
  <2>1. ASSUME NEW i \in Buckets PROVE Asleep[i] = {}
    BY Zenon, <1>1 DEF Asleep, Sleepers
  <2>2. slp = EmptyLists(Buckets)
    BY Zenon DEF Init
  <2>3. slp \in ListType(Buckets) /\ \A i \in Buckets : ListOf(slp, i, {})
    BY Zenon, <1>2, <2>2
  <2> QED BY Zenon, <2>1, <2>3 DEF SleepLists
<1>5. TypeOK /\ FieldsAgree
  BY Zenon, <1>1, ProcListsAssumption DEF TypeOK, FieldsAgree, Init
<1>6. TestHolds
  <2>1. ASSUME NEW p \in Procs PROVE op # <<"wakeup_proc", p>> /\ op # <<"runnable", p>>
    BY SMTT(20), ProcListsAssumption DEF Init
  <2> QED BY Zenon, <2>1 DEF TestHolds
<1> QED BY Zenon, <1>3, <1>4, <1>5, <1>6 DEF IInv

----------------------------------------------------------------------------
(* Every action keeps the invariant. *)

\* sys_fork() clears the links of the new process and makes it runnable.
LEMMA ForkStep ==
    ASSUME IInv, NEW p \in Procs, Fork(p)
    PROVE  IInv'
<1>1. /\ TypeOK /\ FieldsAgree /\ TestHolds
      /\ RunList(run, Running) /\ SleepLists(slp, Asleep) /\ Running \in SUBSET Procs
  BY Zenon DEF IInv, Running
<1>2. /\ current \in Procs /\ op = NULL /\ state[p] \in {"UNUSED", "ZOMBIE"}
      /\ state' = [state EXCEPT ![p] = "RUNNING"]
      /\ run' = PushRun(ClearLinks(run, p), p) /\ slp' = ClearLinks(slp, p)
      /\ cpu_count' = [cpu_count EXCEPT ![current] = cpu_count[current] \div 2,
                                        ![p] = cpu_count[current] \div 2]
      /\ UNCHANGED <<sleep_address, notint, current, op>>
  BY Zenon DEF Fork, Executing
<1>3. /\ p \in Procs \ Running /\ state[p] # "SLEEPING" /\ state'[p] = "RUNNING"
      /\ \A q \in Procs \ {p} : state'[q] = state[q] /\ sleep_address'[q] = sleep_address[q]
  BY Zenon, <1>1, <1>2 DEF Running, TypeOK
<1>4. RunList(run', Running')
  <2>1. RunList(ClearLinks(run, p), Running)
    BY Zenon, <1>1, <1>3, ClearRunOf
  <2>2. RunList(run', Running \cup {p})
    BY Zenon, <1>1, <1>2, <1>3, <2>1, PushRunOf
  <2> QED BY Zenon, <1>3, <2>2, OneChanges
<1>5. SleepLists(slp', Asleep')
  <2>1. SleepLists(slp', Asleep)
    BY Zenon, <1>1, <1>2, <1>3, ClearSleepOf, NotAsleep
  <2>2. \A j \in Buckets : Asleep'[j] = Asleep[j]
    <3>1. state'[p] # "SLEEPING"
      BY Zenon, <1>3
    <3>2. \A j \in Buckets : Asleep'[j] = Asleep[j] \ {p}
      BY Zenon, <1>3, <3>1, OneChanges
    <3>3. \A j \in Buckets : Asleep[j] \ {p} = Asleep[j]
      BY Zenon, <1>3, NotAsleep
    <3> QED BY Zenon, <3>2, <3>3
  <2> QED BY Zenon, <2>1, <2>2, SameBuckets
<1>6. TypeOK'
  BY SMTT(20), <1>1, <1>2 DEF TypeOK
<1>7. FieldsAgree'
  BY Zenon, <1>1, <1>2 DEF TypeOK, FieldsAgree
<1>8. TestHolds'
  BY SMTT(20), <1>1, <1>2, ProcListsAssumption DEF TestHolds
<1> QED BY Zenon, <1>4, <1>5, <1>6, <1>7, <1>8 DEF IInv

\* The current process leaves the run list and is rescheduled.
LEMMA ExitStep ==
    ASSUME IInv, Exit
    PROVE  IInv'
<1>1. /\ TypeOK /\ FieldsAgree /\ TestHolds
      /\ RunList(run, Running) /\ SleepLists(slp, Asleep) /\ Running \in SUBSET Procs
  BY Zenon DEF IInv, Running
<1>2. /\ current \in Procs /\ op = NULL /\ cpu_count \in [Procs -> Nat]
      /\ state' = [state EXCEPT ![current] = "ZOMBIE"]
      /\ run' = DetachRun(run, current) /\ do_sched(run', cpu_count)
      /\ UNCHANGED <<slp, sleep_address, notint, op>>
  BY Zenon, <1>1 DEF Exit, Executing, TypeOK
<1>3. /\ state[current] # "SLEEPING" /\ state'[current] = "ZOMBIE"
      /\ \A q \in Procs \ {current} : state'[q] = state[q] /\ sleep_address'[q] = sleep_address[q]
  BY Zenon, <1>1, <1>2 DEF FieldsAgree, TypeOK
<1>4. RunList(run', Running') /\ Running' = Running \ {current}
  <2>1. RunList(run', Running \ {current})
    BY Zenon, <1>1, <1>2, DetachRunOf
  <2>2. state'[current] # "RUNNING"
    BY Zenon, <1>3
  <2> QED BY Zenon, <1>2, <1>3, <2>1, <2>2, OneChanges
<1>5. SleepLists(slp', Asleep')
  <2>1. state'[current] # "SLEEPING" /\ slp' = slp
    BY Zenon, <1>2, <1>3
  <2>2. \A j \in Buckets : Asleep'[j] = Asleep[j]
    <3>1. \A j \in Buckets : Asleep'[j] = Asleep[j] \ {current}
      BY Zenon, <1>2, <1>3, <2>1, OneChanges
    <3>2. \A j \in Buckets : Asleep[j] \ {current} = Asleep[j]
      BY Zenon, <1>2, <1>3, NotAsleep
    <3> QED BY Zenon, <3>1, <3>2
  <2> QED BY Zenon, <1>1, <2>1, <2>2, SameBuckets
<1>6. /\ cpu_count' \in [Procs -> Nat]
      /\ current' \in IF Running' = {} THEN {Idle} ELSE Running'
  <2>1. Running' \in SUBSET Procs
    BY Zenon, <1>1, <1>4
  <2> QED BY Zenon, <1>2, <1>4, <2>1, Scheduled
<1>7. current' \in Procs \cup {Idle} /\ (current' \in Procs => state'[current'] = "RUNNING")
  BY Zenon, <1>6, HasCpu
<1>8. TypeOK'
  <2>1. state' \in [Procs -> {"UNUSED", "RUNNING", "SLEEPING", "STOPPED", "ZOMBIE"}]
    BY Zenon, <1>1, <1>2 DEF TypeOK
  <2>2. sleep_address' \in [Procs -> Addresses \cup {NULL}] /\ notint' \in [Procs -> BOOLEAN]
    BY Zenon, <1>1, <1>2 DEF TypeOK
  <2> QED BY Zenon, <1>6, <1>7, <2>1, <2>2 DEF TypeOK
<1>9. FieldsAgree'
  BY Zenon, <1>1, <1>2, <1>3, <1>7 DEF TypeOK, FieldsAgree
<1>10. TestHolds'
  BY SMTT(20), <1>1, <1>2, ProcListsAssumption DEF TestHolds
<1> QED BY Zenon, <1>4, <1>5, <1>8, <1>9, <1>10 DEF IInv

\* The current process moves from the run list to a bucket.
LEMMA SleepStep ==
    ASSUME IInv, NEW a \in Addresses, NEW b \in BOOLEAN, Sleep(a, b)
    PROVE  IInv'
<1>1. /\ TypeOK /\ FieldsAgree /\ TestHolds
      /\ RunList(run, Running) /\ SleepLists(slp, Asleep) /\ Running \in SUBSET Procs
  BY Zenon DEF IInv, Running
<1> DEFINE i == SLEEP_HASH[a]
<1>2. /\ current \in Procs /\ op = NULL /\ cpu_count \in [Procs -> Nat]
      /\ state' = [state EXCEPT ![current] = "SLEEPING"]
      /\ sleep_address' = [sleep_address EXCEPT ![current] = a]
      /\ notint' = [notint EXCEPT ![current] = ~b]
      /\ slp' = PushSleep(slp, i, current)
      /\ run' = DetachRun(run, current) /\ do_sched(run', cpu_count) /\ op' = op
  BY Zenon, <1>1 DEF Sleep, Executing, TypeOK
<1>3. /\ state[current] # "SLEEPING" /\ state'[current] = "SLEEPING" /\ sleep_address'[current] = a
      /\ \A q \in Procs \ {current} : state'[q] = state[q] /\ sleep_address'[q] = sleep_address[q]
      /\ i \in Buckets
  BY Zenon, <1>1, <1>2, HashAssumption DEF FieldsAgree, TypeOK
<1>4. RunList(run', Running') /\ Running' = Running \ {current}
  <2>1. RunList(run', Running \ {current})
    BY Zenon, <1>1, <1>2, DetachRunOf
  <2>2. state'[current] # "RUNNING"
    BY Zenon, <1>3
  <2> QED BY Zenon, <1>2, <1>3, <2>1, <2>2, OneChanges
<1>5. SleepLists(slp', Asleep')
  <2>1. \A j \in Buckets : current \notin Asleep[j] /\ Asleep[j] \ {current} = Asleep[j]
    BY Zenon, <1>2, <1>3, NotAsleep
  <2>2. \A j \in Buckets : Asleep'[j] = IF i = j THEN Asleep[j] \cup {current}
                                        ELSE Asleep[j] \ {current}
    <3>1. \A j \in Buckets : Asleep'[j] = IF SLEEP_HASH[sleep_address'[current]] = j
                                          THEN Asleep[j] \cup {current} ELSE Asleep[j] \ {current}
      BY Zenon, <1>2, <1>3, OneChanges
    <3>2. SLEEP_HASH[sleep_address'[current]] = i
      BY Zenon, <1>3
    <3> HIDE DEF i
    <3> QED BY Zenon, <3>1, <3>2
  <2>3. Asleep'[i] = Asleep[i] \cup {current} /\ \A j \in Buckets \ {i} : Asleep'[j] = Asleep[j]
    BY Zenon, <1>3, <2>1, <2>2
  <2> HIDE DEF i
  <2> QED BY SMTT(20), <1>1, <1>2, <1>3, <2>1, <2>3, PushSleepOf
<1>6. /\ cpu_count' \in [Procs -> Nat]
      /\ current' \in IF Running' = {} THEN {Idle} ELSE Running'
  <2>1. Running' \in SUBSET Procs
    BY Zenon, <1>1, <1>4
  <2> QED BY Zenon, <1>2, <1>4, <2>1, Scheduled
<1>7. current' \in Procs \cup {Idle} /\ (current' \in Procs => state'[current'] = "RUNNING")
  BY Zenon, <1>6, HasCpu
<1> HIDE DEF i
<1>8. TypeOK'
  <2>1. state' \in [Procs -> {"UNUSED", "RUNNING", "SLEEPING", "STOPPED", "ZOMBIE"}]
    BY Zenon, <1>1, <1>2 DEF TypeOK
  <2>2. sleep_address' \in [Procs -> Addresses \cup {NULL}] /\ notint' \in [Procs -> BOOLEAN]
    BY Zenon, <1>1, <1>2 DEF TypeOK
  <2> QED BY Zenon, <1>6, <1>7, <2>1, <2>2 DEF TypeOK
<1>9. FieldsAgree'
  <2>1. a # NULL
    BY Zenon, ProcListsAssumption
  <2> QED BY Zenon, <1>1, <1>2, <1>3, <1>7, <2>1 DEF TypeOK, FieldsAgree
<1>10. TestHolds'
  BY SMTT(20), <1>1, <1>2, ProcListsAssumption DEF TestHolds
<1> QED BY Zenon, <1>4, <1>5, <1>8, <1>9, <1>10 DEF IInv

\* wakeup() finds every process that waits on the address.
LEMMA WokenAll ==
    ASSUME IInv, NEW a \in Addresses
    PROVE  /\ SLEEP_HASH[a] \in Buckets
           /\ Woken(a) = {p \in Procs : sleep_address[p] = a}
           /\ Woken(a) \subseteq Asleep[SLEEP_HASH[a]]
           /\ \A p \in Woken(a) : state[p] = "SLEEPING"
<1> DEFINE i == SLEEP_HASH[a]
<1>1. i \in Buckets /\ a # NULL
  BY Zenon, HashAssumption, ProcListsAssumption
<1>2. Asleep[i] = {p \in Procs : state[p] = "SLEEPING" /\ SLEEP_HASH[sleep_address[p]] = i}
  BY Zenon, <1>1 DEF Asleep, Sleepers
<1>3. Range(Chain(slp, i)) = Asleep[i]
  <2>1. ListOf(slp, i, Asleep[i]) /\ Asleep[i] \in SUBSET Procs
    BY Zenon, <1>1 DEF IInv, SleepLists
  <2> QED BY Zenon, <2>1, ChainOf DEF Threads
<1>4. Woken(a) = {p \in Asleep[i] : sleep_address[p] = a}
  BY Zenon, <1>3 DEF Woken
<1>5. \A p \in Procs : sleep_address[p] = a => state[p] = "SLEEPING"
  BY Zenon, <1>1 DEF IInv, FieldsAgree
<1> HIDE DEF i
<1>6. ASSUME NEW p PROVE p \in Woken(a) <=> p \in Procs /\ sleep_address[p] = a
  <2>1. ASSUME p \in Procs, sleep_address[p] = a PROVE p \in Woken(a)
    BY Zenon, <1>2, <1>4, <1>5, <2>1 DEF i
  <2>2. ASSUME p \in Woken(a) PROVE p \in Procs /\ sleep_address[p] = a
    BY Zenon, <1>2, <1>4, <2>2
  <2> QED BY Zenon, <2>1, <2>2
<1> QED BY Zenon, <1>1, <1>2, <1>4, <1>5, <1>6 DEF i

\* wakeup() moves the processes that wait on the address to the run list.
LEMMA WakeupStep ==
    ASSUME IInv, NEW a \in Addresses, Wakeup(a)
    PROVE  IInv'
<1> DEFINE W == Woken(a)
           i == SLEEP_HASH[a]
<1>1. /\ TypeOK /\ FieldsAgree /\ TestHolds
      /\ RunList(run, Running) /\ SleepLists(slp, Asleep) /\ Running \in SUBSET Procs
  BY Zenon DEF IInv, Running
<1>2. /\ run' = Walk(i, W).run /\ slp' = Walk(i, W).slp
      /\ state' = [p \in Procs |-> IF p \in W THEN "RUNNING" ELSE state[p]]
      /\ sleep_address' = [p \in Procs |-> IF p \in W THEN NULL ELSE sleep_address[p]]
      /\ notint' = [p \in Procs |-> IF p \in W THEN FALSE ELSE notint[p]]
      /\ cpu_count' = [p \in Procs |-> IF p \in W THEN Priority ELSE cpu_count[p]]
      /\ UNCHANGED <<current, op>>
  BY Zenon DEF Wakeup
<1>3. i \in Buckets /\ W \in SUBSET Asleep[i] /\ W \in SUBSET Procs /\ \A p \in W : state[p] = "SLEEPING"
  BY Zenon, WokenAll
<1> HIDE DEF W, i
<1>4. Asleep[i] \cap Running = {}
  BY Zenon, <1>3 DEF Asleep, Sleepers, Running
<1>5. Running' = Running \cup W
  BY Zenon, <1>2, <1>3 DEF Running
<1>6. ASSUME NEW j \in Buckets PROVE Asleep'[j] = Asleep[j] \ W
  <2>1. /\ Asleep[j] = {q \in Procs : state[q] = "SLEEPING" /\ SLEEP_HASH[sleep_address[q]] = j}
        /\ Asleep'[j] = {q \in Procs : state'[q] = "SLEEPING" /\ SLEEP_HASH[sleep_address'[q]] = j}
    BY Zenon DEF Asleep, Sleepers
  <2>2. ASSUME NEW q \in Procs
        PROVE  /\ q \in W => state'[q] = "RUNNING"
               /\ q \notin W => state'[q] = state[q] /\ sleep_address'[q] = sleep_address[q]
    BY Zenon, <1>2
  <2>3. "RUNNING" # "SLEEPING"
    BY Zenon
  <2> QED BY Zenon, <2>1, <2>2, <2>3
<1>7. /\ Asleep'[i] = Asleep[i] \ W
      /\ \A j \in Buckets \ {i} : Asleep'[j] = Asleep[j]
  <2>1. ASSUME NEW j \in Buckets \ {i} PROVE Asleep[j] \cap W = {}
    BY Zenon, <1>1, <1>3 DEF SleepLists
  <2> QED BY Zenon, <1>3, <1>6, <2>1
<1>8. RunList(run', Running') /\ SleepLists(slp', Asleep')
  <2>1. RunList(Walk(i, W).run, Running \cup W) /\ SleepLists(Walk(i, W).slp, Asleep')
    <3> DEFINE F == Asleep
               G == Asleep'
    <3>1. /\ SleepLists(slp, F) /\ W \in SUBSET F[i] /\ F[i] \cap Running = {}
          /\ Loses(F, G, i, W)
      BY Zenon, <1>1, <1>3, <1>4, <1>7 DEF Loses
    <3> HIDE DEF F, G
    <3>2. RunList(Walk(i, W).run, Running \cup W) /\ SleepLists(Walk(i, W).slp, G)
      BY Zenon, <1>1, <1>3, <3>1, WalkOf
    <3> QED BY Zenon, <3>2 DEF G
  <2> QED BY Zenon, <1>2, <1>5, <2>1
<1>9. TypeOK'
  <2>1. state' \in [Procs -> {"UNUSED", "RUNNING", "SLEEPING", "STOPPED", "ZOMBIE"}]
    BY Zenon, <1>1, <1>2 DEF TypeOK
  <2>2. sleep_address' \in [Procs -> Addresses \cup {NULL}]
    BY Zenon, <1>1, <1>2 DEF TypeOK
  <2>4. notint' \in [Procs -> BOOLEAN]
    <3>1. ASSUME NEW p \in Procs PROVE (IF p \in W THEN FALSE ELSE notint[p]) \in BOOLEAN
      BY Zenon, <1>1 DEF TypeOK
    <3> QED BY Zenon, <1>2, <3>1
  <2>3. cpu_count' \in [Procs -> Nat] /\ current' \in Procs \cup {Idle}
    BY Zenon, <1>1, <1>2, ProcListsAssumption DEF TypeOK
  <2> QED BY Zenon, <2>1, <2>2, <2>3, <2>4 DEF TypeOK
<1>10. FieldsAgree'
  <2>1. current \in Procs => current \notin W
    BY Zenon, <1>1, <1>3 DEF FieldsAgree
  <2> QED BY Zenon, <1>1, <1>2, <1>3, <2>1 DEF TypeOK, FieldsAgree
<1>11. TestHolds'
  BY Zenon, <1>1, <1>2, <1>3 DEF TestHolds, TypeOK
<1> QED BY Zenon, <1>8, <1>9, <1>10, <1>11 DEF IInv

\* wakeup_proc() takes a process out of its bucket, if it sleeps, and puts it
\* in the run list, if an interrupt has not already done so.
LEMMA WakeupProcStep ==
    ASSUME IInv, NEW p \in Procs, ~notint[p], WakeupProcBody(p)
    PROVE  TypeOK' /\ FieldsAgree' /\ RunList(run', Running') /\ SleepLists(slp', Asleep')
<1>1. /\ TypeOK /\ FieldsAgree
      /\ RunList(run, Running) /\ SleepLists(slp, Asleep) /\ Running \in SUBSET Procs
  BY Zenon DEF IInv, Running
<1>2. /\ slp' = IF sleep_address[p] = NULL THEN slp
                ELSE Detach(slp, SLEEP_HASH[sleep_address[p]], p)
      /\ run' = IF state[p] = "RUNNING" THEN run ELSE PushRun(run, p)
      /\ state' = [state EXCEPT ![p] = "RUNNING"]
      /\ sleep_address' = [sleep_address EXCEPT ![p] = NULL]
      /\ cpu_count' = [cpu_count EXCEPT ![p] = Priority]
      /\ UNCHANGED <<notint, current>>
  BY Zenon DEF WakeupProcBody
<1>3. /\ state'[p] = "RUNNING" /\ state'[p] # "SLEEPING"
      /\ \A q \in Procs \ {p} : state'[q] = state[q] /\ sleep_address'[q] = sleep_address[q]
  BY Zenon, <1>1, <1>2 DEF TypeOK
<1>4. RunList(run', Running')
  <2>1. Running' = Running \cup {p}
    BY Zenon, <1>3, OneChanges
  <2>2. CASE state[p] = "RUNNING"
    <3>1. p \in Running
      BY Zenon, <2>2 DEF Running
    <3>2. Running \cup {p} = Running
      BY Zenon, <3>1
    <3> QED BY Zenon, <1>1, <1>2, <2>1, <2>2, <3>2
  <2>3. CASE state[p] # "RUNNING"
    <3>1. p \in Procs \ Running
      BY Zenon, <2>3 DEF Running
    <3>2. RunList(PushRun(run, p), Running \cup {p})
      BY Zenon, <1>1, <3>1, PushRunOf
    <3> QED BY Zenon, <1>2, <2>1, <2>3, <3>2
  <2> QED BY Zenon, <2>2, <2>3
<1>5. SleepLists(slp', Asleep')
  <2>1. \A j \in Buckets : Asleep'[j] = Asleep[j] \ {p}
    BY Zenon, <1>3, OneChanges
  <2>2. CASE sleep_address[p] = NULL
    <3>1. state[p] # "SLEEPING"
      BY Zenon, <1>1, <2>2 DEF FieldsAgree
    <3>2. \A j \in Buckets : Asleep[j] \ {p} = Asleep[j]
      BY Zenon, <3>1, NotAsleep
    <3>3. \A j \in Buckets : Asleep'[j] = Asleep[j]
      BY Zenon, <2>1, <3>2
    <3> QED BY Zenon, <1>1, <1>2, <2>2, <3>3, SameBuckets
  <2>3. CASE sleep_address[p] # NULL
    <3> DEFINE i == SLEEP_HASH[sleep_address[p]]
    <3>1. i \in Buckets /\ state[p] = "SLEEPING"
      <4>1. sleep_address[p] \in Addresses
        BY Zenon, <1>1, <2>3 DEF TypeOK
      <4>2. state[p] = "SLEEPING"
        BY Zenon, <1>1, <2>3 DEF FieldsAgree
      <4>3. i \in Buckets
        BY Zenon, <4>1, HashAssumption
      <4> QED BY Zenon, <4>2, <4>3
    <3>2. p \in Asleep[i]
      BY Zenon, <3>1 DEF Asleep, Sleepers
    <3>3. slp' = Detach(slp, i, p)
      BY Zenon, <1>2, <2>3
    <3> HIDE DEF i
    <3>4. ASSUME NEW j \in Buckets \ {i} PROVE Asleep'[j] = Asleep[j]
      <4>1. Asleep[j] \cap Asleep[i] = {}
        BY Zenon, <1>1, <3>1 DEF SleepLists
      <4>2. p \notin Asleep[j]
        BY Zenon, <3>2, <4>1
      <4>3. Asleep[j] \ {p} = Asleep[j]
        BY Zenon, <4>2
      <4> QED BY Zenon, <2>1, <4>3
    <3>5. Asleep'[i] = Asleep[i] \ {p}
      BY Zenon, <2>1, <3>1
    <3>6. SleepLists(Detach(slp, i, p), Asleep')
      <4>1. Loses(Asleep, Asleep', i, {p})
        BY Zenon, <3>4, <3>5 DEF Loses
      <4> QED BY Zenon, <1>1, <3>1, <3>2, <4>1, DetachSleepOf
    <3> QED BY Zenon, <3>3, <3>6
  <2> QED BY Zenon, <2>2, <2>3
<1>6. TypeOK'
  BY Zenon, <1>1, <1>2, ProcListsAssumption DEF TypeOK
<1>7. FieldsAgree'
  BY Zenon, <1>1, <1>2 DEF TypeOK, FieldsAgree
<1> QED BY Zenon, <1>4, <1>5, <1>6, <1>7

\* A handler signals a process that the interrupted call does not continue.
LEMMA IrqSignalStep ==
    ASSUME IrqSignalled \cap Continued = {}, IInv, NEW p \in IrqSignalled, IrqSignal(p)
    PROVE  IInv'
<1>1. p \in Procs /\ ~notint[p] /\ WakeupProcBody(p) /\ op' = op /\ p \notin Continued
  BY Zenon, ProcListsAssumption DEF IrqSignal, Wakeable
<1>2. TypeOK' /\ FieldsAgree' /\ RunList(run', Running') /\ SleepLists(slp', Asleep')
  BY Zenon, <1>1, WakeupProcStep
<1>3. TestHolds'
  <2>1. TestHolds /\ state \in [Procs -> {"UNUSED", "RUNNING", "SLEEPING", "STOPPED", "ZOMBIE"}]
    BY Zenon DEF IInv, TypeOK
  <2>2. notint' = notint /\ state' = [state EXCEPT ![p] = "RUNNING"]
    BY Zenon, <1>1 DEF WakeupProcBody
  <2> QED BY Zenon, <1>1, <2>1, <2>2 DEF TestHolds
<1> QED BY Zenon, <1>2, <1>3 DEF IInv

\* After a step that leaves no call past its test.
LEMMA NoTestNext == ASSUME op' = NULL PROVE TestHolds'
<1>1. ASSUME NEW p \in Procs PROVE op' # <<"wakeup_proc", p>> /\ op' # <<"runnable", p>>
  BY SMTT(20), ProcListsAssumption
<1> QED BY Zenon, <1>1 DEF TestHolds

\* The rest of wakeup_proc(), after its tests.
LEMMA SignalWakeStep ==
    ASSUME IInv, NEW p \in Procs, SignalWake(p)
    PROVE  IInv'
<1>1. ~notint[p] /\ WakeupProcBody(p) /\ op' = NULL
  BY Zenon DEF SignalWake, IInv, TestHolds
<1>2. TypeOK' /\ FieldsAgree' /\ RunList(run', Running') /\ SleepLists(slp', Asleep')
  BY Zenon, <1>1, WakeupProcStep
<1> QED BY Zenon, <1>1, <1>2, NoTestNext DEF IInv

\* What does not touch the lists or the fields of the processes.
LEMMA QuietStep ==
    ASSUME IInv, UNCHANGED <<run, slp, state, sleep_address, notint>>,
           cpu_count' \in [Procs -> Nat], current' \in Procs \cup {Idle},
           current' \in Procs => state[current'] \in {"RUNNING", "STOPPED"}, TestHolds'
    PROVE  IInv'
<1>1. Running' = Running /\ Asleep' = Asleep
  BY Zenon DEF Running, Asleep, Sleepers
<1>2. RunList(run', Running') /\ SleepLists(slp', Asleep')
  BY Zenon, <1>1 DEF IInv
<1>3. TypeOK' /\ FieldsAgree'
  BY Zenon DEF IInv, TypeOK, FieldsAgree
<1> QED BY Zenon, <1>2, <1>3 DEF IInv

\* The tests of wakeup_proc().
LEMMA SignalTestStep ==
    ASSUME IInv, NEW p \in Procs, SignalTest(p)
    PROVE  IInv'
<1>1. /\ op' = <<"wakeup_proc", p>> /\ ~notint[p]
      /\ UNCHANGED <<run, slp, state, sleep_address, notint, cpu_count, current>>
  BY Zenon DEF SignalTest, Wakeable
<1>2. TestHolds'
  BY Zenon, <1>1 DEF TestHolds
<1> QED BY Zenon, <1>1, <1>2, QuietStep DEF IInv, TypeOK, FieldsAgree

\* The tests before SIGCONT makes a process runnable.
LEMMA ContTestStep ==
    ASSUME IInv, NEW p \in Continued, ContTest(p)
    PROVE  IInv'
<1>1. /\ op' = <<"runnable", p>> /\ state[p] = "STOPPED"
      /\ UNCHANGED <<run, slp, state, sleep_address, notint, cpu_count, current>>
  BY Zenon DEF ContTest
<1>2. TestHolds'
  BY Zenon, <1>1 DEF TestHolds
<1> QED BY Zenon, <1>1, <1>2, QuietStep DEF IInv, TypeOK, FieldsAgree

\* The insertion of runnable(): the process is still stopped.
LEMMA ContInsertStep ==
    ASSUME IInv, NEW p \in Continued, ContInsert(p)
    PROVE  IInv'
<1>1. /\ TypeOK /\ FieldsAgree
      /\ RunList(run, Running) /\ SleepLists(slp, Asleep) /\ Running \in SUBSET Procs
  BY Zenon DEF IInv, Running
<1>2. /\ p \in Procs /\ state[p] = "STOPPED" /\ op' = NULL
      /\ run' = PushRun(run, p) /\ state' = [state EXCEPT ![p] = "RUNNING"]
      /\ UNCHANGED <<slp, sleep_address, notint, cpu_count, current>>
  BY Zenon, ProcListsAssumption DEF ContInsert, IInv, TestHolds
<1>3. /\ p \in Procs \ Running /\ state[p] # "SLEEPING"
      /\ state'[p] = "RUNNING" /\ state'[p] # "SLEEPING"
      /\ \A q \in Procs \ {p} : state'[q] = state[q] /\ sleep_address'[q] = sleep_address[q]
  BY Zenon, <1>1, <1>2 DEF Running, TypeOK
<1>4. RunList(run', Running')
  <2>1. RunList(run', Running \cup {p})
    BY Zenon, <1>1, <1>2, <1>3, PushRunOf
  <2> QED BY Zenon, <1>2, <1>3, <2>1, OneChanges
<1>5. SleepLists(slp', Asleep')
  <2>1. \A j \in Buckets : Asleep'[j] = Asleep[j] \ {p}
    BY Zenon, <1>2, <1>3, OneChanges
  <2>2. \A j \in Buckets : Asleep[j] \ {p} = Asleep[j]
    BY Zenon, <1>2, <1>3, NotAsleep
  <2>3. \A j \in Buckets : Asleep'[j] = Asleep[j]
    BY Zenon, <2>1, <2>2
  <2> QED BY Zenon, <1>1, <1>2, <2>3, SameBuckets
<1>6. TypeOK'
  BY Zenon, <1>1, <1>2 DEF TypeOK
<1>7. FieldsAgree'
  BY Zenon, <1>1, <1>2 DEF TypeOK, FieldsAgree
<1> QED BY Zenon, <1>2, <1>4, <1>5, <1>6, <1>7, NoTestNext DEF IInv

\* psig() stops the current process.
LEMMA StopStep ==
    ASSUME IInv, Stop
    PROVE  IInv'
<1>1. /\ TypeOK /\ FieldsAgree
      /\ RunList(run, Running) /\ SleepLists(slp, Asleep) /\ Running \in SUBSET Procs
  BY Zenon DEF IInv, Running
<1>2. /\ current \in Procs /\ op' = NULL /\ state[current] # "SLEEPING"
      /\ run' = DetachRun(run, current) /\ state' = [state EXCEPT ![current] = "STOPPED"]
      /\ UNCHANGED <<slp, sleep_address, notint, cpu_count, current>>
  BY Zenon, <1>1 DEF Stop, Executing, FieldsAgree
<1>3. /\ state'[current] # "RUNNING" /\ state'[current] # "SLEEPING"
      /\ \A q \in Procs \ {current} : state'[q] = state[q] /\ sleep_address'[q] = sleep_address[q]
  BY Zenon, <1>1, <1>2 DEF TypeOK
<1>4. RunList(run', Running')
  <2>1. RunList(run', Running \ {current})
    BY Zenon, <1>1, <1>2, DetachRunOf
  <2> QED BY Zenon, <1>2, <1>3, <2>1, OneChanges
<1>5. SleepLists(slp', Asleep')
  <2>1. \A j \in Buckets : Asleep'[j] = Asleep[j] \ {current}
    BY Zenon, <1>2, <1>3, OneChanges
  <2>2. \A j \in Buckets : Asleep[j] \ {current} = Asleep[j]
    BY Zenon, <1>2, NotAsleep
  <2>3. \A j \in Buckets : Asleep'[j] = Asleep[j]
    BY Zenon, <2>1, <2>2
  <2> QED BY Zenon, <1>1, <1>2, <2>3, SameBuckets
<1>6. TypeOK'
  BY Zenon, <1>1, <1>2 DEF TypeOK
<1>7. FieldsAgree'
  BY Zenon, <1>1, <1>2 DEF TypeOK, FieldsAgree
<1> QED BY Zenon, <1>2, <1>4, <1>5, <1>6, <1>7, NoTestNext DEF IInv

\* do_sched() gives the CPU to a runnable process.
LEMMA ReschedStep ==
    ASSUME IInv, Resched
    PROVE  IInv'
<1>1. /\ op' = NULL /\ do_sched(run, cpu_count) /\ cpu_count \in [Procs -> Nat]
      /\ UNCHANGED <<run, slp, state, sleep_address, notint>>
      /\ RunList(run, Running) /\ Running \in SUBSET Procs
  BY Zenon DEF Resched, IInv, TypeOK, Running
<1>2. cpu_count' \in [Procs -> Nat] /\ current' \in IF Running = {} THEN {Idle} ELSE Running
  BY Zenon, <1>1, Scheduled
<1>3. Running' = Running
  BY Zenon, <1>1 DEF Running
<1>4. current' \in Procs \cup {Idle} /\ (current' \in Procs => state'[current'] = "RUNNING")
  BY Zenon, <1>2, <1>3, HasCpu
<1> QED BY Zenon, <1>1, <1>2, <1>4, NoTestNext, QuietStep

\* The timer takes from the quantum of the current process.
LEMMA TickStep ==
    ASSUME IInv, Tick
    PROVE  IInv'
<1>1. /\ current \in Procs
      /\ cpu_count' = [cpu_count EXCEPT ![current] = IF @ > 0 THEN @ - 1 ELSE 0]
      /\ UNCHANGED <<run, slp, state, sleep_address, notint, current, op>>
      /\ cpu_count \in [Procs -> Nat]
  BY Zenon DEF Tick, IInv, TypeOK
<1>2. cpu_count' \in [Procs -> Nat]
  BY SMTT(20), <1>1
<1>3. TestHolds'
  BY Zenon, <1>1 DEF IInv, TestHolds
<1> QED BY Zenon, <1>1, <1>2, <1>3, QuietStep DEF IInv, FieldsAgree

----------------------------------------------------------------------------
(* The theorems. *)

\* The invariant is inductive.
LEMMA NextIInv ==
    ASSUME IrqSignalled \cap Continued = {}, IInv, [Next]_vars
    PROVE  IInv'
<1>1. CASE UNCHANGED vars
  <2>1. UNCHANGED <<run, slp, state, sleep_address, notint, cpu_count, current, op>>
    BY Zenon, <1>1 DEF vars
  <2>2. TestHolds'
    BY Zenon, <2>1 DEF IInv, TestHolds
  <2> QED BY Zenon, <2>1, <2>2, QuietStep DEF IInv, TypeOK, FieldsAgree
<1>2. CASE Next
  <2>1. ASSUME NEW p \in Procs, Fork(p) \/ SignalTest(p) \/ SignalWake(p) PROVE IInv'
    BY Zenon, <2>1, ForkStep, SignalTestStep, SignalWakeStep
  <2>2. ASSUME NEW a \in Addresses, (\E i \in BOOLEAN : Sleep(a, i)) \/ Wakeup(a) PROVE IInv'
    BY Zenon, <2>2, SleepStep, WakeupStep
  <2>3. ASSUME NEW p \in IrqSignalled, IrqSignal(p) PROVE IInv'
    BY Zenon, <2>3, IrqSignalStep
  <2>4. ASSUME NEW p \in Continued, ContTest(p) \/ ContInsert(p) PROVE IInv'
    BY Zenon, <2>4, ContTestStep, ContInsertStep
  <2>5. ASSUME Exit \/ Stop \/ Resched \/ Tick PROVE IInv'
    BY Zenon, <2>5, ExitStep, StopStep, ReschedStep, TickStep
  <2> QED BY Zenon, <1>2, <2>1, <2>2, <2>3, <2>4, <2>5 DEF Next
<1> QED BY Zenon, <1>1, <1>2

\* The links give each list as a walk reads it.
LEMMA IntactLists == IInv => ListsIntact
<1> SUFFICES ASSUME IInv PROVE ListsIntact
  BY Zenon
<1>1. Running \in SUBSET Procs /\ ListOf(run, "run", Running)
  BY Zenon DEF IInv, RunList, Running
<1>2. Threads(run, "run", Running)
  BY Zenon, <1>1, ChainOf
<1>3. ASSUME NEW i \in Buckets PROVE Threads(slp, i, Sleepers(i))
  <2>1. Asleep[i] \in SUBSET Procs /\ ListOf(slp, i, Asleep[i])
    BY Zenon DEF IInv, SleepLists
  <2>2. Threads(slp, i, Asleep[i])
    BY Zenon, <2>1, ChainOf
  <2> QED BY Zenon, <2>2 DEF Asleep
<1> QED BY Zenon, <1>2, <1>3 DEF ListsIntact

\* For any number of processes, addresses and buckets, the run list holds
\* exactly the runnable processes and each bucket exactly the processes that
\* wait on its addresses, every link with its inverse, when no interrupt
\* handler signals a process that another process continues.
THEOREM ListsStayIntact ==
    ASSUME IrqSignalled \cap Continued = {}
    PROVE  Spec => []ListsIntact
<1>1. Init => IInv
  BY Zenon, InitIInv
<1>2. IInv /\ [Next]_vars => IInv'
  BY Zenon, NextIInv
<1>3. IInv => ListsIntact
  BY Zenon, IntactLists
<1> QED BY <1>1, <1>2, <1>3, PTL DEF Spec

----------------------------------------------------------------------------
(* The lists implement the wait queues. *)

Deaf == {p \in Procs : notint[p]}

\* One process becomes runnable, and waits no more.
LEMMA WakesOne ==
    ASSUME TypeOK, NEW p \in Procs, ~notint[p],
           state' = [state EXCEPT ![p] = "RUNNING"],
           sleep_address' = [sleep_address EXCEPT ![p] = NULL],
           UNCHANGED <<notint, current>>
    PROVE  Abstract!WakeupProc(p)
<1>1. Running' = Running \cup {p}
  BY Zenon DEF Running, TypeOK
<1> QED BY Zenon, <1>1 DEF Abstract!WakeupProc

\* Every step is one of the wait queues.
LEMMA StepImplements ==
    ASSUME IInv, Next
    PROVE  [Abstract!Next]_(Abstract!vars)
<1>1. TypeOK /\ FieldsAgree /\ TestHolds /\ RunList(run, Running) /\ Running \in SUBSET Procs
  BY Zenon DEF IInv, Running
<1>2. ASSUME NEW p \in Procs, Fork(p) PROVE Abstract!Fork(p)
  <2>1. /\ state[p] \in {"UNUSED", "ZOMBIE"} /\ state' = [state EXCEPT ![p] = "RUNNING"]
        /\ UNCHANGED <<sleep_address, notint, current>>
    BY Zenon, <1>2 DEF Fork
  <2>2. Running' = Running \cup {p} /\ p \notin Running /\ sleep_address[p] = NULL
    BY Zenon, <1>1, <2>1 DEF Running, TypeOK, FieldsAgree
  <2> QED BY Zenon, <2>1, <2>2 DEF Abstract!Fork
<1>3. ASSUME Exit PROVE Abstract!Exit
  <2>1. /\ current \in Procs /\ state' = [state EXCEPT ![current] = "ZOMBIE"]
        /\ run' = DetachRun(run, current) /\ do_sched(run', cpu_count)
        /\ cpu_count \in [Procs -> Nat] /\ UNCHANGED <<sleep_address, notint>>
    BY Zenon, <1>1, <1>3 DEF Exit, Executing, TypeOK
  <2>2. Running' = Running \ {current} /\ current # Idle
    BY Zenon, <1>1, <2>1, ProcListsAssumption DEF Running, TypeOK
  <2>3. Running' \in SUBSET Procs /\ RunList(run', Running')
    BY Zenon, <1>1, <2>1, <2>2, DetachRunOf
  <2>4. current' \in IF Running' = {} THEN {Idle} ELSE Running'
    BY Zenon, <2>1, <2>3, Scheduled
  <2> QED BY Zenon, <2>1, <2>2, <2>4 DEF Abstract!Exit, Abstract!Dispatch
<1>4. ASSUME NEW a \in Addresses, NEW b \in BOOLEAN, Sleep(a, b) PROVE Abstract!Sleep(a)
  <2>1. /\ current \in Procs /\ state' = [state EXCEPT ![current] = "SLEEPING"]
        /\ sleep_address' = [sleep_address EXCEPT ![current] = a]
        /\ notint' = [notint EXCEPT ![current] = ~b]
        /\ run' = DetachRun(run, current) /\ do_sched(run', cpu_count)
        /\ cpu_count \in [Procs -> Nat]
    BY Zenon, <1>1, <1>4 DEF Sleep, Executing, TypeOK
  <2>2. Running' = Running \ {current} /\ current # Idle
    BY Zenon, <1>1, <2>1, ProcListsAssumption DEF Running, TypeOK
  <2>3. Running' \in SUBSET Procs /\ RunList(run', Running')
    BY Zenon, <1>1, <2>1, <2>2, DetachRunOf
  <2>4. current' \in IF Running' = {} THEN {Idle} ELSE Running'
    BY Zenon, <2>1, <2>3, Scheduled
  <2>5. Deaf' \in {Deaf, Deaf \cup {current}}
    <3>1. ~notint[current]
      BY Zenon, <1>1, <2>1 DEF FieldsAgree
    <3>2. notint'[current] = ~b /\ \A q \in Procs \ {current} : notint'[q] = notint[q]
      BY Zenon, <1>1, <2>1 DEF TypeOK
    <3>3. CASE b
      <4>1. Deaf' = Deaf
        BY Zenon, <2>1, <3>1, <3>2, <3>3 DEF Deaf
      <4> QED BY Zenon, <4>1
    <3>4. CASE ~b
      <4>1. Deaf' = Deaf \cup {current}
        BY Zenon, <2>1, <3>1, <3>2, <3>4 DEF Deaf
      <4> QED BY Zenon, <4>1
    <3> QED BY Zenon, <3>3, <3>4
  <2> QED BY Zenon, <2>1, <2>2, <2>4, <2>5 DEF Abstract!Sleep, Abstract!Dispatch, Deaf
<1>5. ASSUME NEW a \in Addresses, Wakeup(a) PROVE Abstract!Wakeup(a)
  <2> DEFINE W == Woken(a)
  <2>1. /\ state' = [p \in Procs |-> IF p \in W THEN "RUNNING" ELSE state[p]]
        /\ sleep_address' = [p \in Procs |-> IF p \in W THEN NULL ELSE sleep_address[p]]
        /\ notint' = [p \in Procs |-> IF p \in W THEN FALSE ELSE notint[p]]
        /\ current' = current
    BY Zenon, <1>5 DEF Wakeup
  <2>2. W = {p \in Procs : sleep_address[p] = a}
    BY Zenon, WokenAll
  <2> HIDE DEF W
  <2>3. Running' = Running \cup {p \in Procs : sleep_address[p] = a}
    <3>1. Running' = Running \cup W
      BY Zenon, <2>1, <2>2 DEF Running
    <3> QED BY Zenon, <2>2, <3>1
  <2>4. sleep_address' = [p \in Procs |-> IF sleep_address[p] = a THEN NULL ELSE sleep_address[p]]
    BY Zenon, <2>1, <2>2
  <2>5. Deaf' = {p \in Deaf : sleep_address[p] # a}
    <3>1. ASSUME NEW p \in Procs PROVE notint'[p] <=> notint[p] /\ sleep_address[p] # a
      BY Zenon, <2>1, <2>2
    <3> QED BY Zenon, <3>1 DEF Deaf
  <2> QED BY Zenon, <2>1, <2>3, <2>4, <2>5 DEF Abstract!Wakeup, Deaf
<1>6. ASSUME NEW p \in Procs, IrqSignal(p) \/ SignalWake(p) PROVE Abstract!WakeupProc(p)
  <2>1. ~notint[p] /\ WakeupProcBody(p)
    BY Zenon, <1>1, <1>6 DEF IrqSignal, Wakeable, SignalWake, TestHolds
  <2> QED BY Zenon, <1>1, <2>1, WakesOne DEF WakeupProcBody
<1>7. ASSUME NEW p \in Continued, ContInsert(p) PROVE p \in Procs /\ Abstract!WakeupProc(p)
  <2>1. /\ p \in Procs /\ state[p] = "STOPPED" /\ state' = [state EXCEPT ![p] = "RUNNING"]
        /\ UNCHANGED <<sleep_address, notint, current>>
    BY Zenon, <1>1, <1>7, ProcListsAssumption DEF ContInsert, TestHolds
  <2>2. ~notint[p] /\ sleep_address' = [sleep_address EXCEPT ![p] = NULL]
    BY Zenon, <1>1, <2>1 DEF FieldsAgree, TypeOK
  <2> QED BY Zenon, <1>1, <2>1, <2>2, WakesOne
<1>8. ASSUME Stop PROVE Abstract!Stop
  <2>1. /\ current \in Procs /\ state' = [state EXCEPT ![current] = "STOPPED"]
        /\ UNCHANGED <<sleep_address, notint, current>>
    BY Zenon, <1>8 DEF Stop, Executing
  <2>2. Running' = Running \ {current}
    BY Zenon, <1>1, <2>1 DEF Running, TypeOK
  <2> QED BY Zenon, <2>1, <2>2 DEF Abstract!Stop
<1>9. ASSUME Resched PROVE Abstract!Resched
  <2>1. /\ do_sched(run, cpu_count) /\ cpu_count \in [Procs -> Nat]
        /\ UNCHANGED <<state, sleep_address, notint>>
    BY Zenon, <1>1, <1>9 DEF Resched, TypeOK
  <2>2. Running' = Running
    BY Zenon, <2>1 DEF Running
  <2>3. current' \in IF Running = {} THEN {Idle} ELSE Running
    BY Zenon, <1>1, <2>1, Scheduled
  <2> QED BY Zenon, <2>1, <2>2, <2>3 DEF Abstract!Resched, Abstract!Dispatch
<1>10. ASSUME UNCHANGED <<state, sleep_address, notint, current>> PROVE UNCHANGED Abstract!vars
  BY Zenon, <1>10 DEF Abstract!vars, Running
<1>11. ASSUME NEW p, SignalTest(p) \/ ContTest(p) \/ Tick PROVE UNCHANGED Abstract!vars
  BY Zenon, <1>10, <1>11 DEF SignalTest, ContTest, Tick
<1>12. IrqSignalled \subseteq Procs
  BY Zenon, ProcListsAssumption
<1> QED BY Zenon, <1>2, <1>3, <1>4, <1>5, <1>6, <1>7, <1>8, <1>9, <1>11, <1>12
        DEF Next, Abstract!Next

\* The linked lists implement the wait queues for any number of processes,
\* addresses and buckets: wakeup() reaches every process that waits on the
\* address and nobody else, and do_sched() never leaves the CPU idle while a
\* process is runnable nor gives it to one that is not.
THEOREM ListsImplementWaitQueues ==
    ASSUME IrqSignalled \cap Continued = {}
    PROVE  Spec => ImplementsWaitQueues
<1>1. Init => IInv
  BY Zenon, InitIInv
<1>2. IInv /\ [Next]_vars => IInv'
  BY Zenon, NextIInv
<1>3. Init => Abstract!Init
  <2> SUFFICES ASSUME Init PROVE Abstract!Init
    BY Zenon
  <2>1. PICK k \in Procs : state = [p \in Procs |-> IF p = k THEN "RUNNING" ELSE "UNUSED"]
    BY Zenon DEF Init
  <2>2. Running = {k}
    BY Zenon, <2>1 DEF Running
  <2>3. {p \in Procs : notint[p]} = {}
    BY Zenon DEF Init
  <2> QED BY Zenon, <2>2, <2>3 DEF Init, Abstract!Init
<1>4. IInv /\ [Next]_vars => [Abstract!Next]_(Abstract!vars)
  <2>1. UNCHANGED vars => UNCHANGED Abstract!vars
    BY Zenon DEF vars, Abstract!vars, Running
  <2> QED BY Zenon, <2>1, StepImplements
<1> QED BY <1>1, <1>2, <1>3, <1>4, PTL DEF Spec, ImplementsWaitQueues, Abstract!Spec
=============================================================================

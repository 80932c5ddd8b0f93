------------------------ MODULE BufferCacheInvariant ------------------------
(***************************************************************************)
(* Owners, flags and lists of the buffer cache agree, whatever processes   *)
(* run together.  The proof is about sets: which buffers are on a list,    *)
(* locked, dirty.  First come lemmas on what each function of the buffer   *)
(* cache does to these sets, then the invariant, then what the kinds of    *)
(* steps that processes take do to it.                                     *)
(***************************************************************************)
EXTENDS BufferState, TLAPS

----------------------------------------------------------------------------
(* Lists: sequences without repetitions. *)

\* The elements of a sequence.
LEMMA ListElements ==
    ASSUME NEW S, NEW s \in Seq(S)
    PROVE  /\ Range(s) \subseteq S
           /\ s = <<>> <=> Range(s) = {}
           /\ s # <<>> => Head(s) \in Range(s) /\ Head(s) \in S
<1>1. DOMAIN s = 1..Len(s) /\ Len(s) \in Nat /\ \A i \in 1..Len(s) : s[i] \in S
  OBVIOUS
<1>2. s = <<>> <=> Len(s) = 0
  OBVIOUS
<1>3. s # <<>> => Head(s) = s[1] /\ 1 \in DOMAIN s
  BY <1>1, <1>2
<1>5. s = <<>> <=> Range(s) = {}
  BY <1>1, <1>2 DEF Range
<1> QED BY Zenon, <1>1, <1>3, <1>5 DEF Range

\* The empty list.
LEMMA ListEmpty ==
    ASSUME NEW S
    PROVE  <<>> \in Seq(S) /\ IsInjective(<<>>) /\ Range(<<>>) = {}
BY DEF IsInjective, Range

\* A new element at the end.
LEMMA ListAppend ==
    ASSUME NEW S, NEW s \in Seq(S), IsInjective(s), NEW x \in S, x \notin Range(s)
    PROVE  /\ Append(s, x) \in Seq(S) /\ IsInjective(Append(s, x))
           /\ Range(Append(s, x)) = Range(s) \cup {x}
<1> DEFINE t == Append(s, x)
<1>1. DOMAIN s = 1..Len(s) /\ Len(s) \in Nat
  OBVIOUS
<1>2. /\ t \in Seq(S) /\ DOMAIN t = 1..(Len(s) + 1)
      /\ \A i \in 1..Len(s) : t[i] = s[i]
      /\ t[Len(s) + 1] = x
  BY <1>1
<1> HIDE DEF t
<1>3. \A i \in 1..Len(s) : s[i] # x
  BY Zenon, <1>1 DEF Range
<1>4. Range(t) = Range(s) \cup {x}
  BY <1>1, <1>2 DEF Range
<1>5. ASSUME NEW i \in DOMAIN t, NEW j \in DOMAIN t, t[i] = t[j] PROVE i = j
  BY <1>1, <1>2, <1>3, <1>5 DEF IsInjective
<1> QED BY Zenon, <1>2, <1>4, <1>5 DEF t, IsInjective

\* Two lists with different elements, one after the other.
LEMMA ListConcat ==
    ASSUME NEW S, NEW s \in Seq(S), NEW t \in Seq(S),
           IsInjective(s), IsInjective(t), Range(s) \cap Range(t) = {}
    PROVE  /\ s \o t \in Seq(S) /\ IsInjective(s \o t)
           /\ Range(s \o t) = Range(s) \cup Range(t)
<1> DEFINE u == s \o t
<1>1. PICK m \in Nat, n \in Nat :
         m = Len(s) /\ n = Len(t) /\ DOMAIN s = 1..m /\ DOMAIN t = 1..n
  OBVIOUS
<1>2. /\ u \in Seq(S) /\ DOMAIN u = 1..(m + n)
      /\ \A i \in 1..(m + n) : u[i] = IF i <= m THEN s[i] ELSE t[i - m]
  BY <1>1
<1> HIDE DEF u
<1>3. \A i \in 1..m, j \in 1..n : s[i] # t[j]
  BY Zenon, <1>1 DEF Range
<1>4. Range(u) = Range(s) \cup Range(t)
  <2>1. \A i \in 1..m : i \in 1..(m + n) /\ u[i] = s[i]
    BY <1>2
  <2>2. \A j \in 1..n : j + m \in 1..(m + n) /\ u[j + m] = t[j]
    BY <1>2
  <2>3. \A i \in 1..(m + n) : (i \in 1..m /\ u[i] = s[i]) \/ (i - m \in 1..n /\ u[i] = t[i - m])
    BY <1>2
  <2>4. ASSUME NEW y \in Range(u) PROVE y \in Range(s) \cup Range(t)
    BY ZenonT(40), <1>1, <1>2, <2>3 DEF Range
  <2>5. ASSUME NEW y \in Range(s) PROVE y \in Range(u)
    BY <1>1, <1>2, <2>1 DEF Range
  <2>6. ASSUME NEW y \in Range(t) PROVE y \in Range(u)
    <3>1. PICK j \in 1..n : y = t[j]
      BY Zenon, <1>1 DEF Range
    <3>2. j + m \in DOMAIN u /\ u[j + m] = y
      BY Zenon, <1>2, <2>2, <3>1
    <3> QED BY Zenon, <3>2 DEF Range
  <2> QED BY Zenon, <2>4, <2>5, <2>6
<1>5. ASSUME NEW i \in 1..(m + n), NEW j \in 1..(m + n), u[i] = u[j] PROVE i = j
  <2>1. CASE i <= m /\ j <= m
    <3>1. i \in DOMAIN s /\ j \in DOMAIN s /\ s[i] = s[j]
      BY <1>1, <1>2, <1>5, <2>1
    <3> QED BY Zenon, <3>1 DEF IsInjective
  <2>2. CASE i > m /\ j > m
    <3>1. i - m \in 1..n /\ j - m \in 1..n /\ t[i - m] = t[j - m]
      BY SMTT(30), <1>2, <1>5, <2>2
    <3>2. i - m = j - m
      BY Zenon, <1>1, <3>1 DEF IsInjective
    <3> QED BY <3>2
  <2>3. CASE i <= m /\ j > m
    <3>1. i \in 1..m /\ j - m \in 1..n /\ u[i] = s[i] /\ u[j] = t[j - m]
      BY <1>2, <2>3
    <3>2. s[i] # t[j - m]
      BY Zenon, <1>3, <3>1
    <3> QED BY Zenon, <1>5, <3>1, <3>2
  <2>4. CASE i > m /\ j <= m
    <3>1. j \in 1..m /\ i - m \in 1..n /\ u[j] = s[j] /\ u[i] = t[i - m]
      BY <1>2, <2>4
    <3>2. s[j] # t[i - m]
      BY Zenon, <1>3, <3>1
    <3> QED BY Zenon, <1>5, <3>1, <3>2
  <2> QED BY <2>1, <2>2, <2>3, <2>4
<1> QED BY Zenon, <1>2, <1>4, <1>5 DEF u, IsInjective

\* A new element at the head.
LEMMA ListPush ==
    ASSUME NEW S, NEW s \in Seq(S), IsInjective(s), NEW x \in S, x \notin Range(s)
    PROVE  /\ <<x>> \o s \in Seq(S) /\ IsInjective(<<x>> \o s)
           /\ Range(<<x>> \o s) = Range(s) \cup {x}
<1>0. <<x>> \in Seq(S) /\ DOMAIN <<x>> = {1} /\ <<x>>[1] = x
  OBVIOUS
<1>1. PICK u \in Seq(S) : u = <<x>> /\ DOMAIN u = {1} /\ u[1] = x
  BY Zenon, <1>0, Zenon
<1>2. IsInjective(u) /\ Range(u) = {x}
  BY Zenon, <1>1 DEF IsInjective, Range
<1>3. Range(u) \cap Range(s) = {}
  BY Zenon, <1>2
<1>4. u \o s \in Seq(S) /\ IsInjective(u \o s) /\ Range(u \o s) = Range(u) \cup Range(s)
  BY <1>2, <1>3, ListConcat
<1> QED BY Zenon, <1>1, <1>2, <1>4

\* The first element leaves.
LEMMA ListTail ==
    ASSUME NEW S, NEW s \in Seq(S), IsInjective(s), s # <<>>
    PROVE  /\ Tail(s) \in Seq(S) /\ IsInjective(Tail(s))
           /\ Range(Tail(s)) = Range(s) \ {Head(s)}
<1> DEFINE t == Tail(s)
<1>1. Len(s) \in Nat \ {0} /\ DOMAIN s = 1..Len(s)
  OBVIOUS
<1>2. /\ Head(s) = s[1] /\ t \in Seq(S) /\ DOMAIN t = 1..(Len(s) - 1)
      /\ \A i \in 1..(Len(s) - 1) : t[i] = s[i + 1]
  BY <1>1
<1> HIDE DEF t
<1>3. \A i \in DOMAIN t : i + 1 \in DOMAIN s /\ i + 1 # 1 /\ t[i] = s[i + 1]
  BY <1>1, <1>2
<1>4. \A j \in DOMAIN s : j # 1 => j - 1 \in DOMAIN t /\ t[j - 1] = s[j]
  BY <1>1, <1>2
<1>5. Range(t) = Range(s) \ {s[1]}
  <2>1. ASSUME NEW x \in Range(t) PROVE x \in Range(s) /\ x # s[1]
    BY <1>1, <1>3 DEF Range, IsInjective
  <2>2. ASSUME NEW x \in Range(s), x # s[1] PROVE x \in Range(t)
    BY <1>4, <2>2 DEF Range
  <2> QED BY Zenon, <2>1, <2>2
<1>6. ASSUME NEW i \in DOMAIN t, NEW j \in DOMAIN t, t[i] = t[j] PROVE i = j
  BY SMTT(30), <1>1, <1>2, <1>3, <1>6 DEF IsInjective
<1> QED BY Zenon, <1>2, <1>5, <1>6 DEF t, IsInjective

\* An element, if it is there, leaves.
LEMMA ListRemove ==
    ASSUME NEW S, NEW s \in Seq(S), IsInjective(s), NEW x
    PROVE  /\ Unlink(s, x) \in Seq(S) /\ IsInjective(Unlink(s, x))
           /\ Range(Unlink(s, x)) = Range(s) \ {x}
<1>1. PICK n \in Nat : n = Len(s) /\ DOMAIN s = 1..n
  OBVIOUS
<1>2. CASE ~\E i \in DOMAIN s : s[i] = x
  <2>1. x \notin Range(s)
    BY Zenon, <1>1, <1>2 DEF Range
  <2>2. Unlink(s, x) = s
    BY Zenon, <2>1 DEF Unlink
  <2> QED BY Zenon, <2>1, <2>2
<1>3. CASE \E i \in DOMAIN s : s[i] = x
  <2> DEFINE t == Unlink(s, x)
  <2>1. PICK k \in 1..n : k = (CHOOSE i \in DOMAIN s : s[i] = x) /\ s[k] = x
    BY Zenon, <1>1, <1>3
  <2>2. s[k] = x
    BY Zenon, <2>1
  <2>3. t = SubSeq(s, 1, k - 1) \o SubSeq(s, k + 1, n)
    <3>1. x \in Range(s)
      BY Zenon, <1>3 DEF Range
    <3> QED BY Zenon, <1>1, <2>1, <3>1 DEF Unlink
  <2>4. /\ SubSeq(s, 1, k - 1) \in Seq(S) /\ Len(SubSeq(s, 1, k - 1)) = k - 1
        /\ \A i \in 1..(k - 1) : SubSeq(s, 1, k - 1)[i] = s[i]
    <3>1. \A i \in 1..(k - 1) : s[i] \in S
      BY <1>1
    <3> QED BY <1>1, <3>1
  <2>5. /\ SubSeq(s, k + 1, n) \in Seq(S) /\ Len(SubSeq(s, k + 1, n)) = n - k
        /\ \A i \in 1..(n - k) : SubSeq(s, k + 1, n)[i] = s[i + k]
    <3>1. \A i \in (k + 1)..n : s[i] \in S
      BY <1>1
    <3> QED BY <1>1, <3>1
  <2>6. /\ t \in Seq(S) /\ DOMAIN t = 1..(n - 1)
        /\ \A i \in 1..(n - 1) : t[i] = IF i < k THEN s[i] ELSE s[i + 1]
    <3> DEFINE a == SubSeq(s, 1, k - 1)
               b == SubSeq(s, k + 1, n)
    <3> HIDE DEF a, b, t
    <3>1. /\ a \in Seq(S) /\ Len(a) = k - 1 /\ \A i \in 1..(k - 1) : a[i] = s[i]
          /\ b \in Seq(S) /\ Len(b) = n - k /\ \A i \in 1..(n - k) : b[i] = s[i + k]
          /\ t = a \o b
      BY Zenon, <2>3, <2>4, <2>5 DEF a, b
    <3>2. /\ t \in Seq(S) /\ Len(t) = n - 1
          /\ \A i \in 1..(n - 1) : t[i] = IF i <= Len(a) THEN a[i] ELSE b[i - Len(a)]
      <4>1. Len(a) + Len(b) = n - 1
        BY <3>1
      <4>2. /\ a \o b \in Seq(S) /\ Len(a \o b) = Len(a) + Len(b)
            /\ \A i \in 1 .. Len(a) + Len(b) : (a \o b)[i] =
                  IF i <= Len(a) THEN a[i] ELSE b[i - Len(a)]
        <5>1. a \in Seq(S) /\ b \in Seq(S)
          BY Zenon, <3>1
        <5> QED BY <5>1
      <4> QED BY Zenon, <3>1, <4>1, <4>2
    <3>3. DOMAIN t = 1..(n - 1)
      BY <3>2
    <3>4. ASSUME NEW i \in 1..(n - 1) PROVE t[i] = IF i < k THEN s[i] ELSE s[i + 1]
      <4>1. CASE i < k
        BY <3>1, <3>2, <4>1
      <4>2. CASE ~(i < k)
        <5>1. i - (k - 1) \in 1..(n - k) /\ (i - (k - 1)) + k = i + 1
          BY <4>2
        <5> QED BY SMTT(30), <3>1, <3>2, <4>2, <5>1
      <4> QED BY Zenon, <4>1, <4>2
    <3> QED BY Zenon, <3>2, <3>3, <3>4
  <2> HIDE DEF t
  <2>8. Range(t) = Range(s) \ {x}
    <3>1. ASSUME NEW y \in Range(t) PROVE y \in Range(s) /\ y # x
      <4>1. PICK i \in 1..(n - 1) : y = t[i]
        BY Zenon, <2>6 DEF Range
      <4>2. PICK j \in 1..n : y = s[j] /\ j # k
        BY SMTT(30), <2>6, <4>1
      <4> QED BY Zenon, <1>1, <2>2, <4>2 DEF Range, IsInjective
    <3>2. ASSUME NEW y \in Range(s), y # x PROVE y \in Range(t)
      <4>1. PICK j \in 1..n : y = s[j] /\ j # k
        BY Zenon, <1>1, <2>2, <3>2 DEF Range
      <4>2. CASE j < k
        <5>1. j \in 1..(n - 1) /\ t[j] = s[j]
          BY <2>6, <4>2
        <5> QED BY Zenon, <2>6, <4>1, <5>1 DEF Range
      <4>3. CASE j > k
        <5>1. j - 1 \in 1..(n - 1) /\ t[j - 1] = s[j]
          BY SMTT(30), <2>6, <4>1, <4>3
        <5> QED BY Zenon, <2>6, <4>1, <5>1 DEF Range
      <4> QED BY <4>1, <4>2, <4>3
    <3> QED BY Zenon, <3>1, <3>2
  <2>9. ASSUME NEW i \in 1..(n - 1), NEW j \in 1..(n - 1), t[i] = t[j] PROVE i = j
    <3>1. /\ (IF i < k THEN i ELSE i + 1) \in 1..n
          /\ (IF j < k THEN j ELSE j + 1) \in 1..n
          /\ s[IF i < k THEN i ELSE i + 1] = s[IF j < k THEN j ELSE j + 1]
      BY SMTT(30), <2>6, <2>9
    <3>2. (IF i < k THEN i ELSE i + 1) = (IF j < k THEN j ELSE j + 1)
      BY Zenon, <1>1, <3>1 DEF IsInjective
    <3> QED BY <3>2
  <2> QED BY Zenon, <2>6, <2>8, <2>9 DEF t, IsInjective
<1> QED BY Zenon, <1>2, <1>3

----------------------------------------------------------------------------
CacheType ==
    [free : Seq(Bufs), dirty : Seq(Bufs), hash : Seq(Bufs),
     blk : [Bufs -> Blocks \cup {NULL}],
     flags : [Bufs -> SUBSET {"LOCKED", "DIRTY", "VALID"}],
     pool : SUBSET Bufs, fresh : SUBSET Bufs, mark : SUBSET Bufs]

\* No list has a buffer twice.
CacheOK(c) ==
    /\ c \in CacheType
    /\ IsInjective(c.free) /\ IsInjective(c.dirty) /\ IsInjective(c.hash)

Flagged(c, f) == {b \in Bufs : Has(c, b, f)}

----------------------------------------------------------------------------
\* What the operations do to the lists, the flags and the buffer table.

\* New flags of a buffer leave the lists alone.
LEMMA FlagView ==
    ASSUME NEW c, CacheOK(c), NEW fl \in [Bufs -> SUBSET {"LOCKED", "DIRTY", "VALID"}]
    PROVE  \A d : d = [c EXCEPT !.flags = fl] =>
              /\ CacheOK(d) /\ d.free = c.free /\ d.dirty = c.dirty /\ d.hash = c.hash
              /\ d.pool = c.pool /\ d.blk = c.blk /\ d.flags = fl
BY ZenonT(40) DEF CacheOK, CacheType

\* Giving a list new contents leaves the rest alone.
LEMMA ListView ==
    ASSUME NEW c, CacheOK(c), NEW s \in Seq(Bufs), IsInjective(s)
    PROVE  /\ \A d : d = [c EXCEPT !.free = s] =>
              /\ CacheOK(d) /\ d.free = s /\ d.dirty = c.dirty /\ d.hash = c.hash
              /\ d.pool = c.pool /\ d.blk = c.blk /\ d.flags = c.flags
           /\ \A d : d = [c EXCEPT !.dirty = s] =>
              /\ CacheOK(d) /\ d.free = c.free /\ d.dirty = s /\ d.hash = c.hash
              /\ d.pool = c.pool /\ d.blk = c.blk /\ d.flags = c.flags
           /\ \A d : d = [c EXCEPT !.hash = s] =>
              /\ CacheOK(d) /\ d.free = c.free /\ d.dirty = c.dirty /\ d.hash = s
              /\ d.pool = c.pool /\ d.blk = c.blk /\ d.flags = c.flags
BY ZenonT(40) DEF CacheOK, CacheType

\* The lists of a cache are lists of buffers without repetition.
LEMMA ListsOK ==
    ASSUME NEW c, CacheOK(c)
    PROVE  /\ c.free \in Seq(Bufs) /\ IsInjective(c.free) /\ Range(c.free) \subseteq Bufs
           /\ c.dirty \in Seq(Bufs) /\ IsInjective(c.dirty) /\ Range(c.dirty) \subseteq Bufs
           /\ c.hash \in Seq(Bufs) /\ IsInjective(c.hash) /\ Range(c.hash) \subseteq Bufs
<1>1. /\ c.free \in Seq(Bufs) /\ c.dirty \in Seq(Bufs) /\ c.hash \in Seq(Bufs)
      /\ IsInjective(c.free) /\ IsInjective(c.dirty) /\ IsInjective(c.hash)
  BY Zenon DEF CacheOK, CacheType
<1> QED BY Zenon, <1>1, ListElements

\* The dirty list.
LEMMA DirtyListView ==
    ASSUME NEW c, CacheOK(c), NEW b \in Bufs
    PROVE  /\ LET d == insert_on_dirty_list(c, b) IN
              /\ CacheOK(d) /\ Range(d.dirty) = Range(c.dirty) \cup {b}
              /\ d.free = c.free /\ d.hash = c.hash
              /\ d.pool = c.pool /\ d.blk = c.blk /\ d.flags = c.flags
           /\ LET d == remove_from_dirty_list(c, b) IN
              /\ CacheOK(d) /\ Range(d.dirty) = Range(c.dirty) \ {b}
              /\ d.free = c.free /\ d.hash = c.hash
              /\ d.pool = c.pool /\ d.blk = c.blk /\ d.flags = c.flags
<1>1. c.dirty \in Seq(Bufs) /\ IsInjective(c.dirty)
  BY Zenon, ListsOK
<1> DEFINE Listed(d) == /\ CacheOK(d) /\ Range(d.dirty) = Range(c.dirty) \cup {b}
                        /\ d.free = c.free /\ d.hash = c.hash
                        /\ d.pool = c.pool /\ d.blk = c.blk /\ d.flags = c.flags
<1>4. /\ Unlink(c.dirty, b) \in Seq(Bufs) /\ IsInjective(Unlink(c.dirty, b))
      /\ Range(Unlink(c.dirty, b)) = Range(c.dirty) \ {b}
  BY Zenon, <1>1, ListRemove
<1>5. remove_from_dirty_list(c, b) = [c EXCEPT !.dirty = Unlink(c.dirty, b)]
  BY Zenon DEF remove_from_dirty_list, CacheOK, CacheType
<1>6. LET d == remove_from_dirty_list(c, b) IN
      /\ CacheOK(d) /\ Range(d.dirty) = Range(c.dirty) \ {b}
      /\ d.free = c.free /\ d.hash = c.hash
      /\ d.pool = c.pool /\ d.blk = c.blk /\ d.flags = c.flags
  BY <1>4, <1>5, ListView
<1>2. CASE b \in Range(c.dirty)
  <2>1. insert_on_dirty_list(c, b) = c /\ Range(c.dirty) = Range(c.dirty) \cup {b}
    BY Zenon, <1>2 DEF insert_on_dirty_list
  <2>2. Listed(insert_on_dirty_list(c, b))
    BY Zenon, <2>1
  <2> QED BY Zenon, <2>2, <1>6
<1>3. CASE b \notin Range(c.dirty)
  <2>1. PICK s \in Seq(Bufs) : /\ s = Append(c.dirty, b) /\ IsInjective(s)
                               /\ Range(s) = Range(c.dirty) \cup {b}
    <3>1. /\ Append(c.dirty, b) \in Seq(Bufs) /\ IsInjective(Append(c.dirty, b))
          /\ Range(Append(c.dirty, b)) = Range(c.dirty) \cup {b}
      BY SMTT(30), <1>1, <1>3, ListAppend
    <3> QED BY Zenon, <3>1
  <2>2. insert_on_dirty_list(c, b) = [c EXCEPT !.dirty = s]
    BY Zenon, <1>3, <2>1 DEF insert_on_dirty_list, CacheOK, CacheType
  <2>3. IsInjective(s) /\ Range(s) = Range(c.dirty) \cup {b}
    BY Zenon, <2>1
  <2>4. Listed(insert_on_dirty_list(c, b))
    BY <2>2, <2>3, ListView
  <2> QED BY Zenon, <2>4, <1>6
<1> QED BY Zenon, <1>2, <1>3

\* The free list.
LEMMA FreeListView ==
    ASSUME NEW c, CacheOK(c), NEW b \in Bufs
    PROVE  /\ b \notin Range(c.free) =>
              \A d \in {insert_on_free_list(c, b), append_on_free_list(c, b)} :
                 /\ CacheOK(d) /\ Range(d.free) = Range(c.free) \cup {b}
                 /\ d.dirty = c.dirty /\ d.hash = c.hash
                 /\ d.pool = c.pool /\ d.blk = c.blk /\ d.flags = c.flags
           /\ LET d == remove_from_free_list(c, b) IN
              /\ CacheOK(d) /\ Range(d.free) = Range(c.free) \ {b}
              /\ d.dirty = c.dirty /\ d.hash = c.hash
              /\ d.pool = c.pool /\ d.blk = c.blk /\ d.flags = c.flags
<1>1. c.free \in Seq(Bufs) /\ IsInjective(c.free)
  BY Zenon, ListsOK
<1>2. ASSUME b \notin Range(c.free),
             NEW d \in {insert_on_free_list(c, b), append_on_free_list(c, b)}
      PROVE  /\ CacheOK(d) /\ Range(d.free) = Range(c.free) \cup {b}
             /\ d.dirty = c.dirty /\ d.hash = c.hash
             /\ d.pool = c.pool /\ d.blk = c.blk /\ d.flags = c.flags
  <2>1. PICK s \in Seq(Bufs) : /\ s = Append(c.free, b) /\ IsInjective(s)
                               /\ Range(s) = Range(c.free) \cup {b}
    <3>1. /\ Append(c.free, b) \in Seq(Bufs) /\ IsInjective(Append(c.free, b))
          /\ Range(Append(c.free, b)) = Range(c.free) \cup {b}
      BY SMTT(30), <1>1, <1>2, ListAppend
    <3> QED BY Zenon, <3>1
  <2>2. PICK t \in Seq(Bufs) : /\ t = <<b>> \o c.free /\ IsInjective(t)
                               /\ Range(t) = Range(c.free) \cup {b}
    <3>1. /\ <<b>> \o c.free \in Seq(Bufs) /\ IsInjective(<<b>> \o c.free)
          /\ Range(<<b>> \o c.free) = Range(c.free) \cup {b}
      BY SMTT(30), <1>1, <1>2, ListPush
    <3> QED BY Zenon, <3>1
  <2>3. d = [c EXCEPT !.free = s] \/ d = [c EXCEPT !.free = t]
    BY Zenon, <2>1, <2>2 DEF insert_on_free_list, append_on_free_list, CacheOK, CacheType
  <2>4. /\ IsInjective(s) /\ Range(s) = Range(c.free) \cup {b}
        /\ IsInjective(t) /\ Range(t) = Range(c.free) \cup {b}
    BY Zenon, <2>1, <2>2
  <2> QED BY <2>3, <2>4, ListView
<1>4. /\ Unlink(c.free, b) \in Seq(Bufs) /\ IsInjective(Unlink(c.free, b))
      /\ Range(Unlink(c.free, b)) = Range(c.free) \ {b}
  BY Zenon, <1>1, ListRemove
<1>5. remove_from_free_list(c, b) = [c EXCEPT !.free = Unlink(c.free, b)]
  BY Zenon DEF remove_from_free_list, CacheOK, CacheType
<1>6. LET d == remove_from_free_list(c, b) IN
      /\ CacheOK(d) /\ Range(d.free) = Range(c.free) \ {b}
      /\ d.dirty = c.dirty /\ d.hash = c.hash
      /\ d.pool = c.pool /\ d.blk = c.blk /\ d.flags = c.flags
  BY <1>4, <1>5, ListView
<1> QED BY Zenon, <1>2, <1>6

\* The cache d: the buffers on its lists F, D and H, the locked ones L, those
\* to be written W, and all of them P.
View(d, F, D, H, L, W, P) ==
    /\ CacheOK(d) /\ Range(d.free) = F /\ Range(d.dirty) = D /\ Range(d.hash) = H
    /\ Flagged(d, "LOCKED") = L /\ Flagged(d, "DIRTY") = W /\ d.pool = P

\* New flags change what is locked and what is dirty.
LEMMA FlagsView ==
    ASSUME NEW c, NEW F, NEW D, NEW H, NEW L, NEW W, NEW P, View(c, F, D, H, L, W, P),
           NEW fl \in [Bufs -> SUBSET {"LOCKED", "DIRTY", "VALID"}]
    PROVE  View([c EXCEPT !.flags = fl], F, D, H, {x \in Bufs : "LOCKED" \in fl[x]},
                {x \in Bufs : "DIRTY" \in fl[x]}, P)
<1>1. PICK d : d = [c EXCEPT !.flags = fl]
  BY Zenon
<1>2. CacheOK(c)
  BY Zenon DEF View
<1>3. /\ CacheOK(d) /\ d.free = c.free /\ d.dirty = c.dirty /\ d.hash = c.hash
      /\ d.pool = c.pool /\ d.flags = fl
  BY <1>1, <1>2, FlagView
<1>4. View(d, F, D, H, {x \in Bufs : "LOCKED" \in fl[x]}, {x \in Bufs : "DIRTY" \in fl[x]}, P)
  BY Zenon, <1>3 DEF View, Flagged, Has
<1> QED BY Zenon, <1>1, <1>4

\* Locking a buffer.
LEMMA LockView ==
    ASSUME NEW c, NEW b \in Bufs, NEW F, NEW D, NEW H, NEW L, NEW W, NEW P,
           View(c, F, D, H, L, W, P)
    PROVE  View(SetFlag(c, b, "LOCKED"), F, D, H, L \cup {b}, W, P)
<1>1. c \in CacheType /\ c.flags \in [Bufs -> SUBSET {"LOCKED", "DIRTY", "VALID"}]
  BY Zenon DEF View, CacheOK, CacheType
<1>2. PICK fl \in [Bufs -> SUBSET {"LOCKED", "DIRTY", "VALID"}] :
          fl = [c.flags EXCEPT ![b] = @ \cup {"LOCKED"}]
  BY Zenon, <1>1
<1>3. SetFlag(c, b, "LOCKED") = [c EXCEPT !.flags = fl]
  BY Zenon, <1>1, <1>2 DEF SetFlag, CacheType
<1>4. {x \in Bufs : "LOCKED" \in fl[x]} = L \cup {b} /\ {x \in Bufs : "DIRTY" \in fl[x]} = W
  BY Zenon, <1>1, <1>2 DEF View, Flagged, Has
<1>5. View([c EXCEPT !.flags = fl], F, D, H, L \cup {b}, W, P)
  BY <1>4, FlagsView
<1> QED BY Zenon, <1>3, <1>5

\* Unlocking a buffer.
LEMMA UnlockView ==
    ASSUME NEW c, NEW b \in Bufs, NEW F, NEW D, NEW H, NEW L, NEW W, NEW P,
           View(c, F, D, H, L, W, P)
    PROVE  View(Clear(c, b, "LOCKED"), F, D, H, L \ {b}, W, P)
<1>1. c \in CacheType /\ c.flags \in [Bufs -> SUBSET {"LOCKED", "DIRTY", "VALID"}]
  BY Zenon DEF View, CacheOK, CacheType
<1>2. PICK fl \in [Bufs -> SUBSET {"LOCKED", "DIRTY", "VALID"}] :
          fl = [c.flags EXCEPT ![b] = @ \ {"LOCKED"}]
  BY Zenon, <1>1
<1>3. Clear(c, b, "LOCKED") = [c EXCEPT !.flags = fl]
  BY Zenon, <1>1, <1>2 DEF Clear, CacheType
<1>4. {x \in Bufs : "LOCKED" \in fl[x]} = L \ {b} /\ {x \in Bufs : "DIRTY" \in fl[x]} = W
  BY Zenon, <1>1, <1>2 DEF View, Flagged, Has
<1>5. View([c EXCEPT !.flags = fl], F, D, H, L \ {b}, W, P)
  BY <1>4, FlagsView
<1> QED BY Zenon, <1>3, <1>5

\* A buffer is clean once it is written.
LEMMA CleanView ==
    ASSUME NEW c, NEW b \in Bufs, NEW F, NEW D, NEW H, NEW L, NEW W, NEW P,
           View(c, F, D, H, L, W, P)
    PROVE  View(Clear(c, b, "DIRTY"), F, D, H, L, W \ {b}, P)
<1>1. c \in CacheType /\ c.flags \in [Bufs -> SUBSET {"LOCKED", "DIRTY", "VALID"}]
  BY Zenon DEF View, CacheOK, CacheType
<1>2. PICK fl \in [Bufs -> SUBSET {"LOCKED", "DIRTY", "VALID"}] :
          fl = [c.flags EXCEPT ![b] = @ \ {"DIRTY"}]
  BY Zenon, <1>1
<1>3. Clear(c, b, "DIRTY") = [c EXCEPT !.flags = fl]
  BY Zenon, <1>1, <1>2 DEF Clear, CacheType
<1>4. {x \in Bufs : "LOCKED" \in fl[x]} = L /\ {x \in Bufs : "DIRTY" \in fl[x]} = W \ {b}
  BY Zenon, <1>1, <1>2 DEF View, Flagged, Has
<1>5. View([c EXCEPT !.flags = fl], F, D, H, L, W \ {b}, P)
  BY <1>4, FlagsView
<1> QED BY Zenon, <1>3, <1>5

\* A buffer is valid once it is read.
LEMMA ValidView ==
    ASSUME NEW c, NEW b \in Bufs, NEW F, NEW D, NEW H, NEW L, NEW W, NEW P,
           View(c, F, D, H, L, W, P)
    PROVE  View(SetFlag(c, b, "VALID"), F, D, H, L, W, P)
<1>1. c \in CacheType /\ c.flags \in [Bufs -> SUBSET {"LOCKED", "DIRTY", "VALID"}]
  BY Zenon DEF View, CacheOK, CacheType
<1>2. PICK fl \in [Bufs -> SUBSET {"LOCKED", "DIRTY", "VALID"}] :
          fl = [c.flags EXCEPT ![b] = @ \cup {"VALID"}]
  BY Zenon, <1>1
<1>3. SetFlag(c, b, "VALID") = [c EXCEPT !.flags = fl]
  BY Zenon, <1>1, <1>2 DEF SetFlag, CacheType
<1>4. {x \in Bufs : "LOCKED" \in fl[x]} = L /\ {x \in Bufs : "DIRTY" \in fl[x]} = W
  BY Zenon, <1>1, <1>2 DEF View, Flagged, Has
<1>5. View([c EXCEPT !.flags = fl], F, D, H, L, W, P)
  BY ZenonT(40), <1>4, FlagsView
<1> QED BY Zenon, <1>3, <1>5

\* A buffer is invalid once it is given to another block.
LEMMA InvalidView ==
    ASSUME NEW c, NEW b \in Bufs, NEW F, NEW D, NEW H, NEW L, NEW W, NEW P,
           View(c, F, D, H, L, W, P)
    PROVE  View(Clear(c, b, "VALID"), F, D, H, L, W, P)
<1>1. c \in CacheType /\ c.flags \in [Bufs -> SUBSET {"LOCKED", "DIRTY", "VALID"}]
  BY Zenon DEF View, CacheOK, CacheType
<1>2. PICK fl \in [Bufs -> SUBSET {"LOCKED", "DIRTY", "VALID"}] :
          fl = [c.flags EXCEPT ![b] = @ \ {"VALID"}]
  BY Zenon, <1>1
<1>3. Clear(c, b, "VALID") = [c EXCEPT !.flags = fl]
  BY Zenon, <1>1, <1>2 DEF Clear, CacheType
<1>4. {x \in Bufs : "LOCKED" \in fl[x]} = L /\ {x \in Bufs : "DIRTY" \in fl[x]} = W
  BY Zenon, <1>1, <1>2 DEF View, Flagged, Has
<1>5. View([c EXCEPT !.flags = fl], F, D, H, L, W, P)
  BY Zenon, <1>4, FlagsView
<1> QED BY Zenon, <1>3, <1>5

\* Whether a flag is set, in the terms of the view.
LEMMA HasView ==
    ASSUME NEW c, NEW b \in Bufs, NEW F, NEW D, NEW H, NEW L, NEW W, NEW P,
           View(c, F, D, H, L, W, P)
    PROVE  (Has(c, b, "DIRTY") <=> b \in W) /\ (Has(c, b, "LOCKED") <=> b \in L)
BY Zenon DEF View, Flagged

\* A change of a list leaves the flags alone.
LEMMA SameFlags ==
    ASSUME NEW c, NEW d, d.flags = c.flags
    PROVE  \A g : Flagged(d, g) = Flagged(c, g)
BY Zenon DEF Flagged, Has

\* The dirty list in the terms of the view.
LEMMA DirtyView ==
    ASSUME NEW c, NEW b \in Bufs, NEW F, NEW D, NEW H, NEW L, NEW W, NEW P,
           View(c, F, D, H, L, W, P)
    PROVE  /\ View(insert_on_dirty_list(c, b), F, D \cup {b}, H, L, W, P)
           /\ View(remove_from_dirty_list(c, b), F, D \ {b}, H, L, W, P)
<1>1. CacheOK(c)
  BY Zenon DEF View
<1>2. View(insert_on_dirty_list(c, b), F, D \cup {b}, H, L, W, P)
  <2>1. PICK d : d = insert_on_dirty_list(c, b)
    BY Zenon
  <2>2. /\ CacheOK(d) /\ Range(d.dirty) = Range(c.dirty) \cup {b} /\ d.free = c.free
        /\ d.hash = c.hash /\ d.pool = c.pool /\ d.flags = c.flags
    BY ZenonT(40), <1>1, <2>1, DirtyListView
  <2>3. View(d, F, D \cup {b}, H, L, W, P)
    BY Zenon, <2>2, SameFlags DEF View
  <2> QED BY Zenon, <2>1, <2>3
<1>3. View(remove_from_dirty_list(c, b), F, D \ {b}, H, L, W, P)
  <2>1. PICK d : d = remove_from_dirty_list(c, b)
    BY Zenon
  <2>2. /\ CacheOK(d) /\ Range(d.dirty) = Range(c.dirty) \ {b} /\ d.free = c.free
        /\ d.hash = c.hash /\ d.pool = c.pool /\ d.flags = c.flags
    BY Zenon, <1>1, <2>1, DirtyListView
  <2>3. View(d, F, D \ {b}, H, L, W, P)
    BY Zenon, <2>2, SameFlags DEF View
  <2> QED BY Zenon, <2>1, <2>3
<1> QED BY Zenon, <1>2, <1>3

\* The free list in the terms of the view: giving a buffer back.
LEMMA FreeView ==
    ASSUME NEW c, NEW b \in Bufs, NEW F, NEW D, NEW H, NEW L, NEW W, NEW P,
           View(c, F, D, H, L, W, P), b \notin F
    PROVE  /\ View(insert_on_free_list(c, b), F \cup {b}, D, H, L, W, P)
           /\ View(append_on_free_list(c, b), F \cup {b}, D, H, L, W, P)
<1>1. CacheOK(c) /\ b \notin Range(c.free)
  BY Zenon DEF View
<1>2. View(insert_on_free_list(c, b), F \cup {b}, D, H, L, W, P)
  <2>1. PICK d : d = insert_on_free_list(c, b)
    BY Zenon
  <2>2. /\ CacheOK(d) /\ Range(d.free) = Range(c.free) \cup {b} /\ d.dirty = c.dirty
        /\ d.hash = c.hash /\ d.pool = c.pool /\ d.flags = c.flags
    BY ZenonT(40), <1>1, <2>1, FreeListView
  <2>3. View(d, F \cup {b}, D, H, L, W, P)
    BY Zenon, <2>2, SameFlags DEF View
  <2> QED BY Zenon, <2>1, <2>3
<1>3. View(append_on_free_list(c, b), F \cup {b}, D, H, L, W, P)
  <2>1. PICK d : d = append_on_free_list(c, b)
    BY Zenon
  <2>2. /\ CacheOK(d) /\ Range(d.free) = Range(c.free) \cup {b} /\ d.dirty = c.dirty
        /\ d.hash = c.hash /\ d.pool = c.pool /\ d.flags = c.flags
    BY ZenonT(40), <1>1, <2>1, FreeListView
  <2>3. View(d, F \cup {b}, D, H, L, W, P)
    BY Zenon, <2>2, SameFlags DEF View
  <2> QED BY Zenon, <2>1, <2>3
<1> QED BY Zenon, <1>2, <1>3

\* The free list in the terms of the view: taking a buffer.
LEMMA UnfreeView ==
    ASSUME NEW c, NEW b \in Bufs, NEW F, NEW D, NEW H, NEW L, NEW W, NEW P,
           View(c, F, D, H, L, W, P)
    PROVE  View(remove_from_free_list(c, b), F \ {b}, D, H, L, W, P)
<1>1. CacheOK(c)
  BY Zenon DEF View
<1>2. View(remove_from_free_list(c, b), F \ {b}, D, H, L, W, P)
  <2>1. PICK d : d = remove_from_free_list(c, b)
    BY Zenon
  <2>2. /\ CacheOK(d) /\ Range(d.free) = Range(c.free) \ {b} /\ d.dirty = c.dirty
        /\ d.hash = c.hash /\ d.pool = c.pool /\ d.flags = c.flags
    BY ZenonT(40), <1>1, <2>1, FreeListView
  <2>3. View(d, F \ {b}, D, H, L, W, P)
    BY Zenon, <2>2, SameFlags DEF View
  <2> QED BY Zenon, <2>1, <2>3
<1> QED BY Zenon, <1>2

\* sync_buffers() gives a buffer back to the dirty list.
LEMMA RelistView ==
    ASSUME NEW c, NEW b \in Bufs, NEW F, NEW D, NEW H, NEW L, NEW W, NEW P,
           View(c, F, D, H, L, W, P)
    PROVE  View(Relist(c, b), F, D \cup {b}, H, L \ {b}, W, P)
<1>1. View(insert_on_dirty_list(c, b), F, D \cup {b}, H, L, W, P)
  BY Zenon, DirtyView
<1> QED BY Zenon, <1>1, UnlockView DEF Relist

\* get_dirty_buffer() takes a buffer from the dirty list.
LEMMA TakeDirtyView ==
    ASSUME NEW c, NEW b \in Bufs, NEW F, NEW D, NEW H, NEW L, NEW W, NEW P,
           View(c, F, D, H, L, W, P)
    PROVE  View(TakeDirty(c, b), F, D \ {b}, H, L \cup {b}, W, P)
<1>1. View(remove_from_dirty_list(c, b), F, D \ {b}, H, L, W, P)
  BY Zenon, DirtyView
<1> QED BY Zenon, <1>1, LockView DEF TakeDirty

\* A buffer given back to the free list as it was.
LEMMA PutBackView ==
    ASSUME NEW c, NEW b \in Bufs, NEW F, NEW D, NEW H, NEW L, NEW W, NEW P,
           View(c, F, D, H, L, W, P), b \notin F
    PROVE  View(PutBack(c, b), F \cup {b}, D, H, L \ {b}, W, P)
<1>1. View(Clear(c, b, "LOCKED"), F, D, H, L \ {b}, W, P)
  BY Zenon, UnlockView
<1> QED BY Zenon, <1>1, FreeView DEF PutBack

\* brelse() puts a buffer back, a dirty one on the dirty list too.
LEMMA ReleaseView ==
    ASSUME NEW c, NEW b \in Bufs, NEW F, NEW D, NEW H, NEW L, NEW W, NEW P,
           View(c, F, D, H, L, W, P), b \notin F
    PROVE  View(brelse(c, b), F \cup {b}, IF b \in W THEN D \cup {b} ELSE D, H, L \ {b}, W, P)
<1> DEFINE d == IF Has(c, b, "DIRTY") THEN insert_on_dirty_list(c, b) ELSE c
           E == IF b \in W THEN D \cup {b} ELSE D
<1>1. View(d, F, E, H, L, W, P)
  <2>1. Has(c, b, "DIRTY") <=> b \in W
    BY Zenon, HasView
  <2>2. View(insert_on_dirty_list(c, b), F, D \cup {b}, H, L, W, P)
    BY Zenon, DirtyView
  <2> QED BY Zenon, <2>1, <2>2
<1>2. brelse(c, b) = Clear(insert_on_free_list(d, b), b, "LOCKED")
  BY Zenon DEF brelse
<1> HIDE DEF d, E
<1>3. View(insert_on_free_list(d, b), F \cup {b}, E, H, L, W, P)
  BY Zenon, <1>1, FreeView
<1>4. View(Clear(insert_on_free_list(d, b), b, "LOCKED"), F \cup {b}, E, H, L \ {b}, W, P)
  BY Zenon, <1>3, UnlockView
<1> QED BY Zenon, <1>2, <1>4 DEF E

\* The history of the contents and kswapd's marks are no part of the view.
LEMMA MarkView ==
    ASSUME NEW c, NEW m \in SUBSET Bufs, NEW F, NEW D, NEW H, NEW L, NEW W, NEW P,
           View(c, F, D, H, L, W, P)
    PROVE  /\ View([c EXCEPT !.mark = m], F, D, H, L, W, P)
           /\ View([c EXCEPT !.fresh = m], F, D, H, L, W, P)
<1>1. CacheOK(c) /\ c \in CacheType
  BY Zenon DEF View, CacheOK
<1>2. ASSUME NEW d, d = [c EXCEPT !.mark = m] \/ d = [c EXCEPT !.fresh = m]
      PROVE  /\ CacheOK(d) /\ d.free = c.free /\ d.dirty = c.dirty /\ d.hash = c.hash
             /\ d.pool = c.pool /\ d.flags = c.flags
  BY ZenonT(40), <1>1, <1>2 DEF CacheOK, CacheType
<1>3. ASSUME NEW d, d = [c EXCEPT !.mark = m] \/ d = [c EXCEPT !.fresh = m]
      PROVE  View(d, F, D, H, L, W, P)
  BY Zenon, <1>2, <1>3 DEF View, Flagged, Has
<1> QED BY Zenon, <1>3

\* getblk() gives a buffer to another block.
LEMMA RehashView ==
    ASSUME NEW c, NEW b \in Bufs, NEW k \in Blocks \cup {NULL},
           NEW F, NEW D, NEW H, NEW L, NEW W, NEW P, View(c, F, D, H, L, W, P)
    PROVE  View(Rehash(c, b, k), F, D, H \cup {b}, L, W, P)
<1>1. CacheOK(c) /\ c \in CacheType
  BY Zenon DEF View, CacheOK
<1>2. c.hash \in Seq(Bufs) /\ IsInjective(c.hash)
  BY Zenon, <1>1, ListsOK
<1>3. PICK u : /\ u = Unlink(c.hash, b) /\ u \in Seq(Bufs) /\ IsInjective(u)
               /\ Range(u) = Range(c.hash) \ {b}
  BY Zenon, <1>2, ListRemove
<1>4. PICK s : /\ s = <<b>> \o u /\ s \in Seq(Bufs) /\ IsInjective(s)
               /\ Range(s) = Range(u) \cup {b}
  <2>1. u \in Seq(Bufs) /\ IsInjective(u) /\ b \notin Range(u)
    BY Zenon, <1>3
  <2>2. /\ <<b>> \o u \in Seq(Bufs) /\ IsInjective(<<b>> \o u)
        /\ Range(<<b>> \o u) = Range(u) \cup {b}
    BY <2>1, ListPush
  <2> QED BY Zenon, <2>2
<1>5. PICK B \in [Bufs -> Blocks \cup {NULL}] : B = [c.blk EXCEPT ![b] = k]
  BY Zenon, <1>1 DEF CacheType
<1>6. PICK fr \in SUBSET Bufs : fr = c.fresh \ {b}
  BY Zenon, <1>1 DEF CacheType
<1>7. PICK d : d = [c EXCEPT !.hash = s, !.blk = B, !.fresh = fr]
  BY Zenon
<1>8. Rehash(c, b, k) = Clear(d, b, "VALID")
  <2>1. [remove_from_hash(c, b) EXCEPT !.blk[b] = k, !.fresh = @ \ {b}]
          = [c EXCEPT !.hash = u, !.blk = B, !.fresh = fr]
    BY Zenon, <1>1, <1>3, <1>5, <1>6 DEF remove_from_hash, CacheType
  <2>2. insert_to_hash([c EXCEPT !.hash = u, !.blk = B, !.fresh = fr], b) = d
    BY Zenon, <1>1, <1>4, <1>7 DEF insert_to_hash, CacheType
  <2> QED BY Zenon, <2>1, <2>2 DEF Rehash
<1>9. IsInjective(s) /\ Range(s) = Range(c.hash) \cup {b} /\ s \in Seq(Bufs)
  BY Zenon, <1>3, <1>4
<1>10. /\ CacheOK(d) /\ d.free = c.free /\ d.dirty = c.dirty /\ d.hash = s
       /\ d.pool = c.pool /\ d.flags = c.flags
  BY Zenon, <1>1, <1>7, <1>9 DEF CacheOK, CacheType
<1>11. View(d, F, D, H \cup {b}, L, W, P)
  BY Zenon, <1>9, <1>10 DEF View, Flagged, Has
<1>12. View(Clear(d, b, "VALID"), F, D, H \cup {b}, L, W, P)
  BY Zenon, <1>11, InvalidView
<1> QED BY Zenon, <1>8, <1>12

\* kswapd drops a buffer.
LEMMA DiscardView ==
    ASSUME NEW c, NEW b \in Bufs, NEW F, NEW D, NEW H, NEW L, NEW W, NEW P,
           View(c, F, D, H, L, W, P)
    PROVE  View(Discard(c, b), F \ {b}, D, H \ {b}, L \ {b}, W \ {b}, P \ {b})
<1>1. CacheOK(c) /\ c \in CacheType
  BY Zenon DEF View, CacheOK
<1>2. /\ c.hash \in Seq(Bufs) /\ IsInjective(c.hash)
      /\ c.free \in Seq(Bufs) /\ IsInjective(c.free)
  BY Zenon, <1>1, ListsOK
<1>3. PICK u : /\ u = Unlink(c.hash, b) /\ u \in Seq(Bufs) /\ IsInjective(u)
               /\ Range(u) = Range(c.hash) \ {b}
  BY Zenon, <1>2, ListRemove
<1>4. PICK s : /\ s = Unlink(c.free, b) /\ s \in Seq(Bufs) /\ IsInjective(s)
               /\ Range(s) = Range(c.free) \ {b}
  BY Zenon, <1>2, ListRemove
<1>5. PICK B \in [Bufs -> Blocks \cup {NULL}] : B = [c.blk EXCEPT ![b] = NULL]
  BY Zenon, <1>1 DEF CacheType
<1>6. PICK fl \in [Bufs -> SUBSET {"LOCKED", "DIRTY", "VALID"}] :
          fl = [c.flags EXCEPT ![b] = {}]
  BY Zenon, <1>1 DEF CacheType
<1>7. PICK d : d = [c EXCEPT !.hash = u, !.free = s, !.pool = c.pool \ {b}, !.flags = fl,
                             !.blk = B, !.fresh = c.fresh \ {b}, !.mark = c.mark \ {b}]
  BY Zenon
<1>8. Discard(c, b) = d
  <2>1. remove_from_free_list(remove_from_hash(c, b), b) = [c EXCEPT !.hash = u, !.free = s]
    BY Zenon, <1>1, <1>3, <1>4 DEF remove_from_hash, remove_from_free_list, CacheType
  <2> QED BY ZenonT(40), <1>1, <1>5, <1>6, <1>7, <2>1 DEF Discard, CacheType
<1>9. /\ s \in Seq(Bufs) /\ IsInjective(s) /\ Range(s) = Range(c.free) \ {b}
      /\ u \in Seq(Bufs) /\ IsInjective(u) /\ Range(u) = Range(c.hash) \ {b}
  BY Zenon, <1>3, <1>4
<1>10. /\ CacheOK(d) /\ d.free = s /\ d.dirty = c.dirty /\ d.hash = u
       /\ d.pool = c.pool \ {b} /\ d.flags = fl
  BY Zenon, <1>1, <1>7, <1>9 DEF CacheOK, CacheType
<1>11. /\ Flagged(d, "LOCKED") = Flagged(c, "LOCKED") \ {b}
       /\ Flagged(d, "DIRTY") = Flagged(c, "DIRTY") \ {b}
  BY ZenonT(40), <1>1, <1>6, <1>10 DEF Flagged, Has, CacheType
<1>12. View(d, F \ {b}, D, H \ {b}, L \ {b}, W \ {b}, P \ {b})
  BY Zenon, <1>9, <1>10, <1>11 DEF View
<1> QED BY Zenon, <1>8, <1>12

\* bwrite() marks the buffer dirty.
LEMMA WriteView ==
    ASSUME NEW c, NEW b \in Bufs, NEW m \in SUBSET Bufs,
           NEW F, NEW D, NEW H, NEW L, NEW W, NEW P, View(c, F, D, H, L, W, P)
    PROVE  View([c EXCEPT !.flags[b] = @ \cup {"DIRTY", "VALID"}, !.fresh = m],
                F, D, H, L, W \cup {b}, P)
<1>1. CacheOK(c) /\ c \in CacheType
  BY Zenon DEF View, CacheOK
<1>2. PICK fl \in [Bufs -> SUBSET {"LOCKED", "DIRTY", "VALID"}] :
          fl = [c.flags EXCEPT ![b] = @ \cup {"DIRTY", "VALID"}]
  BY Zenon, <1>1 DEF CacheType
<1>3. PICK d : d = [c EXCEPT !.flags = fl, !.fresh = m]
  BY Zenon
<1>4. [c EXCEPT !.flags[b] = @ \cup {"DIRTY", "VALID"}, !.fresh = m] = d
  BY Zenon, <1>1, <1>2, <1>3 DEF CacheType
<1>5. /\ CacheOK(d) /\ d.free = c.free /\ d.dirty = c.dirty /\ d.hash = c.hash
      /\ d.pool = c.pool /\ d.flags = fl
  BY Zenon, <1>1, <1>3 DEF CacheOK, CacheType
<1>6. /\ Flagged(d, "LOCKED") = Flagged(c, "LOCKED")
      /\ Flagged(d, "DIRTY") = Flagged(c, "DIRTY") \cup {b}
  BY <1>1, <1>2, <1>5 DEF Flagged, Has, CacheType
<1>7. View(d, F, D, H, L, W \cup {b}, P)
  BY Zenon, <1>5, <1>6 DEF View
<1> QED BY Zenon, <1>4, <1>7

\* reclaim_siblings() locks a set of buffers.
LEMMA LockAllView ==
    ASSUME NEW c, NEW S \in SUBSET Bufs,
           NEW F, NEW D, NEW H, NEW L, NEW W, NEW P, View(c, F, D, H, L, W, P)
    PROVE  View(LockAll(c, S), F, D, H, L \cup S, W, P)
<1>1. CacheOK(c) /\ c \in CacheType
  BY Zenon DEF View, CacheOK
<1>2. PICK fl \in [Bufs -> SUBSET {"LOCKED", "DIRTY", "VALID"}] :
          fl = [x \in Bufs |-> IF x \in S THEN c.flags[x] \cup {"LOCKED"} ELSE c.flags[x]]
  BY Zenon, <1>1 DEF CacheType
<1>3. LockAll(c, S) = [c EXCEPT !.flags = fl]
  BY Zenon, <1>1, <1>2 DEF LockAll, CacheType
<1>4. PICK d : d = [c EXCEPT !.flags = fl]
  BY Zenon
<1>5. /\ CacheOK(d) /\ d.free = c.free /\ d.dirty = c.dirty /\ d.hash = c.hash
      /\ d.pool = c.pool /\ d.flags = fl
  BY <1>1, <1>4, FlagView
<1>6. /\ Flagged(d, "LOCKED") = Flagged(c, "LOCKED") \cup S
      /\ Flagged(d, "DIRTY") = Flagged(c, "DIRTY")
  BY <1>1, <1>2, <1>5 DEF Flagged, Has, CacheType
<1>7. View(d, F, D, H, L \cup S, W, P)
  BY Zenon, <1>5, <1>6 DEF View
<1> QED BY Zenon, <1>3, <1>4, <1>7

\* create_buffers() brings a page of buffers, one of them locked.
LEMMA CreateView ==
    ASSUME NEW c, NEW g \in Pages, NEW F, NEW D, NEW H, NEW L, NEW W, NEW P,
           View(c, F, D, H, L, W, P), \A x \in F \cup L \cup W : x[1] # g
    PROVE  /\ <<g, PerPage>> \in Bufs
           /\ View(create_buffers(c, g),
                   F \cup (({g} \X (1 .. PerPage)) \ {<<g, PerPage>>}), D, H,
                   L \cup {<<g, PerPage>>}, W, P \cup ({g} \X (1 .. PerPage)))
<1>1. CacheOK(c) /\ c \in CacheType
  BY Zenon DEF View, CacheOK
<1>2. PerPage \in Nat \ {0}
  BY Zenon, BufferTableAssumption
<1>3. <<g, PerPage>> \in Bufs
  BY <1>2 DEF Bufs
<1>4. {g} \X (1 .. PerPage) \subseteq Bufs
  BY Zenon DEF Bufs
<1>5. PICK fl \in [Bufs -> SUBSET {"LOCKED", "DIRTY", "VALID"}] :
          fl = [c.flags EXCEPT ![<<g, PerPage>>] = {"LOCKED"}]
  BY Zenon, <1>1, <1>3 DEF CacheType
<1>6. PICK t : t = [n \in 1 .. PerPage - 1 |-> <<g, PerPage - n>>]
  BY Zenon
<1>7. /\ t \in Seq(Bufs) /\ IsInjective(t)
      /\ Range(t) = ({g} \X (1 .. PerPage)) \ {<<g, PerPage>>}
  <2>1. PerPage - 1 \in Nat /\ \A n \in 1 .. PerPage - 1 : t[n] = <<g, PerPage - n>>
    BY <1>2, <1>6
  <2>2. \A n \in 1 .. PerPage - 1 : <<g, PerPage - n>> \in Bufs
    BY <1>2 DEF Bufs
  <2>3. t \in Seq(Bufs) /\ DOMAIN t = 1 .. PerPage - 1
    BY <1>6, <2>1, <2>2
  <2>4. IsInjective(t)
    <3>1. \A m, n \in 1 .. PerPage - 1 : <<g, PerPage - m>> = <<g, PerPage - n>> => m = n
      BY <1>2
    <3> QED BY <2>1, <2>3, <3>1 DEF IsInjective
  <2>5. ASSUME NEW x \in Range(t) PROVE x \in ({g} \X (1 .. PerPage)) \ {<<g, PerPage>>}
    <3>1. PICK n \in 1 .. PerPage - 1 : x = <<g, PerPage - n>>
      BY Zenon, <2>1, <2>3 DEF Range
    <3> QED BY <1>2, <3>1
  <2>6. ASSUME NEW x \in ({g} \X (1 .. PerPage)) \ {<<g, PerPage>>} PROVE x \in Range(t)
    <3>1. PICK n \in 1 .. PerPage : x = <<g, n>>
      OBVIOUS
    <3>2. PerPage - n \in 1 .. PerPage - 1 /\ PerPage - (PerPage - n) = n
      BY <1>2, <3>1
    <3>3. t[PerPage - n] = x
      BY Zenon, <2>1, <3>1, <3>2
    <3> QED BY Zenon, <2>3, <3>2, <3>3 DEF Range
  <2> QED BY Zenon, <2>3, <2>4, <2>5, <2>6
<1>8. c.free \in Seq(Bufs) /\ IsInjective(c.free) /\ Range(c.free) = F
  BY Zenon, <1>1, ListsOK DEF View
<1>9. Range(t) \cap F = {}
  BY Zenon, <1>7
<1>10. PICK u : /\ u = t \o c.free /\ u \in Seq(Bufs) /\ IsInjective(u)
                /\ Range(u) = Range(t) \cup F
  <2>1. /\ t \o c.free \in Seq(Bufs) /\ IsInjective(t \o c.free)
        /\ Range(t \o c.free) = Range(t) \cup Range(c.free)
    BY <1>7, <1>8, <1>9, ListConcat
  <2> QED BY Zenon, <1>8, <2>1
<1>11. PICK P2 \in SUBSET Bufs : P2 = c.pool \cup ({g} \X (1 .. PerPage))
  BY Zenon, <1>1, <1>4 DEF CacheType
<1>12. PICK d : d = [c EXCEPT !.pool = P2, !.free = u, !.flags = fl]
  BY Zenon
<1>13. create_buffers(c, g) = d
  BY Zenon, <1>1, <1>5, <1>6, <1>10, <1>11, <1>12 DEF create_buffers, CacheType
<1>14. u \in Seq(Bufs) /\ IsInjective(u) /\ Range(u) = Range(t) \cup F
  BY Zenon, <1>10
<1>15. /\ CacheOK(d) /\ d.free = u /\ d.dirty = c.dirty /\ d.hash = c.hash
       /\ d.pool = P2 /\ d.flags = fl
  BY Zenon, <1>1, <1>12, <1>14 DEF CacheOK, CacheType
<1>16. <<g, PerPage>>[1] = g /\ <<g, PerPage>> \notin Flagged(c, "DIRTY")
  BY DEF View
<1>17. /\ Flagged(d, "LOCKED") = Flagged(c, "LOCKED") \cup {<<g, PerPage>>}
       /\ Flagged(d, "DIRTY") = Flagged(c, "DIRTY")
  <2>1. PICK z \in Bufs : z = <<g, PerPage>>
    BY Zenon, <1>3
  <2>2. fl = [c.flags EXCEPT ![z] = {"LOCKED"}] /\ z \notin Flagged(c, "DIRTY")
    BY Zenon, <1>5, <1>16, <2>1
  <2>3. /\ Flagged(d, "LOCKED") = Flagged(c, "LOCKED") \cup {z}
        /\ Flagged(d, "DIRTY") = Flagged(c, "DIRTY")
    BY <1>1, <1>15, <2>2 DEF Flagged, Has, CacheType
  <2> QED BY Zenon, <2>1, <2>3
<1>18. View(d, F \cup Range(t), D, H, L \cup {<<g, PerPage>>}, W, P \cup ({g} \X (1 .. PerPage)))
  BY Zenon, <1>11, <1>14, <1>15, <1>17 DEF View
<1> QED BY Zenon, <1>3, <1>7, <1>13, <1>18

----------------------------------------------------------------------------
(* The invariant. *)

Free == Range(cache.free)

Dirty == Range(cache.dirty)

Locked == Flagged(cache, "LOCKED")

ToWrite == Flagged(cache, "DIRTY")

\* The labels at which a process works on a buffer, and those at which
\* kswapd frees a page.
Taken == {"gotfree", "syncfree", "bread", "read", "gotdirty", "syncing",
          "flushing", "rgot", "rsync", "siblings", "free", "sibsync"}

Freeing == {"free", "sibsync"}

Plain == Taken \ (Freeing \cup {"siblings"})

Labels == Taken \cup {"out", "getblk", "getfree", "flush", "getdirty", "synced", "reclaim"}

TypeOK ==
    /\ CacheOK(cache)
    /\ pc \in [Procs -> Labels]
    /\ buf \in [Procs -> Bufs \cup {NULL}]
    /\ held \in [Clients -> SUBSET Bufs]
    /\ want \in [Clients -> Blocks \cup {NULL}]
    /\ todo \in Seq(Bufs) /\ IsInjective(todo)

\* The locked buffers are the ones processes work on, hold or will free, and
\* each has one owner ...
OwnersOK ==
    /\ \A p, q \in Procs : p # q => Owned(p) \cap Owned(q) = {}
    /\ \A b \in Bufs : b \in Locked <=> \E p \in Procs : b \in Owned(p)

\* ... which has it in one place.
PlacesOK ==
    /\ \A p \in Procs : buf[p] # NULL <=> pc[p] \in Taken
    /\ \A p \in Clients : buf[p] \notin held[p]
    /\ buf[kswapd] \notin Range(todo)

\* What is on a list or has a flag is in the buffer table.
InPool ==
    Free \cup Dirty \cup Range(cache.hash) \cup Locked
      \cup ToWrite \subseteq cache.pool

\* A buffer is off the free list exactly while a client has it or kswapd
\* has taken it from there.
FreeOK ==
    /\ cache.pool \ Locked \subseteq Free
    /\ \A p \in Clients : Owned(p) \cap Free = {}
    /\ buf[kswapd] \notin Free

\* A dirty buffer is off the dirty list only while a client or the process
\* that writes it back has it.
DirtyOK ==
    /\ Dirty \subseteq ToWrite
    /\ \A b \in ToWrite :
          b \notin Locked \/ b \in Owned(kswapd) => b \in Dirty
    /\ \A p \in Syncers \cup {kbdflushd} :
          buf[p] # NULL => buf[p] \in (Free \cap ToWrite) \ Dirty

\* The buffers of a page are in the table together, but for the page that
\* kswapd is freeing, of which it has the others locked.
PagesOK ==
    /\ \A b \in cache.pool :
          IF pc[kswapd] \in Freeing /\ b[1] = buf[kswapd][1]
          THEN b \in {buf[kswapd]} \cup Range(todo)
          ELSE {b[1]} \X (1 .. PerPage) \subseteq cache.pool
    /\ \A b \in Range(todo) : b[1] = buf[kswapd][1]
    /\ pc[kswapd] \in Freeing \cup {"siblings"} => buf[kswapd] \notin ToWrite
    /\ todo # <<>> => pc[kswapd] \in Freeing
    /\ pc[kswapd] = "sibsync" => todo # <<>>

IInv == TypeOK /\ OwnersOK /\ PlacesOK /\ InPool /\ FreeOK /\ DirtyOK /\ PagesOK

----------------------------------------------------------------------------
\* The cache in the terms of the invariant.
LEMMA CacheView ==
    ASSUME TypeOK
    PROVE  /\ View(cache, Free, Dirty, Range(cache.hash), Locked, ToWrite, cache.pool)
           /\ cache.pool \subseteq Bufs /\ Locked \subseteq Bufs /\ ToWrite \subseteq Bufs
           /\ Free \subseteq Bufs /\ Dirty \subseteq Bufs /\ Range(cache.hash) \subseteq Bufs
<1>1. CacheOK(cache) /\ cache.pool \subseteq Bufs
  BY Zenon DEF TypeOK, CacheOK, CacheType
<1>2. /\ Free \subseteq Bufs /\ Dirty \subseteq Bufs /\ Range(cache.hash) \subseteq Bufs
  BY Zenon, <1>1, ListsOK DEF Free, Dirty
<1> QED BY Zenon, <1>1, <1>2 DEF View, Free, Dirty, Locked, ToWrite, Flagged

\* The processes are distinct, and no buffer is NULL.
LEMMA Procs4 ==
    /\ Procs = Clients \cup Syncers \cup {kbdflushd, kswapd}
    /\ \A p \in Clients : p \notin Syncers /\ p # kbdflushd /\ p # kswapd
    /\ \A p \in Syncers : p # kbdflushd /\ p # kswapd
    /\ kbdflushd # kswapd /\ NULL \notin Bufs /\ NULL \notin Procs
BY Zenon, BufferCacheAssumption, BufferTableAssumption DEF Procs, Bufs

\* What each kind of process owns.
LEMMA OwnedIs ==
    ASSUME TypeOK
    PROVE  /\ \A p \in Clients : Owned(p) = held[p] \cup ({buf[p]} \ {NULL})
           /\ \A p \in Syncers \cup {kbdflushd} : Owned(p) = {buf[p]} \ {NULL}
           /\ Owned(kswapd) = Range(todo) \cup ({buf[kswapd]} \ {NULL})
           /\ \A p \in Procs : Owned(p) \subseteq Bufs
<1>1. Range(todo) \subseteq Bufs /\ NULL \notin Range(todo)
  BY Zenon, ListElements, Procs4 DEF TypeOK
<1>2. \A p \in Clients : Owned(p) = held[p] \cup ({buf[p]} \ {NULL})
  BY <1>1, Procs4 DEF TypeOK, Owned
<1>3. \A p \in Syncers \cup {kbdflushd} : Owned(p) = {buf[p]} \ {NULL}
  BY Zenon, <1>1, Procs4 DEF TypeOK, Owned
<1>4. Owned(kswapd) = Range(todo) \cup ({buf[kswapd]} \ {NULL})
  BY ZenonT(40), <1>1, Procs4 DEF TypeOK, Owned
<1>5. \A p \in Procs : Owned(p) \subseteq Bufs
  BY <1>1, <1>2, <1>3, <1>4, Procs4 DEF TypeOK
<1> QED BY Zenon, <1>2, <1>3, <1>4, <1>5

\* The same after a step.
LEMMA OwnedNext ==
    ASSUME TypeOK'
    PROVE  /\ \A p \in Clients : Owned(p)' = held'[p] \cup ({buf'[p]} \ {NULL})
           /\ \A p \in Syncers \cup {kbdflushd} : Owned(p)' = {buf'[p]} \ {NULL}
           /\ Owned(kswapd)' = Range(todo') \cup ({buf'[kswapd]} \ {NULL})
           /\ \A p \in Procs : Owned(p)' \subseteq Bufs
<1>1. Range(todo') \subseteq Bufs /\ NULL \notin Range(todo')
  BY Zenon, ListElements, Procs4 DEF TypeOK
<1>2. \A p \in Clients : Owned(p)' = held'[p] \cup ({buf'[p]} \ {NULL})
  BY <1>1, Procs4 DEF TypeOK, Owned
<1>3. \A p \in Syncers \cup {kbdflushd} : Owned(p)' = {buf'[p]} \ {NULL}
  BY Zenon, <1>1, Procs4 DEF TypeOK, Owned
<1>4. Owned(kswapd)' = Range(todo') \cup ({buf'[kswapd]} \ {NULL})
  BY ZenonT(40), <1>1, Procs4 DEF TypeOK, Owned
<1>5. \A p \in Procs : Owned(p)' \subseteq Bufs
  BY <1>1, <1>2, <1>3, <1>4, Procs4 DEF TypeOK
<1> QED BY Zenon, <1>2, <1>3, <1>4, <1>5

\* A process locks buffers nobody has.
LEMMA OwnTake ==
    ASSUME OwnersOK, NEW p \in Procs, NEW S \in SUBSET Bufs, S \cap Locked = {},
           \A q \in Procs \ {p} : Owned(q)' = Owned(q),
           \A q \in Procs : Owned(q) \subseteq Bufs,
           Owned(p)' = Owned(p) \cup S, Locked' = Locked \cup S
    PROVE  OwnersOK'
<1>1. \A q \in Procs : Owned(q) \cap S = {}
  BY Zenon DEF OwnersOK
<1>2. \A q, r \in Procs : q # r => Owned(q)' \cap Owned(r)' = {}
  BY <1>1 DEF OwnersOK
<1>3. ASSUME NEW b \in Bufs PROVE b \in Locked' <=> \E q \in Procs : b \in Owned(q)'
  BY DEF OwnersOK
<1> QED BY Zenon, <1>2, <1>3 DEF OwnersOK

\* A process unlocks buffers it owns.
LEMMA OwnDrop ==
    ASSUME OwnersOK, NEW p \in Procs, NEW S \in SUBSET Owned(p),
           \A q \in Procs \ {p} : Owned(q)' = Owned(q),
           Owned(p)' = Owned(p) \ S, Locked' = Locked \ S
    PROVE  OwnersOK'
<1>1. \A q \in Procs \ {p} : Owned(q) \cap S = {}
  BY Zenon DEF OwnersOK
<1>2. \A q, r \in Procs : q # r => Owned(q)' \cap Owned(r)' = {}
  BY <1>1 DEF OwnersOK
<1>3. ASSUME NEW b \in Bufs PROVE b \in Locked' <=> \E q \in Procs : b \in Owned(q)'
  BY <1>1 DEF OwnersOK
<1> QED BY Zenon, <1>2, <1>3 DEF OwnersOK

\* A step that moves process p to l, may change the hash table and nothing
\* else.
Moves(p, l, H) ==
    /\ pc' = [pc EXCEPT ![p] = l]
    /\ buf[p] # NULL <=> l \in Taken
    /\ UNCHANGED <<buf, held, todo>> /\ want' \in [Clients -> Blocks \cup {NULL}]
    /\ View(cache', Free, Dirty, H, Locked, ToWrite, cache.pool)
    /\ p = kswapd => /\ pc[p] \in Freeing <=> l \in Freeing
                     /\ l \in Freeing \cup {"siblings"} => buf[p] \notin ToWrite
                     /\ l = "sibsync" => todo # <<>>

\* Such a step keeps the invariant.
LEMMA MoveKeeps ==
    ASSUME IInv, NEW p \in Procs, NEW l \in Labels, NEW H \in SUBSET cache.pool,
           Moves(p, l, H)
    PROVE  IInv'
<1>1. /\ CacheOK(cache') /\ Free' = Free /\ Dirty' = Dirty /\ Range(cache'.hash) = H
      /\ Locked' = Locked /\ ToWrite' = ToWrite /\ cache'.pool = cache.pool
  BY Zenon DEF Moves, View, Free, Dirty, Locked, ToWrite
<1>2. /\ pc' \in [Procs -> Labels] /\ pc'[p] = l /\ \A q \in Procs \ {p} : pc'[q] = pc[q]
      /\ buf' = buf /\ held' = held /\ todo' = todo
  BY Zenon DEF Moves, IInv, TypeOK
<1>3. TypeOK'
  BY Zenon, <1>1, <1>2 DEF Moves, IInv, TypeOK
<1>4. \A q \in Procs : Owned(q)' = Owned(q)
  BY Zenon, <1>2 DEF Owned
<1>5. OwnersOK'
  BY <1>1, <1>4 DEF IInv, OwnersOK
<1>6. PlacesOK'
  BY Zenon, <1>2 DEF Moves, IInv, PlacesOK
<1>7. InPool' /\ FreeOK'
  BY Zenon, <1>1, <1>2, <1>4, Procs4 DEF IInv, InPool, FreeOK
<1>8. DirtyOK'
  BY Zenon, <1>1, <1>2, <1>4, Procs4 DEF IInv, DirtyOK
<1>9. PagesOK'
  <2>1. CASE p = kswapd
    BY SMTT(30), <1>1, <1>2, <2>1 DEF Moves, IInv, PagesOK
  <2>2. CASE p # kswapd
    BY Zenon, <1>1, <1>2, <2>2, Procs4 DEF IInv, PagesOK
  <2> QED BY Zenon, <2>1, <2>2
<1> QED BY Zenon, <1>3, <1>5, <1>6, <1>7, <1>8, <1>9 DEF IInv

\* A step of p that locks b to work on it: from the free list, or from the
\* dirty list.
Takes(p, b, l) ==
    /\ buf[p] = NULL /\ buf' = [buf EXCEPT ![p] = b] /\ pc' = [pc EXCEPT ![p] = l]
    /\ UNCHANGED <<held, want, todo>>
    /\ p \in Clients \cup {kswapd} =>
         View(cache', Free \ {b}, Dirty, Range(cache.hash), Locked \cup {b}, ToWrite,
              cache.pool)
    /\ p \notin Clients \cup {kswapd} =>
         b \in Dirty /\ View(cache', Free, Dirty \ {b}, Range(cache.hash),
                             Locked \cup {b}, ToWrite, cache.pool)

\* Such a step keeps the invariant.
LEMMA TakeKeeps ==
    ASSUME IInv, NEW p \in Procs, NEW b \in cache.pool \ Locked,
           NEW l \in Labels, l \in Plain, Takes(p, b, l)
    PROVE  IInv'
<1>1. /\ CacheOK(cache') /\ Range(cache'.hash) = Range(cache.hash)
      /\ Locked' = Locked \cup {b} /\ ToWrite' = ToWrite /\ cache'.pool = cache.pool
      /\ p \in Clients \cup {kswapd} => Free' = Free \ {b} /\ Dirty' = Dirty
      /\ p \notin Clients \cup {kswapd} => b \in Dirty /\ Free' = Free /\ Dirty' = Dirty \ {b}
  BY Zenon DEF Takes, View, Free, Dirty, Locked, ToWrite
<1>2. b \in Bufs /\ b \in Free /\ b # NULL /\ kswapd \in Procs /\ Clients \subseteq Procs
  BY Zenon, CacheView, Procs4 DEF IInv, FreeOK
<1>3. /\ pc' \in [Procs -> Labels] /\ pc'[p] = l /\ \A q \in Procs \ {p} : pc'[q] = pc[q]
      /\ buf[p] = NULL /\ held' = held /\ todo' = todo /\ want' = want
  BY Zenon DEF Takes, IInv, TypeOK
<1>4. /\ buf' \in [Procs -> Bufs \cup {NULL}] /\ buf'[p] = b
      /\ \A q \in Procs \ {p} : buf'[q] = buf[q]
  BY Zenon, <1>2 DEF Takes, IInv, TypeOK
<1>5. TypeOK'
  BY Zenon, <1>1, <1>3, <1>4 DEF IInv, TypeOK
<1>6. /\ \A q \in Procs \ {p} : Owned(q)' = Owned(q)
      /\ Owned(p)' = Owned(p) \cup {b}
  <2>1. \A q \in Procs \ {p} : Owned(q)' = Owned(q)
    BY Zenon, <1>3, <1>4 DEF Owned
  <2>2. Owned(p)' = Owned(p) \cup {b}
    BY Zenon, <1>2, <1>3, <1>4 DEF Owned
  <2> QED BY Zenon, <2>1, <2>2
<1>7. OwnersOK'
  <2>1. {b} \in SUBSET Bufs /\ {b} \cap Locked = {}
    BY Zenon, <1>2
  <2>2. OwnersOK /\ \A q \in Procs : Owned(q) \subseteq Bufs
    BY Zenon, OwnedIs DEF IInv
  <2> QED BY Zenon, <1>1, <1>6, <2>1, <2>2, OwnTake
<1>8. \A q \in Procs : b \notin Owned(q)
  BY Zenon, <1>2 DEF IInv, OwnersOK
<1>9. PlacesOK'
  <2>1. \A q \in Procs : buf'[q] # NULL <=> pc'[q] \in Taken
    BY ZenonT(40), <1>2, <1>3, <1>4 DEF IInv, PlacesOK, Plain
  <2>2. b \notin Range(todo) /\ \A q \in Clients : b \notin held[q]
    BY Zenon, <1>2, <1>8, OwnedIs DEF IInv
  <2> QED BY Zenon, <1>2, <1>3, <1>4, <2>1, <2>2 DEF IInv, PlacesOK
<1>10. InPool'
  BY ZenonT(40), <1>1 DEF IInv, InPool
<1>11. FreeOK'
  <2>1. \A q \in Clients : Owned(q)' \cap Free' = {}
    BY Zenon, <1>1, <1>2, <1>6 DEF IInv, FreeOK
  <2> QED BY Zenon, <1>1, <1>2, <1>4, <2>1 DEF IInv, FreeOK
<1>12. DirtyOK'
  <2>1. \A x \in ToWrite' : x \notin Locked' \/ x \in Owned(kswapd)' => x \in Dirty'
    BY SMTT(30), <1>1, <1>2, <1>6, <1>8 DEF IInv, DirtyOK
  <2>2. ASSUME NEW q \in Syncers \cup {kbdflushd}, buf'[q] # NULL
        PROVE  buf'[q] \in (Free' \cap ToWrite') \ Dirty'
    <3>1. q \in Procs /\ q \notin Clients \cup {kswapd}
      BY Zenon, Procs4
    <3>2. CASE q = p
      BY Zenon, <1>1, <1>2, <1>4, <3>1, <3>2 DEF IInv, DirtyOK
    <3>3. CASE q # p
      <4>1. buf'[q] = buf[q] /\ buf[q] # b
        BY Zenon, <1>4, <1>8, <2>2, <3>1, <3>3, OwnedIs DEF IInv
      <4> QED BY Zenon, <1>1, <2>2, <4>1 DEF IInv, DirtyOK
    <3> QED BY Zenon, <3>2, <3>3
  <2> QED BY Zenon, <1>1, <2>1, <2>2 DEF IInv, DirtyOK
<1>13. PagesOK'
  <2>1. CASE p = kswapd
    <3>1. pc'[kswapd] = l /\ pc[kswapd] \notin Taken
      BY Zenon, <1>2, <1>3, <2>1 DEF IInv, PlacesOK
    <3>2. pc[kswapd] \notin Freeing /\ l \notin Freeing \cup {"siblings", "sibsync"}
      BY Zenon, <3>1 DEF Taken, Freeing, Plain
    <3>3. todo = <<>> /\ Range(todo) = {}
      BY Zenon, <3>2, ListElements DEF IInv, TypeOK, PagesOK
    <3> QED BY Zenon, <1>1, <1>3, <3>1, <3>2, <3>3 DEF IInv, PagesOK
  <2>2. CASE p # kswapd
    BY SMTT(30), <1>1, <1>2, <1>3, <1>4, <2>2 DEF IInv, PagesOK
  <2> QED BY Zenon, <2>1, <2>2
<1> QED BY Zenon, <1>5, <1>7, <1>9, <1>10, <1>11, <1>12, <1>13 DEF IInv

\* A step of p that unlocks b, which is on the free list then, and on the
\* dirty list D if it is dirty: in W.
Releases(p, b, l, D, W) ==
    /\ pc' = [pc EXCEPT ![p] = l]
    /\ \/ /\ buf[p] = b /\ buf' = [buf EXCEPT ![p] = NULL] /\ l \notin Taken
          /\ held' = held
       \/ /\ p \in Clients /\ b \in held[p] /\ held' = [held EXCEPT ![p] = @ \ {b}]
          /\ buf' = buf /\ (l \in Taken <=> pc[p] \in Taken)
    /\ todo' = todo /\ want' \in [Clients -> Blocks \cup {NULL}]
    /\ p = kswapd => todo = <<>> /\ pc[p] \notin Freeing
    /\ D \ {b} = Dirty \ {b} /\ W \ {b} = ToWrite \ {b} /\ (b \in D <=> b \in W)
    /\ View(cache', Free \cup {b}, D, Range(cache.hash), Locked \ {b}, W, cache.pool)

\* Such a step keeps the invariant.
LEMMA ReleaseKeeps ==
    ASSUME IInv, NEW p \in Procs, NEW b \in Bufs, NEW l \in Labels,
           NEW D \in SUBSET Bufs, NEW W \in SUBSET Bufs, Releases(p, b, l, D, W)
    PROVE  IInv'
<1>1. /\ CacheOK(cache') /\ Range(cache'.hash) = Range(cache.hash)
      /\ Free' = Free \cup {b} /\ Dirty' \ {b} = Dirty \ {b}
      /\ Locked' = Locked \ {b} /\ ToWrite' \ {b} = ToWrite \ {b} /\ cache'.pool = cache.pool
      /\ b \in Dirty' <=> b \in ToWrite'
  BY Zenon DEF Releases, View, Free, Dirty, Locked, ToWrite
<1>2. /\ b # NULL /\ NULL \notin Bufs /\ Clients \subseteq Procs /\ kswapd \in Procs
      /\ kswapd \notin Clients
  BY Zenon, Procs4
<1>3. /\ pc' \in [Procs -> Labels] /\ pc'[p] = l /\ \A q \in Procs \ {p} : pc'[q] = pc[q]
      /\ todo' = todo /\ want' \in [Clients -> Blocks \cup {NULL}]
      /\ p = kswapd => todo = <<>> /\ pc[p] \notin Freeing
  BY Zenon DEF Releases, IInv, TypeOK
<1>4. /\ buf' \in [Procs -> Bufs \cup {NULL}] /\ held' \in [Clients -> SUBSET Bufs]
      /\ \A q \in Procs \ {p} : buf'[q] = buf[q]
      /\ \A q \in Clients \ {p} : held'[q] = held[q]
      /\ \/ buf[p] = b /\ buf'[p] = NULL /\ l \notin Taken /\ held' = held
         \/ /\ p \in Clients /\ b \in held[p] /\ held'[p] = held[p] \ {b}
            /\ buf' = buf /\ (l \in Taken <=> pc[p] \in Taken)
  BY SMTT(30) DEF Releases, IInv, TypeOK
<1>5. TypeOK'
  BY Zenon, <1>1, <1>3, <1>4 DEF IInv, TypeOK
<1>6. \A q \in Procs \ {p} : Owned(q)' = Owned(q)
  BY Zenon, <1>3, <1>4 DEF Owned
<1>7. b \in Owned(p) /\ Owned(p)' = Owned(p) \ {b}
  <2>1. CASE p \in Clients
    <3>1. /\ Owned(p) = held[p] \cup ({buf[p]} \ {NULL})
          /\ Owned(p)' = held'[p] \cup ({buf'[p]} \ {NULL})
          /\ buf[p] \notin held[p]
      BY Zenon, <1>5, <2>1, OwnedIs, OwnedNext DEF IInv, PlacesOK
    <3> QED BY SMTT(30), <1>2, <1>4, <3>1
  <2>2. CASE p \in Syncers \cup {kbdflushd}
    <3>1. Owned(p) = {buf[p]} \ {NULL} /\ Owned(p)' = {buf'[p]} \ {NULL} /\ p \notin Clients
      BY Zenon, <1>5, <2>2, OwnedIs, OwnedNext, Procs4 DEF IInv
    <3> QED BY Zenon, <1>2, <1>4, <3>1
  <2>3. CASE p = kswapd
    <3>1. Range(todo) = {}
      BY Zenon, <1>3, <2>3, ListElements DEF IInv, TypeOK
    <3>2. Owned(p) = {} \cup ({buf[p]} \ {NULL}) /\ Owned(p)' = {} \cup ({buf'[p]} \ {NULL})
      BY Zenon, <1>3, <1>5, <2>3, <3>1, OwnedIs, OwnedNext DEF IInv
    <3> QED BY Zenon, <1>2, <1>4, <2>3, <3>2
  <2> QED BY Zenon, <2>1, <2>2, <2>3, Procs4
<1>8. OwnersOK'
  <2>1. {b} \in SUBSET Owned(p) /\ OwnersOK
    BY Zenon, <1>7 DEF IInv
  <2> QED BY Zenon, <1>1, <1>6, <1>7, <2>1, OwnDrop
<1>9. /\ b \in Locked /\ b \in cache.pool
      /\ \A q \in Procs \ {p} : b \notin Owned(q) /\ buf[q] # b
  <2>1. \A q \in Procs \ {p} : b \notin Owned(q)
    BY Zenon, <1>7 DEF IInv, OwnersOK
  <2>2. \A q \in Procs : buf[q] = b => b \in Owned(q)
    BY Zenon, <1>2 DEF Owned
  <2> QED BY Zenon, <1>7, <2>1, <2>2 DEF IInv, OwnersOK, InPool
<1>10. PlacesOK'
  <2>1. \A q \in Procs : buf'[q] # NULL <=> pc'[q] \in Taken
    BY Zenon, <1>3, <1>4 DEF IInv, PlacesOK
  <2>2. \A q \in Clients : buf'[q] \notin held'[q]
    BY ZenonT(40), <1>2, <1>4 DEF IInv, PlacesOK
  <2>3. NULL \notin Range(todo)
    BY SMTT(30), <1>2, ListElements DEF IInv, TypeOK
  <2> QED BY Zenon, <1>2, <1>3, <1>4, <2>1, <2>2, <2>3 DEF IInv, PlacesOK
<1>11. InPool'
  BY Zenon, <1>1, <1>9 DEF IInv, InPool
<1>12. FreeOK'
  <2>1. \A q \in Clients : Owned(q)' \cap Free' = {}
    BY <1>1, <1>2, <1>6, <1>7, <1>9 DEF IInv, FreeOK
  <2>2. buf'[kswapd] \notin Free'
    <3>1. CASE p = kswapd
      <4>1. buf'[kswapd] = NULL /\ Free \subseteq Bufs
        BY Zenon, <1>2, <1>4, <3>1, CacheView DEF IInv
      <4> QED BY Zenon, <1>1, <1>2, <4>1
    <3>2. CASE p # kswapd
      BY Zenon, <1>1, <1>2, <1>4, <1>9, <3>2 DEF IInv, FreeOK
    <3> QED BY Zenon, <3>1, <3>2
  <2> QED BY Zenon, <1>1, <2>1, <2>2 DEF IInv, FreeOK
<1>13. DirtyOK'
  <2>1. Dirty' \subseteq ToWrite'
    BY Zenon, <1>1 DEF IInv, DirtyOK
  <2>2. ASSUME NEW x \in ToWrite', x \notin Locked' \/ x \in Owned(kswapd)' PROVE x \in Dirty'
    <3>1. CASE x = b
      BY Zenon, <1>1, <2>2, <3>1
    <3>2. CASE x # b
      <4>1. x \in ToWrite /\ (x \notin Locked \/ x \in Owned(kswapd))
        BY Zenon, <1>1, <1>2, <1>6, <1>7, <2>2, <3>2
      <4> QED BY Zenon, <1>1, <3>2, <4>1 DEF IInv, DirtyOK
    <3> QED BY Zenon, <3>1, <3>2
  <2>3. ASSUME NEW q \in Syncers \cup {kbdflushd}, buf'[q] # NULL
        PROVE  buf'[q] \in (Free' \cap ToWrite') \ Dirty'
    <3>1. q \in Procs /\ q # p
      BY Zenon, <1>4, <2>3, Procs4
    <3>2. buf'[q] = buf[q] /\ buf[q] # b
      BY Zenon, <1>4, <1>9, <3>1
    <3> QED BY Zenon, <1>1, <2>3, <3>2 DEF IInv, DirtyOK
  <2> QED BY Zenon, <2>1, <2>2, <2>3 DEF DirtyOK
<1>14. PagesOK'
  <2>1. CASE p = kswapd
    <3>1. l \notin Taken
      BY Zenon, <1>2, <1>4, <2>1
    <3>2. l \notin Freeing \cup {"siblings", "sibsync"}
      BY Zenon, <3>1 DEF Taken, Freeing
    <3>3. Range(todo) = {}
      BY Zenon, <1>3, <2>1, ListElements DEF IInv, TypeOK
    <3> QED BY Zenon, <1>1, <1>3, <2>1, <3>2, <3>3 DEF IInv, PagesOK
  <2>2. CASE p # kswapd
    <3>1. pc'[kswapd] = pc[kswapd] /\ buf'[kswapd] = buf[kswapd] /\ buf[kswapd] # b
      BY Zenon, <1>2, <1>3, <1>4, <1>9, <2>2
    <3> QED BY ZenonT(40), <1>1, <1>3, <3>1 DEF IInv, PagesOK
  <2> QED BY Zenon, <2>1, <2>2
<1> QED BY Zenon, <1>5, <1>8, <1>10, <1>11, <1>12, <1>13, <1>14 DEF IInv

\* A step in which client p gets the buffer it has worked on from bread().
Holds(p, l) ==
    /\ buf[p] # NULL /\ l \notin Taken
    /\ pc' = [pc EXCEPT ![p] = l] /\ buf' = [buf EXCEPT ![p] = NULL]
    /\ held' = [held EXCEPT ![p] = @ \cup {buf[p]}]
    /\ todo' = todo /\ want' \in [Clients -> Blocks \cup {NULL}]
    /\ View(cache', Free, Dirty, Range(cache.hash), Locked, ToWrite, cache.pool)

\* Such a step keeps the invariant.
LEMMA HoldKeeps ==
    ASSUME IInv, NEW p \in Clients, NEW l \in Labels, Holds(p, l)
    PROVE  IInv'
<1>1. /\ CacheOK(cache') /\ Range(cache'.hash) = Range(cache.hash)
      /\ Free' = Free /\ Dirty' = Dirty
      /\ Locked' = Locked /\ ToWrite' = ToWrite /\ cache'.pool = cache.pool
  BY Zenon DEF Holds, View, Free, Dirty, Locked, ToWrite
<1>2. /\ p \in Procs /\ p # kswapd /\ kswapd \in Procs /\ NULL \notin Bufs
      /\ p \notin Syncers \cup {kbdflushd} /\ Clients \subseteq Procs
  BY Zenon, Procs4
<1>3. /\ pc' \in [Procs -> Labels] /\ pc'[p] = l /\ \A q \in Procs \ {p} : pc'[q] = pc[q]
      /\ buf' \in [Procs -> Bufs \cup {NULL}] /\ buf'[p] = NULL
      /\ \A q \in Procs \ {p} : buf'[q] = buf[q]
      /\ buf[p] \in Bufs /\ l \notin Taken
      /\ todo' = todo /\ want' \in [Clients -> Blocks \cup {NULL}]
  BY Zenon, <1>2 DEF Holds, IInv, TypeOK
<1>4. /\ held' \in [Clients -> SUBSET Bufs] /\ held'[p] = held[p] \cup {buf[p]}
      /\ \A q \in Clients \ {p} : held'[q] = held[q]
  BY SMTT(30), <1>3 DEF Holds, IInv, TypeOK
<1>5. TypeOK'
  BY Zenon, <1>1, <1>3, <1>4 DEF IInv, TypeOK
<1>6. \A q \in Procs : Owned(q)' = Owned(q)
  <2>1. \A q \in Procs \ {p} : Owned(q)' = Owned(q)
    BY Zenon, <1>3, <1>4 DEF Owned
  <2>2. /\ Owned(p) = held[p] \cup ({buf[p]} \ {NULL})
        /\ Owned(p)' = held'[p] \cup ({buf'[p]} \ {NULL})
    BY Zenon, <1>5, OwnedIs, OwnedNext DEF IInv
  <2>3. Owned(p)' = Owned(p)
    BY SMTT(30), <1>2, <1>3, <1>4, <2>2
  <2> QED BY Zenon, <2>1, <2>3
<1>7. OwnersOK'
  BY SMTT(30), <1>1, <1>6 DEF IInv, OwnersOK
<1>8. PlacesOK'
  <2>1. \A q \in Procs : buf'[q] # NULL <=> pc'[q] \in Taken
    BY Zenon, <1>2, <1>3 DEF IInv, PlacesOK
  <2>2. \A q \in Clients : buf'[q] \notin held'[q]
    BY Zenon, <1>2, <1>3, <1>4 DEF IInv, PlacesOK
  <2> QED BY Zenon, <1>2, <1>3, <2>1, <2>2 DEF IInv, PlacesOK
<1>9. InPool' /\ FreeOK'
  BY Zenon, <1>1, <1>2, <1>3, <1>6 DEF IInv, InPool, FreeOK
<1>10. DirtyOK'
  <2>1. \A q \in Syncers \cup {kbdflushd} : buf'[q] = buf[q]
    BY Zenon, <1>2, <1>3, Procs4
  <2> QED BY Zenon, <1>1, <1>2, <1>6, <2>1 DEF IInv, DirtyOK
<1>11. PagesOK'
  BY ZenonT(40), <1>1, <1>2, <1>3 DEF IInv, PagesOK
<1> QED BY Zenon, <1>5, <1>7, <1>8, <1>9, <1>10, <1>11 DEF IInv

\* The facts every action's proof begins with.
LEMMA Facts ==
    ASSUME IInv
    PROVE  /\ TypeOK
           /\ View(cache, Free, Dirty, Range(cache.hash), Locked, ToWrite, cache.pool)
           /\ Range(cache.hash) \in SUBSET cache.pool
           /\ cache.pool \subseteq Bufs /\ Dirty \in SUBSET Bufs /\ ToWrite \in SUBSET Bufs
           /\ want \in [Clients -> Blocks \cup {NULL}]
           /\ \A p \in Procs : buf[p] # NULL <=> pc[p] \in Taken
           /\ \A p \in Procs : buf[p] # NULL => buf[p] \in Bufs
BY Zenon, CacheView DEF IInv, TypeOK, InPool, PlacesOK

\* A step that leaves the buffers alone.
LEMMA IdleKeeps ==
    ASSUME IInv, NEW p \in Procs, NEW l \in Labels,
           pc' = [pc EXCEPT ![p] = l], buf[p] # NULL <=> l \in Taken,
           UNCHANGED <<cache, buf, held, todo>>, want' \in [Clients -> Blocks \cup {NULL}],
           p = kswapd => /\ pc[p] \in Freeing <=> l \in Freeing
                         /\ l \in Freeing \cup {"siblings"} => buf[p] \notin ToWrite
                         /\ l = "sibsync" => todo # <<>>
    PROVE  IInv'
<1>1. View(cache', Free, Dirty, Range(cache.hash), Locked, ToWrite, cache.pool)
  BY Zenon, Facts
<1> QED BY Zenon, <1>1, Facts, MoveKeeps DEF Moves
=============================================================================

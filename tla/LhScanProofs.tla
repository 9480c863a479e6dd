--------------------------- MODULE LhScanProofs ---------------------------
(***************************************************************************)
(* Proofs about LhScan: for any number of locks, any archives and any      *)
(* bounds, a listing that nothing disturbs shows each child once and its   *)
(* icon behind it, one that is begun again by every change misses no child *)
(* that stays, and a rename keeps every file but those whose own data it   *)
(* could not read or add again and those that a failing call of a rewrite  *)
(* or an append dropped.                                                   *)
(*                                                                         *)
(* First the catalog: rows in order, the rewrite that copies what is kept, *)
(* the row in which a name is found.  Then the scans, each lock's for      *)
(* itself, and then the rename.                                            *)
(***************************************************************************)
EXTENDS LhScan, TLAPS, FiniteSetTheorems, FunctionTheorems, SequenceTheorems,
        WellFoundedInduction

-----------------------------------------------------------------------------
(* Sets of rows.                                                           *)

(* A non-empty set of rows has a first one.                                *)
LEMMA FirstRow ==
    ASSUME NEW rows \in SUBSET Nat, rows # {}
    PROVE  /\ FirstOf(rows) \in rows
           /\ \A i \in rows : FirstOf(rows) <= i
<1>1. PICK i \in rows : \A j \in rows : <<j, i>> \notin OpToRel(<, Nat)
  BY WFMin, NatLessThanWellFounded, Zenon
<1>2. \A j \in rows : ~ (j < i)
  BY <1>1, Zenon DEF OpToRel
<1>3. \E k \in rows : \A j \in rows : k <= j
  BY <1>2
<1> QED BY <1>3, Zenon DEF FirstOf

(* The place of row i among the rows.                                      *)
Rank(rows, i) == Cardinality({j \in rows : j <= i})

LEMMA RankLess ==
    ASSUME NEW m \in Nat, NEW rows \in SUBSET (1 .. m), NEW i \in rows, NEW k \in rows, i < k
    PROVE  Rank(rows, i) < Rank(rows, k)
<1> DEFINE I == {j \in rows : j <= i}
           K == {j \in rows : j <= k}
<1>0. IsFiniteSet(1 .. m)
  BY FS_Interval
<1>1. IsFiniteSet(rows)
  BY <1>0, FS_Subset
<1>2. IsFiniteSet(I) /\ IsFiniteSet(K)
  BY <1>1, FS_Subset
<1>3. I \cup {k} \subseteq K /\ k \notin I
  <2>1. \A j \in rows : j \in Int
    OBVIOUS
  <2>2. \A j \in rows : j <= i => j <= k
    BY <2>1
  <2>3. I \subseteq K
    BY <2>2
  <2>4. k \in K /\ k \notin I
    BY <2>1
  <2> QED BY <2>3, <2>4
<1>4. /\ IsFiniteSet(I \cup {k}) /\ Cardinality(I \cup {k}) = Cardinality(I) + 1
  BY <1>2, <1>3, FS_AddElement
<1>5. Cardinality(I \cup {k}) <= Cardinality(K)
  BY <1>2, <1>3, FS_Subset
<1>6. Cardinality(I) \in Nat /\ Cardinality(K) \in Nat
  BY <1>2, FS_CardinalityType
<1> HIDE DEF I, K
<1>7. Cardinality(I) < Cardinality(K)
  BY <1>4, <1>5, <1>6
<1> QED BY <1>7 DEF I, K, Rank

(* Every row has a place, and RowAt finds it again.                        *)
LEMMA RowAtFacts ==
    ASSUME NEW m \in Nat, NEW rows \in SUBSET (1 .. m)
    PROVE  /\ Cardinality(rows) \in Nat
           /\ \A i \in rows : /\ Rank(rows, i) \in 1 .. Cardinality(rows)
                              /\ RowAt(rows, Rank(rows, i)) = i
           /\ \A k \in 1 .. Cardinality(rows) : /\ RowAt(rows, k) \in rows
                                                /\ Rank(rows, RowAt(rows, k)) = k
<1> DEFINE n == Cardinality(rows)
           f == [i \in rows |-> Rank(rows, i)]
<1>0. IsFiniteSet(1 .. m)
  BY FS_Interval
<1>1. IsFiniteSet(rows) /\ n \in Nat
  BY <1>0, FS_Subset, FS_CardinalityType
<1>2. \A i \in rows : Rank(rows, i) \in 1 .. n
  <2>1. SUFFICES ASSUME NEW i \in rows PROVE Rank(rows, i) \in 1 .. n
    OBVIOUS
  <2> DEFINE I == {j \in rows : j <= i}
  <2>2. IsFiniteSet(I) /\ Cardinality(I) <= n
    BY <1>1, FS_Subset
  <2>3. i \in I
    OBVIOUS
  <2>4. Cardinality(I) # 0 /\ Cardinality(I) \in Nat
    BY <2>2, <2>3, FS_EmptySet, FS_CardinalityType
  <2> HIDE DEF I, n
  <2>5. Cardinality(I) \in 1 .. n
    BY <2>2, <2>4, <1>1
  <2> QED BY <2>5 DEF I, Rank
<1>3. \A i, k \in rows : Rank(rows, i) = Rank(rows, k) => i = k
  <2>1. SUFFICES ASSUME NEW i \in rows, NEW k \in rows, Rank(rows, i) = Rank(rows, k), i # k
                 PROVE  FALSE
    OBVIOUS
  <2>2. CASE i < k
    <3>1. Rank(rows, i) < Rank(rows, k)
      BY <2>2, RankLess
    <3> QED BY <2>1, <3>1, <1>1, <1>2
  <2>3. CASE k < i
    <3>1. Rank(rows, k) < Rank(rows, i)
      BY <2>3, RankLess
    <3> QED BY <2>1, <3>1, <1>1, <1>2
  <2> QED BY <2>1, <2>2, <2>3
<1> HIDE DEF n
<1>4. f \in Injection(rows, 1 .. n)
  BY <1>2, <1>3 DEF Injection, IsInjective
<1>5. IsFiniteSet(1 .. n) /\ Cardinality(1 .. n) = n
  BY <1>1, FS_Interval
<1>6. f \in Surjection(rows, 1 .. n)
  BY <1>4, <1>5, FS_Injection DEF n
<1>7. \A k \in 1 .. n : \E i \in rows : Rank(rows, i) = k
  BY <1>6 DEF Surjection
<1>8. \A k \in 1 .. n : RowAt(rows, k) \in rows /\ Rank(rows, RowAt(rows, k)) = k
  BY <1>7 DEF RowAt, Rank
<1>9. \A i \in rows : RowAt(rows, Rank(rows, i)) = i
  BY <1>2, <1>3, <1>8
<1> QED BY <1>1, <1>2, <1>8, <1>9 DEF n
-----------------------------------------------------------------------------
(* Catalogs.                                                               *)

LEMMA CatalogRows ==
    ASSUME NEW c \in Catalog
    PROVE  /\ Len(c) \in Nat /\ DOMAIN c = 1 .. Len(c)
           /\ \A i \in 1 .. Len(c) : c[i] \in Entry /\ c[i].name \in Names
<1>1. Len(c) \in Nat /\ c \in [1 .. Len(c) -> Entry]
  BY DEF Catalog
<1>2. \A i \in 1 .. Len(c) : c[i] \in Entry
  BY <1>1
<1> QED BY <1>1, <1>2 DEF Entry

(* What a rewrite makes of row i.                                          *)
Kept(c, n) == {i \in 1 .. Len(c) : c[i].name # n}

LEMMA RewriteRows ==
    ASSUME NEW c \in Catalog, NEW n, NEW r, r = lh_archive_rewrite(c, n)
    PROVE  /\ r \in Catalog /\ Len(r) = Cardinality(Kept(c, n))
           /\ \A i \in Kept(c, n) :
                /\ Rank(Kept(c, n), i) \in 1 .. Len(r)
                /\ r[Rank(Kept(c, n), i)].name = c[i].name
                /\ r[Rank(Kept(c, n), i)].data = c[i].data
           /\ \A k \in 1 .. Len(r) :
                /\ RowAt(Kept(c, n), k) \in Kept(c, n)
                /\ Rank(Kept(c, n), RowAt(Kept(c, n), k)) = k
                /\ r[k].name = c[RowAt(Kept(c, n), k)].name
<1> DEFINE rows == Kept(c, n)
           m == Cardinality(rows)
<1>1. Len(c) \in Nat /\ rows \in SUBSET (1 .. Len(c))
  BY CatalogRows DEF Kept
<1>2. /\ m \in Nat
      /\ \A i \in rows : Rank(rows, i) \in 1 .. m /\ RowAt(rows, Rank(rows, i)) = i
      /\ \A k \in 1 .. m : RowAt(rows, k) \in rows /\ Rank(rows, RowAt(rows, k)) = k
  BY <1>1, RowAtFacts
<1>3. r = [k \in 1 .. m |-> [c[RowAt(rows, k)] EXCEPT !.kind = "file"]]
  BY DEF lh_archive_rewrite, Kept
<1>4. \A i \in rows : c[i] \in Entry
  BY <1>1, CatalogRows
<1> HIDE DEF rows, m
<1>5. \A i \in rows : /\ [c[i] EXCEPT !.kind = "file"] \in Entry
                      /\ [c[i] EXCEPT !.kind = "file"].name = c[i].name
                      /\ [c[i] EXCEPT !.kind = "file"].data = c[i].data
  BY <1>4 DEF Entry
<1>6. r \in Catalog /\ Len(r) = m
  BY <1>2, <1>3, <1>5 DEF Catalog
<1>7. \A k \in 1 .. m : r[k] = [c[RowAt(rows, k)] EXCEPT !.kind = "file"]
  BY <1>3
<1>8. \A k \in 1 .. m : r[k].name = c[RowAt(rows, k)].name /\ r[k].data = c[RowAt(rows, k)].data
  BY <1>2, <1>5, <1>7
<1>9. \A i \in rows : /\ r[Rank(rows, i)].name = c[i].name
                      /\ r[Rank(rows, i)].data = c[i].data
  BY <1>2, <1>8
<1> QED BY <1>2, <1>6, <1>8, <1>9 DEF rows, m

(* The row in which a name is found.                                       *)
LEMMA FoundRow ==
    ASSUME NEW c \in Catalog, NEW n, Matching(c, n) # {}
    PROVE  /\ lh_find_entry_index(c, n) \in Matching(c, n)
           /\ \A i \in Matching(c, n) : lh_find_entry_index(c, n) <= i
<1>1. Matching(c, n) \in SUBSET Nat
  BY CatalogRows DEF Matching
<1>2. \E i \in Matching(c, n) : \A j \in Matching(c, n) : i <= j
  BY <1>1, FirstRow
<1> QED BY <1>2 DEF lh_find_entry_index

LEMMA FoundOnlyThere ==
    ASSUME NEW c \in Catalog, NEW n, NEW i \in Matching(c, n),
           \A j \in Matching(c, n) : i <= j
    PROVE  lh_find_entry_index(c, n) = i
<1>1. Matching(c, n) \in SUBSET Nat
  BY CatalogRows DEF Matching
<1>2. lh_find_entry_index(c, n) \in Matching(c, n) /\ lh_find_entry_index(c, n) <= i
  BY FoundRow
<1> QED BY <1>1, <1>2

(* A rewrite takes one name away and leaves what is read by any other.     *)
LEMMA RewriteKeepsOthers ==
    ASSUME NEW c \in Catalog, NEW n, NEW x, x # n
    PROVE  /\ DataOf(lh_archive_rewrite(c, n), x) = DataOf(c, x)
           /\ Matching(lh_archive_rewrite(c, n), x) = {} <=> Matching(c, x) = {}
<1> DEFINE r == lh_archive_rewrite(c, n)
           rows == Kept(c, n)
<1>1. /\ r \in Catalog /\ Len(r) \in Nat /\ Len(c) \in Nat
      /\ \A i \in rows : /\ Rank(rows, i) \in 1 .. Len(r)
                         /\ r[Rank(rows, i)].name = c[i].name
                         /\ r[Rank(rows, i)].data = c[i].data
      /\ \A k \in 1 .. Len(r) : /\ RowAt(rows, k) \in rows
                                /\ Rank(rows, RowAt(rows, k)) = k
                                /\ r[k].name = c[RowAt(rows, k)].name
  BY RewriteRows, CatalogRows
<1>2. rows \in SUBSET (1 .. Len(c)) /\ Matching(c, x) \subseteq rows
  BY DEF Kept, Matching
<1> HIDE DEF r, rows
<1>3. \A i \in Matching(c, x) : Rank(rows, i) \in Matching(r, x)
  BY <1>1, <1>2 DEF Matching
<1>4. \A k \in Matching(r, x) : RowAt(rows, k) \in Matching(c, x)
  BY <1>1, <1>2 DEF Matching
<1>5. Matching(r, x) = {} <=> Matching(c, x) = {}
  BY <1>3, <1>4
<1>6. ASSUME Matching(c, x) # {}
      PROVE  r[lh_find_entry_index(r, x)].data = c[lh_find_entry_index(c, x)].data
  <2> DEFINE i == lh_find_entry_index(c, x)
  <2>1. i \in Matching(c, x) /\ \A j \in Matching(c, x) : i <= j
    BY <1>6, FoundRow
  <2> HIDE DEF i
  <2>2. Rank(rows, i) \in Matching(r, x)
    BY <1>3, <2>1
  <2>3. \A k \in Matching(r, x) : Rank(rows, i) <= k
    <3>1. SUFFICES ASSUME NEW k \in Matching(r, x) PROVE Rank(rows, i) <= k
      OBVIOUS
    <3>2. RowAt(rows, k) \in Matching(c, x) /\ k \in 1 .. Len(r)
      BY <1>4 DEF Matching
    <3>3. i <= RowAt(rows, k) /\ Rank(rows, RowAt(rows, k)) = k
      BY <1>1, <2>1, <3>2
    <3>4. i \in rows /\ RowAt(rows, k) \in rows
      BY <1>2, <2>1, <3>2
    <3>5. CASE i = RowAt(rows, k)
      BY <3>3, <3>5, <3>2
    <3>6. CASE i < RowAt(rows, k)
      <4>1. Rank(rows, i) < k
        BY <1>1, <1>2, <3>3, <3>4, <3>6, RankLess
      <4> QED BY <1>1, <3>2, <3>4, <4>1
    <3>7. i \in Nat /\ RowAt(rows, k) \in Nat
      <4>1. rows \subseteq Nat
        BY <1>2
      <4> QED BY <3>4, <4>1
    <3> QED BY <3>3, <3>5, <3>6, <3>7
  <2>4. lh_find_entry_index(r, x) = Rank(rows, i)
    BY <1>1, <2>2, <2>3, FoundOnlyThere
  <2> QED BY <1>1, <1>2, <2>1, <2>4 DEF i
<1> QED BY <1>5, <1>6 DEF DataOf, r

LEMMA RewriteTakesAll ==
    ASSUME NEW c \in Catalog, NEW n
    PROVE  /\ Matching(lh_archive_rewrite(c, n), n) = {}
           /\ lh_archive_rewrite(c, n) \in Catalog
<1> DEFINE r == lh_archive_rewrite(c, n)
<1>1. /\ r \in Catalog
      /\ \A k \in 1 .. Len(r) : /\ RowAt(Kept(c, n), k) \in Kept(c, n)
                                /\ r[k].name = c[RowAt(Kept(c, n), k)].name
  BY RewriteRows
<1> HIDE DEF r
<1>2. \A k \in 1 .. Len(r) : r[k].name # n
  BY <1>1 DEF Kept
<1>3. r \in Catalog /\ Matching(r, n) = {}
  BY <1>1, <1>2 DEF Matching
<1> QED BY <1>3 DEF r

(* An entry that is appended is read if it is the first of its name.       *)
LEMMA AppendedRow ==
    ASSUME NEW c \in Catalog, NEW e \in Entry, NEW x
    PROVE  /\ Append(c, e) \in Catalog
           /\ x # e.name => /\ DataOf(Append(c, e), x) = DataOf(c, x)
                            /\ Matching(Append(c, e), x) = Matching(c, x)
           /\ Matching(c, x) # {} => DataOf(Append(c, e), x) = DataOf(c, x)
           /\ Matching(c, e.name) = {} => DataOf(Append(c, e), e.name) = e.data
<1> DEFINE a == Append(c, e)
<1>1. /\ a \in Catalog /\ Len(a) = Len(c) + 1 /\ Len(c) \in Nat
      /\ \A i \in 1 .. Len(c) : a[i] = c[i]
      /\ a[Len(c) + 1] = e
  BY CatalogRows DEF Catalog
<1> HIDE DEF a
<1>2. Matching(a, x) = Matching(c, x) \cup (IF x = e.name THEN {Len(c) + 1} ELSE {})
  BY <1>1 DEF Matching
<1>3. Matching(c, x) # {} => DataOf(a, x) = DataOf(c, x)
  <2>1. SUFFICES ASSUME Matching(c, x) # {} PROVE DataOf(a, x) = DataOf(c, x)
    OBVIOUS
  <2> DEFINE i == lh_find_entry_index(c, x)
  <2>2. i \in Matching(c, x) /\ \A j \in Matching(c, x) : i <= j
    BY <2>1, FoundRow
  <2> HIDE DEF i
  <2>3. i \in 1 .. Len(c)
    BY <2>2 DEF Matching
  <2>4. i \in Matching(a, x) /\ \A j \in Matching(a, x) : i <= j
    BY <1>1, <1>2, <2>2, <2>3
  <2>5. lh_find_entry_index(a, x) = i
    BY <1>1, <2>4, FoundOnlyThere
  <2>6. a[i].data = c[i].data
    BY <1>1, <2>3
  <2> QED BY <2>1, <2>4, <2>5, <2>6 DEF DataOf, i
<1>4. x # e.name => Matching(a, x) = Matching(c, x) /\ DataOf(a, x) = DataOf(c, x)
  BY <1>2, <1>3 DEF DataOf
<1>5. Matching(c, e.name) = {} => DataOf(a, e.name) = e.data
  <2>1. SUFFICES ASSUME Matching(c, e.name) = {} PROVE DataOf(a, e.name) = e.data
    OBVIOUS
  <2>2. Matching(a, e.name) = {Len(c) + 1}
    BY <1>1, <2>1 DEF Matching
  <2>3. lh_find_entry_index(a, e.name) = Len(c) + 1
    BY <1>1, <2>2, FoundRow
  <2> QED BY <1>1, <2>2, <2>3 DEF DataOf
<1> QED BY <1>1, <1>3, <1>4, <1>5 DEF a
-----------------------------------------------------------------------------
(* Names.                                                                  *)

Parts(n) == {n[i] : i \in DOMAIN n}

LEMMA NameSeq ==
    ASSUME NEW n \in Names
    PROVE  n \in Seq(Parts(n)) /\ Len(n) \in Nat \ {0} /\ n \in Seq(UNION {Parts(m) : m \in Names})
<1>1. n \in Seq(Parts(n)) /\ n # <<>>
  BY NamesAssumption DEF Parts
<1>2. Len(n) \in Nat \ {0}
  BY <1>1
<1>3. \A i \in 1 .. Len(n) : n[i] \in UNION {Parts(m) : m \in Names}
  BY <1>1
<1>4. n \in Seq(UNION {Parts(m) : m \in Names})
  BY <1>1, <1>3
<1> QED BY <1>1, <1>2, <1>4

(* With a name its prefixes are names.                                     *)
LEMMA PrefixName ==
    ASSUME NEW n \in Names, NEW k \in 1 .. Len(n)
    PROVE  SubSeq(n, 1, k) \in Names
<1> DEFINE T == {j \in 0 .. Len(n) - 1 : SubSeq(n, 1, Len(n) - j) \notin Names}
<1>1. n \in Seq(Parts(n)) /\ Len(n) \in Nat \ {0}
  BY NameSeq
<1>2. T = {}
  <2>1. SUFFICES ASSUME T # {} PROVE FALSE
    OBVIOUS
  <2>2. T \in SUBSET Nat
    BY <1>1
  <2>3. PICK j \in T : \A i \in T : j <= i
    BY <2>1, <2>2, FirstRow
  <2>4. j # 0
    <3>1. SubSeq(n, 1, Len(n)) = n
      BY <1>1
    <3>2. SubSeq(n, 1, Len(n) - j) \notin Names
      BY <2>3
    <3>3. j = 0 => Len(n) - j = Len(n)
      BY <1>1
    <3>4. SubSeq(n, 1, Len(n)) \in Names
      BY <3>1
    <3> QED BY <3>2, <3>3, <3>4
  <2>5. j \in 1 .. Len(n) - 1 /\ j - 1 \notin T /\ SubSeq(n, 1, Len(n) - j) \notin Names
    <3>1. j \in 0 .. Len(n) - 1 /\ SubSeq(n, 1, Len(n) - j) \notin Names
      BY <2>3
    <3>2. j \in 1 .. Len(n) - 1
      BY <1>1, <2>4, <3>1
    <3>3. j - 1 \notin T
      <4>1. ~(j <= j - 1)
        BY <3>2, <1>1
      <4> HIDE DEF T
      <4> QED BY <4>1, <2>3
    <3> QED BY <3>1, <3>2, <3>3
  <2> DEFINE m == SubSeq(n, 1, Len(n) - (j - 1))
  <2>6. m \in Names
    BY <1>1, <2>5
  <2>7. Len(m) = Len(n) - (j - 1) /\ SubSeq(m, 1, Len(m) - 1) = SubSeq(n, 1, Len(n) - j)
    BY <1>1, <2>5
  <2>8. SubSeq(n, 1, Len(n) - j) # <<>>
    <3>1. Len(n) - j \in 1 .. Len(n)
      BY <1>1, <2>5
    <3>2. Len(SubSeq(n, 1, Len(n) - j)) = Len(n) - j
      BY <1>1, <3>1
    <3>3. Len(n) - j # 0 /\ Len(<<>>) = 0
      BY <3>1, <1>1
    <3> QED BY <3>2, <3>3
  <2> HIDE DEF m, T
  <2> QED BY <2>5, <2>6, <2>7, <2>8, NamesAssumption
<1>3. Len(n) - k \in 0 .. Len(n) - 1 /\ Len(n) - (Len(n) - k) = k
  BY <1>1
<1>4. Len(n) - k \notin T
  BY <1>2
<1> QED BY <1>3, <1>4

Dirs == Names \cup {<<>>}

LEMMA DirSeq ==
    ASSUME NEW d \in Dirs
    PROVE  Len(d) \in Nat
  BY NameSeq DEF Dirs

LEMMA LeafName ==
    ASSUME NEW c \in Catalog, NEW d \in Dirs, NEW i \in 1 .. Len(c), IsUnder(c[i].name, d)
    PROVE  Leaf(c, d, i) \in Names
<1>1. c[i].name \in Names /\ Len(c[i].name) \in Nat /\ Len(d) \in Nat
  BY CatalogRows, NameSeq, DirSeq
<1>2. Len(d) + 1 \in 1 .. Len(c[i].name)
  BY <1>1 DEF IsUnder
<1> QED BY <1>1, <1>2, PrefixName DEF Leaf

-----------------------------------------------------------------------------
(* What a listing stops at.                                                *)

LEMMA RowsFacts ==
    ASSUME NEW c \in Catalog, NEW d \in Dirs, NEW k \in Nat
    PROVE  /\ RowsAfter(c, d, k) = {i \in RowsAfter(c, d, 0) : i > k}
           /\ RowsAfter(c, d, k) \in SUBSET (1 .. Len(c))
           /\ \A i \in RowsAfter(c, d, k) : Leaf(c, d, i) \in Names
           /\ \A i, j \in RowsAfter(c, d, 0) : Leaf(c, d, i) = Leaf(c, d, j) => i = j
<1>1. Len(c) \in Nat
  BY CatalogRows
<1>2. RowsAfter(c, d, k) = {i \in RowsAfter(c, d, 0) : i > k}
  BY <1>1 DEF RowsAfter
<1>3. \A j \in Nat : RowsAfter(c, d, j) \in SUBSET (1 .. Len(c))
  BY <1>1 DEF RowsAfter
<1>4. \A i \in RowsAfter(c, d, k) : Leaf(c, d, i) \in Names
  BY <1>3, LeafName DEF RowsAfter
<1>5. ASSUME NEW i \in RowsAfter(c, d, 0), NEW j \in RowsAfter(c, d, 0),
             Leaf(c, d, i) = Leaf(c, d, j)
      PROVE  i = j
  <2>1. i \in 1 .. Len(c) /\ j \in 1 .. Len(c) /\ IsUnder(c[i].name, d) /\ IsUnder(c[j].name, d)
    BY <1>1 DEF RowsAfter
  <2>2. ~lh_leaf_seen_before(c, d, i) /\ ~lh_leaf_seen_before(c, d, j)
    BY DEF RowsAfter
  <2>3. ~(i < j) /\ ~(j < i)
    BY <1>1, <1>5, <2>1, <2>2 DEF lh_leaf_seen_before
  <2> QED BY <2>1, <2>3
<1> QED BY <1>2, <1>3, <1>4, <1>5

(* Each child is shown by a row.                                           *)
LEMMA FirstShows ==
    ASSUME NEW c \in Catalog, NEW d \in Dirs
    PROVE  Children(c, d) = {Leaf(c, d, i) : i \in RowsAfter(c, d, 0)}
<1>1. Len(c) \in Nat
  BY CatalogRows
<1>2. RowsAfter(c, d, 0) \subseteq ChildRows(c, d)
  BY <1>1 DEF RowsAfter, ChildRows
<1>3. ASSUME NEW i \in ChildRows(c, d)
      PROVE  \E j \in RowsAfter(c, d, 0) : Leaf(c, d, j) = Leaf(c, d, i)
  <2> DEFINE T == {j \in ChildRows(c, d) : Leaf(c, d, j) = Leaf(c, d, i)}
  <2>1. T \in SUBSET Nat /\ T # {}
    BY <1>1 DEF ChildRows
  <2>2. PICK j \in T : \A k \in T : j <= k
    BY <2>1, FirstRow
  <2>3. j \in 1 .. Len(c) /\ IsUnder(c[j].name, d) /\ Leaf(c, d, j) = Leaf(c, d, i)
    BY <2>2 DEF ChildRows
  <2>4. ~lh_leaf_seen_before(c, d, j)
    <3>1. SUFFICES ASSUME NEW k \in 1 .. j - 1, IsUnder(c[k].name, d),
                          Leaf(c, d, k) = Leaf(c, d, j)
                   PROVE  FALSE
      BY DEF lh_leaf_seen_before
    <3>2. k \in T
      BY <1>1, <2>3, <3>1 DEF ChildRows
    <3> QED BY <2>2, <2>3, <3>2
  <2>5. j \in RowsAfter(c, d, 0)
    BY <1>1, <2>3, <2>4 DEF RowsAfter
  <2> QED BY <2>3, <2>5
<1> QED BY <1>2, <1>3 DEF Children
-----------------------------------------------------------------------------
(* Types.                                                                  *)

LockType == [open : BOOLEAN, at : Names \cup {<<>>}, lh : Int,
             cursor : Nat, aborted : BOOLEAN, pending : Names \cup {NoName}]
ScanType == [by : {"none", "next", "all"}, key : Nat,
             names : SUBSET Names, icons : SUBSET Names,
             last : Names \cup {NoName}, twice : BOOLEAN, stray : BOOLEAN,
             held : SUBSET Names, steady : BOOLEAN, whole : BOOLEAN, ended : BOOLEAN]
ArcStates == {"open", "stale", "gone", "closed"}
JobType == [on : BOOLEAN, from : Names \cup {<<>>}, to : Names \cup {<<>>},
            todo : SUBSET (Names \X Names), moved : BOOLEAN, start : Catalog,
            unlucky : SUBSET Names, dropped : SUBSET Names]

LEMMA EmptyTypes == FreeLock \in LockType /\ NoScan \in ScanType /\ NoJob \in JobType
  BY DEF FreeLock, NoScan, NoJob, LockType, ScanType, JobType, Catalog, ZERO

LEMMA FoundType ==
    ASSUME NEW c \in Catalog, NEW n
    PROVE  lh_arc_lock(c, n) \in Int
<1>1. \A i \in Matching(c, n) : i \in Int
  BY CatalogRows DEF Matching
<1>2. Matching(c, n) # {} => lh_find_entry_index(c, n) \in Int
  BY <1>1, FoundRow
<1> QED BY <1>2 DEF lh_arc_lock, ROOT_DIR, SYNTH_DIR, ZERO

LEMMA DataType ==
    ASSUME NEW c \in Catalog, NEW n
    PROVE  DataOf(c, n) \in Seq(Chunks)
<1>1. CASE Matching(c, n) = {}
  BY <1>1 DEF DataOf
<1>2. CASE Matching(c, n) # {}
  <2>1. lh_find_entry_index(c, n) \in 1 .. Len(c)
    BY <1>2, FoundRow DEF Matching
  <2>2. c[lh_find_entry_index(c, n)] \in Entry
    BY <2>1, CatalogRows
  <2> QED BY <1>2, <2>2 DEF DataOf, Entry
<1> QED BY <1>1, <1>2

LEMMA ReaddedType ==
    ASSUME NEW n \in Names, NEW d \in Seq(Chunks)
    PROVE  Readded(n, d) \in Entry /\ Readded(n, d).name = n /\ Readded(n, d).data = d
  BY DEF Readded, DirEntry, FileEntry, Entry

LEMMA DirEntryType ==
    ASSUME NEW n \in Names
    PROVE  DirEntry(n) \in Entry /\ DirEntry(n).name = n
  BY DEF DirEntry, Entry

LEMMA EmptyCatalog == <<>> \in Catalog
  BY DEF Catalog

LEMMA ShorterType ==
    ASSUME NEW c \in Catalog, NEW k \in Nat, k <= Len(c)
    PROVE  SubSeq(c, 1, k) \in Catalog
  BY DEF Catalog

LEMMA ChildrenType ==
    ASSUME NEW c \in Catalog, NEW d \in Dirs
    PROVE  Children(c, d) \in SUBSET Names
<1>1. \A i \in RowsAfter(c, d, 0) : Leaf(c, d, i) \in Names
  BY RowsFacts
<1> QED BY <1>1, FirstShows

LEMMA IconType ==
    ASSUME NEW c \in Catalog, NEW d \in Dirs, NEW i \in RowsAfter(c, d, 0)
    PROVE  IconAfter(c, d, i) \in {NoName, Leaf(c, d, i)} /\ Leaf(c, d, i) \in Names
  BY RowsFacts DEF IconAfter

(* What a refresh makes of a lock and its listing.                         *)
LEMMA RefreshTypes ==
    ASSUME NEW c \in Catalog, NEW lock \in LockType, NEW s \in ScanType, NEW w \in BOOLEAN
    PROVE  /\ Rebound(c, lock) \in LockType
           /\ Disturbed(c, s, lock.at, w) \in ScanType
<1>1. lh_arc_lock(c, lock.at) \in Int
  BY FoundType
<1>2. Rebound(c, lock) \in LockType
  BY <1>1 DEF Rebound, LockType
<1>3. s.held \cap Children(c, lock.at) \in SUBSET Names
  BY DEF ScanType
<1>4. Disturbed(c, s, lock.at, w) \in ScanType
  BY <1>3, EmptyTypes DEF Disturbed, ScanType
<1> QED BY <1>2, <1>4

LEMMA RenamesType ==
    ASSUME NEW c \in Catalog, NEW from, NEW to
    PROVE  lhh_rename_collect(c, from, to) \in SUBSET (Names \X Names)
  BY DEF lhh_rename_collect

LEMMA TypesIn ==
    TypeOK <=> /\ disk \in Catalog /\ cat \in Catalog /\ arc \in ArcStates
               /\ locks \in [LockIds -> LockType] /\ scans \in [LockIds -> ScanType]
               /\ job \in JobType /\ changes \in 0 .. MaxChanges /\ mishaps \in 0 .. MaxMishaps
  BY DEF TypeOK, LockType, ScanType, JobType, ArcStates

(* A refresh, and the library's rebuilding under the locks.                *)
LEMMA RefreshKeepsTypes ==
    ASSUME TypeOK, NEW c \in Catalog,
           lhh_arc_refresh(c) \/ RefreshFails \/ RebuiltInPlace(c)
    PROVE  /\ cat' \in Catalog /\ arc' \in ArcStates
           /\ locks' \in [LockIds -> LockType] /\ scans' \in [LockIds -> ScanType]
<1>0. arc' \in ArcStates
  BY DEF lhh_arc_refresh, RefreshFails, RebuiltInPlace, ArcStates
<1>a. <<>> \in Catalog
  BY EmptyCatalog
<1>1. \A l \in LockIds : locks[l] \in LockType /\ scans[l] \in ScanType
  BY TypesIn
<1>2. \A l \in LockIds, w \in BOOLEAN, d \in Catalog :
        /\ Rebound(d, locks[l]) \in LockType
        /\ Disturbed(d, scans[l], locks[l].at, w) \in ScanType
  BY <1>1, RefreshTypes
<1>3. CASE lhh_arc_refresh(c)
  <2>1. \A l \in LockIds : IsDirectory(c, lh_arc_lock(c, locks[l].at)) \in BOOLEAN
    BY DEF IsDirectory
  <2> QED BY <1>0, <1>2, <1>3, <2>1 DEF lhh_arc_refresh
<1>4. CASE RebuiltInPlace(c)
  <2>1. \A l \in LockIds :
          (IF c = cat THEN scans[l] ELSE Disturbed(c, scans[l], locks[l].at, FALSE)) \in ScanType
    BY <1>1, <1>2
  <2> QED BY <1>0, <1>4, <2>1, TypesIn DEF RebuiltInPlace
<1>5. CASE RefreshFails
  <2>1. \A l \in LockIds : /\ Rebound(<<>>, locks[l]) \in LockType
                          /\ Disturbed(<<>>, scans[l], locks[l].at, FALSE) \in ScanType
    BY <1>a, <1>2
  <2>2. \A k \in LockType : [k EXCEPT !.lh = ZERO] \in LockType
    BY DEF LockType, ZERO
  <2>3. \A l \in LockIds : [Rebound(<<>>, locks[l]) EXCEPT !.lh = ZERO] \in LockType
    BY <2>1, <2>2
  <2> QED BY <1>0, <1>a, <1>5, <2>1, <2>3 DEF RefreshFails
<1> QED BY <1>3, <1>4, <1>5

LEMMA InitTypes == Init => TypeOK
<1> SUFFICES ASSUME Init PROVE TypeOK
  OBVIOUS
<1>1. disk \in Catalog /\ cat \in Catalog /\ arc \in ArcStates
  BY ScanAssumption DEF Init, ArcStates
<1>2. locks \in [LockIds -> LockType] /\ scans \in [LockIds -> ScanType] /\ job \in JobType
  BY EmptyTypes DEF Init
<1>3. changes \in 0 .. MaxChanges /\ mishaps \in 0 .. MaxMishaps
  BY ScanAssumption DEF Init
<1> QED BY <1>1, <1>2, <1>3, TypesIn

(* What the packets of one lock may do to the variables.                   *)
LockStep(l) ==
    /\ \E lock \in LockType : locks' = [locks EXCEPT ![l] = lock]
    /\ \E s \in ScanType : scans' = [scans EXCEPT ![l] = s]
    /\ UNCHANGED <<disk, arc, cat, job, changes, mishaps>>

LEMMA LockStepTypes ==
    ASSUME TypeOK, NEW l \in LockIds, LockStep(l)
    PROVE  TypeOK'
<1>1. locks' \in [LockIds -> LockType] /\ scans' \in [LockIds -> ScanType]
  BY TypesIn DEF LockStep
<1>2. /\ disk' \in Catalog /\ cat' \in Catalog /\ arc' \in ArcStates /\ job' \in JobType
      /\ changes' \in 0 .. MaxChanges /\ mishaps' \in 0 .. MaxMishaps
  BY TypesIn DEF LockStep
<1> QED BY <1>1, <1>2, TypesIn DEF TypeOK, LockType, ScanType, JobType, ArcStates

LEMMA SameLock ==
    ASSUME TypeOK, NEW l \in LockIds
    PROVE  /\ locks[l] \in LockType /\ scans[l] \in ScanType
           /\ locks = [locks EXCEPT ![l] = locks[l]] /\ scans = [scans EXCEPT ![l] = scans[l]]
  BY TypesIn

LEMMA LocateTypes ==
    ASSUME TypeOK, NEW l \in LockIds, NEW n \in Dirs, Locate(l, n)
    PROVE  LockStep(l)
<1>1. lh_arc_lock(cat, n) \in Int
  BY FoundType, TypesIn
<1>2. [FreeLock EXCEPT !.open = TRUE, !.at = n, !.lh = lh_arc_lock(cat, n)] \in LockType
  BY <1>1, EmptyTypes DEF LockType, Dirs
<1> QED BY <1>2, SameLock DEF Locate, LockStep

LEMMA FreeTypes ==
    ASSUME TypeOK, NEW l \in LockIds, Free(l)
    PROVE  LockStep(l)
  BY EmptyTypes DEF Free, LockStep

LEMMA ExamineObjectTypes ==
    ASSUME TypeOK, NEW l \in LockIds, ExamineObject(l)
    PROVE  LockStep(l)
<1> DEFINE lock == Examined(locks[l])
           atFirst == lock.cursor = 0 /\ IsDirectory(cat, lock.lh)
           scan == [NoScan EXCEPT !.by = "next", !.ended = FALSE,
                                  !.held = Children(cat, lock.at),
                                  !.steady = atFirst /\ lock.pending = NoName,
                                  !.whole = atFirst]
<1>1. locks[l] \in LockType
  BY TypesIn
<1>2. lock \in LockType
  BY <1>1 DEF Examined, LockType
<1>3. Children(cat, lock.at) \in SUBSET Names
  <2>1. lock.at \in Dirs
    BY <1>2 DEF LockType, Dirs
  <2> QED BY <2>1, ChildrenType, TypesIn
<1>4. atFirst \in BOOLEAN
  BY DEF IsDirectory
<1> HIDE DEF lock, atFirst
<1>5. scan \in ScanType
  BY <1>3, <1>4, EmptyTypes DEF ScanType
<1>6. locks' = [locks EXCEPT ![l] = lock] /\ scans' = [scans EXCEPT ![l] = scan]
  BY DEF ExamineObject, lock, atFirst
<1> QED BY <1>2, <1>5, <1>6 DEF ExamineObject, LockStep

(* The next child.                                                         *)
LEMMA NextChild ==
    ASSUME TypeOK, NEW lock \in LockType, lh_fill_next_child(lock) # {}
    PROVE  LET i == FirstOf(lh_fill_next_child(lock))
           IN  /\ lh_fill_next_child(lock) = RowsAfter(cat, lock.at, lock.cursor)
               /\ i \in RowsAfter(cat, lock.at, 0) /\ i \in 1 .. Len(cat) /\ i > lock.cursor
               /\ \A j \in RowsAfter(cat, lock.at, 0) : j < i => j <= lock.cursor
               /\ IconAfter(cat, lock.at, i) \in {NoName, Leaf(cat, lock.at, i)}
               /\ Leaf(cat, lock.at, i) \in Names
               /\ MovedTo(lock, i) \in LockType
<1> DEFINE rows == lh_fill_next_child(lock)
           i == FirstOf(rows)
<1>1. lock.at \in Dirs /\ lock.cursor \in Nat /\ cat \in Catalog
  BY TypesIn DEF LockType, Dirs
<1>2. rows = RowsAfter(cat, lock.at, lock.cursor)
  BY DEF lh_fill_next_child
<1>3. /\ rows = {j \in RowsAfter(cat, lock.at, 0) : j > lock.cursor}
      /\ rows \in SUBSET (1 .. Len(cat)) /\ rows \in SUBSET Nat
      /\ RowsAfter(cat, lock.at, 0) \in SUBSET (1 .. Len(cat))
  <2>1. rows \in SUBSET (1 .. Len(cat)) /\ rows = {j \in RowsAfter(cat, lock.at, 0) : j > lock.cursor}
    BY <1>1, <1>2, RowsFacts
  <2>2. RowsAfter(cat, lock.at, 0) \in SUBSET (1 .. Len(cat))
    BY <1>1, RowsFacts
  <2> QED BY <1>1, <2>1, <2>2, CatalogRows
<1> HIDE DEF rows
<1>4. i \in rows /\ \A j \in rows : i <= j
  BY <1>3, FirstRow DEF rows
<1>5. i \in RowsAfter(cat, lock.at, 0) /\ i \in 1 .. Len(cat) /\ i > lock.cursor
  BY <1>3, <1>4
<1>6. \A j \in RowsAfter(cat, lock.at, 0) : j < i => j <= lock.cursor
  BY <1>1, <1>3, <1>4
<1> HIDE DEF i
<1>7. /\ IconAfter(cat, lock.at, i) \in {NoName, Leaf(cat, lock.at, i)}
      /\ Leaf(cat, lock.at, i) \in Names
  BY <1>1, <1>5, IconType
<1>8. i \in Nat /\ IconAfter(cat, lock.at, i) \in Names \cup {NoName}
  BY <1>5, <1>7, <1>1, CatalogRows
<1>9. MovedTo(lock, i) \in LockType
  BY <1>8 DEF MovedTo, LockType
<1> QED BY <1>2, <1>5, <1>6, <1>7, <1>9 DEF i, rows

LEMMA ExamineNextTypes ==
    ASSUME TypeOK, NEW l \in LockIds, ExamineNext(l)
    PROVE  LockStep(l)
<1> DEFINE lock == locks[l]
           rows == lh_fill_next_child(lock)
           i == FirstOf(rows)
<1>1. lock \in LockType /\ scans[l] \in ScanType
  BY TypesIn
<1>2. CASE /\ lock.pending # NoName
           /\ locks' = [locks EXCEPT ![l].pending = NoName]
           /\ scans' = [scans EXCEPT ![l] = ShownIcon(@, lock.pending)]
  <2>1. lock.pending \in Names
    BY <1>1, <1>2 DEF LockType
  <2>2. ShownIcon(scans[l], lock.pending) \in ScanType
    BY <1>1, <2>1 DEF ShownIcon, ScanType
  <2>3. [lock EXCEPT !.pending = NoName] \in LockType
    BY <1>1 DEF LockType
  <2>4. /\ locks' = [locks EXCEPT ![l] = [lock EXCEPT !.pending = NoName]]
        /\ scans' = [scans EXCEPT ![l] = ShownIcon(scans[l], lock.pending)]
    BY <1>2
  <2> QED BY <2>2, <2>3, <2>4 DEF LockStep, ExamineNext
<1>3. CASE /\ lock.pending = NoName /\ rows # {}
           /\ locks' = [locks EXCEPT ![l] = MovedTo(lock, i)]
           /\ scans' = [scans EXCEPT ![l] = ShownChild(@, Leaf(cat, lock.at, i))]
  <2>1. MovedTo(lock, i) \in LockType /\ Leaf(cat, lock.at, i) \in Names
    BY <1>1, <1>3, NextChild
  <2>2. ShownChild(scans[l], Leaf(cat, lock.at, i)) \in ScanType
    BY <1>1, <2>1 DEF ShownChild, Shown, ScanType
  <2>3. scans' = [scans EXCEPT ![l] = ShownChild(scans[l], Leaf(cat, lock.at, i))]
    BY <1>3
  <2> QED BY <1>3, <2>1, <2>2, <2>3 DEF LockStep, ExamineNext
<1>4. CASE /\ lock.pending = NoName /\ rows = {}
           /\ scans' = [scans EXCEPT ![l].ended = TRUE]
           /\ UNCHANGED locks
  <2>1. [scans[l] EXCEPT !.ended = TRUE] \in ScanType
    BY <1>1 DEF ScanType
  <2>2. scans' = [scans EXCEPT ![l] = [scans[l] EXCEPT !.ended = TRUE]]
    BY <1>4
  <2> QED BY <1>4, <2>1, <2>2, SameLock DEF LockStep, ExamineNext
<1> QED BY <1>2, <1>3, <1>4 DEF ExamineNext

LEMMA BeginAllTypes ==
    ASSUME TypeOK, NEW l \in LockIds, BeginAll(l)
    PROVE  LockStep(l)
<1> DEFINE w == IsDirectory(cat, locks[l].lh) /\ ~locks[l].aborted
           scan == [NoScan EXCEPT !.by = "all", !.ended = FALSE, !.steady = w]
<1>1. w \in BOOLEAN
  BY DEF IsDirectory
<1> HIDE DEF w
<1>2. scan \in ScanType
  BY <1>1, EmptyTypes DEF ScanType
<1>3. scans' = [scans EXCEPT ![l] = scan]
  BY DEF BeginAll, w
<1> QED BY <1>2, <1>3, SameLock DEF BeginAll, LockStep

LEMMA ExamineAllEndTypes ==
    ASSUME TypeOK, NEW l \in LockIds, ExamineAllEnd(l)
    PROVE  LockStep(l)
<1>1. [locks[l] EXCEPT !.aborted = locks[l].lh # ZERO] \in LockType
  BY TypesIn DEF LockType
<1>2. locks' = [locks EXCEPT ![l] = [locks[l] EXCEPT !.aborted = locks[l].lh # ZERO]]
  BY DEF ExamineAllEnd
<1> QED BY <1>1, <1>2, EmptyTypes DEF ExamineAllEnd, LockStep

(* What one EXAMINE_ALL shows, and the key it leaves.                      *)
KeyBehind(c, left) == IF left = {} THEN Len(c) ELSE FirstOf(left) - 1

LEMMA NextKey ==
    ASSUME NEW c \in Catalog, NEW d \in Dirs, NEW key \in Nat, NEW k \in Nat,
           NEW left, left = RowsAfter(c, d, key) \ {i \in RowsAfter(c, d, key) : i <= k}
    PROVE  /\ KeyBehind(c, left) \in Nat
           /\ {i \in RowsAfter(c, d, 0) : i <= KeyBehind(c, left)}
                = {i \in RowsAfter(c, d, 0) : i <= key} \cup {i \in RowsAfter(c, d, key) : i <= k}
           /\ left = {} => KeyBehind(c, left) = Len(c)
<1> DEFINE rows == RowsAfter(c, d, key)
           all == RowsAfter(c, d, 0)
<1>1. Len(c) \in Nat /\ rows \in SUBSET (1 .. Len(c)) /\ all \in SUBSET (1 .. Len(c))
  BY CatalogRows, RowsFacts
<1>2. rows = {i \in all : i > key}
  BY RowsFacts
<1>3. left = {i \in rows : i > k}
  BY <1>1
<1> HIDE DEF rows, all
<1>4. CASE left = {}
  <2>1. KeyBehind(c, left) = Len(c)
    BY <1>4 DEF KeyBehind
  <2>2. \A i \in all : i <= Len(c) /\ (i <= key \/ (i \in rows /\ i <= k))
    BY <1>1, <1>2, <1>3, <1>4
  <2>3. {i \in all : i <= Len(c)} = {i \in all : i <= key} \cup {i \in rows : i <= k}
    BY <2>2, <1>2
  <2> QED BY <1>1, <2>1, <2>3 DEF rows, all
<1>5. CASE left # {}
  <2>0. left \in SUBSET Nat
    <3>1. left \subseteq 1 .. Len(c)
      BY <1>1, <1>3
    <3> QED BY <1>1, <3>1
  <2> DEFINE f == FirstOf(left)
  <2>1. f \in left /\ \A i \in left : f <= i
    BY <1>5, <2>0, FirstRow
  <2> HIDE DEF f
  <2>2. KeyBehind(c, left) = f - 1
    BY <1>5 DEF KeyBehind, f
  <2>3. f \in 1 .. Len(c) /\ f > key /\ f > k
    BY <1>1, <1>2, <1>3, <2>1
  <2>4. ASSUME NEW i \in all
        PROVE  i <= f - 1 <=> (i <= key \/ (i \in rows /\ i <= k))
    <3>1. i \in Nat /\ (i \in left <=> i > key /\ i > k)
      BY <1>1, <1>2, <1>3
    <3>2. i \in left => f <= i
      BY <2>1
    <3> QED BY <2>3, <3>1, <3>2, <1>2
  <2>5. {i \in all : i <= f - 1} = {i \in all : i <= key} \cup {i \in rows : i <= k}
    BY <2>4, <1>2
  <2>6. f - 1 \in Nat
    BY <2>3, <1>1
  <2> QED BY <1>5, <2>2, <2>5, <2>6 DEF rows, all
<1> QED BY <1>4, <1>5

(* The listing after an EXAMINE_ALL of a directory.                        *)
AllShown(c, lock, s, k) ==
    LET rows == RowsAfter(c, lock.at, s.key)
        now == {i \in rows : i <= k}
    IN [Shown(s, {Leaf(c, lock.at, i) : i \in now}) EXCEPT
            !.key = KeyBehind(c, rows \ now), !.ended = rows \ now = {}]

LEMMA AllShownType ==
    ASSUME NEW c \in Catalog, NEW lock \in LockType, NEW s \in ScanType, NEW k \in Nat
    PROVE  AllShown(c, lock, s, k) \in ScanType
<1> DEFINE rows == RowsAfter(c, lock.at, s.key)
           now == {i \in rows : i <= k}
           leaves == {Leaf(c, lock.at, i) : i \in now}
<1>1. lock.at \in Dirs /\ s.key \in Nat
  BY DEF LockType, ScanType, Dirs
<1>2. \A i \in rows : Leaf(c, lock.at, i) \in Names
  BY <1>1, RowsFacts
<1>3. leaves \in SUBSET Names
  BY <1>2
<1>4. KeyBehind(c, rows \ now) \in Nat
  BY <1>1, NextKey
<1> HIDE DEF rows, now, leaves
<1>5. Shown(s, leaves) \in ScanType
  BY <1>3 DEF Shown, ScanType
<1>6. [Shown(s, leaves) EXCEPT !.key = KeyBehind(c, rows \ now), !.ended = rows \ now = {}] \in ScanType
  BY <1>4, <1>5 DEF ScanType
<1> QED BY <1>6 DEF AllShown, rows, now, leaves

LEMMA ExamineAllTypes ==
    ASSUME TypeOK, NEW l \in LockIds, NEW k \in Nat, ExamineAll(l, k)
    PROVE  LockStep(l)
<1>1. locks[l] \in LockType /\ scans[l] \in ScanType /\ cat \in Catalog
  BY TypesIn
<1>2. [scans[l] EXCEPT !.ended = TRUE] \in ScanType /\ [locks[l] EXCEPT !.aborted = FALSE] \in LockType
  BY <1>1 DEF ScanType, LockType
<1>3. AllShown(cat, locks[l], scans[l], k) \in ScanType
  BY <1>1, AllShownType
<1>4. CASE scans' = [scans EXCEPT ![l].ended = TRUE] /\ UNCHANGED locks
  <2>1. scans' = [scans EXCEPT ![l] = [scans[l] EXCEPT !.ended = TRUE]]
    BY <1>4
  <2> QED BY <1>2, <1>4, <2>1, SameLock DEF LockStep, ExamineAll
<1>5. CASE /\ locks' = [locks EXCEPT ![l].aborted = FALSE]
           /\ scans' = [scans EXCEPT ![l].ended = TRUE]
  <2>1. /\ scans' = [scans EXCEPT ![l] = [scans[l] EXCEPT !.ended = TRUE]]
        /\ locks' = [locks EXCEPT ![l] = [locks[l] EXCEPT !.aborted = FALSE]]
    BY <1>5
  <2> QED BY <1>2, <2>1 DEF LockStep, ExamineAll
<1>6. CASE /\ scans' = [scans EXCEPT ![l] = AllShown(cat, locks[l], scans[l], k)]
           /\ UNCHANGED locks
  BY <1>3, <1>6, SameLock DEF LockStep, ExamineAll
<1>7. \/ scans' = [scans EXCEPT ![l].ended = TRUE] /\ UNCHANGED locks
      \/ locks' = [locks EXCEPT ![l].aborted = FALSE] /\ scans' = [scans EXCEPT ![l].ended = TRUE]
      \/ /\ scans' = [scans EXCEPT ![l] = AllShown(cat, locks[l], scans[l], k)]
         /\ UNCHANGED locks
  BY DEF ExamineAll, AllShown, KeyBehind
<1> QED BY <1>4, <1>5, <1>6, <1>7

(* One packet of lock l.                                                   *)
LockPacket(l) ==
    \/ \E n \in Dirs : Locate(l, n)
    \/ Free(l)
    \/ ExamineObject(l)
    \/ ExamineNext(l)
    \/ BeginAll(l)
    \/ \E k \in Nat : ExamineAll(l, k)
    \/ ExamineAllEnd(l)

LEMMA LockPacketTypes ==
    ASSUME TypeOK, NEW l \in LockIds, LockPacket(l)
    PROVE  LockStep(l) /\ TypeOK'
<1>1. LockStep(l)
  BY LocateTypes, FreeTypes, ExamineObjectTypes, ExamineNextTypes, BeginAllTypes,
     ExamineAllTypes, ExamineAllEndTypes DEF LockPacket
<1> QED BY <1>1, LockStepTypes
-----------------------------------------------------------------------------
(* What changes the archive.                                               *)

ChangePacket ==
    \/ \E e \in Additions : Commit(e) \/ CommitAnew(e)
    \/ \E n \in Names :
        \/ Delete(n)
        \/ DeleteUnopened(n)
        \/ \E k \in 0 .. Len(disk) : DeleteCut(n, k) \/ DeleteUnbuilt(n, k)

(* The steps that read, delete and add.                                    *)
AddStep(p) ==
    \/ RenameOne(p)
    \/ RenameAnew(p)
    \/ \E k \in 0 .. Len(disk) : RenameCut(p, k) \/ RenameUnlisted(p, k)

RenameStep(p) ==
    \/ AddStep(p)
    \/ RenameUnread(p)
    \/ RenameUndeleted(p)
    \/ RenameUnopened(p)
    \/ RenameDenied(p)
    \/ \E k \in 0 .. Len(disk) : RenameLost(p, k)

LEMMA NextSteps ==
    ASSUME TypeOK, Next
    PROVE  \/ \E l \in LockIds : LockPacket(l)
           \/ ChangePacket
           \/ \E from, to \in Names : StartRename(from, to)
           \/ \E p \in job.todo : RenameStep(p)
           \/ EndRename
<1>1. \A k \in 0 .. Len(cat) : k \in Nat
  BY TypesIn, CatalogRows
<1> QED BY <1>1 DEF Next, LockPacket, ChangePacket, RenameStep, AddStep, Dirs

LEMMA CountTypes ==
    ASSUME TypeOK
    PROVE  /\ Change => changes' \in 0 .. MaxChanges
           /\ Mishap => mishaps' \in 0 .. MaxMishaps
<1>1. {MaxChanges, MaxMishaps} \subseteq Nat
  BY ScanAssumption
<1>2. changes \in 0 .. MaxChanges /\ mishaps \in 0 .. MaxMishaps
  BY TypesIn
<1>3. Change => changes' \in 0 .. MaxChanges
  BY <1>1, <1>2 DEF Change
<1>4. Mishap => mishaps' \in 0 .. MaxMishaps
  BY <1>1, <1>2 DEF Mishap
<1> QED BY <1>3, <1>4

(* An archive that changes takes the locks along, or leaves them.          *)
LEMMA ArchiveTypes ==
    ASSUME TypeOK, NEW c \in Catalog, disk' \in Catalog,
           \/ lhh_arc_refresh(c) \/ RefreshFails \/ RebuiltInPlace(c)
           \/ arc' \in ArcStates /\ UNCHANGED <<cat, locks, scans>>,
           job' \in JobType, changes' \in 0 .. MaxChanges, mishaps' \in 0 .. MaxMishaps
    PROVE  TypeOK'
<1>1. CASE lhh_arc_refresh(c) \/ RefreshFails \/ RebuiltInPlace(c)
  <2>1. /\ cat' \in Catalog /\ arc' \in ArcStates
        /\ locks' \in [LockIds -> LockType] /\ scans' \in [LockIds -> ScanType]
    BY <1>1, RefreshKeepsTypes
  <2> QED BY <2>1, TypesIn DEF TypeOK, LockType, ScanType, JobType, ArcStates
<1>2. CASE arc' \in ArcStates /\ UNCHANGED <<cat, locks, scans>>
  BY <1>2, TypesIn DEF TypeOK, LockType, ScanType, JobType, ArcStates
<1> QED BY <1>1, <1>2

(* What any rewrite leaves, of the whole archive or of its first rows.     *)
LEMMA RewriteTypes ==
    ASSUME NEW c \in Catalog, NEW k \in 0 .. Len(c), NEW n
    PROVE  /\ k \in Nat /\ SubSeq(c, 1, k) \in Catalog
           /\ lh_archive_rewrite(c, n) \in Catalog
           /\ lh_archive_rewrite(SubSeq(c, 1, k), n) \in Catalog
<1>1. k \in Nat /\ k <= Len(c)
  BY CatalogRows
<1>2. SubSeq(c, 1, k) \in Catalog
  BY <1>1, ShorterType
<1> QED BY <1>1, <1>2, RewriteTakesAll

LEMMA ChangeTypes ==
    ASSUME TypeOK, ChangePacket
    PROVE  TypeOK'
<1>1. /\ disk \in Catalog /\ job \in JobType /\ changes \in 0 .. MaxChanges
      /\ mishaps \in 0 .. MaxMishaps
  BY TypesIn
<1>2. ASSUME NEW e \in Additions, Commit(e) \/ CommitAnew(e) PROVE TypeOK'
  <2>1. e \in Entry
    BY ScanAssumption
  <2>2. disk' \in Catalog
    <3>1. disk' = Append(disk, e) \/ disk' = <<e>>
      BY <1>2 DEF Commit, CommitAnew
    <3>2. <<e>> \in Catalog
      BY <2>1 DEF Catalog
    <3> QED BY <1>1, <2>1, <3>1, <3>2, AppendedRow
  <2>3. changes' \in 0 .. MaxChanges /\ mishaps' \in 0 .. MaxMishaps
    BY <1>1, <1>2, CountTypes DEF Commit, CommitAnew
  <2>4. lhh_arc_refresh(disk') /\ job' = job
    BY <1>2 DEF Commit, CommitAnew
  <2> QED BY <1>1, <2>2, <2>3, <2>4, ArchiveTypes
<1>3. ASSUME NEW n \in Names, Delete(n) PROVE TypeOK'
  <2>1. disk' \in Catalog
    BY <1>1, <1>3, RewriteTakesAll DEF Delete
  <2>2. changes' \in 0 .. MaxChanges
    BY <1>3, CountTypes DEF Delete
  <2>3. lhh_arc_refresh(disk') /\ job' = job /\ mishaps' = mishaps
    BY <1>3 DEF Delete
  <2> QED BY <1>1, <2>1, <2>2, <2>3, ArchiveTypes
<1>4. ASSUME NEW n \in Names, NEW k \in 0 .. Len(disk), DeleteUnbuilt(n, k) PROVE TypeOK'
  <2>1. disk' \in Catalog /\ k \in Nat /\ k < Len(disk')
    BY <1>1, <1>4, RewriteTypes DEF DeleteUnbuilt
  <2>2. SubSeq(disk', 1, k) \in Catalog
    <3>1. Len(disk') \in Nat
      BY <2>1, CatalogRows
    <3> QED BY <2>1, <3>1, ShorterType
  <2>3. changes' \in 0 .. MaxChanges /\ mishaps' \in 0 .. MaxMishaps
    BY <1>4, CountTypes DEF DeleteUnbuilt
  <2>4. RebuiltInPlace(SubSeq(disk', 1, k)) /\ job' = job
    BY <1>4 DEF DeleteUnbuilt
  <2> QED BY <1>1, <2>1, <2>2, <2>3, <2>4, ArchiveTypes
<1>5. ASSUME NEW n \in Names, NEW k \in 0 .. Len(disk), DeleteCut(n, k) PROVE TypeOK'
  <2>1. disk' \in Catalog
    BY <1>1, <1>5, RewriteTypes DEF DeleteCut
  <2>2. changes' \in 0 .. MaxChanges /\ mishaps' \in 0 .. MaxMishaps
    BY <1>5, CountTypes DEF DeleteCut
  <2>3. lhh_arc_refresh(disk') /\ job' = job
    BY <1>5 DEF DeleteCut
  <2> QED BY <1>1, <2>1, <2>2, <2>3, ArchiveTypes
<1>6. ASSUME NEW n \in Names, DeleteUnopened(n) PROVE TypeOK'
  <2>1. disk' \in Catalog
    BY <1>1, <1>6, RewriteTakesAll DEF DeleteUnopened
  <2>2. changes' \in 0 .. MaxChanges /\ mishaps' \in 0 .. MaxMishaps
    BY <1>6, CountTypes DEF DeleteUnopened
  <2>3. arc' \in ArcStates /\ UNCHANGED <<cat, locks, scans>> /\ job' = job
    BY <1>6 DEF DeleteUnopened, ArcStates
  <2> QED BY <1>1, <2>1, <2>2, <2>3, ArchiveTypes
<1> QED BY <1>2, <1>3, <1>4, <1>5, <1>6 DEF ChangePacket

LEMMA StartTypes ==
    ASSUME TypeOK, NEW from \in Names, NEW to \in Names, StartRename(from, to)
    PROVE  TypeOK'
<1> DEFINE s == IF arc = "open" /\ cat = disk THEN disk ELSE <<>>
           t == IF IsDirectory(cat, lh_arc_lock(cat, from)) THEN lhh_rename_collect(cat, from, to)
                ELSE {<<from, to>>}
<1>1. s \in Catalog
  BY TypesIn DEF Catalog
<1>2. t \in SUBSET (Names \X Names)
  BY TypesIn, RenamesType
<1> HIDE DEF s, t
<1>3. job' = [NoJob EXCEPT !.on = TRUE, !.from = from, !.to = to, !.start = s, !.todo = t]
  BY DEF StartRename, s, t
<1>4. job' \in JobType
  BY <1>1, <1>2, <1>3, EmptyTypes DEF JobType
<1>5. changes' \in 0 .. MaxChanges
  BY CountTypes DEF StartRename
<1>6. UNCHANGED <<disk, arc, cat, locks, scans, mishaps>>
  BY DEF StartRename
<1> QED BY <1>4, <1>5, <1>6, TypesIn DEF TypeOK, LockType, ScanType, JobType, ArcStates

(* What a step of the rename does to its bookkeeping.                      *)
LEMMA JobTypes ==
    ASSUME TypeOK, NEW p \in job.todo
    PROVE  /\ p[1] \in Names /\ p[2] \in Names
           /\ Without(p) \in JobType /\ Unlucky(p) \in JobType
           /\ [Unlucky(p) EXCEPT !.moved = TRUE] \in JobType
<1>1. job \in JobType
  BY TypesIn
<1>2. p[1] \in Names /\ p[2] \in Names
  BY <1>1 DEF JobType
<1>3. Without(p) \in JobType
  BY <1>1 DEF Without, JobType
<1>4. Unlucky(p) \in JobType
  BY <1>2, <1>3 DEF Unlucky, JobType
<1> QED BY <1>2, <1>3, <1>4 DEF JobType

(* What a step that adds again adds, and what it drops.                    *)
LEMMA ReaddsFacts ==
    ASSUME TypeOK, NEW p \in job.todo, NEW kept \in Catalog, NEW listed, Readds(p, kept, listed)
    PROVE  /\ disk' \in Catalog /\ job' \in JobType
           /\ \E e \in Entry : e.name = p[2] /\ disk' = Append(kept, e)
           /\ job'.on = job.on /\ job'.from = job.from /\ job'.to = job.to
           /\ job'.start = job.start /\ job'.todo = job.todo \ {p}
           /\ job'.dropped = job.dropped \cup (NamesOf(disk) \ (NamesOf(kept) \cup {p[1]}))
           /\ \/ job'.unlucky = job.unlucky \cup {p[1]}
              \/ /\ job'.unlucky = job.unlucky
                 /\ disk' = Append(kept, Readded(p[2], DataOf(disk, p[1])))
<1>1. /\ disk \in Catalog /\ cat \in Catalog /\ job \in JobType
      /\ p[1] \in Names /\ p[2] \in Names
  BY TypesIn, JobTypes
<1>2. PICK data \in DataRead(p[1]) :
        /\ disk' = Append(kept, Readded(p[2], data))
        /\ job' = [IF data = DataOf(disk, p[1]) THEN Without(p) ELSE Unlucky(p) EXCEPT
                      !.moved = TRUE,
                      !.dropped = @ \cup (NamesOf(disk) \ (NamesOf(kept) \cup {p[1]}))]
  BY DEF Readds
<1>3. data \in Seq(Chunks)
  <2>1. DataOf(cat, p[1]) \in Seq(Chunks) /\ <<>> \in Seq(Chunks)
    BY <1>1, DataType
  <2>2. \A i \in 1 .. Len(disk) : disk[i].data \in Seq(Chunks)
    BY <1>1, CatalogRows DEF Entry
  <2> QED BY <2>1, <2>2 DEF DataRead
<1> DEFINE e == Readded(p[2], data)
           drop == NamesOf(disk) \ (NamesOf(kept) \cup {p[1]})
<1>4. e \in Entry /\ e.name = p[2]
  BY <1>1, <1>3, ReaddedType
<1>5. disk' \in Catalog
  BY <1>2, <1>4, AppendedRow
<1>6. drop \in SUBSET Names
  BY <1>1, CatalogRows DEF NamesOf
<1> HIDE DEF drop, e
<1>7. /\ Without(p) \in JobType /\ Without(p).on = job.on /\ Without(p).from = job.from
      /\ Without(p).to = job.to /\ Without(p).start = job.start
      /\ Without(p).todo = job.todo \ {p} /\ Without(p).dropped = job.dropped
      /\ Without(p).unlucky = job.unlucky
  BY <1>1, JobTypes DEF Without, JobType
<1>8. /\ Unlucky(p) \in JobType /\ Unlucky(p).on = job.on /\ Unlucky(p).from = job.from
      /\ Unlucky(p).to = job.to /\ Unlucky(p).start = job.start
      /\ Unlucky(p).todo = job.todo \ {p} /\ Unlucky(p).dropped = job.dropped
      /\ Unlucky(p).unlucky = job.unlucky \cup {p[1]}
  BY <1>7, JobTypes DEF Unlucky, JobType
<1>9. ASSUME NEW j \in JobType,
             job' = [j EXCEPT !.moved = TRUE, !.dropped = @ \cup drop]
      PROVE  /\ job' \in JobType /\ job'.on = j.on /\ job'.from = j.from /\ job'.to = j.to
             /\ job'.start = j.start /\ job'.todo = j.todo /\ job'.unlucky = j.unlucky
             /\ job'.dropped = j.dropped \cup drop
  BY <1>6, <1>9 DEF JobType
<1>10. CASE data = DataOf(disk, p[1])
  <2>1. job' = [Without(p) EXCEPT !.moved = TRUE, !.dropped = @ \cup drop]
    BY <1>2, <1>10 DEF drop
  <2> QED BY <1>2, <1>4, <1>5, <1>7, <1>9, <1>10, <2>1 DEF drop, e
<1>11. CASE data # DataOf(disk, p[1])
  <2>1. job' = [Unlucky(p) EXCEPT !.moved = TRUE, !.dropped = @ \cup drop]
    BY <1>2, <1>11 DEF drop
  <2> QED BY <1>2, <1>4, <1>5, <1>8, <1>9, <2>1 DEF drop, e
<1> QED BY <1>10, <1>11

(* What the archive keeps in such a step, and what the catalog shows.      *)
LEMMA AddSteps ==
    ASSUME TypeOK, NEW p \in job.todo, AddStep(p)
    PROVE  \E k \in 0 .. Len(disk), listed \in Catalog :
              Readds(p, lh_archive_rewrite(SubSeq(disk, 1, k), p[1]), listed)
<1> DEFINE kept == lh_archive_rewrite(disk, p[1])
<1>1. disk \in Catalog /\ Len(disk) \in Nat /\ kept \in Catalog /\ Len(kept) \in Nat
  BY TypesIn, RewriteTakesAll, CatalogRows
<1>2. SubSeq(disk, 1, Len(disk)) = disk /\ SubSeq(disk, 1, 0) = <<>>
  BY <1>1 DEF Catalog
<1>3. lh_archive_rewrite(<<>>, p[1]) = <<>>
  <2>1. lh_archive_rewrite(<<>>, p[1]) \in Catalog /\ <<>> \in Catalog
    BY RewriteTakesAll, EmptyCatalog
  <2>2. Kept(<<>>, p[1]) = {}
    BY DEF Kept
  <2>3. Len(lh_archive_rewrite(<<>>, p[1])) = 0
    BY <2>1, <2>2, RewriteRows, FS_EmptySet
  <2> QED BY <2>1, <2>3 DEF Catalog
<1>4. 0 \in 0 .. Len(disk) /\ Len(disk) \in 0 .. Len(disk)
  BY <1>1
<1>5. CASE RenameOne(p)
  BY <1>1, <1>2, <1>4, <1>5 DEF RenameOne
<1>6. CASE RenameAnew(p)
  BY <1>1, <1>2, <1>3, <1>4, <1>6 DEF RenameAnew
<1>7. ASSUME NEW k \in 0 .. Len(disk), RenameCut(p, k)
      PROVE  Readds(p, lh_archive_rewrite(SubSeq(disk, 1, k), p[1]),
                    lh_archive_rewrite(SubSeq(disk, 1, k), p[1]))
  BY <1>7 DEF RenameCut
<1>8. ASSUME NEW k \in 0 .. Len(disk), RenameUnlisted(p, k)
      PROVE  SubSeq(kept, 1, k) \in Catalog /\ Readds(p, kept, SubSeq(kept, 1, k))
  <2>1. k < Len(kept) /\ Readds(p, kept, SubSeq(kept, 1, k))
    BY <1>8 DEF RenameUnlisted
  <2>2. k \in Nat
    BY <1>1
  <2> HIDE DEF kept
  <2> QED BY <1>1, <2>1, <2>2, ShorterType
<1>9. \A k \in 0 .. Len(disk) : lh_archive_rewrite(SubSeq(disk, 1, k), p[1]) \in Catalog
  BY <1>1, RewriteTypes
<1> HIDE DEF kept
<1> QED BY <1>2, <1>4, <1>5, <1>6, <1>7, <1>8, <1>9 DEF AddStep, kept

LEMMA RenameStepTypes ==
    ASSUME TypeOK, NEW p \in job.todo, RenameStep(p)
    PROVE  TypeOK'
<1> DEFINE kept == lh_archive_rewrite(disk, p[1])
<1>1. /\ disk \in Catalog /\ cat \in Catalog /\ arc \in ArcStates
      /\ changes \in 0 .. MaxChanges /\ mishaps \in 0 .. MaxMishaps /\ kept \in Catalog
  BY TypesIn, RewriteTakesAll
<1>2. CASE AddStep(p)
  <2>1. PICK k \in 0 .. Len(disk), listed \in Catalog :
          Readds(p, lh_archive_rewrite(SubSeq(disk, 1, k), p[1]), listed)
    BY <1>2, AddSteps
  <2>2. lh_archive_rewrite(SubSeq(disk, 1, k), p[1]) \in Catalog
    BY <1>1, RewriteTypes
  <2>3. disk' \in Catalog /\ job' \in JobType /\ RebuiltInPlace(listed) /\ changes' = changes
    BY <2>1, <2>2, ReaddsFacts DEF Readds
  <2>4. mishaps' \in 0 .. MaxMishaps
    BY <1>1, <1>2, CountTypes DEF AddStep, RenameOne, RenameAnew, RenameCut, RenameUnlisted
  <2> QED BY <1>1, <2>3, <2>4, ArchiveTypes
<1>3. CASE RenameUnread(p)
  <2>1. DirEntry(p[2]) \in Entry
    BY JobTypes, DirEntryType
  <2>2. /\ disk' = Append(kept, DirEntry(p[2]))
        /\ \/ RebuiltInPlace(kept)
           \/ arc' \in ArcStates /\ UNCHANGED <<cat, locks, scans>>
    BY <1>1, <1>3 DEF RenameUnread
  <2>3. disk' \in Catalog
    BY <1>1, <2>1, <2>2, AppendedRow
  <2>4. job' \in JobType /\ changes' = changes /\ mishaps' \in 0 .. MaxMishaps
    BY <1>3, JobTypes, CountTypes DEF RenameUnread
  <2> HIDE DEF kept
  <2> QED BY <1>1, <2>2, <2>3, <2>4, ArchiveTypes
<1>4. CASE RenameUndeleted(p)
  <2>1. disk' = disk /\ RebuiltInPlace(disk) /\ job' \in JobType
        /\ changes' = changes /\ mishaps' \in 0 .. MaxMishaps
    BY <1>4, JobTypes, CountTypes DEF RenameUndeleted
  <2> QED BY <1>1, <2>1, ArchiveTypes
<1>5. ASSUME NEW k \in 0 .. Len(disk), RenameLost(p, k) PROVE TypeOK'
  <2>1. disk' = kept /\ k <= Len(disk') /\ RebuiltInPlace(SubSeq(disk', 1, k))
    BY <1>5 DEF RenameLost
  <2>2. job' \in JobType /\ changes' = changes /\ mishaps' \in 0 .. MaxMishaps
    BY <1>5, JobTypes, CountTypes DEF RenameLost
  <2>3. k \in Nat
    BY <1>1, CatalogRows
  <2> HIDE DEF kept
  <2>4. SubSeq(disk', 1, k) \in Catalog
    BY <1>1, <2>1, <2>3, ShorterType
  <2> QED BY <1>1, <2>1, <2>2, <2>4, ArchiveTypes
<1>6. CASE RenameUnopened(p)
  <2>1. disk' = kept /\ arc' \in ArcStates /\ UNCHANGED <<cat, locks, scans, changes>>
    BY <1>6 DEF RenameUnopened, ArcStates
  <2>2. job' \in JobType /\ mishaps' \in 0 .. MaxMishaps
    BY <1>6, JobTypes, CountTypes DEF RenameUnopened
  <2> QED BY <1>1, <2>1, <2>2, ArchiveTypes
<1>7. CASE RenameDenied(p)
  <2>1. UNCHANGED <<disk, arc, cat, locks, scans, changes, mishaps>> /\ job' \in JobType
    BY <1>7, JobTypes DEF RenameDenied
  <2> QED BY <1>1, <2>1, ArchiveTypes
<1> QED BY <1>2, <1>3, <1>4, <1>5, <1>6, <1>7 DEF RenameStep

LEMMA EndTypes ==
    ASSUME TypeOK, EndRename
    PROVE  TypeOK'
<1>1. job' \in JobType /\ UNCHANGED <<disk, changes, mishaps>>
  BY EmptyTypes DEF EndRename
<1>2. \/ lhh_arc_refresh(disk) \/ RefreshFails
      \/ arc' \in ArcStates /\ UNCHANGED <<cat, locks, scans>>
  BY TypesIn DEF EndRename
<1> QED BY <1>1, <1>2, TypesIn, ArchiveTypes

LEMMA TypeStep == TypeOK /\ [Next]_vars => TypeOK'
<1> SUFFICES ASSUME TypeOK, [Next]_vars PROVE TypeOK'
  OBVIOUS
<1>1. CASE Next
  BY <1>1, NextSteps, LockPacketTypes, ChangeTypes, StartTypes, RenameStepTypes, EndTypes
<1>2. CASE UNCHANGED vars
  BY <1>2 DEF vars, TypeOK
<1> QED BY <1>1, <1>2

(* Every packet keeps rows, cursors, listings and the rename's lists what  *)
(* the handler takes them for: a child that is shown is a name, and so is  *)
(* every icon that is queued (lh_child_leaf_from_entry cuts a name after a *)
(* component).                                                             *)
THEOREM Typed == Spec => []TypeOK
<1>1. Init => TypeOK
  BY InitTypes
<1>2. TypeOK /\ [Next]_vars => TypeOK'
  BY TypeStep
<1> QED BY <1>1, <1>2, PTL DEF Spec

-----------------------------------------------------------------------------
(* The listings, one lock at a time.  What a listing has shown so far is   *)
(* what stands in the rows up to its cursor; that is why the invariants of *)
(* a listing that ends can be read off the rows behind it.                 *)

Shows(c, d, k) == {i \in RowsAfter(c, d, 0) : i <= k}
LeavesTo(c, d, k) == {Leaf(c, d, i) : i \in Shows(c, d, k)}
IconsTo(c, d, k) == {IconAfter(c, d, i) : i \in Shows(c, d, k)} \ {NoName}

(* EXAMINE_NEXT: the icon that is queued is the last child's.              *)
SteadyNext(c, lock, s) ==
    /\ IsDirectory(c, lock.lh)
    /\ s.names = LeavesTo(c, lock.at, lock.cursor)
    /\ s.icons \cup ({lock.pending} \ {NoName}) = IconsTo(c, lock.at, lock.cursor)
    /\ lock.pending # NoName => s.last = lock.pending /\ lock.pending \notin s.icons
SteadyAll(c, lock, s) ==
    /\ IsDirectory(c, lock.lh) /\ ~lock.aborted
    /\ s.names = LeavesTo(c, lock.at, s.key) /\ s.icons = {}
SteadyEnd(c, lock, s) ==
    /\ s.names = Children(c, lock.at)
    /\ s.icons \subseteq Icons(c, lock.at)
    /\ s.by = "next" => s.icons = Icons(c, lock.at)
Steady(c, lock, s) ==
    /\ ~s.twice /\ ~s.stray
    /\ s.ended => SteadyEnd(c, lock, s)
    /\ ~s.ended /\ s.by = "next" => SteadyNext(c, lock, s)
    /\ ~s.ended /\ s.by = "all" => SteadyAll(c, lock, s)

(* What was there all along is shown already or still ahead.               *)
LeavesAfter(c, d, k) == {Leaf(c, d, i) : i \in RowsAfter(c, d, k)}
Whole(c, lock, s) ==
    /\ s.ended => s.held \subseteq s.names
    /\ ~s.ended => /\ IsDirectory(c, lock.lh)
                   /\ s.held \ s.names \subseteq LeavesAfter(c, lock.at, lock.cursor)

Sound(c, lock, s) ==
    /\ s.by = "none" \/ ~lock.open => s = NoScan
    /\ s.steady => Steady(c, lock, s)
    /\ s.by = "next" /\ s.whole => Whole(c, lock, s)

ScanInv == \A l \in LockIds : Sound(cat, locks[l], scans[l])

LEMMA ShowsAll ==
    ASSUME NEW c \in Catalog, NEW d \in Dirs, NEW k \in Nat, RowsAfter(c, d, k) = {}
    PROVE  LeavesTo(c, d, k) = Children(c, d) /\ IconsTo(c, d, k) = Icons(c, d)
<1>1. RowsAfter(c, d, 0) \in SUBSET (1 .. Len(c)) /\ Len(c) \in Nat
  BY RowsFacts, CatalogRows
<1>2. {i \in RowsAfter(c, d, 0) : i > k} = {}
  BY RowsFacts
<1>3. Shows(c, d, k) = RowsAfter(c, d, 0)
  BY <1>1, <1>2 DEF Shows
<1> QED BY <1>3, FirstShows DEF LeavesTo, IconsTo, Icons

LEMMA ShowsNothing ==
    ASSUME NEW c \in Catalog, NEW d \in Dirs
    PROVE  /\ LeavesTo(c, d, 0) = {} /\ IconsTo(c, d, 0) = {}
           /\ LeavesAfter(c, d, 0) = Children(c, d)
<1>1. RowsAfter(c, d, 0) \in SUBSET (1 .. Len(c)) /\ Len(c) \in Nat
  BY RowsFacts, CatalogRows
<1>2. Shows(c, d, 0) = {}
  BY <1>1 DEF Shows
<1> QED BY <1>2, FirstShows DEF LeavesTo, IconsTo, LeavesAfter

(* Behind a listing that has begun again everything is ahead.              *)
LEMMA SoundAgain ==
    ASSUME NEW c \in Catalog, NEW lock \in LockType, NEW s \in ScanType, Sound(cat, lock, s)
    PROVE  Sound(c, Rebound(c, lock),
                 Disturbed(c, s, lock.at, IsDirectory(c, lh_arc_lock(c, lock.at))))
<1> DEFINE w == IsDirectory(c, lh_arc_lock(c, lock.at))
           s2 == Disturbed(c, s, lock.at, w)
           lock2 == Rebound(c, lock)
<1>1. CASE s.ended \/ ~lock.open \/ s.by = "none"
  <2>1. s2 = NoScan
    BY <1>1 DEF Disturbed, Sound, NoScan
  <2> QED BY <2>1 DEF Sound, NoScan
<1>2. CASE ~s.ended /\ lock.open /\ s.by # "none"
  <2>1. s2 = [s EXCEPT !.held = @ \cap Children(c, lock.at), !.steady = FALSE, !.whole = w]
    BY <1>2 DEF Disturbed
  <2>2. /\ s2.by # "none" /\ ~s2.steady /\ ~s2.ended /\ s2.whole = w
        /\ s2.held \subseteq Children(c, lock.at)
    BY <1>2, <2>1 DEF ScanType
  <2>3. /\ lock2.open /\ lock2.at = lock.at /\ lock2.cursor = 0
        /\ lock2.lh = lh_arc_lock(c, lock.at)
    BY <1>2 DEF Rebound, LockType
  <2>4. lock.at \in Dirs
    BY DEF LockType, Dirs
  <2>5. LeavesAfter(c, lock.at, 0) = Children(c, lock.at)
    BY <2>4, ShowsNothing
  <2> HIDE DEF s2, lock2
  <2>6. w => Whole(c, lock2, s2)
    BY <2>2, <2>3, <2>5 DEF Whole, w
  <2> HIDE DEF w
  <2>7. Sound(c, lock2, s2)
    BY <2>2, <2>3, <2>6 DEF Sound
  <2> QED BY <2>7 DEF w, s2, lock2
<1> QED BY <1>1, <1>2

(* Of a listing that is disturbed without beginning again little is said.  *)
LEMMA BrokenSound ==
    ASSUME NEW c, NEW d, NEW lock \in LockType, NEW s \in ScanType, Sound(c, lock, s),
           NEW c2, NEW lock2, lock2.open = lock.open
    PROVE  Sound(c2, lock2, Disturbed(d, s, lock.at, FALSE))
<1> DEFINE s2 == Disturbed(d, s, lock.at, FALSE)
<1>1. CASE s.ended
  <2>1. s2 = NoScan
    BY <1>1 DEF Disturbed
  <2> HIDE DEF s2
  <2>2. Sound(c2, lock2, s2)
    BY <2>1 DEF Sound, NoScan
  <2> QED BY <2>2 DEF s2
<1>2. CASE ~s.ended
  <2>1. s2 = [s EXCEPT !.held = @ \cap Children(d, lock.at), !.steady = FALSE, !.whole = FALSE]
    BY <1>2 DEF Disturbed
  <2>2. ~s2.steady /\ ~s2.whole /\ s2.by = s.by
    BY <2>1 DEF ScanType
  <2>3. s.by # "none" /\ lock.open
    BY <1>2 DEF Sound, NoScan
  <2> HIDE DEF s2
  <2>4. Sound(c2, lock2, s2)
    BY <2>2, <2>3 DEF Sound
  <2> QED BY <2>4 DEF s2
<1> QED BY <1>1, <1>2

LEMMA RefreshSound ==
    ASSUME TypeOK, ScanInv, NEW c \in Catalog,
           lhh_arc_refresh(c) \/ RebuiltInPlace(c) \/ RefreshFails
    PROVE  ScanInv'
<1>1. SUFFICES ASSUME NEW l \in LockIds PROVE Sound(cat', locks'[l], scans'[l])
  BY DEF ScanInv
<1>2. locks[l] \in LockType /\ scans[l] \in ScanType /\ Sound(cat, locks[l], scans[l])
  BY TypesIn DEF ScanInv
<1>3. CASE lhh_arc_refresh(c)
  <2>1. /\ cat' = c /\ locks'[l] = Rebound(c, locks[l])
        /\ scans'[l] = Disturbed(c, scans[l], locks[l].at,
                                 IsDirectory(c, lh_arc_lock(c, locks[l].at)))
    BY <1>3 DEF lhh_arc_refresh
  <2> QED BY <1>2, <2>1, SoundAgain
<1>4. CASE RebuiltInPlace(c)
  <2>1. /\ cat' = c /\ locks'[l] = locks[l]
        /\ scans'[l] = IF c = cat THEN scans[l] ELSE Disturbed(c, scans[l], locks[l].at, FALSE)
    BY <1>4 DEF RebuiltInPlace
  <2>2. CASE c = cat
    BY <1>2, <2>1, <2>2
  <2>3. CASE c # cat
    BY <1>2, <2>1, <2>3, BrokenSound
  <2> QED BY <2>2, <2>3
<1>5. CASE RefreshFails
  <2>1. /\ locks'[l] = [Rebound(<<>>, locks[l]) EXCEPT !.lh = ZERO] /\ cat' = <<>>
        /\ scans'[l] = Disturbed(<<>>, scans[l], locks[l].at, FALSE)
    BY <1>5 DEF RefreshFails
  <2>2. Rebound(<<>>, locks[l]) \in LockType
    BY <1>2, RefreshTypes, EmptyCatalog
  <2>3. Rebound(<<>>, locks[l]).open = locks[l].open
    BY <1>2 DEF Rebound, LockType
  <2>4. locks'[l].open = locks[l].open
    BY <2>1, <2>2, <2>3 DEF LockType
  <2>5. Sound(<<>>, locks'[l], Disturbed(<<>>, scans[l], locks[l].at, FALSE))
    BY <1>2, <2>4, BrokenSound
  <2> QED BY <2>1, <2>5
<1> QED BY <1>3, <1>4, <1>5

(* One packet of a lock leaves every other lock and its listing alone.     *)
LEMMA OtherLocksSound ==
    ASSUME TypeOK, ScanInv, NEW l \in LockIds, LockPacket(l), Sound(cat, locks'[l], scans'[l])
    PROVE  ScanInv'
<1>1. LockStep(l)
  BY LockPacketTypes
<1>2. ASSUME NEW k \in LockIds PROVE Sound(cat', locks'[k], scans'[k])
  <2>1. k # l => locks'[k] = locks[k] /\ scans'[k] = scans[k]
    BY <1>1, <1>2, TypesIn DEF LockStep
  <2>2. cat' = cat
    BY <1>1 DEF LockStep
  <2> QED BY <1>2, <2>1, <2>2 DEF ScanInv
<1> QED BY <1>2 DEF ScanInv

LEMMA LocateSound ==
    ASSUME TypeOK, ScanInv, NEW l \in LockIds, NEW n \in Dirs, Locate(l, n)
    PROVE  Sound(cat, locks'[l], scans'[l])
<1>1. Sound(cat, locks[l], scans[l]) /\ ~locks[l].open
  BY DEF ScanInv, Locate
<1>2. scans'[l] = NoScan
  BY <1>1 DEF Sound, Locate
<1> QED BY <1>2 DEF Sound, NoScan

LEMMA ClosedSound ==
    ASSUME TypeOK, ScanInv, NEW l \in LockIds, Free(l) \/ ExamineAllEnd(l)
    PROVE  Sound(cat, locks'[l], scans'[l])
<1>1. scans'[l] = NoScan
  BY TypesIn DEF Free, ExamineAllEnd
<1> QED BY <1>1 DEF Sound, NoScan

LEMMA ExamineObjectSound ==
    ASSUME TypeOK, ScanInv, NEW l \in LockIds, ExamineObject(l)
    PROVE  Sound(cat, locks'[l], scans'[l])
<1> DEFINE lock == Examined(locks[l])
           atFirst == lock.cursor = 0 /\ IsDirectory(cat, lock.lh)
           s == [NoScan EXCEPT !.by = "next", !.ended = FALSE,
                               !.held = Children(cat, lock.at),
                               !.steady = atFirst /\ lock.pending = NoName,
                               !.whole = atFirst]
<1>1. locks[l] \in LockType /\ locks[l].open /\ cat \in Catalog
  BY TypesIn DEF ExamineObject
<1>2. lock \in LockType /\ lock.open
  BY <1>1 DEF Examined, LockType
<1>3. locks'[l] = lock /\ scans'[l] = s
  BY TypesIn DEF ExamineObject
<1> HIDE DEF lock
<1>4. /\ s.by = "next" /\ ~s.ended /\ s.held = Children(cat, lock.at)
      /\ (s.steady <=> atFirst /\ lock.pending = NoName) /\ (s.whole <=> atFirst)
      /\ s.names = {} /\ s.icons = {} /\ ~s.twice /\ ~s.stray
  BY DEF NoScan
<1>5. lock.at \in Dirs
  BY <1>2 DEF LockType, Dirs
<1>6. /\ LeavesTo(cat, lock.at, 0) = {} /\ IconsTo(cat, lock.at, 0) = {}
      /\ LeavesAfter(cat, lock.at, 0) = Children(cat, lock.at)
  BY <1>1, <1>5, ShowsNothing
<1> HIDE DEF s
<1>7. s.steady => Steady(cat, lock, s)
  BY <1>4, <1>6 DEF Steady, SteadyNext
<1>8. s.whole => Whole(cat, lock, s)
  BY <1>4, <1>6 DEF Whole
<1>9. Sound(cat, lock, s)
  BY <1>2, <1>4, <1>7, <1>8 DEF Sound
<1> QED BY <1>3, <1>9

LEMMA BeginAllSound ==
    ASSUME TypeOK, ScanInv, NEW l \in LockIds, BeginAll(l)
    PROVE  Sound(cat, locks'[l], scans'[l])
<1> DEFINE lock == locks[l]
           s == [NoScan EXCEPT !.by = "all", !.ended = FALSE,
                               !.steady = IsDirectory(cat, lock.lh) /\ ~lock.aborted]
<1>1. lock \in LockType /\ lock.open /\ cat \in Catalog
  BY TypesIn DEF BeginAll
<1>2. locks'[l] = lock /\ scans'[l] = s
  BY TypesIn DEF BeginAll
<1> HIDE DEF lock
<1>3. /\ s.by = "all" /\ ~s.ended /\ s.key = 0 /\ s.names = {} /\ s.icons = {}
      /\ ~s.twice /\ ~s.stray
      /\ (s.steady <=> IsDirectory(cat, lock.lh) /\ ~lock.aborted)
  BY DEF NoScan
<1>4. LeavesTo(cat, lock.at, 0) = {}
  <2>1. lock.at \in Dirs
    BY <1>1 DEF LockType, Dirs
  <2> QED BY <1>1, <2>1, ShowsNothing
<1> HIDE DEF s
<1>5. s.steady => Steady(cat, lock, s)
  BY <1>3, <1>4 DEF Steady, SteadyAll
<1>6. Sound(cat, lock, s)
  BY <1>1, <1>3, <1>5 DEF Sound
<1> QED BY <1>2, <1>6

(* A listing of what is no directory, or that has been aborted, was not    *)
(* steady; the others show the rows behind the key.                        *)
LEMMA AllShownSound ==
    ASSUME NEW c \in Catalog, NEW lock \in LockType, NEW s \in ScanType, NEW k \in Nat,
           s.by = "all", ~s.ended, s.steady, Steady(c, lock, s)
    PROVE  Steady(c, lock, AllShown(c, lock, s, k))
<1> DEFINE d == lock.at
           rows == RowsAfter(c, d, s.key)
           now == {i \in rows : i <= k}
           left == rows \ now
           leaves == {Leaf(c, d, i) : i \in now}
           t == AllShown(c, lock, s, k)
<1>1. d \in Dirs /\ s.key \in Nat
  BY DEF LockType, ScanType, Dirs
<1>2. ~s.twice /\ ~s.stray /\ SteadyAll(c, lock, s)
  BY DEF Steady
<1>3. /\ rows = {i \in RowsAfter(c, d, 0) : i > s.key}
      /\ RowsAfter(c, d, 0) \in SUBSET (1 .. Len(c)) /\ Len(c) \in Nat
      /\ \A i, j \in RowsAfter(c, d, 0) : Leaf(c, d, i) = Leaf(c, d, j) => i = j
  BY <1>1, RowsFacts, CatalogRows
<1>4. leaves \cap LeavesTo(c, d, s.key) = {}
  <2>1. SUFFICES ASSUME NEW i \in now, NEW j \in Shows(c, d, s.key), Leaf(c, d, i) = Leaf(c, d, j)
                 PROVE  FALSE
    BY DEF LeavesTo
  <2>2. i \in RowsAfter(c, d, 0) /\ i > s.key /\ j \in RowsAfter(c, d, 0) /\ j <= s.key
    BY <1>3 DEF Shows
  <2>3. i = j
    BY <1>3, <2>1, <2>2
  <2> QED BY <1>1, <1>3, <2>2, <2>3
<1>5. KeyBehind(c, left) \in Nat
      /\ Shows(c, d, KeyBehind(c, left)) = Shows(c, d, s.key) \cup now
  <2>1. left = RowsAfter(c, d, s.key) \ {i \in RowsAfter(c, d, s.key) : i <= k}
    OBVIOUS
  <2> HIDE DEF left, d
  <2> QED BY <1>1, <2>1, NextKey DEF Shows
<1>6. LeavesTo(c, d, KeyBehind(c, left)) = LeavesTo(c, d, s.key) \cup leaves
  BY <1>5 DEF LeavesTo
<1> HIDE DEF leaves, now, left, rows, d
<1>7. /\ t.by = "all" /\ (t.ended <=> left = {}) /\ t.key = KeyBehind(c, left)
      /\ t.names = s.names \cup leaves /\ t.icons = s.icons
      /\ (t.twice <=> s.twice \/ leaves \cap s.names # {}) /\ t.stray = s.stray
  BY DEF AllShown, Shown, ScanType, leaves, now, left, rows, d
<1> HIDE DEF t
<1>8. t.names = LeavesTo(c, d, KeyBehind(c, left)) /\ t.icons = {} /\ ~t.twice /\ ~t.stray
  BY <1>2, <1>4, <1>6, <1>7 DEF SteadyAll, d
<1>9. left = {} => LeavesTo(c, d, KeyBehind(c, left)) = Children(c, d)
  <2>1. left = {} => RowsAfter(c, d, Len(c)) = {} /\ KeyBehind(c, left) = Len(c)
    BY <1>3 DEF RowsAfter, KeyBehind
  <2> QED BY <1>1, <1>3, <2>1, ShowsAll
<1>10. Steady(c, lock, t)
  BY <1>2, <1>7, <1>8, <1>9 DEF Steady, SteadyAll, SteadyEnd, d
<1> QED BY <1>10 DEF t

LEMMA ExamineAllSound ==
    ASSUME TypeOK, ScanInv, NEW l \in LockIds, NEW k \in Nat, ExamineAll(l, k)
    PROVE  Sound(cat, locks'[l], scans'[l])
<1> DEFINE lock == locks[l]
           s == scans[l]
<1>1. lock \in LockType /\ s \in ScanType /\ cat \in Catalog /\ Sound(cat, lock, s)
  BY TypesIn DEF ScanInv
<1>2. s.by = "all" /\ ~s.ended
  BY DEF ExamineAll, Scanning
<1>3. lock.open
  BY <1>1, <1>2 DEF Sound, NoScan
<1>4. s.steady => IsDirectory(cat, lock.lh) /\ ~lock.aborted
  BY <1>1, <1>2 DEF Sound, Steady, SteadyAll
<1>5. CASE ~IsDirectory(cat, lock.lh) \/ lock.aborted
  <2>1. scans'[l] = [s EXCEPT !.ended = TRUE]
    BY <1>5, TypesIn DEF ExamineAll
  <2>2. locks'[l] \in {lock, [lock EXCEPT !.aborted = FALSE]}
    BY <1>5, TypesIn DEF ExamineAll
  <2>3. locks'[l].open
    BY <1>1, <1>3, <2>2 DEF LockType
  <2>4. scans'[l].by = "all" /\ ~scans'[l].steady
    BY <1>1, <1>2, <1>4, <1>5, <2>1 DEF ScanType
  <2> QED BY <2>3, <2>4 DEF Sound
<1>6. CASE IsDirectory(cat, lock.lh) /\ ~lock.aborted
  <2>1. scans'[l] = AllShown(cat, lock, s, k) /\ locks'[l] = lock
    BY <1>6, TypesIn DEF ExamineAll, AllShown, KeyBehind
  <2>2. /\ AllShown(cat, lock, s, k).by = "all"
        /\ AllShown(cat, lock, s, k).steady = s.steady
    BY <1>1, <1>2 DEF AllShown, Shown, ScanType
  <2>3. s.steady => Steady(cat, lock, AllShown(cat, lock, s, k))
    BY <1>1, <1>2, AllShownSound DEF Sound
  <2> QED BY <1>3, <2>1, <2>2, <2>3 DEF Sound
<1> QED BY <1>5, <1>6

(* One EXAMINE_NEXT: the queued icon, the next child, the end.             *)
LEMMA IconSound ==
    ASSUME NEW c \in Catalog, NEW lock \in LockType, NEW s \in ScanType,
           Sound(c, lock, s), lock.open, s.by = "next", ~s.ended, lock.pending # NoName
    PROVE  Sound(c, [lock EXCEPT !.pending = NoName], ShownIcon(s, lock.pending))
<1> DEFINE k == [lock EXCEPT !.pending = NoName]
           t == ShownIcon(s, lock.pending)
<1>1. /\ k.open /\ k.at = lock.at /\ k.lh = lock.lh /\ k.cursor = lock.cursor
      /\ k.pending = NoName
  BY DEF LockType
<1>2. /\ t.by = "next" /\ ~t.ended /\ t.names = s.names /\ t.held = s.held
      /\ t.steady = s.steady /\ t.whole = s.whole
      /\ t.icons = s.icons \cup {lock.pending}
      /\ (t.twice <=> s.twice \/ lock.pending \in s.icons)
      /\ (t.stray <=> s.stray \/ lock.pending # s.last)
  BY DEF ShownIcon, ScanType
<1> HIDE DEF k, t
<1>3. s.steady => Steady(c, k, t)
  <2>1. SUFFICES ASSUME s.steady PROVE Steady(c, k, t)
    OBVIOUS
  <2>2. ~s.twice /\ ~s.stray /\ SteadyNext(c, lock, s)
    BY <2>1 DEF Sound, Steady
  <2>3. ~t.twice /\ ~t.stray /\ t.icons = IconsTo(c, k.at, k.cursor)
    BY <1>1, <1>2, <2>2 DEF SteadyNext
  <2>4. SteadyNext(c, k, t)
    BY <1>1, <1>2, <2>2, <2>3 DEF SteadyNext
  <2> QED BY <1>2, <2>3, <2>4 DEF Steady
<1>4. s.whole => Whole(c, k, t)
  BY <1>1, <1>2 DEF Sound, Whole
<1>5. Sound(c, k, t)
  BY <1>1, <1>2, <1>3, <1>4 DEF Sound
<1> QED BY <1>5 DEF k, t

LEMMA EndSound ==
    ASSUME NEW c \in Catalog, NEW lock \in LockType, NEW s \in ScanType,
           Sound(c, lock, s), lock.open, s.by = "next", ~s.ended, lock.pending = NoName,
           IsDirectory(c, lock.lh) => RowsAfter(c, lock.at, lock.cursor) = {}
    PROVE  Sound(c, lock, [s EXCEPT !.ended = TRUE])
<1> DEFINE t == [s EXCEPT !.ended = TRUE]
<1>1. /\ t.by = "next" /\ t.ended /\ t.names = s.names /\ t.held = s.held
      /\ t.steady = s.steady /\ t.whole = s.whole /\ t.icons = s.icons
      /\ t.twice = s.twice /\ t.stray = s.stray
  BY DEF ScanType
<1>2. lock.at \in Dirs /\ lock.cursor \in Nat
  BY DEF LockType, Dirs
<1> HIDE DEF t
<1>3. s.steady => Steady(c, lock, t)
  <2>1. SUFFICES ASSUME s.steady PROVE Steady(c, lock, t)
    OBVIOUS
  <2>2. ~s.twice /\ ~s.stray /\ SteadyNext(c, lock, s)
    BY <2>1 DEF Sound, Steady
  <2>3. RowsAfter(c, lock.at, lock.cursor) = {}
    BY <2>2 DEF SteadyNext
  <2>4. /\ LeavesTo(c, lock.at, lock.cursor) = Children(c, lock.at)
        /\ IconsTo(c, lock.at, lock.cursor) = Icons(c, lock.at)
    BY <1>2, <2>3, ShowsAll
  <2>5. s.names = Children(c, lock.at) /\ s.icons = Icons(c, lock.at)
    BY <2>2, <2>4 DEF SteadyNext
  <2> QED BY <1>1, <2>2, <2>5 DEF Steady, SteadyEnd
<1>4. s.whole => Whole(c, lock, t)
  BY <1>1 DEF Sound, Whole, LeavesAfter
<1>5. Sound(c, lock, t)
  BY <1>1, <1>3, <1>4 DEF Sound
<1> QED BY <1>5 DEF t

(* The rows up to the next child, and those behind it.                     *)
LEMMA RowsToNext ==
    ASSUME NEW c \in Catalog, NEW d \in Dirs, NEW k \in Nat, NEW i \in RowsAfter(c, d, 0),
           i > k, \A j \in RowsAfter(c, d, 0) : j < i => j <= k
    PROVE  /\ LeavesTo(c, d, i) = LeavesTo(c, d, k) \cup {Leaf(c, d, i)}
           /\ IconsTo(c, d, i) = IconsTo(c, d, k) \cup ({IconAfter(c, d, i)} \ {NoName})
           /\ Leaf(c, d, i) \notin LeavesTo(c, d, k)
           /\ IconAfter(c, d, i) # NoName => IconAfter(c, d, i) \notin IconsTo(c, d, k)
           /\ LeavesAfter(c, d, k) \subseteq LeavesAfter(c, d, i) \cup {Leaf(c, d, i)}
<1> DEFINE all == RowsAfter(c, d, 0)
<1>1. /\ all \in SUBSET (1 .. Len(c)) /\ Len(c) \in Nat
      /\ \A j, m \in all : Leaf(c, d, j) = Leaf(c, d, m) => j = m
  BY RowsFacts, CatalogRows
<1>2. /\ i \in Nat /\ RowsAfter(c, d, k) = {j \in all : j > k}
      /\ RowsAfter(c, d, i) = {j \in all : j > i}
  <2>1. i \in Nat
    BY <1>1
  <2> QED BY <2>1, RowsFacts
<1>3. Shows(c, d, i) = Shows(c, d, k) \cup {i}
  <2>1. \A j \in all : j <= i <=> j <= k \/ j = i
    BY <1>1, <1>2
  <2> QED BY <2>1 DEF Shows
<1>4. /\ LeavesTo(c, d, i) = LeavesTo(c, d, k) \cup {Leaf(c, d, i)}
      /\ IconsTo(c, d, i) = IconsTo(c, d, k) \cup ({IconAfter(c, d, i)} \ {NoName})
  BY <1>3 DEF LeavesTo, IconsTo
<1>5. i \notin Shows(c, d, k) /\ Shows(c, d, k) \subseteq all
  BY <1>1, <1>2 DEF Shows
<1>6. Leaf(c, d, i) \notin LeavesTo(c, d, k)
  BY <1>1, <1>5 DEF LeavesTo
<1>7. \A j \in all : IconAfter(c, d, j) \in {NoName, Leaf(c, d, j)}
  BY IconType
<1>8. IconAfter(c, d, i) # NoName => IconAfter(c, d, i) \notin IconsTo(c, d, k)
  <2>1. SUFFICES ASSUME IconAfter(c, d, i) # NoName, NEW j \in Shows(c, d, k),
                        IconAfter(c, d, i) = IconAfter(c, d, j)
                 PROVE  FALSE
    BY DEF IconsTo
  <2>2. j \in all /\ Leaf(c, d, j) = Leaf(c, d, i)
    BY <1>5, <1>7, <2>1
  <2> QED BY <1>1, <1>5, <2>1, <2>2
<1>9. LeavesAfter(c, d, k) \subseteq LeavesAfter(c, d, i) \cup {Leaf(c, d, i)}
  <2>1. \A j \in RowsAfter(c, d, k) : j = i \/ j \in RowsAfter(c, d, i)
    BY <1>1, <1>2
  <2> QED BY <2>1 DEF LeavesAfter
<1> QED BY <1>4, <1>6, <1>8, <1>9

LEMMA ChildSound ==
    ASSUME TypeOK, NEW lock \in LockType, NEW s \in ScanType, NEW i,
           Sound(cat, lock, s), lock.open, s.by = "next", ~s.ended, lock.pending = NoName,
           lh_fill_next_child(lock) # {}, i = FirstOf(lh_fill_next_child(lock))
    PROVE  Sound(cat, MovedTo(lock, i), ShownChild(s, Leaf(cat, lock.at, i)))
<1> DEFINE d == lock.at
           k == MovedTo(lock, i)
           t == ShownChild(s, Leaf(cat, d, i))
           icon == IconAfter(cat, d, i)
<1>1. d \in Dirs /\ lock.cursor \in Nat /\ cat \in Catalog
  BY TypesIn DEF LockType, Dirs
<1>2. /\ i \in RowsAfter(cat, d, 0) /\ i > lock.cursor
      /\ \A j \in RowsAfter(cat, d, 0) : j < i => j <= lock.cursor
      /\ icon \in {NoName, Leaf(cat, d, i)}
  BY NextChild
<1>3. /\ LeavesTo(cat, d, i) = LeavesTo(cat, d, lock.cursor) \cup {Leaf(cat, d, i)}
      /\ IconsTo(cat, d, i) = IconsTo(cat, d, lock.cursor) \cup ({icon} \ {NoName})
      /\ Leaf(cat, d, i) \notin LeavesTo(cat, d, lock.cursor)
      /\ icon # NoName => icon \notin IconsTo(cat, d, lock.cursor)
      /\ LeavesAfter(cat, d, lock.cursor) \subseteq LeavesAfter(cat, d, i) \cup {Leaf(cat, d, i)}
  <2> HIDE DEF d
  <2> QED BY <1>1, <1>2, RowsToNext
<1>4. /\ k.open /\ k.at = d /\ k.lh = lock.lh /\ k.cursor = i /\ k.pending = icon
  BY DEF MovedTo, LockType
<1>5. /\ t.by = "next" /\ ~t.ended /\ t.names = s.names \cup {Leaf(cat, d, i)}
      /\ t.held = s.held /\ t.steady = s.steady /\ t.whole = s.whole /\ t.icons = s.icons
      /\ (t.twice <=> s.twice \/ {Leaf(cat, d, i)} \cap s.names # {}) /\ t.stray = s.stray
      /\ t.last = Leaf(cat, d, i)
  BY DEF ShownChild, Shown, ScanType
<1>6. IsDirectory(cat, lock.lh)
  BY DEF lh_fill_next_child
<1> HIDE DEF k, t, icon
<1>7. s.steady => Steady(cat, k, t)
  <2>1. SUFFICES ASSUME s.steady PROVE Steady(cat, k, t)
    OBVIOUS
  <2>2. ~s.twice /\ ~s.stray /\ SteadyNext(cat, lock, s)
    BY <2>1 DEF Sound, Steady
  <2>3. s.names = LeavesTo(cat, d, lock.cursor) /\ s.icons = IconsTo(cat, d, lock.cursor)
    BY <2>2 DEF SteadyNext
  <2>4. ~t.twice /\ ~t.stray /\ t.names = LeavesTo(cat, d, i)
    BY <1>3, <1>5, <2>2, <2>3
  <2>5. t.icons \cup ({icon} \ {NoName}) = IconsTo(cat, d, i)
    BY <1>3, <1>5, <2>3
  <2>6. icon # NoName => t.last = icon /\ icon \notin t.icons
    BY <1>2, <1>3, <1>5, <2>3
  <2>7. SteadyNext(cat, k, t)
    BY <1>4, <1>6, <2>4, <2>5, <2>6 DEF SteadyNext
  <2> QED BY <1>5, <2>4, <2>7 DEF Steady
<1>8. s.whole => Whole(cat, k, t)
  <2>1. SUFFICES ASSUME s.whole PROVE Whole(cat, k, t)
    OBVIOUS
  <2>2. s.held \ s.names \subseteq LeavesAfter(cat, d, lock.cursor)
    BY <2>1 DEF Sound, Whole
  <2>3. t.held \ t.names \subseteq LeavesAfter(cat, d, i)
    BY <1>3, <1>5, <2>2
  <2> QED BY <1>4, <1>5, <1>6, <2>3 DEF Whole
<1>9. Sound(cat, k, t)
  BY <1>4, <1>5, <1>7, <1>8 DEF Sound
<1> QED BY <1>9 DEF k, t

LEMMA ExamineNextSound ==
    ASSUME TypeOK, ScanInv, NEW l \in LockIds, ExamineNext(l)
    PROVE  Sound(cat, locks'[l], scans'[l])
<1> DEFINE lock == locks[l]
           s == scans[l]
           i == FirstOf(lh_fill_next_child(lock))
<1>1. lock \in LockType /\ s \in ScanType /\ cat \in Catalog /\ Sound(cat, lock, s)
  BY TypesIn DEF ScanInv
<1>2. s.by = "next" /\ ~s.ended
  BY DEF ExamineNext, Scanning
<1>3. lock.open
  BY <1>1, <1>2 DEF Sound, NoScan
<1>4. CASE /\ lock.pending # NoName
           /\ locks' = [locks EXCEPT ![l].pending = NoName]
           /\ scans' = [scans EXCEPT ![l] = ShownIcon(@, lock.pending)]
  <2>1. locks'[l] = [lock EXCEPT !.pending = NoName] /\ scans'[l] = ShownIcon(s, lock.pending)
    BY <1>4, TypesIn
  <2> QED BY <1>1, <1>2, <1>3, <1>4, <2>1, IconSound
<1>5. CASE /\ lock.pending = NoName /\ lh_fill_next_child(lock) # {}
           /\ locks' = [locks EXCEPT ![l] = MovedTo(lock, i)]
           /\ scans' = [scans EXCEPT ![l] = ShownChild(@, Leaf(cat, lock.at, i))]
  <2>1. locks'[l] = MovedTo(lock, i) /\ scans'[l] = ShownChild(s, Leaf(cat, lock.at, i))
    BY <1>5, TypesIn
  <2> QED BY <1>1, <1>2, <1>3, <1>5, <2>1, ChildSound
<1>6. CASE /\ lock.pending = NoName /\ lh_fill_next_child(lock) = {}
           /\ scans' = [scans EXCEPT ![l].ended = TRUE]
           /\ UNCHANGED locks
  <2>1. locks'[l] = lock /\ scans'[l] = [s EXCEPT !.ended = TRUE]
    BY <1>6, TypesIn
  <2>2. IsDirectory(cat, lock.lh) => RowsAfter(cat, lock.at, lock.cursor) = {}
    BY <1>6 DEF lh_fill_next_child
  <2> QED BY <1>1, <1>2, <1>3, <1>6, <2>1, <2>2, EndSound
<1> QED BY <1>4, <1>5, <1>6 DEF ExamineNext

LEMMA LockPacketSound ==
    ASSUME TypeOK, ScanInv, NEW l \in LockIds, LockPacket(l)
    PROVE  ScanInv'
<1>1. Sound(cat, locks'[l], scans'[l])
  BY LocateSound, ClosedSound, ExamineObjectSound, ExamineNextSound, BeginAllSound,
     ExamineAllSound DEF LockPacket
<1> QED BY <1>1, OtherLocksSound

LEMMA ScanStep == TypeOK /\ ScanInv /\ [Next]_vars => ScanInv'
<1> SUFFICES ASSUME TypeOK, ScanInv, [Next]_vars PROVE ScanInv'
  OBVIOUS
<1>1. disk \in Catalog /\ cat \in Catalog /\ (Next => disk' \in Catalog)
  BY TypesIn, TypeStep DEF TypeOK
<1>2. ASSUME UNCHANGED <<cat, locks, scans>> PROVE ScanInv'
  BY <1>2 DEF ScanInv
<1>3. CASE Next /\ ChangePacket
  <2>1. ASSUME NEW k \in 0 .. Len(disk), k < Len(disk'), RebuiltInPlace(SubSeq(disk', 1, k))
        PROVE  ScanInv'
    <3>1. Len(disk') \in Nat /\ k \in Nat
      BY <1>1, <1>3, CatalogRows
    <3>2. SubSeq(disk', 1, k) \in Catalog
      BY <1>1, <1>3, <2>1, <3>1, ShorterType
    <3> QED BY <2>1, <3>2, RefreshSound
  <2>2. ASSUME lhh_arc_refresh(disk') PROVE ScanInv'
    BY <1>1, <1>3, <2>2, RefreshSound
  <2> QED BY <1>2, <1>3, <2>1, <2>2 DEF ChangePacket, Commit, CommitAnew, Delete, DeleteCut,
        DeleteUnbuilt, DeleteUnopened
<1>4. ASSUME NEW p \in job.todo, RenameStep(p), Next PROVE ScanInv'
  <2>1. lh_archive_rewrite(disk, p[1]) \in Catalog
    BY <1>1, RewriteTakesAll
  <2>2. ASSUME NEW k \in 0 .. Len(disk), RenameLost(p, k) PROVE ScanInv'
    <3>1. k \in Nat /\ k <= Len(disk') /\ disk' \in Catalog /\ RebuiltInPlace(SubSeq(disk', 1, k))
      BY <1>1, <1>4, <2>2, CatalogRows DEF RenameLost
    <3>2. SubSeq(disk', 1, k) \in Catalog
      BY <3>1, ShorterType
    <3> QED BY <3>1, <3>2, RefreshSound
  <2>3. CASE AddStep(p)
    <3>1. PICK listed \in Catalog : RebuiltInPlace(listed)
      BY <2>3, AddSteps DEF Readds
    <3> QED BY <3>1, RefreshSound
  <2>4. CASE RenameUndeleted(p)
    <3>1. RebuiltInPlace(disk)
      BY <2>4 DEF RenameUndeleted
    <3> QED BY <1>1, <3>1, RefreshSound
  <2>5. CASE RenameUnread(p)
    <3>1. RebuiltInPlace(lh_archive_rewrite(disk, p[1])) \/ UNCHANGED <<cat, locks, scans>>
      BY <2>5 DEF RenameUnread
    <3> QED BY <1>2, <2>1, <3>1, RefreshSound
  <2>6. CASE RenameUnopened(p) \/ RenameDenied(p)
    BY <1>2, <2>6 DEF RenameUnopened, RenameDenied
  <2> QED BY <1>4, <2>2, <2>3, <2>4, <2>5, <2>6 DEF RenameStep
<1>5. CASE EndRename
  <2>1. lhh_arc_refresh(disk) \/ RefreshFails \/ UNCHANGED <<cat, locks, scans>>
    BY <1>5 DEF EndRename
  <2> QED BY <1>1, <1>2, <2>1, RefreshSound
<1>6. ASSUME NEW from \in Names, NEW to \in Names, StartRename(from, to) PROVE ScanInv'
  BY <1>2, <1>6 DEF StartRename
<1>7. CASE UNCHANGED vars
  BY <1>2, <1>7 DEF vars
<1> QED BY <1>3, <1>4, <1>5, <1>6, <1>7, NextSteps, LockPacketSound

LEMMA ScanInit == Init => ScanInv
  BY DEF Init, ScanInv, Sound, NoScan

LEMMA ScanAlways == Spec => [](TypeOK /\ ScanInv)
<1>1. Init => TypeOK /\ ScanInv
  BY InitTypes, ScanInit
<1>2. TypeOK /\ ScanInv /\ [Next]_vars => TypeOK' /\ ScanInv'
  BY TypeStep, ScanStep
<1> QED BY <1>1, <1>2, PTL DEF Spec

LEMMA ShowsSome ==
    ASSUME NEW c \in Catalog, NEW d \in Dirs, NEW k
    PROVE  LeavesTo(c, d, k) \subseteq Children(c, d) /\ IconsTo(c, d, k) \subseteq Icons(c, d)
  BY FirstShows DEF LeavesTo, IconsTo, Icons, Shows

LEMMA SteadyLists == TypeOK /\ ScanInv => ListsEachOnce
<1> SUFFICES ASSUME TypeOK, ScanInv, NEW l \in LockIds, scans[l].steady
             PROVE  LET d == locks[l].at IN
                    /\ ~scans[l].twice /\ ~scans[l].stray
                    /\ scans[l].names \subseteq Children(cat, d)
                    /\ scans[l].icons \subseteq Icons(cat, d)
                    /\ scans[l].ended => /\ scans[l].names = Children(cat, d)
                                         /\ scans[l].by = "next" => scans[l].icons = Icons(cat, d)
  BY DEF ListsEachOnce
<1> DEFINE lock == locks[l]
           s == scans[l]
<1>1. lock \in LockType /\ s \in ScanType /\ cat \in Catalog /\ Sound(cat, lock, s)
  BY TypesIn DEF ScanInv
<1>2. Steady(cat, lock, s)
  BY <1>1 DEF Sound
<1>3. s.by \in {"next", "all"}
  BY <1>1 DEF Sound, ScanType, NoScan
<1>4. lock.at \in Dirs
  BY <1>1 DEF LockType, Dirs
<1>5. \A k : /\ LeavesTo(cat, lock.at, k) \subseteq Children(cat, lock.at)
             /\ IconsTo(cat, lock.at, k) \subseteq Icons(cat, lock.at)
  BY <1>1, <1>4, ShowsSome
<1> HIDE DEF lock, s
<1>6. CASE s.ended
  BY <1>2, <1>6 DEF Steady, SteadyEnd, lock, s
<1>7. CASE ~s.ended /\ s.by = "next"
  <2>1. SteadyNext(cat, lock, s) /\ ~s.twice /\ ~s.stray
    BY <1>2, <1>7 DEF Steady
  <2>2. s.names \subseteq Children(cat, lock.at) /\ s.icons \subseteq Icons(cat, lock.at)
    BY <1>5, <2>1 DEF SteadyNext
  <2> QED BY <1>7, <2>1, <2>2 DEF lock, s
<1>8. CASE ~s.ended /\ s.by = "all"
  <2>1. SteadyAll(cat, lock, s) /\ ~s.twice /\ ~s.stray
    BY <1>2, <1>8 DEF Steady
  <2>2. s.names \subseteq Children(cat, lock.at) /\ s.icons \subseteq Icons(cat, lock.at)
    BY <1>5, <2>1 DEF SteadyAll
  <2> QED BY <1>8, <2>1, <2>2 DEF lock, s
<1> QED BY <1>3, <1>6, <1>7, <1>8

(* A listing during which nothing changes shows each child once and its    *)
(* icon right behind it, and has shown them all when it ends: what it has  *)
(* shown is always what stands in the rows up to its cursor, or before its *)
(* key, and of those rows no two speak of one child (lh_fill_next_child,   *)
(* lh_arc_exall, lh_leaf_seen_before, queue_pending_info).                 *)
THEOREM EachOnce == Spec => []ListsEachOnce
<1>1. TypeOK /\ ScanInv => ListsEachOnce
  BY SteadyLists
<1> QED BY <1>1, ScanAlways, PTL

(* A listing that each change begins again misses no child that stays: a   *)
(* child that was there all along has been shown or stands behind the      *)
(* cursor (lhh_arc_refresh binds every lock anew and at the first row).    *)
THEOREM NoneMissed == Spec => []NothingMissed
<1>1. TypeOK /\ ScanInv => NothingMissed
  BY DEF ScanInv, Sound, Whole, NothingMissed
<1> QED BY <1>1, ScanAlways, PTL
-----------------------------------------------------------------------------
(* Old names and new ones.                                                 *)

AnyPart == UNION {Parts(m) : m \in Names}

LEMMA MovesOn ==
    ASSUME NEW a \in Seq(AnyPart), NEW b \in Seq(AnyPart), NEW c \in Seq(AnyPart),
           Moves(a, b), Moves(b, c)
    PROVE  Moves(a, c)
<1>1. Len(a) \in Nat /\ Len(b) \in Nat /\ Len(c) \in Nat
  OBVIOUS
<1>2. CASE IsUnder(a, b) /\ IsUnder(b, c)
  <2>1. Len(c) < Len(b) /\ Len(b) < Len(a) /\ SubSeq(a, 1, Len(b)) = b /\ SubSeq(b, 1, Len(c)) = c
    BY <1>2 DEF IsUnder
  <2>2. \A i \in 1 .. Len(c) : a[i] = b[i] /\ b[i] = c[i]
    <3>1. \A i \in 1 .. Len(b) : SubSeq(a, 1, Len(b))[i] = a[i]
      BY <1>1, <2>1
    <3>2. \A i \in 1 .. Len(c) : SubSeq(b, 1, Len(c))[i] = b[i]
      BY <1>1, <2>1
    <3> QED BY <1>1, <2>1, <3>1, <3>2
  <2>3. SubSeq(a, 1, Len(c)) = c
    BY <1>1, <2>1, <2>2
  <2> QED BY <1>1, <2>1, <2>3 DEF Moves, IsUnder
<1>3. CASE a = b \/ b = c
  BY <1>3
<1> QED BY <1>2, <1>3 DEF Moves

(* The new name lies where the old one did, and no two old names get one   *)
(* new name.                                                               *)
LEMMA RenamedUnder ==
    ASSUME NEW from \in Names, NEW to \in Names, NEW n \in Names, Moves(n, from)
    PROVE  Moves(Renamed(n, from, to), to) /\ Renamed(from, from, to) = to
           /\ Renamed(n, from, to) \in Seq(AnyPart)
<1>1. n \in Seq(AnyPart) /\ from \in Seq(AnyPart) /\ to \in Seq(AnyPart)
  BY NameSeq DEF AnyPart
<1> DEFINE t == SubSeq(n, Len(from) + 1, Len(n))
<1>2. Len(n) \in Nat /\ Len(from) \in Nat /\ Len(to) \in Nat
  BY <1>1
<1>3. t \in Seq(AnyPart) /\ Len(t) = Len(n) - Len(from) /\ Len(from) <= Len(n)
  <2>1. Len(from) <= Len(n)
    BY <1>2 DEF Moves, IsUnder
  <2> QED BY <1>1, <1>2, <2>1
<1>4. SubSeq(from, Len(from) + 1, Len(from)) = <<>>
  BY <1>1, <1>2
<1>5. Renamed(from, from, to) = to
  BY <1>1, <1>4 DEF Renamed
<1> HIDE DEF t
<1>6. to \o t \in Seq(AnyPart) /\ Len(to \o t) = Len(to) + Len(t)
  <2>1. t \in Seq(AnyPart)
    BY <1>3
  <2> HIDE DEF AnyPart
  <2> QED BY <1>1, <2>1, ConcatProperties
<1>7. SubSeq(to \o t, 1, Len(to)) = to
  <2> DEFINE r == to \o t
  <2>1. \A i \in 1 .. Len(to) : r[i] = to[i]
    BY <1>1, <1>3
  <2>2. r \in Seq(AnyPart) /\ Len(to) <= Len(r)
    BY <1>2, <1>3, <1>6
  <2> HIDE DEF r
  <2>3. Len(SubSeq(r, 1, Len(to))) = Len(to) /\ SubSeq(r, 1, Len(to)) \in Seq(AnyPart)
    BY <1>2, <2>2
  <2>4. \A i \in 1 .. Len(to) : SubSeq(r, 1, Len(to))[i] = r[i]
    BY <1>2, <2>2
  <2>5. SubSeq(r, 1, Len(to)) = to
    BY <1>1, <2>1, <2>3, <2>4
  <2> QED BY <2>5 DEF r
<1>8. CASE n = from
  BY <1>5, <1>6, <1>8 DEF Moves, Renamed, t
<1>9. CASE IsUnder(n, from)
  <2>1. Len(to) < Len(to \o t)
    BY <1>2, <1>3, <1>6, <1>9 DEF IsUnder
  <2>2. Moves(to \o t, to)
    BY <1>7, <2>1 DEF Moves, IsUnder
  <2> QED BY <1>5, <1>6, <2>2 DEF Renamed, t
<1> QED BY <1>8, <1>9 DEF Moves

LEMMA RenamedOnce ==
    ASSUME NEW from \in Names, NEW to \in Names, NEW n \in Names, NEW m \in Names,
           Moves(n, from), Moves(m, from), Renamed(n, from, to) = Renamed(m, from, to)
    PROVE  n = m
<1>1. /\ n \in Seq(AnyPart) /\ m \in Seq(AnyPart) /\ from \in Seq(AnyPart)
      /\ to \in Seq(AnyPart)
  BY NameSeq DEF AnyPart
<1>2. Len(n) \in Nat /\ Len(m) \in Nat /\ Len(from) \in Nat /\ Len(to) \in Nat
  BY <1>1
<1>3. Len(from) <= Len(n) /\ Len(from) <= Len(m)
  BY <1>2 DEF Moves, IsUnder
<1> DEFINE t == SubSeq(n, Len(from) + 1, Len(n))
           u == SubSeq(m, Len(from) + 1, Len(m))
<1>4. /\ t \in Seq(AnyPart) /\ Len(t) = Len(n) - Len(from)
      /\ u \in Seq(AnyPart) /\ Len(u) = Len(m) - Len(from)
  BY <1>1, <1>2, <1>3
<1>5. /\ \A i \in 1 .. Len(t) : t[i] = n[Len(from) + i]
      /\ \A i \in 1 .. Len(u) : u[i] = m[Len(from) + i]
  <2>1. ASSUME NEW i \in 1 .. Len(t) PROVE t[i] = n[Len(from) + i]
    <3>1. i \in 1 .. Len(n) - Len(from) /\ Len(from) + 1 + i - 1 = Len(from) + i
      BY <1>2, <1>4
    <3> QED BY <1>1, <1>2, <1>3, <3>1
  <2>2. ASSUME NEW i \in 1 .. Len(u) PROVE u[i] = m[Len(from) + i]
    <3>1. i \in 1 .. Len(m) - Len(from) /\ Len(from) + 1 + i - 1 = Len(from) + i
      BY <1>2, <1>4
    <3> QED BY <1>1, <1>2, <1>3, <3>1
  <2> QED BY <2>1, <2>2
<1>6. to \o t = to \o u
  BY DEF Renamed
<1> HIDE DEF t, u
<1>7. t = u
  BY <1>1, <1>4, <1>6, ConcatSimplifications
<1>8. Len(n) = Len(m)
  BY <1>2, <1>4, <1>7
<1>9. \A i \in 1 .. Len(from) : n[i] = from[i] /\ m[i] = from[i]
  <2>1. \A x \in {n, m} : x = from \/ SubSeq(x, 1, Len(from)) = from
    BY DEF Moves, IsUnder
  <2>2. \A x \in {n, m}, i \in 1 .. Len(from) : SubSeq(x, 1, Len(from))[i] = x[i]
    BY <1>1, <1>2, <1>3
  <2> QED BY <2>1, <2>2
<1>10. \A i \in 1 .. Len(n) : n[i] = m[i]
  <2>1. SUFFICES ASSUME NEW i \in 1 .. Len(n) PROVE n[i] = m[i]
    OBVIOUS
  <2>2. CASE i <= Len(from)
    BY <1>2, <1>9, <2>2
  <2>3. CASE i > Len(from)
    <3>1. i - Len(from) \in 1 .. Len(t) /\ Len(from) + (i - Len(from)) = i
      BY <1>2, <1>4, <2>3
    <3> QED BY <1>5, <1>7, <3>1
  <2> QED BY <1>2, <2>2, <2>3
<1> QED BY <1>1, <1>8, <1>10

(* Where nothing is found nothing lies below either.                       *)
LEMMA NothingThere ==
    ASSUME NEW c \in Catalog, NEW to \in Names, lh_arc_lock(c, to) = ZERO
    PROVE  \A i \in 1 .. Len(c) : ~Moves(c[i].name, to)
<1>1. to # <<>>
  BY NamesAssumption
<1>2. Matching(c, to) # {} => lh_find_entry_index(c, to) \in 1 .. Len(c)
  BY FoundRow DEF Matching
<1>3. Matching(c, to) = {}
  BY <1>1, <1>2, CatalogRows DEF lh_arc_lock, ZERO
<1>4. ~lh_has_children_under(c, to)
  BY <1>1, <1>3 DEF lh_arc_lock, ZERO, SYNTH_DIR
<1> QED BY <1>3, <1>4 DEF Moves, Matching, lh_has_children_under

LEMMA SomethingThere ==
    ASSUME NEW c \in Catalog, NEW n \in Names, lh_arc_lock(c, n) # ZERO
    PROVE  \E i \in 1 .. Len(c) : Moves(c[i].name, n)
<1>1. n # <<>>
  BY NamesAssumption
<1>2. Matching(c, n) # {} \/ lh_has_children_under(c, n)
  BY <1>1 DEF lh_arc_lock
<1> QED BY <1>2 DEF Moves, Matching, lh_has_children_under

LEMMA FoundElsewhere ==
    ASSUME NEW c \in Catalog, NEW to \in Names, lh_arc_lock(c, to) = ZERO,
           NEW n \in Names, lh_arc_lock(c, n) # ZERO
    PROVE  ~Moves(n, to)
<1>1. PICK i \in 1 .. Len(c) : Moves(c[i].name, n)
  BY SomethingThere
<1>2. c[i].name \in Seq(AnyPart) /\ n \in Seq(AnyPart) /\ to \in Seq(AnyPart)
  BY CatalogRows, NameSeq DEF AnyPart
<1>3. ~Moves(c[i].name, to)
  BY NothingThere
<1> QED BY <1>1, <1>2, <1>3, MovesOn
-----------------------------------------------------------------------------
(* The rename.  A file that moves waits in the list under its old name, or *)
(* has been added under its new one; and the new names that are still to   *)
(* come are free, so that none hides or is hidden.                         *)

MovesTo(n) == Moves(n, job.from) /\ Renamed(n, job.from, job.to) \in Names
Stays(n) == DataOf(disk, n) = DataOf(job.start, n)
Awaits(n) == <<n, Renamed(n, job.from, job.to)>> \in job.todo
Moved(n) == /\ MovesTo(n)
            /\ DataOf(disk, Renamed(n, job.from, job.to)) = DataOf(job.start, n)
            /\ \A p \in job.todo : p[1] # n
Fate(n) ==
    \/ Moved(n)
    \/ /\ Stays(n)
       /\ mishaps = 0 /\ MovesTo(n) /\ (DirInWalk(job.start, n) => n = job.from) => Awaits(n)
Apart(p) == /\ Moves(p[1], job.from) /\ p[2] = Renamed(p[1], job.from, job.to)
            /\ ~Moves(p[1], job.to)
            /\ Matching(disk, p[2]) = {}
Spared(n) == {n, Target(n)} \cap job.dropped = {}
Renames ==
    /\ job.from # <<>> /\ job.to # <<>>
    /\ lh_arc_lock(job.start, job.to) = ZERO
    /\ mishaps = 0 => job.dropped = {}
    /\ \A p \in job.todo : Apart(p)
    /\ \A n \in FilesOf(job.start) \ job.unlucky : Spared(n) => Fate(n)
RenameInv ==
    /\ mishaps = 0 => arc = "open"
    /\ job.on /\ job.start # <<>> => Renames

LEMMA FilesFacts ==
    ASSUME NEW c \in Catalog, NEW n \in FilesOf(c)
    PROVE  n \in Names /\ lh_arc_lock(c, n) # ZERO /\ DataOf(c, n) # <<>>
  BY DEF FilesOf, Walked, Listed

(* What a step of the rename does to the names it is not about: it keeps   *)
(* the first k rows, or, without an append or with one, all that is not    *)
(* dropped of the names there are.                                         *)
KeptOf(k, p) == lh_archive_rewrite(SubSeq(disk, 1, k), p[1])
StepOf(p) ==
    /\ job'.on = job.on /\ job'.from = job.from /\ job'.to = job.to
    /\ job'.start = job.start /\ job'.todo = job.todo \ {p}
    /\ job'.unlucky \in {job.unlucky, job.unlucky \cup {p[1]}}
    /\ job.dropped \subseteq job'.dropped
    /\ mishaps' = 0 => mishaps = 0 /\ job'.dropped = job.dropped
    /\ \/ disk' = disk
       \/ \E k \in 0 .. Len(disk) :
            /\ NamesOf(disk) \ (NamesOf(KeptOf(k, p)) \cup {p[1]}) \subseteq job'.dropped
            /\ \/ disk' = KeptOf(k, p)
               \/ \E e \in Entry : e.name = p[2] /\ disk' = Append(KeptOf(k, p), e)

LEMMA NamesFound ==
    ASSUME NEW c, NEW x
    PROVE  x \in NamesOf(c) <=> Matching(c, x) # {}
  BY DEF NamesOf, Matching

(* The first rows of a catalog say of a name what the catalog says, or     *)
(* nothing.                                                                *)
LEMMA FirstRows ==
    ASSUME NEW c \in Catalog, NEW k \in 0 .. Len(c), NEW x
    PROVE  /\ Matching(c, x) = {} => Matching(SubSeq(c, 1, k), x) = {}
           /\ Matching(SubSeq(c, 1, k), x) # {} \/ Matching(c, x) = {} =>
                DataOf(SubSeq(c, 1, k), x) = DataOf(c, x)
<1> DEFINE s == SubSeq(c, 1, k)
<1>1. /\ s \in Catalog /\ k \in Nat /\ Len(c) \in Nat /\ k <= Len(c)
      /\ Len(s) = k /\ \A i \in 1 .. k : s[i] = c[i]
  BY RewriteTypes, CatalogRows DEF Catalog
<1> HIDE DEF s
<1>2. Matching(s, x) = {i \in Matching(c, x) : i <= k}
  BY <1>1 DEF Matching
<1>3. CASE Matching(s, x) # {}
  <2> DEFINE i == lh_find_entry_index(s, x)
  <2>1. i \in Matching(s, x) /\ \A j \in Matching(s, x) : i <= j
    BY <1>1, <1>3, FoundRow
  <2> HIDE DEF i
  <2>2. i \in Matching(c, x) /\ i \in 1 .. k
    BY <1>1, <1>2, <2>1 DEF Matching
  <2>3. \A j \in Matching(c, x) : i <= j
    <3>1. SUFFICES ASSUME NEW j \in Matching(c, x) PROVE i <= j
      OBVIOUS
    <3>2. j \in Nat
      BY <1>1 DEF Matching
    <3>3. CASE j <= k
      BY <1>2, <2>1, <3>3
    <3>4. CASE ~(j <= k)
      BY <1>1, <2>2, <3>2, <3>4
    <3> QED BY <3>3, <3>4
  <2>4. lh_find_entry_index(c, x) = i
    BY <2>2, <2>3, FoundOnlyThere
  <2> QED BY <1>1, <1>3, <2>2, <2>4 DEF DataOf, i, s
<1>4. CASE Matching(s, x) = {}
  BY <1>2, <1>4 DEF DataOf, s
<1> QED BY <1>3, <1>4

LEMMA StepElsewhere ==
    ASSUME TypeOK, NEW p \in job.todo, StepOf(p), NEW x, x # p[1], x # p[2]
    PROVE  /\ x \notin job'.dropped => DataOf(disk', x) = DataOf(disk, x)
           /\ Matching(disk, x) = {} => Matching(disk', x) = {}
<1>1. disk \in Catalog
  BY TypesIn
<1>2. CASE disk' = disk
  BY <1>2
<1>3. ASSUME NEW k \in 0 .. Len(disk),
             NamesOf(disk) \ (NamesOf(KeptOf(k, p)) \cup {p[1]}) \subseteq job'.dropped,
             \/ disk' = KeptOf(k, p)
             \/ \E e \in Entry : e.name = p[2] /\ disk' = Append(KeptOf(k, p), e)
      PROVE  /\ x \notin job'.dropped => DataOf(disk', x) = DataOf(disk, x)
             /\ Matching(disk, x) = {} => Matching(disk', x) = {}
  <2> DEFINE rows == SubSeq(disk, 1, k)
             kept == KeptOf(k, p)
  <2>1. rows \in Catalog /\ kept \in Catalog
    BY <1>1, RewriteTypes DEF KeptOf
  <2>2. /\ Matching(disk, x) = {} => Matching(rows, x) = {}
        /\ Matching(rows, x) # {} \/ Matching(disk, x) = {} => DataOf(rows, x) = DataOf(disk, x)
    BY <1>1, FirstRows
  <2> HIDE DEF rows
  <2>3. /\ DataOf(kept, x) = DataOf(rows, x)
        /\ Matching(kept, x) = {} <=> Matching(rows, x) = {}
    BY <2>1, RewriteKeepsOthers DEF KeptOf, rows
  <2>4. x \notin job'.dropped => Matching(kept, x) # {} \/ Matching(disk, x) = {}
    BY <1>3, NamesFound
  <2> HIDE DEF kept
  <2>5. DataOf(disk', x) = DataOf(kept, x) /\ Matching(disk', x) = Matching(kept, x)
    <3>1. CASE disk' = kept
      BY <3>1
    <3>2. ASSUME NEW e \in Entry, e.name = p[2], disk' = Append(kept, e)
          PROVE  DataOf(disk', x) = DataOf(kept, x) /\ Matching(disk', x) = Matching(kept, x)
      BY <2>1, <3>2, AppendedRow
    <3> QED BY <1>3, <3>1, <3>2 DEF kept
  <2> QED BY <2>2, <2>3, <2>4, <2>5
<1> QED BY <1>2, <1>3 DEF StepOf

LEMMA RenamesTypes ==
    ASSUME TypeOK, job.on, job.start # <<>>, Renames
    PROVE  /\ job.from \in Names /\ job.to \in Names /\ job.start \in Catalog
           /\ \A p \in job.todo : /\ p[1] \in Names /\ p[2] \in Names /\ p = <<p[1], p[2]>>
                                  /\ Apart(p) /\ Moves(p[2], job.to)
           /\ \A n \in FilesOf(job.start) : n \in Names /\ ~Moves(n, job.to)
<1>1. job \in JobType
  BY TypesIn
<1>2. job.from \in Names /\ job.to \in Names /\ job.start \in Catalog
  BY <1>1 DEF JobType, Renames
<1>3. \A p \in job.todo : p[1] \in Names /\ p[2] \in Names /\ p = <<p[1], p[2]>> /\ Apart(p)
  BY <1>1 DEF JobType, Renames
<1>4. \A p \in job.todo : Moves(p[2], job.to)
  BY <1>2, <1>3, RenamedUnder DEF Apart
<1>5. \A n \in FilesOf(job.start) : n \in Names /\ ~Moves(n, job.to)
  BY <1>2, FilesFacts, FoundElsewhere DEF Renames
<1> QED BY <1>2, <1>3, <1>4, <1>5

LEMMA ApartOthers ==
    ASSUME TypeOK, job.on, job.start # <<>>, Renames, NEW p \in job.todo, StepOf(p),
           NEW q \in job'.todo
    PROVE  Apart(q)' /\ q[1] # p[1]
<1>1. q \in job.todo /\ q # p
  BY DEF StepOf
<1>2. q[1] # p[1]
  BY <1>1, RenamesTypes DEF Apart
<1>3. q[2] # p[2]
  BY <1>1, <1>2, RenamesTypes, RenamedOnce DEF Apart
<1>4. q[2] # p[1]
  BY <1>1, RenamesTypes DEF Apart
<1>5. Matching(disk', q[2]) = {}
  BY <1>1, <1>3, <1>4, RenamesTypes, StepElsewhere DEF Apart
<1>6. job'.from = job.from /\ job'.to = job.to /\ Apart(q)
  BY <1>1, RenamesTypes DEF StepOf
<1> QED BY <1>2, <1>5, <1>6 DEF Apart

LEMMA FateOfOthers ==
    ASSUME TypeOK, job.on, job.start # <<>>, Renames, NEW p \in job.todo, StepOf(p),
           NEW n \in FilesOf(job.start), Spared(n)', Fate(n), n # p[1]
    PROVE  Fate(n)'
<1>1. /\ job.from \in Names /\ job.to \in Names /\ n \in Names /\ ~Moves(n, job.to)
      /\ p[1] \in Names /\ Moves(p[2], job.to) /\ Apart(p)
  BY RenamesTypes
<1>2. /\ job'.from = job.from /\ job'.to = job.to /\ job'.start = job.start
      /\ job'.todo = job.todo \ {p} /\ (mishaps' = 0 => mishaps = 0)
  BY DEF StepOf
<1>3. n \notin job'.dropped /\ Target(n) \notin job'.dropped
  BY <1>2 DEF Spared, Target
<1>4. CASE Stays(n) /\ ~Moved(n)
  <2>1. n # p[2]
    BY <1>1
  <2>2. DataOf(disk', n) = DataOf(disk, n)
    BY <1>3, <2>1, StepElsewhere
  <2>3. Awaits(n) => Awaits(n)'
    <3>1. <<n, Renamed(n, job.from, job.to)>> # p
      OBVIOUS
    <3> QED BY <1>2, <3>1 DEF Awaits
  <2>4. Stays(n)'
    BY <1>2, <1>4, <2>2 DEF Stays
  <2>5. MovesTo(n)' = MovesTo(n)
    BY <1>2 DEF MovesTo
  <2>6. mishaps = 0 /\ MovesTo(n) /\ (DirInWalk(job.start, n) => n = job.from) => Awaits(n)
    BY <1>4 DEF Fate
  <2> QED BY <1>2, <2>3, <2>4, <2>5, <2>6 DEF Fate
<1>5. CASE Moved(n)
  <2> DEFINE r == Renamed(n, job.from, job.to)
  <2>1. Moves(n, job.from) /\ r \in Names /\ r = Target(n)
    BY <1>5 DEF Moved, MovesTo, Target
  <2>2. r # p[1]
    BY <1>1, <2>1, RenamedUnder DEF Apart
  <2>3. r # p[2]
    BY <1>1, <2>1, RenamedOnce DEF Apart
  <2>4. DataOf(disk', r) = DataOf(disk, r)
    BY <1>3, <2>1, <2>2, <2>3, StepElsewhere
  <2>5. Moved(n)'
    BY <1>2, <1>5, <2>4 DEF Moved, MovesTo
  <2> QED BY <2>5 DEF Fate
<1> QED BY <1>4, <1>5 DEF Fate

(* The entry that is moved itself.                                         *)
LEMMA FateOfMoved ==
    ASSUME TypeOK, job.on, job.start # <<>>, Renames, NEW p \in job.todo, StepOf(p),
           p[1] \in FilesOf(job.start), Fate(p[1]), NEW k \in 0 .. Len(disk),
           disk' = Append(KeptOf(k, p), Readded(p[2], DataOf(disk, p[1])))
    PROVE  Moved(p[1])'
<1> DEFINE n == p[1]
           rows == SubSeq(disk, 1, k)
           kept == KeptOf(k, p)
           e == Readded(p[2], DataOf(disk, n))
<1>1. /\ job.from \in Names /\ job.to \in Names /\ n \in Names /\ p[2] \in Names
      /\ ~Moves(n, job.to) /\ Moves(p[2], job.to) /\ Apart(p)
  BY RenamesTypes
<1>2. disk \in Catalog /\ rows \in Catalog /\ kept \in Catalog
  BY TypesIn, RewriteTypes DEF KeptOf
<1>3. Stays(n)
  BY DEF Fate, Moved
<1>4. e \in Entry /\ e.name = p[2] /\ e.data = DataOf(disk, n)
  BY <1>1, <1>2, DataType, ReaddedType
<1>5. Matching(kept, p[2]) = {}
  <2>1. p[2] # n
    BY <1>1
  <2>2. Matching(rows, p[2]) = {}
    BY <1>1, <1>2, FirstRows DEF Apart
  <2> HIDE DEF rows
  <2>3. kept = lh_archive_rewrite(rows, n)
    BY DEF KeptOf, rows
  <2> QED BY <1>2, <2>1, <2>2, <2>3, RewriteKeepsOthers
<1> HIDE DEF kept, e
<1>6. DataOf(Append(kept, e), p[2]) = DataOf(disk, n)
  BY <1>2, <1>4, <1>5, AppendedRow
<1>7. disk' = Append(kept, e)
  BY DEF kept, e
<1>8. /\ job'.from = job.from /\ job'.to = job.to /\ job'.start = job.start
  BY DEF StepOf
<1>9. \A q \in job'.todo : q[1] # n
  BY ApartOthers
<1>10. p[2] = Renamed(n, job.from, job.to) /\ Moves(n, job.from)
  BY <1>1 DEF Apart
<1>11. DataOf(disk', Renamed(n, job'.from, job'.to)) = DataOf(job'.start, n)
  BY <1>3, <1>6, <1>7, <1>8, <1>10 DEF Stays
<1>12. MovesTo(n)'
  BY <1>1, <1>8, <1>10 DEF MovesTo
<1> QED BY <1>9, <1>11, <1>12 DEF Moved

(* The bookkeeping of the steps that do not add again.                     *)
LEMMA LeftOver ==
    ASSUME TypeOK, NEW p \in job.todo
    PROVE  /\ \A j \in {Without(p), Unlucky(p), [Unlucky(p) EXCEPT !.moved = TRUE]} :
                /\ j.on = job.on /\ j.from = job.from /\ j.to = job.to /\ j.start = job.start
                /\ j.todo = job.todo \ {p} /\ j.dropped = job.dropped
           /\ Without(p).unlucky = job.unlucky
           /\ \A j \in {Unlucky(p), [Unlucky(p) EXCEPT !.moved = TRUE]} :
                j.unlucky = job.unlucky \cup {p[1]}
<1> DEFINE Left(j) == /\ j.on = job.on /\ j.from = job.from /\ j.to = job.to
                      /\ j.start = job.start /\ j.todo = job.todo \ {p}
                      /\ j.dropped = job.dropped
<1>1. job \in JobType /\ Without(p) \in JobType /\ Unlucky(p) \in JobType
  BY TypesIn, JobTypes
<1>2. Left(Without(p)) /\ Without(p).unlucky = job.unlucky
  BY <1>1 DEF Without, JobType
<1>3. Left(Unlucky(p)) /\ Unlucky(p).unlucky = job.unlucky \cup {p[1]}
  BY <1>1, <1>2 DEF Unlucky, JobType
<1>4. \A j \in JobType : /\ Left(j) => Left([j EXCEPT !.moved = TRUE])
                         /\ [j EXCEPT !.moved = TRUE].unlucky = j.unlucky
  BY DEF JobType
<1> QED BY <1>1, <1>2, <1>3, <1>4

(* A rewrite of the whole archive drops no name but its own.               *)
LEMMA WholeRewrite ==
    ASSUME TypeOK, NEW p \in job.todo
    PROVE  /\ Len(disk) \in 0 .. Len(disk)
           /\ KeptOf(Len(disk), p) = lh_archive_rewrite(disk, p[1])
           /\ NamesOf(disk) \ (NamesOf(KeptOf(Len(disk), p)) \cup {p[1]}) = {}
<1>1. disk \in Catalog /\ Len(disk) \in Nat /\ SubSeq(disk, 1, Len(disk)) = disk
  BY TypesIn, CatalogRows DEF Catalog
<1>2. KeptOf(Len(disk), p) = lh_archive_rewrite(disk, p[1])
  BY <1>1 DEF KeptOf
<1>3. \A x : x # p[1] /\ x \in NamesOf(disk) => x \in NamesOf(lh_archive_rewrite(disk, p[1]))
  BY <1>1, RewriteKeepsOthers, NamesFound
<1> QED BY <1>1, <1>2, <1>3

LEMMA AddStepOf ==
    ASSUME TypeOK, NEW p \in job.todo, AddStep(p)
    PROVE  /\ StepOf(p) /\ arc' = "open"
           /\ \E k \in 0 .. Len(disk) :
                p[1] \notin job'.unlucky =>
                    disk' = Append(KeptOf(k, p), Readded(p[2], DataOf(disk, p[1])))
<1>1. disk \in Catalog /\ mishaps \in 0 .. MaxMishaps
  BY TypesIn
<1>2. PICK k \in 0 .. Len(disk), listed \in Catalog : Readds(p, KeptOf(k, p), listed)
  BY AddSteps DEF KeptOf
<1>3. KeptOf(k, p) \in Catalog
  BY <1>1, RewriteTypes DEF KeptOf
<1>4. /\ \E e \in Entry : e.name = p[2] /\ disk' = Append(KeptOf(k, p), e)
      /\ job'.on = job.on /\ job'.from = job.from /\ job'.to = job.to
      /\ job'.start = job.start /\ job'.todo = job.todo \ {p}
      /\ job'.dropped = job.dropped \cup (NamesOf(disk) \ (NamesOf(KeptOf(k, p)) \cup {p[1]}))
      /\ \/ job'.unlucky = job.unlucky \cup {p[1]}
         \/ /\ job'.unlucky = job.unlucky
            /\ disk' = Append(KeptOf(k, p), Readded(p[2], DataOf(disk, p[1])))
  BY <1>2, <1>3, ReaddsFacts
<1>5. arc' = "open"
  BY <1>2 DEF Readds, RebuiltInPlace
<1>6. ASSUME mishaps' = 0 PROVE mishaps = 0 /\ job'.dropped = job.dropped
  <2>1. RenameOne(p) /\ mishaps' = mishaps
    BY <1>1, <1>6 DEF AddStep, RenameOne, RenameAnew, RenameCut, RenameUnlisted, Mishap
  <2> DEFINE kept == lh_archive_rewrite(disk, p[1])
  <2>2. kept \in Catalog /\ Readds(p, kept, kept)
    BY <1>1, <2>1, RewriteTakesAll DEF RenameOne
  <2>3. NamesOf(disk) \ (NamesOf(kept) \cup {p[1]}) = {}
    BY WholeRewrite
  <2> HIDE DEF kept
  <2>4. job'.dropped = job.dropped \cup (NamesOf(disk) \ (NamesOf(kept) \cup {p[1]}))
    BY <2>2, ReaddsFacts
  <2> QED BY <1>6, <2>1, <2>3, <2>4
<1>7. StepOf(p)
  BY <1>4, <1>6 DEF StepOf
<1>8. p[1] \notin job'.unlucky =>
        disk' = Append(KeptOf(k, p), Readded(p[2], DataOf(disk, p[1])))
  BY <1>4
<1> QED BY <1>5, <1>7, <1>8

LEMMA IsStepOf ==
    ASSUME TypeOK, NEW p \in job.todo, RenameStep(p)
    PROVE  StepOf(p)
<1> DEFINE kept == lh_archive_rewrite(disk, p[1])
<1>1. mishaps \in 0 .. MaxMishaps
  BY TypesIn
<1>2. CASE AddStep(p)
  BY <1>2, AddStepOf
<1>3. CASE RenameUnread(p)
  <2>1. DirEntry(p[2]) \in Entry /\ DirEntry(p[2]).name = p[2]
    BY JobTypes, DirEntryType
  <2>2. /\ disk' = Append(kept, DirEntry(p[2]))
        /\ mishaps' # 0 /\ job' = [Unlucky(p) EXCEPT !.moved = TRUE]
    BY <1>1, <1>3 DEF RenameUnread, Mishap
  <2>3. \E e \in Entry : e.name = p[2] /\ disk' = Append(kept, e)
    BY <2>1, <2>2
  <2> HIDE DEF kept
  <2>4. LET j == [Unlucky(p) EXCEPT !.moved = TRUE]
        IN /\ j.on = job.on /\ j.from = job.from /\ j.to = job.to /\ j.start = job.start
           /\ j.todo = job.todo \ {p} /\ j.dropped = job.dropped
           /\ j.unlucky = job.unlucky \cup {p[1]}
    BY LeftOver
  <2>5. NamesOf(disk) \ (NamesOf(KeptOf(Len(disk), p)) \cup {p[1]}) \subseteq job'.dropped
        /\ \E e \in Entry : e.name = p[2] /\ disk' = Append(KeptOf(Len(disk), p), e)
    BY <2>3, WholeRewrite DEF kept
  <2> QED BY <2>2, <2>4, <2>5, WholeRewrite, SMTT(30) DEF StepOf
<1>4. CASE RenameUndeleted(p)
  <2>1. mishaps' # 0 /\ job' = Without(p) /\ disk' = disk
    BY <1>1, <1>4 DEF RenameUndeleted, Mishap
  <2> QED BY <2>1, LeftOver DEF StepOf
<1>5. CASE RenameUnopened(p) \/ \E k \in 0 .. Len(disk) : RenameLost(p, k)
  <2>1. mishaps' # 0 /\ job' = Unlucky(p) /\ disk' = kept
    BY <1>1, <1>5 DEF RenameUnopened, RenameLost, Mishap
  <2> HIDE DEF kept
  <2> QED BY <2>1, LeftOver, WholeRewrite DEF StepOf, kept
<1>6. CASE RenameDenied(p)
  <2>1. mishaps' = mishaps /\ job' = Without(p) /\ disk' = disk
    BY <1>6 DEF RenameDenied
  <2> QED BY <2>1, LeftOver DEF StepOf
<1> QED BY <1>2, <1>3, <1>4, <1>5, <1>6 DEF RenameStep

(* The entry that a step is about is unlucky, or moved, or stays where it  *)
(* is after a mishap.                                                      *)
LEMMA FateOfStep ==
    ASSUME TypeOK, RenameInv, job.on, job.start # <<>>, NEW p \in job.todo, RenameStep(p),
           p[1] \in FilesOf(job.start) \ job'.unlucky, Spared(p[1])'
    PROVE  Fate(p[1])'
<1>1. StepOf(p) /\ mishaps \in 0 .. MaxMishaps /\ Renames
  BY IsStepOf, TypesIn DEF RenameInv
<1>2. p[1] \in FilesOf(job.start) \ job.unlucky
  BY <1>1 DEF StepOf
<1>3. Fate(p[1])
  <2>1. Spared(p[1])
    BY <1>1 DEF Spared, Target, StepOf
  <2> QED BY <1>1, <1>2, <2>1 DEF Renames
<1>4. job' \notin {Unlucky(p), [Unlucky(p) EXCEPT !.moved = TRUE]}
  BY LeftOver
<1>5. CASE AddStep(p)
  <2>1. PICK k \in 0 .. Len(disk) :
          disk' = Append(KeptOf(k, p), Readded(p[2], DataOf(disk, p[1])))
    BY <1>5, AddStepOf
  <2> QED BY <1>1, <1>2, <1>3, <2>1, FateOfMoved DEF Fate
<1>6. CASE RenameUndeleted(p) \/ RenameDenied(p)
  <2>1. disk' = disk /\ mishaps' # 0
    BY <1>1, <1>6 DEF RenameUndeleted, RenameDenied, Mishap, RenameInv
  <2>2. Stays(p[1])
    BY <1>3 DEF Fate, Moved
  <2>3. Stays(p[1])'
    BY <1>1, <2>1, <2>2 DEF Stays, StepOf
  <2> QED BY <2>1, <2>3 DEF Fate
<1>7. ~RenameUnread(p) /\ ~RenameUnopened(p) /\ ~\E k \in 0 .. Len(disk) : RenameLost(p, k)
  BY <1>4 DEF RenameUnread, RenameUnopened, RenameLost
<1> QED BY <1>5, <1>6, <1>7 DEF RenameStep

LEMMA RenameStepKeeps ==
    ASSUME TypeOK, RenameInv, NEW p \in job.todo, RenameStep(p)
    PROVE  RenameInv'
<1>1. StepOf(p) /\ mishaps \in 0 .. MaxMishaps
  BY IsStepOf, TypesIn
<1>2. job.on
  BY DEF RenameStep, AddStep, RenameOne, RenameAnew, RenameCut, RenameUnlisted, RenameUnread,
     RenameUndeleted, RenameLost, RenameUnopened, RenameDenied
<1>3. mishaps' = 0 => arc' = "open"
  <2>1. CASE AddStep(p)
    BY <2>1, AddStepOf
  <2>2. CASE RenameDenied(p)
    BY <2>2 DEF RenameDenied, RenameInv
  <2>3. CASE \/ RenameUnread(p) \/ RenameUndeleted(p) \/ RenameUnopened(p)
             \/ \E k \in 0 .. Len(disk) : RenameLost(p, k)
    BY <1>1, <2>3 DEF RenameUnread, RenameUndeleted, RenameUnopened, RenameLost, Mishap
  <2> QED BY <2>1, <2>2, <2>3 DEF RenameStep
<1>4. SUFFICES ASSUME job.start # <<>>, Renames PROVE Renames'
  BY <1>1, <1>2, <1>3 DEF RenameInv, StepOf
<1>5. \A q \in job'.todo : Apart(q)'
  BY <1>1, <1>2, <1>4, ApartOthers
<1>6. ASSUME NEW n \in FilesOf(job.start) \ job'.unlucky, Spared(n)' PROVE Fate(n)'
  <2>1. n \in FilesOf(job.start) \ job.unlucky /\ Spared(n)
    BY <1>1, <1>6 DEF StepOf, Spared, Target
  <2>2. Fate(n)
    BY <1>4, <2>1 DEF Renames
  <2>3. CASE n # p[1]
    BY <1>1, <1>2, <1>4, <1>6, <2>1, <2>2, <2>3, FateOfOthers
  <2>4. CASE n = p[1]
    BY <1>1, <1>2, <1>4, <1>6, <2>1, <2>4, FateOfStep
  <2> QED BY <2>3, <2>4
<1>7. /\ job'.from = job.from /\ job'.to = job.to /\ job'.start = job.start
      /\ mishaps' = 0 => job'.dropped = {}
  BY <1>1, <1>4 DEF StepOf, Renames
<1> QED BY <1>4, <1>5, <1>6, <1>7 DEF Renames

(* The list is complete when a rename begins: what is below a drawer that  *)
(* moves is in it, and below a file that moves there is nothing.           *)
LEMMA ListComplete ==
    ASSUME NEW c \in Catalog, NEW from \in Names, NEW to \in Names, NEW n \in FilesOf(c),
           Moves(n, from), Renamed(n, from, to) \in Names, DirInWalk(c, n) => n = from
    PROVE  <<n, Renamed(n, from, to)>> \in
             IF IsDirectory(c, lh_arc_lock(c, from)) THEN lhh_rename_collect(c, from, to)
             ELSE {<<from, to>>}
<1>1. n \in Names /\ Walked(c, n)
  BY DEF FilesOf
<1>2. CASE IsDirectory(c, lh_arc_lock(c, from))
  BY <1>1, <1>2 DEF lhh_rename_collect
<1>3. CASE ~IsDirectory(c, lh_arc_lock(c, from))
  <2>1. ~IsUnder(n, from)
    <3>1. SUFFICES ASSUME IsUnder(n, from) PROVE FALSE
      OBVIOUS
    <3>2. Len(n) \in Nat /\ Len(from) \in Nat \ {0}
      BY <1>1, NameSeq
    <3>3. Len(from) \in 1 .. Len(n) - 1 /\ SubSeq(n, 1, Len(from)) = from
      BY <3>1, <3>2 DEF IsUnder
    <3>4. IsDirectory(c, lh_arc_lock(c, from))
      BY <1>1, <3>3 DEF Walked
    <3> QED BY <1>3, <3>4
  <2>2. n = from /\ Renamed(from, from, to) = to
    BY <2>1, RenamedUnder DEF Moves
  <2> QED BY <1>3, <2>2
<1> QED BY <1>2, <1>3

LEMMA StartKeeps ==
    ASSUME TypeOK, RenameInv, NEW from \in Names, NEW to \in Names, StartRename(from, to)
    PROVE  RenameInv'
<1> DEFINE todo == IF IsDirectory(cat, lh_arc_lock(cat, from))
                   THEN lhh_rename_collect(cat, from, to) ELSE {<<from, to>>}
<1>1. disk \in Catalog /\ cat \in Catalog
  BY TypesIn
<1>2. /\ job'.on /\ job'.from = from /\ job'.to = to /\ job'.todo = todo
      /\ job'.start = (IF arc = "open" /\ cat = disk THEN disk ELSE <<>>)
      /\ job'.unlucky = {} /\ job'.dropped = {}
  BY DEF StartRename, NoJob
<1>3. /\ lh_arc_lock(cat, from) # ZERO /\ lh_arc_lock(cat, to) = ZERO /\ disk' = disk
  BY DEF StartRename
<1> HIDE DEF todo
<1>4. SUFFICES ASSUME job'.start # <<>> PROVE Renames'
  BY DEF RenameInv, StartRename
<1>5. cat = disk /\ job'.start = cat
  BY <1>2, <1>4
<1>6. from # <<>> /\ to # <<>>
  BY NamesAssumption
<1>7. ASSUME NEW p \in todo PROVE Apart(p)'
  <2>1. /\ p[1] \in Names /\ Moves(p[1], from) /\ p[2] = Renamed(p[1], from, to)
        /\ lh_arc_lock(cat, p[1]) # ZERO
    <3>1. CASE IsDirectory(cat, lh_arc_lock(cat, from))
      BY <1>7, <3>1 DEF todo, lhh_rename_collect, Walked, Listed
    <3>2. CASE ~IsDirectory(cat, lh_arc_lock(cat, from))
      <4>1. p = <<from, to>> /\ Renamed(from, from, to) = to
        BY <1>7, <3>2, RenamedUnder DEF todo, Moves
      <4> QED BY <1>3, <4>1 DEF Moves
    <3> QED BY <3>1, <3>2
  <2>2. ~Moves(p[1], to)
    BY <1>1, <1>3, <2>1, FoundElsewhere
  <2>3. Moves(p[2], to) /\ p[2] \in Seq(AnyPart)
    BY <2>1, RenamedUnder
  <2>4. Matching(disk, p[2]) = {}
    <3>1. SUFFICES ASSUME NEW i \in Matching(disk, p[2]) PROVE FALSE
      OBVIOUS
    <3>2. i \in 1 .. Len(cat) /\ Moves(cat[i].name, to)
      BY <1>5, <2>3, <3>1 DEF Matching
    <3> QED BY <1>1, <1>3, <3>2, NothingThere
  <2> QED BY <1>2, <1>3, <2>1, <2>2, <2>4 DEF Apart
<1>8. ASSUME NEW n \in FilesOf(cat) PROVE Fate(n)'
  <2>1. Stays(n)'
    BY <1>2, <1>3, <1>5 DEF Stays
  <2>2. MovesTo(n)' /\ (DirInWalk(cat, n) => n = from) => Awaits(n)'
    <3>1. ASSUME MovesTo(n)', DirInWalk(cat, n) => n = from
          PROVE  <<n, Renamed(n, from, to)>> \in todo
      <4>1. Moves(n, from) /\ Renamed(n, from, to) \in Names
        BY <1>2, <3>1 DEF MovesTo
      <4> QED BY <1>1, <3>1, <4>1, ListComplete DEF todo
    <3> QED BY <1>2, <3>1 DEF Awaits
  <2> QED BY <1>2, <1>5, <2>1, <2>2 DEF Fate
<1> QED BY <1>2, <1>3, <1>5, <1>6, <1>7, <1>8 DEF Renames

LEMMA RenameInvStep == TypeOK /\ RenameInv /\ [Next]_vars => RenameInv'
<1> SUFFICES ASSUME TypeOK, RenameInv, [Next]_vars PROVE RenameInv'
  OBVIOUS
<1>0. ASSUME UNCHANGED <<disk, arc, job, mishaps>> PROVE RenameInv'
  BY <1>0 DEF RenameInv, Renames, Fate, Moved, Stays, MovesTo, Awaits, Apart, Spared, Target
<1>1. ASSUME NEW l \in LockIds, LockPacket(l) PROVE RenameInv'
  BY <1>0, <1>1, LockPacketTypes DEF LockStep
<1>2. CASE ChangePacket
  <2>1. ~job'.on
    BY <1>2 DEF ChangePacket, Commit, CommitAnew, Delete, DeleteCut, DeleteUnbuilt,
       DeleteUnopened, Change, Quiet
  <2>2. mishaps \in 0 .. MaxMishaps
    BY TypesIn
  <2>3. mishaps' = 0 => arc' = "open"
    BY <1>2, <2>2 DEF ChangePacket, Commit, CommitAnew, Delete, DeleteCut, DeleteUnbuilt,
       DeleteUnopened, Mishap, lhh_arc_refresh
  <2> QED BY <2>1, <2>3 DEF RenameInv
<1>3. CASE EndRename
  <2>1. ~job'.on /\ mishaps' = mishaps
    BY <1>3 DEF EndRename, NoJob
  <2>2. mishaps' = 0 => arc' = "open"
    BY <1>3 DEF EndRename, RenameInv, lhh_arc_refresh
  <2> QED BY <2>1, <2>2 DEF RenameInv
<1>4. CASE UNCHANGED vars
  BY <1>0, <1>4 DEF vars
<1> QED BY <1>1, <1>2, <1>3, <1>4, NextSteps, StartKeeps, RenameStepKeeps

LEMMA RenameAlways == Spec => [](TypeOK /\ RenameInv)
<1>1. Init => TypeOK /\ RenameInv
  BY InitTypes DEF Init, NoJob, RenameInv
<1>2. TypeOK /\ RenameInv /\ [Next]_vars => TypeOK' /\ RenameInv'
  BY TypeStep, RenameInvStep
<1> QED BY <1>1, <1>2, PTL DEF Spec

LEMMA NoFilesInNothing == FilesOf(<<>>) = {}
  BY DEF FilesOf, DataOf, Matching

LEMMA FatesKeep == TypeOK /\ RenameInv => RenameKeepsOthers
<1> SUFFICES ASSUME TypeOK, RenameInv, job.on, NEW n \in FilesOf(job.start) \ job.unlucky,
                    {n, Target(n)} \cap job.dropped = {}
             PROVE  DataOf(job.start, n) \in {DataOf(disk, n), DataOf(disk, Target(n))}
  BY DEF RenameKeepsOthers
<1>1. Fate(n)
  BY NoFilesInNothing DEF RenameInv, Renames, Spared
<1> QED BY <1>1 DEF Fate, Moved, Stays, MovesTo, Target

(* Each file is at every moment of a rename under its old name or its new  *)
(* one, also when one call of a step fails: the new names of what is still *)
(* to come are free (lhh_arc_rename_one, lhh_rename_rebuild).  The         *)
(* exceptions are those of RenameKeepsOthers: the files whose own data     *)
(* could not be read or added again, and the names that a rewrite or an    *)
(* append dropped.                                                         *)
THEOREM KeepsOthers == Spec => []RenameKeepsOthers
<1> QED BY FatesKeep, RenameAlways, PTL

(* A rename whose calls all succeed leaves every file that a listing       *)
(* reaches and shows as a file readable where it belongs: its list was     *)
(* complete (lhh_rename_collect), and each pair in it is worked off.       *)
THEOREM MovesAll == Spec => RenameMovesAll
<1>1. TypeOK /\ RenameInv /\ [Next]_vars =>
        [EndRename /\ job.unlucky = {} /\ mishaps = 0 =>
           \A n \in FilesOf(job.start) :
             (DirInWalk(job.start, n) => n = job.from) =>
                 DataOf(disk, Target(n)) = DataOf(job.start, n)]_vars
  <2>1. SUFFICES ASSUME TypeOK, RenameInv, EndRename, job.unlucky = {}, mishaps = 0,
                        NEW n \in FilesOf(job.start), DirInWalk(job.start, n) => n = job.from
                 PROVE  DataOf(disk, Target(n)) = DataOf(job.start, n)
    OBVIOUS
  <2>2. job.on /\ job.todo = {}
    BY <2>1 DEF EndRename
  <2>3. Fate(n)
    BY <2>1, <2>2, NoFilesInNothing DEF RenameInv, Renames, Spared
  <2>4. CASE Moved(n)
    BY <2>4 DEF Moved, MovesTo, Target
  <2>5. CASE Stays(n) /\ ~Moved(n)
    <3>1. ~MovesTo(n)
      BY <2>1, <2>2, <2>3, <2>5 DEF Fate, Awaits
    <3> QED BY <2>5, <3>1 DEF Stays, MovesTo, Target
  <2> QED BY <2>3, <2>4, <2>5 DEF Fate
<1> QED BY <1>1, RenameAlways, PTL DEF Spec, RenameMovesAll
=============================================================================

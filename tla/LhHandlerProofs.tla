------------------------- MODULE LhHandlerProofs -------------------------
(***************************************************************************)
(* Proofs about LhHandler, for any number of archives, names, locks and    *)
(* handles and any plan of failing calls.                                  *)
(*                                                                         *)
(* A packet is a composition of calls on worlds, so the invariant is one   *)
(* of worlds: Good(w, x, k, j, u) says that every reference and counter is *)
(* accounted for when k references on the archive x and j host locks are   *)
(* in the hands of the C function that runs, and u handles are open.  Each *)
(* operator gets one lemma that says how it moves x, k and j and which     *)
(* locks it keeps, grants or frees.  Between packets nothing is in         *)
(* transit, Settled, and IInv adds what the handles own.                   *)
(*                                                                         *)
(* The second half is about what the files hold: Sound(w) relates each     *)
(* lock and each catalog to the file, SoundBut(w, x) excepts the archive x *)
(* that a call has written and not yet loaded again.                       *)
(***************************************************************************)
EXTENDS LhHandler, TLAPS, FiniteSetTheorems, WellFoundedInduction

-----------------------------------------------------------------------------
(* Worlds between two calls.                                               *)

ArcSet == [ref : Int, open : BOOLEAN, users : SUBSET LockIds]
LockSet == [type : LockTypes, path : Paths \cup {Volume, NoPath},
            entry : Names \cup {<<>>}, lh : Int]

Fields == {"disk", "cats", "arcs", "locks", "hostLocks", "lockCnt", "usageCnt",
           "fault", "ok", "got", "calls", "plan"}
Shape(w) == DOMAIN w = Fields

Typed(w) ==
    /\ Shape(w)
    /\ w.cats = [p \in Paths |-> w.cats[p]]
    /\ w.arcs \in [Paths -> ArcSet]
    /\ w.locks \in [LockIds -> LockSet]
    /\ w.hostLocks \in Int
    /\ w.lockCnt \in Int
    /\ w.usageCnt \in Int

UsersIn(w, p) == {l \in LockIds : OnArc(w, l, p)}
Live(w) == {l \in LockIds : w.locks[l].type # "free"}
Real(w) == {l \in LockIds : w.locks[l].type = "REAL"}

Tidy(w) ==
    \A l \in LockIds :
        /\ w.locks[l].lh # DANGLING
        /\ w.locks[l].type = "free" => w.locks[l] = FreeLock
        /\ w.locks[l].type \in {"ARCHIVE", "ENTRY"} => w.locks[l].path \in Paths
        /\ w.locks[l].type = "REAL" => w.locks[l].path \in Paths \cup {Volume}

Idle(w) ==
    \A p \in Paths :
        /\ w.arcs[p].ref = 0 => w.arcs[p] = NoArc
        /\ ~w.arcs[p].open => w.cats[p] = <<>>

(* k references on x and j host locks are in transit between two calls,    *)
(* and u handles are open.                                                 *)
Refs(w, x, k) ==
    \A p \in Paths :
        /\ w.arcs[p].users = UsersIn(w, p)
        /\ w.arcs[p].ref = Cardinality(UsersIn(w, p)) + (IF p = x THEN k ELSE 0)

Counts(w, j, u) ==
    /\ w.lockCnt = Cardinality(Live(w))
    /\ w.usageCnt = w.lockCnt + u
    /\ w.hostLocks = Cardinality(Real(w)) + j

Good(w, x, k, j, u) ==
    Typed(w) /\ Tidy(w) /\ Idle(w) /\ Refs(w, x, k) /\ Counts(w, j, u)

(* What a lock is, but for the library's own LhLock.                       *)
SameLock(v, w, l) ==
    /\ w.locks[l].type = v.locks[l].type
    /\ w.locks[l].path = v.locks[l].path
    /\ w.locks[l].entry = v.locks[l].entry

Keeps(v, w) == \A l \in LockIds : SameLock(v, w, l)

Frees(v, w, i) ==
    /\ w.locks[i].type = "free"
    /\ \A l \in LockIds \ {i} : SameLock(v, w, l)

(* At most one new lock, the one returned.                                 *)
Grants(v, w) ==
    /\ w.got = NoLock \/ w.got \in LockIds \ Live(v)
    /\ Live(w) = Live(v) \cup ({w.got} \ {NoLock})
    /\ \A l \in Live(v) : SameLock(v, w, l)

SameCounts(v, w) ==
    /\ w.hostLocks = v.hostLocks
    /\ w.lockCnt = v.lockCnt
    /\ w.usageCnt = v.usageCnt

(* Nothing the handler holds is changed: ok, got, calls, disk, fault.      *)
Same(v, w) ==
    /\ Shape(w)
    /\ w.cats = v.cats
    /\ w.arcs = v.arcs
    /\ w.locks = v.locks
    /\ SameCounts(v, w)

-----------------------------------------------------------------------------
(* Sets of numbers and of locks.                                           *)

(* A non-empty set of numbers has a least member.                          *)
LEMMA MinNat ==
    ASSUME NEW S \in SUBSET Nat, S # {}
    PROVE  \E x \in S : \A y \in S : x <= y
<1>1. PICK x \in S : \A y \in S : <<y, x>> \notin OpToRel(<, Nat)
  BY WFMin, NatLessThanWellFounded, Zenon
<1>2. \A y \in S : ~ (y < x)
  BY <1>1, Zenon DEF OpToRel
<1> QED BY <1>2

(* LhLock answers a number, and never the dangling mark.                   *)
LEMMA LhLockType ==
    ASSUME NEW cat, NEW n
    PROVE  lh_arc_lock(cat, n) \in Int /\ lh_arc_lock(cat, n) # DANGLING
<1>1. Matching(cat, n) \in SUBSET Nat
  BY DEF Matching
<1>2. CASE Matching(cat, n) # {}
  <2>1. \E i \in Matching(cat, n) : \A j \in Matching(cat, n) : i <= j
    BY <1>1, <1>2, MinNat
  <2>2. lh_find_entry_index(cat, n) \in Matching(cat, n)
    BY <2>1 DEF lh_find_entry_index
  <2> QED BY <1>1, <2>2 DEF lh_arc_lock, ROOT_DIR, SYNTH_DIR, ZERO, DANGLING
<1>3. CASE Matching(cat, n) = {}
  BY <1>3 DEF lh_arc_lock, ROOT_DIR, SYNTH_DIR, ZERO, DANGLING
<1> QED BY <1>2, <1>3

(* Every set of locks is finite.                                           *)
LEMMA LocksFinite ==
    ASSUME NEW S \in SUBSET LockIds
    PROVE  IsFiniteSet(S) /\ Cardinality(S) \in Nat /\ (Cardinality(S) = 0 <=> S = {})
  BY LocksAssumption, FS_Subset, FS_CardinalityType, FS_EmptySet

(* One lock more.                                                          *)
LEMMA CardAdd ==
    ASSUME NEW S \in SUBSET LockIds, NEW l \in LockIds, l \notin S
    PROVE  Cardinality(S \cup {l}) = Cardinality(S) + 1
  BY LocksFinite, FS_AddElement

(* One lock less.                                                          *)
LEMMA CardRemove ==
    ASSUME NEW S \in SUBSET LockIds, NEW l \in S
    PROVE  Cardinality(S \ {l}) = Cardinality(S) - 1
  BY LocksFinite, FS_RemoveElement

-----------------------------------------------------------------------------
(* The cache of open archives.                                             *)

(* A call that changes nothing the handler holds keeps it good.            *)
LEMMA SameGood ==
    ASSUME NEW w, NEW v, NEW x, NEW k, NEW j, NEW u,
           Good(w, x, k, j, u), Same(w, v)
    PROVE  Good(v, x, k, j, u) /\ Keeps(w, v)
<1>1. Typed(v) /\ Tidy(v) /\ Idle(v)
  BY DEF Good, Same, Typed, Tidy, Idle, SameCounts
<1>2. /\ \A p \in Paths : UsersIn(v, p) = UsersIn(w, p)
      /\ Live(v) = Live(w) /\ Real(v) = Real(w)
  BY DEF Same, UsersIn, OnArc, Live, Real
<1>3. Refs(v, x, k) /\ Counts(v, j, u) /\ Keeps(w, v)
  BY <1>2 DEF Good, Same, SameCounts, Refs, Counts, Keeps, SameLock
<1> QED BY <1>1, <1>3 DEF Good

(* A new picture of the archive p that some lock is on: the reader, the    *)
(* catalog and the LhLocks of its users change, nothing else does.         *)
Reread(v, w, p) ==
    /\ Shape(w)
    /\ w.cats = [q \in Paths |-> w.cats[q]]
    /\ w.arcs \in [Paths -> ArcSet]
    /\ \A q \in Paths :
        /\ q # p => w.arcs[q] = v.arcs[q] /\ w.cats[q] = v.cats[q]
        /\ w.arcs[q].ref = v.arcs[q].ref
        /\ w.arcs[q].users = v.arcs[q].users
        /\ ~w.arcs[q].open => w.cats[q] = <<>>
    /\ w.locks \in [LockIds -> LockSet]
    /\ \A l \in LockIds :
        \/ w.locks[l] = v.locks[l]
        \/ /\ v.locks[l].type \in {"ARCHIVE", "ENTRY"}
           /\ w.locks[l].lh # DANGLING
           /\ SameLock(v, w, l)
    /\ SameCounts(v, w)
    /\ w.got = v.got

(* Only the catalog of an open archive differs: still good.                *)
LEMMA RereadGood ==
    ASSUME NEW w, NEW v, NEW p \in Paths, NEW x, NEW k, NEW j, NEW u,
           Good(w, x, k, j, u), w.arcs[p].ref > 0, Reread(w, v, p)
    PROVE  Good(v, x, k, j, u) /\ Keeps(w, v) /\ v.got = w.got
<1>1. Keeps(w, v) /\ v.got = w.got
  BY DEF Reread, Keeps, SameLock
<1>2. Typed(v)
  BY DEF Good, Reread, Typed, SameCounts
<1>3. Tidy(v)
  <2> SUFFICES ASSUME NEW l \in LockIds
               PROVE  /\ v.locks[l].lh # DANGLING
                      /\ v.locks[l].type = "free" => v.locks[l] = FreeLock
                      /\ v.locks[l].type \in {"ARCHIVE", "ENTRY"} => v.locks[l].path \in Paths
                      /\ v.locks[l].type = "REAL" => v.locks[l].path \in Paths \cup {Volume}
    BY DEF Tidy
  <2> QED BY DEF Good, Reread, Tidy, SameLock
<1>4. Idle(v)
  BY DEF Good, Reread, Idle
<1>5. /\ \A q \in Paths : UsersIn(v, q) = UsersIn(w, q)
      /\ Live(v) = Live(w) /\ Real(v) = Real(w)
  BY <1>1 DEF Keeps, SameLock, UsersIn, OnArc, Live, Real
<1>6. Refs(v, x, k)
  BY <1>5 DEF Good, Reread, Refs
<1>7. Counts(v, j, u)
  BY <1>5 DEF Good, Reread, Counts, SameCounts
<1> QED BY <1>1, <1>2, <1>3, <1>4, <1>6, <1>7 DEF Good

(* LhCloseArchive when no user is bound to the catalog: no lock changes.   *)
LEMMA CloseFields ==
    ASSUME NEW w, NEW p \in Paths, Typed(w),
           \A l \in UsersIn(w, p) : w.locks[l].lh = ZERO
    PROVE  LET r == LhCloseArchive(w, p) IN
           /\ Shape(r)
           /\ r.arcs = [w.arcs EXCEPT ![p].open = FALSE]
           /\ r.arcs \in [Paths -> ArcSet]
           /\ r.cats = [w.cats EXCEPT ![p] = <<>>]
           /\ r.locks = w.locks
           /\ SameCounts(w, r)
           /\ r.got = w.got
           /\ r.ok = w.ok
<1> DEFINE c == LhCloseArchive(w, p)
<1>1. /\ Shape(c)
      /\ c.arcs = [w.arcs EXCEPT ![p].open = FALSE]
      /\ c.cats = [w.cats EXCEPT ![p] = <<>>]
      /\ c.locks = [l \in LockIds |->
             IF OnArc(w, l, p) /\ w.locks[l].lh # ZERO
             THEN [w.locks[l] EXCEPT !.lh = DANGLING] ELSE w.locks[l]]
      /\ SameCounts(w, c)
      /\ c.got = w.got
      /\ c.ok = w.ok
  BY DEF Typed, Shape, Fields, LhCloseArchive, SameCounts
<1>2. c.locks = w.locks
  BY <1>1 DEF Typed, UsersIn
<1>3. [w.arcs EXCEPT ![p].open = FALSE] \in [Paths -> ArcSet]
  BY DEF Typed, ArcSet
<1> QED BY <1>1, <1>2, <1>3

(* The same of CloseReader, which closes only what is open.                *)
LEMMA CloseReaderFields ==
    ASSUME NEW w, NEW p \in Paths, Typed(w),
           ~w.arcs[p].open => w.cats[p] = <<>>,
           \A l \in UsersIn(w, p) : w.locks[l].lh = ZERO
    PROVE  LET r == CloseReader(w, p) IN
           /\ Typed(r)
           /\ r.arcs = [w.arcs EXCEPT ![p].open = FALSE]
           /\ r.cats = [w.cats EXCEPT ![p] = <<>>]
           /\ r.locks = w.locks
           /\ SameCounts(w, r)
           /\ r.got = w.got
           /\ r.ok = w.ok
<1>1. CASE w.arcs[p].open
  <2> DEFINE c == LhCloseArchive(w, p)
  <2>1. CloseReader(w, p) = c
    BY <1>1 DEF CloseReader
  <2>2. /\ Shape(c)
        /\ c.arcs = [w.arcs EXCEPT ![p].open = FALSE]
        /\ c.arcs \in [Paths -> ArcSet]
        /\ c.cats = [w.cats EXCEPT ![p] = <<>>]
        /\ c.locks = w.locks
        /\ SameCounts(w, c)
        /\ c.got = w.got
        /\ c.ok = w.ok
    BY CloseFields
  <2> HIDE DEF c
  <2>3. c.cats = [q \in Paths |-> c.cats[q]]
    BY <2>2 DEF Typed
  <2> QED BY <2>1, <2>2, <2>3 DEF Typed, SameCounts
<1>2. CASE ~w.arcs[p].open
  <2>1. w.arcs = [w.arcs EXCEPT ![p].open = FALSE]
    BY <1>2 DEF Typed, ArcSet
  <2>2. w.cats = [w.cats EXCEPT ![p] = <<>>]
    BY <1>2 DEF Typed
  <2> QED BY <1>2, <2>1, <2>2 DEF CloseReader, SameCounts
<1> QED BY <1>1, <1>2

(* lhh_arc_release settles a reference in transit.                         *)
LEMMA ReleaseGood ==
    ASSUME NEW w, NEW p \in Paths, NEW k \in Nat, NEW j \in Int, NEW u \in Int,
           Good(w, p, k + 1, j, u)
    PROVE  LET r == lhh_arc_release(w, p) IN
           /\ Good(r, p, k, j, u)
           /\ r.locks = w.locks
           /\ r.got = w.got
<1> DEFINE v == [w EXCEPT !.arcs[p].ref = @ - 1]
<1> DEFINE c == CloseReader(v, p)
<1> DEFINE z == [c EXCEPT !.arcs[p] = NoArc]
<1> DEFINE r == lhh_arc_release(w, p)
<1> SUFFICES Good(r, p, k, j, u) /\ r.locks = w.locks /\ r.got = w.got
  OBVIOUS
<1>0. /\ Cardinality(UsersIn(w, p)) \in Nat
      /\ w.arcs[p].ref = Cardinality(UsersIn(w, p)) + k + 1
      /\ w.arcs[p].users = UsersIn(w, p)
  BY LocksFinite DEF Good, Refs, UsersIn
<1>1. /\ Shape(v) /\ SameCounts(w, v)
      /\ v.arcs = [w.arcs EXCEPT ![p].ref = @ - 1]
      /\ v.cats = w.cats /\ v.locks = w.locks /\ v.got = w.got
  BY DEF Good, Typed, Shape, Fields, SameCounts
<1>2. [w.arcs EXCEPT ![p].ref = @ - 1] \in [Paths -> ArcSet]
  BY DEF Good, Typed, ArcSet
<1>3. r = IF v.arcs[p].ref > 0 THEN v ELSE z
  BY DEF lhh_arc_release
<1> HIDE DEF v, r
<1>4. /\ Typed(v) /\ Tidy(v)
      /\ v.arcs[p].ref = Cardinality(UsersIn(w, p)) + k
      /\ v.arcs[p].users = UsersIn(w, p)
      /\ v.arcs[p].open = w.arcs[p].open
      /\ \A q \in Paths \ {p} : v.arcs[q] = w.arcs[q]
      /\ \A q \in Paths : UsersIn(v, q) = UsersIn(w, q)
  BY <1>0, <1>1, <1>2 DEF Good, Typed, Tidy, SameCounts, UsersIn, OnArc, ArcSet
<1>5. CASE v.arcs[p].ref > 0
  <2>1. Idle(v)
    BY <1>1, <1>4, <1>5 DEF Good, Idle
  <2>2. Refs(v, p, k)
    BY <1>4, <1>5 DEF Good, Refs
  <2>3. Counts(v, j, u)
    BY <1>1 DEF Good, Counts, SameCounts, Live, Real
  <2> QED BY <1>1, <1>3, <1>4, <1>5, <2>1, <2>2, <2>3 DEF Good
<1>6. CASE ~(v.arcs[p].ref > 0)
  <2>1. UsersIn(w, p) = {} /\ UsersIn(v, p) = {} /\ k = 0
    BY <1>0, <1>4, <1>6, LocksFinite DEF UsersIn
  <2>2. \A q \in Paths : ~v.arcs[q].open => v.cats[q] = <<>>
    BY <1>1, <1>4 DEF Good, Idle
  <2>3. /\ Typed(c) /\ c.locks = v.locks /\ SameCounts(v, c) /\ c.got = v.got
        /\ c.arcs = [v.arcs EXCEPT ![p].open = FALSE]
        /\ c.cats = [v.cats EXCEPT ![p] = <<>>]
    <3>1. Typed(v) /\ (~v.arcs[p].open => v.cats[p] = <<>>)
      BY <1>4, <2>2
    <3>2. \A l \in UsersIn(v, p) : v.locks[l].lh = ZERO
      BY <2>1
    <3> HIDE DEF c
    <3>3. CloseReader(v, p) = c
      BY DEF c
    <3> QED BY <3>1, <3>2, <3>3, CloseReaderFields, Zenon
  <2> HIDE DEF c
  <2>4. /\ Shape(z) /\ z.locks = c.locks /\ SameCounts(c, z) /\ z.got = c.got
        /\ z.arcs = [c.arcs EXCEPT ![p] = NoArc]
        /\ z.cats = c.cats
    BY <2>3 DEF Typed, Shape, Fields, SameCounts
  <2>5. [c.arcs EXCEPT ![p] = NoArc] \in [Paths -> ArcSet]
    BY <2>3 DEF Typed, ArcSet, NoArc
  <2> HIDE DEF z
  <2>6. /\ z.arcs[p] = NoArc /\ z.cats[p] = <<>> /\ z.locks = w.locks
        /\ z.got = w.got /\ SameCounts(w, z)
        /\ \A q \in Paths \ {p} : z.arcs[q] = w.arcs[q] /\ z.cats[q] = w.cats[q]
        /\ \A q \in Paths : UsersIn(z, q) = UsersIn(w, q)
    BY <1>1, <1>4, <2>3, <2>4 DEF Typed, SameCounts, UsersIn, OnArc
  <2>7. Typed(z)
    BY <2>3, <2>4, <2>5 DEF Typed, SameCounts
  <2>8. Tidy(z)
    BY <2>6 DEF Good, Tidy
  <2>9. Idle(z)
    BY <2>6 DEF Good, Idle
  <2>10. Refs(z, p, k)
    <3>1. Cardinality(UsersIn(w, p)) = 0
      BY <2>1, FS_EmptySet
    <3>2. UsersIn(z, p) = {} /\ UsersIn(w, p) = {}
      BY <2>1, <2>6
    <3>3. /\ z.arcs[p].users = UsersIn(z, p)
          /\ z.arcs[p].ref = Cardinality(UsersIn(z, p)) + k
      BY <2>1, <2>6, <3>1, <3>2 DEF NoArc
    <3> QED BY <2>6, <3>3 DEF Good, Refs
  <2>11. Counts(z, j, u)
    BY <2>6 DEF Good, Counts, SameCounts, Live, Real
  <2> QED BY <1>3, <1>6, <2>6, <2>7, <2>8, <2>9, <2>10, <2>11 DEF Good
<1> QED BY <1>5, <1>6

(* Loading the archive either binds a catalog or changes nothing.          *)
LEMMA OpenFields ==
    ASSUME NEW w, NEW p \in Paths, Typed(w)
    PROVE  LET r == lhh_open_archive_mem(w, p) IN
           /\ Typed(r) /\ SameCounts(w, r) /\ r.locks = w.locks /\ r.got = w.got
           /\ r.ok \in BOOLEAN
           /\ \/ ~r.ok /\ r.arcs = w.arcs /\ r.cats = w.cats
              \/ /\ r.ok
                 /\ r.arcs = [w.arcs EXCEPT ![p].open = TRUE]
                 /\ \A q \in Paths \ {p} : r.cats[q] = w.cats[q]
<1> DEFINE r == lhh_open_archive_mem(w, p)
<1> DEFINE v == [w EXCEPT !.calls = @ + 1]
<1> DEFINE f == [v EXCEPT !.ok = FALSE]
<1> DEFINE y == [v EXCEPT !.cats[p] = w.disk[p].cat, !.arcs[p].open = TRUE]
<1> DEFINE g == [y EXCEPT !.ok = TRUE]
<1> SUFFICES /\ Typed(r) /\ SameCounts(w, r) /\ r.locks = w.locks /\ r.got = w.got
             /\ r.ok \in BOOLEAN
             /\ \/ ~r.ok /\ r.arcs = w.arcs /\ r.cats = w.cats
                \/ /\ r.ok
                   /\ r.arcs = [w.arcs EXCEPT ![p].open = TRUE]
                   /\ \A q \in Paths \ {p} : r.cats[q] = w.cats[q]
  OBVIOUS
<1>1. r = f \/ r = g
  BY DEF lhh_open_archive_mem, Called, Returns
<1>2. /\ Shape(v) /\ SameCounts(w, v)
      /\ v.arcs = w.arcs /\ v.cats = w.cats /\ v.locks = w.locks /\ v.got = w.got
  BY DEF Typed, Shape, Fields, SameCounts
<1> HIDE DEF r, v
<1>3. /\ Shape(f) /\ SameCounts(w, f) /\ f.ok = FALSE
      /\ f.arcs = w.arcs /\ f.cats = w.cats /\ f.locks = w.locks /\ f.got = w.got
  BY <1>2 DEF Shape, Fields, SameCounts
<1>4. /\ Shape(y) /\ SameCounts(w, y)
      /\ y.arcs = [w.arcs EXCEPT ![p].open = TRUE]
      /\ y.cats = [w.cats EXCEPT ![p] = w.disk[p].cat]
      /\ y.locks = w.locks /\ y.got = w.got
  BY <1>2 DEF Shape, Fields, SameCounts
<1> HIDE DEF f, y
<1>5. /\ Shape(g) /\ SameCounts(w, g) /\ g.ok = TRUE
      /\ g.arcs = [w.arcs EXCEPT ![p].open = TRUE]
      /\ g.cats = [w.cats EXCEPT ![p] = w.disk[p].cat]
      /\ g.locks = w.locks /\ g.got = w.got
  BY <1>4 DEF Shape, Fields, SameCounts
<1> HIDE DEF g
<1>6. [w.arcs EXCEPT ![p].open = TRUE] \in [Paths -> ArcSet]
  BY DEF Typed, ArcSet
<1>7. CASE r = f
  BY <1>3, <1>7 DEF Typed, SameCounts
<1>8. CASE r = g
  <2>1. Typed(g)
    <3>1. g.cats = [q \in Paths |-> g.cats[q]]
      BY <1>5 DEF Typed
    <3> QED BY <1>5, <1>6, <3>1 DEF Typed, SameCounts
  <2>2. \A q \in Paths \ {p} : g.cats[q] = w.cats[q]
    BY <1>5 DEF Typed
  <2> QED BY <1>5, <1>8, <2>1, <2>2
<1> QED BY <1>1, <1>7, <1>8

(* UnlockUsers and RebindUsers touch no lock but the archive's users.      *)
LEMMA UsersFields ==
    ASSUME NEW w, NEW p \in Paths, Typed(w), Tidy(w),
           w.arcs[p].users = UsersIn(w, p),
           NEW r, r \in {UnlockUsers(w, p), RebindUsers(w, p)}
    PROVE  /\ Typed(r) /\ SameCounts(w, r) /\ r.got = w.got /\ r.ok = w.ok
           /\ r.arcs = w.arcs /\ r.cats = w.cats
           /\ \A l \in LockIds :
                  /\ SameLock(w, r, l)
                  /\ r.locks[l].lh # DANGLING
                  /\ l \notin UsersIn(w, p) => r.locks[l] = w.locks[l]
           /\ r = UnlockUsers(w, p) =>
                  \A l \in UsersIn(w, p) : r.locks[l].lh = ZERO
<1>1. ASSUME NEW lh, \A l \in LockIds : lh[l] \in Int /\ lh[l] # DANGLING,
             NEW f, f = [l \in LockIds |->
                          IF l \in w.arcs[p].users
                          THEN [w.locks[l] EXCEPT !.lh = lh[l]] ELSE w.locks[l]]
      PROVE  /\ f \in [LockIds -> LockSet]
             /\ \A l \in LockIds :
                  /\ f[l].type = w.locks[l].type
                  /\ f[l].path = w.locks[l].path
                  /\ f[l].entry = w.locks[l].entry
                  /\ f[l].lh # DANGLING
                  /\ l \notin UsersIn(w, p) => f[l] = w.locks[l]
                  /\ l \in UsersIn(w, p) => f[l].lh = lh[l]
  BY <1>1 DEF Typed, Tidy, LockSet
<1>2. CASE r = UnlockUsers(w, p)
  <2> DEFINE z == [l \in LockIds |-> ZERO]
  <2> DEFINE f == [l \in LockIds |->
                    IF l \in w.arcs[p].users
                    THEN [w.locks[l] EXCEPT !.lh = ZERO] ELSE w.locks[l]]
  <2>1. f = [l \in LockIds |->
                    IF l \in w.arcs[p].users
                    THEN [w.locks[l] EXCEPT !.lh = z[l]] ELSE w.locks[l]]
    OBVIOUS
  <2>2. \A l \in LockIds : z[l] \in Int /\ z[l] # DANGLING /\ z[l] = ZERO
    BY DEF ZERO, DANGLING
  <2>3. /\ Shape(r) /\ SameCounts(w, r) /\ r.got = w.got /\ r.ok = w.ok
        /\ r.arcs = w.arcs /\ r.cats = w.cats /\ r.locks = f
    BY <1>2 DEF UnlockUsers, Typed, Shape, Fields, SameCounts
  <2> HIDE DEF f, z
  <2>4. /\ f \in [LockIds -> LockSet]
        /\ \A l \in LockIds :
                  /\ f[l].type = w.locks[l].type
                  /\ f[l].path = w.locks[l].path
                  /\ f[l].entry = w.locks[l].entry
                  /\ f[l].lh # DANGLING
                  /\ l \notin UsersIn(w, p) => f[l] = w.locks[l]
                  /\ l \in UsersIn(w, p) => f[l].lh = z[l]
    BY <1>1, <2>1, <2>2
  <2>5. UsersIn(w, p) \subseteq LockIds
    BY DEF UsersIn
  <2>6. Typed(r)
    BY <2>3, <2>4 DEF Typed, SameCounts
  <2> QED BY <2>2, <2>3, <2>4, <2>5, <2>6 DEF SameLock
<1>3. CASE r = RebindUsers(w, p) /\ r # UnlockUsers(w, p)
  <2> DEFINE z == [l \in LockIds |-> lh_arc_lock(w.cats[p], w.locks[l].entry)]
  <2> DEFINE f == [l \in LockIds |->
                    IF l \in w.arcs[p].users
                    THEN [w.locks[l] EXCEPT !.lh = lh_arc_lock(w.cats[p], w.locks[l].entry)]
                    ELSE w.locks[l]]
  <2>1. f = [l \in LockIds |->
                    IF l \in w.arcs[p].users
                    THEN [w.locks[l] EXCEPT !.lh = z[l]] ELSE w.locks[l]]
    OBVIOUS
  <2>2. \A l \in LockIds : z[l] \in Int /\ z[l] # DANGLING
    BY LhLockType
  <2>3. /\ Shape(r) /\ SameCounts(w, r) /\ r.got = w.got /\ r.ok = w.ok
        /\ r.arcs = w.arcs /\ r.cats = w.cats /\ r.locks = f
    BY <1>3 DEF RebindUsers, Typed, Shape, Fields, SameCounts
  <2> HIDE DEF f, z
  <2>4. /\ f \in [LockIds -> LockSet]
        /\ \A l \in LockIds :
                  /\ f[l].type = w.locks[l].type
                  /\ f[l].path = w.locks[l].path
                  /\ f[l].entry = w.locks[l].entry
                  /\ f[l].lh # DANGLING
                  /\ l \notin UsersIn(w, p) => f[l] = w.locks[l]
    BY <1>1, <2>1, <2>2
  <2>5. Typed(r)
    BY <2>3, <2>4 DEF Typed, SameCounts
  <2> QED BY <1>3, <2>3, <2>4, <2>5 DEF SameLock
<1> QED BY <1>2, <1>3

(* lhh_arc_refresh leaves every invariant as it was, bound or not.         *)
LEMMA RefreshGood ==
    ASSUME NEW w, NEW p \in Paths, NEW x, NEW k, NEW j, NEW u,
           Good(w, x, k, j, u), w.arcs[p].ref > 0
    PROVE  LET r == lhh_arc_refresh(w, p) IN
           Good(r, x, k, j, u) /\ Keeps(w, r) /\ r.got = w.got /\ r.arcs[p].ref > 0
<1> DEFINE a == UnlockUsers(w, p)
<1> DEFINE b == CloseReader(a, p)
<1> DEFINE c == lhh_open_archive_mem(b, p)
<1> DEFINE d == RebindUsers(c, p)
<1> DEFINE r == lhh_arc_refresh(w, p)
<1> SUFFICES Good(r, x, k, j, u) /\ Keeps(w, r) /\ r.got = w.got /\ r.arcs[p].ref > 0
  OBVIOUS
<1>1. r = IF c.ok THEN d ELSE c
  BY DEF lhh_arc_refresh
<1>2. /\ Typed(w) /\ Tidy(w) /\ Idle(w)
      /\ \A q \in Paths : w.arcs[q].users = UsersIn(w, q)
  BY DEF Good, Refs
<1>3. /\ Typed(a) /\ SameCounts(w, a) /\ a.got = w.got
      /\ a.arcs = w.arcs /\ a.cats = w.cats
      /\ \A l \in LockIds :
             /\ SameLock(w, a, l)
             /\ a.locks[l].lh # DANGLING
             /\ l \notin UsersIn(w, p) => a.locks[l] = w.locks[l]
      /\ \A l \in UsersIn(w, p) : a.locks[l].lh = ZERO
  BY <1>2, UsersFields
<1> HIDE DEF a
<1>4. \A q \in Paths : UsersIn(a, q) = UsersIn(w, q)
  BY <1>3 DEF SameLock, UsersIn, OnArc
<1>5. /\ Typed(b) /\ SameCounts(a, b) /\ b.locks = a.locks /\ b.got = a.got
      /\ b.arcs = [a.arcs EXCEPT ![p].open = FALSE]
      /\ b.cats = [a.cats EXCEPT ![p] = <<>>]
  <2>1. /\ ~a.arcs[p].open => a.cats[p] = <<>>
        /\ \A l \in UsersIn(a, p) : a.locks[l].lh = ZERO
    BY <1>2, <1>3, <1>4 DEF Idle
  <2> HIDE DEF b
  <2>2. CloseReader(a, p) = b
    BY DEF b
  <2> QED BY <1>3, <2>1, <2>2, CloseReaderFields, Zenon
<1> HIDE DEF b
<1>6. /\ Typed(c) /\ SameCounts(b, c) /\ c.locks = b.locks /\ c.got = b.got
      /\ \/ ~c.ok /\ c.arcs = b.arcs /\ c.cats = b.cats
         \/ /\ c.ok
            /\ c.arcs = [b.arcs EXCEPT ![p].open = TRUE]
            /\ \A q \in Paths \ {p} : c.cats[q] = b.cats[q]
  BY <1>5, OpenFields
<1> HIDE DEF c
<1>7. /\ \A q \in Paths \ {p} : c.arcs[q] = w.arcs[q] /\ c.cats[q] = w.cats[q]
      /\ c.arcs[p].ref = w.arcs[p].ref
      /\ c.arcs[p].users = w.arcs[p].users
      /\ ~c.arcs[p].open => c.cats[p] = <<>>
  BY <1>3, <1>5, <1>6 DEF Typed, ArcSet
<1>8. /\ \A l \in LockIds : SameLock(w, c, l) /\ c.locks[l].lh # DANGLING
                            /\ (l \notin UsersIn(w, p) => c.locks[l] = w.locks[l])
      /\ SameCounts(w, c) /\ c.got = w.got
  BY <1>3, <1>5, <1>6 DEF SameLock, SameCounts
<1>9. UsersIn(c, p) = UsersIn(w, p) /\ Tidy(c)
  BY <1>2, <1>8 DEF SameLock, UsersIn, OnArc, Tidy
<1>10. /\ Typed(d) /\ SameCounts(c, d) /\ d.got = c.got
       /\ d.arcs = c.arcs /\ d.cats = c.cats
       /\ \A l \in LockIds :
              /\ SameLock(c, d, l)
              /\ d.locks[l].lh # DANGLING
              /\ l \notin UsersIn(c, p) => d.locks[l] = c.locks[l]
  BY <1>2, <1>6, <1>7, <1>9, UsersFields
<1> HIDE DEF d
<1>11. /\ Typed(r) /\ SameCounts(w, r) /\ r.got = w.got
       /\ r.arcs = c.arcs /\ r.cats = c.cats
       /\ \A l \in LockIds : SameLock(w, r, l) /\ r.locks[l].lh # DANGLING
                             /\ (l \notin UsersIn(w, p) => r.locks[l] = w.locks[l])
  BY <1>1, <1>6, <1>8, <1>9, <1>10 DEF SameLock, SameCounts
<1> HIDE DEF r
<1>12. Reread(w, r, p)
  <2>1. \A l \in UsersIn(w, p) : w.locks[l].type \in {"ARCHIVE", "ENTRY"}
    BY DEF UsersIn, OnArc
  <2>2. \A q \in Paths : ~w.arcs[q].open => w.cats[q] = <<>>
    BY <1>2 DEF Idle
  <2> QED BY <1>7, <1>11, <2>1, <2>2 DEF Reread, Typed
<1>13. r.arcs[p].ref > 0
  BY <1>7, <1>11
<1> QED BY <1>12, <1>13, RereadGood

(* LhDeleteFile may give an open archive another catalog, no more.         *)
LEMMA DeleteEntryGood ==
    ASSUME NEW w, NEW p \in Paths, NEW n, NEW x, NEW k, NEW j, NEW u,
           Good(w, x, k, j, u), w.arcs[p].ref > 0
    PROVE  LET r == lh_arc_delete_entry(w, p, n) IN
           Good(r, x, k, j, u) /\ Keeps(w, r) /\ r.got = w.got /\ r.arcs[p].ref > 0
<1> DEFINE r == lh_arc_delete_entry(w, p, n)
<1> SUFFICES Good(r, x, k, j, u) /\ Keeps(w, r) /\ r.got = w.got /\ r.arcs[p].ref > 0
  OBVIOUS
<1>1. /\ Shape(r) /\ SameCounts(w, r) /\ r.got = w.got
      /\ r.arcs = w.arcs /\ r.locks = w.locks
  BY DEF Good, Typed, Shape, Fields, SameCounts, lh_arc_delete_entry, Called, Returns
<1>2. r.cats = w.cats \/ (w.arcs[p].open /\ \E z : r.cats = [w.cats EXCEPT ![p] = z])
  BY DEF Good, Typed, Shape, Fields, lh_arc_delete_entry, Called, Returns
<1> HIDE DEF r
<1>3. /\ r.cats = [q \in Paths |-> r.cats[q]]
      /\ \A q \in Paths : q # p => r.cats[q] = w.cats[q]
      /\ w.arcs[p].open \/ r.cats[p] = w.cats[p]
  BY <1>2 DEF Good, Typed
<1>4. Reread(w, r, p)
  BY <1>1, <1>3 DEF Reread, Good, Typed, Idle
<1> QED BY <1>1, <1>4, RereadGood

(* Adding an entry writes the file on disk and nothing else.               *)
LEMMA AppendSame ==
    ASSUME NEW w, NEW p, NEW e, Typed(w)
    PROVE  LET r == LhAppendEntry(w, p, e) IN Same(w, r) /\ r.got = w.got
  BY DEF Typed, Same, Shape, Fields, SameCounts, LhAppendEntry, Called, Returns

(* lhh_arc_commit_write keeps every reference and every lock.              *)
LEMMA CommitGood ==
    ASSUME NEW w, NEW p \in Paths, NEW e, NEW x, NEW k, NEW j, NEW u,
           Good(w, x, k, j, u), w.arcs[p].ref > 0
    PROVE  LET r == lhh_arc_commit_write(w, p, e) IN
           Good(r, x, k, j, u) /\ Keeps(w, r) /\ r.got = w.got /\ r.arcs[p].ref > 0
<1> DEFINE a == UnlockUsers(w, p)
<1> DEFINE b == CloseReader(a, p)
<1> DEFINE c == LhAppendEntry(b, p, e)
<1> DEFINE d == lhh_arc_refresh(c, p)
<1> DEFINE r == lhh_arc_commit_write(w, p, e)
<1> SUFFICES Good(r, x, k, j, u) /\ Keeps(w, r) /\ r.got = w.got /\ r.arcs[p].ref > 0
  OBVIOUS
<1>1. r = IF c.ok THEN d ELSE [d EXCEPT !.ok = FALSE]
  BY DEF lhh_arc_commit_write, Returns
<1>2. /\ Typed(w) /\ Tidy(w) /\ Idle(w)
      /\ \A q \in Paths : w.arcs[q].users = UsersIn(w, q)
  BY DEF Good, Refs
<1>3. /\ Typed(a) /\ SameCounts(w, a) /\ a.got = w.got
      /\ a.arcs = w.arcs /\ a.cats = w.cats
      /\ \A l \in LockIds :
             /\ SameLock(w, a, l)
             /\ a.locks[l].lh # DANGLING
             /\ l \notin UsersIn(w, p) => a.locks[l] = w.locks[l]
      /\ \A l \in UsersIn(w, p) : a.locks[l].lh = ZERO
  BY <1>2, UsersFields
<1> HIDE DEF a
<1>4. \A q \in Paths : UsersIn(a, q) = UsersIn(w, q)
  BY <1>3 DEF SameLock, UsersIn, OnArc
<1>5. /\ Typed(b) /\ SameCounts(a, b) /\ b.locks = a.locks /\ b.got = a.got
      /\ b.arcs = [a.arcs EXCEPT ![p].open = FALSE]
      /\ b.cats = [a.cats EXCEPT ![p] = <<>>]
  <2>1. /\ ~a.arcs[p].open => a.cats[p] = <<>>
        /\ \A l \in UsersIn(a, p) : a.locks[l].lh = ZERO
    BY <1>2, <1>3, <1>4 DEF Idle
  <2> HIDE DEF b
  <2>2. CloseReader(a, p) = b
    BY DEF b
  <2> QED BY <1>3, <2>1, <2>2, CloseReaderFields, Zenon
<1> HIDE DEF b
<1>6. Reread(w, b, p)
  <2>1. /\ \A q \in Paths \ {p} : b.arcs[q] = w.arcs[q] /\ b.cats[q] = w.cats[q]
        /\ b.arcs[p].ref = w.arcs[p].ref
        /\ b.arcs[p].users = w.arcs[p].users
        /\ b.cats[p] = <<>>
    BY <1>2, <1>3, <1>5 DEF Typed, ArcSet
  <2>2. \A l \in UsersIn(w, p) : w.locks[l].type \in {"ARCHIVE", "ENTRY"}
    BY DEF UsersIn, OnArc
  <2>3. \A l \in LockIds : SameLock(w, b, l) /\ b.locks[l].lh # DANGLING
                           /\ (l \notin UsersIn(w, p) => b.locks[l] = w.locks[l])
    BY <1>3, <1>5 DEF SameLock
  <2>4. SameCounts(w, b) /\ b.got = w.got
    BY <1>3, <1>5 DEF SameCounts
  <2> QED BY <1>2, <1>5, <2>1, <2>2, <2>3, <2>4 DEF Reread, Typed, Idle
<1>7. Good(b, x, k, j, u) /\ Keeps(w, b) /\ b.got = w.got /\ b.arcs[p].ref > 0
  BY <1>6, RereadGood DEF Reread
<1>8. Same(b, c) /\ c.got = b.got
  BY <1>5, AppendSame
<1> HIDE DEF c
<1>9. Good(c, x, k, j, u) /\ Keeps(b, c) /\ c.arcs[p].ref > 0
  BY <1>7, <1>8, SameGood DEF Same
<1>10. Good(d, x, k, j, u) /\ Keeps(c, d) /\ d.got = c.got /\ d.arcs[p].ref > 0
  BY <1>9, RefreshGood
<1> HIDE DEF d
<1>11. Same(d, r) /\ r.got = d.got
  BY <1>1, <1>10 DEF Good, Typed, Same, Shape, Fields, SameCounts
<1> HIDE DEF r
<1>12. Good(r, x, k, j, u) /\ Keeps(d, r) /\ r.arcs[p].ref > 0
  BY <1>10, <1>11, SameGood DEF Same
<1> QED BY <1>7, <1>8, <1>9, <1>10, <1>11, <1>12 DEF Keeps, SameLock

(* Obtaining an archive spends one host lock; success adds one reference   *)
(* that no lock holds yet.                                                 *)
LEMMA ObtainGood ==
    ASSUME NEW w, NEW p \in Paths, NEW j \in Int, NEW u \in Int,
           Good(w, p, 0, j, u)
    PROVE  LET r == lhh_arc_obtain(w, p) IN
           /\ Good(r, p, IF r.ok THEN 1 ELSE 0, j - 1, u)
           /\ r.locks = w.locks
           /\ r.got = w.got
           /\ r.ok \in BOOLEAN
<1> DEFINE a == [w EXCEPT !.hostLocks = @ - 1]
<1> DEFINE b == lhh_open_archive_mem(a, p)
<1> DEFINE c == Called(b)
<1> DEFINE d == LhCloseArchive(c, p)
<1> DEFINE e == [d EXCEPT !.ok = FALSE]
<1> DEFINE f == [c EXCEPT !.arcs[p].ref = 1]
<1> DEFINE g == [f EXCEPT !.ok = TRUE]
<1> DEFINE h == [a EXCEPT !.arcs[p].ref = @ + 1]
<1> DEFINE i == [h EXCEPT !.ok = TRUE]
<1> DEFINE r == lhh_arc_obtain(w, p)
<1> SUFFICES /\ Good(r, p, IF r.ok THEN 1 ELSE 0, j - 1, u)
             /\ r.locks = w.locks
             /\ r.got = w.got
             /\ r.ok \in BOOLEAN
  OBVIOUS
<1>1. r = IF w.arcs[p].ref > 0 THEN i
          ELSE IF ~b.ok THEN b
          ELSE IF Fails(b) THEN e
          ELSE g
  BY DEF lhh_arc_obtain, Returns
<1>2. /\ Typed(w) /\ Tidy(w) /\ Idle(w)
      /\ Cardinality(UsersIn(w, p)) \in Nat
      /\ w.arcs[p].ref = Cardinality(UsersIn(w, p))
      /\ w.arcs[p].users = UsersIn(w, p)
  <2>1. Cardinality(UsersIn(w, p)) \in Nat
    BY LocksFinite DEF UsersIn
  <2> QED BY <2>1 DEF Good, Refs
<1>3. /\ Shape(a) /\ a.arcs = w.arcs /\ a.cats = w.cats /\ a.locks = w.locks
      /\ a.got = w.got
      /\ a.hostLocks = w.hostLocks - 1 /\ a.lockCnt = w.lockCnt /\ a.usageCnt = w.usageCnt
  BY <1>2 DEF Typed, Shape, Fields
<1> HIDE DEF r, a
<1>4. Typed(a)
  BY <1>2, <1>3 DEF Typed
\* A world that differs from w in one reference and one host lock.
<1>5. ASSUME NEW y, NEW k \in {0, 1}, Typed(y), y.locks = w.locks,
             \A q \in Paths : q # p => y.arcs[q] = w.arcs[q] /\ y.cats[q] = w.cats[q],
             y.arcs[p].users = w.arcs[p].users,
             y.arcs[p].ref = w.arcs[p].ref + k,
             y.arcs[p].ref = 0 => y.arcs[p] = NoArc,
             ~y.arcs[p].open => y.cats[p] = <<>>,
             y.hostLocks = w.hostLocks - 1, y.lockCnt = w.lockCnt, y.usageCnt = w.usageCnt
      PROVE  Good(y, p, k, j - 1, u)
  <2>1. \A q \in Paths : UsersIn(y, q) = UsersIn(w, q)
    BY <1>5 DEF UsersIn, OnArc
  <2>2. Live(y) = Live(w) /\ Real(y) = Real(w)
    BY <1>5 DEF Live, Real
  <2>3. Tidy(y) /\ Idle(y)
    BY <1>2, <1>5 DEF Tidy, Idle
  <2>4. Refs(y, p, k)
    BY <1>2, <1>5, <2>1 DEF Good, Refs
  <2>5. Counts(y, j - 1, u)
    <3>1. Cardinality(Real(w)) \in Int
      BY LocksFinite DEF Real
    <3> QED BY <1>5, <2>2, <3>1 DEF Good, Counts
  <2> QED BY <1>5, <2>3, <2>4, <2>5 DEF Good
<1>6. CASE w.arcs[p].ref > 0
  <2>1. /\ Shape(h) /\ h.cats = a.cats /\ h.locks = a.locks /\ SameCounts(a, h)
        /\ h.arcs = [a.arcs EXCEPT ![p].ref = @ + 1] /\ h.got = a.got
    BY <1>4 DEF Typed, Shape, Fields, SameCounts
  <2>2. [a.arcs EXCEPT ![p].ref = @ + 1] \in [Paths -> ArcSet]
    BY <1>4 DEF Typed, ArcSet
  <2> HIDE DEF h
  <2>3. /\ Shape(i) /\ i.cats = h.cats /\ i.locks = h.locks /\ SameCounts(h, i)
        /\ i.arcs = h.arcs /\ i.got = h.got /\ i.ok = TRUE
    BY <2>1 DEF Shape, Fields, SameCounts
  <2> HIDE DEF i
  <2>4. Typed(i)
    BY <1>4, <2>1, <2>2, <2>3 DEF Typed, SameCounts
  <2>5. /\ \A q \in Paths : q # p => i.arcs[q] = w.arcs[q] /\ i.cats[q] = w.cats[q]
        /\ i.arcs[p].users = w.arcs[p].users
        /\ i.arcs[p].open = w.arcs[p].open
        /\ i.arcs[p].ref = w.arcs[p].ref + 1
        /\ i.cats[p] = w.cats[p]
    BY <1>2, <1>3, <2>1, <2>3 DEF Typed, ArcSet
  <2>6. /\ i.arcs[p].ref # 0
        /\ ~i.arcs[p].open => i.cats[p] = <<>>
    BY <1>2, <1>6, <2>5 DEF Idle
  <2>7. i.locks = w.locks /\ i.hostLocks = w.hostLocks - 1 /\ i.lockCnt = w.lockCnt
        /\ i.usageCnt = w.usageCnt /\ i.got = w.got
    BY <1>3, <2>1, <2>3 DEF SameCounts
  <2>8. Good(i, p, 1, j - 1, u)
    BY <1>5, <2>4, <2>5, <2>6, <2>7
  <2> QED BY <1>1, <1>6, <2>3, <2>7, <2>8
<1>7. CASE ~(w.arcs[p].ref > 0)
  <2>1. w.arcs[p] = NoArc /\ w.cats[p] = <<>> /\ UsersIn(w, p) = {}
    <3>1. w.arcs[p].ref = 0
      BY <1>2, <1>7
    <3>2. UsersIn(w, p) = {}
      BY <1>2, <3>1, LocksFinite DEF UsersIn
    <3> QED BY <1>2, <3>1, <3>2 DEF Idle, NoArc
  <2>2. /\ Typed(b) /\ SameCounts(a, b) /\ b.locks = a.locks /\ b.got = a.got
        /\ b.ok \in BOOLEAN
        /\ \/ ~b.ok /\ b.arcs = a.arcs /\ b.cats = a.cats
           \/ /\ b.ok
              /\ b.arcs = [a.arcs EXCEPT ![p].open = TRUE]
              /\ \A q \in Paths \ {p} : b.cats[q] = a.cats[q]
    BY <1>4, OpenFields
  <2> HIDE DEF b
  <2>3. CASE ~b.ok
    <3>1. /\ \A q \in Paths : b.arcs[q] = w.arcs[q] /\ b.cats[q] = w.cats[q]
          /\ b.locks = w.locks /\ b.hostLocks = w.hostLocks - 1
          /\ b.lockCnt = w.lockCnt /\ b.usageCnt = w.usageCnt /\ b.got = w.got
      BY <1>3, <2>2, <2>3 DEF SameCounts
    <3>2. Good(b, p, 0, j - 1, u)
      BY <1>2, <1>5, <2>1, <2>2, <3>1 DEF NoArc
    <3> QED BY <1>1, <1>7, <2>2, <2>3, <3>1, <3>2
  <2>4. CASE b.ok
    <3>1. /\ Typed(c) /\ SameCounts(a, c) /\ c.locks = w.locks /\ c.got = w.got
          /\ c.arcs = [a.arcs EXCEPT ![p].open = TRUE]
          /\ \A q \in Paths \ {p} : c.cats[q] = w.cats[q]
      <4>1. /\ Shape(c) /\ SameCounts(b, c) /\ c.locks = b.locks /\ c.got = b.got
            /\ c.arcs = b.arcs /\ c.cats = b.cats
        BY <2>2 DEF Typed, Shape, Fields, SameCounts, Called
      <4> HIDE DEF c
      <4>2. Typed(c)
        BY <2>2, <4>1 DEF Typed, SameCounts
      <4> QED BY <1>3, <2>2, <2>4, <4>1, <4>2 DEF SameCounts
    <3> HIDE DEF c
    <3>2. /\ c.arcs[p].ref = 0 /\ c.arcs[p].open = TRUE /\ c.arcs[p].users = {}
          /\ \A q \in Paths \ {p} : c.arcs[q] = w.arcs[q]
      <4>1. c.arcs = [w.arcs EXCEPT ![p].open = TRUE] /\ w.arcs \in [Paths -> ArcSet]
        BY <1>2, <1>3, <3>1 DEF Typed
      <4>2. c.arcs[p] = [w.arcs[p] EXCEPT !.open = TRUE]
            /\ \A q \in Paths \ {p} : c.arcs[q] = w.arcs[q]
        BY <4>1
      <4> QED BY <2>1, <4>2 DEF NoArc
    <3>3. /\ c.hostLocks = w.hostLocks - 1
          /\ c.lockCnt = w.lockCnt /\ c.usageCnt = w.usageCnt
      BY <1>3, <3>1 DEF SameCounts
    <3>4. CASE Fails(b)
      <4>1. UsersIn(c, p) = {}
        BY <2>1, <3>1 DEF UsersIn, OnArc
      <4>2. /\ Shape(d)
            /\ d.arcs = [c.arcs EXCEPT ![p].open = FALSE]
            /\ d.arcs \in [Paths -> ArcSet]
            /\ d.cats = [c.cats EXCEPT ![p] = <<>>]
            /\ d.locks = c.locks /\ SameCounts(c, d) /\ d.got = c.got
        <5>1. Typed(c) /\ \A l \in UsersIn(c, p) : c.locks[l].lh = ZERO
          BY <3>1, <4>1
        <5> HIDE DEF d
        <5>2. LhCloseArchive(c, p) = d
          BY DEF d
        <5> QED BY <5>1, <5>2, CloseFields, Zenon
      <4> HIDE DEF d
      <4>3. /\ Shape(e) /\ e.arcs = d.arcs /\ e.cats = d.cats /\ e.locks = d.locks
            /\ SameCounts(d, e) /\ e.got = d.got /\ e.ok = FALSE
        BY <4>2 DEF Shape, Fields, SameCounts
      <4> HIDE DEF e
      <4>8. /\ e.arcs[p] \in ArcSet /\ e.arcs[p].ref = 0
            /\ e.arcs[p].open = FALSE /\ e.arcs[p].users = {}
        BY <3>1, <3>2, <4>2, <4>3 DEF Typed, ArcSet
      <4>9. e.arcs[p] = NoArc
        BY <4>8 DEF NoArc, ArcSet
      <4>4. /\ e.cats[p] = <<>>
            /\ \A q \in Paths : q # p => e.arcs[q] = w.arcs[q] /\ e.cats[q] = w.cats[q]
            /\ e.cats = [q \in Paths |-> e.cats[q]]
        BY <3>1, <3>2, <4>2, <4>3 DEF Typed, NoArc
      <4>5. Typed(e)
        BY <3>1, <4>2, <4>3, <4>4 DEF Typed, SameCounts
      <4>6. /\ e.locks = w.locks /\ e.got = w.got /\ e.hostLocks = w.hostLocks - 1
            /\ e.lockCnt = w.lockCnt /\ e.usageCnt = w.usageCnt
        BY <3>1, <3>3, <4>2, <4>3 DEF SameCounts
      <4>7. Good(e, p, 0, j - 1, u)
        BY <1>2, <1>5, <2>1, <4>4, <4>5, <4>6, <4>9 DEF NoArc
      <4> QED BY <1>1, <1>7, <2>4, <3>4, <4>3, <4>6, <4>7
    <3>5. CASE ~Fails(b)
      <4>1. /\ Shape(f) /\ f.cats = c.cats /\ f.locks = c.locks /\ SameCounts(c, f)
            /\ f.arcs = [c.arcs EXCEPT ![p].ref = 1] /\ f.got = c.got
        BY <3>1 DEF Typed, Shape, Fields, SameCounts
      <4>2. [c.arcs EXCEPT ![p].ref = 1] \in [Paths -> ArcSet]
        <5>1. c.arcs \in [Paths -> ArcSet]
          BY <3>1 DEF Typed
        <5> QED BY <5>1 DEF ArcSet
      <4> HIDE DEF f
      <4>3. /\ Shape(g) /\ g.cats = f.cats /\ g.locks = f.locks /\ SameCounts(f, g)
            /\ g.arcs = f.arcs /\ g.got = f.got /\ g.ok = TRUE
        BY <4>1 DEF Shape, Fields, SameCounts
      <4> HIDE DEF g
      <4>4. Typed(g)
        BY <3>1, <4>1, <4>2, <4>3 DEF Typed, SameCounts
      <4>5. /\ g.arcs[p].ref = 1 /\ g.arcs[p].open = TRUE /\ g.arcs[p].users = {}
            /\ \A q \in Paths : q # p => g.arcs[q] = w.arcs[q] /\ g.cats[q] = w.cats[q]
        BY <3>1, <3>2, <4>1, <4>3 DEF Typed, ArcSet
      <4>6. /\ g.locks = w.locks /\ g.got = w.got /\ g.hostLocks = w.hostLocks - 1
            /\ g.lockCnt = w.lockCnt /\ g.usageCnt = w.usageCnt
        BY <3>1, <3>3, <4>1, <4>3 DEF SameCounts
      <4>7. Good(g, p, 1, j - 1, u)
        BY <1>2, <1>5, <2>1, <4>4, <4>5, <4>6 DEF NoArc
      <4> QED BY <1>1, <1>7, <2>4, <3>5, <4>3, <4>6, <4>7
    <3> QED BY <3>4, <3>5
  <2> QED BY <2>3, <2>4
<1> QED BY <1>6, <1>7

-----------------------------------------------------------------------------
(* Locks.                                                                  *)

(* The fields of the world after NewLock.                                  *)
LEMMA NewLockFields ==
    ASSUME NEW w, Typed(w), FreeLocks(w) # {},
           NEW type \in LockTypes, NEW o \in Paths \cup {Volume, NoPath},
           NEW n \in Names \cup {<<>>}, NEW lh \in Int
    PROVE  LET r == NewLock(w, type, o, n, lh) IN
           /\ Typed(r)
           /\ r.got \in LockIds \ Live(w)
           /\ r.arcs = w.arcs /\ r.cats = w.cats
           /\ \A m \in LockIds : m # r.got => r.locks[m] = w.locks[m]
           /\ r.locks[r.got].type = type
           /\ r.locks[r.got].path = o
           /\ r.locks[r.got].lh = lh
           /\ r.hostLocks = w.hostLocks
           /\ r.lockCnt = w.lockCnt + 1
           /\ r.usageCnt = w.usageCnt + 1
<1> DEFINE l == CHOOSE i \in FreeLocks(w) : TRUE
<1> DEFINE k == [type |-> type, path |-> o, entry |-> n, lh |-> lh]
<1> DEFINE r == NewLock(w, type, o, n, lh)
<1>1. l \in FreeLocks(w)
  OBVIOUS
<1>2. l \in LockIds \ Live(w)
  BY <1>1 DEF FreeLocks, Live
<1>3. /\ Shape(r) /\ r.arcs = w.arcs /\ r.cats = w.cats
      /\ r.locks = [w.locks EXCEPT ![l] = k]
      /\ r.hostLocks = w.hostLocks
      /\ r.lockCnt = w.lockCnt + 1
      /\ r.usageCnt = w.usageCnt + 1
      /\ r.got = l
  BY DEF NewLock, Typed, Shape, Fields
<1>4. k \in LockSet /\ k.type = type /\ k.path = o /\ k.lh = lh
  BY DEF LockSet
<1> HIDE DEF r, l, k
<1>5. /\ r.locks \in [LockIds -> LockSet]
      /\ r.locks[l] = k
      /\ \A m \in LockIds : m # l => r.locks[m] = w.locks[m]
  BY <1>2, <1>3, <1>4 DEF Typed
<1>6. Typed(r)
  BY <1>3, <1>5 DEF Typed
<1>7. /\ r.got \in LockIds \ Live(w)
      /\ \A m \in LockIds : m # r.got => r.locks[m] = w.locks[m]
      /\ r.locks[r.got].type = type
      /\ r.locks[r.got].path = o
      /\ r.locks[r.got].lh = lh
  BY <1>2, <1>3, <1>4, <1>5
<1> QED BY <1>3, <1>6, <1>7 DEF r

(* One more lock, with whatever it refers to accounted for.                *)
LEMMA OneMore ==
    ASSUME NEW w, NEW x, NEW k \in Int, NEW j \in Int, NEW u \in Int,
           Good(w, x, k, j, u),
           NEW y, Typed(y), Idle(y), y.got \in LockIds \ Live(w),
           \A m \in LockIds : m # y.got => y.locks[m] = w.locks[m],
           y.locks[y.got].type # "free", y.locks[y.got].lh # DANGLING,
           y.locks[y.got].type \in {"ARCHIVE", "ENTRY"} => y.locks[y.got].path \in Paths,
           y.locks[y.got].type = "REAL" => y.locks[y.got].path \in Paths \cup {Volume},
           y.hostLocks = w.hostLocks,
           y.lockCnt = w.lockCnt + 1,
           y.usageCnt = w.usageCnt + 1
    PROVE  /\ Tidy(y)
           /\ Counts(y, IF y.locks[y.got].type = "REAL" THEN j - 1 ELSE j, u)
           /\ Grants(w, y)
           /\ \A q \in Paths :
                  IF OnArc(y, y.got, q)
                  THEN /\ UsersIn(y, q) = UsersIn(w, q) \cup {y.got}
                       /\ Cardinality(UsersIn(y, q)) = Cardinality(UsersIn(w, q)) + 1
                  ELSE UsersIn(y, q) = UsersIn(w, q)
<1>1. /\ Live(y) = Live(w) \cup {y.got}
      /\ y.got # NoLock
      /\ Cardinality(Live(y)) = Cardinality(Live(w)) + 1
      /\ Cardinality(Live(w)) \in Nat
      /\ Cardinality(Real(w)) \in Nat
  <2>1. Live(y) = Live(w) \cup {y.got} /\ Live(w) \in SUBSET LockIds
    BY DEF Live
  <2>2. Cardinality(Live(w) \cup {y.got}) = Cardinality(Live(w)) + 1
    BY <2>1, CardAdd
  <2>3. Cardinality(Live(w)) \in Nat /\ Cardinality(Real(w)) \in Nat
    BY LocksFinite DEF Live, Real
  <2> QED BY <2>1, <2>2, <2>3, LocksAssumption
<1>2. Tidy(y)
  <2> SUFFICES ASSUME NEW l \in LockIds
               PROVE  /\ y.locks[l].lh # DANGLING
                      /\ y.locks[l].type = "free" => y.locks[l] = FreeLock
                      /\ y.locks[l].type \in {"ARCHIVE", "ENTRY"} => y.locks[l].path \in Paths
                      /\ y.locks[l].type = "REAL" => y.locks[l].path \in Paths \cup {Volume}
    BY DEF Tidy
  <2> QED BY DEF Good, Tidy
<1>3. Grants(w, y)
  <2>1. \A l \in Live(w) : SameLock(w, y, l)
    BY DEF SameLock, Live
  <2> QED BY <1>1, <2>1 DEF Grants
<1>4. ASSUME y.locks[y.got].type = "REAL" PROVE Counts(y, j - 1, u)
  <2>1. Real(y) = Real(w) \cup {y.got} /\ Real(w) \in SUBSET LockIds /\ y.got \notin Real(w)
    BY <1>4 DEF Real, Live
  <2>2. Cardinality(Real(y)) = Cardinality(Real(w)) + 1
    BY <2>1, CardAdd
  <2> QED BY <1>1, <2>2 DEF Good, Counts
<1>5. ASSUME y.locks[y.got].type # "REAL" PROVE Counts(y, j, u)
  <2>1. Real(y) = Real(w)
    BY <1>5 DEF Real, Live
  <2> QED BY <1>1, <2>1 DEF Good, Counts
<1>6. Counts(y, IF y.locks[y.got].type = "REAL" THEN j - 1 ELSE j, u)
  BY <1>4, <1>5
<1>7. ASSUME NEW q \in Paths
      PROVE  IF OnArc(y, y.got, q)
             THEN /\ UsersIn(y, q) = UsersIn(w, q) \cup {y.got}
                  /\ Cardinality(UsersIn(y, q)) = Cardinality(UsersIn(w, q)) + 1
             ELSE UsersIn(y, q) = UsersIn(w, q)
  <2>1. y.got \notin UsersIn(w, q) /\ UsersIn(w, q) \in SUBSET LockIds
    BY DEF UsersIn, OnArc, Live
  <2>2. CASE OnArc(y, y.got, q)
    <3>1. UsersIn(y, q) = UsersIn(w, q) \cup {y.got}
      BY <2>2 DEF UsersIn, OnArc
    <3> QED BY <2>1, <2>2, <3>1, CardAdd
  <2>3. CASE ~OnArc(y, y.got, q)
    <3>1. UsersIn(y, q) = UsersIn(w, q)
      BY <2>1, <2>3 DEF UsersIn, OnArc
    <3> QED BY <2>3, <3>1
  <2> QED BY <2>2, <2>3
<1> QED BY <1>2, <1>3, <1>6, <1>7

(* A packet that returns no lock has granted nothing.                      *)
LEMMA NullGrants ==
    ASSUME NEW w, NEW r, Keeps(w, r), r.got = NoLock
    PROVE  Grants(w, r)
  BY DEF Keeps, Grants, SameLock, Live

(* A ROOT or VINFO lock needs no reference.                                *)
LEMMA AllocPlainGood ==
    ASSUME NEW w, NEW x, NEW k \in Int, NEW j \in Int, NEW u \in Int,
           Good(w, x, k, j, u),
           NEW type \in {"ROOT", "VINFO"}, NEW o \in Paths \cup {Volume, NoPath},
           NEW n \in Names \cup {<<>>}
    PROVE  LET r == AllocPlain(w, type, o, n) IN
           /\ Good(r, x, k, j, u)
           /\ Grants(w, r)
<1> DEFINE v == Called(w)
<1> DEFINE f == Null(v)
<1> DEFINE y == NewLock(v, type, o, n, ZERO)
<1> DEFINE r == AllocPlain(w, type, o, n)
<1> SUFFICES Good(r, x, k, j, u) /\ Grants(w, r)
  OBVIOUS
<1>1. r = IF Fails(w) \/ FreeLocks(w) = {} THEN f ELSE y
  BY DEF AllocPlain
<1>2. Same(w, v) /\ Same(w, f) /\ f.got = NoLock
  BY DEF Called, Null, Good, Typed, Same, Shape, Fields, SameCounts
<1> HIDE DEF v, f, r
<1>3. Good(v, x, k, j, u) /\ Keeps(w, v) /\ v.locks = w.locks
  BY <1>2, SameGood DEF Same
<1>4. CASE r = f
  BY <1>2, <1>4, SameGood, NullGrants
<1>5. CASE FreeLocks(w) # {} /\ r = y
  <2>1. FreeLocks(v) # {} /\ type \in LockTypes /\ ZERO \in Int
    BY <1>3, <1>5 DEF FreeLocks, LockTypes, ZERO
  <2>2. /\ Typed(y)
        /\ y.got \in LockIds \ Live(v)
        /\ y.arcs = v.arcs /\ y.cats = v.cats
        /\ \A m \in LockIds : m # y.got => y.locks[m] = v.locks[m]
        /\ y.locks[y.got].type = type
        /\ y.locks[y.got].lh = ZERO
        /\ y.hostLocks = v.hostLocks
        /\ y.lockCnt = v.lockCnt + 1
        /\ y.usageCnt = v.usageCnt + 1
    <3>1. Typed(v)
      BY <1>3 DEF Good
    <3>2. o \in Paths \cup {Volume, NoPath} /\ n \in Names \cup {<<>>}
      OBVIOUS
    <3> HIDE DEF y
    <3>3. NewLock(v, type, o, n, ZERO) = y
      BY DEF y
    <3> QED BY <2>1, <3>1, <3>2, <3>3, NewLockFields
  <2> HIDE DEF y
  <2>3. Idle(y)
    BY <1>3, <2>2 DEF Good, Idle
  <2>4. ~OnArc(y, y.got, x) /\ \A q \in Paths : ~OnArc(y, y.got, q)
    BY <2>2 DEF OnArc
  <2>5. /\ Tidy(y) /\ Counts(y, j, u) /\ Grants(v, y)
        /\ \A q \in Paths : UsersIn(y, q) = UsersIn(v, q)
    BY <1>3, <2>2, <2>3, <2>4, OneMore DEF ZERO, DANGLING
  <2>6. Refs(y, x, k)
    BY <1>3, <2>2, <2>5 DEF Good, Refs
  <2>7. Grants(w, y)
    BY <1>3, <2>5 DEF Grants, Live, SameLock
  <2> QED BY <1>5, <2>2, <2>3, <2>5, <2>6, <2>7 DEF Good
<1> QED BY <1>1, <1>4, <1>5

(* A REAL lock takes over the host lock in transit.                        *)
LEMMA AllocRealGood ==
    ASSUME NEW w, NEW x, NEW k \in Int, NEW j \in Int, NEW u \in Int,
           Good(w, x, k, j, u), NEW o \in Paths \cup {Volume}
    PROVE  LET r == AllocReal(w, o) IN
           /\ Good(r, x, k, j - 1, u)
           /\ Grants(w, r)
<1> DEFINE v == Called(w)
<1> DEFINE g == [v EXCEPT !.hostLocks = @ - 1]
<1> DEFINE f == Null(g)
<1> DEFINE y == NewLock(v, "REAL", o, <<>>, ZERO)
<1> DEFINE r == AllocReal(w, o)
<1> SUFFICES Good(r, x, k, j - 1, u) /\ Grants(w, r)
  OBVIOUS
<1>1. r = IF Fails(w) \/ FreeLocks(w) = {} THEN f ELSE y
  BY DEF AllocReal
<1>2. /\ Same(w, v)
      /\ Shape(f) /\ f.arcs = w.arcs /\ f.cats = w.cats /\ f.locks = w.locks
      /\ f.hostLocks = w.hostLocks - 1 /\ f.lockCnt = w.lockCnt /\ f.usageCnt = w.usageCnt
      /\ f.got = NoLock
  BY DEF Called, Null, Good, Typed, Same, Shape, Fields, SameCounts
<1> HIDE DEF v, f, r
<1>3. Good(v, x, k, j, u) /\ Keeps(w, v) /\ v.locks = w.locks
  BY <1>2, SameGood DEF Same
<1>4. CASE r = f
  <2>1. /\ \A q \in Paths : UsersIn(f, q) = UsersIn(w, q)
        /\ Live(f) = Live(w) /\ Real(f) = Real(w)
    BY <1>2 DEF UsersIn, OnArc, Live, Real
  <2>2. Typed(f) /\ Tidy(f) /\ Idle(f)
    BY <1>2 DEF Good, Typed, Tidy, Idle
  <2>3. Cardinality(Real(w)) \in Nat
    BY LocksFinite DEF Real
  <2>4. Refs(f, x, k)
    BY <1>2, <2>1 DEF Good, Refs
  <2>5. Counts(f, j - 1, u)
    BY <1>2, <2>1, <2>3 DEF Good, Counts
  <2>6. Keeps(w, f)
    BY <1>2 DEF Keeps, SameLock
  <2> QED BY <1>2, <1>4, <2>2, <2>4, <2>5, <2>6, NullGrants DEF Good
<1>5. CASE FreeLocks(w) # {} /\ r = y
  <2>1. FreeLocks(v) # {} /\ "REAL" \in LockTypes /\ ZERO \in Int
    BY <1>3, <1>5 DEF FreeLocks, LockTypes, ZERO
  <2>2. /\ Typed(y)
        /\ y.got \in LockIds \ Live(v)
        /\ y.arcs = v.arcs /\ y.cats = v.cats
        /\ \A m \in LockIds : m # y.got => y.locks[m] = v.locks[m]
        /\ y.locks[y.got].type = "REAL"
        /\ y.locks[y.got].path = o
        /\ y.locks[y.got].lh = ZERO
        /\ y.hostLocks = v.hostLocks
        /\ y.lockCnt = v.lockCnt + 1
        /\ y.usageCnt = v.usageCnt + 1
    <3>1. Typed(v)
      BY <1>3 DEF Good
    <3>2. o \in Paths \cup {Volume, NoPath} /\ <<>> \in Names \cup {<<>>}
      OBVIOUS
    <3> HIDE DEF y
    <3> DEFINE t == "REAL"
    <3> DEFINE n == <<>>
    <3>3. NewLock(v, t, o, n, ZERO) = y /\ t = "REAL"
      BY DEF y
    <3>4. t \in LockTypes /\ n \in Names \cup {<<>>}
      BY <2>1
    <3> HIDE DEF t, n
    <3> QED BY <2>1, <3>1, <3>2, <3>3, <3>4, NewLockFields
  <2> HIDE DEF y
  <2>3. Idle(y)
    BY <1>3, <2>2 DEF Good, Idle
  <2>4. \A q \in Paths : ~OnArc(y, y.got, q)
    BY <2>2 DEF OnArc
  <2>5. /\ Tidy(y) /\ Counts(y, j - 1, u) /\ Grants(v, y)
        /\ \A q \in Paths : UsersIn(y, q) = UsersIn(v, q)
    BY <1>3, <2>2, <2>3, <2>4, OneMore DEF ZERO, DANGLING
  <2>6. Refs(y, x, k)
    BY <1>3, <2>2, <2>5 DEF Good, Refs
  <2>7. Grants(w, y)
    BY <1>3, <2>5 DEF Grants, Live, SameLock
  <2> QED BY <1>5, <2>2, <2>3, <2>5, <2>6, <2>7 DEF Good
<1> QED BY <1>1, <1>4, <1>5

(* The reference handed over becomes the new lock's, or is given back.     *)
LEMMA AllocInArchiveGood ==
    ASSUME NEW w, NEW p \in Paths, NEW j \in Int, NEW u \in Int,
           Good(w, p, 1, j, u), NEW n \in Names \cup {<<>>}
    PROVE  LET r == AllocInArchive(w, p, n) IN
           /\ Good(r, p, 0, j, u)
           /\ Grants(w, r)
           /\ r.got = NoLock \/ r.locks[r.got].type \in {"ARCHIVE", "ENTRY"}
<1> DEFINE v == Called(w)
<1> DEFINE lh == LhLock(w, p, n)
<1> DEFINE type == IF n = <<>> THEN "ARCHIVE" ELSE "ENTRY"
<1> DEFINE z == lhh_arc_release(v, p)
<1> DEFINE f == Null(z)
<1> DEFINE y == NewLock(v, type, p, n, lh)
<1> DEFINE g == [y EXCEPT !.arcs[p].users = @ \cup {y.got}]
<1> DEFINE r == AllocInArchive(w, p, n)
<1> SUFFICES /\ Good(r, p, 0, j, u)
             /\ Grants(w, r)
             /\ r.got = NoLock \/ r.locks[r.got].type \in {"ARCHIVE", "ENTRY"}
  OBVIOUS
<1>1. r = IF Fails(w) \/ FreeLocks(w) = {} \/ lh = ZERO THEN f ELSE g
  BY DEF AllocInArchive
<1>2. Same(w, v)
  BY DEF Called, Good, Typed, Same, Shape, Fields, SameCounts
<1>3. lh \in Int /\ lh # DANGLING
  BY LhLockType DEF LhLock, ZERO, DANGLING
<1>4. type \in LockTypes /\ type \in {"ARCHIVE", "ENTRY"}
  BY DEF LockTypes
<1> HIDE DEF v, lh, type, r
<1>5. Good(v, p, 1, j, u) /\ Keeps(w, v) /\ v.locks = w.locks
  BY <1>2, SameGood DEF Same
<1>6. CASE r = f
  <2>1. Good(z, p, 0, j, u) /\ z.locks = v.locks
    BY <1>5, ReleaseGood
  <2> HIDE DEF z
  <2>2. Same(z, f) /\ f.got = NoLock
    BY <2>1 DEF Null, Good, Typed, Same, Shape, Fields, SameCounts
  <2> HIDE DEF f
  <2>3. Good(f, p, 0, j, u)
    BY <2>1, <2>2, SameGood
  <2>4. Keeps(w, f)
    BY <1>5, <2>1, <2>2 DEF Keeps, SameLock, Same
  <2> QED BY <1>6, <2>2, <2>3, <2>4, NullGrants
<1>7. CASE FreeLocks(w) # {} /\ r = g
  <2>1. FreeLocks(v) # {}
    BY <1>5, <1>7 DEF FreeLocks
  <2>2. /\ Typed(y)
        /\ y.got \in LockIds \ Live(v)
        /\ y.arcs = v.arcs /\ y.cats = v.cats
        /\ \A m \in LockIds : m # y.got => y.locks[m] = v.locks[m]
        /\ y.locks[y.got].type = type
        /\ y.locks[y.got].path = p
        /\ y.locks[y.got].lh = lh
        /\ y.hostLocks = v.hostLocks
        /\ y.lockCnt = v.lockCnt + 1
        /\ y.usageCnt = v.usageCnt + 1
    BY <1>3, <1>4, <1>5, <2>1, NewLockFields DEF Good
  <2> HIDE DEF y
  <2>3. /\ Shape(g) /\ g.cats = y.cats /\ g.locks = y.locks /\ SameCounts(y, g)
        /\ g.arcs = [y.arcs EXCEPT ![p].users = @ \cup {y.got}] /\ g.got = y.got
    BY <2>2 DEF Typed, Shape, Fields, SameCounts
  <2>4. [y.arcs EXCEPT ![p].users = @ \cup {y.got}] \in [Paths -> ArcSet]
    <3>1. y.arcs \in [Paths -> ArcSet]
      BY <2>2 DEF Typed
    <3> QED BY <2>2, <3>1 DEF ArcSet
  <2> HIDE DEF g
  <2>5. /\ g.arcs[p].ref = v.arcs[p].ref
        /\ g.arcs[p].open = v.arcs[p].open
        /\ g.arcs[p].users = v.arcs[p].users \cup {g.got}
        /\ \A q \in Paths : q # p => g.arcs[q] = v.arcs[q]
    <3>1. v.arcs \in [Paths -> ArcSet]
      BY <1>5 DEF Good, Typed
    <3> QED BY <2>2, <2>3, <3>1 DEF ArcSet
  <2>6. Typed(g)
    BY <2>2, <2>3, <2>4 DEF Typed, SameCounts
  <2>7. v.arcs[p].ref > 0
    <3>1. Cardinality(UsersIn(v, p)) \in Nat
      BY LocksFinite DEF UsersIn
    <3> QED BY <1>5, <3>1 DEF Good, Refs
  <2>8. Idle(g)
    BY <1>5, <2>2, <2>3, <2>5, <2>7 DEF Good, Idle
  <2>9. /\ g.got \in LockIds \ Live(v)
        /\ \A m \in LockIds : m # g.got => g.locks[m] = v.locks[m]
        /\ g.locks[g.got].type \in {"ARCHIVE", "ENTRY"}
        /\ g.locks[g.got].path = p
        /\ g.locks[g.got].lh # DANGLING
        /\ g.hostLocks = v.hostLocks
        /\ g.lockCnt = v.lockCnt + 1
        /\ g.usageCnt = v.usageCnt + 1
    BY <1>3, <1>4, <2>2, <2>3 DEF SameCounts
  <2>10. OnArc(g, g.got, p) /\ \A q \in Paths : q # p => ~OnArc(g, g.got, q)
    BY <2>9 DEF OnArc
  <2>11. /\ Tidy(g) /\ Counts(g, j, u) /\ Grants(v, g)
         /\ \A q \in Paths : q # p => UsersIn(g, q) = UsersIn(v, q)
         /\ UsersIn(g, p) = UsersIn(v, p) \cup {g.got}
         /\ Cardinality(UsersIn(g, p)) = Cardinality(UsersIn(v, p)) + 1
    BY <1>5, <2>6, <2>8, <2>9, <2>10, OneMore
  <2>12. Refs(g, p, 0)
    <3>1. Cardinality(UsersIn(v, p)) \in Nat
      BY LocksFinite DEF UsersIn
    <3>2. /\ v.arcs[p].ref = Cardinality(UsersIn(v, p)) + 1
          /\ v.arcs[p].users = UsersIn(v, p)
          /\ \A q \in Paths : q # p => /\ v.arcs[q].ref = Cardinality(UsersIn(v, q)) + 0
                                      /\ v.arcs[q].users = UsersIn(v, q)
      BY <1>5 DEF Good, Refs
    <3>3. /\ g.arcs[p].ref = Cardinality(UsersIn(g, p)) + 0
          /\ g.arcs[p].users = UsersIn(g, p)
          /\ \A q \in Paths : q # p => /\ g.arcs[q].ref = Cardinality(UsersIn(g, q)) + 0
                                      /\ g.arcs[q].users = UsersIn(g, q)
      BY <2>5, <2>11, <3>1, <3>2
    <3> QED BY <3>3 DEF Refs
  <2>13. Grants(w, g)
    BY <1>5, <2>11 DEF Grants, Live, SameLock
  <2> QED BY <1>7, <2>6, <2>8, <2>9, <2>11, <2>12, <2>13 DEF Good
<1> QED BY <1>1, <1>6, <1>7

(* With nothing in transit the archive named does not matter.              *)
LEMMA NoneInTransit ==
    ASSUME NEW w, NEW x, NEW y, NEW j, NEW u, Good(w, x, 0, j, u)
    PROVE  Good(w, y, 0, j, u)
<1>1. Refs(w, y, 0)
  BY DEF Good, Refs
<1> QED BY <1>1 DEF Good

(* Freeing a lock gives back exactly what it refers to.                    *)
LEMMA FreeGood ==
    ASSUME NEW w, NEW x, NEW k \in Nat, NEW j \in Int, NEW u \in Int,
           Good(w, x, k, j, u), NEW l \in Live(w),
           k = 0 \/ w.locks[l].type \notin {"ARCHIVE", "ENTRY"} \/ w.locks[l].path = x
    PROVE  LET r == lhh_lock_free(w, l) IN
           /\ Good(r, x, k, j, u)
           /\ Frees(w, r, l)
           /\ r.got = w.got
<1> DEFINE p == w.locks[l].path
<1> DEFINE type == w.locks[l].type
<1> DEFINE v == [w EXCEPT !.locks[l] = FreeLock, !.lockCnt = @ - 1, !.usageCnt = @ - 1]
<1> DEFINE h == [v EXCEPT !.hostLocks = @ - 1]
<1> DEFINE y == [v EXCEPT !.arcs[p].users = @ \ {l}]
<1> DEFINE z == lhh_arc_release(y, p)
<1> DEFINE r == lhh_lock_free(w, l)
<1> SUFFICES Good(r, x, k, j, u) /\ Frees(w, r, l) /\ r.got = w.got
  OBVIOUS
<1>1. /\ type = "REAL" => r = h
      /\ type \in {"ARCHIVE", "ENTRY"} => r = z
      /\ type \notin {"REAL", "ARCHIVE", "ENTRY"} => r = v
  BY DEF lhh_lock_free
<1>2. /\ Shape(v) /\ v.arcs = w.arcs /\ v.cats = w.cats
      /\ v.locks = [w.locks EXCEPT ![l] = FreeLock]
      /\ v.hostLocks = w.hostLocks
      /\ v.lockCnt = w.lockCnt - 1
      /\ v.usageCnt = w.usageCnt - 1
      /\ v.got = w.got
  BY DEF Good, Typed, Shape, Fields
<1>3. /\ FreeLock \in LockSet /\ FreeLock.type = "free" /\ FreeLock.lh # DANGLING
  BY DEF FreeLock, LockSet, LockTypes, ZERO, DANGLING
<1>4. l \in LockIds /\ type # "free"
  BY DEF Live
<1>5. /\ v.locks \in [LockIds -> LockSet]
      /\ v.locks[l] = FreeLock
      /\ \A m \in LockIds : m # l => v.locks[m] = w.locks[m]
  <2>1. w.locks \in [LockIds -> LockSet]
    BY DEF Good, Typed
  <2> QED BY <1>2, <1>3, <1>4, <2>1
<1>6. Cardinality(Live(w)) \in Nat /\ Cardinality(Real(w)) \in Nat
  BY LocksFinite DEF Live, Real
<1> HIDE DEF v, r
<1>7. Typed(v) /\ Tidy(v) /\ Idle(v)
  <2>1. Typed(v)
    BY <1>2, <1>5 DEF Good, Typed
  <2>2. Tidy(v)
    BY <1>3, <1>5 DEF Good, Tidy
  <2> QED BY <1>2, <2>1, <2>2 DEF Good, Idle
<1>8. Live(v) = Live(w) \ {l} /\ Cardinality(Live(v)) = Cardinality(Live(w)) - 1
  <2>1. Live(v) = Live(w) \ {l} /\ Live(w) \in SUBSET LockIds
    BY <1>3, <1>4, <1>5 DEF Live
  <2> QED BY <2>1, CardRemove
<1>9. \A q \in Paths : UsersIn(v, q) = UsersIn(w, q) \ {l}
  BY <1>3, <1>4, <1>5 DEF UsersIn, OnArc
<1>10. Frees(w, v, l)
  BY <1>3, <1>5 DEF Frees, SameLock
<1>11. CASE type = "REAL"
  <2>1. Real(v) = Real(w) \ {l} /\ Cardinality(Real(v)) = Cardinality(Real(w)) - 1
    <3>1. Real(v) = Real(w) \ {l} /\ Real(w) \in SUBSET LockIds /\ l \in Real(w)
      BY <1>3, <1>4, <1>5, <1>11 DEF Real
    <3> QED BY <3>1, CardRemove
  <2>2. /\ Shape(h) /\ h.arcs = v.arcs /\ h.cats = v.cats /\ h.locks = v.locks
        /\ h.hostLocks = w.hostLocks - 1 /\ h.lockCnt = v.lockCnt
        /\ h.usageCnt = v.usageCnt /\ h.got = w.got
    BY <1>2 DEF Shape, Fields
  <2> HIDE DEF h
  <2>3. Typed(h) /\ Tidy(h) /\ Idle(h)
    BY <1>7, <2>2 DEF Good, Typed, Tidy, Idle
  <2>4. /\ Live(h) = Live(v) /\ Real(h) = Real(v)
        /\ \A q \in Paths : UsersIn(h, q) = UsersIn(v, q)
    BY <2>2 DEF Live, Real, UsersIn, OnArc
  <2>5. Counts(h, j, u)
    BY <1>2, <1>6, <1>8, <2>1, <2>2, <2>4 DEF Good, Counts
  <2>6. \A q \in Paths : l \notin UsersIn(w, q)
    BY <1>11 DEF UsersIn, OnArc
  <2>7. Refs(h, x, k)
    <3>1. \A q \in Paths : UsersIn(h, q) = UsersIn(w, q)
      BY <1>9, <2>4, <2>6
    <3> QED BY <1>2, <2>2, <3>1 DEF Good, Refs
  <2>8. Frees(w, h, l)
    BY <1>10, <2>2 DEF Frees, SameLock
  <2> QED BY <1>1, <1>11, <2>2, <2>3, <2>5, <2>7, <2>8 DEF Good
<1>12. CASE type \notin {"REAL", "ARCHIVE", "ENTRY"}
  <2>1. Real(v) = Real(w)
    BY <1>3, <1>4, <1>5, <1>12 DEF Real
  <2>2. \A q \in Paths : UsersIn(v, q) = UsersIn(w, q)
    <3>1. \A q \in Paths : l \notin UsersIn(w, q)
      BY <1>12 DEF UsersIn, OnArc
    <3> QED BY <1>9, <3>1
  <2>3. Counts(v, j, u)
    BY <1>2, <1>6, <1>8, <2>1 DEF Good, Counts
  <2>4. Refs(v, x, k)
    BY <1>2, <2>2 DEF Good, Refs
  <2> QED BY <1>1, <1>2, <1>7, <1>10, <1>12, <2>3, <2>4 DEF Good
<1>13. CASE type \in {"ARCHIVE", "ENTRY"}
  <2>1. p \in Paths /\ (k = 0 \/ p = x)
    BY <1>4, <1>13 DEF Good, Tidy
  <2>2. Refs(w, p, k)
    BY <2>1 DEF Good, Refs
  <2>3. UsersIn(v, p) = UsersIn(w, p) \ {l}
        /\ Cardinality(UsersIn(v, p)) = Cardinality(UsersIn(w, p)) - 1
        /\ Cardinality(UsersIn(w, p)) \in Nat
        /\ w.arcs[p].ref > 0
    <3>1. l \in UsersIn(w, p) /\ UsersIn(w, p) \in SUBSET LockIds
      BY <1>4, <1>13 DEF UsersIn, OnArc
    <3>2. Cardinality(UsersIn(w, p)) \in Nat /\ Cardinality(UsersIn(w, p)) # 0
      BY <3>1, LocksFinite
    <3>3. w.arcs[p].ref > 0
      BY <2>1, <2>2, <3>2 DEF Refs
    <3> QED BY <1>9, <2>1, <3>1, <3>2, <3>3, CardRemove
  <2>4. \A q \in Paths : q # p => UsersIn(v, q) = UsersIn(w, q)
    <3>1. \A q \in Paths : q # p => l \notin UsersIn(w, q)
      BY DEF UsersIn, OnArc
    <3> QED BY <1>9, <3>1
  <2>5. Real(v) = Real(w)
    BY <1>3, <1>4, <1>5, <1>13 DEF Real
  <2>6. /\ Shape(y) /\ y.cats = v.cats /\ y.locks = v.locks /\ SameCounts(v, y)
        /\ y.arcs = [v.arcs EXCEPT ![p].users = @ \ {l}] /\ y.got = v.got
    BY <1>2 DEF Shape, Fields, SameCounts
  <2> HIDE DEF y
  <2>7. /\ y.arcs \in [Paths -> ArcSet]
        /\ y.arcs[p].ref = w.arcs[p].ref
        /\ y.arcs[p].open = w.arcs[p].open
        /\ y.arcs[p].users = w.arcs[p].users \ {l}
        /\ \A q \in Paths : q # p => y.arcs[q] = w.arcs[q]
    <3>1. w.arcs \in [Paths -> ArcSet]
      BY DEF Good, Typed
    <3>2. y.arcs = [w.arcs EXCEPT ![p].users = @ \ {l}]
      BY <1>2, <2>6
    <3> HIDE DEF p
    <3>3. [w.arcs EXCEPT ![p].users = @ \ {l}] \in [Paths -> ArcSet]
      BY <2>1, <3>1 DEF ArcSet
    <3> QED BY <2>1, <3>1, <3>2, <3>3 DEF ArcSet
  <2>8. Typed(y)
    BY <1>7, <2>6, <2>7 DEF Typed, SameCounts
  <2>9. Tidy(y)
    <3>1. y.locks = v.locks
      BY <2>6
    <3> QED BY <1>7, <3>1 DEF Tidy
  <2>10. Idle(y)
    <3>1. y.cats = w.cats
      BY <1>2, <2>6
    <3>2. Idle(w)
      BY DEF Good
    <3> HIDE DEF p
    <3>3. y.arcs[p].ref # 0
      BY <2>3, <2>7
    <3> QED BY <2>7, <3>1, <3>2, <3>3 DEF Idle
  <2>11. /\ Live(y) = Live(v) /\ Real(y) = Real(v)
         /\ \A q \in Paths : UsersIn(y, q) = UsersIn(v, q)
    BY <2>6 DEF Live, Real, UsersIn, OnArc
  <2>12. Counts(y, j, u)
    BY <1>2, <1>6, <1>8, <2>5, <2>6, <2>11 DEF Good, Counts, SameCounts
  <2>13. Refs(y, p, k + 1)
    <3>1. /\ y.arcs[p].ref = Cardinality(UsersIn(y, p)) + (k + 1)
          /\ y.arcs[p].users = UsersIn(y, p)
      <4>1. /\ w.arcs[p].ref = Cardinality(UsersIn(w, p)) + k
            /\ w.arcs[p].users = UsersIn(w, p)
        BY <2>1, <2>2 DEF Refs
      <4>2. UsersIn(y, p) = UsersIn(v, p)
        BY <2>1, <2>11
      <4> HIDE DEF p
      <4> QED BY <2>3, <2>7, <4>1, <4>2
    <3>2. \A q \in Paths : q # p =>
             /\ y.arcs[q].ref = Cardinality(UsersIn(y, q)) + 0
             /\ y.arcs[q].users = UsersIn(y, q)
      <4>1. SUFFICES ASSUME NEW q \in Paths, q # p
                     PROVE  /\ y.arcs[q].ref = Cardinality(UsersIn(y, q)) + 0
                            /\ y.arcs[q].users = UsersIn(y, q)
        OBVIOUS
      <4>2. /\ w.arcs[q].users = UsersIn(w, q)
            /\ w.arcs[q].ref = Cardinality(UsersIn(w, q)) + (IF q = p THEN k ELSE 0)
        BY <2>2, <4>1 DEF Refs
      <4>3. UsersIn(y, q) = UsersIn(w, q) /\ y.arcs[q] = w.arcs[q]
        BY <2>4, <2>7, <2>11, <4>1
      <4> HIDE DEF p
      <4> QED BY <4>1, <4>2, <4>3
    <3> QED BY <3>1, <3>2 DEF Refs
  <2> HIDE DEF p
  <2>14. Good(y, p, k + 1, j, u)
    BY <2>8, <2>9, <2>10, <2>12, <2>13 DEF Good
  <2>15. Good(z, p, k, j, u) /\ z.locks = y.locks /\ z.got = y.got
    BY <2>1, <2>14, ReleaseGood
  <2> HIDE DEF z
  <2>16. Good(z, x, k, j, u)
    BY <2>1, <2>15, NoneInTransit
  <2>17. Frees(w, z, l) /\ z.got = w.got
    BY <1>2, <1>10, <2>6, <2>15 DEF Frees, SameLock
  <2> QED BY <1>1, <1>13, <2>16, <2>17
<1> QED BY <1>11, <1>12, <1>13

(* arc->refcount++: one reference in transit.                              *)
LEMMA RetainGood ==
    ASSUME NEW w, NEW x, NEW p \in Paths, NEW j, NEW u,
           Good(w, x, 0, j, u), w.arcs[p].ref > 0
    PROVE  LET r == Retain(w, p) IN
           Good(r, p, 1, j, u) /\ r.locks = w.locks /\ r.got = w.got
<1> DEFINE r == Retain(w, p)
<1>1. /\ Shape(r) /\ r.cats = w.cats /\ r.locks = w.locks /\ SameCounts(w, r)
      /\ r.arcs = [w.arcs EXCEPT ![p].ref = @ + 1] /\ r.got = w.got
  BY DEF Good, Typed, Shape, Fields, SameCounts, Retain
<1> HIDE DEF r
<1>2. /\ r.arcs \in [Paths -> ArcSet]
      /\ r.arcs[p].ref = w.arcs[p].ref + 1
      /\ r.arcs[p].open = w.arcs[p].open
      /\ r.arcs[p].users = w.arcs[p].users
      /\ \A q \in Paths : q # p => r.arcs[q] = w.arcs[q]
      /\ w.arcs[p].ref \in Int
  <2>1. w.arcs \in [Paths -> ArcSet]
    BY DEF Good, Typed
  <2>2. [w.arcs EXCEPT ![p].ref = @ + 1] \in [Paths -> ArcSet]
    BY <2>1 DEF ArcSet
  <2> QED BY <1>1, <2>1, <2>2 DEF ArcSet
<1>3. Typed(r) /\ Tidy(r)
  BY <1>1, <1>2 DEF Good, Typed, Tidy, SameCounts
<1>4. Idle(r)
  BY <1>1, <1>2 DEF Good, Idle
<1>5. /\ Live(r) = Live(w) /\ Real(r) = Real(w)
      /\ \A q \in Paths : UsersIn(r, q) = UsersIn(w, q) /\ Cardinality(UsersIn(w, q)) \in Nat
  BY <1>1, LocksFinite DEF Live, Real, UsersIn, OnArc
<1>6. Counts(r, j, u)
  BY <1>1, <1>5 DEF Good, Counts, SameCounts
<1>7. Refs(r, p, 1)
  BY <1>2, <1>5 DEF Good, Refs
<1> QED BY <1>1, <1>3, <1>4, <1>6, <1>7 DEF Good, r

(* A lock on an archive keeps it in the cache.                             *)
LEMMA Cached ==
    ASSUME NEW w, NEW x, NEW k \in Nat, NEW j, NEW u, Good(w, x, k, j, u),
           NEW l \in LockIds, w.locks[l].type \in {"ARCHIVE", "ENTRY"}
    PROVE  w.locks[l].path \in Paths /\ w.arcs[w.locks[l].path].ref > 0
<1> DEFINE p == w.locks[l].path
<1>1. p \in Paths
  BY DEF Good, Tidy
<1>2. l \in UsersIn(w, p) /\ UsersIn(w, p) \in SUBSET LockIds
  BY DEF UsersIn, OnArc
<1>3. Cardinality(UsersIn(w, p)) \in Nat /\ Cardinality(UsersIn(w, p)) # 0
  BY <1>2, LocksFinite
<1> HIDE DEF p
<1>4. w.arcs[p].ref > 0
  BY <1>1, <1>3 DEF Good, Refs
<1> QED BY <1>1, <1>4 DEF p

-----------------------------------------------------------------------------
(* How calls compose.                                                      *)

KeepsLive(v, w) == Live(w) = Live(v) /\ \A l \in Live(v) : SameLock(v, w, l)

(* Keeping every lock keeps every live one.                                *)
LEMMA KeepsIsLive ==
    ASSUME NEW v, NEW w, Keeps(v, w)
    PROVE  KeepsLive(v, w)
  BY DEF Keeps, KeepsLive, SameLock, Live

(* The same locks are kept.                                                *)
LEMMA SameLocksKept ==
    ASSUME NEW v, NEW w, w.locks = v.locks
    PROVE  Keeps(v, w) /\ KeepsLive(v, w)
  BY DEF Keeps, KeepsLive, SameLock, Live

(* Keeping locks composes.                                                 *)
LEMMA KeepsTwice ==
    ASSUME NEW a, NEW b, NEW c, KeepsLive(a, b), KeepsLive(b, c)
    PROVE  KeepsLive(a, c)
  BY DEF KeepsLive, SameLock

(* A grant after a call that kept the locks.                               *)
LEMMA KeepsGrants ==
    ASSUME NEW a, NEW b, NEW c, KeepsLive(a, b), Grants(b, c)
    PROVE  Grants(a, c)
  BY DEF KeepsLive, Grants, SameLock

(* Granting no lock is keeping every live lock.                            *)
LEMMA GrantsNothing ==
    ASSUME NEW a, NEW b, KeepsLive(a, b), b.got = NoLock
    PROVE  Grants(a, b)
  BY DEF KeepsLive, Grants

(* A call that keeps the locks after a grant.                              *)
LEMMA GrantsThenKeeps ==
    ASSUME NEW a, NEW b, NEW c, Grants(a, b), KeepsLive(b, c), c.got = b.got
    PROVE  Grants(a, c)
<1>1. Live(a) \subseteq Live(b)
  BY DEF Grants
<1> QED BY <1>1 DEF KeepsLive, Grants, SameLock

(* Freeing the lock a call has just granted undoes the grant.              *)
LEMMA GrantsThenFrees ==
    ASSUME NEW a, NEW b, NEW c, Grants(a, b), b.got # NoLock, Frees(b, c, b.got)
    PROVE  KeepsLive(a, c) /\ b.got \in Live(b)
<1>1. b.got \in Live(b) /\ b.got \in LockIds \ Live(a) /\ Live(b) = Live(a) \cup {b.got}
  BY DEF Grants
<1>2. Live(c) = Live(b) \ {b.got} /\ \A l \in Live(a) : SameLock(b, c, l)
  BY <1>1 DEF Frees, SameLock, Live
<1>3. \A l \in Live(a) : SameLock(a, b, l)
  BY DEF Grants
<1> QED BY <1>1, <1>2, <1>3 DEF KeepsLive, SameLock

(* The lock returned is live.                                              *)
LEMMA GotLive ==
    ASSUME NEW a, NEW b, Grants(a, b), b.got # NoLock
    PROVE  b.got \in Live(b) /\ b.got \in LockIds
  BY DEF Grants

(* Forgetting the lock returned changes nothing held.                      *)
LEMMA NullGood ==
    ASSUME NEW w, NEW x, NEW k, NEW j, NEW u, Good(w, x, k, j, u)
    PROVE  LET r == Null(w) IN
           Good(r, x, k, j, u) /\ KeepsLive(w, r) /\ r.got = NoLock
<1> DEFINE r == Null(w)
<1>1. Same(w, r) /\ r.got = NoLock
  BY DEF Null, Good, Typed, Same, Shape, Fields, SameCounts
<1> HIDE DEF r
<1>2. Good(r, x, k, j, u) /\ KeepsLive(w, r) /\ r.got = NoLock
  BY <1>1, SameGood, KeepsIsLive
<1> QED BY <1>2 DEF r

(* Counting a call changes nothing held.                                   *)
LEMMA CalledGood ==
    ASSUME NEW w, NEW x, NEW k, NEW j, NEW u, Good(w, x, k, j, u)
    PROVE  LET r == Called(w) IN
           Good(r, x, k, j, u) /\ KeepsLive(w, r) /\ r.locks = w.locks /\ r.got = w.got
<1> DEFINE r == Called(w)
<1>1. Same(w, r) /\ r.got = w.got
  BY DEF Called, Good, Typed, Same, Shape, Fields, SameCounts
<1> HIDE DEF r
<1>2. Good(r, x, k, j, u) /\ KeepsLive(w, r) /\ r.locks = w.locks /\ r.got = w.got
  BY <1>1, SameGood, KeepsIsLive DEF Same
<1> QED BY <1>2 DEF r

(* One more host lock in transit.                                          *)
LEMMA HostPlus ==
    ASSUME NEW w, NEW x, NEW k, NEW j \in Int, NEW u,
           Good(w, x, k, j, u), NEW v, Shape(v),
           v.cats = w.cats, v.arcs = w.arcs, v.locks = w.locks,
           v.hostLocks = w.hostLocks + 1, v.lockCnt = w.lockCnt,
           v.usageCnt = w.usageCnt
    PROVE  Good(v, x, k, j + 1, u) /\ KeepsLive(w, v)
<1>1. Typed(v) /\ Tidy(v) /\ Idle(v)
  BY DEF Good, Typed, Tidy, Idle
<1>2. /\ Live(v) = Live(w) /\ Real(v) = Real(w)
      /\ \A q \in Paths : UsersIn(v, q) = UsersIn(w, q)
  BY DEF Live, Real, UsersIn, OnArc
<1>3. Cardinality(Real(w)) \in Nat
  BY LocksFinite DEF Real
<1>4. Refs(v, x, k) /\ Counts(v, j + 1, u)
  BY <1>2, <1>3 DEF Good, Refs, Counts
<1> QED BY <1>1, <1>4, SameLocksKept DEF Good

(* A host lock got is in transit; a failure leaves none.                   *)
LEMMA HostLockGood ==
    ASSUME NEW w, NEW x, NEW k, NEW j \in Int, NEW u, NEW o,
           Good(w, x, k, j, u)
    PROVE  LET r == lhh_host_lock(w, o) IN
           /\ Good(r, x, k, IF r.ok THEN j + 1 ELSE j, u)
           /\ r.locks = w.locks
           /\ r.got = w.got
           /\ r.ok \in BOOLEAN
<1> DEFINE v == Called(w)
<1> DEFINE f == [v EXCEPT !.ok = FALSE]
<1> DEFINE h == [v EXCEPT !.hostLocks = @ + 1]
<1> DEFINE g == [h EXCEPT !.ok = TRUE]
<1> DEFINE r == lhh_host_lock(w, o)
<1> SUFFICES /\ Good(r, x, k, IF r.ok THEN j + 1 ELSE j, u)
             /\ r.locks = w.locks /\ r.got = w.got /\ r.ok \in BOOLEAN
  OBVIOUS
<1>1. r = f \/ r = g
  BY DEF lhh_host_lock, Returns
<1>2. /\ Good(v, x, k, j, u) /\ v.locks = w.locks /\ v.got = w.got
  BY CalledGood
<1> HIDE DEF v, r
<1>3. Same(v, f) /\ f.ok = FALSE /\ f.got = v.got
  BY <1>2 DEF Good, Typed, Same, Shape, Fields, SameCounts
<1>4. /\ Shape(g) /\ g.cats = v.cats /\ g.arcs = v.arcs /\ g.locks = v.locks
      /\ g.hostLocks = v.hostLocks + 1 /\ g.lockCnt = v.lockCnt
      /\ g.usageCnt = v.usageCnt /\ g.ok = TRUE /\ g.got = v.got
  BY <1>2 DEF Good, Typed, Shape, Fields
<1> HIDE DEF f, g, h
<1>5. CASE r = f
  <2>1. Good(f, x, k, j, u) /\ f.locks = v.locks
    BY <1>2, <1>3, SameGood DEF Same
  <2> QED BY <1>2, <1>3, <1>5, <2>1
<1>6. CASE r = g
  <2>1. Good(g, x, k, j + 1, u)
    BY <1>2, <1>4, HostPlus
  <2> QED BY <1>2, <1>4, <1>6, <2>1
<1> QED BY <1>1, <1>5, <1>6

-----------------------------------------------------------------------------
(* Between packets nothing is in transit.                                  *)

Settled(w, u) == Good(w, NoPath, 0, 0, u)

(* What is known of a live lock between two calls.                         *)
LEMMA LiveTypes ==
    ASSUME NEW w, NEW u, Settled(w, u), NEW l \in Live(w)
    PROVE  /\ l \in LockIds /\ l # NoLock
           /\ w.locks[l].type \in LockTypes \ {"free"}
           /\ w.locks[l].path \in Paths \cup {Volume, NoPath}
           /\ w.locks[l].entry \in Names \cup {<<>>}
           /\ w.locks[l].type = "REAL" => w.locks[l].path \in Paths \cup {Volume}
           /\ w.locks[l].type \in {"ARCHIVE", "ENTRY"} =>
                  w.locks[l].path \in Paths /\ w.arcs[w.locks[l].path].ref > 0
<1>1. l \in LockIds /\ w.locks[l] \in LockSet /\ w.locks[l].type # "free"
  BY DEF Settled, Good, Typed, Live
<1>2. l # NoLock
  BY <1>1, LocksAssumption
<1>3. w.locks[l].type = "REAL" => w.locks[l].path \in Paths \cup {Volume}
  BY <1>1 DEF Settled, Good, Tidy
<1>4. w.locks[l].type \in {"ARCHIVE", "ENTRY"} =>
          w.locks[l].path \in Paths /\ w.arcs[w.locks[l].path].ref > 0
  BY <1>1, Cached DEF Settled
<1> QED BY <1>1, <1>2, <1>3, <1>4 DEF LockSet

(* lhh_lock_free frees one lock and what it refers to.                     *)
LEMMA FreeSettled ==
    ASSUME NEW w, NEW u \in Int, Settled(w, u), NEW l \in Live(w)
    PROVE  LET r == lhh_lock_free(w, l) IN
           Settled(r, u) /\ Frees(w, r, l) /\ r.got = w.got
  BY FreeGood DEF Settled

(* AllocPlain grants a lock or nothing.                                    *)
LEMMA PlainSettled ==
    ASSUME NEW w, NEW u \in Int, Settled(w, u),
           NEW type \in {"ROOT", "VINFO"}, NEW o \in Paths \cup {Volume, NoPath},
           NEW n \in Names \cup {<<>>}
    PROVE  LET r == AllocPlain(w, type, o, n) IN Settled(r, u) /\ Grants(w, r)
  BY AllocPlainGood DEF Settled

(* A lock in an archive that is cached.                                    *)
LEMMA InArchiveSettled ==
    ASSUME NEW w, NEW u \in Int, Settled(w, u),
           NEW p \in Paths, w.arcs[p].ref > 0, NEW n \in Names \cup {<<>>}
    PROVE  LET r == AllocInArchive(Retain(w, p), p, n) IN
           /\ Settled(r, u)
           /\ Grants(w, r)
           /\ r.got = NoLock \/ r.locks[r.got].type \in {"ARCHIVE", "ENTRY"}
<1> DEFINE v == Retain(w, p)
<1> DEFINE r == AllocInArchive(v, p, n)
<1>1. Good(v, p, 1, 0, u) /\ v.locks = w.locks
  BY RetainGood DEF Settled
<1> HIDE DEF v
<1>2. /\ Good(r, p, 0, 0, u) /\ Grants(v, r)
      /\ r.got = NoLock \/ r.locks[r.got].type \in {"ARCHIVE", "ENTRY"}
  <2> HIDE DEF r
  <2>1. AllocInArchive(v, p, n) = r
    BY DEF r
  <2> DEFINE j == 0
  <2>2. j \in Int /\ Good(v, p, 1, j, u) /\ j = 0
    BY <1>1
  <2> HIDE DEF j
  <2> QED BY <2>1, <2>2, AllocInArchiveGood, Zenon
<1> HIDE DEF r
<1>3. Settled(r, u) /\ Grants(w, r)
  BY <1>1, <1>2, NoneInTransit, KeepsGrants, SameLocksKept DEF Settled
<1> QED BY <1>2, <1>3 DEF r, v

(* A lock on a host object whose host lock has just been taken.            *)
LEMMA RealSettled ==
    ASSUME NEW w, NEW u \in Int, Good(w, NoPath, 0, 1, u), NEW o \in Paths \cup {Volume}
    PROVE  LET r == AllocReal(w, o) IN Settled(r, u) /\ Grants(w, r)
<1> DEFINE r == AllocReal(w, o)
<1>1. Good(r, NoPath, 0, 1 - 1, u) /\ Grants(w, r)
  BY AllocRealGood
<1> HIDE DEF r
<1>2. Settled(r, u)
  BY <1>1 DEF Settled
<1> QED BY <1>1, <1>2 DEF r

-----------------------------------------------------------------------------
(* Calls that return a lock: each keeps the books and grants at most one   *)
(* lock, whatever fails in it.                                             *)

(* lhh_lock_dup grants a lock or nothing.                                  *)
LEMMA DupSettled ==
    ASSUME NEW w, NEW u \in Int, Settled(w, u), NEW l \in Live(w)
    PROVE  LET r == lhh_lock_dup(w, l) IN
           /\ Settled(r, u)
           /\ Grants(w, r)
           /\ w.locks[l].type \in {"ARCHIVE", "ENTRY"} =>
                  r.got = NoLock \/ r.locks[r.got].type \in {"ARCHIVE", "ENTRY"}
<1> DEFINE k == w.locks[l]
<1> DEFINE v == Called(w)
<1> DEFINE h == [v EXCEPT !.hostLocks = @ + 1]
<1> DEFINE r == lhh_lock_dup(w, l)
<1> SUFFICES /\ Settled(r, u)
             /\ Grants(w, r)
             /\ k.type \in {"ARCHIVE", "ENTRY"} =>
                    r.got = NoLock \/ r.locks[r.got].type \in {"ARCHIVE", "ENTRY"}
  OBVIOUS
<1>1. /\ k.type \in LockTypes \ {"free"}
      /\ k.path \in Paths \cup {Volume, NoPath}
      /\ k.entry \in Names \cup {<<>>}
      /\ k.type = "REAL" => k.path \in Paths \cup {Volume}
      /\ k.type \in {"ARCHIVE", "ENTRY"} => k.path \in Paths /\ w.arcs[k.path].ref > 0
  BY LiveTypes
<1>2. /\ k.type = "REAL" => r = IF Fails(w) THEN Null(v) ELSE AllocReal(h, k.path)
      /\ k.type \in {"ARCHIVE", "ENTRY"} =>
             r = AllocInArchive(Retain(w, k.path), k.path, k.entry)
      /\ k.type \notin {"REAL", "ARCHIVE", "ENTRY"} =>
             r = AllocPlain(w, k.type, k.path, k.entry)
  BY DEF lhh_lock_dup
<1> HIDE DEF k, r
<1>3. CASE k.type = "REAL"
  <2>1. Settled(v, u) /\ KeepsLive(w, v)
    BY CalledGood DEF Settled
  <2> HIDE DEF v
  <2>2. CASE Fails(w)
    <3>1. Settled(Null(v), u) /\ KeepsLive(v, Null(v)) /\ Null(v).got = NoLock
      BY <2>1, NullGood DEF Settled
    <3> QED BY <1>2, <1>3, <2>1, <2>2, <3>1, KeepsTwice, GrantsNothing
  <2>3. CASE ~Fails(w)
    <3>1. /\ Shape(h) /\ h.cats = v.cats /\ h.arcs = v.arcs /\ h.locks = v.locks
          /\ h.hostLocks = v.hostLocks + 1 /\ h.lockCnt = v.lockCnt
          /\ h.usageCnt = v.usageCnt
      BY <2>1 DEF Settled, Good, Typed, Shape, Fields
    <3> HIDE DEF h
    <3>2. Good(h, NoPath, 0, 0 + 1, u) /\ KeepsLive(v, h)
      BY <2>1, <3>1, HostPlus DEF Settled
    <3>3. Good(h, NoPath, 0, 1, u) /\ KeepsLive(w, h)
      BY <2>1, <3>2, KeepsTwice
    <3>4. Settled(AllocReal(h, k.path), u) /\ Grants(h, AllocReal(h, k.path))
      BY <1>1, <1>3, <3>3, RealSettled
    <3> QED BY <1>2, <1>3, <2>3, <3>3, <3>4, KeepsGrants
  <2> QED BY <2>2, <2>3
<1>4. CASE k.type \in {"ARCHIVE", "ENTRY"}
  BY <1>1, <1>2, <1>4, InArchiveSettled
<1>5. CASE k.type \notin {"REAL", "ARCHIVE", "ENTRY"}
  <2>1. k.type \in {"ROOT", "VINFO"}
    BY <1>1, <1>5 DEF LockTypes
  <2> DEFINE t == k.type
  <2> DEFINE o == k.path
  <2> DEFINE n == k.entry
  <2>2. /\ t \in {"ROOT", "VINFO"} /\ o \in Paths \cup {Volume, NoPath}
        /\ n \in Names \cup {<<>>} /\ r = AllocPlain(w, t, o, n)
    BY <1>1, <1>2, <1>5, <2>1
  <2> HIDE DEF t, o, n
  <2> QED BY <1>5, <2>2, PlainSettled
<1> QED BY <1>3, <1>4, <1>5

(* lhh_lock_real_path grants a lock or nothing.                            *)
LEMMA RealPathSettled ==
    ASSUME NEW w, NEW u \in Int, Settled(w, u), NEW o \in Paths \cup {Volume}
    PROVE  LET r == lhh_lock_real_path(w, o) IN Settled(r, u) /\ Grants(w, r)
<1> DEFINE a == lhh_host_lock(w, o)
<1> DEFINE isFile == o \in Paths /\ a.disk[o] # HostDir
<1> DEFINE v == lhh_arc_obtain(a, o)
<1> DEFINE x == lhh_host_lock(v, o)
<1> DEFINE r == lhh_lock_real_path(w, o)
<1> SUFFICES Settled(r, u) /\ Grants(w, r)
  OBVIOUS
<1>1. r = IF ~a.ok THEN Null(a)
          ELSE IF ~isFile THEN AllocReal(a, o)
          ELSE IF v.ok THEN AllocInArchive(v, o, <<>>)
          ELSE IF x.ok THEN AllocReal(x, o) ELSE Null(x)
  BY DEF lhh_lock_real_path, Located, Mounted, PassThrough
<1>2. /\ Good(a, NoPath, 0, IF a.ok THEN 0 + 1 ELSE 0, u)
      /\ a.locks = w.locks
      /\ a.ok \in BOOLEAN
  BY HostLockGood DEF Settled
<1>3. isFile => o \in Paths
  OBVIOUS
<1> HIDE DEF a, r, isFile
<1>4. KeepsLive(w, a)
  BY <1>2, SameLocksKept
<1>5. CASE ~a.ok
  <2>1. Settled(Null(a), u) /\ KeepsLive(a, Null(a)) /\ Null(a).got = NoLock
    BY <1>2, <1>5, NullGood DEF Settled
  <2> QED BY <1>1, <1>4, <1>5, <2>1, KeepsTwice, GrantsNothing
<1>6. CASE a.ok /\ ~isFile
  <2>1. Good(a, NoPath, 0, 1, u)
    BY <1>2, <1>6
  <2>2. Settled(AllocReal(a, o), u) /\ Grants(a, AllocReal(a, o))
    BY <2>1, RealSettled
  <2> QED BY <1>1, <1>4, <1>6, <2>2, KeepsGrants
<1>7. CASE a.ok /\ isFile
  <2>1. Good(a, o, 0, 1, u) /\ o \in Paths
    BY <1>2, <1>3, <1>7, NoneInTransit
  <2>2. /\ Good(v, o, IF v.ok THEN 1 ELSE 0, 1 - 1, u)
        /\ v.locks = a.locks
        /\ v.ok \in BOOLEAN
    BY <2>1, ObtainGood
  <2> HIDE DEF v
  <2>3. KeepsLive(w, v)
    BY <1>4, <2>2, SameLocksKept, KeepsTwice
  <2>4. CASE v.ok
    <3>1. Good(v, o, 1, 0, u)
      BY <2>2, <2>4
    <3> DEFINE y == AllocInArchive(v, o, <<>>)
    <3>2. Good(y, o, 0, 0, u) /\ Grants(v, y)
      BY <2>1, <3>1, AllocInArchiveGood
    <3>3. r = y
      BY <1>1, <1>7, <2>4
    <3> HIDE DEF y
    <3>4. Settled(y, u)
      BY <3>2, NoneInTransit DEF Settled
    <3> QED BY <2>3, <3>2, <3>3, <3>4, KeepsGrants
  <2>5. CASE ~v.ok
    <3>1. Good(v, NoPath, 0, 0, u)
      BY <2>2, <2>5, NoneInTransit
    <3>2. /\ Good(x, NoPath, 0, IF x.ok THEN 0 + 1 ELSE 0, u)
          /\ x.locks = v.locks
          /\ x.ok \in BOOLEAN
      BY <3>1, HostLockGood
    <3> HIDE DEF x
    <3>3. KeepsLive(w, x)
      BY <2>3, <3>2, SameLocksKept, KeepsTwice
    <3>4. CASE x.ok
      <4>1. Good(x, NoPath, 0, 1, u)
        BY <3>2, <3>4
      <4>2. Settled(AllocReal(x, o), u) /\ Grants(x, AllocReal(x, o))
        BY <4>1, RealSettled
      <4> QED BY <1>1, <1>7, <2>5, <3>3, <3>4, <4>2, KeepsGrants
    <3>5. CASE ~x.ok
      <4>1. Settled(Null(x), u) /\ KeepsLive(x, Null(x)) /\ Null(x).got = NoLock
        BY <3>2, <3>5, NullGood DEF Settled
      <4> QED BY <1>1, <1>7, <2>5, <3>3, <3>5, <4>1, KeepsTwice, GrantsNothing
    <3> QED BY <3>4, <3>5
  <2> QED BY <2>4, <2>5
<1> QED BY <1>5, <1>6, <1>7

(* The icon of a host object: the companion is freed again.                *)
LEMMA HostIconSettled ==
    ASSUME NEW w, NEW u \in Int, Settled(w, u), NEW o \in Paths \cup {Volume, NoPath}
    PROVE  LET r == HostIcon(w, o) IN Settled(r, u) /\ Grants(w, r)
<1> DEFINE v == lhh_lock_real_path(w, o)
<1> DEFINE k == v.locks[v.got]
<1> DEFINE drawer == \/ k.type = "ARCHIVE"
                     \/ k.type = "REAL" /\ (o = Volume \/ v.disk[o] = HostDir)
<1> DEFINE x == lhh_lock_free(v, v.got)
<1> DEFINE r == HostIcon(w, o)
<1> SUFFICES Settled(r, u) /\ Grants(w, r)
  OBVIOUS
<1>1. r = IF o = NoPath THEN AllocPlain(w, "VINFO", NoPath, <<>>)
          ELSE IF v.got = NoLock THEN v
          ELSE IF drawer THEN AllocPlain(x, "VINFO", o, <<>>) ELSE Null(x)
  BY DEF HostIcon, IconOf
<1> HIDE DEF drawer, r
<1>2. CASE o = NoPath
  <2> DEFINE y == AllocPlain(w, "VINFO", NoPath, <<>>)
  <2>1. Settled(y, u) /\ Grants(w, y)
    BY PlainSettled
  <2> QED BY <1>1, <1>2, <2>1
<1>3. CASE o # NoPath
  <2>1. Settled(v, u) /\ Grants(w, v)
    BY <1>3, RealPathSettled
  <2> HIDE DEF v
  <2>2. CASE v.got = NoLock
    BY <1>1, <1>3, <2>1, <2>2
  <2>3. CASE v.got # NoLock
    <3>1. v.got \in Live(v)
      BY <2>1, <2>3, GotLive
    <3>2. Settled(x, u) /\ Frees(v, x, v.got)
      BY <2>1, <3>1, FreeSettled
    <3> HIDE DEF x
    <3>3. KeepsLive(w, x)
      BY <2>1, <2>3, <3>2, GrantsThenFrees
    <3> DEFINE y == AllocPlain(x, "VINFO", o, <<>>)
    <3>4. Settled(y, u) /\ Grants(x, y)
      BY <3>2, PlainSettled
    <3>5. Settled(Null(x), u) /\ KeepsLive(x, Null(x)) /\ Null(x).got = NoLock
      BY <3>2, NullGood DEF Settled
    <3>6. r = y \/ r = Null(x)
      BY <1>1, <1>3, <2>3
    <3> HIDE DEF y
    <3> QED BY <3>3, <3>4, <3>5, <3>6, KeepsGrants, KeepsTwice, GrantsNothing
  <2> QED BY <2>2, <2>3
<1> QED BY <1>2, <1>3

(* lhh_arc_missing_info_lock grants a lock or nothing.                     *)
LEMMA MissingInfoSettled ==
    ASSUME NEW w, NEW u \in Int, Settled(w, u), NEW p \in Paths,
           NEW n \in Names, IsIcon(n)
    PROVE  LET r == lhh_arc_missing_info_lock(w, p, n) IN Settled(r, u) /\ Grants(w, r)
<1> DEFINE y == AllocPlain(w, "VINFO", p, IconBase[n])
<1> DEFINE r == lhh_arc_missing_info_lock(w, p, n)
<1>1. r = y \/ r = Null(w)
  BY DEF lhh_arc_missing_info_lock
<1>2. IconBase[n] \in Names
  BY IconAssumption DEF IsIcon
<1>3. Settled(y, u) /\ Grants(w, y)
  BY <1>2, PlainSettled
<1>4. Settled(Null(w), u) /\ KeepsLive(w, Null(w)) /\ Null(w).got = NoLock
  BY NullGood DEF Settled
<1> HIDE DEF y, r
<1>5. Settled(r, u) /\ Grants(w, r)
  BY <1>1, <1>3, <1>4, GrantsNothing
<1> QED BY <1>5 DEF r

(* A name relative to a lock inside an archive.                            *)
LEMMA LocateInsideSettled ==
    ASSUME NEW w, NEW u \in Int, Settled(w, u), NEW p \in Paths,
           w.arcs[p].ref > 0, NEW n \in Names
    PROVE  LET r == LocateInside(w, p, n) IN Settled(r, u) /\ Grants(w, r)
<1> DEFINE y == AllocInArchive(Retain(w, p), p, n)
<1> DEFINE z == lhh_arc_missing_info_lock(w, p, n)
<1> DEFINE r == LocateInside(w, p, n)
<1>1. r = y \/ (IsIcon(n) /\ r = z)
  BY DEF LocateInside
<1>2. Settled(y, u) /\ Grants(w, y)
  BY InArchiveSettled
<1>3. IsIcon(n) => Settled(z, u) /\ Grants(w, z)
  BY MissingInfoSettled
<1> HIDE DEF y, z, r
<1>4. Settled(r, u) /\ Grants(w, r)
  BY <1>1, <1>2, <1>3
<1> QED BY <1>4 DEF r

(* The walk into an archive replaces the lock on it, on every path: the    *)
(* one that frees it before the archive is asked again included.           *)
LEMMA LocateRestSettled ==
    ASSUME NEW w0, NEW w, NEW u \in Int, Settled(w, u), Grants(w0, w),
           w.got # NoLock, w.locks[w.got].type = "ARCHIVE", NEW n \in Names
    PROVE  LET r == LocateRest(w, w.got, n) IN Settled(r, u) /\ Grants(w0, r)
<1> DEFINE l == w.got
<1> DEFINE p == w.locks[l].path
<1> DEFINE v == lhh_lock_free(w, l)
<1> DEFINE freed == Called([v EXCEPT !.fault = TRUE])
<1> DEFINE y == AllocInArchive(lhh_lock_free(Retain(w, p), l), p, n)
<1> DEFINE m == lhh_arc_missing_info_lock(v, p, n)
<1> DEFINE i == AllocPlain(freed, "VINFO", p, IconBase[n])
<1> DEFINE r == LocateRest(w, w.got, n)
<1> SUFFICES Settled(r, u) /\ Grants(w0, r)
  OBVIOUS
<1>1. \/ r = y
      \/ IsIcon(n) /\ r \in {m, i, Null(freed)}
  BY DEF LocateRest, IconAfterFree
<1>2. l \in Live(w) /\ l \in LockIds /\ w.locks[l].type = "ARCHIVE"
  BY GotLive
<1>3. p \in Paths /\ w.arcs[p].ref > 0
  BY <1>2, LiveTypes
<1>4. Settled(v, u) /\ Frees(w, v, l)
  BY <1>2, FreeSettled
<1> HIDE DEF v, r
<1>5. KeepsLive(w0, v)
  BY <1>4, GrantsThenFrees
<1>6. CASE r = y
  <2> DEFINE a == Retain(w, p)
  <2> DEFINE b == lhh_lock_free(a, l)
  <2>1. Good(a, p, 1, 0, u) /\ a.locks = w.locks /\ a.got = w.got
    BY <1>3, RetainGood DEF Settled
  <2>2. p = a.locks[l].path
    BY <2>1
  <2>3. r = AllocInArchive(b, p, n)
    BY <1>6
  <2> HIDE DEF a, p
  <2>4. l \in Live(a)
    BY <1>2, <2>1 DEF Live
  <2>5. Good(b, p, 1, 0, u) /\ Frees(a, b, l)
    BY <2>1, <2>2, <2>4, FreeGood
  <2> HIDE DEF b
  <2>6. Frees(w, b, l)
    BY <2>1, <2>5 DEF Frees, SameLock
  <2>7. KeepsLive(w0, b)
    BY <2>6, GrantsThenFrees
  <2> DEFINE z == AllocInArchive(b, p, n)
  <2>8. Good(z, p, 0, 0, u) /\ Grants(b, z)
    BY <1>3, <2>5, AllocInArchiveGood
  <2>9. r = z
    BY <2>3
  <2> HIDE DEF z
  <2>10. Settled(z, u) /\ Grants(w0, z)
    BY <2>7, <2>8, NoneInTransit, KeepsGrants DEF Settled
  <2> QED BY <2>9, <2>10
<1>7. CASE IsIcon(n) /\ r = m
  <2> HIDE DEF p
  <2>1. Settled(m, u) /\ Grants(v, m)
    BY <1>3, <1>4, <1>7, MissingInfoSettled
  <2> HIDE DEF m
  <2> QED BY <1>5, <1>7, <2>1, KeepsGrants
<1>8. CASE IsIcon(n) /\ r \in {i, Null(freed)}
  <2>1. Same(v, freed)
    BY <1>4 DEF Called, Settled, Good, Typed, Same, Shape, Fields, SameCounts
  <2> HIDE DEF freed, p
  <2>2. Settled(freed, u) /\ KeepsLive(w0, freed)
    BY <1>4, <1>5, <2>1, SameGood, KeepsIsLive, KeepsTwice DEF Settled
  <2>3. IconBase[n] \in Names
    BY <1>8, IconAssumption DEF IsIcon
  <2>4. Settled(i, u) /\ Grants(freed, i)
    BY <1>3, <2>2, <2>3, PlainSettled
  <2> HIDE DEF i
  <2>5. Settled(Null(freed), u) /\ KeepsLive(freed, Null(freed)) /\ Null(freed).got = NoLock
    BY <2>2, NullGood DEF Settled
  <2> QED BY <1>8, <2>2, <2>4, <2>5, KeepsGrants, KeepsTwice, GrantsNothing
<1> QED BY <1>1, <1>6, <1>7, <1>8

(* A name a packet may carry, and one it may carry relative to lock l.     *)
IsName(name) ==
    /\ name.path \in Paths \cup {Volume, NoPath}
    /\ name.entry \in Names \cup {<<>>}
    /\ name.path = NoPath => name.icon

NameFor(w, l, name) ==
    \/ name = Self
    \/ /\ IsName(name)
       /\ l # NoLock /\ w.locks[l].type \in {"ARCHIVE", "ENTRY"} =>
              name.path = w.locks[l].path /\ name.entry \in Names

(* One component of a host path.                                           *)
LEMMA ComponentSettled ==
    ASSUME NEW w, NEW u \in Int, Settled(w, u), NEW name, IsName(name)
    PROVE  LET r == Component(w, name) IN Settled(r, u) /\ Grants(w, r)
<1> DEFINE o == name.path
<1> DEFINE r == Component(w, name)
<1>1. o \in Paths \cup {Volume, NoPath} /\ (name.icon \/ o \in Paths \cup {Volume})
  BY DEF IsName
<1>2. r = IF name.icon THEN HostIcon(w, o) ELSE lhh_lock_real_path(w, o)
  BY DEF Component
<1> HIDE DEF o, r
<1>3. Settled(r, u) /\ Grants(w, r)
  BY <1>1, <1>2, HostIconSettled, RealPathSettled
<1> QED BY <1>3 DEF r

(* v granted the lock the walk stands on, c the next one.                  *)
LEMMA FreeBehindSettled ==
    ASSUME NEW w, NEW v, NEW c, NEW u \in Int, Grants(w, v), v.got # NoLock,
           Settled(c, u), Grants(v, c)
    PROVE  LET r == FreeBehind(c, v.got) IN Settled(r, u) /\ Grants(w, r)
<1> DEFINE l == v.got
<1> DEFINE f == lhh_lock_free(c, l)
<1> DEFINE r == FreeBehind(c, v.got)
<1> SUFFICES Settled(r, u) /\ Grants(w, r)
  OBVIOUS
<1>1. r = [f EXCEPT !.got = c.got]
  BY DEF FreeBehind
<1>2. l \in Live(c) /\ l \in Live(v)
  BY GotLive DEF Grants
<1>3. Settled(f, u) /\ Frees(c, f, l) /\ f.got = c.got
  BY <1>2, FreeSettled
<1> HIDE DEF f, r
<1>4. Same(f, r) /\ r.got = c.got /\ r.locks = f.locks
  BY <1>1, <1>3 DEF Settled, Good, Typed, Same, Shape, Fields, SameCounts
<1>5. Settled(r, u)
  BY <1>3, <1>4, SameGood DEF Settled
<1>6. Live(v) = Live(w) \cup {l} /\ l \notin Live(w)
  BY DEF Grants
<1>7. Live(r) = Live(c) \ {l}
  BY <1>3, <1>4 DEF Frees, SameLock, Live
<1>8. /\ Live(c) = Live(v) \cup ({c.got} \ {NoLock})
      /\ c.got = NoLock \/ c.got \in LockIds \ Live(v)
  BY DEF Grants
<1>9. Live(r) = Live(w) \cup ({r.got} \ {NoLock})
  BY <1>4, <1>6, <1>7, <1>8
<1>10. r.got = NoLock \/ r.got \in LockIds \ Live(w)
  BY <1>4, <1>6, <1>8
<1>11. \A i \in Live(w) : SameLock(w, r, i)
  <2> SUFFICES ASSUME NEW i \in Live(w) PROVE SameLock(w, r, i)
    OBVIOUS
  <2>1. i \in Live(v) /\ i # l /\ i \in LockIds
    BY <1>6 DEF Live
  <2>2. SameLock(w, v, i) /\ SameLock(v, c, i)
    BY <2>1 DEF Grants
  <2>3. SameLock(c, f, i)
    BY <1>3, <2>1 DEF Frees
  <2> QED BY <1>4, <2>2, <2>3 DEF SameLock
<1> QED BY <1>5, <1>9, <1>10, <1>11 DEF Grants

(* The rest of a path frees the lock it started from.                      *)
LEMMA RestSettled ==
    ASSUME NEW w0, NEW w, NEW u \in Int, Settled(w, u), Grants(w0, w),
           NEW n \in Names \cup {<<>>}
    PROVE  LET r == Rest(w, n) IN Settled(r, u) /\ Grants(w0, r)
<1> DEFINE y == LocateRest(w, w.got, n)
<1> DEFINE f == lhh_lock_free(w, w.got)
<1> DEFINE r == Rest(w, n)
<1> SUFFICES Settled(r, u) /\ Grants(w0, r)
  OBVIOUS
<1>1. r = IF n = <<>> \/ w.got = NoLock THEN w
          ELSE IF w.locks[w.got].type = "ARCHIVE" THEN y ELSE Null(f)
  BY DEF Rest
<1> HIDE DEF r
<1>2. CASE n = <<>> \/ w.got = NoLock
  BY <1>1, <1>2
<1>3. CASE n \in Names /\ w.got # NoLock /\ w.locks[w.got].type = "ARCHIVE" /\ r = y
  <2>1. Settled(y, u) /\ Grants(w0, y)
    BY <1>3, LocateRestSettled
  <2> HIDE DEF y
  <2> QED BY <1>3, <2>1
<1>4. CASE w.got # NoLock /\ r = Null(f)
  <2>1. w.got \in Live(w)
    BY <1>4, GotLive
  <2>2. Settled(f, u) /\ Frees(w, f, w.got)
    BY <2>1, FreeSettled
  <2> HIDE DEF f
  <2>3. KeepsLive(w0, f)
    BY <1>4, <2>2, GrantsThenFrees
  <2>4. Settled(Null(f), u) /\ KeepsLive(f, Null(f)) /\ Null(f).got = NoLock
    BY <2>2, NullGood DEF Settled
  <2> QED BY <1>4, <2>3, <2>4, KeepsTwice, GrantsNothing
<1> QED BY <1>1, <1>2, <1>3, <1>4

(* A walk from the root frees every lock on its way.                       *)
LEMMA WalkSettled ==
    ASSUME NEW w, NEW u \in Int, Settled(w, u), NEW name, IsName(name)
    PROVE  LET r == WalkFromRoot(w, name) IN Settled(r, u) /\ Grants(w, r)
<1> DEFINE v == lhh_lock_real_path(w, Volume)
<1> DEFINE c == Component(v, name)
<1> DEFINE b == FreeBehind(c, v.got)
<1> DEFINE e == Rest(b, name.entry)
<1> DEFINE d == Component(w, name)
<1> DEFINE r == WalkFromRoot(w, name)
<1> SUFFICES Settled(r, u) /\ Grants(w, r)
  OBVIOUS
<1>1. r \in {d, v} \/ (v.got # NoLock /\ r = e)
  BY DEF WalkFromRoot, WalkFromVolume
<1>2. Settled(d, u) /\ Grants(w, d)
  BY ComponentSettled
<1>3. Settled(v, u) /\ Grants(w, v)
  BY RealPathSettled
<1> HIDE DEF v, d, r
<1>4. CASE v.got # NoLock /\ r = e
  <2>1. Settled(c, u) /\ Grants(v, c)
    BY <1>3, ComponentSettled
  <2> HIDE DEF c
  <2>2. Settled(b, u) /\ Grants(w, b)
    BY <1>3, <1>4, <2>1, FreeBehindSettled
  <2> HIDE DEF b
  <2>3. name.entry \in Names \cup {<<>>}
    BY DEF IsName
  <2>4. Settled(e, u) /\ Grants(w, e)
    BY <2>2, <2>3, RestSettled
  <2> HIDE DEF e
  <2> QED BY <1>4, <2>4
<1> QED BY <1>1, <1>2, <1>3, <1>4

(* lhh_lock_resolve grants a lock or nothing.                              *)
LEMMA ResolveSettled ==
    ASSUME NEW w, NEW u \in Int, Settled(w, u), NEW l \in Live(w) \cup {NoLock},
           NEW name, NameFor(w, l, name)
    PROVE  LET r == lhh_lock_resolve(w, l, name) IN Settled(r, u) /\ Grants(w, r)
<1> DEFINE type == IF l = NoLock THEN "ROOT" ELSE w.locks[l].type
<1> DEFINE a == AllocPlain(w, "ROOT", NoPath, <<>>)
<1> DEFINE b == WalkFromRoot(w, name)
<1> DEFINE c == lhh_lock_dup(w, l)
<1> DEFINE d == LocateInside(w, name.path, name.entry)
<1> DEFINE v == Component(w, name)
<1> DEFINE e == Rest(v, name.entry)
<1> DEFINE r == lhh_lock_resolve(w, l, name)
<1> SUFFICES Settled(r, u) /\ Grants(w, r)
  OBVIOUS
<1>1. /\ type = "ROOT" /\ name = Self => r = a
      /\ type = "ROOT" /\ name # Self => r = b
      /\ type # "ROOT" /\ name = Self => r = c
      /\ type \in {"ARCHIVE", "ENTRY"} /\ name # Self => r = d
      /\ type \notin {"ROOT", "ARCHIVE", "ENTRY"} /\ name # Self => r = e
  BY DEF lhh_lock_resolve
<1>2. type # "ROOT" => l \in Live(w) /\ l # NoLock /\ w.locks[l].type = type
  OBVIOUS
<1>3. /\ name # Self => IsName(name)
      /\ type \in {"ARCHIVE", "ENTRY"} /\ name # Self =>
             name.path = w.locks[l].path /\ name.entry \in Names
  BY DEF NameFor
<1> HIDE DEF type, r
<1>4. CASE type = "ROOT" /\ name = Self
  <2>1. Settled(a, u) /\ Grants(w, a)
    BY PlainSettled
  <2> HIDE DEF a
  <2> QED BY <1>1, <1>4, <2>1
<1>5. CASE type = "ROOT" /\ name # Self
  <2>1. Settled(b, u) /\ Grants(w, b)
    BY <1>3, <1>5, WalkSettled
  <2> HIDE DEF b
  <2> QED BY <1>1, <1>5, <2>1
<1>6. CASE type # "ROOT" /\ name = Self
  <2>1. Settled(c, u) /\ Grants(w, c)
    BY <1>2, <1>6, DupSettled
  <2> HIDE DEF c
  <2> QED BY <1>1, <1>6, <2>1
<1>7. CASE type \in {"ARCHIVE", "ENTRY"} /\ name # Self
  <2> DEFINE p == name.path
  <2> DEFINE n == name.entry
  <2>1. p \in Paths /\ w.arcs[p].ref > 0 /\ n \in Names /\ d = LocateInside(w, p, n)
    BY <1>2, <1>3, <1>7, LiveTypes
  <2> HIDE DEF p, n, d
  <2>2. Settled(d, u) /\ Grants(w, d)
    BY <2>1, LocateInsideSettled
  <2> QED BY <1>1, <1>7, <2>2
<1>8. CASE type \notin {"ROOT", "ARCHIVE", "ENTRY"} /\ name # Self
  <2>1. Settled(v, u) /\ Grants(w, v) /\ name.entry \in Names \cup {<<>>}
    BY <1>3, <1>8, ComponentSettled DEF IsName
  <2> HIDE DEF v
  <2>2. Settled(e, u) /\ Grants(w, e)
    BY <2>1, RestSettled
  <2> HIDE DEF e
  <2> QED BY <1>1, <1>8, <2>2
<1> QED BY <1>4, <1>5, <1>6, <1>7, <1>8

(* lhh_lock_parent grants a lock or nothing.                               *)
LEMMA ParentSettled ==
    ASSUME NEW w, NEW u \in Int, Settled(w, u), NEW l \in Live(w)
    PROVE  LET r == lhh_lock_parent(w, l) IN Settled(r, u) /\ Grants(w, r)
<1> DEFINE k == w.locks[l]
<1> DEFINE up == SubSeq(k.entry, 1, Len(k.entry) - 1)
<1> DEFINE v == lhh_host_lock(w, Volume)
<1> DEFINE a == AllocPlain(w, "ROOT", NoPath, <<>>)
<1> DEFINE e == AllocInArchive(Retain(w, k.path), k.path, up)
<1> DEFINE name == EntryName(k.path, k.entry)
<1> DEFINE b == WalkFromRoot(w, name)
<1> DEFINE c == WalkFromRoot(w, HostName(Volume))
<1> DEFINE r == lhh_lock_parent(w, l)
<1> SUFFICES Settled(r, u) /\ Grants(w, r)
  OBVIOUS
<1>1. \/ r \in {a, c, Null(w)}
      \/ r = IF v.ok THEN AllocReal(v, Volume) ELSE Null(v)
      \/ k.path # NoPath /\ r = b
      \/ k.type = "ENTRY" /\ r = e
  BY DEF lhh_lock_parent, PassThrough
<1>2. /\ k.path \in Paths \cup {Volume, NoPath}
      /\ k.entry \in Names \cup {<<>>}
      /\ k.type = "ENTRY" => k.path \in Paths /\ w.arcs[k.path].ref > 0
  BY LiveTypes
<1> HIDE DEF k, r
<1>3. CASE r \in {a, c, Null(w)}
  <2>1. Settled(a, u) /\ Grants(w, a)
    BY PlainSettled
  <2>2. IsName(HostName(Volume))
    BY PathsAssumption DEF IsName, HostName
  <2>3. Settled(c, u) /\ Grants(w, c)
    BY <2>2, WalkSettled
  <2>4. Settled(Null(w), u) /\ KeepsLive(w, Null(w)) /\ Null(w).got = NoLock
    BY NullGood DEF Settled
  <2> HIDE DEF a, c
  <2> QED BY <1>3, <2>1, <2>3, <2>4, GrantsNothing
<1>4. CASE r = IF v.ok THEN AllocReal(v, Volume) ELSE Null(v)
  <2>1. /\ Good(v, NoPath, 0, IF v.ok THEN 0 + 1 ELSE 0, u)
        /\ v.locks = w.locks
        /\ v.ok \in BOOLEAN
    BY HostLockGood DEF Settled
  <2> HIDE DEF v
  <2>2. KeepsLive(w, v)
    BY <2>1, SameLocksKept
  <2>3. CASE v.ok
    <3>1. Good(v, NoPath, 0, 1, u)
      BY <2>1, <2>3
    <3>2. Settled(AllocReal(v, Volume), u) /\ Grants(v, AllocReal(v, Volume))
      BY <3>1, RealSettled
    <3> QED BY <1>4, <2>2, <2>3, <3>2, KeepsGrants
  <2>4. CASE ~v.ok
    <3>1. Settled(Null(v), u) /\ KeepsLive(v, Null(v)) /\ Null(v).got = NoLock
      BY <2>1, <2>4, NullGood DEF Settled
    <3> QED BY <1>4, <2>2, <2>4, <3>1, KeepsTwice, GrantsNothing
  <2> QED BY <2>3, <2>4
<1>5. CASE k.path # NoPath /\ r = b
  <2>1. IsName(name)
    BY <1>2, <1>5 DEF IsName, EntryName
  <2> HIDE DEF name
  <2>2. Settled(b, u) /\ Grants(w, b)
    BY <2>1, WalkSettled
  <2> HIDE DEF b
  <2> QED BY <1>5, <2>2
<1>6. CASE k.type = "ENTRY" /\ r = e
  <2> DEFINE p == k.path
  <2>1. up \in Names \cup {<<>>}
    <3>1. CASE k.entry \in Names
      BY <3>1, NamesAssumption
    <3>2. CASE k.entry = <<>>
      BY <3>2
    <3> QED BY <1>2, <3>1, <3>2
  <2> HIDE DEF up
  <2>2. p \in Paths /\ w.arcs[p].ref > 0 /\ e = AllocInArchive(Retain(w, p), p, up)
    BY <1>2, <1>6
  <2> HIDE DEF p, e
  <2>3. Settled(e, u) /\ Grants(w, e)
    BY <2>1, <2>2, InArchiveSettled
  <2> QED BY <1>6, <2>3
<1> QED BY <1>1, <1>3, <1>4, <1>5, <1>6

(* Two levels up: the parent between is freed.                             *)
LEMMA GrandparentSettled ==
    ASSUME NEW w, NEW u \in Int, Settled(w, u), NEW l \in Live(w)
    PROVE  LET r == Grandparent(w, l) IN Settled(r, u) /\ Grants(w, r)
<1> DEFINE v == lhh_lock_parent(w, l)
<1> DEFINE c == lhh_lock_parent(v, v.got)
<1> DEFINE b == FreeBehind(c, v.got)
<1> DEFINE r == Grandparent(w, l)
<1> SUFFICES Settled(r, u) /\ Grants(w, r)
  OBVIOUS
<1>1. r = IF v.got = NoLock THEN v ELSE b
  BY DEF Grandparent, ParentOf
<1>2. Settled(v, u) /\ Grants(w, v)
  BY ParentSettled
<1> HIDE DEF v, r
<1>3. CASE v.got = NoLock
  BY <1>1, <1>2, <1>3
<1>4. CASE v.got # NoLock
  <2>1. v.got \in Live(v)
    BY <1>2, <1>4, GotLive
  <2>2. Settled(c, u) /\ Grants(v, c)
    BY <1>2, <2>1, ParentSettled
  <2> HIDE DEF c
  <2>3. Settled(b, u) /\ Grants(w, b)
    BY <1>2, <1>4, <2>2, FreeBehindSettled
  <2> HIDE DEF b
  <2> QED BY <1>1, <1>4, <2>3
<1> QED BY <1>3, <1>4

-----------------------------------------------------------------------------
(* File handles.                                                           *)

HandleSet == [kind : HandleKinds, lock : LockIds \cup {NoLock},
              entry : Names \cup {<<>>}, buf : Seq(Chunks)]

HandleFits(w, hh) ==
    /\ hh \in HandleSet
    /\ hh.kind = "free" => hh = FreeHandle
    /\ hh.kind \in {"free", "mem"} <=> hh.lock = NoLock
    /\ hh.kind = "host" => w.locks[hh.lock].type = "REAL"
    /\ hh.kind = "image" => w.locks[hh.lock].type = "ENTRY"
    /\ hh.kind = "write" => w.locks[hh.lock].type \in {"ARCHIVE", "ENTRY"}

(* A call leaves the client with at most the lock g, now in a handle.      *)
Gives(v, w, g) ==
    /\ g = NoLock \/ g \in LockIds \ Live(v)
    /\ Live(w) = Live(v) \cup ({g} \ {NoLock})
    /\ \A l \in Live(v) : SameLock(v, w, l)

(* Opening a handle is counted once.                                       *)
LEMMA UsagePlus ==
    ASSUME NEW w, NEW u \in Int, Settled(w, u), NEW d \in Int,
           NEW v, Shape(v), v.cats = w.cats, v.arcs = w.arcs, v.locks = w.locks,
           v.hostLocks = w.hostLocks, v.lockCnt = w.lockCnt,
           v.usageCnt = w.usageCnt + d
    PROVE  Settled(v, u + d) /\ KeepsLive(w, v)
<1>1. Typed(v) /\ Tidy(v) /\ Idle(v)
  BY DEF Settled, Good, Typed, Tidy, Idle
<1>2. /\ Live(v) = Live(w) /\ Real(v) = Real(w)
      /\ \A q \in Paths : UsersIn(v, q) = UsersIn(w, q)
  BY DEF Live, Real, UsersIn, OnArc
<1>3. w.lockCnt \in Int
  BY DEF Settled, Good, Typed
<1>4. Refs(v, NoPath, 0) /\ Counts(v, 0, u + d)
  BY <1>2, <1>3 DEF Settled, Good, Refs, Counts
<1> QED BY <1>1, <1>4, SameLocksKept DEF Settled, Good

(* Opened counts the handle it returns.                                    *)
LEMMA OpenedSettled ==
    ASSUME NEW w, NEW u \in Int, Settled(w, u),
           NEW kind \in HandleKinds \ {"free"}, NEW l \in LockIds \cup {NoLock},
           NEW n \in Names \cup {<<>>}
    PROVE  LET o == Opened(w, kind, l, n) IN
           /\ Settled(o.w, u + 1) /\ o.w.locks = w.locks
           /\ o.hh \in HandleSet /\ o.hh.kind = kind /\ o.hh.lock = l
<1> DEFINE v == [w EXCEPT !.usageCnt = @ + 1]
<1> DEFINE hh == [kind |-> kind, lock |-> l, entry |-> n, buf |-> <<>>]
<1> DEFINE o == Opened(w, kind, l, n)
<1>1. o.w = v /\ o.hh = hh
  BY DEF Opened
<1>2. /\ Shape(v) /\ v.cats = w.cats /\ v.arcs = w.arcs /\ v.locks = w.locks
      /\ v.hostLocks = w.hostLocks /\ v.lockCnt = w.lockCnt
      /\ v.usageCnt = w.usageCnt + 1
  BY DEF Settled, Good, Typed, Shape, Fields
<1>3. hh \in HandleSet /\ hh.kind = kind /\ hh.lock = l
  BY DEF HandleSet
<1> HIDE DEF v, hh, o
<1>4. Settled(v, u + 1)
  BY <1>2, UsagePlus
<1>5. /\ Settled(o.w, u + 1) /\ o.w.locks = w.locks
      /\ o.hh \in HandleSet /\ o.hh.kind = kind /\ o.hh.lock = l
  BY <1>1, <1>2, <1>3, <1>4
<1> QED BY <1>5 DEF o

(* No handle fits every world.                                             *)
LEMMA FreeHandleFits == ASSUME NEW w PROVE HandleFits(w, FreeHandle) /\ FreeHandle.lock = NoLock
                                           /\ FreeHandle.kind = "free"
  BY DEF HandleFits, FreeHandle, HandleSet, HandleKinds

(* Opening the object of a lock either moves the lock into the handle or   *)
(* frees it; a failed FH_FROM_LOCK leaves it with the client.              *)
LEMMA OpenLockSettled ==
    ASSUME NEW w, NEW u \in Int, Settled(w, u), NEW l \in Live(w), NEW mode,
           NEW stolen \in BOOLEAN
    PROVE  LET o == OpenLock(w, l, mode, stolen) IN
           /\ Settled(o.w, IF o.hh.kind = "free" THEN u ELSE u + 1)
           /\ HandleFits(o.w, o.hh)
           /\ \/ o.hh.lock = l /\ KeepsLive(w, o.w)
              \/ o.hh.lock = NoLock /\ Frees(w, o.w, l)
              \/ o.hh = FreeHandle /\ stolen /\ KeepsLive(w, o.w)
<1> DEFINE k == w.locks[l]
<1> DEFINE v == Called(w)
<1> DEFINE x == Called(v)
<1> DEFINE xf == [x EXCEPT !.fault = TRUE]
<1> DEFINE xd == [x EXCEPT !.disk[k.path] = EmptyArchive]
<1> DEFINE F(y) == NotOpened(IF stolen THEN y ELSE lhh_lock_free(y, l))
<1> DEFINE a == lh_arc_delete_entry(v, k.path, k.entry)
<1> DEFINE d == lhh_arc_refresh(a, k.path)
<1> DEFINE z == lhh_lock_free(v, l)
<1> DEFINE o == OpenLock(w, l, mode, stolen)
<1> DEFINE Goal == /\ Settled(o.w, IF o.hh.kind = "free" THEN u ELSE u + 1)
                   /\ HandleFits(o.w, o.hh)
                   /\ \/ o.hh.lock = l /\ KeepsLive(w, o.w)
                      \/ o.hh.lock = NoLock /\ Frees(w, o.w, l)
                      \/ o.hh = FreeHandle /\ stolen /\ KeepsLive(w, o.w)
<1> SUFFICES Goal
  OBVIOUS
<1>1. \/ \E y \in {v, x, xf} : o = F(y)
      \/ o = Opened(z, "mem", NoLock, <<>>)
      \/ k.type = "REAL" /\ \E y \in {x, xd} : o = Opened(y, "host", l, <<>>)
      \/ k.type = "ENTRY" /\ o = Opened(d, "write", l, k.entry)
      \/ k.type = "ENTRY" /\ o = Opened(x, "image", l, <<>>)
  BY DEF OpenLock
<1>2. /\ l \in LockIds /\ l # NoLock
      /\ k.entry \in Names \cup {<<>>}
      /\ k.type = "ENTRY" => k.path \in Paths /\ w.arcs[k.path].ref > 0
  BY LiveTypes
<1>3. \A y \in {v, x, xf, xd} : Same(w, y)
  BY DEF Settled, Good, Typed, Same, Shape, Fields, SameCounts, Called
<1>4. \A y \in {v, x, xf, xd} : Settled(y, u) /\ KeepsLive(w, y) /\ y.locks = w.locks /\ y.arcs = w.arcs
  BY <1>3, SameGood, KeepsIsLive DEF Settled, Same
<1>5. k = w.locks[l]
  OBVIOUS
<1> HIDE DEF k, o, v, x, xf, xd
<1>6. ASSUME NEW y \in {v, x, xf}, o = F(y) PROVE Goal
  <2>1. Settled(y, u) /\ KeepsLive(w, y) /\ y.locks = w.locks
    BY <1>4
  <2>2. l \in Live(y)
    BY <1>2, <2>1 DEF Live
  <2> DEFINE f == lhh_lock_free(y, l)
  <2>3. Settled(f, u) /\ Frees(y, f, l)
    BY <2>1, <2>2, FreeSettled
  <2>4. o.w = (IF stolen THEN y ELSE f) /\ o.hh = FreeHandle
    BY <1>6 DEF NotOpened
  <2> HIDE DEF f
  <2>5. Frees(w, f, l)
    BY <2>1, <2>3 DEF Frees, SameLock
  <2>6. HandleFits(o.w, o.hh) /\ o.hh.lock = NoLock /\ o.hh.kind = "free"
    BY <2>4, FreeHandleFits
  <2> QED BY <2>1, <2>3, <2>4, <2>5, <2>6
<1>7. ASSUME o = Opened(z, "mem", NoLock, <<>>) PROVE Goal
  <2>1. Settled(v, u) /\ v.locks = w.locks /\ l \in Live(v)
    BY <1>2, <1>4 DEF Live
  <2>2. Settled(z, u) /\ Frees(v, z, l)
    BY <2>1, FreeSettled
  <2> HIDE DEF z
  <2> DEFINE t == "mem"
  <2> DEFINE e == <<>>
  <2>3. t \in HandleKinds \ {"free"} /\ e \in Names \cup {<<>>} /\ t = "mem"
    BY DEF HandleKinds
  <2>4. o = Opened(z, t, NoLock, e)
    BY <1>7
  <2> HIDE DEF t, e
  <2>5. /\ Settled(o.w, u + 1) /\ o.w.locks = z.locks
        /\ o.hh \in HandleSet /\ o.hh.kind = t /\ o.hh.lock = NoLock
    BY <2>2, <2>3, <2>4, OpenedSettled
  <2>6. Frees(w, o.w, l)
    BY <2>1, <2>2, <2>5 DEF Frees, SameLock
  <2> QED BY <2>3, <2>5, <2>6 DEF HandleFits
<1>8. ASSUME NEW y, NEW t \in {"host", "image", "write"}, NEW e \in Names \cup {<<>>},
             Settled(y, u), KeepsLive(w, y), o = Opened(y, t, l, e),
             k.type = IF t = "host" THEN "REAL" ELSE "ENTRY"
      PROVE  Goal
  <2>1. t \in HandleKinds \ {"free"}
    BY DEF HandleKinds
  <2>2. /\ Settled(o.w, u + 1) /\ o.w.locks = y.locks
        /\ o.hh \in HandleSet /\ o.hh.kind = t /\ o.hh.lock = l
    BY <1>2, <1>8, <2>1, OpenedSettled
  <2>3. KeepsLive(w, o.w)
    BY <1>8, <2>2, SameLocksKept, KeepsTwice
  <2>4. o.w.locks[l].type = k.type
    BY <1>5, <2>3 DEF KeepsLive, SameLock
  <2> QED BY <1>2, <1>8, <2>1, <2>2, <2>3, <2>4 DEF HandleFits
<1>9. ASSUME k.type = "REAL", NEW y \in {x, xd}, o = Opened(y, "host", l, <<>>) PROVE Goal
  <2> DEFINE e == <<>>
  <2> DEFINE t == "host"
  <2>1. o = Opened(y, t, l, e) /\ e \in Names \cup {<<>>} /\ t \in {"host", "image", "write"}
        /\ k.type = (IF t = "host" THEN "REAL" ELSE "ENTRY")
        /\ Settled(y, u) /\ KeepsLive(w, y)
    BY <1>4, <1>9
  <2> HIDE DEF e, t, Goal
  <2> QED BY <1>8, <2>1
<1>10. ASSUME k.type = "ENTRY", o = Opened(d, "write", l, k.entry) PROVE Goal
  <2> DEFINE p == k.path
  <2> DEFINE e == k.entry
  <2>1. p \in Paths /\ v.arcs[p].ref > 0 /\ e \in Names \cup {<<>>}
        /\ a = lh_arc_delete_entry(v, p, e)
        /\ Settled(v, u) /\ KeepsLive(w, v)
    BY <1>2, <1>4, <1>10
  <2> HIDE DEF a
  <2>2. d = lhh_arc_refresh(a, p)
    OBVIOUS
  <2> HIDE DEF p, d
  <2>3. Settled(a, u) /\ Keeps(v, a) /\ a.arcs[p].ref > 0
    BY <2>1, DeleteEntryGood DEF Settled
  <2>4. Settled(d, u) /\ Keeps(a, d)
    BY <2>1, <2>2, <2>3, RefreshGood DEF Settled
  <2>5. KeepsLive(w, d)
    BY <2>1, <2>3, <2>4, KeepsIsLive, KeepsTwice
  <2> DEFINE t == "write"
  <2>6. t \in {"host", "image", "write"} /\ o = Opened(d, t, l, e)
        /\ k.type = (IF t = "host" THEN "REAL" ELSE "ENTRY")
    BY <1>10
  <2> HIDE DEF t, e, Goal
  <2> QED BY <1>8, <2>1, <2>4, <2>5, <2>6
<1>11. ASSUME k.type = "ENTRY", o = Opened(x, "image", l, <<>>) PROVE Goal
  <2> DEFINE e == <<>>
  <2> DEFINE t == "image"
  <2>1. o = Opened(x, t, l, e) /\ e \in Names \cup {<<>>} /\ t \in {"host", "image", "write"}
        /\ k.type = (IF t = "host" THEN "REAL" ELSE "ENTRY")
        /\ Settled(x, u) /\ KeepsLive(w, x)
    BY <1>4, <1>11
  <2> HIDE DEF e, t, Goal
  <2> QED BY <1>8, <2>1
<1> HIDE DEF Goal, z, d, F
<1> QED BY <1>1, <1>6, <1>7, <1>9, <1>10, <1>11

(* lhh_handle_open: the handle, or no lock left behind.                    *)
LEMMA HandleOpenSettled ==
    ASSUME NEW w, NEW u \in Int, Settled(w, u), NEW l \in Live(w) \cup {NoLock},
           NEW name, NameFor(w, l, name), NEW mode
    PROVE  LET o == lhh_handle_open(w, l, name, mode) IN
           /\ Settled(o.w, IF o.hh.kind = "free" THEN u ELSE u + 1)
           /\ HandleFits(o.w, o.hh)
           /\ Gives(w, o.w, o.hh.lock)
<1> DEFINE r == lhh_lock_resolve(w, l, name)
<1> DEFINE d == lhh_lock_dup(r, l)
<1> DEFINE x == Called(d)
<1> DEFINE f == lhh_lock_free(x, d.got)
<1> DEFINE m == OpenLock(r, r.got, mode, FALSE)
<1> DEFINE wr == Opened(x, "write", d.got, name.entry)
<1> DEFINE o == lhh_handle_open(w, l, name, mode)
<1> DEFINE Goal == /\ Settled(o.w, IF o.hh.kind = "free" THEN u ELSE u + 1)
                   /\ HandleFits(o.w, o.hh)
                   /\ Gives(w, o.w, o.hh.lock)
<1> SUFFICES Goal
  OBVIOUS
<1>1. \/ r.got # NoLock /\ o = m
      \/ r.got = NoLock /\ o = NotOpened(r)
      \/ /\ r.got = NoLock /\ name # Self /\ l # NoLock
         /\ r.locks[l].type \in {"ARCHIVE", "ENTRY"}
         /\ \/ d.got = NoLock /\ o = NotOpened(d)
            \/ d.got # NoLock /\ o \in {NotOpened(f), wr}
  BY DEF lhh_handle_open, OpenResolved, OpenNew
<1>2. Settled(r, u) /\ Grants(w, r)
  BY ResolveSettled
<1> HIDE DEF r, o
<1>3. ASSUME NEW y, Settled(y, u), KeepsLive(w, y), o = NotOpened(y) PROVE Goal
  <2>1. o.w = y /\ o.hh = FreeHandle
    BY <1>3 DEF NotOpened
  <2>2. HandleFits(o.w, o.hh) /\ o.hh.lock = NoLock /\ o.hh.kind = "free"
    BY <2>1, FreeHandleFits
  <2>3. Gives(w, o.w, NoLock)
    BY <1>3, <2>1 DEF KeepsLive, Gives
  <2> QED BY <1>3, <2>1, <2>2, <2>3
<1>4. ASSUME r.got # NoLock, o = m PROVE Goal
  <2>1. r.got \in Live(r)
    BY <1>2, <1>4, GotLive
  <2> DEFINE b == FALSE
  <2>2. b \in BOOLEAN /\ o = OpenLock(r, r.got, mode, b) /\ ~b
    BY <1>4
  <2> HIDE DEF b
  <2>3. /\ Settled(o.w, IF o.hh.kind = "free" THEN u ELSE u + 1)
        /\ HandleFits(o.w, o.hh)
        /\ \/ o.hh.lock = r.got /\ KeepsLive(r, o.w)
           \/ o.hh.lock = NoLock /\ Frees(r, o.w, r.got)
    BY <1>2, <2>1, <2>2, OpenLockSettled
  <2>4. CASE o.hh.lock = r.got /\ KeepsLive(r, o.w)
    <3>1. Gives(w, o.w, r.got)
      <4>1. Live(w) \subseteq Live(r)
        BY <1>2 DEF Grants
      <4> QED BY <1>2, <2>4, <4>1 DEF Grants, KeepsLive, Gives, SameLock
    <3> QED BY <2>3, <2>4, <3>1
  <2>5. CASE o.hh.lock = NoLock /\ Frees(r, o.w, r.got)
    <3>1. KeepsLive(w, o.w)
      BY <1>2, <1>4, <2>5, GrantsThenFrees
    <3>2. Gives(w, o.w, NoLock)
      BY <3>1 DEF KeepsLive, Gives
    <3> QED BY <2>3, <2>5, <3>2
  <2> QED BY <2>3, <2>4, <2>5
<1>5. r.got = NoLock => KeepsLive(w, r)
  BY <1>2 DEF Grants, KeepsLive
<1>6. ASSUME r.got = NoLock, o = NotOpened(r) PROVE Goal
  BY <1>2, <1>3, <1>5, <1>6
<1>7. ASSUME r.got = NoLock, name # Self, l # NoLock,
             r.locks[l].type \in {"ARCHIVE", "ENTRY"},
             \/ d.got = NoLock /\ o = NotOpened(d)
             \/ d.got # NoLock /\ o \in {NotOpened(f), wr}
      PROVE  Goal
  <2>1. l \in Live(r) /\ KeepsLive(w, r)
    BY <1>5, <1>7 DEF KeepsLive
  <2>2. /\ Settled(d, u) /\ Grants(r, d)
        /\ d.got = NoLock \/ d.locks[d.got].type \in {"ARCHIVE", "ENTRY"}
    BY <1>2, <1>7, <2>1, DupSettled
  <2> HIDE DEF d
  <2>3. Grants(w, d)
    BY <2>1, <2>2, KeepsGrants
  <2>4. CASE d.got = NoLock /\ o = NotOpened(d)
    <3>1. KeepsLive(w, d)
      BY <2>3, <2>4 DEF Grants, KeepsLive
    <3> QED BY <1>3, <2>2, <2>4, <3>1
  <2>5. CASE d.got # NoLock /\ o \in {NotOpened(f), wr}
    <3>1. Settled(x, u) /\ KeepsLive(d, x) /\ x.locks = d.locks
      BY <2>2, CalledGood DEF Settled
    <3> HIDE DEF x
    <3>2. d.got \in Live(x) /\ d.got \in LockIds
      BY <2>3, <2>5, <3>1, GotLive DEF KeepsLive
    <3>3. CASE o = NotOpened(f)
      <4>1. Settled(f, u) /\ Frees(x, f, d.got)
        BY <3>1, <3>2, FreeSettled
      <4> HIDE DEF f
      <4>2. Frees(d, f, d.got)
        BY <3>1, <4>1 DEF Frees, SameLock
      <4>3. KeepsLive(w, f)
        BY <2>3, <2>5, <4>2, GrantsThenFrees
      <4> QED BY <1>3, <3>3, <4>1, <4>3
    <3>4. CASE o = wr
      <4> DEFINE t == "write"
      <4> DEFINE n == name.entry
      <4> DEFINE g == d.got
      <4>1. /\ t \in HandleKinds \ {"free"} /\ n \in Names \cup {<<>>} /\ t = "write"
            /\ g \in LockIds \cup {NoLock} /\ o = Opened(x, t, g, n)
        BY <1>7, <3>2, <3>4 DEF HandleKinds, NameFor, IsName
      <4> HIDE DEF t, n, g
      <4>2. /\ Settled(o.w, u + 1) /\ o.w.locks = x.locks
            /\ o.hh \in HandleSet /\ o.hh.kind = t /\ o.hh.lock = g
        BY <3>1, <4>1, OpenedSettled
      <4> USE DEF g
      <4>3. HandleFits(o.w, o.hh)
        BY <2>2, <2>5, <3>1, <4>1, <4>2 DEF HandleFits
      <4>4. Gives(w, o.w, d.got)
        <5>1. Live(o.w) = Live(d) /\ \A i \in LockIds : SameLock(d, o.w, i)
          BY <3>1, <4>2 DEF Live, SameLock
        <5>2. Live(w) \subseteq LockIds
          BY DEF Live
        <5> QED BY <2>3, <5>1, <5>2 DEF Grants, Gives, SameLock
      <4> QED BY <4>1, <4>2, <4>3, <4>4
    <3> QED BY <2>5, <3>3, <3>4
  <2> QED BY <1>7, <2>4, <2>5
<1> HIDE DEF Goal, d, x, f, m, wr
<1> QED BY <1>1, <1>4, <1>6, <1>7

(* lhh_handle_close frees the lock the handle owned.                       *)
LEMMA HandleCloseSettled ==
    ASSUME NEW w, NEW u \in Int, Settled(w, u), NEW hh, HandleFits(w, hh),
           hh.kind # "free"
    PROVE  LET r == lhh_handle_close(w, hh) IN
           /\ Settled(r, u - 1)
           /\ IF hh.lock = NoLock THEN KeepsLive(w, r) ELSE Frees(w, r, hh.lock)
<1> DEFINE l == hh.lock
<1> DEFINE p == w.locks[l].path
<1> DEFINE e == FileEntry(hh.entry, hh.buf)
<1> DEFINE c == lhh_arc_commit_write(w, p, e)
<1> DEFINE v == IF hh.kind # "write" THEN w ELSE c
<1> DEFINE f == lhh_lock_free(v, l)
<1> DEFINE x == IF l = NoLock THEN v ELSE f
<1> DEFINE r == lhh_handle_close(w, hh)
<1> SUFFICES /\ Settled(r, u - 1)
             /\ IF l = NoLock THEN KeepsLive(w, r) ELSE Frees(w, r, l)
  OBVIOUS
<1>1. r = [x EXCEPT !.usageCnt = @ - 1]
  BY DEF lhh_handle_close
<1>2. /\ l \in LockIds \cup {NoLock}
      /\ hh.kind = "write" => l # NoLock /\ w.locks[l].type \in {"ARCHIVE", "ENTRY"}
      /\ l # NoLock => w.locks[l].type # "free"
  BY DEF HandleFits, HandleSet, HandleKinds
<1> HIDE DEF r, e
<1>3. Settled(v, u) /\ Keeps(w, v)
  <2>1. CASE hh.kind # "write"
    BY <2>1 DEF Keeps, SameLock
  <2>2. CASE hh.kind = "write"
    <3>1. p \in Paths /\ w.arcs[p].ref > 0
      BY <1>2, <2>2, Cached DEF Settled
    <3>2. Settled(c, u) /\ Keeps(w, c)
      BY <3>1, CommitGood DEF Settled
    <3> QED BY <2>2, <3>2
  <2> QED BY <2>1, <2>2
<1> HIDE DEF v
<1>4. Settled(x, u) /\ IF l = NoLock THEN KeepsLive(w, x) ELSE Frees(w, x, l)
  <2>1. CASE l = NoLock
    BY <1>3, <2>1, KeepsIsLive
  <2>2. CASE l # NoLock
    <3>1. l \in Live(v)
      BY <1>2, <1>3, <2>2 DEF Keeps, SameLock, Live
    <3>2. Settled(f, u) /\ Frees(v, f, l)
      BY <1>3, <3>1, FreeSettled
    <3> HIDE DEF f
    <3>3. Frees(w, f, l)
      BY <1>3, <3>2 DEF Frees, Keeps, SameLock
    <3> QED BY <2>2, <3>2, <3>3
  <2> QED BY <2>1, <2>2
<1> HIDE DEF x, l
<1>5. /\ Shape(r) /\ r.cats = x.cats /\ r.arcs = x.arcs /\ r.locks = x.locks
      /\ r.hostLocks = x.hostLocks /\ r.lockCnt = x.lockCnt
      /\ r.usageCnt = x.usageCnt + (-1)
  <2>1. /\ Shape(r) /\ r.cats = x.cats /\ r.arcs = x.arcs /\ r.locks = x.locks
        /\ r.hostLocks = x.hostLocks /\ r.lockCnt = x.lockCnt
        /\ r.usageCnt = x.usageCnt - 1
    BY <1>1, <1>4 DEF Settled, Good, Typed, Shape, Fields
  <2>2. x.usageCnt \in Int
    BY <1>4 DEF Settled, Good, Typed
  <2> QED BY <2>1, <2>2
<1>6. Settled(r, u + (-1)) /\ KeepsLive(x, r)
  BY <1>4, <1>5, UsagePlus
<1>7. u + (-1) = u - 1
  OBVIOUS
<1>8. IF l = NoLock THEN KeepsLive(w, r) ELSE Frees(w, r, l)
  BY <1>4, <1>5, <1>6, KeepsTwice DEF Frees, SameLock
<1> QED BY <1>6, <1>7, <1>8

-----------------------------------------------------------------------------
(* Operations on names.                                                    *)

(* lhh_delete_name leaves no lock behind.                                  *)
LEMMA DeleteSettled ==
    ASSUME NEW w, NEW u \in Int, Settled(w, u), NEW l \in Live(w) \cup {NoLock},
           NEW name, NameFor(w, l, name)
    PROVE  LET r == lhh_delete_name(w, l, name) IN Settled(r, u) /\ KeepsLive(w, r)
<1> DEFINE r == lhh_lock_resolve(w, l, name)
<1> DEFINE g == r.got
<1> DEFINE k == r.locks[g]
<1> DEFINE d == lh_arc_delete_entry(r, k.path, k.entry)
<1> DEFINE e == lhh_arc_refresh(d, k.path)
<1> DEFINE v == lhh_lock_free(r, g)
<1> DEFINE vd == [v EXCEPT !.disk[k.path] = Absent]
<1> DEFINE z == lhh_delete_name(w, l, name)
<1> SUFFICES Settled(z, u) /\ KeepsLive(w, z)
  OBVIOUS
<1>1. \/ g = NoLock /\ z = r
      \/ g # NoLock /\ k.type = "ENTRY" /\ \E y \in {d, e} : z = lhh_lock_free(y, g)
      \/ g # NoLock /\ z \in {v, vd}
  BY DEF lhh_delete_name, DeleteResolved, DeleteHost, RefreshIfDone
<1>2. Settled(r, u) /\ Grants(w, r)
  BY ResolveSettled
<1> HIDE DEF r, z
<1>3. CASE g = NoLock /\ z = r
  BY <1>2, <1>3 DEF Grants, KeepsLive
<1>4. CASE g # NoLock /\ k.type = "ENTRY" /\ \E y \in {d, e} : z = lhh_lock_free(y, g)
  <2> DEFINE p == k.path
  <2> DEFINE n == k.entry
  <2>1. g \in Live(r)
    BY <1>2, <1>4, GotLive
  <2>2. p \in Paths /\ r.arcs[p].ref > 0
    BY <1>2, <1>4, <2>1, LiveTypes
  <2>3. d = lh_arc_delete_entry(r, p, n) /\ e = lhh_arc_refresh(d, p)
    OBVIOUS
  <2> HIDE DEF p, n, d, e
  <2>4. Settled(d, u) /\ Keeps(r, d) /\ d.arcs[p].ref > 0
    BY <1>2, <2>2, <2>3, DeleteEntryGood DEF Settled
  <2>5. Settled(e, u) /\ Keeps(d, e)
    BY <2>2, <2>3, <2>4, RefreshGood DEF Settled
  <2>6. PICK y \in {d, e} : z = lhh_lock_free(y, g)
    BY <1>4
  <2>7. Settled(y, u) /\ Keeps(r, y)
    BY <2>4, <2>5 DEF Keeps, SameLock
  <2>8. g \in Live(y)
    BY <2>1, <2>7 DEF Keeps, SameLock, Live
  <2>9. Settled(z, u) /\ Frees(y, z, g)
    BY <2>6, <2>7, <2>8, FreeSettled
  <2>10. Frees(r, z, g)
    BY <2>7, <2>9 DEF Frees, Keeps, SameLock
  <2> QED BY <1>2, <1>4, <2>9, <2>10, GrantsThenFrees
<1>5. CASE g # NoLock /\ z \in {v, vd}
  <2>1. g \in Live(r)
    BY <1>2, <1>5, GotLive
  <2>2. Settled(v, u) /\ Frees(r, v, g)
    BY <1>2, <2>1, FreeSettled
  <2> HIDE DEF v
  <2>3. KeepsLive(w, v)
    BY <1>2, <1>5, <2>2, GrantsThenFrees
  <2>4. Same(v, vd)
    BY <2>2 DEF Settled, Good, Typed, Same, Shape, Fields, SameCounts
  <2> HIDE DEF vd
  <2>5. Settled(vd, u) /\ KeepsLive(v, vd)
    BY <2>2, <2>4, SameGood, KeepsIsLive DEF Settled
  <2> QED BY <1>5, <2>2, <2>3, <2>5, KeepsTwice
<1> QED BY <1>1, <1>3, <1>4, <1>5

(* lhh_create_dir_name grants a lock or nothing.                           *)
LEMMA CreateDirSettled ==
    ASSUME NEW w, NEW u \in Int, Settled(w, u), NEW l \in Live(w) \cup {NoLock},
           NEW name, NameFor(w, l, name), name # Self
    PROVE  LET r == lhh_create_dir_name(w, l, name) IN Settled(r, u) /\ Grants(w, r)
<1> DEFINE r == lhh_lock_resolve(w, l, name)
<1> DEFINE type == IF l = NoLock THEN "ROOT" ELSE r.locks[l].type
<1> DEFINE p == name.path
<1> DEFINE n == name.entry
<1> DEFINE a == LhAppendEntry(r, p, DirEntry(n))
<1> DEFINE f == lhh_arc_refresh(a, p)
<1> DEFINE c == Called(r)
<1> DEFINE cd == [c EXCEPT !.disk[p] = HostDir]
<1> DEFINE q == lhh_lock_free(r, r.got)
<1> DEFINE m == AllocInArchive(Retain(f, p), p, n)
<1> DEFINE i == lhh_lock_resolve(cd, l, name)
<1> DEFINE z == lhh_create_dir_name(w, l, name)
<1> SUFFICES Settled(z, u) /\ Grants(w, z)
  OBVIOUS
<1>1. \/ r.got # NoLock /\ z = Null(q)
      \/ r.got = NoLock /\ type \in {"ARCHIVE", "ENTRY"} /\ z \in {m, Null(f), Null(a)}
      \/ r.got = NoLock /\ type = "REAL" /\ z = i
      \/ z = r
  BY DEF lhh_create_dir_name, CreateResolved, LockMade, RefreshIfDone
<1>2. Settled(r, u) /\ Grants(w, r)
  BY ResolveSettled
<1> HIDE DEF r, z
<1>2a. l # NoLock => l \in Live(w) /\ type = w.locks[l].type
  BY <1>2 DEF Grants, SameLock
<1>3. /\ IsName(name)
      /\ type \in {"ARCHIVE", "ENTRY"} =>
             l \in Live(w) /\ l # NoLock /\ w.locks[l].type = type /\ p = w.locks[l].path
      /\ type = "REAL" => l \in Live(w) /\ l # NoLock /\ w.locks[l].type = type
  BY <1>2a DEF NameFor
<1> HIDE DEF type
<1>4. CASE z = r
  BY <1>2, <1>4
<1>5. CASE r.got # NoLock /\ z = Null(q)
  <2>1. r.got \in Live(r)
    BY <1>2, <1>5, GotLive
  <2>2. Settled(q, u) /\ Frees(r, q, r.got)
    BY <1>2, <2>1, FreeSettled
  <2> HIDE DEF q
  <2>3. KeepsLive(w, q)
    BY <1>2, <1>5, <2>2, GrantsThenFrees
  <2>4. Settled(Null(q), u) /\ KeepsLive(q, Null(q)) /\ Null(q).got = NoLock
    BY <2>2, NullGood DEF Settled
  <2> QED BY <1>5, <2>3, <2>4, KeepsTwice, GrantsNothing
<1>6. CASE r.got = NoLock /\ type \in {"ARCHIVE", "ENTRY"} /\ z \in {m, Null(f), Null(a)}
  <2>1. KeepsLive(w, r)
    BY <1>2, <1>6 DEF Grants, KeepsLive
  <2>2. l \in Live(r) /\ r.locks[l].type \in {"ARCHIVE", "ENTRY"} /\ p = r.locks[l].path
    BY <1>3, <1>6, <2>1 DEF KeepsLive, SameLock
  <2>3. p \in Paths /\ r.arcs[p].ref > 0
    BY <1>2, <2>2, LiveTypes
  <2>4. Same(r, a)
    BY <1>2, AppendSame DEF Settled, Good
  <2>5. n \in Names \cup {<<>>}
    BY <1>3 DEF IsName
  <2> HIDE DEF a, p, n
  <2>6. Settled(a, u) /\ KeepsLive(w, a) /\ a.arcs[p].ref > 0
    BY <1>2, <2>1, <2>3, <2>4, SameGood, KeepsIsLive, KeepsTwice DEF Settled, Same
  <2>7. Settled(f, u) /\ Keeps(a, f) /\ f.arcs[p].ref > 0
    BY <2>3, <2>6, RefreshGood DEF Settled
  <2> HIDE DEF f
  <2>8. KeepsLive(w, f)
    BY <2>6, <2>7, KeepsIsLive, KeepsTwice
  <2>9. Settled(m, u) /\ Grants(f, m)
    BY <2>3, <2>5, <2>7, InArchiveSettled
  <2> HIDE DEF m
  <2>10. Settled(Null(a), u) /\ KeepsLive(a, Null(a)) /\ Null(a).got = NoLock
    BY <2>6, NullGood DEF Settled
  <2>11. Settled(Null(f), u) /\ KeepsLive(f, Null(f)) /\ Null(f).got = NoLock
    BY <2>7, NullGood DEF Settled
  <2>12. Grants(w, m)
    BY <2>8, <2>9, KeepsGrants
  <2>13. Grants(w, Null(a)) /\ Grants(w, Null(f))
    BY <2>6, <2>8, <2>10, <2>11, KeepsTwice, GrantsNothing
  <2> QED BY <1>6, <2>9, <2>10, <2>11, <2>12, <2>13
<1>7. CASE r.got = NoLock /\ type = "REAL" /\ z = i
  <2>1. KeepsLive(w, r)
    BY <1>2, <1>7 DEF Grants, KeepsLive
  <2>2. Same(r, cd)
    BY <1>2 DEF Called, Settled, Good, Typed, Same, Shape, Fields, SameCounts
  <2> HIDE DEF cd
  <2>3. Settled(cd, u) /\ KeepsLive(w, cd)
    BY <1>2, <2>1, <2>2, SameGood, KeepsIsLive, KeepsTwice DEF Settled
  <2>4. l \in Live(cd) /\ cd.locks[l].type = "REAL"
    BY <1>3, <1>7, <2>3 DEF KeepsLive, SameLock
  <2>5. NameFor(cd, l, name)
    BY <1>3, <2>4 DEF NameFor
  <2>6. Settled(i, u) /\ Grants(cd, i)
    BY <2>3, <2>4, <2>5, ResolveSettled
  <2> HIDE DEF i
  <2> QED BY <1>7, <2>3, <2>6, KeepsGrants
<1> QED BY <1>1, <1>4, <1>5, <1>6, <1>7

-----------------------------------------------------------------------------
(* The invariant of the packet loop.                                       *)

State == World({})
Opens == Cardinality(OpenHandles)

HandlesOk ==
    /\ handles \in [HandleIds -> HandleSet]
    /\ \A h \in HandleIds : HandleFits(State, handles[h])
    /\ \A g, h \in HandleIds :
           g # h /\ handles[g].lock = handles[h].lock => handles[h].lock = NoLock

IInv ==
    /\ Settled(State, Opens)
    /\ HandlesOk
    /\ ~running => usageCnt = 0

(* A packet starts from the state variables.                               *)
LEMMA WorldFields ==
    ASSUME NEW plan
    PROVE  LET w == World(plan) IN
           /\ Shape(w) /\ w.cats = cats /\ w.arcs = arcs /\ w.locks = locks
           /\ w.hostLocks = hostLocks /\ w.lockCnt = lockCnt /\ w.usageCnt = usageCnt
  BY DEF World, Shape, Fields

(* What the invariant says when a packet starts.                           *)
LEMMA PacketStarts ==
    ASSUME NEW plan, NEW u, Settled(State, u)
    PROVE  LET w == World(plan) IN
           /\ Settled(w, u) /\ w.locks = locks /\ Live(w) = Live(State)
           /\ KeepsLive(State, w)
<1> DEFINE w == World(plan)
<1>1. Same(State, w) /\ w.locks = locks /\ State.locks = locks
  BY WorldFields DEF Same, SameCounts, State
<1> HIDE DEF w
<1>2. Settled(w, u)
  BY <1>1, SameGood DEF Settled
<1>3. KeepsLive(State, w)
  BY <1>1, SameLocksKept
<1>4. Live(w) = Live(State)
  BY <1>3 DEF KeepsLive
<1> QED BY <1>1, <1>2, <1>3, <1>4 DEF w

(* What the invariant needs when a packet ends.                            *)
LEMMA PacketEnds ==
    ASSUME NEW w, NEW u, Settled(w, u), Becomes(w)
    PROVE  Settled(State', u) /\ locks' = w.locks /\ State'.locks = locks'
           /\ usageCnt' = w.usageCnt
<1> DEFINE v == State'
<1>1. /\ Shape(v) /\ v.cats = cats' /\ v.arcs = arcs' /\ v.locks = locks'
      /\ v.hostLocks = hostLocks' /\ v.lockCnt = lockCnt' /\ v.usageCnt = usageCnt'
  BY DEF State, World, Shape, Fields
<1> HIDE DEF v
<1>2. Same(w, v)
  BY <1>1 DEF Becomes, Same, SameCounts
<1>3. Settled(v, u)
  BY <1>2, SameGood DEF Settled
<1> QED BY <1>1, <1>3 DEF Becomes, v

(* Clients and handles name live locks only.                               *)
LEMMA ClientLocksLive ==
    ASSUME HandlesOk
    PROVE  /\ ClientLocks \subseteq Live(State) \ HandleLocks
           /\ HandleLocks \subseteq Live(State)
<1>1. State.locks = locks
  BY WorldFields DEF State
<1>2. ClientLocks \subseteq Live(State) \ HandleLocks
  BY <1>1 DEF ClientLocks, Live
<1>3. ASSUME NEW h \in HandleIds, handles[h].lock # NoLock
      PROVE  handles[h].lock \in Live(State)
  <2>1. HandleFits(State, handles[h])
    BY DEF HandlesOk
  <2> QED BY <1>3, <2>1 DEF HandleFits, HandleSet, HandleKinds, Live
<1> QED BY <1>2, <1>3 DEF HandleLocks

(* The open handles are finitely many.                                     *)
LEMMA OpensNat == OpenHandles \in SUBSET HandleIds /\ IsFiniteSet(OpenHandles) /\ Opens \in Nat
  BY HandlesAssumption, FS_Subset, FS_CardinalityType DEF OpenHandles, Opens

(* A packet that opens and closes no handle.                               *)
LEMMA SameHandles ==
    ASSUME IInv, NEW w, Settled(w, Opens), Becomes(w),
           \A l \in HandleLocks : SameLock(State, w, l),
           handles' = handles, running, running' = running
    PROVE  IInv'
<1>1. /\ Settled(State', Opens) /\ State'.locks = w.locks
  BY PacketEnds
<1>2. Opens' = Opens
  BY DEF Opens, OpenHandles
<1>3. HandlesOk'
  <2>1. \A h \in HandleIds : HandleFits(State', handles[h])
    <3> SUFFICES ASSUME NEW h \in HandleIds PROVE HandleFits(State', handles[h])
      OBVIOUS
    <3>1. HandleFits(State, handles[h])
      BY DEF IInv, HandlesOk
    <3>2. handles[h].lock = NoLock \/ State'.locks[handles[h].lock].type = State.locks[handles[h].lock].type
      BY <1>1 DEF HandleLocks, SameLock
    <3> QED BY <3>1, <3>2 DEF HandleFits
  <2> QED BY <2>1 DEF IInv, HandlesOk
<1> QED BY <1>1, <1>2, <1>3 DEF IInv

(* A packet that changes one handle, from or to no handle.                 *)
LEMMA OneHandle ==
    ASSUME IInv, NEW w, NEW h \in HandleIds, NEW hh, HandleFits(w, hh),
           Settled(w, Cardinality((OpenHandles \ {h}) \cup (IF hh.kind = "free" THEN {} ELSE {h}))),
           Becomes(w),
           handles' = [handles EXCEPT ![h] = hh],
           hh.lock = NoLock \/ \A g \in HandleIds \ {h} : handles[g].lock # hh.lock,
           \A g \in HandleIds \ {h} :
               handles[g].lock # NoLock => SameLock(State, w, handles[g].lock),
           running, running' = running
    PROVE  IInv'
<1>1. Settled(State', Cardinality((OpenHandles \ {h}) \cup (IF hh.kind = "free" THEN {} ELSE {h})))
      /\ State'.locks = w.locks
  BY PacketEnds
<1>2. /\ handles'[h] = hh
      /\ \A g \in HandleIds \ {h} : handles'[g] = handles[g]
      /\ hh \in HandleSet
      /\ handles' \in [HandleIds -> HandleSet]
  BY DEF IInv, HandlesOk, HandleFits
<1>3. OpenHandles' = (OpenHandles \ {h}) \cup (IF hh.kind = "free" THEN {} ELSE {h})
  BY <1>2 DEF OpenHandles
<1>4. \A g \in HandleIds : HandleFits(State', handles'[g])
  <2> SUFFICES ASSUME NEW g \in HandleIds PROVE HandleFits(State', handles'[g])
    OBVIOUS
  <2>1. CASE g = h
    BY <1>1, <1>2, <2>1 DEF HandleFits
  <2>2. CASE g # h
    <3>1. HandleFits(State, handles[g]) /\ handles'[g] = handles[g]
      BY <1>2, <2>2 DEF IInv, HandlesOk
    <3>2. handles[g].lock = NoLock \/ State'.locks[handles[g].lock].type = State.locks[handles[g].lock].type
      BY <1>1, <2>2 DEF SameLock
    <3> QED BY <3>1, <3>2 DEF HandleFits
  <2> QED BY <2>1, <2>2
<1>5. ASSUME NEW f \in HandleIds, NEW g \in HandleIds, f # g, handles'[f].lock = handles'[g].lock
      PROVE  handles'[g].lock = NoLock
  BY <1>2, <1>5 DEF IInv, HandlesOk
<1>6. HandlesOk'
  BY <1>2, <1>4, <1>5 DEF HandlesOk
<1>7. Opens' = Cardinality((OpenHandles \ {h}) \cup (IF hh.kind = "free" THEN {} ELSE {h}))
  BY <1>3 DEF Opens
<1> QED BY <1>1, <1>6, <1>7 DEF IInv

(* The names a client can spell are names a lock can resolve.              *)
LEMMA NamesFit ==
    ASSUME NEW l \in Parents, NEW name \in NamesUnder(l),
           NEW w, NEW u, Settled(w, u), w.locks = locks
    PROVE  NameFor(w, l, name) /\ name # Self
<1> DEFINE k == IF l = NoLock THEN [type |-> "ROOT"] ELSE locks[l]
<1>1. name \in NamesFrom(k)
  BY DEF NamesUnder
<1>2. l = NoLock => k.type = "ROOT"
  OBVIOUS
<1>3. l # NoLock => k = w.locks[l]
  OBVIOUS
<1> HIDE DEF k
<1>4. CASE k.type = "ROOT" \/ (k.type = "REAL" /\ k.path = Volume)
  <2>1. \/ \E o \in Paths \cup {Volume} : name = HostName(o)
        \/ \E o \in Paths \cup {Volume, NoPath} : name = IconName(o)
        \/ \E p \in Paths, n \in Names : name = EntryName(p, n)
    BY <1>1, <1>4 DEF NamesFrom
  <2>2. IsName(name) /\ name # Self
    BY <2>1, PathsAssumption DEF IsName, HostName, IconName, EntryName, Self
  <2> QED BY <1>2, <1>3, <1>4, <2>2 DEF NameFor
<1>5. CASE k.type \in {"ARCHIVE", "ENTRY"}
  <2>1. PICK n \in Names : name = EntryName(k.path, n)
    BY <1>1, <1>5 DEF NamesFrom
  <2>2. l # NoLock /\ l \in Live(w)
    BY <1>2, <1>3, <1>5 DEF Parents, ClientLocks, Live
  <2>3. k.path \in Paths /\ k.path = w.locks[l].path
    BY <1>3, <1>5, <2>2, LiveTypes
  <2> QED BY <2>1, <2>3, PathsAssumption DEF NameFor, IsName, EntryName, Self
<1>6. CASE /\ ~ (k.type = "ROOT" \/ (k.type = "REAL" /\ k.path = Volume))
           /\ ~ (k.type \in {"ARCHIVE", "ENTRY"})
  BY <1>1, <1>6 DEF NamesFrom
<1> QED BY <1>4, <1>5, <1>6

(* A lock granted to a client is no lock of a handle.                      *)
LEMMA GrantsOthers ==
    ASSUME HandlesOk, NEW v, NEW w, KeepsLive(State, v), Grants(v, w) \/ KeepsLive(v, w)
    PROVE  \A l \in HandleLocks : SameLock(State, w, l)
<1>1. HandleLocks \subseteq Live(State)
  BY ClientLocksLive
<1> QED BY <1>1 DEF Grants, KeepsLive, SameLock

-----------------------------------------------------------------------------
(* The packets.                                                            *)

(* The handler starts with nothing held.                                   *)
LEMMA Initially == Init => IInv
<1> SUFFICES ASSUME Init PROVE IInv
  OBVIOUS
<1> DEFINE w == State
<1>1. /\ Shape(w) /\ w.cats = cats /\ w.arcs = arcs /\ w.locks = locks
      /\ w.hostLocks = 0 /\ w.lockCnt = 0 /\ w.usageCnt = 0
  BY WorldFields DEF Init, State
<1> HIDE DEF w
<1>2. OpenHandles = {} /\ Opens = 0
  BY FS_EmptySet DEF Init, OpenHandles, Opens, FreeHandle
<1>3. FreeLock \in LockSet /\ FreeLock.type = "free" /\ FreeLock.lh # DANGLING
  BY DEF FreeLock, LockSet, LockTypes, ZERO, DANGLING
<1>4. NoArc \in ArcSet /\ NoArc.ref = 0 /\ NoArc.users = {}
  BY DEF NoArc, ArcSet
<1>5. Typed(w)
  BY <1>1, <1>3, <1>4 DEF Init, Typed
<1>6. Tidy(w) /\ Idle(w)
  BY <1>1, <1>3 DEF Init, Tidy, Idle
<1>7. /\ Live(w) = {} /\ Real(w) = {}
      /\ \A p \in Paths : UsersIn(w, p) = {}
  BY <1>1, <1>3 DEF Init, Live, Real, UsersIn, OnArc
<1>8. Refs(w, NoPath, 0) /\ Counts(w, 0, 0)
  <2>1. \A p \in Paths : w.arcs[p] = NoArc
    BY <1>1 DEF Init
  <2>2. Refs(w, NoPath, 0)
    BY <1>4, <1>7, <2>1, FS_EmptySet DEF Refs
  <2> QED BY <1>1, <1>7, <2>2, FS_EmptySet DEF Counts
<1>9. HandlesOk
  <2>1. \A h \in HandleIds : handles[h] = FreeHandle
    BY DEF Init
  <2>2. FreeHandle \in HandleSet /\ FreeHandle.lock = NoLock
    BY DEF FreeHandle, HandleSet, HandleKinds
  <2>3. handles \in [HandleIds -> HandleSet]
    BY <2>2 DEF Init
  <2> QED BY <2>1, <2>2, <2>3, FreeHandleFits DEF HandlesOk
<1>10. Settled(State, Opens)
  BY <1>2, <1>5, <1>6, <1>8 DEF Settled, Good, w
<1> QED BY <1>1, <1>9, <1>10 DEF IInv, Init

(* Packets that return a lock or nothing.                                  *)
LEMMA LockPackets ==
    ASSUME IInv, NEW plan,
           Locate(plan) \/ CopyDir(plan) \/ Parent(plan) \/ Delete(plan) \/ CreateDir(plan)
    PROVE  IInv'
<1> DEFINE w == World(plan)
<1>1. /\ Settled(w, Opens) /\ w.locks = locks /\ Live(w) = Live(State)
      /\ KeepsLive(State, w)
  BY PacketStarts DEF IInv
<1>2. w = World(plan)
  OBVIOUS
<1> HIDE DEF w
<1>3. /\ ClientLocks \cup HandleLocks \subseteq Live(w)
      /\ Parents \subseteq Live(w) \cup {NoLock}
      /\ Opens \in Int
  BY <1>1, ClientLocksLive, OpensNat DEF IInv, Parents
<1>4. ASSUME NEW r, Settled(r, Opens), Grants(w, r) \/ KeepsLive(w, r), Becomes(r),
             handles' = handles, running, running' = running
      PROVE  IInv'
  <2>1. \A l \in HandleLocks : SameLock(State, r, l)
    BY <1>1, <1>4, GrantsOthers DEF IInv
  <2> QED BY <1>4, <2>1, SameHandles
<1>5. CASE Locate(plan)
  <2>1. CASE Becomes(AllocPlain(w, "ROOT", NoPath, <<>>))
    <3> DEFINE r == AllocPlain(w, "ROOT", NoPath, <<>>)
    <3>1. Settled(r, Opens) /\ Grants(w, r)
      BY <1>1, <1>3, PlainSettled
    <3> HIDE DEF r
    <3>2. Becomes(r)
      BY <2>1 DEF r
    <3> QED BY <1>4, <1>5, <3>1, <3>2 DEF Locate
  <2>2. CASE \E l \in Parents : \E name \in NamesUnder(l) \cup {Self} :
                 Becomes(lhh_lock_resolve(w, l, name))
    <3>0. PICK l \in Parents : \E name \in NamesUnder(l) \cup {Self} :
                 Becomes(lhh_lock_resolve(w, l, name))
      BY <2>2
    <3>1. PICK name \in NamesUnder(l) \cup {Self} :
                 Becomes(lhh_lock_resolve(w, l, name))
      BY <3>0
    <3>2. NameFor(w, l, name)
      BY <1>1, NamesFit DEF NameFor
    <3> DEFINE r == lhh_lock_resolve(w, l, name)
    <3>3. Settled(r, Opens) /\ Grants(w, r)
      BY <1>1, <1>3, <3>2, ResolveSettled
    <3> QED BY <1>4, <1>5, <3>1, <3>3 DEF Locate
  <2> QED BY <1>2, <1>5, <2>1, <2>2 DEF Locate
<1>6. CASE CopyDir(plan)
  <2>1. PICK l \in ClientLocks \cup HandleLocks : Becomes(lhh_lock_dup(w, l))
    BY <1>2, <1>6 DEF CopyDir
  <2> DEFINE r == lhh_lock_dup(w, l)
  <2>2. Settled(r, Opens) /\ Grants(w, r)
    BY <1>1, <1>3, DupSettled
  <2> QED BY <1>4, <1>6, <2>1, <2>2 DEF CopyDir
<1>7. CASE Parent(plan)
  <2>1. PICK l \in ClientLocks \cup HandleLocks :
            Becomes(lhh_lock_parent(w, l)) \/ Becomes(Grandparent(w, l))
    BY <1>2, <1>7 DEF Parent
  <2>2. /\ Settled(lhh_lock_parent(w, l), Opens) /\ Grants(w, lhh_lock_parent(w, l))
        /\ Settled(Grandparent(w, l), Opens) /\ Grants(w, Grandparent(w, l))
    BY <1>1, <1>3, ParentSettled, GrandparentSettled
  <2> QED BY <1>4, <1>7, <2>1, <2>2 DEF Parent
<1>8. CASE Delete(plan)
  <2>0. PICK l \in Parents : \E name \in NamesUnder(l) \cup {Self} :
             Becomes(lhh_delete_name(w, l, name))
    BY <1>2, <1>8 DEF Delete
  <2>1. PICK name \in NamesUnder(l) \cup {Self} : Becomes(lhh_delete_name(w, l, name))
    BY <2>0
  <2>2. NameFor(w, l, name)
    BY <1>1, NamesFit DEF NameFor
  <2> DEFINE r == lhh_delete_name(w, l, name)
  <2>3. Settled(r, Opens) /\ KeepsLive(w, r)
    BY <1>1, <1>3, <2>2, DeleteSettled
  <2> QED BY <1>4, <1>8, <2>1, <2>3 DEF Delete
<1>9. CASE CreateDir(plan)
  <2>0. PICK l \in Parents : \E name \in NamesUnder(l) :
             Becomes(lhh_create_dir_name(w, l, name))
    BY <1>2, <1>9 DEF CreateDir
  <2>1. PICK name \in NamesUnder(l) : Becomes(lhh_create_dir_name(w, l, name))
    BY <2>0
  <2>2. NameFor(w, l, name) /\ name # Self
    BY <1>1, NamesFit
  <2> DEFINE r == lhh_create_dir_name(w, l, name)
  <2>3. Settled(r, Opens) /\ Grants(w, r)
    BY <1>1, <1>3, <2>2, CreateDirSettled
  <2> QED BY <1>4, <1>9, <2>1, <2>3 DEF CreateDir
<1> QED BY <1>5, <1>6, <1>7, <1>8, <1>9

(* The packet that frees a lock.                                           *)
LEMMA FreePacket == IInv /\ FreeClientLock => IInv'
<1> SUFFICES ASSUME IInv, FreeClientLock PROVE IInv'
  OBVIOUS
<1> DEFINE w == World({})
<1>1. /\ Settled(w, Opens) /\ Live(w) = Live(State) /\ KeepsLive(State, w)
  BY PacketStarts DEF IInv
<1>2. PICK l \in ClientLocks : Becomes(lhh_lock_free(w, l))
  BY DEF FreeClientLock
<1> HIDE DEF w
<1>3. l \in Live(w) /\ l \notin HandleLocks /\ Opens \in Int /\ HandleLocks \subseteq Live(w)
  BY <1>1, ClientLocksLive, OpensNat DEF IInv
<1> DEFINE r == lhh_lock_free(w, l)
<1>4. Settled(r, Opens) /\ Frees(w, r, l)
  BY <1>1, <1>3, FreeSettled
<1> HIDE DEF r
<1>5. Becomes(r)
  BY <1>2 DEF r
<1>6. \A i \in HandleLocks : SameLock(State, r, i)
  BY <1>1, <1>3, <1>4 DEF KeepsLive, Frees, SameLock, Live
<1> QED BY <1>4, <1>5, <1>6, SameHandles DEF FreeClientLock

(* Packets that open a handle.                                             *)
LEMMA OpenPackets ==
    ASSUME IInv, NEW plan, Open(plan) \/ FhFromLock(plan)
    PROVE  IInv'
<1> DEFINE w == World(plan)
<1>1. /\ Settled(w, Opens) /\ w.locks = locks /\ Live(w) = Live(State)
      /\ KeepsLive(State, w)
  BY PacketStarts DEF IInv
<1>2. w = World(plan)
  OBVIOUS
<1> HIDE DEF w
<1>3. /\ ClientLocks \subseteq Live(w) \ HandleLocks
      /\ HandleLocks \subseteq Live(w)
      /\ Parents \subseteq Live(w) \cup {NoLock}
      /\ Opens \in Int
  BY <1>1, ClientLocksLive, OpensNat DEF IInv, Parents
<1>4. \A h \in HandleIds \ OpenHandles :
         OpenHandles \ {h} = OpenHandles /\ Cardinality(OpenHandles \cup {h}) = Opens + 1
  BY OpensNat, FS_AddElement DEF Opens
<1>5. ASSUME NEW h \in HandleIds \ OpenHandles, NEW o,
             Settled(o.w, IF o.hh.kind = "free" THEN Opens ELSE Opens + 1),
             HandleFits(o.w, o.hh),
             o.hh.lock \notin HandleLocks,
             \A l \in HandleLocks : SameLock(w, o.w, l),
             Becomes(o.w), handles' = [handles EXCEPT ![h] = o.hh],
             running, running' = running
      PROVE  IInv'
  <2> DEFINE v == o.w
  <2> DEFINE hh == o.hh
  <2>1. Settled(v, Cardinality((OpenHandles \ {h}) \cup (IF hh.kind = "free" THEN {} ELSE {h})))
    BY <1>4, <1>5 DEF Opens
  <2>2. hh.lock = NoLock \/ \A g \in HandleIds \ {h} : handles[g].lock # hh.lock
    BY <1>5 DEF HandleLocks
  <2>3. \A g \in HandleIds \ {h} :
            handles[g].lock # NoLock => SameLock(State, v, handles[g].lock)
    <3>1. \A l \in HandleLocks : SameLock(State, v, l)
      BY <1>1, <1>3, <1>5 DEF KeepsLive, SameLock
    <3> QED BY <3>1 DEF HandleLocks
  <2>4. HandleFits(v, hh) /\ Becomes(v) /\ handles' = [handles EXCEPT ![h] = hh]
    BY <1>5
  <2> HIDE DEF v, hh
  <2> QED BY <1>5, <2>1, <2>2, <2>3, <2>4, OneHandle
<1>6. CASE Open(plan)
  <2>1. PICK h \in HandleIds \ OpenHandles, l \in Parents, mode \in Modes :
        \E name \in NamesUnder(l) \cup (IF l = NoLock THEN {} ELSE {Self}) :
            LET o == lhh_handle_open(World(plan), l, name, mode) IN
            /\ Becomes(o.w)
            /\ handles' = [handles EXCEPT ![h] = o.hh]
    BY <1>6 DEF Open
  <2>2. PICK name \in NamesUnder(l) \cup {Self} :
            LET o == lhh_handle_open(w, l, name, mode) IN
            /\ Becomes(o.w)
            /\ handles' = [handles EXCEPT ![h] = o.hh]
    BY <1>2, <2>1
  <2>3. NameFor(w, l, name)
    BY <1>1, NamesFit DEF NameFor
  <2> DEFINE o == lhh_handle_open(w, l, name, mode)
  <2>4. /\ Settled(o.w, IF o.hh.kind = "free" THEN Opens ELSE Opens + 1)
        /\ HandleFits(o.w, o.hh)
        /\ Gives(w, o.w, o.hh.lock)
    BY <1>1, <1>3, <2>3, HandleOpenSettled
  <2>5. Becomes(o.w) /\ handles' = [handles EXCEPT ![h] = o.hh]
    BY <2>2
  <2> HIDE DEF o
  <2>6. o.hh.lock \notin HandleLocks
    BY <1>3, <2>4 DEF Gives, HandleLocks
  <2>7. \A i \in HandleLocks : SameLock(w, o.w, i)
    BY <1>3, <2>4 DEF Gives
  <2> QED BY <1>5, <1>6, <2>4, <2>5, <2>6, <2>7 DEF Open
<1>7. CASE FhFromLock(plan)
  <2>1. PICK h \in HandleIds \ OpenHandles, l \in ClientLocks, mode \in Modes :
            LET o == OpenLock(w, l, mode, TRUE) IN
            /\ Becomes(o.w)
            /\ handles' = [handles EXCEPT ![h] = o.hh]
    BY <1>2, <1>7 DEF FhFromLock
  <2> DEFINE b == TRUE
  <2> DEFINE o == OpenLock(w, l, mode, b)
  <2>2. b \in BOOLEAN /\ Becomes(o.w) /\ handles' = [handles EXCEPT ![h] = o.hh]
    BY <2>1
  <2> HIDE DEF b
  <2>3. l \in Live(w) /\ l \notin HandleLocks
    BY <1>3
  <2>4. /\ Settled(o.w, IF o.hh.kind = "free" THEN Opens ELSE Opens + 1)
        /\ HandleFits(o.w, o.hh)
        /\ \/ o.hh.lock = l /\ KeepsLive(w, o.w)
           \/ o.hh.lock = NoLock /\ Frees(w, o.w, l)
           \/ o.hh = FreeHandle /\ b /\ KeepsLive(w, o.w)
    BY <1>1, <1>3, <2>2, <2>3, OpenLockSettled
  <2> HIDE DEF o
  <2>5. o.hh.lock \notin HandleLocks
    BY <2>3, <2>4, FreeHandleFits DEF HandleLocks
  <2>6. \A i \in HandleLocks : SameLock(w, o.w, i)
    BY <1>3, <2>3, <2>4 DEF KeepsLive, Frees, Live
  <2> QED BY <1>5, <1>7, <2>2, <2>4, <2>5, <2>6 DEF FhFromLock
<1> QED BY <1>6, <1>7

(* The packet that closes a handle.                                        *)
LEMMA ClosePacket ==
    ASSUME IInv, NEW plan, Close(plan)
    PROVE  IInv'
<1> DEFINE w == World(plan)
<1>1. /\ Settled(w, Opens) /\ w.locks = locks /\ Live(w) = Live(State)
      /\ KeepsLive(State, w)
  BY PacketStarts DEF IInv
<1>2. PICK h \in OpenHandles :
          /\ Becomes(lhh_handle_close(w, handles[h]))
          /\ handles' = [handles EXCEPT ![h] = FreeHandle]
  BY DEF Close
<1> HIDE DEF w
<1> DEFINE hh == handles[h]
<1>3. h \in HandleIds /\ hh.kind # "free" /\ HandleFits(State, hh) /\ Opens \in Int
      /\ HandleLocks \subseteq Live(w)
  BY <1>1, OpensNat, ClientLocksLive DEF OpenHandles, IInv, HandlesOk
<1>4. HandleFits(w, hh)
  <2>1. hh.lock = NoLock \/ hh.lock \in Live(State)
    BY <1>3 DEF HandleFits, HandleSet, HandleKinds, Live
  <2> QED BY <1>1, <1>3, <2>1 DEF HandleFits, KeepsLive, SameLock
<1> DEFINE r == lhh_handle_close(w, hh)
<1>5. Becomes(r)
  BY <1>2
<1>6. hh = handles[h]
  OBVIOUS
<1> HIDE DEF hh
<1>7. /\ Settled(r, Opens - 1)
      /\ IF hh.lock = NoLock THEN KeepsLive(w, r) ELSE Frees(w, r, hh.lock)
  BY <1>1, <1>3, <1>4, HandleCloseSettled
<1> HIDE DEF r
<1> DEFINE f == FreeHandle
<1>8. HandleFits(r, f) /\ f.lock = NoLock /\ f.kind = "free"
  BY FreeHandleFits
<1>9. Cardinality(OpenHandles \ {h}) = Opens - 1
  BY OpensNat, FS_RemoveElement DEF Opens
<1>10. Settled(r, Cardinality((OpenHandles \ {h}) \cup (IF f.kind = "free" THEN {} ELSE {h})))
  BY <1>7, <1>8, <1>9
<1>11. \A g \in HandleIds \ {h} :
           handles[g].lock # NoLock => SameLock(State, r, handles[g].lock)
  <2> SUFFICES ASSUME NEW g \in HandleIds \ {h}, handles[g].lock # NoLock
               PROVE  SameLock(State, r, handles[g].lock)
    OBVIOUS
  <2>1. handles[g].lock \in Live(State) /\ handles[g].lock \in Live(w)
    BY <1>1, <1>3 DEF HandleLocks
  <2>2. hh.lock # handles[g].lock
    BY <1>3, <1>6 DEF IInv, HandlesOk
  <2>3. SameLock(w, r, handles[g].lock)
    BY <1>7, <2>1, <2>2 DEF KeepsLive, Frees, Live
  <2> QED BY <1>1, <2>1, <2>3 DEF KeepsLive, SameLock
<1>12. handles' = [handles EXCEPT ![h] = f] /\ running /\ running' = running
  BY <1>2 DEF Close
<1> HIDE DEF f
<1> QED BY <1>3, <1>5, <1>8, <1>10, <1>11, <1>12, OneHandle

(* Steps that touch no lock and no archive.                                *)
LEMMA OtherSteps ==
    ASSUME IInv, Write \/ Die \/ HostEdit \/ UNCHANGED vars
    PROVE  IInv'
<1>1. UNCHANGED <<cats, arcs, locks, hostLocks, lockCnt, usageCnt>>
  BY DEF Write, Die, HostEdit, vars
<1> DEFINE a == State
<1> DEFINE b == State'
<1>2. /\ Shape(a) /\ a.cats = cats /\ a.arcs = arcs /\ a.locks = locks
      /\ a.hostLocks = hostLocks /\ a.lockCnt = lockCnt /\ a.usageCnt = usageCnt
  BY WorldFields DEF State
<1>3. /\ Shape(b) /\ b.cats = cats' /\ b.arcs = arcs' /\ b.locks = locks'
      /\ b.hostLocks = hostLocks' /\ b.lockCnt = lockCnt' /\ b.usageCnt = usageCnt'
  BY DEF State, World, Shape, Fields
<1>4. Settled(a, Opens)
  BY DEF IInv
<1> HIDE DEF a, b
<1>5. Same(a, b)
  BY <1>1, <1>2, <1>3 DEF Same, SameCounts
<1>6. Settled(b, Opens) /\ b.locks = a.locks
  BY <1>4, <1>5, SameGood DEF Settled, Same
<1>7. /\ handles' \in [HandleIds -> HandleSet]
      /\ \A h \in HandleIds : /\ handles'[h].kind = handles[h].kind
                              /\ handles'[h].lock = handles[h].lock
                              /\ handles'[h].kind = "free" => handles'[h] = handles[h]
  <2>1. handles \in [HandleIds -> HandleSet]
    BY DEF IInv, HandlesOk
  <2>2. CASE handles' = handles
    BY <2>1, <2>2
  <2>3. CASE \E h \in OpenHandles, c \in Chunks :
                 /\ handles[h].kind = "write"
                 /\ handles' = [handles EXCEPT ![h].buf = Append(@, c)]
    <3>1. PICK h \in OpenHandles, c \in Chunks :
                 /\ handles[h].kind = "write"
                 /\ handles' = [handles EXCEPT ![h].buf = Append(@, c)]
      BY <2>3
    <3>2. h \in HandleIds /\ handles[h] \in HandleSet
      BY <2>1 DEF OpenHandles
    <3>3. Append(handles[h].buf, c) \in Seq(Chunks)
      BY <3>2 DEF HandleSet
    <3> DEFINE e == Append(handles[h].buf, c)
    <3>4. handles' = [handles EXCEPT ![h].buf = e]
      BY <3>1
    <3> HIDE DEF e
    <3>5. handles' \in [HandleIds -> HandleSet]
      BY <2>1, <3>2, <3>3, <3>4 DEF HandleSet, e
    <3> QED BY <2>1, <3>1, <3>2, <3>4, <3>5 DEF HandleSet
  <2> QED BY <2>2, <2>3 DEF Write, Die, HostEdit, vars
<1>8. HandlesOk'
  <2>1. \A h \in HandleIds : HandleFits(b, handles'[h])
    <3> SUFFICES ASSUME NEW h \in HandleIds PROVE HandleFits(b, handles'[h])
      OBVIOUS
    <3>1. HandleFits(a, handles[h])
      BY DEF IInv, HandlesOk, a
    <3> QED BY <1>6, <1>7, <3>1 DEF HandleFits
  <2>2. \A g, h \in HandleIds :
           g # h /\ handles'[g].lock = handles'[h].lock => handles'[h].lock = NoLock
    BY <1>7 DEF IInv, HandlesOk
  <2> QED BY <1>7, <2>1, <2>2 DEF HandlesOk, b
<1>9. Opens' = Opens
  <2>1. OpenHandles' = OpenHandles
    BY <1>7 DEF OpenHandles
  <2> QED BY <2>1 DEF Opens
<1>10. ~running' => usageCnt' = 0
  BY DEF Write, Die, HostEdit, vars, IInv
<1> QED BY <1>6, <1>8, <1>9, <1>10 DEF IInv, b

(* IInv holds in every reachable state, for any number of archives, locks  *)
(* and handles, and whichever calls of a packet fail.                      *)
THEOREM Invariance == Spec => []IInv
<1>1. ASSUME IInv, [Next]_vars PROVE IInv'
  <2>1. CASE \E plan \in FaultPlans :
                 \/ Locate(plan) \/ CopyDir(plan) \/ Parent(plan)
                 \/ Open(plan) \/ FhFromLock(plan) \/ Close(plan)
                 \/ Delete(plan) \/ CreateDir(plan)
    BY <1>1, <2>1, LockPackets, OpenPackets, ClosePacket
  <2>2. CASE FreeClientLock
    BY <1>1, <2>2, FreePacket
  <2>3. CASE Write \/ Die \/ HostEdit \/ UNCHANGED vars
    BY <1>1, <2>3, OtherSteps
  <2> QED BY <1>1, <2>1, <2>2, <2>3 DEF Next
<1> QED BY <1>1, Initially, PTL DEF Spec

-----------------------------------------------------------------------------
(* What the invariant says.                                                *)

(* The invariant, read off the variables of the specification.             *)
LEMMA Reading ==
    ASSUME IInv
    PROVE  /\ \A p \in Paths :
                  /\ arcs[p].users = UsersOf(p)
                  /\ arcs[p].ref = Cardinality(UsersOf(p))
                  /\ IsFiniteSet(UsersOf(p))
                  /\ arcs[p] \in ArcSet
                  /\ arcs[p].ref = 0 => arcs[p] = NoArc
                  /\ ~arcs[p].open => cats[p] = <<>>
           /\ lockCnt = Cardinality({l \in LockIds : locks[l].type # "free"})
           /\ usageCnt = lockCnt + Opens
           /\ hostLocks = Cardinality({l \in LockIds : locks[l].type = "REAL"})
           /\ locks \in [LockIds -> LockSet]
           /\ \A l \in LockIds : locks[l].lh # DANGLING
<1> DEFINE w == State
<1>1. /\ Shape(w) /\ w.cats = cats /\ w.arcs = arcs /\ w.locks = locks
      /\ w.hostLocks = hostLocks /\ w.lockCnt = lockCnt /\ w.usageCnt = usageCnt
  BY WorldFields DEF State
<1>2. Typed(w) /\ Tidy(w) /\ Idle(w) /\ Refs(w, NoPath, 0) /\ Counts(w, 0, Opens)
  BY DEF IInv, Settled, Good
<1> HIDE DEF w
<1>3. \A p \in Paths : UsersIn(w, p) = UsersOf(p) /\ IsFiniteSet(UsersOf(p))
  BY <1>1, LocksFinite DEF UsersIn, UsersOf, OnArc
<1>4. \A p \in Paths : Cardinality(UsersOf(p)) \in Nat
  BY LocksFinite DEF UsersOf
<1>5. Cardinality(Real(w)) \in Nat
  BY LocksFinite DEF Real
<1>6. \A p \in Paths :
          /\ arcs[p].users = UsersOf(p)
          /\ arcs[p].ref = Cardinality(UsersOf(p))
          /\ arcs[p] \in ArcSet
  BY <1>1, <1>2, <1>3, <1>4 DEF Refs, Typed
<1>7. \A p \in Paths :
          /\ arcs[p].ref = 0 => arcs[p] = NoArc
          /\ ~arcs[p].open => cats[p] = <<>>
  BY <1>1, <1>2 DEF Idle
<1>8. /\ lockCnt = Cardinality({l \in LockIds : locks[l].type # "free"})
      /\ usageCnt = lockCnt + Opens
      /\ hostLocks = Cardinality({l \in LockIds : locks[l].type = "REAL"})
  BY <1>1, <1>2, <1>5 DEF Counts, Live, Real
<1>9. locks \in [LockIds -> LockSet] /\ \A l \in LockIds : locks[l].lh # DANGLING
  BY <1>1, <1>2 DEF Typed, Tidy
<1> QED BY <1>3, <1>6, <1>7, <1>8, <1>9

(* No path through a packet, failing at any call, leaks a reference on an  *)
(* archive or drops one too many.                                          *)
THEOREM Balance == Spec => []ReferencesBalanced
<1>1. IInv => ReferencesBalanced
  BY Reading DEF ReferencesBalanced
<1> QED BY <1>1, Invariance, PTL

(* The last lock on an archive takes its struct LhHArc and its catalog     *)
(* with it.                                                                *)
THEOREM CacheEmptied == Spec => []CacheMatchesUse
<1>1. ASSUME IInv, NEW p \in Paths, UsersOf(p) = {}
      PROVE  arcs[p] = NoArc /\ cats[p] = <<>>
  <2>1. arcs[p].ref = 0
    BY <1>1, Reading, FS_EmptySet
  <2>2. arcs[p] = NoArc
    BY <1>1, <2>1, Reading
  <2>3. ~arcs[p].open
    BY <2>2 DEF NoArc
  <2> QED BY <1>1, <2>2, <2>3, Reading
<1>2. IInv => CacheMatchesUse
  BY <1>1 DEF CacheMatchesUse
<1> QED BY <1>2, Invariance, PTL

(* gd_LockCnt, gd_UsageCnt and the locks held on the host are exact.       *)
THEOREM Counters == Spec => []CountsExact
<1>1. IInv => CountsExact
  BY Reading DEF CountsExact, Opens
<1> QED BY <1>1, Invariance, PTL

(* No lock points into an LhArchive that has been closed.                  *)
THEOREM Bound == Spec => []NoDangling
<1>1. IInv => NoDangling
  BY Reading DEF NoDangling
<1> QED BY <1>1, Invariance, PTL

(* A handle owns a live lock of its kind, and no two handles share one.    *)
THEOREM Ownership == Spec => []HandlesOwnLocks
<1>1. ASSUME IInv, NEW h \in OpenHandles
      PROVE  /\ handles[h].kind = "mem" <=> handles[h].lock = NoLock
             /\ handles[h].kind = "host" => locks[handles[h].lock].type = "REAL"
             /\ handles[h].kind = "image" => locks[handles[h].lock].type = "ENTRY"
             /\ handles[h].kind = "write" =>
                    locks[handles[h].lock].type \in {"ARCHIVE", "ENTRY"}
             /\ \A g \in OpenHandles \ {h} :
                    handles[g].lock = handles[h].lock => handles[h].lock = NoLock
  <2>1. h \in HandleIds /\ handles[h].kind # "free" /\ OpenHandles \subseteq HandleIds
    BY DEF OpenHandles
  <2>2. HandleFits(State, handles[h]) /\ State.locks = locks
    BY <1>1, <2>1, WorldFields DEF IInv, HandlesOk, State
  <2>3. \A g \in OpenHandles \ {h} :
            handles[g].lock = handles[h].lock => handles[h].lock = NoLock
    BY <1>1, <2>1 DEF IInv, HandlesOk
  <2> QED BY <2>1, <2>2, <2>3 DEF HandleFits
<1>2. IInv => HandlesOwnLocks
  BY <1>1 DEF HandlesOwnLocks
<1> QED BY <1>2, Invariance, PTL

(* ACTION_DIE is granted only when nothing is left that a client could     *)
(* name: the two counters are enough to decide it.                         *)
THEOREM Shutdown == Spec => []ShutdownLeavesNothing
<1>1. ASSUME IInv, ~running
      PROVE  /\ \A l \in LockIds : locks[l].type = "free"
             /\ OpenHandles = {}
             /\ \A p \in Paths : arcs[p] = NoArc
             /\ hostLocks = 0
  <2> DEFINE live == {l \in LockIds : locks[l].type # "free"}
  <2> DEFINE real == {l \in LockIds : locks[l].type = "REAL"}
  <2>1. Cardinality(live) + Opens = 0 /\ hostLocks = Cardinality(real)
    BY <1>1, Reading DEF IInv
  <2>2. Cardinality(live) \in Nat /\ (Cardinality(live) = 0 => live = {})
    BY LocksFinite
  <2>3. Opens \in Nat /\ (Opens = 0 => OpenHandles = {})
    BY OpensNat, FS_EmptySet DEF Opens
  <2>4. \A l \in LockIds : locks[l].type = "free"
    <3>1. Cardinality(live) = 0
      BY <2>1, <2>2, <2>3
    <3>2. live = {}
      BY <2>2, <3>1
    <3> QED BY <3>2
  <2>5. OpenHandles = {}
    BY <2>1, <2>2, <2>3
  <2>6. hostLocks = 0
    <3>1. real = {}
      BY <2>4
    <3> QED BY <2>1, <3>1, FS_EmptySet
  <2>7. \A p \in Paths : UsersOf(p) = {}
    BY <2>4 DEF UsersOf
  <2>8. \A p \in Paths : arcs[p] = NoArc
    BY <1>1, <2>7, Reading, FS_EmptySet
  <2> QED BY <2>4, <2>5, <2>6, <2>8
<1>2. IInv => ShutdownLeavesNothing
  BY <1>1 DEF ShutdownLeavesNothing
<1> QED BY <1>2, Invariance, PTL

-----------------------------------------------------------------------------
(* The files on the host volume and their pictures in memory.              *)

(* Nothing disturbs the handler: no call fails, no other program writes    *)
(* the host volume, and under an archive's name there is an archive, a     *)
(* drawer or nothing.  (A file that is no archive passes through as a host *)
(* file; a client that opens it for output through one lock and as an      *)
(* archive through another writes behind the handler's back.)              *)
Undisturbed ==
    /\ FaultPlans \subseteq {{}}
    /\ ~HostEdits
    /\ \A d \in InitDisks : \A p \in Paths : d[p] # Junk

(* No archive ends in the closing zero byte of other LhA tools.            *)
Unmarked == \A d \in InitDisks : \A p \in Paths : d[p] \in Archive => ~d[p].marked

LhValues == Nat \cup {ROOT_DIR, SYNTH_DIR}

FileSound(d) ==
    /\ d \in HostFile
    /\ Undisturbed => d # Junk
    /\ Unmarked /\ d \in Archive => ~d.marked

(* A lock of the archive x may be bound to rows of an older catalog; every *)
(* other lock names the row its entry has now.  A host lock on a .lha path *)
(* is on a drawer.                                                         *)
LockSound(w, l, x) ==
    /\ w.locks[l].type = "ENTRY" => w.locks[l].entry \in Names
    /\ w.locks[l].lh \in LhValues
    /\ Undisturbed =>
        /\ w.locks[l].type = "REAL" /\ w.locks[l].path \in Paths =>
               w.disk[w.locks[l].path] = HostDir
        /\ w.locks[l].type \in {"ARCHIVE", "ENTRY"} /\ w.locks[l].path # x =>
               w.locks[l].lh = LhLock(w, w.locks[l].path, w.locks[l].entry)

(* The picture of an open archive other than x is what its file holds.  An *)
(* archive deleted under its reader is created again by the next append:   *)
(* when not even one entry fits, it stays empty and the picture old.       *)
PathSound(w, p, x) ==
    /\ FileSound(w.disk[p])
    /\ w.cats[p] \in Catalog
    /\ Undisturbed /\ MaxEntries > 0 /\ p # x /\ w.arcs[p].open /\ w.disk[p] \in Archive =>
           w.cats[p] = w.disk[p].cat

SoundBut(w, x) ==
    /\ w.disk = [p \in Paths |-> w.disk[p]]
    /\ w.fault \in BOOLEAN
    /\ Undisturbed => w.plan = {}
    /\ \A l \in LockIds : LockSound(w, l, x)
    /\ \A p \in Paths : PathSound(w, p, x)

Sound(w) == SoundBut(w, NoPath)

(* A picture of p as one call may change it while no lock is on p.         *)
FreshPicture(v, p) ==
    /\ UsersIn(v, p) = {}
    /\ v.cats[p] \in Catalog
    /\ v.arcs[p].open => v.disk[p] \in Archive /\ v.cats[p] = v.disk[p].cat

SamePicture(w, v, p) == v.arcs[p].open = w.arcs[p].open /\ v.cats[p] = w.cats[p]

SameFiles(w, v) == v.disk = w.disk /\ v.plan = w.plan

(* A call that leaves the files alone is sound when each lock and each     *)
(* picture it changes is.                                                  *)
LEMMA SoundStep ==
    ASSUME NEW w, NEW x, SoundBut(w, x), Tidy(w), NEW v, SameFiles(w, v),
           v.fault \in BOOLEAN,
           \A p \in Paths : SamePicture(w, v, p) \/ FreshPicture(v, p),
           \A l \in LockIds : v.locks[l] = w.locks[l] \/ LockSound(v, l, x)
    PROVE  SoundBut(v, x)
<1>1. \A p \in Paths : PathSound(v, p, x)
  BY DEF SoundBut, PathSound, SameFiles, SamePicture, FreshPicture
<1>2. ASSUME NEW l \in LockIds, v.locks[l] = w.locks[l]
      PROVE  LockSound(v, l, x)
  <2>1. LockSound(w, l, x)
    BY DEF SoundBut
  <2>2. CASE w.locks[l].type \in {"ARCHIVE", "ENTRY"}
    <3> DEFINE p == w.locks[l].path
    <3>1. p \in Paths
      BY <1>2, <2>2 DEF Tidy
    <3>2. l \in UsersIn(v, p)
      BY <1>2, <2>2 DEF UsersIn, OnArc
    <3>3. SamePicture(w, v, p)
      BY <3>1, <3>2 DEF FreshPicture
    <3>4. LhLock(v, p, w.locks[l].entry) = LhLock(w, p, w.locks[l].entry)
      BY <3>3 DEF SamePicture, LhLock
    <3> QED BY <1>2, <2>1, <2>2, <3>4 DEF LockSound, SameFiles
  <2>3. CASE w.locks[l].type \notin {"ARCHIVE", "ENTRY"}
    BY <1>2, <2>1, <2>3 DEF LockSound, SameFiles
  <2> QED BY <2>2, <2>3
<1> QED BY <1>1, <1>2 DEF SoundBut, SameFiles

(* The same of a call that changes no lock and no picture.                 *)
LEMMA SoundSame ==
    ASSUME NEW w, NEW x, SoundBut(w, x), Tidy(w), NEW v, SameFiles(w, v),
           v.fault \in BOOLEAN, v.locks = w.locks,
           \A p \in Paths : SamePicture(w, v, p)
    PROVE  SoundBut(v, x)
  BY SoundStep

(* A catalog answers a row, one of the two codes of a drawer, or ZERO.     *)
LEMMA LhLockValue ==
    ASSUME NEW cat, NEW n
    PROVE  lh_arc_lock(cat, n) \in LhValues
<1>1. Matching(cat, n) \in SUBSET Nat
  BY DEF Matching
<1>2. CASE Matching(cat, n) # {}
  <2>1. \E i \in Matching(cat, n) : \A j \in Matching(cat, n) : i <= j
    BY <1>1, <1>2, MinNat
  <2>2. lh_find_entry_index(cat, n) \in Matching(cat, n)
    BY <2>1 DEF lh_find_entry_index
  <2> QED BY <1>1, <2>2 DEF lh_arc_lock, LhValues, ZERO
<1>3. CASE Matching(cat, n) = {}
  BY <1>3 DEF lh_arc_lock, LhValues, ZERO
<1> QED BY <1>2, <1>3

(* A call that changes nothing of what soundness is about.                 *)
LEMMA SoundAlike ==
    ASSUME NEW w, NEW x, SoundBut(w, x), NEW v, v.disk = w.disk, v.plan = w.plan,
           v.fault = w.fault, v.locks = w.locks, v.arcs = w.arcs, v.cats = w.cats
    PROVE  SoundBut(v, x)
<1>1. \A p \in Paths : PathSound(v, p, x)
  BY DEF SoundBut, PathSound
<1>2. \A p, n : LhLock(v, p, n) = LhLock(w, p, n)
  BY DEF LhLock
<1>3. \A l \in LockIds : LockSound(v, l, x)
  BY <1>2 DEF SoundBut, LockSound
<1> QED BY <1>1, <1>3 DEF SoundBut

(* In an undisturbed handler no call fails.                                *)
LEMMA NeverFails ==
    ASSUME NEW w, NEW x, SoundBut(w, x), Undisturbed
    PROVE  ~Fails(w)
  BY DEF SoundBut, Fails

(* Counting a call and returning a result.                                 *)
LEMMA BookSound ==
    ASSUME NEW w, NEW x, SoundBut(w, x), Typed(w), Tidy(w), NEW v,
           \/ v \in {Called(w), Null(w), Null(Called(w))}
           \/ \E b : v = Returns(w, b) \/ v = Returns(Called(w), b)
    PROVE  /\ SoundBut(v, x) /\ SameFiles(w, v)
           /\ Typed(v) /\ Tidy(v) /\ v.locks = w.locks /\ v.arcs = w.arcs /\ v.cats = w.cats
           /\ v.fault = w.fault
<1>1. /\ v.disk = w.disk /\ v.plan = w.plan /\ v.fault = w.fault
      /\ v.locks = w.locks /\ v.arcs = w.arcs /\ v.cats = w.cats
      /\ Shape(v) /\ SameCounts(w, v)
  BY DEF Typed, Shape, Fields, Called, Null, Returns, SameCounts
<1>2. SoundBut(v, x) /\ SameFiles(w, v)
  BY <1>1, SoundSame DEF SoundBut, SameFiles, SamePicture
<1>3. Typed(v) /\ Tidy(v)
  BY <1>1 DEF Typed, Tidy, SameCounts
<1> QED BY <1>1, <1>2, <1>3

(* lhh_arc_release closes the picture that nobody looks at any more.       *)
LEMMA ReleaseSound ==
    ASSUME NEW w, NEW p \in Paths, NEW k \in Nat, Typed(w), Tidy(w),
           w.arcs[p].ref = Cardinality(UsersIn(w, p)) + k + 1,
           ~w.arcs[p].open => w.cats[p] = <<>>,
           NEW x, SoundBut(w, x)
    PROVE  LET r == lhh_arc_release(w, p) IN
           /\ SoundBut(r, x)
           /\ SameFiles(w, r)
<1> DEFINE r == lhh_arc_release(w, p)
<1> DEFINE v == [w EXCEPT !.arcs[p].ref = @ - 1]
<1> DEFINE c == CloseReader(v, p)
<1> DEFINE z == [c EXCEPT !.arcs[p] = NoArc]
<1>1. r = IF v.arcs[p].ref > 0 THEN v ELSE z
  BY DEF lhh_arc_release
<1>2. w.fault \in BOOLEAN /\ Cardinality(UsersIn(w, p)) \in Nat
  BY LocksFinite DEF SoundBut, UsersIn
<1>3. /\ Shape(v) /\ v.arcs = [w.arcs EXCEPT ![p].ref = @ - 1] /\ v.cats = w.cats
      /\ v.locks = w.locks /\ SameCounts(w, v)
      /\ v.disk = w.disk /\ v.plan = w.plan /\ v.fault = w.fault
  BY DEF Typed, Shape, Fields, SameCounts
<1> HIDE DEF v, r
<1>4. /\ \A q \in Paths \ {p} : v.arcs[q] = w.arcs[q]
      /\ v.arcs[p].open = w.arcs[p].open
      /\ v.arcs[p].ref = Cardinality(UsersIn(w, p)) + k
      /\ v.arcs \in [Paths -> ArcSet]
  <2>1. w.arcs \in [Paths -> ArcSet] /\ w.arcs[p].ref - 1 \in Int
    BY DEF Typed, ArcSet
  <2>2. w.arcs[p].ref - 1 = Cardinality(UsersIn(w, p)) + k
    BY <1>2
  <2> DEFINE n == w.arcs[p].ref - 1
  <2>3. v.arcs = [w.arcs EXCEPT ![p].ref = n] /\ n \in Int
    BY <1>3, <2>1
  <2>4. n = Cardinality(UsersIn(w, p)) + k
    BY <2>2
  <2> HIDE DEF n
  <2> QED BY <2>1, <2>3, <2>4 DEF ArcSet
<1>5. CASE v.arcs[p].ref > 0
  <2>1. \A q \in Paths : SamePicture(w, v, q)
    BY <1>3, <1>4 DEF SamePicture
  <2>2. SoundBut(v, x)
    BY <1>2, <1>3, <2>1, SoundSame DEF SameFiles
  <2> QED BY <1>1, <1>3, <1>5, <2>2 DEF SameFiles, r
<1>6. CASE ~(v.arcs[p].ref > 0)
  <2>0. Cardinality(UsersIn(w, p)) = 0
    BY <1>2, <1>4, <1>6
  <2>1. UsersIn(v, p) = {} /\ UsersIn(w, p) = {}
    BY <1>3, <2>0, LocksFinite DEF UsersIn, OnArc
  <2>2. Typed(v) /\ (~v.arcs[p].open => v.cats[p] = <<>>)
    BY <1>3, <1>4 DEF Typed, SameCounts
  <2>3. \A l \in UsersIn(v, p) : v.locks[l].lh = ZERO
    BY <2>1
  <2>4. c.disk = v.disk /\ c.plan = v.plan /\ c.fault = v.fault
    BY <1>3 DEF CloseReader, LhCloseArchive, Shape, Fields
  <2> HIDE DEF c
  <2>5. /\ Typed(c) /\ c.arcs = [v.arcs EXCEPT ![p].open = FALSE]
        /\ c.cats = [v.cats EXCEPT ![p] = <<>>] /\ c.locks = v.locks
    <3>1. CloseReader(v, p) = c
      BY DEF c
    <3> QED BY <2>2, <2>3, <3>1, CloseReaderFields, Zenon
  <2>6. /\ z.arcs = [c.arcs EXCEPT ![p] = NoArc] /\ z.cats = c.cats /\ z.locks = c.locks
        /\ z.disk = c.disk /\ z.plan = c.plan /\ z.fault = c.fault
    BY <2>5 DEF Typed, Shape, Fields
  <2> HIDE DEF z
  <2>7. /\ \A q \in Paths \ {p} : z.arcs[q] = w.arcs[q] /\ z.cats[q] = w.cats[q]
        /\ ~z.arcs[p].open /\ z.cats[p] = <<>> /\ z.locks = w.locks
    BY <1>3, <1>4, <2>5, <2>6 DEF Typed, NoArc
  <2>8. FreshPicture(z, p)
    BY <2>1, <2>7 DEF FreshPicture, UsersIn, OnArc, Catalog
  <2>9. \A q \in Paths : SamePicture(w, z, q) \/ FreshPicture(z, q)
    BY <2>7, <2>8 DEF SamePicture
  <2>10. SoundBut(z, x)
    BY <1>2, <1>3, <2>4, <2>6, <2>7, <2>9, SoundStep DEF SameFiles
  <2> QED BY <1>1, <1>3, <1>6, <2>4, <2>6, <2>10 DEF SameFiles, r
<1> QED BY <1>5, <1>6

(* Loading an archive pictures its file, and succeeds when no call fails.  *)
LEMMA OpenSound ==
    ASSUME NEW w, NEW p \in Paths, Typed(w), FileSound(w.disk[p]),
           Undisturbed => w.plan = {}
    PROVE  LET r == lhh_open_archive_mem(w, p) IN
           /\ SameFiles(w, r) /\ r.fault = w.fault
           /\ r.ok => w.disk[p] \in Archive /\ r.cats[p] = w.disk[p].cat /\ r.cats[p] \in Catalog
           /\ Undisturbed /\ w.disk[p] \notin {Absent, HostDir} => r.ok
<1> DEFINE r == lhh_open_archive_mem(w, p)
<1>1. w.disk[p] \in HostFile /\ (Undisturbed => w.disk[p] # Junk)
  BY DEF FileSound
<1>2. Undisturbed => ~Fails(w)
  BY DEF Fails
<1>3. /\ r.disk = w.disk /\ r.plan = w.plan /\ r.fault = w.fault
      /\ r.ok <=> ~(Fails(w) \/ w.disk[p] \in {Absent, Junk, HostDir})
      /\ r.ok => r.cats[p] = w.disk[p].cat
  BY DEF Typed, Shape, Fields, lhh_open_archive_mem, Called, Returns
<1> HIDE DEF r
<1>4. r.ok => w.disk[p] \in Archive /\ w.disk[p].cat \in Catalog
  BY <1>1, <1>3 DEF HostFile, Archive
<1> QED BY <1>1, <1>2, <1>3, <1>4 DEF SameFiles, r

(* arc->refcount++ changes no picture.                                     *)
LEMMA RetainSound ==
    ASSUME NEW w, NEW p \in Paths, NEW x, SoundBut(w, x), Typed(w), Tidy(w)
    PROVE  LET r == Retain(w, p) IN SoundBut(r, x) /\ SameFiles(w, r)
<1> DEFINE r == Retain(w, p)
<1>1. /\ r.disk = w.disk /\ r.plan = w.plan /\ r.fault = w.fault /\ r.locks = w.locks
      /\ r.cats = w.cats /\ r.arcs = [w.arcs EXCEPT ![p].ref = @ + 1]
  BY DEF Retain, Typed, Shape, Fields
<1> HIDE DEF r
<1>2. \A q \in Paths : SamePicture(w, r, q)
  BY <1>1 DEF SamePicture, Typed, ArcSet
<1>3. w.fault \in BOOLEAN
  BY DEF SoundBut
<1> QED BY <1>1, <1>2, <1>3, SoundSame DEF SameFiles, r

(* A host lock is only got on what is there.                               *)
LEMMA HostLockSound ==
    ASSUME NEW w, NEW o, NEW x, SoundBut(w, x), Typed(w), Tidy(w)
    PROVE  LET r == lhh_host_lock(w, o) IN
           /\ SoundBut(r, x) /\ SameFiles(w, r)
           /\ r.ok /\ o \in Paths => w.disk[o] # Absent
<1> DEFINE r == lhh_host_lock(w, o)
<1>1. /\ r.disk = w.disk /\ r.plan = w.plan /\ r.fault = w.fault
      /\ r.locks = w.locks /\ r.cats = w.cats /\ r.arcs = w.arcs
      /\ r.ok => HostLockExists(w, o)
  BY DEF lhh_host_lock, Called, Returns, Typed, Shape, Fields
<1> HIDE DEF r
<1>2. w.fault \in BOOLEAN /\ \A q \in Paths : SamePicture(w, r, q)
  BY <1>1 DEF SoundBut, SamePicture
<1>3. SoundBut(r, x) /\ SameFiles(w, r)
  BY <1>1, <1>2, SoundSame DEF SameFiles
<1> QED BY <1>1, <1>3, PathsAssumption DEF HostLockExists, r

(* The archive is loaded when its file is one and no call fails.           *)
LEMMA ObtainSound ==
    ASSUME NEW w, NEW p \in Paths, NEW j \in Int, NEW u \in Int,
           Good(w, p, 0, j, u), NEW x, SoundBut(w, x)
    PROVE  LET r == lhh_arc_obtain(w, p) IN
           /\ SoundBut(r, x) /\ SameFiles(w, r)
           /\ Undisturbed /\ w.disk[p] \notin {Absent, HostDir} => r.ok
<1> DEFINE a == [w EXCEPT !.hostLocks = @ - 1]
<1> DEFINE v == lhh_open_archive_mem(a, p)
<1> DEFINE y == Called(v)
<1> DEFINE r == lhh_arc_obtain(w, p)
<1>1. Typed(w) /\ Tidy(w) /\ w.fault \in BOOLEAN /\ w.arcs[p].ref = Cardinality(UsersIn(w, p))
  BY LocksFinite DEF Good, SoundBut, Refs, UsersIn
<1>2. /\ a.disk = w.disk /\ a.plan = w.plan /\ a.fault = w.fault
      /\ a.locks = w.locks /\ a.cats = w.cats /\ a.arcs = w.arcs
      /\ Shape(a) /\ a.lockCnt = w.lockCnt /\ a.usageCnt = w.usageCnt
      /\ a.hostLocks = w.hostLocks - 1
  BY <1>1 DEF Typed, Shape, Fields
<1>3. r = IF w.arcs[p].ref > 0
          THEN Returns([a EXCEPT !.arcs[p].ref = @ + 1], TRUE)
          ELSE IF ~v.ok THEN v
          ELSE IF Fails(v) THEN Returns(LhCloseArchive(y, p), FALSE)
          ELSE Returns([y EXCEPT !.arcs[p].ref = 1], TRUE)
  BY DEF lhh_arc_obtain
<1> HIDE DEF a, r
<1>4. Typed(a) /\ Tidy(a) /\ SoundBut(a, x)
  <2>1. Typed(a) /\ Tidy(a)
    BY <1>1, <1>2 DEF Typed, Tidy
  <2>2. \A q \in Paths : SamePicture(w, a, q)
    BY <1>2 DEF SamePicture
  <2> QED BY <1>1, <1>2, <2>1, <2>2, SoundSame DEF SameFiles
<1>5. /\ SameFiles(a, v) /\ v.fault = a.fault
      /\ v.ok => a.disk[p] \in Archive /\ v.cats[p] = a.disk[p].cat /\ v.cats[p] \in Catalog
      /\ Undisturbed /\ a.disk[p] \notin {Absent, HostDir} => v.ok
  <2>1. FileSound(a.disk[p]) /\ (Undisturbed => a.plan = {})
    BY <1>4 DEF SoundBut, PathSound
  <2> QED BY <1>4, <2>1, OpenSound
<1>6. /\ Typed(v) /\ v.locks = a.locks /\ v.ok \in BOOLEAN
      /\ \/ ~v.ok /\ v.arcs = a.arcs /\ v.cats = a.cats
         \/ /\ v.ok
            /\ v.arcs = [a.arcs EXCEPT ![p].open = TRUE]
            /\ \A q \in Paths \ {p} : v.cats[q] = a.cats[q]
  BY <1>4, OpenFields
<1>7. Undisturbed => ~Fails(v)
  BY <1>4, <1>5, NeverFails DEF SameFiles, Fails, SoundBut
<1> HIDE DEF v
<1>8. CASE w.arcs[p].ref > 0
  <2> DEFINE b == [a EXCEPT !.arcs[p].ref = @ + 1]
  <2> DEFINE c == Returns(b, TRUE)
  <2>1. /\ b.disk = w.disk /\ b.plan = w.plan /\ b.fault = w.fault /\ b.locks = w.locks
        /\ b.cats = w.cats /\ b.arcs = [w.arcs EXCEPT ![p].ref = @ + 1] /\ Shape(b)
    BY <1>2 DEF Shape, Fields
  <2> HIDE DEF b
  <2>2. /\ c.disk = w.disk /\ c.plan = w.plan /\ c.fault = w.fault /\ c.locks = w.locks
        /\ c.cats = w.cats /\ c.arcs = [w.arcs EXCEPT ![p].ref = @ + 1] /\ c.ok
    BY <2>1 DEF Shape, Fields, Returns
  <2> HIDE DEF c
  <2>3. \A q \in Paths : SamePicture(w, c, q)
    BY <1>1, <2>2 DEF SamePicture, Typed, ArcSet
  <2>4. SoundBut(c, x)
    BY <1>1, <2>2, <2>3, SoundSame DEF SameFiles
  <2>5. r = c
    BY <1>3, <1>8 DEF b, c
  <2> QED BY <2>2, <2>4, <2>5 DEF SameFiles, r
<1>9. CASE ~(w.arcs[p].ref > 0) /\ ~v.ok
  <2>1. \A q \in Paths : SamePicture(w, v, q)
    BY <1>2, <1>6, <1>9 DEF SamePicture
  <2>2. SoundBut(v, x)
    BY <1>1, <1>2, <1>5, <1>6, <2>1, SoundSame DEF SameFiles
  <2>3. r = v
    BY <1>3, <1>9
  <2> QED BY <1>2, <1>5, <1>9, <2>2, <2>3 DEF SameFiles, r
<1>10. CASE ~(w.arcs[p].ref > 0) /\ v.ok
  <2>1. UsersIn(w, p) = {}
    BY <1>1, <1>10, LocksFinite DEF UsersIn
  <2>2. /\ Shape(y) /\ y.disk = w.disk /\ y.plan = w.plan /\ y.fault = w.fault
        /\ y.locks = w.locks /\ y.cats = v.cats /\ y.arcs = v.arcs /\ SameCounts(v, y)
    BY <1>2, <1>5, <1>6 DEF Called, Typed, Shape, Fields, SameFiles, SameCounts
  <2> HIDE DEF y
  <2>3. Typed(y) /\ UsersIn(y, p) = {}
    <3>1. UsersIn(y, p) = {}
      BY <2>1, <2>2 DEF UsersIn, OnArc
    <3>2. y.locks = v.locks
      BY <1>2, <1>6, <2>2
    <3> QED BY <1>6, <2>2, <3>1, <3>2 DEF Typed, SameCounts
  <2>4. \A q \in Paths \ {p} : SamePicture(w, y, q)
    BY <1>1, <1>2, <1>6, <1>10, <2>2 DEF SamePicture, Typed
  <2>5. CASE Fails(v)
    <3> DEFINE c == LhCloseArchive(y, p)
    <3>0. \A l \in UsersIn(y, p) : y.locks[l].lh = ZERO
      BY <2>3
    <3>1. /\ Shape(c) /\ c.arcs = [y.arcs EXCEPT ![p].open = FALSE]
          /\ c.cats = [y.cats EXCEPT ![p] = <<>>] /\ c.locks = y.locks
      BY <2>3, <3>0, CloseFields, Zenon
    <3>2. c.disk = w.disk /\ c.plan = w.plan /\ c.fault = w.fault
      BY <2>2 DEF LhCloseArchive, Shape, Fields
    <3> DEFINE d == Returns(c, FALSE)
    <3> HIDE DEF c
    <3>3. /\ d.disk = w.disk /\ d.plan = w.plan /\ d.fault = w.fault
          /\ d.locks = w.locks /\ d.arcs = c.arcs /\ d.cats = c.cats
      BY <2>2, <3>1, <3>2 DEF Returns, Shape, Fields
    <3> HIDE DEF d
    <3>4. /\ \A q \in Paths \ {p} : SamePicture(w, d, q)
          /\ ~d.arcs[p].open /\ d.cats[p] = <<>>
      BY <2>3, <2>4, <3>1, <3>3 DEF SamePicture, Typed, ArcSet
    <3>5. FreshPicture(d, p)
      BY <2>1, <3>3, <3>4 DEF FreshPicture, UsersIn, OnArc, Catalog
    <3>6. SoundBut(d, x)
      BY <1>1, <3>3, <3>4, <3>5, SoundStep DEF SameFiles
    <3>7. r = d
      BY <1>3, <1>10, <2>5 DEF c, d
    <3> QED BY <1>7, <2>5, <3>3, <3>6, <3>7 DEF SameFiles, r
  <2>6. CASE ~Fails(v)
    <3> DEFINE b == [y EXCEPT !.arcs[p].ref = 1]
    <3> DEFINE d == Returns(b, TRUE)
    <3>1. /\ b.disk = w.disk /\ b.plan = w.plan /\ b.fault = w.fault /\ b.locks = w.locks
          /\ b.cats = y.cats /\ b.arcs = [y.arcs EXCEPT ![p].ref = 1] /\ Shape(b)
      BY <2>2 DEF Shape, Fields
    <3> HIDE DEF b
    <3>2. /\ d.disk = w.disk /\ d.plan = w.plan /\ d.fault = w.fault /\ d.locks = w.locks
          /\ d.cats = y.cats /\ d.arcs = [y.arcs EXCEPT ![p].ref = 1] /\ d.ok
      BY <3>1 DEF Shape, Fields, Returns
    <3> HIDE DEF d
    <3>3. \A q \in Paths \ {p} : SamePicture(w, d, q)
      BY <2>3, <2>4, <3>2 DEF SamePicture, Typed
    <3>4. FreshPicture(d, p)
      BY <1>2, <1>5, <1>10, <2>1, <2>2, <3>2 DEF FreshPicture, UsersIn, OnArc
    <3>5. SoundBut(d, x)
      BY <1>1, <3>2, <3>3, <3>4, SoundStep DEF SameFiles
    <3>6. r = d
      BY <1>3, <1>10, <2>6 DEF b, d
    <3> QED BY <3>2, <3>5, <3>6 DEF SameFiles, r
  <2> QED BY <2>5, <2>6
<1> QED BY <1>6, <1>8, <1>9, <1>10

(* A new lock that is sound itself.                                        *)
LEMMA NewLockSound ==
    ASSUME NEW w, Sound(w), Typed(w), Tidy(w), FreeLocks(w) # {},
           NEW type \in LockTypes, NEW o \in Paths \cup {Volume, NoPath},
           NEW n \in Names \cup {<<>>}, NEW lh \in LhValues,
           type = "ENTRY" => n \in Names,
           Undisturbed /\ type = "REAL" /\ o \in Paths => w.disk[o] = HostDir,
           Undisturbed /\ type \in {"ARCHIVE", "ENTRY"} => lh = LhLock(w, o, n)
    PROVE  LET r == NewLock(w, type, o, n, lh) IN Sound(r) /\ SameFiles(w, r)
<1> DEFINE r == NewLock(w, type, o, n, lh)
<1> DEFINE l == CHOOSE i \in FreeLocks(w) : TRUE
<1> DEFINE k == [type |-> type, path |-> o, entry |-> n, lh |-> lh]
<1>1. l \in LockIds
  BY DEF FreeLocks
<1>2. /\ r.disk = w.disk /\ r.plan = w.plan /\ r.fault = w.fault
      /\ r.cats = w.cats /\ r.arcs = w.arcs
      /\ r.locks = [w.locks EXCEPT ![l] = k]
  BY DEF NewLock, Typed, Shape, Fields
<1>3. k.type = type /\ k.path = o /\ k.entry = n /\ k.lh = lh
  OBVIOUS
<1> HIDE DEF l, r, k
<1>4. /\ r.locks[l] = k
      /\ \A m \in LockIds \ {l} : r.locks[m] = w.locks[m]
  BY <1>1, <1>2 DEF Typed
<1>5. LockSound(r, l, NoPath)
  <2>1. LhLock(r, o, n) = LhLock(w, o, n)
    BY <1>2 DEF LhLock
  <2> QED BY <1>2, <1>3, <1>4, <2>1 DEF LockSound
<1>6. w.fault \in BOOLEAN /\ \A q \in Paths : SamePicture(w, r, q)
  BY <1>2 DEF SamePicture, Sound, SoundBut
<1> QED BY <1>2, <1>4, <1>5, <1>6, SoundStep DEF Sound, SameFiles, r

(* A ROOT or VINFO lock has no row.                                        *)
LEMMA AllocPlainSound ==
    ASSUME NEW w, Sound(w), Typed(w), Tidy(w),
           NEW type \in {"ROOT", "VINFO"}, NEW o \in Paths \cup {Volume, NoPath},
           NEW n \in Names \cup {<<>>}
    PROVE  LET r == AllocPlain(w, type, o, n) IN Sound(r) /\ SameFiles(w, r)
<1> DEFINE v == Called(w)
<1>1. /\ Sound(v) /\ SameFiles(w, v) /\ Typed(v) /\ Tidy(v) /\ v.locks = w.locks
      /\ Sound(Null(v)) /\ SameFiles(w, Null(v))
  BY BookSound DEF Sound
<1> DEFINE z == ZERO
<1>2. type \in LockTypes /\ type \notin {"ENTRY", "REAL", "ARCHIVE"} /\ z \in LhValues
  BY DEF LockTypes, LhValues, ZERO
<1>3. AllocPlain(w, type, o, n) = IF Fails(w) \/ FreeLocks(w) = {} THEN Null(v) ELSE NewLock(v, type, o, n, z)
  BY DEF AllocPlain
<1>4. FreeLocks(v) = FreeLocks(w)
  BY <1>1 DEF FreeLocks
<1> HIDE DEF v, z
<1>5. FreeLocks(v) # {} => Sound(NewLock(v, type, o, n, z)) /\ SameFiles(v, NewLock(v, type, o, n, z))
  BY <1>1, <1>2, NewLockSound
<1> QED BY <1>1, <1>3, <1>4, <1>5 DEF SameFiles

(* A REAL lock on a .lha path is on a drawer.                              *)
LEMMA AllocRealSound ==
    ASSUME NEW w, Sound(w), Typed(w), Tidy(w), NEW o \in Paths \cup {Volume},
           Undisturbed /\ o \in Paths => w.disk[o] = HostDir
    PROVE  LET r == AllocReal(w, o) IN Sound(r) /\ SameFiles(w, r)
<1> DEFINE v == Called(w)
<1> DEFINE b == [v EXCEPT !.hostLocks = @ - 1]
<1> DEFINE z == ZERO
<1> DEFINE e == <<>>
<1>1. /\ Sound(v) /\ SameFiles(w, v) /\ Typed(v) /\ Tidy(v) /\ v.locks = w.locks
      /\ v.arcs = w.arcs /\ v.cats = w.cats /\ v.fault = w.fault
  BY BookSound DEF Sound
<1>2. "REAL" \in LockTypes /\ z \in LhValues /\ e \in Names \cup {<<>>}
      /\ o \in Paths \cup {Volume, NoPath}
  BY DEF LockTypes, LhValues, ZERO
<1>3. AllocReal(w, o) = IF Fails(w) \/ FreeLocks(w) = {} THEN Null(b) ELSE NewLock(v, "REAL", o, e, z)
  BY DEF AllocReal
<1>4. FreeLocks(v) = FreeLocks(w) /\ v.disk = w.disk
  BY <1>1 DEF FreeLocks, SameFiles
<1> HIDE DEF v, z, e
<1>5. FreeLocks(v) # {} => Sound(NewLock(v, "REAL", o, e, z)) /\ SameFiles(v, NewLock(v, "REAL", o, e, z))
  BY <1>1, <1>2, <1>4, NewLockSound
<1>6. Sound(Null(b)) /\ SameFiles(w, Null(b))
  <2>1. /\ b.disk = v.disk /\ b.plan = v.plan /\ b.fault = v.fault
        /\ b.locks = v.locks /\ b.cats = v.cats /\ b.arcs = v.arcs /\ Shape(b)
    BY <1>1 DEF Typed, Shape, Fields
  <2> HIDE DEF b
  <2> DEFINE c == Null(b)
  <2>2. /\ c.disk = v.disk /\ c.plan = v.plan /\ c.fault = v.fault
        /\ c.locks = v.locks /\ c.cats = v.cats /\ c.arcs = v.arcs
    BY <2>1 DEF Null, Shape, Fields
  <2> HIDE DEF c
  <2>3. v.fault \in BOOLEAN /\ \A q \in Paths : SamePicture(v, c, q)
    BY <1>1, <2>2 DEF SamePicture, Sound, SoundBut
  <2>4. Sound(c)
    BY <1>1, <2>2, <2>3, SoundSame DEF Sound, SameFiles
  <2> QED BY <1>1, <2>2, <2>4 DEF SameFiles, c
<1> QED BY <1>1, <1>3, <1>4, <1>5, <1>6 DEF SameFiles

(* An ARCHIVE or ENTRY lock is bound to the row its name has.              *)
LEMMA AllocInArchiveSound ==
    ASSUME NEW w, Sound(w), NEW p \in Paths, NEW j \in Int, NEW u \in Int,
           Good(w, p, 1, j, u), NEW n \in Names \cup {<<>>}
    PROVE  LET r == AllocInArchive(w, p, n) IN Sound(r) /\ SameFiles(w, r)
<1> DEFINE v == Called(w)
<1> DEFINE lh == LhLock(w, p, n)
<1> DEFINE type == IF n = <<>> THEN "ARCHIVE" ELSE "ENTRY"
<1> DEFINE y == NewLock(v, type, p, n, lh)
<1> DEFINE z == [y EXCEPT !.arcs[p].users = @ \cup {y.got}]
<1> DEFINE f == lhh_arc_release(v, p)
<1>0. Typed(w) /\ Tidy(w)
  BY DEF Good
<1>1. /\ Sound(v) /\ SameFiles(w, v) /\ Typed(v) /\ Tidy(v) /\ v.locks = w.locks
      /\ v.arcs = w.arcs /\ v.cats = w.cats
  BY <1>0, BookSound DEF Sound
<1>2. Good(v, p, 0 + 1, j, u)
  BY CalledGood
<1>3. AllocInArchive(w, p, n) = IF Fails(w) \/ FreeLocks(w) = {} \/ lh = ZERO THEN Null(f) ELSE z
  BY DEF AllocInArchive
<1>4. /\ type \in LockTypes /\ type # "REAL"
      /\ type = "ENTRY" => n \in Names
      /\ p \in Paths \cup {Volume, NoPath} /\ lh \in LhValues
      /\ lh = LhLock(v, p, n)
      /\ FreeLocks(v) = FreeLocks(w)
  BY <1>1, LhLockValue DEF LockTypes, LhLock, LhValues, ZERO, FreeLocks
<1> HIDE DEF v, lh, type
<1>5. Sound(Null(f)) /\ SameFiles(w, Null(f))
  <2>1. Sound(f) /\ SameFiles(v, f)
    <3>1. Typed(v) /\ Tidy(v) /\ Idle(v) /\ Refs(v, p, 0 + 1)
      BY <1>2 DEF Good
    <3>2. Cardinality(UsersIn(v, p)) \in Nat
      BY LocksFinite DEF UsersIn
    <3>3. /\ v.arcs[p].ref = Cardinality(UsersIn(v, p)) + 0 + 1
          /\ ~v.arcs[p].open => v.cats[p] = <<>>
      BY <3>1, <3>2 DEF Refs, Idle
    <3> QED BY <1>1, <3>1, <3>3, ReleaseSound DEF Sound
  <2>2. Good(f, p, 0, j, u)
    BY <1>2, ReleaseGood
  <2>3. Typed(f) /\ Tidy(f)
    BY <2>2 DEF Good
  <2>4. Sound(Null(f)) /\ SameFiles(f, Null(f))
    BY <2>1, <2>3, BookSound DEF Sound
  <2> QED BY <1>1, <2>1, <2>4 DEF SameFiles
<1>6. ASSUME FreeLocks(w) # {}
      PROVE  Sound(z) /\ SameFiles(w, z)
  <2>1. Sound(y) /\ SameFiles(v, y)
    BY <1>1, <1>4, <1>6, NewLockSound
  <2>2. /\ Typed(y) /\ y.arcs = v.arcs /\ y.cats = v.cats
        /\ y.got \in LockIds
        /\ \A m \in LockIds : m # y.got => y.locks[m] = v.locks[m]
        /\ y.locks[y.got].type = type /\ y.locks[y.got].path = p /\ y.locks[y.got].lh = lh
    <3>1. lh \in Int
      BY <1>4 DEF LhValues, ROOT_DIR, SYNTH_DIR
    <3>2. Typed(v) /\ FreeLocks(v) # {} /\ type \in LockTypes /\ p \in Paths \cup {Volume, NoPath}
      BY <1>1, <1>4, <1>6
    <3> HIDE DEF y
    <3>3. y = NewLock(v, type, p, n, lh)
      BY DEF y
    <3> QED BY <3>1, <3>2, <3>3, NewLockFields
  <2>3. Tidy(y)
    <3>1. lh # DANGLING
      BY <1>4 DEF LhValues, ROOT_DIR, SYNTH_DIR, DANGLING
    <3> QED BY <1>1, <1>4, <2>2, <3>1 DEF Tidy, type
  <2> HIDE DEF y
  <2>4. /\ z.disk = y.disk /\ z.plan = y.plan /\ z.fault = y.fault /\ z.locks = y.locks
        /\ z.cats = y.cats /\ z.arcs = [y.arcs EXCEPT ![p].users = @ \cup {y.got}]
    BY <2>2 DEF Typed, Shape, Fields
  <2> HIDE DEF z
  <2>5. y.fault \in BOOLEAN /\ \A q \in Paths : SamePicture(y, z, q)
    BY <2>1, <2>2, <2>4 DEF SamePicture, Typed, ArcSet, Sound, SoundBut
  <2>6. Sound(z)
    BY <2>1, <2>3, <2>4, <2>5, SoundSame DEF Sound, SameFiles
  <2> QED BY <1>1, <2>1, <2>4, <2>6 DEF SameFiles
<1> QED BY <1>3, <1>5, <1>6

(* Freeing a lock leaves the files alone, and closes at most a picture     *)
(* that nobody looks at any more.                                          *)
LEMMA FreeSound ==
    ASSUME NEW w, Sound(w), NEW x, NEW k \in Nat, NEW j \in Int, NEW u \in Int,
           Good(w, x, k, j, u), NEW l \in Live(w),
           k = 0 \/ w.locks[l].type \notin {"ARCHIVE", "ENTRY"} \/ w.locks[l].path = x
    PROVE  LET r == lhh_lock_free(w, l) IN Sound(r) /\ SameFiles(w, r)
<1> DEFINE p == w.locks[l].path
<1> DEFINE type == w.locks[l].type
<1> DEFINE v == [w EXCEPT !.locks[l] = FreeLock, !.lockCnt = @ - 1, !.usageCnt = @ - 1]
<1> DEFINE h == [v EXCEPT !.hostLocks = @ - 1]
<1> DEFINE y == [v EXCEPT !.arcs[p].users = @ \ {l}]
<1> DEFINE z == lhh_arc_release(y, p)
<1> DEFINE r == lhh_lock_free(w, l)
<1>1. /\ type = "REAL" => r = h
      /\ type \in {"ARCHIVE", "ENTRY"} => r = z
      /\ type \notin {"REAL", "ARCHIVE", "ENTRY"} => r = v
  BY DEF lhh_lock_free
<1>2. /\ Shape(v) /\ v.arcs = w.arcs /\ v.cats = w.cats
      /\ v.locks = [w.locks EXCEPT ![l] = FreeLock]
      /\ v.hostLocks = w.hostLocks /\ v.lockCnt = w.lockCnt - 1 /\ v.usageCnt = w.usageCnt - 1
      /\ v.disk = w.disk /\ v.plan = w.plan /\ v.fault = w.fault
  BY DEF Good, Typed, Shape, Fields
<1>3. /\ FreeLock \in LockSet /\ FreeLock.type = "free" /\ FreeLock.lh # DANGLING
      /\ FreeLock.lh \in LhValues
  BY DEF FreeLock, LockSet, LockTypes, ZERO, DANGLING, LhValues
<1>4. l \in LockIds /\ type # "free" /\ w.fault \in BOOLEAN
  BY DEF Live, Sound, SoundBut
<1>5. Typed(w) /\ Tidy(w) /\ Idle(w) /\ Refs(w, x, k)
  BY DEF Good
<1> HIDE DEF v, r
<1>6. /\ v.locks \in [LockIds -> LockSet]
      /\ v.locks[l] = FreeLock
      /\ \A m \in LockIds : m # l => v.locks[m] = w.locks[m]
  BY <1>2, <1>3, <1>4, <1>5 DEF Typed
<1>7. Typed(v) /\ Tidy(v)
  BY <1>2, <1>3, <1>5, <1>6 DEF Typed, Tidy
<1>8. LockSound(v, l, NoPath)
  BY <1>3, <1>6 DEF LockSound
<1>9. \A q \in Paths : SamePicture(w, v, q)
  BY <1>2 DEF SamePicture
<1>10. Sound(v) /\ SameFiles(w, v)
  BY <1>2, <1>4, <1>5, <1>6, <1>8, <1>9, SoundStep DEF Sound, SameFiles
<1>11. CASE type = "REAL"
  <2>1. /\ h.arcs = v.arcs /\ h.cats = v.cats /\ h.locks = v.locks
        /\ h.disk = v.disk /\ h.plan = v.plan /\ h.fault = v.fault
    BY <1>2 DEF Shape, Fields
  <2> HIDE DEF h
  <2>2. \A q \in Paths : SamePicture(v, h, q)
    BY <2>1 DEF SamePicture
  <2>3. Sound(h)
    BY <1>2, <1>4, <1>7, <1>10, <2>1, <2>2, SoundSame DEF Sound, SameFiles
  <2> QED BY <1>1, <1>2, <1>11, <2>1, <2>3 DEF SameFiles, r
<1>12. CASE type \notin {"REAL", "ARCHIVE", "ENTRY"}
  BY <1>1, <1>10, <1>12 DEF r
<1>13. CASE type \in {"ARCHIVE", "ENTRY"}
  <2>1. p \in Paths /\ (k = 0 \/ p = x)
    BY <1>4, <1>5, <1>13 DEF Tidy
  <2>2. /\ Shape(y) /\ y.cats = v.cats /\ y.locks = v.locks /\ SameCounts(v, y)
        /\ y.arcs = [v.arcs EXCEPT ![p].users = @ \ {l}]
        /\ y.disk = v.disk /\ y.plan = v.plan /\ y.fault = v.fault
    BY <1>2 DEF Shape, Fields, SameCounts
  <2> HIDE DEF y, p
  <2>3. /\ y.arcs \in [Paths -> ArcSet]
        /\ y.arcs[p].ref = w.arcs[p].ref
        /\ \A q \in Paths : y.arcs[q].open = w.arcs[q].open
    BY <1>2, <1>5, <2>1, <2>2 DEF Typed, ArcSet
  <2>4. Typed(y) /\ Tidy(y)
    BY <1>7, <2>2, <2>3 DEF Typed, Tidy, SameCounts
  <2>5. \A q \in Paths : SamePicture(v, y, q)
    BY <1>2, <2>2, <2>3 DEF SamePicture
  <2>6. Sound(y)
    BY <1>2, <1>4, <1>7, <1>10, <2>2, <2>5, SoundSame DEF Sound, SameFiles
  <2>7. y.arcs[p].ref = Cardinality(UsersIn(y, p)) + k + 1
    <3>1. l \in UsersIn(w, p) /\ UsersIn(w, p) \in SUBSET LockIds
      BY <1>4, <1>13 DEF UsersIn, OnArc, p
    <3>2. UsersIn(y, p) = UsersIn(w, p) \ {l}
      BY <1>3, <1>4, <1>6, <2>2 DEF UsersIn, OnArc
    <3>3. Cardinality(UsersIn(y, p)) = Cardinality(UsersIn(w, p)) - 1 /\ Cardinality(UsersIn(w, p)) \in Nat
      BY <3>1, <3>2, CardRemove, LocksFinite
    <3>4. w.arcs[p].ref = Cardinality(UsersIn(w, p)) + k
      BY <1>5, <2>1, <3>3 DEF Refs
    <3> QED BY <2>3, <3>3, <3>4
  <2>8. ~y.arcs[p].open => y.cats[p] = <<>>
    BY <1>2, <1>5, <2>1, <2>2, <2>3 DEF Idle
  <2>9. Sound(z) /\ SameFiles(y, z)
    BY <2>1, <2>4, <2>6, <2>7, <2>8, ReleaseSound DEF Sound
  <2> QED BY <1>1, <1>2, <1>13, <2>2, <2>9 DEF SameFiles, r, p
<1> QED BY <1>11, <1>12, <1>13

-----------------------------------------------------------------------------
(* Reading an archive again.                                               *)

(* Every user of p is unbound before the reader of p is closed.            *)
LEMMA ClosedFields ==
    ASSUME NEW w, NEW p \in Paths, Typed(w), Tidy(w), w.arcs[p].users = UsersIn(w, p),
           ~w.arcs[p].open => w.cats[p] = <<>>
    PROVE  LET b == CloseReader(UnlockUsers(w, p), p) IN
           /\ Typed(b) /\ Tidy(b)
           /\ SameFiles(w, b) /\ b.fault = w.fault
           /\ b.arcs = [w.arcs EXCEPT ![p].open = FALSE]
           /\ b.cats = [w.cats EXCEPT ![p] = <<>>]
           /\ UsersIn(b, p) = UsersIn(w, p)
           /\ \A l \in LockIds : SameLock(w, b, l)
           /\ \A l \in LockIds \ UsersIn(w, p) : b.locks[l] = w.locks[l]
           /\ \A l \in UsersIn(w, p) : b.locks[l].lh = ZERO
<1> DEFINE a == UnlockUsers(w, p)
<1> DEFINE b == CloseReader(a, p)
<1>1. /\ Typed(a)
      /\ a.arcs = w.arcs /\ a.cats = w.cats
      /\ \A l \in LockIds :
             /\ SameLock(w, a, l)
             /\ a.locks[l].lh # DANGLING
             /\ l \notin UsersIn(w, p) => a.locks[l] = w.locks[l]
      /\ \A l \in UsersIn(w, p) : a.locks[l].lh = ZERO
  BY UsersFields
<1>2. SameFiles(w, a) /\ a.fault = w.fault
  BY DEF UnlockUsers, SameFiles, Typed, Shape, Fields
<1> HIDE DEF a
<1>3. \A q \in Paths : UsersIn(a, q) = UsersIn(w, q)
  BY <1>1 DEF SameLock, UsersIn, OnArc
<1>4. SameFiles(a, b) /\ b.fault = a.fault
  BY <1>1 DEF CloseReader, LhCloseArchive, SameFiles, Typed, Shape, Fields
<1>5. /\ Typed(b) /\ b.locks = a.locks
      /\ b.arcs = [a.arcs EXCEPT ![p].open = FALSE]
      /\ b.cats = [a.cats EXCEPT ![p] = <<>>]
  <2>1. /\ ~a.arcs[p].open => a.cats[p] = <<>>
        /\ \A l \in UsersIn(a, p) : a.locks[l].lh = ZERO
    BY <1>1, <1>3
  <2> HIDE DEF b
  <2>2. CloseReader(a, p) = b
    BY DEF b
  <2> QED BY <1>1, <2>1, <2>2, CloseReaderFields, Zenon
<1> HIDE DEF b
<1>6. UsersIn(b, p) = UsersIn(w, p)
  BY <1>3, <1>5 DEF UsersIn, OnArc
<1>7. Tidy(b)
  <2> SUFFICES ASSUME NEW l \in LockIds
               PROVE  /\ b.locks[l].lh # DANGLING
                      /\ b.locks[l].type = "free" => b.locks[l] = FreeLock
                      /\ b.locks[l].type \in {"ARCHIVE", "ENTRY"} => b.locks[l].path \in Paths
                      /\ b.locks[l].type = "REAL" => b.locks[l].path \in Paths \cup {Volume}
    BY DEF Tidy
  <2>1. l \in UsersIn(w, p) => w.locks[l].type # "free"
    BY DEF UsersIn, OnArc
  <2> QED BY <1>1, <1>5, <2>1 DEF Tidy, SameLock
<1>8. /\ \A l \in LockIds : SameLock(w, b, l)
      /\ \A l \in LockIds \ UsersIn(w, p) : b.locks[l] = w.locks[l]
      /\ \A l \in UsersIn(w, p) : b.locks[l].lh = ZERO
  BY <1>1, <1>5 DEF SameLock
<1>9. b.arcs = [w.arcs EXCEPT ![p].open = FALSE] /\ b.cats = [w.cats EXCEPT ![p] = <<>>]
      /\ SameFiles(w, b) /\ b.fault = w.fault
  BY <1>1, <1>2, <1>4, <1>5 DEF SameFiles
<1> QED BY <1>5, <1>6, <1>7, <1>8, <1>9 DEF b, a

(* lhh_arc_refresh brings the picture and the locks of its archive up to   *)
(* date, whatever was done to the file.                                    *)
LEMMA RefreshSound ==
    ASSUME NEW w, NEW p \in Paths, Typed(w), Tidy(w), w.arcs[p].users = UsersIn(w, p),
           ~w.arcs[p].open => w.cats[p] = <<>>, SoundBut(w, p)
    PROVE  LET r == lhh_arc_refresh(w, p) IN Sound(r) /\ SameFiles(w, r) /\ Shape(r)
<1> DEFINE b == CloseReader(UnlockUsers(w, p), p)
<1> DEFINE c == lhh_open_archive_mem(b, p)
<1> DEFINE y == RebindUsers(c, p)
<1> DEFINE r == lhh_arc_refresh(w, p)
<1>1. r = IF c.ok THEN y ELSE c
  BY DEF lhh_arc_refresh
<1>2. /\ Typed(b) /\ Tidy(b)
      /\ SameFiles(w, b) /\ b.fault = w.fault
      /\ b.arcs = [w.arcs EXCEPT ![p].open = FALSE]
      /\ b.cats = [w.cats EXCEPT ![p] = <<>>]
      /\ UsersIn(b, p) = UsersIn(w, p)
      /\ \A l \in LockIds : SameLock(w, b, l)
      /\ \A l \in LockIds \ UsersIn(w, p) : b.locks[l] = w.locks[l]
      /\ \A l \in UsersIn(w, p) : b.locks[l].lh = ZERO
  BY ClosedFields
<1> HIDE DEF b, r
<1>3. /\ SameFiles(b, c) /\ c.fault = b.fault
      /\ c.ok => b.disk[p] \in Archive /\ c.cats[p] = b.disk[p].cat /\ c.cats[p] \in Catalog
  <2>1. FileSound(b.disk[p]) /\ (Undisturbed => b.plan = {})
    BY <1>2 DEF SoundBut, PathSound, SameFiles
  <2> QED BY <1>2, <2>1, OpenSound
<1>4. /\ Typed(c) /\ c.locks = b.locks /\ c.ok \in BOOLEAN
      /\ \/ ~c.ok /\ c.arcs = b.arcs /\ c.cats = b.cats
         \/ /\ c.ok
            /\ c.arcs = [b.arcs EXCEPT ![p].open = TRUE]
            /\ \A q \in Paths \ {p} : c.cats[q] = b.cats[q]
  BY <1>2, OpenFields
<1> HIDE DEF c
<1>5. /\ \A q \in Paths \ {p} : SamePicture(w, c, q)
      /\ c.arcs[p].open = c.ok
      /\ c.arcs[p].users = UsersIn(w, p)
      /\ ~c.ok => c.cats[p] = <<>>
  BY <1>2, <1>4 DEF SamePicture, Typed, ArcSet
<1>6. c.cats[p] \in Catalog /\ SameFiles(w, c) /\ c.fault = w.fault
  <2>1. <<>> \in Catalog
    BY DEF Catalog
  <2>2. c.cats[p] \in Catalog
    BY <1>3, <1>5, <2>1
  <2> QED BY <1>2, <1>3, <2>2 DEF SameFiles
<1>7. ASSUME NEW v, SameFiles(c, v), v.fault = c.fault, v.arcs = c.arcs, v.cats = c.cats,
             \A l \in LockIds : SameLock(w, v, l),
             \A l \in LockIds \ UsersIn(w, p) : v.locks[l] = w.locks[l],
             \A l \in UsersIn(w, p) : v.locks[l].lh = LhLock(v, p, w.locks[l].entry)
      PROVE  Sound(v)
  <2>1. v.disk = w.disk /\ v.plan = w.plan /\ v.fault \in BOOLEAN
    BY <1>6, <1>7 DEF SameFiles, SoundBut
  <2>2. \A q \in Paths : PathSound(v, q, NoPath)
    <3>1. \A q \in Paths \ {p} : PathSound(v, q, NoPath)
      BY <1>5, <1>7, <2>1 DEF SoundBut, PathSound, SamePicture
    <3>2. PathSound(v, p, NoPath)
      BY <1>2, <1>3, <1>5, <1>6, <1>7, <2>1 DEF SoundBut, PathSound, SameFiles
    <3> QED BY <3>1, <3>2
  <2>3. \A l \in UsersIn(w, p) : LockSound(v, l, NoPath)
    <3> SUFFICES ASSUME NEW l \in UsersIn(w, p) PROVE LockSound(v, l, NoPath)
      OBVIOUS
    <3>1. l \in LockIds /\ w.locks[l].type \in {"ARCHIVE", "ENTRY"} /\ w.locks[l].path = p
      BY DEF UsersIn, OnArc
    <3>2. LockSound(w, l, p) /\ SameLock(w, v, l)
      BY <1>7, <3>1 DEF SoundBut
    <3>3. LhLock(v, p, w.locks[l].entry) \in LhValues
      BY LhLockValue DEF LhLock, LhValues, ZERO
    <3> QED BY <1>7, <3>1, <3>2, <3>3 DEF LockSound, SameLock
  <2>4. \A l \in LockIds \ UsersIn(w, p) : LockSound(v, l, NoPath)
    <3> SUFFICES ASSUME NEW l \in LockIds \ UsersIn(w, p) PROVE LockSound(v, l, NoPath)
      OBVIOUS
    <3>1. LockSound(w, l, p) /\ v.locks[l] = w.locks[l]
      BY <1>7 DEF SoundBut
    <3>2. CASE w.locks[l].type \in {"ARCHIVE", "ENTRY"}
      <4>1. w.locks[l].path \in Paths \ {p}
        BY <3>2 DEF Tidy, UsersIn, OnArc
      <4>2. LhLock(v, w.locks[l].path, w.locks[l].entry) = LhLock(w, w.locks[l].path, w.locks[l].entry)
        BY <1>5, <1>7, <4>1 DEF SamePicture, LhLock
      <4> QED BY <3>1, <3>2, <4>1, <4>2 DEF LockSound
    <3>3. CASE w.locks[l].type \notin {"ARCHIVE", "ENTRY"}
      BY <2>1, <3>1, <3>3 DEF LockSound
    <3> QED BY <3>2, <3>3
  <2>5. v.disk = [q \in Paths |-> v.disk[q]] /\ (Undisturbed => v.plan = {})
    BY <2>1 DEF SoundBut
  <2>6. \A l \in LockIds : LockSound(v, l, NoPath)
    BY <2>3, <2>4
  <2> QED BY <2>1, <2>2, <2>5, <2>6 DEF Sound, SoundBut
<1>8. CASE ~c.ok
  <2>1. \A l \in UsersIn(w, p) : LhLock(c, p, w.locks[l].entry) = ZERO
    BY <1>5, <1>8 DEF LhLock
  <2>2. Sound(c)
    BY <1>2, <1>4, <1>7, <2>1 DEF SameFiles, SameLock
  <2> QED BY <1>1, <1>4, <1>6, <1>8, <2>2 DEF r, Typed
<1>9. CASE c.ok
  <2>1. /\ y.disk = c.disk /\ y.plan = c.plan /\ y.fault = c.fault
        /\ y.arcs = c.arcs /\ y.cats = c.cats /\ Shape(y)
        /\ y.locks = [l \in LockIds |->
               IF l \in c.arcs[p].users
               THEN [c.locks[l] EXCEPT !.lh = lh_arc_lock(c.cats[p], c.locks[l].entry)]
               ELSE c.locks[l]]
    BY <1>4 DEF RebindUsers, Typed, Shape, Fields
  <2> HIDE DEF y
  <2>2. \A l \in LockIds : c.locks[l] \in LockSet /\ SameLock(w, c, l)
    BY <1>2, <1>4 DEF Typed, SameLock
  <2>3. \A l \in LockIds : SameLock(w, y, l)
    BY <2>1, <2>2 DEF SameLock, LockSet
  <2>4. \A l \in LockIds \ UsersIn(w, p) : y.locks[l] = w.locks[l]
    BY <1>2, <1>4, <1>5, <2>1
  <2>5. \A l \in UsersIn(w, p) : y.locks[l].lh = LhLock(y, p, w.locks[l].entry)
    <3> SUFFICES ASSUME NEW l \in UsersIn(w, p)
                 PROVE  y.locks[l].lh = LhLock(y, p, w.locks[l].entry)
      OBVIOUS
    <3>1. l \in LockIds
      BY DEF UsersIn
    <3>2. c.locks[l] \in LockSet /\ c.locks[l].entry = w.locks[l].entry
      BY <2>2, <3>1 DEF SameLock
    <3>3. y.locks[l] = [c.locks[l] EXCEPT !.lh = lh_arc_lock(c.cats[p], c.locks[l].entry)]
      BY <1>5, <2>1, <3>1
    <3>4. y.locks[l].lh = lh_arc_lock(c.cats[p], c.locks[l].entry)
      BY <3>2, <3>3 DEF LockSet
    <3> QED BY <1>5, <1>9, <2>1, <3>2, <3>4 DEF LhLock
  <2>6. Sound(y)
    BY <1>7, <2>1, <2>3, <2>4, <2>5 DEF SameFiles
  <2> QED BY <1>1, <1>6, <1>9, <2>1, <2>6 DEF r, SameFiles
<1> QED BY <1>4, <1>8, <1>9

-----------------------------------------------------------------------------
(* Writing an archive.                                                     *)

(* The place of row i among the rows.                                      *)
Place(rows, i) == Cardinality({j \in rows : j <= i})

(* Later rows have later places.                                           *)
LEMMA PlaceLess ==
    ASSUME NEW m \in Nat, NEW rows \in SUBSET (1 .. m), NEW i \in rows, NEW k \in rows, i < k
    PROVE  Place(rows, i) < Place(rows, k)
<1> DEFINE I == {j \in rows : j <= i}
           K == {j \in rows : j <= k}
<1>1. \A j \in rows : j \in Int
  OBVIOUS
<1>2. \A j \in rows : j <= i => j <= k
  BY <1>1
<1>3. I \subseteq K /\ k \in K /\ k \notin I
  <2>1. I \subseteq K
    BY <1>2
  <2>2. k \in K /\ k \notin I
    BY <1>1
  <2> QED BY <2>1, <2>2
<1>4. IsFiniteSet(1 .. m)
  BY FS_Interval
<1>5. IsFiniteSet(K)
  BY <1>4, FS_Subset
<1>6. IsFiniteSet(I) /\ Cardinality(I) <= Cardinality(K) /\ (Cardinality(I) = Cardinality(K) => I = K)
  BY <1>3, <1>5, FS_Subset
<1>7. Cardinality(I) \in Nat /\ Cardinality(K) \in Nat
  BY <1>5, <1>6, FS_CardinalityType
<1>8. Cardinality(I) # Cardinality(K)
  BY <1>3, <1>6
<1> HIDE DEF I, K
<1>9. Cardinality(I) < Cardinality(K)
  BY <1>6, <1>7, <1>8
<1> QED BY <1>9 DEF I, K, Place

(* A row is copied for every place: the places are as many as the rows,    *)
(* and no two rows have the same.                                          *)
LEMMA RowIsRow ==
    ASSUME NEW m \in Nat, NEW rows \in SUBSET (1 .. m)
    PROVE  /\ Cardinality(rows) \in Nat
           /\ \A k \in 1 .. Cardinality(rows) : RowAt(rows, k) \in rows
<1> DEFINE n == Cardinality(rows)
           f == [i \in rows |-> Place(rows, i)]
<1>1. IsFiniteSet(1 .. m)
  BY FS_Interval
<1>2. IsFiniteSet(rows) /\ n \in Nat
  BY <1>1, FS_Subset, FS_CardinalityType
<1>3. \A i \in rows : Place(rows, i) \in 1 .. n
  <2> SUFFICES ASSUME NEW i \in rows PROVE Place(rows, i) \in 1 .. n
    OBVIOUS
  <2> DEFINE I == {j \in rows : j <= i}
  <2>1. IsFiniteSet(I) /\ Cardinality(I) <= n /\ i \in I
    BY <1>2, FS_Subset
  <2>2. Cardinality(I) # 0 /\ Cardinality(I) \in Nat
    BY <2>1, FS_EmptySet, FS_CardinalityType
  <2> HIDE DEF I, n
  <2>3. Cardinality(I) \in 1 .. n
    BY <1>2, <2>1, <2>2
  <2> QED BY <2>3 DEF I, Place
<1>4. \A i, k \in rows : Place(rows, i) = Place(rows, k) => i = k
  <2> SUFFICES ASSUME NEW i \in rows, NEW k \in rows, Place(rows, i) = Place(rows, k), i # k
               PROVE  FALSE
    OBVIOUS
  <2>1. i < k \/ k < i
    OBVIOUS
  <2>2. Place(rows, i) < Place(rows, k) \/ Place(rows, k) < Place(rows, i)
    BY <2>1, PlaceLess
  <2> QED BY <1>2, <1>3, <2>2
<1> HIDE DEF n
<1>5. f \in Injection(rows, 1 .. n)
  BY <1>3, <1>4 DEF Injection, IsInjective
<1>6. IsFiniteSet(1 .. n) /\ Cardinality(1 .. n) = n
  BY <1>2, FS_Interval
<1>7. f \in Surjection(rows, 1 .. n)
  BY <1>5, <1>6, FS_Injection DEF n
<1>8. \A k \in 1 .. n : \E i \in rows : Place(rows, i) = k
  BY <1>7 DEF Surjection
<1>9. \A k \in 1 .. n : RowAt(rows, k) \in rows
  BY <1>8 DEF RowAt, Place
<1> QED BY <1>2, <1>9 DEF n

(* What a delete writes is a catalog.                                      *)
LEMMA RewriteCatalog ==
    ASSUME NEW c \in Catalog, NEW n
    PROVE  lh_archive_rewrite(c, n) \in Catalog
<1> DEFINE rows == {i \in 1 .. Len(c) : c[i].name # n}
           m == Cardinality(rows)
<1>1. Len(c) \in Nat /\ c \in [1 .. Len(c) -> Entry]
  BY DEF Catalog
<1>2. m \in Nat /\ \A k \in 1 .. m : RowAt(rows, k) \in rows
  BY <1>1, RowIsRow
<1>3. lh_archive_rewrite(c, n) = [k \in 1 .. m |-> [c[RowAt(rows, k)] EXCEPT !.kind = "file"]]
  BY DEF lh_archive_rewrite
<1>4. \A i \in rows : [c[i] EXCEPT !.kind = "file"] \in Entry
  BY <1>1 DEF Entry
<1> HIDE DEF rows, m
<1> QED BY <1>2, <1>3, <1>4 DEF Catalog

(* What an archive holds once the name n is deleted from it.               *)
Rewritten(a, n) == [cat |-> lh_archive_rewrite(a.cat, n), marked |-> FALSE]

(* Files the handler itself writes.                                        *)
LEMMA FilesSound ==
    /\ FileSound(Absent) /\ FileSound(HostDir) /\ FileSound(EmptyArchive)
    /\ EmptyArchive \in Archive
    /\ \A a \in Archive : \A n :
           FileSound(Rewritten(a, n)) /\ Rewritten(a, n).cat \in Catalog
    /\ \A a \in Archive : FileSound(a) =>
           \A e \in Entry : FileSound(lh_writer_add(a, e)) /\ lh_writer_add(a, e) \in Archive
<1>1. EmptyArchive \in Archive /\ EmptyArchive.marked = FALSE
  BY DEF EmptyArchive, Archive, Catalog
<1>2. /\ \A a \in Archive : a \in HostFile /\ a \notin {Absent, Junk, HostDir}
      /\ {Absent, HostDir} \subseteq HostFile
      /\ Absent \notin Archive /\ HostDir \notin Archive
      /\ Absent # Junk /\ HostDir # Junk
  BY FilesAssumption DEF HostFile
<1>3. ASSUME NEW a \in Archive, NEW n
      PROVE  /\ Rewritten(a, n) \in Archive /\ ~Rewritten(a, n).marked
             /\ Rewritten(a, n).cat \in Catalog
  <2>1. a.cat \in Catalog
    BY DEF Archive
  <2>2. lh_archive_rewrite(a.cat, n) \in Catalog
    BY <2>1, RewriteCatalog
  <2> QED BY <2>2 DEF Rewritten, Archive
<1>4. ASSUME NEW a \in Archive, NEW e \in Entry
      PROVE  lh_writer_add(a, e) \in Archive /\ lh_writer_add(a, e).marked = a.marked
  BY DEF lh_writer_add, Archive, Catalog
<1>5. /\ FileSound(Absent) /\ FileSound(HostDir) /\ FileSound(EmptyArchive)
  BY <1>1, <1>2 DEF FileSound
<1>6. \A a \in Archive : \A n : FileSound(Rewritten(a, n))
  BY <1>2, <1>3 DEF FileSound
<1>7. \A a \in Archive : FileSound(a) => \A e \in Entry : FileSound(lh_writer_add(a, e))
  BY <1>2, <1>4 DEF FileSound
<1> QED BY <1>1, <1>3, <1>4, <1>5, <1>6, <1>7

(* One file is written, and at most the picture of that file changed.  A   *)
(* drawer becomes something else only while no host lock is on it.         *)
LEMMA FileStep ==
    ASSUME NEW w, NEW p \in Paths, NEW x \in {p, NoPath}, SoundBut(w, x), Typed(w), Tidy(w),
           NEW v, NEW d, FileSound(d), NEW c \in Catalog,
           v.disk = [w.disk EXCEPT ![p] = d], v.cats = [w.cats EXCEPT ![p] = c],
           v.plan = w.plan, v.fault = w.fault, v.locks = w.locks, v.arcs = w.arcs,
           Undisturbed /\ w.disk[p] = HostDir => d = HostDir \/ ~HostLocked(w, p)
    PROVE  /\ SoundBut(v, p)
           /\ (Undisturbed => c = w.cats[p] /\ (d = w.disk[p] \/ d \notin Archive))
                  => SoundBut(v, x)
<1> DEFINE Kept == Undisturbed => c = w.cats[p] /\ (d = w.disk[p] \/ d \notin Archive)
<1>1. /\ v.disk = [q \in Paths |-> v.disk[q]]
      /\ v.disk[p] = d /\ v.cats[p] = c
      /\ \A q \in Paths \ {p} : v.disk[q] = w.disk[q] /\ v.cats[q] = w.cats[q]
  <2>1. w.disk = [q \in Paths |-> w.disk[q]] /\ w.cats = [q \in Paths |-> w.cats[q]]
    BY DEF SoundBut, Typed
  <2> QED BY <2>1
<1>2. v.fault \in BOOLEAN /\ (Undisturbed => v.plan = {})
  BY DEF SoundBut
<1>3. \A q \in Paths \ {p} : PathSound(w, q, x) => PathSound(v, q, x) /\ PathSound(v, q, p)
  <2>1. \A q \in Paths \ {p} : q # p /\ q # x
    BY PathsAssumption
  <2> QED BY <1>1, <2>1 DEF PathSound
<1>4. PathSound(v, p, p)
  BY <1>1 DEF PathSound
<1>5. ASSUME NEW l \in LockIds
      PROVE  LockSound(v, l, p) /\ (Kept => LockSound(v, l, x))
  <2> DEFINE k == w.locks[l]
  <2>1. LockSound(w, l, x) /\ v.locks[l] = k
    BY DEF SoundBut
  <2>2. \A q \in Paths \ {p} : LhLock(v, q, k.entry) = LhLock(w, q, k.entry)
    BY <1>1 DEF LhLock
  <2>3. c = w.cats[p] => LhLock(v, p, k.entry) = LhLock(w, p, k.entry)
    BY <1>1 DEF LhLock
  <2>4. k.type \in {"ARCHIVE", "ENTRY"} => k.path \in Paths
    BY DEF Tidy
  <2>5. x = p \/ x \notin Paths
    BY PathsAssumption
  <2>6. k.type = "REAL" /\ k.path = p => HostLocked(w, p)
    BY DEF HostLocked
  <2> HIDE DEF k
  <2>7. Undisturbed /\ k.type = "REAL" /\ k.path \in Paths => v.disk[k.path] = HostDir
    BY <1>1, <2>1, <2>6 DEF LockSound, k
  <2>8. LockSound(v, l, p)
    BY <2>1, <2>2, <2>4, <2>5, <2>7 DEF LockSound, k
  <2>9. Kept => LockSound(v, l, x)
    BY <2>1, <2>2, <2>3, <2>4, <2>5, <2>7 DEF LockSound, k
  <2> QED BY <2>8, <2>9
<1>6. Kept => PathSound(v, p, x)
  <2>1. PathSound(w, p, x)
    BY DEF SoundBut
  <2> QED BY <1>1, <2>1 DEF PathSound
<1> HIDE DEF Kept
<1>7. SoundBut(v, p)
  <2>1. \A q \in Paths : PathSound(v, q, p)
    BY <1>3, <1>4 DEF SoundBut
  <2> QED BY <1>1, <1>2, <1>5, <2>1 DEF SoundBut
<1>8. Kept => SoundBut(v, x)
  <2>1. \A q \in Paths \ {p} : PathSound(v, q, x)
    BY <1>3 DEF SoundBut
  <2> QED BY <1>1, <1>2, <1>5, <1>6, <2>1 DEF SoundBut
<1> QED BY <1>7, <1>8 DEF Kept

(* A delete writes the file and the picture; when it fails undisturbed, it *)
(* has done neither.                                                       *)
LEMMA DeleteEntrySound ==
    ASSUME NEW w, NEW p \in Paths, Sound(w), Typed(w), Tidy(w), NEW n
    PROVE  LET r == lh_arc_delete_entry(w, p, n) IN
           /\ SoundBut(r, p)
           /\ r.ok \in BOOLEAN
           /\ ~r.ok => Sound(r)
<1> DEFINE r == lh_arc_delete_entry(w, p, n)
<1> DEFINE new == Rewritten(w.disk[p], n)
<1>1. PathSound(w, p, NoPath) /\ w.disk = [q \in Paths |-> w.disk[q]] /\ w.cats = [q \in Paths |-> w.cats[q]]
  BY DEF Sound, SoundBut, Typed
<1>2. w.disk[p] \in HostFile /\ FileSound(w.disk[p]) /\ w.cats[p] \in Catalog /\ <<>> \in Catalog
  BY <1>1 DEF PathSound, FileSound, Catalog
<1>3. \A v : Fails(v) /\ v.plan = w.plan => ~Undisturbed
  BY DEF Fails, Sound, SoundBut
<1>4. /\ r.plan = w.plan /\ r.fault = w.fault /\ r.locks = w.locks /\ r.arcs = w.arcs
      /\ r.ok \in BOOLEAN
  BY DEF Typed, Shape, Fields, lh_arc_delete_entry, Called, Returns
<1>5. \/ ~r.ok /\ r.disk = w.disk /\ r.cats = w.cats
      \/ ~r.ok /\ r.disk = w.disk /\ r.cats = [w.cats EXCEPT ![p] = <<>>] /\ w.disk[p] = Junk
      \/ /\ ~r.ok /\ r.disk = w.disk /\ r.cats = [w.cats EXCEPT ![p] = w.disk[p].cat]
         /\ Fails(w) /\ w.disk[p] \notin {Junk, Absent, HostDir}
      \/ /\ ~r.ok /\ r.disk \in {[w.disk EXCEPT ![p] = Absent], [w.disk EXCEPT ![p] = new]}
         /\ r.cats = w.cats
         /\ Fails(Called(w)) \/ Fails(Called(Called(w)))
         /\ w.disk[p] \notin {Junk, Absent, HostDir}
      \/ /\ r.disk = [w.disk EXCEPT ![p] = new] /\ r.cats = [w.cats EXCEPT ![p] = new.cat]
         /\ r.ok /\ w.disk[p] \notin {Junk, Absent, HostDir}
  BY DEF Typed, Shape, Fields, lh_arc_delete_entry, Called, Returns, Rewritten
<1>6. Called(w).plan = w.plan /\ Called(Called(w)).plan = w.plan
  BY DEF Typed, Shape, Fields, Called
<1> HIDE DEF r, new
<1>7. w.disk[p] \notin {Junk, Absent, HostDir} =>
          w.disk[p] \in Archive /\ FileSound(new) /\ new.cat \in Catalog /\ w.disk[p].cat \in Catalog
  BY <1>2, FilesSound DEF HostFile, Archive, new
<1>8. w.disk = [w.disk EXCEPT ![p] = w.disk[p]] /\ w.cats = [w.cats EXCEPT ![p] = w.cats[p]]
  BY <1>1
<1>9. \E d, c : /\ FileSound(d) /\ c \in Catalog
                /\ r.disk = [w.disk EXCEPT ![p] = d] /\ r.cats = [w.cats EXCEPT ![p] = c]
                /\ w.disk[p] = HostDir => d = HostDir
                /\ ~r.ok /\ Undisturbed => d = w.disk[p] /\ c = w.cats[p]
  <2>1. w.disk[p] = Junk => ~Undisturbed
    BY <1>2 DEF FileSound
  <2>2. CASE r.disk = w.disk /\ r.cats = w.cats
    BY <1>2, <1>8, <2>2
  <2>3. CASE ~r.ok /\ r.disk = w.disk /\ r.cats = [w.cats EXCEPT ![p] = <<>>] /\ w.disk[p] = Junk
    BY <1>2, <1>8, <2>1, <2>3
  <2>4. CASE /\ ~r.ok /\ r.disk = w.disk /\ r.cats = [w.cats EXCEPT ![p] = w.disk[p].cat]
             /\ Fails(w) /\ w.disk[p] \notin {Junk, Absent, HostDir}
    BY <1>2, <1>3, <1>7, <1>8, <2>4
  <2>5. CASE /\ ~r.ok /\ r.disk \in {[w.disk EXCEPT ![p] = Absent], [w.disk EXCEPT ![p] = new]}
             /\ r.cats = w.cats
             /\ Fails(Called(w)) \/ Fails(Called(Called(w)))
             /\ w.disk[p] \notin {Junk, Absent, HostDir}
    <3>1. ~Undisturbed
      BY <1>3, <1>6, <2>5
    <3>2. CASE r.disk = [w.disk EXCEPT ![p] = Absent]
      BY <1>2, <1>8, <2>5, <3>1, <3>2, FilesSound
    <3>3. CASE r.disk = [w.disk EXCEPT ![p] = new]
      BY <1>2, <1>7, <1>8, <2>5, <3>1, <3>3
    <3> QED BY <2>5, <3>2, <3>3
  <2>6. CASE /\ r.disk = [w.disk EXCEPT ![p] = new] /\ r.cats = [w.cats EXCEPT ![p] = new.cat]
             /\ r.ok /\ w.disk[p] \notin {Junk, Absent, HostDir}
    BY <1>7, <2>6
  <2> QED BY <1>5, <2>2, <2>3, <2>4, <2>5, <2>6
<1>10. PICK d, c : /\ FileSound(d) /\ c \in Catalog
                   /\ r.disk = [w.disk EXCEPT ![p] = d] /\ r.cats = [w.cats EXCEPT ![p] = c]
                   /\ w.disk[p] = HostDir => d = HostDir
                   /\ ~r.ok /\ Undisturbed => d = w.disk[p] /\ c = w.cats[p]
  BY <1>9
<1>11. /\ SoundBut(r, p)
       /\ (Undisturbed => d = w.disk[p] /\ c = w.cats[p]) => SoundBut(r, NoPath)
  BY <1>4, <1>10, FileStep DEF Sound
<1> QED BY <1>4, <1>10, <1>11 DEF Sound, r

(* What a commit of the entry e has stored: the file is an archive that    *)
(* ends in e, unless it was full.                                          *)
Stored(w, r, p, e) ==
    Undisturbed /\ Unmarked /\ w.disk[p] # HostDir =>
        /\ r.disk[p] \in Archive
        /\ \/ Len(r.disk[p].cat) >= MaxEntries
           \/ /\ r.disk[p].cat # <<>>
              /\ r.disk[p].cat[Len(r.disk[p].cat)] = e

(* An append writes the file and not the picture.                          *)
LEMMA AppendSound ==
    ASSUME NEW w, NEW p \in Paths, NEW x \in {p, NoPath}, SoundBut(w, x), Typed(w), Tidy(w),
           NEW e \in Entry
    PROVE  LET r == LhAppendEntry(w, p, e) IN
           /\ SoundBut(r, p)
           /\ r.ok \in BOOLEAN
           /\ r.fault = w.fault /\ r.plan = w.plan
           /\ ~r.ok => SoundBut(r, x)
           /\ Stored(w, r, p, e)
           /\ \A q \in Paths \ {p} : r.disk[q] = w.disk[q]
<1> DEFINE r == LhAppendEntry(w, p, e)
<1> DEFINE a == IF w.disk[p] = Absent THEN EmptyArchive ELSE w.disk[p]
<1> DEFINE v == Called(w)
<1> DEFINE b == lh_writer_add(a, e)
<1>1. PathSound(w, p, x) /\ w.disk = [q \in Paths |-> w.disk[q]] /\ w.cats = [q \in Paths |-> w.cats[q]]
  BY DEF SoundBut, Typed
<1>2. w.disk[p] \in HostFile /\ FileSound(w.disk[p]) /\ w.cats[p] \in Catalog
  BY <1>1 DEF PathSound, FileSound
<1>3. Undisturbed => ~Fails(w) /\ ~Fails(v)
  BY DEF Fails, SoundBut, Called, Typed, Shape, Fields
<1>4. /\ r.plan = w.plan /\ r.fault = w.fault /\ r.locks = w.locks /\ r.arcs = w.arcs
      /\ r.cats = w.cats /\ r.ok \in BOOLEAN
  BY DEF Typed, Shape, Fields, LhAppendEntry, Called, Returns
<1>5. \/ ~r.ok /\ r.disk = w.disk /\ (Fails(w) \/ w.disk[p] = HostDir)
      \/ ~r.ok /\ r.disk = [w.disk EXCEPT ![p] = a] /\ Fails(v) /\ w.disk[p] # HostDir
      \/ r.ok /\ r.disk = [w.disk EXCEPT ![p] = a] /\ w.disk[p] # HostDir /\ a = Junk
      \/ /\ ~r.ok /\ r.disk = [w.disk EXCEPT ![p] = a] /\ w.disk[p] # HostDir
         /\ a # Junk /\ Len(a.cat) >= MaxEntries
      \/ /\ r.ok /\ r.disk = [w.disk EXCEPT ![p] = b] /\ w.disk[p] # HostDir
         /\ a # Junk /\ ~(Len(a.cat) >= MaxEntries)
  BY DEF Typed, Shape, Fields, LhAppendEntry, Called, Returns
<1>6. FileSound(a) /\ a # Absent
  BY <1>2, FilesSound, FilesAssumption
<1>7. a \in Archive \cup {Junk, HostDir}
  BY <1>6 DEF FileSound, HostFile
<1>8. a \in Archive => /\ a.cat \in Catalog /\ FileSound(b) /\ b \in Archive
                       /\ ~a.marked => b.cat # <<>> /\ b.cat[Len(b.cat)] = e
  <2>1. a \in Archive => FileSound(b) /\ b \in Archive
    BY <1>6, FilesSound
  <2>2. a \in Archive => a.cat \in Seq(Entry)
    BY DEF Archive, Catalog
  <2> DEFINE c == a.cat
  <2> DEFINE g == Append(c, e)
  <2>3. a \in Archive /\ ~a.marked => b.cat = g
    BY DEF lh_writer_add, Archive
  <2> HIDE DEF b, a, c
  <2>4. c \in Seq(Entry) => g # <<>> /\ g[Len(g)] = e
    OBVIOUS
  <2> QED BY <2>1, <2>2, <2>3, <2>4 DEF Catalog, c
<1>9. /\ w.disk = [w.disk EXCEPT ![p] = w.disk[p]] /\ w.cats = [w.cats EXCEPT ![p] = w.cats[p]]
      /\ a = HostDir => w.disk[p] = HostDir
      /\ a = Junk => w.disk[p] = Junk
      /\ a \in Archive => w.disk[p] \in Archive \cup {Absent}
      /\ HostDir \notin Archive /\ Junk \notin Archive
      /\ w.disk[p] # Absent => a = w.disk[p]
  BY <1>1, FilesSound, FilesAssumption
<1>10. Undisturbed => a # Junk
  BY <1>6 DEF FileSound
<1>11. Unmarked /\ a \in Archive => ~a.marked
  BY <1>6 DEF FileSound
<1> HIDE DEF r, a, b
<1>12. \E d : /\ FileSound(d) /\ r.disk = [w.disk EXCEPT ![p] = d]
              /\ w.disk[p] = HostDir => d = HostDir
              /\ ~r.ok /\ Undisturbed => d = w.disk[p] \/ (w.disk[p] = Absent /\ d = a /\ Len(a.cat) >= MaxEntries)
              /\ Undisturbed /\ Unmarked /\ w.disk[p] # HostDir =>
                     /\ d \in Archive
                     /\ Len(d.cat) >= MaxEntries \/ (d.cat # <<>> /\ d.cat[Len(d.cat)] = e)
  <2>1. CASE ~r.ok /\ r.disk = w.disk /\ (Fails(w) \/ w.disk[p] = HostDir)
    BY <1>2, <1>3, <1>9, <2>1
  <2>2. CASE ~r.ok /\ r.disk = [w.disk EXCEPT ![p] = a] /\ Fails(v) /\ w.disk[p] # HostDir
    BY <1>3, <1>6, <2>2
  <2>3. CASE r.ok /\ r.disk = [w.disk EXCEPT ![p] = a] /\ w.disk[p] # HostDir /\ a = Junk
    BY <1>6, <1>10, <2>3
  <2>4. CASE /\ ~r.ok /\ r.disk = [w.disk EXCEPT ![p] = a] /\ w.disk[p] # HostDir
             /\ a # Junk /\ Len(a.cat) >= MaxEntries
    BY <1>6, <1>7, <1>9, <2>4
  <2>5. CASE /\ r.ok /\ r.disk = [w.disk EXCEPT ![p] = b] /\ w.disk[p] # HostDir
             /\ a # Junk /\ ~(Len(a.cat) >= MaxEntries)
    <3>1. a \in Archive
      BY <1>7, <1>9, <2>5
    <3> QED BY <1>8, <1>11, <2>5, <3>1
  <2> QED BY <1>5, <2>1, <2>2, <2>3, <2>4, <2>5
<1>13. PICK d : /\ FileSound(d) /\ r.disk = [w.disk EXCEPT ![p] = d]
                /\ w.disk[p] = HostDir => d = HostDir
                /\ ~r.ok /\ Undisturbed => d = w.disk[p] \/ (w.disk[p] = Absent /\ d = a /\ Len(a.cat) >= MaxEntries)
                /\ Undisturbed /\ Unmarked /\ w.disk[p] # HostDir =>
                       /\ d \in Archive
                       /\ Len(d.cat) >= MaxEntries \/ (d.cat # <<>> /\ d.cat[Len(d.cat)] = e)
  BY <1>12
<1>14. /\ r.disk[p] = d
       /\ \A q \in Paths \ {p} : r.disk[q] = w.disk[q]
  BY <1>1, <1>13
<1>15. Stored(w, r, p, e)
  BY <1>13, <1>14 DEF Stored
<1>16. /\ SoundBut(r, p)
       /\ (Undisturbed => d = w.disk[p]) => SoundBut(r, x)
  BY <1>2, <1>4, <1>9, <1>13, FileStep
<1>17. ASSUME ~r.ok, Undisturbed, d # w.disk[p]
       PROVE  SoundBut(r, x)
  <2>1. w.disk[p] = Absent /\ d = EmptyArchive /\ Len(EmptyArchive.cat) >= MaxEntries
    BY <1>13, <1>17 DEF a
  <2>2. ~(MaxEntries > 0)
    BY <2>1, BoundsAssumption DEF EmptyArchive
  <2>3. SoundBut(r, p)
    BY <1>16
  <2>4. ASSUME NEW q \in Paths PROVE PathSound(r, q, x)
    BY <2>2, <2>3 DEF SoundBut, PathSound
  <2>5. ASSUME NEW l \in LockIds PROVE LockSound(r, l, x)
    <3>1. LockSound(w, l, x) /\ LockSound(r, l, p) /\ r.locks[l] = w.locks[l]
      BY <1>4, <1>16 DEF SoundBut
    <3>2. \A q, n : LhLock(r, q, n) = LhLock(w, q, n)
      BY <1>4 DEF LhLock
    <3> QED BY <3>1, <3>2 DEF LockSound
  <2> QED BY <2>3, <2>4, <2>5 DEF SoundBut
<1>18. ~r.ok => SoundBut(r, x)
  BY <1>16, <1>17
<1> QED BY <1>4, <1>14, <1>15, <1>16, <1>18 DEF r

(* What a refresh hands on is another picture of the same references.      *)
LEMMA RefreshSettles ==
    ASSUME NEW w, NEW p \in Paths, NEW j, NEW u, NEW x, NEW k, Good(w, x, k, j, u), SoundBut(w, p)
    PROVE  LET r == lhh_arc_refresh(w, p) IN Sound(r) /\ SameFiles(w, r)
<1>1. /\ Typed(w) /\ Tidy(w) /\ w.arcs[p].users = UsersIn(w, p)
      /\ ~w.arcs[p].open => w.cats[p] = <<>>
  BY DEF Good, Refs, Idle
<1> QED BY <1>1, RefreshSound

(* A commit writes the file and then brings everything up to date.         *)
LEMMA CommitSound ==
    ASSUME NEW w, NEW p \in Paths, NEW j, NEW u, Good(w, NoPath, 0, j, u), Sound(w),
           NEW e \in Entry
    PROVE  LET r == lhh_arc_commit_write(w, p, e) IN Sound(r) /\ Stored(w, r, p, e)
<1> DEFINE b == CloseReader(UnlockUsers(w, p), p)
<1> DEFINE c == LhAppendEntry(b, p, e)
<1> DEFINE d == lhh_arc_refresh(c, p)
<1> DEFINE r == lhh_arc_commit_write(w, p, e)
<1>1. r = IF c.ok THEN d ELSE Returns(d, FALSE)
  BY DEF lhh_arc_commit_write
<1>2. /\ Typed(w) /\ Tidy(w) /\ w.arcs[p].users = UsersIn(w, p)
      /\ ~w.arcs[p].open => w.cats[p] = <<>>
  BY DEF Good, Refs, Idle
<1>3. /\ Typed(b) /\ Tidy(b)
      /\ SameFiles(w, b) /\ b.fault = w.fault
      /\ b.arcs = [w.arcs EXCEPT ![p].open = FALSE]
      /\ b.cats = [w.cats EXCEPT ![p] = <<>>]
      /\ UsersIn(b, p) = UsersIn(w, p)
      /\ \A l \in LockIds : SameLock(w, b, l)
      /\ \A l \in LockIds \ UsersIn(w, p) : b.locks[l] = w.locks[l]
      /\ \A l \in UsersIn(w, p) : b.locks[l].lh = ZERO
  BY <1>2, ClosedFields
<1> HIDE DEF b, r
<1>4. /\ b.arcs[p].open = FALSE /\ b.cats[p] = <<>> /\ b.arcs[p].users = w.arcs[p].users
      /\ \A q \in Paths \ {p} : SamePicture(w, b, q)
  BY <1>2, <1>3 DEF Typed, ArcSet, SamePicture
<1>5. SoundBut(b, NoPath)
  <2>1. b.disk = w.disk /\ b.plan = w.plan /\ b.fault \in BOOLEAN
    BY <1>3 DEF Sound, SoundBut, SameFiles
  <2>2. ASSUME NEW q \in Paths PROVE PathSound(b, q, NoPath)
    <3>1. PathSound(w, q, NoPath) /\ <<>> \in Catalog
      BY DEF Sound, SoundBut, Catalog
    <3>2. q = p \/ SamePicture(w, b, q)
      BY <1>4
    <3> QED BY <1>4, <2>1, <3>1, <3>2 DEF PathSound, SamePicture
  <2>3. ASSUME NEW l \in LockIds PROVE LockSound(b, l, NoPath)
    <3>1. LockSound(w, l, NoPath) /\ SameLock(w, b, l)
      BY <1>3 DEF Sound, SoundBut
    <3>2. CASE l \in UsersIn(w, p)
      <4>1. w.locks[l].type \in {"ARCHIVE", "ENTRY"} /\ w.locks[l].path = p /\ b.locks[l].lh = ZERO
        BY <1>3, <3>2 DEF UsersIn, OnArc
      <4>2. \A n : LhLock(b, p, n) = ZERO
        BY <1>4 DEF LhLock
      <4> QED BY <3>1, <4>1, <4>2 DEF LockSound, SameLock, LhValues, ZERO
    <3>3. CASE l \notin UsersIn(w, p)
      <4>1. b.locks[l] = w.locks[l]
        BY <1>3, <3>3
      <4>2. CASE w.locks[l].type \in {"ARCHIVE", "ENTRY"}
        <5>1. w.locks[l].path \in Paths \ {p}
          BY <1>2, <3>3, <4>2 DEF Tidy, UsersIn, OnArc
        <5>2. \A n : LhLock(b, w.locks[l].path, n) = LhLock(w, w.locks[l].path, n)
          BY <1>4, <5>1 DEF SamePicture, LhLock
        <5> QED BY <2>1, <3>1, <4>1, <4>2, <5>2 DEF LockSound
      <4>3. CASE w.locks[l].type \notin {"ARCHIVE", "ENTRY"}
        BY <2>1, <3>1, <4>1, <4>3 DEF LockSound
      <4> QED BY <4>2, <4>3
    <3> QED BY <3>2, <3>3
  <2> QED BY <2>1, <2>2, <2>3 DEF Sound, SoundBut
<1>6. SoundBut(c, p) /\ Stored(b, c, p, e) /\ c.ok \in BOOLEAN
  BY <1>3, <1>5, AppendSound
<1>7. Same(b, c)
  BY <1>3, AppendSame
<1> HIDE DEF c
<1>8. /\ Typed(c) /\ Tidy(c) /\ c.arcs[p].users = UsersIn(c, p)
      /\ ~c.arcs[p].open => c.cats[p] = <<>>
  <2>1. UsersIn(c, p) = UsersIn(b, p)
    BY <1>7 DEF Same, UsersIn, OnArc
  <2> QED BY <1>2, <1>3, <1>4, <1>7, <2>1 DEF Same, Typed, Tidy, SameCounts
<1>9. Sound(d) /\ SameFiles(c, d) /\ Shape(d)
  BY <1>6, <1>8, RefreshSound
<1> HIDE DEF d
<1>10. r.disk = d.disk /\ Sound(r)
  <2> DEFINE f == Returns(d, FALSE)
  <2>1. /\ f.disk = d.disk /\ f.plan = d.plan /\ f.fault = d.fault
        /\ f.locks = d.locks /\ f.arcs = d.arcs /\ f.cats = d.cats
    BY <1>9 DEF Returns, Shape, Fields
  <2> HIDE DEF f
  <2>2. Sound(f)
    BY <1>9, <2>1, SoundAlike DEF Sound
  <2> QED BY <1>1, <1>9, <2>1, <2>2 DEF f
<1>11. Stored(w, r, p, e)
  BY <1>3, <1>6, <1>9, <1>10 DEF Stored, SameFiles
<1> QED BY <1>10, <1>11 DEF r

-----------------------------------------------------------------------------
(* Calls that return a lock leave the files alone.                         *)

Fine(w, u) == Settled(w, u) /\ Sound(w)

(* What a world between two calls is.                                      *)
LEMMA FineIs ==
    ASSUME NEW w, NEW u, Fine(w, u)
    PROVE  Sound(w) /\ Settled(w, u) /\ Good(w, NoPath, 0, 0, u) /\ Typed(w) /\ Tidy(w)
  BY DEF Fine, Settled, Good

(* Forgetting the lock returned.                                           *)
LEMMA NullSound ==
    ASSUME NEW w, Sound(w), Typed(w), Tidy(w)
    PROVE  Sound(Null(w)) /\ SameFiles(w, Null(w))
  BY BookSound DEF Sound

(* The files stay the same over two calls.                                 *)
LEMMA SameTwice ==
    ASSUME NEW a, NEW b, NEW c, SameFiles(a, b), SameFiles(b, c)
    PROVE  SameFiles(a, c)
  BY DEF SameFiles

(* A lock in an archive that is cached.                                    *)
LEMMA InArchiveSound ==
    ASSUME NEW w, NEW u \in Int, Fine(w, u), NEW p \in Paths, w.arcs[p].ref > 0,
           NEW n \in Names \cup {<<>>}
    PROVE  LET r == AllocInArchive(Retain(w, p), p, n) IN Sound(r) /\ SameFiles(w, r)
<1> DEFINE v == Retain(w, p)
<1> DEFINE r == AllocInArchive(v, p, n)
<1>1. Good(v, p, 1, 0, u)
  BY FineIs, RetainGood
<1>2. Sound(v) /\ SameFiles(w, v)
  BY FineIs, RetainSound DEF Sound
<1> HIDE DEF v
<1>3. Sound(r) /\ SameFiles(v, r)
  BY <1>1, <1>2, AllocInArchiveSound
<1> QED BY <1>2, <1>3, SameTwice DEF v

(* lhh_lock_dup is on the object of a lock that is there.                  *)
LEMMA DupSound ==
    ASSUME NEW w, NEW u \in Int, Fine(w, u), NEW l \in Live(w)
    PROVE  LET r == lhh_lock_dup(w, l) IN Sound(r) /\ SameFiles(w, r)
<1> DEFINE k == w.locks[l]
<1> DEFINE v == Called(w)
<1> DEFINE h == [v EXCEPT !.hostLocks = @ + 1]
<1> DEFINE r == lhh_lock_dup(w, l)
<1> SUFFICES Sound(r) /\ SameFiles(w, r)
  OBVIOUS
<1>1. /\ l \in LockIds /\ k.type \in LockTypes \ {"free"}
      /\ k.path \in Paths \cup {Volume, NoPath}
      /\ k.entry \in Names \cup {<<>>}
      /\ k.type = "REAL" => k.path \in Paths \cup {Volume}
      /\ k.type \in {"ARCHIVE", "ENTRY"} => k.path \in Paths /\ w.arcs[k.path].ref > 0
  BY FineIs, LiveTypes
<1>2. /\ k.type = "REAL" => r = IF Fails(w) THEN Null(v) ELSE AllocReal(h, k.path)
      /\ k.type \in {"ARCHIVE", "ENTRY"} =>
             r = AllocInArchive(Retain(w, k.path), k.path, k.entry)
      /\ k.type \notin {"REAL", "ARCHIVE", "ENTRY"} =>
             r = AllocPlain(w, k.type, k.path, k.entry)
  BY DEF lhh_lock_dup
<1>3. Undisturbed /\ k.type = "REAL" /\ k.path \in Paths => w.disk[k.path] = HostDir
  BY <1>1, FineIs DEF Sound, SoundBut, LockSound
<1> HIDE DEF k, r
<1>4. CASE k.type = "REAL"
  <2>1. Sound(v) /\ SameFiles(w, v) /\ Typed(v) /\ Tidy(v) /\ v.locks = w.locks
    BY FineIs, BookSound DEF Sound
  <2> HIDE DEF v
  <2>2. Sound(Null(v)) /\ SameFiles(v, Null(v))
    BY <2>1, NullSound
  <2>3. /\ h.disk = v.disk /\ h.plan = v.plan /\ h.fault = v.fault
        /\ h.locks = v.locks /\ h.arcs = v.arcs /\ h.cats = v.cats /\ Shape(h)
        /\ h.hostLocks = v.hostLocks + 1 /\ h.lockCnt = v.lockCnt /\ h.usageCnt = v.usageCnt
    BY <2>1 DEF Typed, Shape, Fields
  <2> HIDE DEF h
  <2>4. Sound(h) /\ Typed(h) /\ Tidy(h)
    BY <2>1, <2>3, SoundAlike DEF Sound, Typed, Tidy
  <2>5. Undisturbed /\ k.path \in Paths => h.disk[k.path] = HostDir
    BY <1>3, <1>4, <2>1, <2>3 DEF SameFiles
  <2> DEFINE z == AllocReal(h, k.path)
  <2>6. Sound(z) /\ SameFiles(h, z)
    BY <1>1, <1>4, <2>4, <2>5, AllocRealSound
  <2> HIDE DEF z
  <2>7. SameFiles(w, h)
    BY <2>1, <2>3 DEF SameFiles
  <2> QED BY <1>2, <1>4, <2>1, <2>2, <2>6, <2>7, SameTwice DEF z
<1>5. CASE k.type \in {"ARCHIVE", "ENTRY"}
  BY <1>1, <1>2, <1>5, InArchiveSound
<1>6. CASE k.type \notin {"REAL", "ARCHIVE", "ENTRY"}
  <2>1. k.type \in {"ROOT", "VINFO"}
    BY <1>1, <1>6 DEF LockTypes
  <2> DEFINE t == k.type
  <2> DEFINE o == k.path
  <2> DEFINE n == k.entry
  <2>2. /\ t \in {"ROOT", "VINFO"} /\ o \in Paths \cup {Volume, NoPath}
        /\ n \in Names \cup {<<>>} /\ r = AllocPlain(w, t, o, n)
    BY <1>1, <1>2, <1>6, <2>1
  <2> HIDE DEF t, o, n
  <2> QED BY <2>2, FineIs, AllocPlainSound
<1> QED BY <1>4, <1>5, <1>6

(* lhh_lock_real_path passes drawers through, and mounts every archive     *)
(* there is; only a call that fails makes a host file of one.              *)
LEMMA RealPathSound ==
    ASSUME NEW w, NEW u \in Int, Fine(w, u), NEW o \in Paths \cup {Volume}
    PROVE  LET r == lhh_lock_real_path(w, o) IN Sound(r) /\ SameFiles(w, r)
<1> DEFINE a == lhh_host_lock(w, o)
<1> DEFINE isFile == o \in Paths /\ a.disk[o] # HostDir
<1> DEFINE v == lhh_arc_obtain(a, o)
<1> DEFINE x == lhh_host_lock(v, o)
<1> DEFINE r == lhh_lock_real_path(w, o)
<1> SUFFICES Sound(r) /\ SameFiles(w, r)
  OBVIOUS
<1>1. r = IF ~a.ok THEN Null(a)
          ELSE IF ~isFile THEN AllocReal(a, o)
          ELSE IF v.ok THEN AllocInArchive(v, o, <<>>)
          ELSE IF x.ok THEN AllocReal(x, o) ELSE Null(x)
  BY DEF lhh_lock_real_path, Located, Mounted, PassThrough
<1>2. /\ Good(a, NoPath, 0, IF a.ok THEN 0 + 1 ELSE 0, u)
      /\ Typed(a) /\ Tidy(a) /\ a.ok \in BOOLEAN
  BY FineIs, HostLockGood DEF Good
<1>3. /\ Sound(a) /\ SameFiles(w, a)
      /\ a.ok /\ o \in Paths => w.disk[o] # Absent
  BY FineIs, HostLockSound DEF Sound
<1>4. (isFile => o \in Paths /\ a.disk[o] # HostDir) /\ (~isFile /\ o \in Paths => a.disk[o] = HostDir)
  OBVIOUS
<1> HIDE DEF a, r, isFile
<1>5. CASE ~a.ok
  BY <1>1, <1>2, <1>3, <1>5, NullSound, SameTwice
<1>6. CASE a.ok /\ ~isFile
  <2> DEFINE z == AllocReal(a, o)
  <2>1. Sound(z) /\ SameFiles(a, z)
    BY <1>2, <1>3, <1>4, <1>6, AllocRealSound
  <2> HIDE DEF z
  <2> QED BY <1>1, <1>3, <1>6, <2>1, SameTwice DEF z
<1>7. CASE a.ok /\ isFile
  <2>1. Good(a, o, 0, 1, u) /\ o \in Paths
    BY <1>2, <1>4, <1>7, NoneInTransit
  <2>2. Good(v, o, IF v.ok THEN 1 ELSE 0, 1 - 1, u) /\ v.ok \in BOOLEAN
    BY <2>1, ObtainGood
  <2>3. /\ Sound(v) /\ SameFiles(a, v)
        /\ Undisturbed /\ a.disk[o] \notin {Absent, HostDir} => v.ok
    BY <1>3, <2>1, ObtainSound DEF Sound
  <2> HIDE DEF v
  <2>4. Undisturbed => v.ok
    BY <1>3, <1>4, <1>7, <2>1, <2>3 DEF SameFiles
  <2>5. CASE v.ok
    <3>1. Good(v, o, 1, 0, u)
      BY <2>2, <2>5
    <3> DEFINE z == AllocInArchive(v, o, <<>>)
    <3>2. Sound(z) /\ SameFiles(v, z)
      BY <2>1, <2>3, <3>1, AllocInArchiveSound
    <3>3. r = z
      BY <1>1, <1>7, <2>5
    <3> HIDE DEF z
    <3> QED BY <1>3, <2>3, <3>2, <3>3, SameTwice
  <2>6. CASE ~v.ok
    <3>1. Good(v, NoPath, 0, 0, u) /\ Typed(v) /\ Tidy(v)
      BY <2>2, <2>6, NoneInTransit DEF Good
    <3>2. Good(x, NoPath, 0, IF x.ok THEN 0 + 1 ELSE 0, u) /\ Typed(x) /\ Tidy(x)
      BY <3>1, HostLockGood DEF Good
    <3>3. Sound(x) /\ SameFiles(v, x)
      BY <2>3, <3>1, HostLockSound DEF Sound
    <3>4. SameFiles(w, x)
      BY <1>3, <2>3, <3>3, SameTwice
    <3> HIDE DEF x
    <3> DEFINE z == AllocReal(x, o)
    <3>5. Sound(z) /\ SameFiles(x, z)
      BY <2>4, <2>6, <3>2, <3>3, AllocRealSound
    <3> HIDE DEF z
    <3>6. Sound(Null(x)) /\ SameFiles(x, Null(x))
      BY <3>2, <3>3, NullSound
    <3>7. r = z \/ r = Null(x)
      BY <1>1, <1>7, <2>6 DEF z
    <3> QED BY <3>4, <3>5, <3>6, <3>7, SameTwice
  <2> QED BY <2>5, <2>6
<1> QED BY <1>5, <1>6, <1>7

(* The icon of a host object: the companion is freed again.                *)
LEMMA HostIconSound ==
    ASSUME NEW w, NEW u \in Int, Fine(w, u), NEW o \in Paths \cup {Volume, NoPath}
    PROVE  LET r == HostIcon(w, o) IN Sound(r) /\ SameFiles(w, r)
<1> DEFINE v == lhh_lock_real_path(w, o)
<1> DEFINE x == lhh_lock_free(v, v.got)
<1> DEFINE i == AllocPlain(x, "VINFO", o, <<>>)
<1> DEFINE r == HostIcon(w, o)
<1> SUFFICES Sound(r) /\ SameFiles(w, r)
  OBVIOUS
<1>1. \/ o = NoPath /\ r = AllocPlain(w, "VINFO", o, <<>>)
      \/ o # NoPath /\ v.got = NoLock /\ r = v
      \/ o # NoPath /\ v.got # NoLock /\ (r = i \/ r = Null(x))
  BY DEF HostIcon, IconOf
<1> HIDE DEF r
<1>2. CASE o = NoPath
  <2> DEFINE y == AllocPlain(w, "VINFO", o, <<>>)
  <2>1. Sound(y) /\ SameFiles(w, y)
    BY FineIs, AllocPlainSound
  <2> QED BY <1>1, <1>2, <2>1
<1>3. CASE o # NoPath
  <2>1. Settled(v, u) /\ Grants(w, v) /\ Sound(v) /\ SameFiles(w, v)
    BY <1>3, FineIs, RealPathSettled, RealPathSound
  <2> HIDE DEF v
  <2>2. CASE v.got = NoLock
    BY <1>1, <1>3, <2>1, <2>2
  <2>3. CASE v.got # NoLock
    <3>1. v.got \in Live(v)
      BY <2>1, <2>3, GotLive
    <3>2. Settled(x, u) /\ Typed(x) /\ Tidy(x)
      BY <2>1, <3>1, FreeSettled DEF Settled, Good
    <3>3. Sound(x) /\ SameFiles(v, x)
      BY <2>1, <3>1, FreeSound DEF Settled
    <3> HIDE DEF x
    <3>4. Sound(i) /\ SameFiles(x, i)
      BY <3>2, <3>3, AllocPlainSound
    <3>5. Sound(Null(x)) /\ SameFiles(x, Null(x))
      BY <3>2, <3>3, NullSound
    <3>6. SameFiles(w, x)
      BY <2>1, <3>3, SameTwice
    <3> HIDE DEF i
    <3> QED BY <1>1, <1>3, <2>3, <3>4, <3>5, <3>6, SameTwice
  <2> QED BY <2>2, <2>3
<1> QED BY <1>2, <1>3

(* A drawer icon has no row.                                               *)
LEMMA MissingInfoSound ==
    ASSUME NEW w, NEW u \in Int, Fine(w, u), NEW p \in Paths, NEW n \in Names, IsIcon(n)
    PROVE  LET r == lhh_arc_missing_info_lock(w, p, n) IN Sound(r) /\ SameFiles(w, r)
<1> DEFINE y == AllocPlain(w, "VINFO", p, IconBase[n])
<1> DEFINE r == lhh_arc_missing_info_lock(w, p, n)
<1>1. r = y \/ r = Null(w)
  BY DEF lhh_arc_missing_info_lock
<1>2. IconBase[n] \in Names
  BY IconAssumption DEF IsIcon
<1>3. Sound(y) /\ SameFiles(w, y)
  BY <1>2, FineIs, AllocPlainSound
<1>4. Sound(Null(w)) /\ SameFiles(w, Null(w))
  BY FineIs, NullSound
<1> HIDE DEF y, r
<1>5. Sound(r) /\ SameFiles(w, r)
  BY <1>1, <1>3, <1>4
<1> QED BY <1>5 DEF r

(* A name relative to a lock inside an archive.                            *)
LEMMA LocateInsideSound ==
    ASSUME NEW w, NEW u \in Int, Fine(w, u), NEW p \in Paths, w.arcs[p].ref > 0, NEW n \in Names
    PROVE  LET r == LocateInside(w, p, n) IN Sound(r) /\ SameFiles(w, r)
<1> DEFINE y == AllocInArchive(Retain(w, p), p, n)
<1> DEFINE z == lhh_arc_missing_info_lock(w, p, n)
<1> DEFINE r == LocateInside(w, p, n)
<1>1. r = y \/ (IsIcon(n) /\ r = z)
  BY DEF LocateInside
<1>2. Sound(y) /\ SameFiles(w, y)
  BY InArchiveSound
<1>3. IsIcon(n) => Sound(z) /\ SameFiles(w, z)
  BY MissingInfoSound
<1> HIDE DEF y, z, r
<1>4. Sound(r) /\ SameFiles(w, r)
  BY <1>1, <1>2, <1>3
<1> QED BY <1>4 DEF r

(* The walk into an archive frees the lock on it before or after the new   *)
(* one is there.                                                           *)
LEMMA LocateRestSound ==
    ASSUME NEW w, NEW u \in Int, Fine(w, u), NEW l \in Live(w),
           w.locks[l].type = "ARCHIVE", NEW n \in Names
    PROVE  LET r == LocateRest(w, l, n) IN Sound(r) /\ SameFiles(w, r)
<1> DEFINE p == w.locks[l].path
<1> DEFINE v == lhh_lock_free(w, l)
<1> DEFINE fr == [v EXCEPT !.fault = TRUE]
<1> DEFINE freed == Called(fr)
<1> DEFINE a == Retain(w, p)
<1> DEFINE b == lhh_lock_free(a, l)
<1> DEFINE y == AllocInArchive(b, p, n)
<1> DEFINE m == lhh_arc_missing_info_lock(v, p, n)
<1> DEFINE i == AllocPlain(freed, "VINFO", p, IconBase[n])
<1> DEFINE r == LocateRest(w, l, n)
<1> SUFFICES Sound(r) /\ SameFiles(w, r)
  OBVIOUS
<1>1. \/ r = y
      \/ IsIcon(n) /\ r \in {m, i, Null(freed)}
  BY DEF LocateRest, IconAfterFree
<1>2. p \in Paths /\ w.arcs[p].ref > 0
  BY FineIs, LiveTypes
<1>3. Settled(v, u) /\ Typed(v) /\ Tidy(v)
  BY FineIs, FreeSettled DEF Settled, Good
<1>4. Sound(v) /\ SameFiles(w, v)
  BY FineIs, FreeSound
<1> HIDE DEF v, r
<1>5. CASE r = y
  <2>1. Good(a, p, 1, 0, u) /\ a.locks = w.locks
    BY <1>2, FineIs, RetainGood
  <2>2. Sound(a) /\ SameFiles(w, a)
    BY <1>2, FineIs, RetainSound DEF Sound
  <2>3. p = a.locks[l].path
    BY <2>1
  <2> HIDE DEF a, p
  <2>4. l \in Live(a)
    BY <2>1 DEF Live
  <2>5. Good(b, p, 1, 0, u)
    BY <2>1, <2>3, <2>4, FreeGood
  <2>6. Sound(b) /\ SameFiles(a, b)
    BY <2>1, <2>2, <2>3, <2>4, FreeSound
  <2> HIDE DEF b
  <2>7. Sound(y) /\ SameFiles(b, y)
    BY <1>2, <2>5, <2>6, AllocInArchiveSound
  <2> HIDE DEF y
  <2> QED BY <1>5, <2>2, <2>6, <2>7, SameTwice
<1>6. CASE IsIcon(n) /\ r = m
  <2> HIDE DEF p
  <2>1. Sound(m) /\ SameFiles(v, m)
    BY <1>2, <1>3, <1>4, <1>6, MissingInfoSound DEF Fine
  <2> HIDE DEF m
  <2> QED BY <1>4, <1>6, <2>1, SameTwice
<1>7. CASE IsIcon(n) /\ r \in {i, Null(freed)}
  <2> HIDE DEF p
  <2>1. /\ fr.disk = v.disk /\ fr.plan = v.plan /\ fr.fault = TRUE
        /\ fr.locks = v.locks /\ fr.arcs = v.arcs /\ fr.cats = v.cats /\ Shape(fr)
        /\ SameCounts(v, fr)
    BY <1>3 DEF Typed, Shape, Fields, SameCounts
  <2> HIDE DEF fr
  <2>2. Typed(fr) /\ Tidy(fr)
    BY <1>3, <2>1 DEF Typed, Tidy, SameCounts
  <2>3. \A q \in Paths : SamePicture(v, fr, q)
    BY <2>1 DEF SamePicture
  <2>4. Sound(fr) /\ SameFiles(v, fr)
    BY <1>3, <1>4, <2>1, <2>3, SoundSame DEF Sound, SameFiles
  <2>5. Sound(freed) /\ SameFiles(fr, freed) /\ Typed(freed) /\ Tidy(freed)
    BY <2>2, <2>4, BookSound DEF Sound
  <2> HIDE DEF freed
  <2>6. IconBase[n] \in Names
    BY <1>7, IconAssumption DEF IsIcon
  <2>7. Sound(i) /\ SameFiles(freed, i)
    BY <1>2, <2>5, <2>6, AllocPlainSound
  <2> HIDE DEF i
  <2>8. Sound(Null(freed)) /\ SameFiles(freed, Null(freed))
    BY <2>5, NullSound
  <2>9. SameFiles(w, freed)
    BY <1>4, <2>4, <2>5, SameTwice
  <2> QED BY <1>7, <2>7, <2>8, <2>9, SameTwice
<1> QED BY <1>1, <1>5, <1>6, <1>7

(* One component of a host path.                                           *)
LEMMA ComponentSound ==
    ASSUME NEW w, NEW u \in Int, Fine(w, u), NEW name, IsName(name)
    PROVE  LET r == Component(w, name) IN Sound(r) /\ SameFiles(w, r)
<1> DEFINE o == name.path
<1> DEFINE r == Component(w, name)
<1>1. o \in Paths \cup {Volume, NoPath} /\ (name.icon \/ o \in Paths \cup {Volume})
  BY DEF IsName
<1>2. r = IF name.icon THEN HostIcon(w, o) ELSE lhh_lock_real_path(w, o)
  BY DEF Component
<1> HIDE DEF o, r
<1>3. Sound(r) /\ SameFiles(w, r)
  BY <1>1, <1>2, HostIconSound, RealPathSound
<1> QED BY <1>3 DEF r

(* The lock behind the walk is freed.                                      *)
LEMMA FreeBehindSound ==
    ASSUME NEW c, NEW u \in Int, Fine(c, u), NEW l \in Live(c)
    PROVE  LET r == FreeBehind(c, l) IN Sound(r) /\ SameFiles(c, r)
<1> DEFINE f == lhh_lock_free(c, l)
<1> DEFINE r == FreeBehind(c, l)
<1>1. r = [f EXCEPT !.got = c.got]
  BY DEF FreeBehind
<1>2. Typed(f) /\ Sound(f) /\ SameFiles(c, f)
  BY FineIs, FreeSettled, FreeSound DEF Settled, Good
<1> HIDE DEF f, r
<1>3. /\ r.disk = f.disk /\ r.plan = f.plan /\ r.fault = f.fault
      /\ r.locks = f.locks /\ r.arcs = f.arcs /\ r.cats = f.cats
  BY <1>1, <1>2 DEF Typed, Shape, Fields
<1>4. Sound(r)
  BY <1>2, <1>3, SoundAlike DEF Sound
<1> QED BY <1>2, <1>3, <1>4 DEF SameFiles, r

(* The rest of a path.                                                     *)
LEMMA RestSound ==
    ASSUME NEW w, NEW u \in Int, Fine(w, u), w.got = NoLock \/ w.got \in Live(w),
           NEW n \in Names \cup {<<>>}
    PROVE  LET r == Rest(w, n) IN Sound(r) /\ SameFiles(w, r)
<1> DEFINE y == LocateRest(w, w.got, n)
<1> DEFINE f == lhh_lock_free(w, w.got)
<1> DEFINE r == Rest(w, n)
<1> SUFFICES Sound(r) /\ SameFiles(w, r)
  OBVIOUS
<1>1. r = IF n = <<>> \/ w.got = NoLock THEN w
          ELSE IF w.locks[w.got].type = "ARCHIVE" THEN y ELSE Null(f)
  BY DEF Rest
<1> HIDE DEF r
<1>2. CASE r = w
  BY <1>2, FineIs DEF SameFiles
<1>3. CASE n \in Names /\ w.got \in Live(w) /\ w.locks[w.got].type = "ARCHIVE" /\ r = y
  <2>1. Sound(y) /\ SameFiles(w, y)
    BY <1>3, LocateRestSound
  <2> HIDE DEF y
  <2> QED BY <1>3, <2>1
<1>4. CASE w.got \in Live(w) /\ r = Null(f)
  <2>1. Typed(f) /\ Tidy(f) /\ Sound(f) /\ SameFiles(w, f)
    BY <1>4, FineIs, FreeSettled, FreeSound DEF Settled, Good
  <2> HIDE DEF f
  <2>2. Sound(Null(f)) /\ SameFiles(f, Null(f))
    BY <2>1, NullSound
  <2> QED BY <1>4, <2>1, <2>2, SameTwice
<1> QED BY <1>1, <1>2, <1>3, <1>4

(* A walk from the root.                                                   *)
LEMMA WalkSound ==
    ASSUME NEW w, NEW u \in Int, Fine(w, u), NEW name, IsName(name)
    PROVE  LET r == WalkFromRoot(w, name) IN Sound(r) /\ SameFiles(w, r)
<1> DEFINE v == lhh_lock_real_path(w, Volume)
<1> DEFINE c == Component(v, name)
<1> DEFINE b == FreeBehind(c, v.got)
<1> DEFINE e == Rest(b, name.entry)
<1> DEFINE d == Component(w, name)
<1> DEFINE r == WalkFromRoot(w, name)
<1> SUFFICES Sound(r) /\ SameFiles(w, r)
  OBVIOUS
<1>1. r \in {d, v} \/ (v.got # NoLock /\ r = e)
  BY DEF WalkFromRoot, WalkFromVolume
<1>2. Sound(d) /\ SameFiles(w, d)
  BY ComponentSound
<1>3. Settled(v, u) /\ Grants(w, v) /\ Sound(v) /\ SameFiles(w, v)
  BY FineIs, RealPathSettled, RealPathSound
<1> HIDE DEF v, d, r
<1>4. CASE v.got # NoLock /\ r = e
  <2>1. Settled(c, u) /\ Grants(v, c) /\ Sound(c) /\ SameFiles(v, c)
    BY <1>3, ComponentSettled, ComponentSound DEF Fine
  <2> HIDE DEF c
  <2>2. v.got \in Live(c)
    BY <1>3, <1>4, <2>1, GotLive DEF Grants
  <2>3. Settled(b, u) /\ Grants(w, b)
    BY <1>3, <1>4, <2>1, FreeBehindSettled
  <2>4. Sound(b) /\ SameFiles(c, b)
    BY <2>1, <2>2, FreeBehindSound DEF Fine
  <2> HIDE DEF b
  <2>5. name.entry \in Names \cup {<<>>} /\ (b.got = NoLock \/ b.got \in Live(b))
    BY <2>3, GotLive DEF IsName
  <2>6. Sound(e) /\ SameFiles(b, e)
    BY <2>3, <2>4, <2>5, RestSound DEF Fine
  <2> HIDE DEF e
  <2> QED BY <1>3, <1>4, <2>1, <2>4, <2>6, SameTwice
<1> QED BY <1>1, <1>2, <1>3, <1>4

(* lhh_lock_resolve leaves the files alone, and every lock and picture as  *)
(* sound as it was.                                                        *)
LEMMA ResolveSound ==
    ASSUME NEW w, NEW u \in Int, Fine(w, u), NEW l \in Live(w) \cup {NoLock},
           NEW name, NameFor(w, l, name)
    PROVE  LET r == lhh_lock_resolve(w, l, name) IN Sound(r) /\ SameFiles(w, r)
<1> DEFINE type == IF l = NoLock THEN "ROOT" ELSE w.locks[l].type
<1> DEFINE a == AllocPlain(w, "ROOT", NoPath, <<>>)
<1> DEFINE b == WalkFromRoot(w, name)
<1> DEFINE c == lhh_lock_dup(w, l)
<1> DEFINE d == LocateInside(w, name.path, name.entry)
<1> DEFINE v == Component(w, name)
<1> DEFINE e == Rest(v, name.entry)
<1> DEFINE r == lhh_lock_resolve(w, l, name)
<1> SUFFICES Sound(r) /\ SameFiles(w, r)
  OBVIOUS
<1>1. /\ type = "ROOT" /\ name = Self => r = a
      /\ type = "ROOT" /\ name # Self => r = b
      /\ type # "ROOT" /\ name = Self => r = c
      /\ type \in {"ARCHIVE", "ENTRY"} /\ name # Self => r = d
      /\ type \notin {"ROOT", "ARCHIVE", "ENTRY"} /\ name # Self => r = e
  BY DEF lhh_lock_resolve
<1>2. type # "ROOT" => l \in Live(w) /\ l # NoLock /\ w.locks[l].type = type
  OBVIOUS
<1>3. /\ name # Self => IsName(name)
      /\ type \in {"ARCHIVE", "ENTRY"} /\ name # Self =>
             name.path = w.locks[l].path /\ name.entry \in Names
  BY DEF NameFor
<1> HIDE DEF type, r
<1>4. CASE type = "ROOT" /\ name = Self
  <2>1. Sound(a) /\ SameFiles(w, a)
    BY FineIs, AllocPlainSound
  <2> HIDE DEF a
  <2> QED BY <1>1, <1>4, <2>1
<1>5. CASE type = "ROOT" /\ name # Self
  <2>1. Sound(b) /\ SameFiles(w, b)
    BY <1>3, <1>5, WalkSound
  <2> HIDE DEF b
  <2> QED BY <1>1, <1>5, <2>1
<1>6. CASE type # "ROOT" /\ name = Self
  <2>1. Sound(c) /\ SameFiles(w, c)
    BY <1>2, <1>6, DupSound
  <2> HIDE DEF c
  <2> QED BY <1>1, <1>6, <2>1
<1>7. CASE type \in {"ARCHIVE", "ENTRY"} /\ name # Self
  <2> DEFINE p == name.path
  <2> DEFINE n == name.entry
  <2>1. p \in Paths /\ w.arcs[p].ref > 0 /\ n \in Names /\ d = LocateInside(w, p, n)
    BY <1>2, <1>3, <1>7, FineIs, LiveTypes
  <2> HIDE DEF p, n, d
  <2>2. Sound(d) /\ SameFiles(w, d)
    BY <2>1, LocateInsideSound
  <2> QED BY <1>1, <1>7, <2>2
<1>8. CASE type \notin {"ROOT", "ARCHIVE", "ENTRY"} /\ name # Self
  <2>1. /\ Settled(v, u) /\ Grants(w, v) /\ name.entry \in Names \cup {<<>>}
        /\ Sound(v) /\ SameFiles(w, v)
    BY <1>3, <1>8, FineIs, ComponentSettled, ComponentSound DEF IsName
  <2> HIDE DEF v
  <2>2. v.got = NoLock \/ v.got \in Live(v)
    BY <2>1, GotLive
  <2>3. Sound(e) /\ SameFiles(v, e)
    BY <2>1, <2>2, RestSound DEF Fine
  <2> HIDE DEF e
  <2> QED BY <1>1, <1>8, <2>1, <2>3, SameTwice
<1> QED BY <1>4, <1>5, <1>6, <1>7, <1>8

(* lhh_lock_parent likewise.                                               *)
LEMMA ParentSound ==
    ASSUME NEW w, NEW u \in Int, Fine(w, u), NEW l \in Live(w)
    PROVE  LET r == lhh_lock_parent(w, l) IN Sound(r) /\ SameFiles(w, r)
<1> DEFINE k == w.locks[l]
<1> DEFINE up == SubSeq(k.entry, 1, Len(k.entry) - 1)
<1> DEFINE v == lhh_host_lock(w, Volume)
<1> DEFINE a == AllocPlain(w, "ROOT", NoPath, <<>>)
<1> DEFINE e == AllocInArchive(Retain(w, k.path), k.path, up)
<1> DEFINE name == EntryName(k.path, k.entry)
<1> DEFINE b == WalkFromRoot(w, name)
<1> DEFINE c == WalkFromRoot(w, HostName(Volume))
<1> DEFINE r == lhh_lock_parent(w, l)
<1> SUFFICES Sound(r) /\ SameFiles(w, r)
  OBVIOUS
<1>1. \/ r \in {a, c, Null(w)}
      \/ r = IF v.ok THEN AllocReal(v, Volume) ELSE Null(v)
      \/ k.path # NoPath /\ r = b
      \/ k.type = "ENTRY" /\ r = e
  BY DEF lhh_lock_parent, PassThrough
<1>2. /\ k.path \in Paths \cup {Volume, NoPath}
      /\ k.entry \in Names \cup {<<>>}
      /\ k.type = "ENTRY" => k.path \in Paths /\ w.arcs[k.path].ref > 0
  BY FineIs, LiveTypes
<1> HIDE DEF k, r
<1>3. CASE r \in {a, c, Null(w)}
  <2>1. Sound(a) /\ SameFiles(w, a)
    BY FineIs, AllocPlainSound
  <2>2. IsName(HostName(Volume))
    BY PathsAssumption DEF IsName, HostName
  <2>3. Sound(c) /\ SameFiles(w, c)
    BY <2>2, WalkSound
  <2>4. Sound(Null(w)) /\ SameFiles(w, Null(w))
    BY FineIs, NullSound
  <2> HIDE DEF a, c
  <2> QED BY <1>3, <2>1, <2>3, <2>4
<1>4. CASE r = IF v.ok THEN AllocReal(v, Volume) ELSE Null(v)
  <2>1. Typed(v) /\ Tidy(v)
    <3>1. Good(v, NoPath, 0, IF v.ok THEN 0 + 1 ELSE 0, u)
      BY FineIs, HostLockGood
    <3> QED BY <3>1 DEF Good
  <2>2. Sound(v) /\ SameFiles(w, v)
    BY FineIs, HostLockSound DEF Sound
  <2> HIDE DEF v
  <2> DEFINE z == AllocReal(v, Volume)
  <2>3. Sound(z) /\ SameFiles(v, z)
    BY <2>1, <2>2, PathsAssumption, AllocRealSound
  <2> HIDE DEF z
  <2>4. Sound(Null(v)) /\ SameFiles(v, Null(v))
    BY <2>1, <2>2, NullSound
  <2>5. r = z \/ r = Null(v)
    BY <1>4 DEF z
  <2> QED BY <2>2, <2>3, <2>4, <2>5, SameTwice
<1>5. CASE k.path # NoPath /\ r = b
  <2>1. IsName(name)
    BY <1>2, <1>5 DEF IsName, EntryName
  <2> HIDE DEF name
  <2>2. Sound(b) /\ SameFiles(w, b)
    BY <2>1, WalkSound
  <2> HIDE DEF b
  <2> QED BY <1>5, <2>2
<1>6. CASE k.type = "ENTRY" /\ r = e
  <2> DEFINE p == k.path
  <2>1. up \in Names \cup {<<>>}
    <3>1. CASE k.entry \in Names
      BY <3>1, NamesAssumption
    <3>2. CASE k.entry = <<>>
      BY <3>2
    <3> QED BY <1>2, <3>1, <3>2
  <2> HIDE DEF up
  <2>2. p \in Paths /\ w.arcs[p].ref > 0 /\ e = AllocInArchive(Retain(w, p), p, up)
    BY <1>2, <1>6
  <2> HIDE DEF p, e
  <2>3. Sound(e) /\ SameFiles(w, e)
    BY <2>1, <2>2, InArchiveSound
  <2> QED BY <1>6, <2>3
<1> QED BY <1>1, <1>3, <1>4, <1>5, <1>6

(* Two levels up.                                                          *)
LEMMA GrandparentSound ==
    ASSUME NEW w, NEW u \in Int, Fine(w, u), NEW l \in Live(w)
    PROVE  LET r == Grandparent(w, l) IN Sound(r) /\ SameFiles(w, r)
<1> DEFINE v == lhh_lock_parent(w, l)
<1> DEFINE c == lhh_lock_parent(v, v.got)
<1> DEFINE b == FreeBehind(c, v.got)
<1> DEFINE r == Grandparent(w, l)
<1> SUFFICES Sound(r) /\ SameFiles(w, r)
  OBVIOUS
<1>1. r = IF v.got = NoLock THEN v ELSE b
  BY DEF Grandparent, ParentOf
<1>2. Settled(v, u) /\ Grants(w, v) /\ Sound(v) /\ SameFiles(w, v)
  BY FineIs, ParentSettled, ParentSound
<1> HIDE DEF v, r
<1>3. CASE v.got = NoLock
  BY <1>1, <1>2, <1>3
<1>4. CASE v.got # NoLock
  <2>1. v.got \in Live(v)
    BY <1>2, <1>4, GotLive
  <2>2. Settled(c, u) /\ Grants(v, c) /\ Sound(c) /\ SameFiles(v, c)
    BY <1>2, <2>1, ParentSettled, ParentSound DEF Fine
  <2> HIDE DEF c
  <2>3. v.got \in Live(c)
    BY <2>1, <2>2 DEF Grants
  <2>4. Sound(b) /\ SameFiles(c, b)
    BY <2>2, <2>3, FreeBehindSound DEF Fine
  <2> HIDE DEF b
  <2> QED BY <1>1, <1>2, <1>4, <2>2, <2>4, SameTwice
<1> QED BY <1>3, <1>4

-----------------------------------------------------------------------------
(* File handles write through the calls above.                             *)

(* The entry a write handle creates has a name.                            *)
WriteFits(hh) == hh.kind = "write" => hh.entry \in Names

(* Counting a handle.                                                      *)
LEMMA UsageSound ==
    ASSUME NEW w, Sound(w), Typed(w), NEW c
    PROVE  LET r == [w EXCEPT !.usageCnt = c] IN Sound(r) /\ SameFiles(w, r)
<1> DEFINE r == [w EXCEPT !.usageCnt = c]
<1>1. /\ r.disk = w.disk /\ r.plan = w.plan /\ r.fault = w.fault
      /\ r.locks = w.locks /\ r.arcs = w.arcs /\ r.cats = w.cats
  BY DEF Typed, Shape, Fields
<1> HIDE DEF r
<1>2. Sound(r)
  BY <1>1, SoundAlike DEF Sound
<1> QED BY <1>1, <1>2 DEF SameFiles, r

(* A new handle changes no file.                                           *)
LEMMA OpenedSound ==
    ASSUME NEW w, Sound(w), Typed(w), NEW kind, NEW l, NEW n
    PROVE  LET o == Opened(w, kind, l, n) IN
           Sound(o.w) /\ o.hh.kind = kind /\ o.hh.entry = n
<1> DEFINE c == w.usageCnt + 1
<1> DEFINE r == [w EXCEPT !.usageCnt = c]
<1> DEFINE o == Opened(w, kind, l, n)
<1>1. o.w = r /\ o.hh.kind = kind /\ o.hh.entry = n
  BY DEF Opened
<1>2. Sound(r)
  BY UsageSound
<1> HIDE DEF r, o
<1>3. Sound(o.w) /\ o.hh.kind = kind /\ o.hh.entry = n
  BY <1>1, <1>2
<1> QED BY <1>3 DEF o

(* Opening truncates an entry, and a host file only when a call has failed *)
(* before.                                                                 *)
LEMMA OpenLockSound ==
    ASSUME NEW w, NEW u \in Int, Fine(w, u), NEW l \in Live(w), NEW mode,
           NEW stolen \in BOOLEAN
    PROVE  LET o == OpenLock(w, l, mode, stolen) IN Sound(o.w) /\ WriteFits(o.hh)
<1> DEFINE k == w.locks[l]
<1> DEFINE v == Called(w)
<1> DEFINE x == Called(v)
<1> DEFINE xf == [x EXCEPT !.fault = TRUE]
<1> DEFINE xd == [x EXCEPT !.disk[k.path] = EmptyArchive]
<1> DEFINE F(y) == NotOpened(IF stolen THEN y ELSE lhh_lock_free(y, l))
<1> DEFINE a == lh_arc_delete_entry(v, k.path, k.entry)
<1> DEFINE d == lhh_arc_refresh(a, k.path)
<1> DEFINE z == lhh_lock_free(v, l)
<1> DEFINE o == OpenLock(w, l, mode, stolen)
<1> DEFINE Goal == Sound(o.w) /\ WriteFits(o.hh)
<1> SUFFICES Goal
  OBVIOUS
<1>1. \/ \E y \in {v, x, xf} : o = F(y)
      \/ o = Opened(z, "mem", NoLock, <<>>)
      \/ k.type = "REAL" /\ o = Opened(x, "host", l, <<>>)
      \/ /\ k.type = "REAL" /\ k.path \in Paths /\ w.disk[k.path] # HostDir
         /\ o = Opened(xd, "host", l, <<>>)
      \/ k.type = "ENTRY" /\ o = Opened(d, "write", l, k.entry)
      \/ k.type = "ENTRY" /\ o = Opened(x, "image", l, <<>>)
  BY DEF OpenLock
<1>2. /\ l \in LockIds
      /\ k.type = "ENTRY" => k.path \in Paths /\ w.arcs[k.path].ref > 0
  BY FineIs, LiveTypes
<1>3. /\ k.type = "ENTRY" => k.entry \in Names
      /\ Undisturbed /\ k.type = "REAL" /\ k.path \in Paths => w.disk[k.path] = HostDir
  BY <1>2, FineIs DEF Sound, SoundBut, LockSound
<1>4. Sound(v) /\ SameFiles(w, v) /\ v.locks = w.locks /\ v.arcs = w.arcs /\ Settled(v, u)
  <2>1. Settled(v, u)
    BY FineIs, CalledGood DEF Settled
  <2> QED BY <2>1, FineIs, BookSound DEF Sound
<1>5. l \in Live(v) /\ Typed(v) /\ Tidy(v)
  BY <1>2, <1>4 DEF Live, Settled, Good
<1> HIDE DEF v
<1>6. Sound(x) /\ SameFiles(v, x) /\ x.locks = v.locks /\ x.arcs = v.arcs /\ Settled(x, u)
  <2>1. Settled(x, u)
    BY <1>4, CalledGood DEF Settled
  <2> QED BY <1>4, <1>5, <2>1, BookSound DEF Sound
<1>7. l \in Live(x) /\ Typed(x) /\ Tidy(x)
  BY <1>4, <1>5, <1>6 DEF Live, Settled, Good
<1> HIDE DEF x, k, o
<1>8. Sound(xf) /\ Settled(xf, u) /\ l \in Live(xf)
  <2>1. /\ Same(x, xf) /\ xf.disk = x.disk /\ xf.plan = x.plan /\ xf.fault = TRUE
    BY <1>7 DEF Typed, Same, Shape, Fields, SameCounts
  <2> HIDE DEF xf
  <2>2. Settled(xf, u) /\ l \in Live(xf)
    BY <1>6, <1>7, <2>1, SameGood DEF Settled, Same, Live
  <2>3. \A q \in Paths : SamePicture(x, xf, q)
    BY <2>1 DEF SamePicture, Same
  <2>4. Sound(xf)
    BY <1>6, <1>7, <2>1, <2>3, SoundSame DEF Sound, SameFiles, Same
  <2> QED BY <2>2, <2>4
<1> HIDE DEF xf
<1>9. ASSUME NEW y \in {v, x, xf}, o = F(y) PROVE Goal
  <2>1. Settled(y, u) /\ l \in Live(y) /\ Sound(y)
    BY <1>4, <1>5, <1>6, <1>7, <1>8
  <2> DEFINE f == lhh_lock_free(y, l)
  <2>2. Sound(f)
    BY <2>1, FreeSound DEF Settled
  <2>3. o.w = (IF stolen THEN y ELSE f) /\ o.hh = FreeHandle
    BY <1>9 DEF NotOpened
  <2> HIDE DEF f
  <2> QED BY <2>1, <2>2, <2>3 DEF WriteFits, FreeHandle
<1>10. ASSUME NEW y, Sound(y), Typed(y), NEW t, NEW n, NEW i,
              t = "write" => n \in Names, o = Opened(y, t, i, n)
       PROVE  Goal
  BY <1>10, OpenedSound DEF WriteFits
<1>11. ASSUME o = Opened(z, "mem", NoLock, <<>>) PROVE Goal
  <2>1. Sound(z) /\ Typed(z)
    BY <1>4, <1>5, FreeSettled, FreeSound DEF Settled, Good
  <2> HIDE DEF z, Goal
  <2> QED BY <1>10, <1>11, <2>1
<1>12. ASSUME k.type = "REAL", k.path \in Paths, w.disk[k.path] # HostDir,
              o = Opened(xd, "host", l, <<>>)
       PROVE  Goal
  <2>1. ~Undisturbed
    BY <1>3, <1>12
  <2> DEFINE p == k.path
  <2>2. /\ xd.disk = [x.disk EXCEPT ![p] = EmptyArchive]
        /\ xd.cats = x.cats /\ xd.plan = x.plan /\ xd.fault = x.fault
        /\ xd.locks = x.locks /\ xd.arcs = x.arcs /\ Shape(xd) /\ SameCounts(x, xd)
    BY <1>7 DEF Typed, Shape, Fields, SameCounts
  <2>3. p \in Paths
    BY <1>12
  <2> HIDE DEF xd, p
  <2>4. x.cats = [x.cats EXCEPT ![p] = x.cats[p]] /\ x.cats[p] \in Catalog
    BY <1>6, <1>7, <2>3 DEF Typed, Sound, SoundBut, PathSound
  <2>5. SoundBut(xd, NoPath)
    <3>1. xd.cats = [x.cats EXCEPT ![p] = x.cats[p]]
      BY <2>2, <2>4
    <3>2. FileSound(EmptyArchive)
      BY FilesSound
    <3>3. SoundBut(x, NoPath)
      BY <1>6 DEF Sound
    <3> QED BY <1>7, <2>1, <2>2, <2>3, <2>4, <3>1, <3>2, <3>3, FileStep
  <2>6. Typed(xd)
    BY <1>7, <2>2 DEF Typed, SameCounts
  <2> HIDE DEF Goal
  <2> QED BY <1>10, <1>12, <2>5, <2>6 DEF Sound
<1>13. ASSUME k.type = "ENTRY", o = Opened(d, "write", l, k.entry) PROVE Goal
  <2> DEFINE p == k.path
  <2> DEFINE e == k.entry
  <2>1. p \in Paths /\ v.arcs[p].ref > 0 /\ e \in Names /\ a = lh_arc_delete_entry(v, p, e)
        /\ d = lhh_arc_refresh(a, p) /\ o = Opened(d, "write", l, e)
    BY <1>2, <1>3, <1>4, <1>13
  <2> HIDE DEF p, e, a, d
  <2>2. Settled(a, u) /\ a.arcs[p].ref > 0
    BY <1>4, <2>1, DeleteEntryGood DEF Settled
  <2>3. Settled(d, u)
    BY <2>1, <2>2, RefreshGood DEF Settled
  <2>4. SoundBut(a, p)
    BY <1>4, <1>5, <2>1, DeleteEntrySound
  <2>5. Sound(d) /\ Typed(d)
    BY <2>1, <2>2, <2>3, <2>4, RefreshSettles DEF Settled, Good
  <2> HIDE DEF Goal
  <2> QED BY <1>10, <2>1, <2>5
<1>14. CASE o = Opened(x, "host", l, <<>>) \/ o = Opened(x, "image", l, <<>>)
  <2> HIDE DEF Goal
  <2> QED BY <1>6, <1>7, <1>10, <1>14
<1> HIDE DEF Goal, z, d, F, xd
<1> QED BY <1>1, <1>9, <1>11, <1>12, <1>13, <1>14

(* lhh_handle_open changes at most the file it opens.                      *)
LEMMA HandleOpenSound ==
    ASSUME NEW w, NEW u \in Int, Fine(w, u), NEW l \in Live(w) \cup {NoLock},
           NEW name, NameFor(w, l, name), NEW mode
    PROVE  LET o == lhh_handle_open(w, l, name, mode) IN Sound(o.w) /\ WriteFits(o.hh)
<1> DEFINE r == lhh_lock_resolve(w, l, name)
<1> DEFINE d == lhh_lock_dup(r, l)
<1> DEFINE x == Called(d)
<1> DEFINE f == lhh_lock_free(x, d.got)
<1> DEFINE m == OpenLock(r, r.got, mode, FALSE)
<1> DEFINE wr == Opened(x, "write", d.got, name.entry)
<1> DEFINE o == lhh_handle_open(w, l, name, mode)
<1> DEFINE Goal == Sound(o.w) /\ WriteFits(o.hh)
<1> SUFFICES Goal
  OBVIOUS
<1>1. \/ r.got # NoLock /\ o = m
      \/ r.got = NoLock /\ o = NotOpened(r)
      \/ /\ r.got = NoLock /\ name # Self /\ l # NoLock
         /\ r.locks[l].type \in {"ARCHIVE", "ENTRY"}
         /\ \/ d.got = NoLock /\ o = NotOpened(d)
            \/ d.got # NoLock /\ o \in {NotOpened(f), wr}
  BY DEF lhh_handle_open, OpenResolved, OpenNew
<1>2. Settled(r, u) /\ Grants(w, r) /\ Sound(r)
  BY FineIs, ResolveSettled, ResolveSound
<1> HIDE DEF r, o
<1>3. ASSUME NEW y, Sound(y), o = NotOpened(y) PROVE Goal
  BY <1>3 DEF NotOpened, WriteFits, FreeHandle
<1>4. ASSUME r.got # NoLock, o = m PROVE Goal
  <2>1. r.got \in Live(r)
    BY <1>2, <1>4, GotLive
  <2> DEFINE b == FALSE
  <2>2. b \in BOOLEAN /\ o = OpenLock(r, r.got, mode, b)
    BY <1>4
  <2> HIDE DEF b
  <2> QED BY <1>2, <2>1, <2>2, OpenLockSound DEF Fine
<1>5. CASE r.got = NoLock /\ o = NotOpened(r)
  <2> HIDE DEF Goal
  <2> QED BY <1>2, <1>3, <1>5
<1>6. ASSUME r.got = NoLock, name # Self, l # NoLock,
             r.locks[l].type \in {"ARCHIVE", "ENTRY"},
             \/ d.got = NoLock /\ o = NotOpened(d)
             \/ d.got # NoLock /\ o \in {NotOpened(f), wr}
      PROVE  Goal
  <2>1. l \in Live(r) /\ KeepsLive(w, r)
    BY <1>2, <1>6 DEF Grants, KeepsLive
  <2>2. Settled(d, u) /\ Grants(r, d) /\ Sound(d)
    BY <1>2, <2>1, DupSettled, DupSound DEF Fine
  <2> HIDE DEF d
  <2>3. Settled(x, u) /\ x.locks = d.locks /\ Typed(x)
    BY <2>2, CalledGood DEF Settled, Good
  <2>4. Sound(x)
    BY <2>2, FineIs, BookSound DEF Sound, Fine
  <2> HIDE DEF x
  <2>5. CASE o = NotOpened(d)
    <3> HIDE DEF Goal
    <3> QED BY <1>3, <2>2, <2>5
  <2>6. CASE d.got # NoLock /\ o = NotOpened(f)
    <3>1. d.got \in Live(x)
      BY <2>2, <2>3, <2>6, GotLive DEF Live
    <3>2. Sound(f)
      BY <2>3, <2>4, <3>1, FreeSound DEF Settled
    <3> HIDE DEF f, Goal
    <3> QED BY <1>3, <2>6, <3>2
  <2>7. CASE o = wr
    <3> DEFINE n == name.entry
    <3>1. n \in Names
      <4>1. w.locks[l].type \in {"ARCHIVE", "ENTRY"} /\ l \in Live(w)
        BY <1>6, <2>1 DEF KeepsLive, SameLock
      <4> QED BY <1>6, <4>1 DEF NameFor
    <3>2. o = Opened(x, "write", d.got, n)
      BY <2>7
    <3> HIDE DEF n
    <3> QED BY <2>3, <2>4, <3>1, <3>2, OpenedSound DEF WriteFits
  <2> QED BY <1>6, <2>5, <2>6, <2>7
<1> HIDE DEF Goal, d, x, f, m, wr
<1> QED BY <1>1, <1>4, <1>5, <1>6

(* lhh_handle_close stores what a write handle has buffered.               *)
LEMMA HandleCloseSound ==
    ASSUME NEW w, NEW u \in Int, Fine(w, u), NEW hh, HandleFits(w, hh), WriteFits(hh),
           hh.kind # "free"
    PROVE  LET r == lhh_handle_close(w, hh) IN
           /\ Sound(r)
           /\ hh.kind = "write" =>
                  Stored(w, r, w.locks[hh.lock].path, FileEntry(hh.entry, hh.buf))
<1> DEFINE l == hh.lock
<1> DEFINE p == w.locks[l].path
<1> DEFINE e == FileEntry(hh.entry, hh.buf)
<1> DEFINE c == lhh_arc_commit_write(w, p, e)
<1> DEFINE v == IF hh.kind # "write" THEN w ELSE c
<1> DEFINE f == lhh_lock_free(v, l)
<1> DEFINE x == IF l = NoLock THEN v ELSE f
<1> DEFINE n == x.usageCnt - 1
<1> DEFINE r == lhh_handle_close(w, hh)
<1> SUFFICES Sound(r) /\ (hh.kind = "write" => Stored(w, r, p, e))
  OBVIOUS
<1>1. r = [x EXCEPT !.usageCnt = n]
  BY DEF lhh_handle_close
<1>2. /\ l \in LockIds \cup {NoLock}
      /\ hh.kind = "write" => l # NoLock /\ w.locks[l].type \in {"ARCHIVE", "ENTRY"}
      /\ l # NoLock => w.locks[l].type # "free"
  BY DEF HandleFits, HandleSet, HandleKinds
<1>3. hh.kind = "write" => e \in Entry
  BY DEF HandleFits, HandleSet, WriteFits, FileEntry, Entry
<1> HIDE DEF r, e
<1>4. Settled(v, u) /\ Keeps(w, v) /\ Sound(v) /\ (hh.kind = "write" => Stored(w, v, p, e))
  <2>1. CASE hh.kind # "write"
    BY <2>1, FineIs DEF Keeps, SameLock
  <2>2. CASE hh.kind = "write"
    <3>1. p \in Paths /\ w.arcs[p].ref > 0
      BY <1>2, <2>2, FineIs, Cached
    <3>2. Settled(c, u) /\ Keeps(w, c)
      BY <3>1, FineIs, CommitGood DEF Settled
    <3>3. Sound(c) /\ Stored(w, c, p, e)
      BY <1>3, <2>2, <3>1, FineIs, CommitSound
    <3> QED BY <2>2, <3>2, <3>3
  <2> QED BY <2>1, <2>2
<1> HIDE DEF v
<1>5. Sound(x) /\ SameFiles(v, x) /\ Typed(x)
  <2>1. CASE l = NoLock
    BY <1>4, <2>1 DEF SameFiles, Settled, Good
  <2>2. CASE l # NoLock
    <3>1. l \in Live(v)
      BY <1>2, <1>4, <2>2 DEF Keeps, SameLock, Live
    <3>2. Sound(f) /\ SameFiles(v, f) /\ Typed(f)
      BY <1>4, <3>1, FreeSettled, FreeSound DEF Settled, Good
    <3> HIDE DEF f
    <3> QED BY <2>2, <3>2
  <2> QED BY <2>1, <2>2
<1> HIDE DEF x, l
<1>6. Sound(r) /\ SameFiles(x, r)
  <2> HIDE DEF n
  <2>1. Sound([x EXCEPT !.usageCnt = n]) /\ SameFiles(x, [x EXCEPT !.usageCnt = n])
    BY <1>5, UsageSound
  <2> QED BY <1>1, <2>1
<1> QED BY <1>4, <1>5, <1>6 DEF Stored, SameFiles

-----------------------------------------------------------------------------
(* Operations on names write at most one file.                             *)

(* A host object is deleted only while no host lock is on it.              *)
LEMMA DeleteHostSound ==
    ASSUME NEW w, Sound(w), Typed(w), Tidy(w), NEW o \in Paths \cup {Volume}
    PROVE  Sound(DeleteHost(w, o))
<1> DEFINE v == [w EXCEPT !.disk[o] = Absent]
<1>1. CASE DeleteHost(w, o) = w
  BY <1>1
<1>2. CASE DeleteHost(w, o) # w
  <2>1. DeleteHost(w, o) = v /\ o \in Paths /\ ~HostLocked(w, o)
    BY <1>2 DEF DeleteHost
  <2>2. /\ v.disk = [w.disk EXCEPT ![o] = Absent]
        /\ v.cats = w.cats /\ v.plan = w.plan /\ v.fault = w.fault
        /\ v.locks = w.locks /\ v.arcs = w.arcs
    BY DEF Typed, Shape, Fields
  <2> HIDE DEF v
  <2>3. v.cats = [w.cats EXCEPT ![o] = w.cats[o]] /\ w.cats[o] \in Catalog
    BY <2>1, <2>2 DEF Typed, Sound, SoundBut, PathSound
  <2>4. FileSound(Absent) /\ Absent \notin Archive
    BY FilesSound, FilesAssumption
  <2>5. SoundBut(w, NoPath)
    BY DEF Sound
  <2>6. SoundBut(v, NoPath)
    BY <2>1, <2>2, <2>3, <2>4, <2>5, FileStep
  <2> QED BY <2>1, <2>6 DEF Sound
<1> QED BY <1>1, <1>2

(* lhh_delete_name.                                                        *)
LEMMA DeleteSound ==
    ASSUME NEW w, NEW u \in Int, Fine(w, u), NEW l \in Live(w) \cup {NoLock},
           NEW name, NameFor(w, l, name)
    PROVE  Sound(lhh_delete_name(w, l, name))
<1> DEFINE r == lhh_lock_resolve(w, l, name)
<1> DEFINE g == r.got
<1> DEFINE k == r.locks[g]
<1> DEFINE d == lh_arc_delete_entry(r, k.path, k.entry)
<1> DEFINE e == lhh_arc_refresh(d, k.path)
<1> DEFINE v == lhh_lock_free(r, g)
<1> DEFINE z == lhh_delete_name(w, l, name)
<1> SUFFICES Sound(z)
  OBVIOUS
<1>1. \/ g = NoLock /\ z = r
      \/ g # NoLock /\ k.type = "ENTRY" /\ z = lhh_lock_free(IF d.ok THEN e ELSE d, g)
      \/ g # NoLock /\ z = v
      \/ g # NoLock /\ k.type \in {"REAL", "ARCHIVE"} /\ z = DeleteHost(v, k.path)
  BY DEF lhh_delete_name, DeleteResolved, RefreshIfDone
<1>2. Settled(r, u) /\ Grants(w, r) /\ Sound(r)
  BY FineIs, ResolveSettled, ResolveSound
<1> HIDE DEF r, z
<1>3. CASE g = NoLock /\ z = r
  BY <1>2, <1>3
<1>4. CASE g # NoLock /\ k.type = "ENTRY" /\ z = lhh_lock_free(IF d.ok THEN e ELSE d, g)
  <2> DEFINE p == k.path
  <2> DEFINE n == k.entry
  <2>1. g \in Live(r)
    BY <1>2, <1>4, GotLive
  <2>2. p \in Paths /\ r.arcs[p].ref > 0
    BY <1>2, <1>4, <2>1, LiveTypes
  <2>3. d = lh_arc_delete_entry(r, p, n) /\ e = lhh_arc_refresh(d, p)
    OBVIOUS
  <2> HIDE DEF p, n, d, e
  <2>4. Settled(d, u) /\ Keeps(r, d) /\ d.arcs[p].ref > 0
    BY <1>2, <2>2, <2>3, DeleteEntryGood DEF Settled
  <2>5. Settled(e, u) /\ Keeps(d, e)
    BY <2>2, <2>3, <2>4, RefreshGood DEF Settled
  <2>6. Typed(r) /\ Tidy(r)
    BY <1>2 DEF Settled, Good
  <2>7. SoundBut(d, p) /\ d.ok \in BOOLEAN /\ (~d.ok => Sound(d))
    BY <1>2, <2>2, <2>3, <2>6, DeleteEntrySound
  <2>8. Sound(e)
    BY <2>2, <2>3, <2>4, <2>7, RefreshSettles DEF Settled
  <2>9. PICK y \in {d, e} : z = lhh_lock_free(y, g) /\ Sound(y)
    BY <1>4, <2>7, <2>8
  <2>10. Settled(y, u) /\ Keeps(r, y)
    BY <2>4, <2>5 DEF Keeps, SameLock
  <2>11. g \in Live(y)
    BY <2>1, <2>10 DEF Keeps, SameLock, Live
  <2> QED BY <2>9, <2>10, <2>11, FreeSound DEF Settled
<1>5. CASE g # NoLock /\ z = v
  <2>1. g \in Live(r)
    BY <1>2, <1>5, GotLive
  <2> QED BY <1>2, <1>5, <2>1, FreeSound DEF Settled
<1>6. CASE g # NoLock /\ k.type \in {"REAL", "ARCHIVE"} /\ z = DeleteHost(v, k.path)
  <2> DEFINE p == k.path
  <2>1. g \in Live(r)
    BY <1>2, <1>6, GotLive
  <2>2. p \in Paths \cup {Volume} /\ z = DeleteHost(v, p)
    BY <1>2, <1>6, <2>1, LiveTypes
  <2>3. Sound(v) /\ Typed(v) /\ Tidy(v)
    BY <1>2, <2>1, FreeSettled, FreeSound DEF Settled, Good
  <2> HIDE DEF v, p
  <2> QED BY <2>2, <2>3, DeleteHostSound
<1> QED BY <1>1, <1>3, <1>4, <1>5, <1>6

(* lhh_create_dir_name.                                                    *)
LEMMA CreateDirSound ==
    ASSUME NEW w, NEW u \in Int, Fine(w, u), NEW l \in Live(w) \cup {NoLock},
           NEW name, NameFor(w, l, name), name # Self
    PROVE  Sound(lhh_create_dir_name(w, l, name))
<1> DEFINE r == lhh_lock_resolve(w, l, name)
<1> DEFINE type == IF l = NoLock THEN "ROOT" ELSE r.locks[l].type
<1> DEFINE p == name.path
<1> DEFINE n == name.entry
<1> DEFINE a == LhAppendEntry(r, p, DirEntry(n))
<1> DEFINE f == lhh_arc_refresh(a, p)
<1> DEFINE c == Called(r)
<1> DEFINE cd == [c EXCEPT !.disk[p] = HostDir]
<1> DEFINE q == lhh_lock_free(r, r.got)
<1> DEFINE m == AllocInArchive(Retain(f, p), p, n)
<1> DEFINE i == lhh_lock_resolve(cd, l, name)
<1> DEFINE z == lhh_create_dir_name(w, l, name)
<1> SUFFICES Sound(z)
  OBVIOUS
<1>1. \/ r.got # NoLock /\ z = Null(q)
      \/ /\ r.got = NoLock /\ type \in {"ARCHIVE", "ENTRY"}
         /\ z \in {m, Null(f)} \/ (~a.ok /\ z = Null(a))
      \/ r.got = NoLock /\ type = "REAL" /\ r.disk[p] = Absent /\ z = i
      \/ z = r
  BY DEF lhh_create_dir_name, CreateResolved, LockMade, RefreshIfDone
<1>2. Settled(r, u) /\ Grants(w, r) /\ Sound(r)
  BY FineIs, ResolveSettled, ResolveSound
<1> HIDE DEF r, z
<1>2a. l # NoLock => l \in Live(w) /\ type = w.locks[l].type
  BY <1>2 DEF Grants, SameLock
<1>3. /\ IsName(name)
      /\ type \in {"ARCHIVE", "ENTRY"} =>
             l \in Live(w) /\ l # NoLock /\ w.locks[l].type = type /\ p = w.locks[l].path /\ n \in Names
      /\ type = "REAL" => l \in Live(w) /\ l # NoLock /\ w.locks[l].type = type
  BY <1>2a DEF NameFor
<1> HIDE DEF type
<1>4. CASE z = r
  BY <1>2, <1>4
<1>5. CASE r.got # NoLock /\ z = Null(q)
  <2>1. r.got \in Live(r)
    BY <1>2, <1>5, GotLive
  <2>2. Sound(q) /\ Typed(q) /\ Tidy(q)
    BY <1>2, <2>1, FreeSettled, FreeSound DEF Settled, Good
  <2> HIDE DEF q
  <2> QED BY <1>5, <2>2, NullSound
<1>6. CASE /\ r.got = NoLock /\ type \in {"ARCHIVE", "ENTRY"}
           /\ z \in {m, Null(f)} \/ (~a.ok /\ z = Null(a))
  <2>1. KeepsLive(w, r)
    BY <1>2, <1>6 DEF Grants, KeepsLive
  <2>2. l \in Live(r) /\ r.locks[l].type \in {"ARCHIVE", "ENTRY"} /\ p = r.locks[l].path
    BY <1>3, <1>6, <2>1 DEF KeepsLive, SameLock
  <2>3. p \in Paths /\ r.arcs[p].ref > 0
    BY <1>2, <2>2, LiveTypes
  <2>4. Same(r, a)
    BY <1>2, AppendSame DEF Settled, Good
  <2>5. n \in Names /\ DirEntry(n) \in Entry
    BY <1>3, <1>6 DEF DirEntry, Entry
  <2>6. SoundBut(a, p) /\ a.ok \in BOOLEAN /\ (~a.ok => SoundBut(a, NoPath))
    <3>1. Typed(r) /\ Tidy(r) /\ SoundBut(r, NoPath)
      BY <1>2 DEF Settled, Good, Sound
    <3> DEFINE e == DirEntry(n)
    <3>2. e \in Entry /\ a = LhAppendEntry(r, p, e)
      BY <2>5
    <3> HIDE DEF e, a
    <3> QED BY <2>3, <3>1, <3>2, AppendSound
  <2> HIDE DEF a, p, n
  <2>7. Settled(a, u) /\ a.arcs[p].ref > 0
    BY <1>2, <2>3, <2>4, SameGood DEF Settled, Same
  <2>8. Settled(f, u) /\ f.arcs[p].ref > 0
    BY <2>3, <2>7, RefreshGood DEF Settled
  <2>9. Sound(f)
    BY <2>3, <2>6, <2>7, RefreshSettles DEF Settled
  <2> HIDE DEF f
  <2>10. Sound(m)
    BY <2>3, <2>5, <2>8, <2>9, InArchiveSound DEF Fine
  <2> HIDE DEF m
  <2>11. Sound(Null(f))
    BY <2>8, <2>9, NullSound DEF Settled, Good
  <2>12. ~a.ok => Sound(Null(a))
    BY <2>6, <2>7, NullSound DEF Settled, Good, Sound
  <2> QED BY <1>6, <2>10, <2>11, <2>12
<1>7. CASE r.got = NoLock /\ type = "REAL" /\ r.disk[p] = Absent /\ z = i
  <2>1. KeepsLive(w, r)
    BY <1>2, <1>7 DEF Grants, KeepsLive
  <2>2. Same(r, cd)
    BY <1>2 DEF Called, Settled, Good, Typed, Same, Shape, Fields, SameCounts
  <2>3. /\ cd.disk = [r.disk EXCEPT ![p] = HostDir]
        /\ cd.cats = r.cats /\ cd.plan = r.plan /\ cd.fault = r.fault
        /\ cd.locks = r.locks /\ cd.arcs = r.arcs
    BY <1>2 DEF Called, Settled, Good, Typed, Shape, Fields
  <2> HIDE DEF cd
  <2>4. Settled(cd, u) /\ KeepsLive(w, cd)
    BY <1>2, <2>1, <2>2, SameGood, KeepsIsLive, KeepsTwice DEF Settled
  <2>5. l \in Live(cd) /\ cd.locks[l].type = "REAL"
    BY <1>3, <1>7, <2>4 DEF KeepsLive, SameLock
  <2>6. NameFor(cd, l, name)
    BY <1>3, <2>5 DEF NameFor
  <2>7. Sound(cd)
    <3>1. r.disk = [o \in Paths |-> r.disk[o]] /\ r.cats = [o \in Paths |-> r.cats[o]]
          /\ SoundBut(r, NoPath) /\ Typed(r) /\ Tidy(r)
      BY <1>2 DEF Sound, SoundBut, Settled, Good, Typed
    <3>2. CASE p \in Paths
      <4>1. cd.cats = [r.cats EXCEPT ![p] = r.cats[p]] /\ r.cats[p] \in Catalog
        BY <2>3, <3>1, <3>2 DEF SoundBut, PathSound
      <4>2. FileSound(HostDir) /\ HostDir \notin Archive
        BY FilesSound, FilesAssumption
      <4> HIDE DEF p
      <4>3. SoundBut(cd, NoPath)
        BY <2>3, <3>1, <3>2, <4>1, <4>2, FileStep
      <4> QED BY <4>3 DEF Sound
    <3>3. CASE p \notin Paths
      <4> HIDE DEF p
      <4>1. cd.disk = r.disk
        BY <2>3, <3>1, <3>3
      <4>2. SoundBut(cd, NoPath)
        BY <2>3, <3>1, <4>1, SoundAlike
      <4> QED BY <4>2 DEF Sound
    <3> QED BY <3>2, <3>3
  <2>8. Sound(i)
    BY <2>4, <2>5, <2>6, <2>7, ResolveSound DEF Fine
  <2> HIDE DEF i
  <2> QED BY <1>7, <2>8
<1> QED BY <1>1, <1>4, <1>5, <1>6, <1>7

-----------------------------------------------------------------------------
(* The files, the pictures and the packet loop.                            *)

WriteHandles == \A h \in HandleIds : WriteFits(handles[h])

SInv == IInv /\ Sound(State) /\ WriteHandles /\ running \in BOOLEAN

(* A world made of the state variables.                                    *)
LEMMA WorldFiles ==
    ASSUME NEW plan
    PROVE  LET w == World(plan) IN
           /\ w.disk = disk /\ w.cats = cats /\ w.arcs = arcs /\ w.locks = locks
           /\ w.fault = fault /\ w.plan = plan
  BY DEF World

(* Soundness does not look at the failing calls when some may fail.        *)
LEMMA SoundPlan ==
    ASSUME NEW w, NEW x, SoundBut(w, x), NEW v, Undisturbed => v.plan = {},
           v.disk = w.disk, v.fault = w.fault, v.locks = w.locks,
           v.arcs = w.arcs, v.cats = w.cats
    PROVE  SoundBut(v, x)
<1>1. \A p \in Paths : PathSound(v, p, x)
  BY DEF SoundBut, PathSound
<1>2. \A p, n : LhLock(v, p, n) = LhLock(w, p, n)
  BY DEF LhLock
<1>3. \A l \in LockIds : LockSound(v, l, x)
  BY <1>2 DEF SoundBut, LockSound
<1> QED BY <1>1, <1>3 DEF SoundBut

(* What the invariant says of the files when a packet starts.              *)
LEMMA PacketFine ==
    ASSUME SInv, NEW plan \in FaultPlans \cup {{}}
    PROVE  LET w == World(plan) IN
           /\ Fine(w, Opens) /\ w.locks = locks /\ w.disk = disk
           /\ Live(w) = Live(State) /\ KeepsLive(State, w)
<1> DEFINE w == World(plan)
<1> DEFINE s == State
<1>1. /\ Settled(w, Opens) /\ w.locks = locks /\ Live(w) = Live(State)
      /\ KeepsLive(State, w)
  BY PacketStarts DEF SInv, IInv
<1>2. /\ w.disk = disk /\ w.cats = cats /\ w.arcs = arcs /\ w.locks = locks
      /\ w.fault = fault /\ w.plan = plan
  BY WorldFiles
<1>3. /\ s.disk = disk /\ s.cats = cats /\ s.arcs = arcs /\ s.locks = locks
      /\ s.fault = fault
  BY WorldFiles DEF State
<1>4. SoundBut(s, NoPath)
  BY DEF SInv, Sound
<1>5. Undisturbed => w.plan = {}
  BY <1>2 DEF Undisturbed
<1> HIDE DEF w, s
<1>6. Sound(w)
  BY <1>2, <1>3, <1>4, <1>5, SoundPlan DEF Sound
<1> QED BY <1>1, <1>2, <1>6 DEF Fine, w

(* What the invariant needs of the files when a packet ends.               *)
LEMMA PacketSound ==
    ASSUME NEW w, Sound(w), Becomes(w)
    PROVE  Sound(State')
<1> DEFINE v == State'
<1>1. /\ v.disk = disk' /\ v.cats = cats' /\ v.arcs = arcs' /\ v.locks = locks'
      /\ v.fault = fault' /\ v.plan = {}
  BY DEF State, World
<1> HIDE DEF v
<1>2. SoundBut(v, NoPath)
  BY <1>1, SoundPlan DEF Becomes, Sound
<1> QED BY <1>2 DEF Sound, v

(* The handler starts with no picture at all.                              *)
LEMMA InitiallySound == Init => SInv
<1> SUFFICES ASSUME Init PROVE SInv
  OBVIOUS
<1> DEFINE w == State
<1>1. /\ w.disk = disk /\ w.cats = cats /\ w.arcs = arcs /\ w.locks = locks
      /\ w.fault = fault /\ w.plan = {}
  BY WorldFiles DEF State
<1> HIDE DEF w
<1>2. disk \in [Paths -> HostFile] /\ disk \in InitDisks
  BY DisksAssumption DEF Init
<1>3. \A p \in Paths : PathSound(w, p, NoPath)
  <2> SUFFICES ASSUME NEW p \in Paths PROVE PathSound(w, p, NoPath)
    OBVIOUS
  <2>1. FileSound(w.disk[p])
    BY <1>1, <1>2 DEF FileSound, Undisturbed, Unmarked
  <2>2. w.cats[p] = <<>> /\ ~w.arcs[p].open
    BY <1>1 DEF Init, NoArc
  <2>3. <<>> \in Catalog
    BY DEF Catalog
  <2> QED BY <2>1, <2>2, <2>3 DEF PathSound
<1>4. \A l \in LockIds : LockSound(w, l, NoPath)
  <2> SUFFICES ASSUME NEW l \in LockIds PROVE LockSound(w, l, NoPath)
    OBVIOUS
  <2>1. w.locks[l].type = "free" /\ w.locks[l].lh = 0
    BY <1>1 DEF Init, FreeLock, ZERO
  <2> QED BY <2>1 DEF LockSound, LhValues
<1>5. Sound(w)
  BY <1>1, <1>2, <1>3, <1>4 DEF Sound, SoundBut, Init
<1>6. \A h \in HandleIds : handles[h].kind = "free"
  BY DEF Init, FreeHandle
<1>7. running \in BOOLEAN
  BY DEF Init
<1> QED BY <1>5, <1>6, <1>7, Initially DEF SInv, w, WriteFits, WriteHandles

(* Packets that return a lock or nothing.                                  *)
LEMMA LockPacketsSound ==
    ASSUME SInv, NEW plan \in FaultPlans,
           Locate(plan) \/ CopyDir(plan) \/ Parent(plan) \/ Delete(plan) \/ CreateDir(plan)
    PROVE  Sound(State')
<1> DEFINE w == World(plan)
<1>1. Fine(w, Opens) /\ w.locks = locks /\ Live(w) = Live(State)
  BY PacketFine
<1>2. w = World(plan)
  OBVIOUS
<1> HIDE DEF w
<1>3. /\ ClientLocks \cup HandleLocks \subseteq Live(w)
      /\ Parents \subseteq Live(w) \cup {NoLock}
      /\ Opens \in Int
  BY <1>1, ClientLocksLive, OpensNat DEF SInv, IInv, Parents
<1>4. Settled(w, Opens) /\ Sound(w) /\ Typed(w) /\ Tidy(w)
  BY <1>1, FineIs
<1>5. CASE Locate(plan)
  <2>1. CASE Becomes(AllocPlain(w, "ROOT", NoPath, <<>>))
    <3> DEFINE r == AllocPlain(w, "ROOT", NoPath, <<>>)
    <3>1. Sound(r)
      BY <1>4, AllocPlainSound
    <3> HIDE DEF r
    <3>2. Becomes(r)
      BY <2>1 DEF r
    <3> QED BY <3>1, <3>2, PacketSound
  <2>2. CASE \E l \in Parents : \E name \in NamesUnder(l) \cup {Self} :
                 Becomes(lhh_lock_resolve(w, l, name))
    <3>0. PICK l \in Parents : \E name \in NamesUnder(l) \cup {Self} :
                 Becomes(lhh_lock_resolve(w, l, name))
      BY <2>2
    <3>1. PICK name \in NamesUnder(l) \cup {Self} :
                 Becomes(lhh_lock_resolve(w, l, name))
      BY <3>0
    <3>2. NameFor(w, l, name)
      BY <1>1, <1>4, NamesFit DEF NameFor
    <3>3. Sound(lhh_lock_resolve(w, l, name))
      BY <1>1, <1>3, <3>2, ResolveSound
    <3> QED BY <3>1, <3>3, PacketSound
  <2> QED BY <1>2, <1>5, <2>1, <2>2 DEF Locate
<1>6. CASE CopyDir(plan)
  <2>1. PICK l \in ClientLocks \cup HandleLocks : Becomes(lhh_lock_dup(w, l))
    BY <1>2, <1>6 DEF CopyDir
  <2>2. Sound(lhh_lock_dup(w, l))
    BY <1>1, <1>3, DupSound
  <2> QED BY <2>1, <2>2, PacketSound
<1>7. CASE Parent(plan)
  <2>1. PICK l \in ClientLocks \cup HandleLocks :
            Becomes(lhh_lock_parent(w, l)) \/ Becomes(Grandparent(w, l))
    BY <1>2, <1>7 DEF Parent
  <2>2. Sound(lhh_lock_parent(w, l)) /\ Sound(Grandparent(w, l))
    BY <1>1, <1>3, ParentSound, GrandparentSound
  <2> QED BY <2>1, <2>2, PacketSound
<1>8. CASE Delete(plan)
  <2>0. PICK l \in Parents : \E name \in NamesUnder(l) \cup {Self} :
             Becomes(lhh_delete_name(w, l, name))
    BY <1>2, <1>8 DEF Delete
  <2>1. PICK name \in NamesUnder(l) \cup {Self} : Becomes(lhh_delete_name(w, l, name))
    BY <2>0
  <2>2. NameFor(w, l, name)
    BY <1>1, <1>4, NamesFit DEF NameFor
  <2>3. Sound(lhh_delete_name(w, l, name))
    BY <1>1, <1>3, <2>2, DeleteSound
  <2> QED BY <2>1, <2>3, PacketSound
<1>9. CASE CreateDir(plan)
  <2>0. PICK l \in Parents : \E name \in NamesUnder(l) :
             Becomes(lhh_create_dir_name(w, l, name))
    BY <1>2, <1>9 DEF CreateDir
  <2>1. PICK name \in NamesUnder(l) : Becomes(lhh_create_dir_name(w, l, name))
    BY <2>0
  <2>2. NameFor(w, l, name) /\ name # Self
    BY <1>1, <1>4, NamesFit
  <2>3. Sound(lhh_create_dir_name(w, l, name))
    BY <1>1, <1>3, <2>2, CreateDirSound
  <2> QED BY <2>1, <2>3, PacketSound
<1> QED BY <1>5, <1>6, <1>7, <1>8, <1>9

(* The packet that frees a lock.                                           *)
LEMMA FreePacketSound ==
    ASSUME SInv, FreeClientLock
    PROVE  Sound(State')
<1> DEFINE plan == {}
<1> DEFINE w == World(plan)
<1>1. Fine(w, Opens) /\ Live(w) = Live(State)
  BY PacketFine
<1>2. PICK l \in ClientLocks : Becomes(lhh_lock_free(w, l))
  BY DEF FreeClientLock
<1> HIDE DEF w
<1>3. l \in Live(w) /\ Opens \in Int
  BY <1>1, ClientLocksLive, OpensNat DEF SInv, IInv
<1> DEFINE k == 0
<1>4. Good(w, NoPath, k, 0, Opens) /\ Sound(w) /\ k \in Nat /\ k = 0
  BY <1>1, FineIs
<1> HIDE DEF k
<1>5. Sound(lhh_lock_free(w, l))
  BY <1>3, <1>4, FreeSound
<1> QED BY <1>2, <1>5, PacketSound

(* Packets that open a handle.                                             *)
LEMMA OpenPacketsSound ==
    ASSUME SInv, NEW plan \in FaultPlans, Open(plan) \/ FhFromLock(plan)
    PROVE  Sound(State') /\ WriteHandles'
<1> DEFINE w == World(plan)
<1>1. Fine(w, Opens) /\ w.locks = locks /\ Live(w) = Live(State)
  BY PacketFine
<1>2. w = World(plan)
  OBVIOUS
<1> HIDE DEF w
<1>3. /\ ClientLocks \subseteq Live(w)
      /\ Parents \subseteq Live(w) \cup {NoLock}
      /\ Opens \in Int
      /\ Settled(w, Opens)
  BY <1>1, ClientLocksLive, OpensNat, FineIs DEF SInv, IInv, Parents
<1>4. ASSUME NEW o, Sound(o.w), WriteFits(o.hh), NEW h \in HandleIds,
             Becomes(o.w), handles' = [handles EXCEPT ![h] = o.hh]
      PROVE  Sound(State') /\ WriteHandles'
  <2>1. Sound(State')
    BY <1>4, PacketSound
  <2>2. \A g \in HandleIds : handles'[g] \in {handles[g], o.hh}
    BY <1>4 DEF SInv, IInv, HandlesOk
  <2>3. \A g \in HandleIds : WriteFits(handles'[g])
    BY <1>4, <2>2 DEF SInv, WriteHandles
  <2> QED BY <2>1, <2>3 DEF WriteHandles
<1>5. CASE Open(plan)
  <2>1. PICK h \in HandleIds \ OpenHandles, l \in Parents, mode \in Modes :
        \E name \in NamesUnder(l) \cup {Self} :
            LET o == lhh_handle_open(w, l, name, mode) IN
            /\ Becomes(o.w)
            /\ handles' = [handles EXCEPT ![h] = o.hh]
    BY <1>2, <1>5 DEF Open
  <2>2. PICK name \in NamesUnder(l) \cup {Self} :
            LET o == lhh_handle_open(w, l, name, mode) IN
            /\ Becomes(o.w)
            /\ handles' = [handles EXCEPT ![h] = o.hh]
    BY <2>1
  <2>3. NameFor(w, l, name)
    BY <1>1, <1>3, NamesFit DEF NameFor
  <2> DEFINE o == lhh_handle_open(w, l, name, mode)
  <2>4. Sound(o.w) /\ WriteFits(o.hh)
    BY <1>1, <1>3, <2>3, HandleOpenSound
  <2>5. Becomes(o.w) /\ handles' = [handles EXCEPT ![h] = o.hh]
    BY <2>2
  <2> HIDE DEF o
  <2> QED BY <1>4, <2>4, <2>5
<1>6. CASE FhFromLock(plan)
  <2>1. PICK h \in HandleIds \ OpenHandles, l \in ClientLocks, mode \in Modes :
            LET o == OpenLock(w, l, mode, TRUE) IN
            /\ Becomes(o.w)
            /\ handles' = [handles EXCEPT ![h] = o.hh]
    BY <1>2, <1>6 DEF FhFromLock
  <2> DEFINE b == TRUE
  <2> DEFINE o == OpenLock(w, l, mode, b)
  <2>2. b \in BOOLEAN /\ Becomes(o.w) /\ handles' = [handles EXCEPT ![h] = o.hh]
    BY <2>1
  <2> HIDE DEF b
  <2>3. Sound(o.w) /\ WriteFits(o.hh)
    BY <1>1, <1>3, <2>2, OpenLockSound
  <2> HIDE DEF o
  <2> QED BY <1>4, <2>2, <2>3
<1> QED BY <1>5, <1>6

(* The packet that closes a handle, and what it leaves in the archive.     *)
LEMMA ClosePacketSound ==
    ASSUME SInv, NEW plan \in FaultPlans, Close(plan)
    PROVE  /\ Sound(State') /\ WriteHandles'
           /\ \E h \in OpenHandles :
                  /\ handles' = [handles EXCEPT ![h] = FreeHandle]
                  /\ handles[h].kind = "write" =>
                         Stored(State, State', locks[handles[h].lock].path,
                                FileEntry(handles[h].entry, handles[h].buf))
<1> DEFINE w == World(plan)
<1>1. /\ Fine(w, Opens) /\ w.locks = locks /\ w.disk = disk /\ Live(w) = Live(State)
      /\ KeepsLive(State, w)
  BY PacketFine
<1>2. PICK h \in OpenHandles :
          /\ Becomes(lhh_handle_close(w, handles[h]))
          /\ handles' = [handles EXCEPT ![h] = FreeHandle]
  BY DEF Close
<1> HIDE DEF w
<1> DEFINE hh == handles[h]
<1>3. h \in HandleIds /\ hh.kind # "free" /\ HandleFits(State, hh) /\ WriteFits(hh)
      /\ Opens \in Int
  BY OpensNat DEF OpenHandles, SInv, IInv, HandlesOk, WriteHandles
<1>4. HandleFits(w, hh)
  <2>1. hh.lock = NoLock \/ hh.lock \in Live(State)
    BY <1>3 DEF HandleFits, HandleSet, HandleKinds, Live
  <2> QED BY <1>1, <1>3, <2>1 DEF HandleFits, KeepsLive, SameLock
<1> DEFINE r == lhh_handle_close(w, hh)
<1> DEFINE p == locks[hh.lock].path
<1> DEFINE e == FileEntry(hh.entry, hh.buf)
<1>5. Sound(r) /\ (hh.kind = "write" => Stored(w, r, p, e))
  BY <1>1, <1>3, <1>4, HandleCloseSound
<1>6. Becomes(r)
  BY <1>2
<1> HIDE DEF r
<1>7. Sound(State')
  BY <1>5, <1>6, PacketSound
<1>8. WriteHandles'
  <2>1. \A g \in HandleIds : handles'[g] \in {handles[g], FreeHandle}
    BY <1>2 DEF SInv, IInv, HandlesOk
  <2>2. WriteFits(FreeHandle)
    BY DEF WriteFits, FreeHandle
  <2> QED BY <2>1, <2>2 DEF SInv, WriteHandles
<1>9. State.disk = disk /\ State'.disk = disk' /\ w.disk = disk /\ r.disk = disk'
  BY <1>1, <1>6 DEF State, World, Becomes
<1>10. hh.kind = "write" => Stored(State, State', p, e)
  <2> HIDE DEF p, e
  <2> QED BY <1>5, <1>9 DEF Stored
<1> QED BY <1>2, <1>7, <1>8, <1>10

(* A file of the host volume changes behind the handler's back: under the  *)
(* name of an archive that happens only when something may disturb it.     *)
LEMMA DiskSound ==
    ASSUME SInv, NEW p, NEW d, p \in Paths => FileSound(d),
           p \in Paths => ~Undisturbed,
           disk' = [disk EXCEPT ![p] = d],
           UNCHANGED <<cats, arcs, locks, fault>>
    PROVE  Sound(State')
<1> DEFINE w == State
<1> DEFINE v == State'
<1>1. /\ w.disk = disk /\ w.cats = cats /\ w.arcs = arcs /\ w.locks = locks
      /\ w.fault = fault /\ w.plan = {}
  BY WorldFiles DEF State
<1>2. /\ v.disk = disk' /\ v.cats = cats /\ v.arcs = arcs /\ v.locks = locks
      /\ v.fault = fault /\ v.plan = {}
  BY DEF State, World
<1>3. SoundBut(w, NoPath)
  BY DEF SInv, Sound
<1> HIDE DEF w, v
<1>4. w.disk = [q \in Paths |-> w.disk[q]]
  BY <1>3 DEF SoundBut
<1>5. CASE p \in Paths
  <2>1. ~Undisturbed
    BY <1>5
  <2>2. v.disk = [q \in Paths |-> v.disk[q]] /\ \A q \in Paths : v.disk[q] \in {w.disk[q], d}
    BY <1>1, <1>2, <1>4
  <2>3. \A q \in Paths : PathSound(v, q, NoPath)
    BY <1>1, <1>2, <1>3, <1>5, <2>1, <2>2 DEF SoundBut, PathSound
  <2>4. \A l \in LockIds : LockSound(v, l, NoPath)
    BY <1>1, <1>2, <1>3, <2>1 DEF SoundBut, LockSound
  <2> QED BY <1>1, <1>2, <1>3, <2>1, <2>2, <2>3, <2>4 DEF Sound, SoundBut, v
<1>6. CASE p \notin Paths
  <2>1. v.disk = w.disk
    BY <1>1, <1>2, <1>4, <1>6
  <2>2. SoundBut(v, NoPath)
    BY <1>1, <1>2, <1>3, <2>1, SoundAlike
  <2> QED BY <2>2 DEF Sound, v
<1> QED BY <1>5, <1>6

(* Steps that touch no lock and no archive the handler has loaded.         *)
LEMMA OtherStepsSound ==
    ASSUME SInv, Write \/ Die \/ HostEdit \/ UNCHANGED vars
    PROVE  Sound(State') /\ WriteHandles'
<1>1. UNCHANGED <<cats, arcs, locks, fault>>
  BY DEF Write, Die, HostEdit, vars
<1>2. ASSUME disk' = disk
      PROVE  Sound(State')
  <2>1. State' = State \/ SoundBut(State', NoPath)
    <3> DEFINE w == State
    <3> DEFINE v == State'
    <3>1. /\ w.disk = disk /\ w.cats = cats /\ w.arcs = arcs /\ w.locks = locks
          /\ w.fault = fault /\ w.plan = {}
      BY WorldFiles DEF State
    <3>2. /\ v.disk = disk' /\ v.cats = cats' /\ v.arcs = arcs' /\ v.locks = locks'
          /\ v.fault = fault' /\ v.plan = {}
      BY DEF State, World
    <3>3. SoundBut(w, NoPath)
      BY DEF SInv, Sound
    <3> HIDE DEF w, v
    <3>4. SoundBut(v, NoPath)
      BY <1>1, <1>2, <3>1, <3>2, <3>3, SoundAlike
    <3> QED BY <3>4 DEF v
  <2> QED BY <2>1 DEF SInv, Sound
<1>3. ASSUME handles' = handles
      PROVE  WriteHandles'
  BY <1>3 DEF SInv, WriteHandles
<1>4. CASE Write
  <2>1. PICK h \in OpenHandles, c \in Chunks :
            \/ /\ handles[h].kind = "write"
               /\ Len(handles[h].buf) < MaxChunks
               /\ handles' = [handles EXCEPT ![h].buf = Append(@, c)]
               /\ UNCHANGED disk
            \/ /\ handles[h].kind = "host"
               /\ disk[locks[handles[h].lock].path] \notin {Absent, HostDir}
               /\ disk' = [disk EXCEPT ![locks[handles[h].lock].path] = Junk]
               /\ UNCHANGED handles
    BY <1>4 DEF Write
  <2>2. h \in HandleIds /\ HandleFits(State, handles[h])
    BY DEF OpenHandles, SInv, IInv, HandlesOk
  <2>3. CASE handles[h].kind = "write" /\ UNCHANGED disk
             /\ handles' = [handles EXCEPT ![h].buf = Append(@, c)]
    <3> DEFINE b == Append(handles[h].buf, c)
    <3>1. handles' = [handles EXCEPT ![h].buf = b]
      BY <2>3
    <3> HIDE DEF b
    <3>2. \A g \in HandleIds : /\ handles'[g].kind = handles[g].kind
                              /\ handles'[g].entry = handles[g].entry
      BY <3>1 DEF SInv, IInv, HandlesOk, HandleSet
    <3>3. WriteHandles'
      BY <3>2 DEF SInv, WriteHandles, WriteFits
    <3> QED BY <1>2, <2>3, <3>3
  <2>4. CASE /\ handles[h].kind = "host" /\ UNCHANGED handles
             /\ disk[locks[handles[h].lock].path] \notin {Absent, HostDir}
             /\ disk' = [disk EXCEPT ![locks[handles[h].lock].path] = Junk]
    <3> DEFINE l == handles[h].lock
    <3> DEFINE p == locks[l].path
    <3>1. l \in LockIds /\ State.locks[l].type = "REAL" /\ State.locks[l].path = p
          /\ State.disk = disk
      BY <2>2, <2>4, WorldFiles DEF HandleFits, HandleSet, State
    <3>2. disk[p] # HostDir /\ disk' = [disk EXCEPT ![p] = Junk]
      BY <2>4
    <3> HIDE DEF l, p
    <3>3. LockSound(State, l, NoPath)
      BY <3>1 DEF SInv, Sound, SoundBut
    <3>4. p \in Paths => ~Undisturbed
      BY <3>1, <3>2, <3>3 DEF LockSound
    <3>5. p \in Paths => FileSound(Junk)
      BY <3>4, FilesAssumption DEF FileSound, HostFile
    <3> QED BY <1>1, <1>3, <2>4, <3>2, <3>4, <3>5, DiskSound
  <2> QED BY <2>1, <2>3, <2>4
<1>5. CASE HostEdit
  <2>1. PICK p \in Paths, d \in InitDisks : disk' = [disk EXCEPT ![p] = d[p]]
    BY <1>5 DEF HostEdit
  <2>2. ~Undisturbed
    BY <1>5 DEF HostEdit, Undisturbed
  <2>3. FileSound(d[p])
    BY <2>2, DisksAssumption DEF FileSound, Unmarked
  <2>4. Sound(State')
    BY <1>1, <2>1, <2>2, <2>3, DiskSound
  <2> QED BY <1>3, <1>5, <2>4 DEF HostEdit
<1>6. CASE Die \/ UNCHANGED vars
  BY <1>2, <1>3, <1>6 DEF Die, vars
<1> QED BY <1>4, <1>5, <1>6

(* SInv holds in every reachable state: whatever fails, whoever writes the *)
(* host volume and whatever it held at first, catalogs are catalogs, locks *)
(* name rows or drawers, and writers write to names.                       *)
THEOREM Soundness == Spec => []SInv
<1>1. ASSUME SInv, [Next]_vars PROVE SInv'
  <2>1. IInv'
    <3>1. CASE \E plan \in FaultPlans :
                   \/ Locate(plan) \/ CopyDir(plan) \/ Parent(plan)
                   \/ Open(plan) \/ FhFromLock(plan) \/ Close(plan)
                   \/ Delete(plan) \/ CreateDir(plan)
      BY <1>1, <3>1, LockPackets, OpenPackets, ClosePacket DEF SInv
    <3>2. CASE FreeClientLock
      BY <1>1, <3>2, FreePacket DEF SInv
    <3>3. CASE Write \/ Die \/ HostEdit \/ UNCHANGED vars
      BY <1>1, <3>3, OtherSteps DEF SInv
    <3> QED BY <1>1, <3>1, <3>2, <3>3 DEF Next
  <2>2. Sound(State') /\ WriteHandles' /\ running' \in BOOLEAN
    <3>1. ASSUME NEW plan \in FaultPlans,
                 Locate(plan) \/ CopyDir(plan) \/ Parent(plan)
                 \/ Delete(plan) \/ CreateDir(plan)
          PROVE  Sound(State') /\ WriteHandles' /\ running' \in BOOLEAN
      <4>1. Sound(State')
        BY <1>1, <3>1, LockPacketsSound
      <4>2. handles' = handles /\ running' = running
        BY <3>1 DEF Locate, CopyDir, Parent, Delete, CreateDir
      <4> QED BY <1>1, <4>1, <4>2 DEF SInv, WriteHandles
    <3>2. ASSUME NEW plan \in FaultPlans, Open(plan) \/ FhFromLock(plan) \/ Close(plan)
          PROVE  Sound(State') /\ WriteHandles' /\ running' \in BOOLEAN
      <4>1. Sound(State') /\ WriteHandles'
        BY <1>1, <3>2, OpenPacketsSound, ClosePacketSound
      <4>2. running' = running
        BY <3>2 DEF Open, FhFromLock, Close
      <4> QED BY <1>1, <4>1, <4>2 DEF SInv
    <3>3. CASE FreeClientLock
      <4>1. Sound(State')
        BY <1>1, <3>3, FreePacketSound
      <4>2. handles' = handles /\ running' = running
        BY <3>3 DEF FreeClientLock
      <4> QED BY <1>1, <4>1, <4>2 DEF SInv, WriteHandles
    <3>4. CASE Write \/ Die \/ HostEdit \/ UNCHANGED vars
      <4>1. Sound(State') /\ WriteHandles'
        BY <1>1, <3>4, OtherStepsSound
      <4>2. running' \in {running, FALSE}
        BY <3>4 DEF Write, Die, HostEdit, vars
      <4> QED BY <1>1, <4>1, <4>2 DEF SInv
    <3> QED BY <1>1, <3>1, <3>2, <3>3, <3>4 DEF Next
  <2> QED BY <2>1, <2>2 DEF SInv
<1> QED BY <1>1, InitiallySound, PTL DEF Spec

(* Every variable keeps its shape: no path through a packet stores a code  *)
(* that is no lock, a catalog that is no catalog or a negative count.      *)
THEOREM TypeCorrect == Spec => []TypeOK
<1>1. ASSUME SInv PROVE TypeOK
  <2> DEFINE w == State
  <2>1. /\ w.disk = disk /\ w.cats = cats /\ w.arcs = arcs /\ w.locks = locks
        /\ w.fault = fault /\ w.hostLocks = hostLocks /\ w.lockCnt = lockCnt
        /\ w.usageCnt = usageCnt
    BY WorldFiles, WorldFields DEF State
  <2>2. SoundBut(w, NoPath) /\ IInv /\ running \in BOOLEAN
    BY <1>1 DEF SInv, Sound
  <2>3. Typed(w)
    BY <2>2 DEF IInv, Settled, Good
  <2> HIDE DEF w
  <2>4. disk \in [Paths -> HostFile] /\ fault \in BOOLEAN
    <3>1. disk = [p \in Paths |-> disk[p]] /\ \A p \in Paths : disk[p] \in HostFile
      BY <2>1, <2>2 DEF SoundBut, PathSound, FileSound
    <3>2. \A p \in Paths : disk[p] \in HostFile
      BY <3>1
    <3> QED BY <2>1, <2>2, <3>1 DEF SoundBut
  <2>5. cats \in [Paths -> Catalog]
    <3>1. cats = [p \in Paths |-> cats[p]]
      BY <2>1, <2>3 DEF Typed
    <3>2. \A p \in Paths : cats[p] \in Catalog
      BY <2>1, <2>2 DEF SoundBut, PathSound
    <3> QED BY <3>1, <3>2
  <2>6. arcs \in [Paths -> [ref : Nat, open : BOOLEAN, users : SUBSET LockIds]]
    <3>1. arcs \in [Paths -> ArcSet]
      BY <2>1, <2>3 DEF Typed
    <3>2. \A p \in Paths : arcs[p].ref = Cardinality(UsersOf(p))
      BY <2>2, Reading
    <3>3. \A p \in Paths : Cardinality(UsersOf(p)) \in Nat
      BY LocksFinite DEF UsersOf
    <3> QED BY <3>1, <3>2, <3>3 DEF ArcSet
  <2>7. locks \in [LockIds -> [type : LockTypes,
                             path : Paths \cup {Volume, NoPath},
                             entry : Names \cup {<<>>},
                             lh : Nat \cup {ROOT_DIR, SYNTH_DIR, DANGLING}]]
    <3>1. locks \in [LockIds -> LockSet]
      BY <2>1, <2>3 DEF Typed
    <3>2. \A l \in LockIds : locks[l].lh \in LhValues
      BY <2>1, <2>2 DEF SoundBut, LockSound
    <3> QED BY <3>1, <3>2 DEF LockSet, LhValues
  <2>8. hostLocks \in Nat /\ lockCnt \in Nat /\ usageCnt \in Nat
    <3>1. /\ lockCnt = Cardinality({l \in LockIds : locks[l].type # "free"})
          /\ usageCnt = lockCnt + Opens
          /\ hostLocks = Cardinality({l \in LockIds : locks[l].type = "REAL"})
      BY <2>2, Reading
    <3>2. /\ Cardinality({l \in LockIds : locks[l].type # "free"}) \in Nat
          /\ Cardinality({l \in LockIds : locks[l].type = "REAL"}) \in Nat
          /\ Opens \in Nat
      BY LocksFinite, OpensNat
    <3> QED BY <3>1, <3>2
  <2>9. handles \in [HandleIds -> HandleSet]
    BY <2>2 DEF IInv, HandlesOk
  <2> QED BY <2>2, <2>4, <2>5, <2>6, <2>7, <2>8, <2>9 DEF TypeOK, HandleSet
<1> QED BY <1>1, Soundness, PTL

(* Undisturbed, every lock of a loaded archive is bound to the row its     *)
(* entry has in the picture the archive has now, whatever was created,     *)
(* deleted or closed through any other lock: lh_arc.c rebinds all of them. *)
THEOREM Tracking == ASSUME Undisturbed PROVE Spec => []LocksTrackCatalog
<1>1. ASSUME SInv PROVE LocksTrackCatalog
  <2> SUFFICES ASSUME NEW p \in Paths, NEW l \in arcs[p].users
               PROVE  locks[l].lh = IF arcs[p].open THEN lh_arc_lock(cats[p], locks[l].entry)
                                    ELSE ZERO
    BY DEF LocksTrackCatalog
  <2>1. l \in LockIds /\ locks[l].type \in {"ARCHIVE", "ENTRY"} /\ locks[l].path = p
    BY <1>1, Reading DEF SInv, UsersOf
  <2>2. LockSound(State, l, NoPath)
    BY <1>1, <2>1 DEF SInv, Sound, SoundBut
  <2>3. State.locks = locks /\ State.arcs = arcs /\ State.cats = cats
    BY WorldFiles DEF State
  <2>4. p # NoPath
    BY PathsAssumption
  <2> QED BY <2>1, <2>2, <2>3, <2>4 DEF LockSound, LhLock
<1> QED BY <1>1, Soundness, PTL

(* Undisturbed, the memory image of an open archive never lags behind the  *)
(* handler's own writes of the file.                                       *)
THEOREM Coherence ==
    ASSUME Undisturbed, MaxEntries > 0
    PROVE  Spec => []CacheCoherent
<1>1. ASSUME SInv PROVE CacheCoherent
  <2>1. \A p \in Paths : PathSound(State, p, NoPath) /\ p # NoPath
    BY <1>1, PathsAssumption DEF SInv, Sound, SoundBut
  <2>2. State.disk = disk /\ State.arcs = arcs /\ State.cats = cats
    BY WorldFiles DEF State
  <2> QED BY <2>1, <2>2 DEF PathSound, CacheCoherent
<1> QED BY <1>1, Soundness, PTL

(* Undisturbed, closing a writer stores what it buffered as the last entry *)
(* of its archive, whatever happened to the archive, to its other locks    *)
(* and to the writer's own entry since it was opened.                      *)
THEOREM StoredOnClose ==
    ASSUME Undisturbed, Unmarked
    PROVE  Spec => CloseStoresData
<1> DEFINE StoresData ==
        \A h \in HandleIds :
            LET hh == handles[h]
                p == locks[hh.lock].path
            IN hh.kind = "write" /\ handles'[h].kind = "free" /\ disk[p] # HostDir =>
                /\ disk'[p] \in Archive
                /\ \/ Len(disk'[p].cat) >= MaxEntries
                   \/ /\ disk'[p].cat # <<>>
                      /\ disk'[p].cat[Len(disk'[p].cat)] = FileEntry(hh.entry, hh.buf)
<1>1. ASSUME SInv, [Next]_vars PROVE [StoresData]_vars
  <2>0. handles \in [HandleIds -> HandleSet]
    BY <1>1 DEF SInv, IInv, HandlesOk
  <2>1. ASSUME \A h \in HandleIds : handles[h].kind = "write" => handles'[h].kind # "free"
        PROVE  StoresData
    BY <2>1
  <2>2. ASSUME NEW plan \in FaultPlans, Close(plan)
        PROVE  StoresData
    <3>1. PICK h \in OpenHandles :
              /\ handles' = [handles EXCEPT ![h] = FreeHandle]
              /\ handles[h].kind = "write" =>
                     Stored(State, State', locks[handles[h].lock].path,
                            FileEntry(handles[h].entry, handles[h].buf))
      BY <1>1, <2>2, ClosePacketSound
    <3>2. State.disk = disk /\ State'.disk = disk'
      BY DEF State, World
    <3> SUFFICES ASSUME NEW g \in HandleIds, handles[g].kind = "write",
                        handles'[g].kind = "free",
                        disk[locks[handles[g].lock].path] # HostDir
                 PROVE  LET p == locks[handles[g].lock].path IN
                        /\ disk'[p] \in Archive
                        /\ \/ Len(disk'[p].cat) >= MaxEntries
                           \/ /\ disk'[p].cat # <<>>
                              /\ disk'[p].cat[Len(disk'[p].cat)] =
                                     FileEntry(handles[g].entry, handles[g].buf)
      OBVIOUS
    <3>3. g = h
      BY <2>0, <3>1
    <3> QED BY <3>1, <3>2, <3>3 DEF Stored
  <2>3. ASSUME NEW plan \in FaultPlans, Open(plan) \/ FhFromLock(plan)
        PROVE  StoresData
    <3>1. \E h \in HandleIds \ OpenHandles : \E hh : handles' = [handles EXCEPT ![h] = hh]
      BY <2>3 DEF Open, FhFromLock
    <3>2. PICK h \in HandleIds \ OpenHandles : \E hh : handles' = [handles EXCEPT ![h] = hh]
      BY <3>1
    <3>3. \A g \in HandleIds : handles[g].kind = "write" => handles'[g] = handles[g]
      BY <2>0, <3>2 DEF OpenHandles
    <3> QED BY <2>1, <3>3
  <2>4. CASE Write
    <3>1. \A g \in HandleIds : handles'[g].kind = handles[g].kind
      <4>1. CASE handles' = handles
        BY <4>1
      <4>2. CASE handles' # handles
        <5>1. PICK h \in OpenHandles, c \in Chunks :
                  handles' = [handles EXCEPT ![h].buf = Append(@, c)]
          BY <2>4, <4>2 DEF Write
        <5> DEFINE b == Append(handles[h].buf, c)
        <5>2. handles' = [handles EXCEPT ![h].buf = b]
          BY <5>1
        <5> HIDE DEF b
        <5> QED BY <2>0, <5>2 DEF HandleSet, OpenHandles
      <4> QED BY <4>1, <4>2
    <3> QED BY <2>1, <3>1
  <2>5. ASSUME handles' = handles
        PROVE  StoresData
    BY <2>1, <2>5
  <2>6. CASE \E plan \in FaultPlans :
                 \/ Locate(plan) \/ CopyDir(plan) \/ Parent(plan)
                 \/ Delete(plan) \/ CreateDir(plan)
    BY <2>5, <2>6 DEF Locate, CopyDir, Parent, Delete, CreateDir
  <2>7. CASE FreeClientLock \/ Die \/ HostEdit
    BY <2>5, <2>7 DEF FreeClientLock, Die, HostEdit
  <2> HIDE DEF StoresData
  <2> QED BY <1>1, <2>2, <2>3, <2>4, <2>6, <2>7 DEF Next
<1>2. CloseStoresData <=> [][StoresData]_vars
  BY DEF CloseStoresData
<1> QED BY <1>1, <1>2, Soundness, PTL DEF Spec
=============================================================================

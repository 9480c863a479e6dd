----------------------------- MODULE LhScan -----------------------------
(***************************************************************************)
(* Listings and renames of one cached archive: EXAMINE_OBJECT, EXAMINE_NEXT *)
(* and EXAMINE_ALL on locks of it (lh-handler.c) down to the cursors of     *)
(* lh.library (lh_archive_dos.c), while other packets delete, add and       *)
(* rename entries.  A listing is many packets, and what it goes on from is  *)
(* a row number; a rename is one packet, but many rewrites of the file, and *)
(* each of its steps may fail.                                              *)
(***************************************************************************)
EXTENDS LhCatalog

CONSTANTS
    LockIds,      \* locks of clients on the archive
    NoName,       \* no placeholder icon is queued
    InitDisks,    \* what the archive may hold at first
    Additions,    \* entries that writers and CREATE_DIR add
    MaxEntries,   \* bound: entries the volume has room for
    MaxChanges,   \* bound: deletes, commits and renames
    MaxMishaps    \* bound: failing calls inside deletes and renames

ASSUME ScanAssumption ==
    /\ NoName \notin Names
    /\ InitDisks \subseteq Catalog
    /\ Additions \subseteq Entry
    /\ {MaxEntries, MaxChanges, MaxMishaps} \subseteq Nat

VARIABLES
    disk,      \* the entries of the archive file, or of the temporary that a
               \* rewrite could not rename into the place of the archive
    arc,       \* how the archive stands: "open"; "stale", where the catalog is
               \* that of the file before; "gone", where only the temporary is
               \* left; "closed", where nothing could be loaded any more
    cat,       \* the catalog in memory (LhHArc.archive)
    locks,     \* LhHLock with its LhLock: path, entry_index, iterate_index
               \* (counted from 1, 0 before the first row), exall_aborted,
               \* pending_info
    scans,     \* history: what each lock's last listing has shown
    job,       \* the rename that lhh_rename_name is working on
    changes, mishaps

vars == <<disk, arc, cat, locks, scans, job, changes, mishaps>>

FreeLock == [open |-> FALSE, at |-> <<>>, lh |-> ZERO, cursor |-> 0,
             aborted |-> FALSE, pending |-> NoName]
(* by: the packet that lists; key: eac_LastKey; names, icons: what was     *)
(* shown; last: the child shown before; twice, stray: something was shown  *)
(* again, an icon not right behind its drawer; held: the children that     *)
(* were there all along; steady: it began at the first row and nothing has *)
(* changed; whole: every change so far made it begin again.                *)
NoScan == [by |-> "none", key |-> 0, names |-> {}, icons |-> {}, last |-> NoName,
           twice |-> FALSE, stray |-> FALSE, held |-> {}, steady |-> FALSE,
           whole |-> FALSE, ended |-> TRUE]
NoJob == [on |-> FALSE, from |-> <<>>, to |-> <<>>, todo |-> {}, moved |-> FALSE,
          start |-> <<>>, unlucky |-> {}, dropped |-> {}]

Init ==
    /\ disk \in InitDisks
    /\ arc = "open"
    /\ cat = disk
    /\ locks = [l \in LockIds |-> FreeLock]
    /\ scans = [l \in LockIds |-> NoScan]
    /\ job = NoJob
    /\ changes = 0
    /\ mishaps = 0

-----------------------------------------------------------------------------
(* The children of a directory, as rows of a catalog.                      *)

(* lh_child_leaf_from_entry: the child of d that row i speaks of.          *)
Leaf(c, d, i) == SubSeq(c[i].name, 1, Len(d) + 1)

(* Wrong on purpose: only the row just before is looked at.                *)
SeenJustBefore(c, d, i) ==
    /\ i > 1
    /\ IsUnder(c[i - 1].name, d)
    /\ Leaf(c, d, i - 1) = Leaf(c, d, i)

lh_leaf_seen_before(c, d, i) ==
    \E j \in 1 .. i - 1 : IsUnder(c[j].name, d) /\ Leaf(c, d, j) = Leaf(c, d, i)

(* The rows a listing of d stops at, behind row k.                         *)
RowsAfter(c, d, k) ==
    {i \in k + 1 .. Len(c) : IsUnder(c[i].name, d) /\ ~lh_leaf_seen_before(c, d, i)}

FirstOf(rows) == CHOOSE i \in rows : \A j \in rows : i <= j

(* A deeper path makes its child a directory, and so does an -lhd- header. *)
ListedAsDir(c, d, i) == c[i].name # Leaf(c, d, i) \/ c[i].kind = "dir"

(* queue_pending_info: the child whose x.info is shown next.               *)
IconAfter(c, d, i) ==
    IF ListedAsDir(c, d, i) /\ Leaf(c, d, i) \notin DOMAIN IconBase
    THEN Leaf(c, d, i) ELSE NoName

ChildRows(c, d) == {i \in 1 .. Len(c) : IsUnder(c[i].name, d)}
Children(c, d) == {Leaf(c, d, i) : i \in ChildRows(c, d)}

-----------------------------------------------------------------------------
(* Locks and listings.  The handler serves nobody else during a rename.    *)

Quiet == ~job.on

(* ACTION_LOCATE_OBJECT of something in the archive.                       *)
Locate(l, n) ==
    /\ Quiet /\ ~locks[l].open
    /\ arc # "closed" /\ lh_arc_lock(cat, n) # ZERO
    /\ locks' = [locks EXCEPT ![l] =
                    [FreeLock EXCEPT !.open = TRUE, !.at = n, !.lh = lh_arc_lock(cat, n)]]
    /\ UNCHANGED <<disk, arc, cat, scans, job, changes, mishaps>>

(* ACTION_FREE_LOCK.                                                       *)
Free(l) ==
    /\ Quiet /\ locks[l].open
    /\ locks' = [locks EXCEPT ![l] = FreeLock]
    /\ scans' = [scans EXCEPT ![l] = NoScan]
    /\ UNCHANGED <<disk, arc, cat, job, changes, mishaps>>

Scanning(l, by) == scans[l].by = by /\ ~scans[l].ended

(* lh_arc_examine moves the cursor of a directory back.  For the archive   *)
(* itself the handler does not call it: examine_archive_fib only fills the *)
(* block.                                                                  *)
Examined(lock) ==
    IF lock.lh # ROOT_DIR /\ IsDirectory(cat, lock.lh)
    THEN [lock EXCEPT !.cursor = 0] ELSE lock

(* ACTION_EXAMINE_OBJECT, which a listing begins with.                     *)
ExamineObject(l) ==
    LET lock == Examined(locks[l])
        atFirst == lock.cursor = 0 /\ IsDirectory(cat, lock.lh)
    IN /\ Quiet /\ locks[l].open /\ scans[l].ended
       /\ lock.lh \in {ROOT_DIR, SYNTH_DIR} \cup 1 .. Len(cat)
       /\ locks' = [locks EXCEPT ![l] = lock]
       /\ scans' = [scans EXCEPT ![l] =
                       [NoScan EXCEPT !.by = "next", !.ended = FALSE,
                                      !.held = Children(cat, lock.at),
                                      !.steady = atFirst /\ lock.pending = NoName,
                                      !.whole = atFirst]]
       /\ UNCHANGED <<disk, arc, cat, job, changes, mishaps>>

(* LhExNext: the lock after the next child, or none.                       *)
lh_fill_next_child(lock) ==
    IF IsDirectory(cat, lock.lh) THEN RowsAfter(cat, lock.at, lock.cursor) ELSE {}

(* Wrong on purpose: the cursor stays.                                     *)
StuckAt(lock, i) == [lock EXCEPT !.pending = IconAfter(cat, lock.at, i)]

MovedTo(lock, i) ==
    [lock EXCEPT !.cursor = i, !.pending = IconAfter(cat, lock.at, i)]

Shown(scan, ns) ==
    [scan EXCEPT !.names = @ \cup ns, !.twice = @ \/ ns \cap scan.names # {}]
ShownChild(scan, n) == [Shown(scan, {n}) EXCEPT !.last = n]
ShownIcon(scan, n) ==
    [scan EXCEPT !.icons = @ \cup {n}, !.last = NoName,
                 !.twice = @ \/ n \in scan.icons, !.stray = @ \/ n # scan.last]

(* ACTION_EXAMINE_NEXT: a queued icon first, then the next child.          *)
ExamineNext(l) ==
    LET lock == locks[l]
        rows == lh_fill_next_child(lock)
        i == FirstOf(rows)
    IN /\ Quiet /\ Scanning(l, "next")
       /\ \/ /\ lock.pending # NoName
             /\ locks' = [locks EXCEPT ![l].pending = NoName]
             /\ scans' = [scans EXCEPT ![l] = ShownIcon(@, lock.pending)]
          \/ /\ lock.pending = NoName /\ rows # {}
             /\ locks' = [locks EXCEPT ![l] = MovedTo(lock, i)]
             /\ scans' = [scans EXCEPT ![l] = ShownChild(@, Leaf(cat, lock.at, i))]
          \/ /\ lock.pending = NoName /\ rows = {}
             /\ scans' = [scans EXCEPT ![l].ended = TRUE]
             /\ UNCHANGED locks
       /\ UNCHANGED <<disk, arc, cat, job, changes, mishaps>>

(* A client clears its ExAllControl.                                       *)
BeginAll(l) ==
    /\ Quiet /\ locks[l].open /\ scans[l].ended
    /\ scans' = [scans EXCEPT ![l] =
                    [NoScan EXCEPT !.by = "all", !.ended = FALSE,
                                   !.steady = /\ IsDirectory(cat, locks[l].lh)
                                              /\ ~locks[l].aborted]]
    /\ UNCHANGED <<disk, arc, cat, locks, job, changes, mishaps>>

(* ACTION_EXAMINE_ALL with a buffer that is full behind row k: what is no  *)
(* directory is refused, an aborted listing has no more entries, and       *)
(* otherwise the key is left at the row that did not fit, or behind the    *)
(* last one.                                                               *)
ExamineAll(l, k) ==
    LET lock == locks[l]
        rows == RowsAfter(cat, lock.at, scans[l].key)
        now == {i \in rows : i <= k}
        left == rows \ now
    IN /\ Quiet /\ Scanning(l, "all")
       /\ \/ /\ ~IsDirectory(cat, lock.lh)
             /\ scans' = [scans EXCEPT ![l].ended = TRUE]
             /\ UNCHANGED locks
          \/ /\ IsDirectory(cat, lock.lh) /\ lock.aborted
             /\ locks' = [locks EXCEPT ![l].aborted = FALSE]
             /\ scans' = [scans EXCEPT ![l].ended = TRUE]
          \/ /\ IsDirectory(cat, lock.lh) /\ ~lock.aborted
             /\ scans' = [scans EXCEPT ![l] =
                    [Shown(@, {Leaf(cat, lock.at, i) : i \in now}) EXCEPT
                        !.key = IF left = {} THEN Len(cat) ELSE FirstOf(left) - 1,
                        !.ended = left = {}]]
             /\ UNCHANGED locks
       /\ UNCHANGED <<disk, arc, cat, job, changes, mishaps>>

(* ACTION_EXAMINE_ALL_END of a listing that goes on.                       *)
ExamineAllEnd(l) ==
    /\ Quiet /\ Scanning(l, "all")
    /\ locks' = [locks EXCEPT ![l].aborted = locks[l].lh # ZERO]
    /\ scans' = [scans EXCEPT ![l] = NoScan]
    /\ UNCHANGED <<disk, arc, cat, job, changes, mishaps>>

-----------------------------------------------------------------------------
(* What changes the archive.                                               *)

(* Wrong on purpose: the new LhLock goes on where the old one was.         *)
ReboundInPlace(c, lock) ==
    IF lock.open THEN [lock EXCEPT !.lh = lh_arc_lock(c, lock.at)] ELSE lock

(* The catalog is replaced and every lock gets a new LhLock: it begins     *)
(* again at the first row, and its listing with it.  An entry that is gone *)
(* leaves the lock without one.                                            *)
Rebound(c, lock) ==
    IF lock.open THEN [lock EXCEPT !.lh = lh_arc_lock(c, lock.at), !.cursor = 0, !.aborted = FALSE]
    ELSE lock

Disturbed(c, scan, d, whole) ==
    IF scan.ended THEN NoScan
    ELSE [scan EXCEPT !.held = @ \cap Children(c, d), !.steady = FALSE, !.whole = whole]

lhh_arc_refresh(c) ==
    /\ cat' = c /\ arc' = "open"
    /\ locks' = [l \in LockIds |-> Rebound(c, locks[l])]
    /\ scans' = [l \in LockIds |->
                    Disturbed(c, scans[l], locks[l].at,
                              IsDirectory(c, lh_arc_lock(c, locks[l].at)))]

(* There is no archive to load: the catalog is freed, and every lock is    *)
(* left without an entry.                                                  *)
RefreshFails ==
    /\ cat' = <<>> /\ arc' = "closed"
    /\ locks' = [l \in LockIds |-> [Rebound(<<>>, locks[l]) EXCEPT !.lh = ZERO]]
    /\ scans' = [l \in LockIds |-> Disturbed(<<>>, scans[l], locks[l].at, FALSE)]

(* The library replaces the catalog under the locks: rows have moved, and  *)
(* cursors stay.                                                           *)
RebuiltInPlace(c) ==
    /\ cat' = c /\ arc' = "open"
    /\ scans' = [l \in LockIds |->
                    IF c = cat THEN scans[l] ELSE Disturbed(c, scans[l], locks[l].at, FALSE)]
    /\ UNCHANGED locks

Change == Quiet /\ changes < MaxChanges /\ changes' = changes + 1
Mishap == mishaps < MaxMishaps /\ mishaps' = mishaps + 1

(* An archive that is gone cannot be rewritten.                            *)
Present == arc \in {"open", "stale"}

(* END of a writer, or CREATE_DIR: the entry is appended and the archive   *)
(* loaded again.  One that is not there is made anew.                      *)
Commit(e) ==
    /\ Change /\ Len(disk) < MaxEntries
    /\ disk' = IF Present THEN Append(disk, e) ELSE <<e>>
    /\ lhh_arc_refresh(disk')
    /\ UNCHANGED <<job, mishaps>>

(* The same for one that is there, when its Lock fails.                    *)
CommitAnew(e) ==
    /\ Change /\ Mishap
    /\ disk' = <<e>>
    /\ lhh_arc_refresh(disk')
    /\ UNCHANGED job

(* DELETE_OBJECT of an entry.                                              *)
Delete(n) ==
    /\ Change /\ Present /\ lh_arc_lock(cat, n) # ZERO
    /\ disk' = lh_archive_rewrite(disk, n)
    /\ lhh_arc_refresh(disk')
    /\ UNCHANGED <<job, mishaps>>

(* A read that fails behind row k is taken for the archive's end: the rest *)
(* is dropped, and all else goes on as usual.                              *)
DeleteCut(n, k) ==
    /\ Change /\ Mishap /\ Present /\ lh_arc_lock(cat, n) # ZERO
    /\ k < Len(disk)
    /\ disk' = lh_archive_rewrite(SubSeq(disk, 1, k), n)
    /\ lhh_arc_refresh(disk')
    /\ UNCHANGED job

(* Memory runs out while lh_arc_delete_entry rebuilds the catalog behind   *)
(* row k: the handler reports an error and does not refresh.               *)
DeleteUnbuilt(n, k) ==
    /\ Change /\ Mishap /\ arc = "open" /\ lh_arc_lock(cat, n) # ZERO
    /\ disk' = lh_archive_rewrite(disk, n)
    /\ k < Len(disk')
    /\ RebuiltInPlace(SubSeq(disk', 1, k))
    /\ UNCHANGED job

(* The rewrite deletes the archive and cannot rename the temporary, or it  *)
(* succeeds and the archive cannot be opened again; nothing is refreshed.  *)
DeleteUnopened(n) ==
    /\ Change /\ Mishap /\ Present /\ lh_arc_lock(cat, n) # ZERO
    /\ disk' = lh_archive_rewrite(disk, n)
    /\ \/ arc' = "gone"
       \/ arc = "open" /\ arc' = "stale"
    /\ UNCHANGED <<cat, locks, scans, job>>

-----------------------------------------------------------------------------
(* RENAME_OBJECT inside the archive.                                       *)

(* The nested listing of lhh_rename_collect goes down into a child if it   *)
(* is listed as a directory and LhLock finds one.                          *)
ListedRow(c, n) == FirstOf({i \in 1 .. Len(c) :
                        /\ IsUnder(c[i].name, SubSeq(n, 1, Len(n) - 1))
                        /\ Leaf(c, SubSeq(n, 1, Len(n) - 1), i) = n})
Listed(c, n) == lh_arc_lock(c, n) # ZERO
DirInWalk(c, n) ==
    ListedAsDir(c, SubSeq(n, 1, Len(n) - 1), ListedRow(c, n))
Walked(c, n) ==
    /\ Listed(c, n)
    /\ \A k \in 1 .. Len(n) - 1 :
         LET d == SubSeq(n, 1, k) IN DirInWalk(c, d) /\ IsDirectory(c, lh_arc_lock(c, d))

(* lhh_rename_prefix_match, lhh_rename_rebuild.                            *)
Moves(n, from) == n = from \/ IsUnder(n, from)
Renamed(n, from, to) == to \o SubSeq(n, Len(from) + 1, Len(n))

(* Wrong on purpose: the listing does not go down.                         *)
CollectFlat(c, from, to) ==
    {<<n, Renamed(n, from, to)>> : n \in
        {n \in Names : Moves(n, from) /\ Walked(c, n) /\ Len(n) = 1}}

(* The pairs to rename: files, and of directories the named one only.  A   *)
(* name that would become too long is left out.                            *)
lhh_rename_collect(c, from, to) ==
    {p \in {<<n, Renamed(n, from, to)>> : n \in
                {n \in Names : /\ Moves(n, from) /\ Walked(c, n)
                               /\ DirInWalk(c, n) => n = from}} :
        p[2] \in Names}

(* An existing name is refused, and so is a parent that is not there.      *)
StartRename(from, to) ==
    LET lh == lh_arc_lock(cat, from)
    IN /\ Change /\ Present
       /\ lh # ZERO /\ lh_arc_lock(cat, to) = ZERO
       /\ lh_arc_lock(cat, SubSeq(to, 1, Len(to) - 1)) # ZERO
       /\ job' = [NoJob EXCEPT !.on = TRUE, !.from = from, !.to = to,
                     !.start = IF arc = "open" /\ cat = disk THEN disk ELSE <<>>,
                     !.todo = IF IsDirectory(cat, lh) THEN lhh_rename_collect(cat, from, to)
                              ELSE {<<from, to>>}]
       /\ UNCHANGED <<disk, arc, cat, locks, scans, mishaps>>

(* LhReadData: no data for a directory, an empty file or an implied name.  *)
(* The header offsets of a stale catalog lead to no entry or to any.       *)
DataOf(c, n) ==
    IF Matching(c, n) = {} THEN <<>> ELSE c[lh_find_entry_index(c, n)].data
DataRead(n) ==
    IF arc = "stale" THEN {<<>>} \cup {disk[i].data : i \in 1 .. Len(disk)}
    ELSE {DataOf(cat, n)}

(* What rename_one adds under the new name.                                *)
Readded(n, data) == IF data = <<>> THEN DirEntry(n) ELSE FileEntry(n, data)

Without(p) == [job EXCEPT !.todo = @ \ {p}]
Unlucky(p) == [Without(p) EXCEPT !.unlucky = @ \cup {p[1]}]
NamesOf(c) == {c[i].name : i \in 1 .. Len(c)}

(* Wrong on purpose: the data is read from where the entry was.            *)
ReadLate(p) ==
    /\ job.on /\ p \in job.todo /\ Present
    /\ LET kept == lh_archive_rewrite(disk, p[1])
       IN /\ disk' = Append(kept, Readded(p[2], DataOf(kept, p[1])))
          /\ RebuiltInPlace(kept)
    /\ job' = [Without(p) EXCEPT !.moved = TRUE]
    /\ UNCHANGED <<changes, mishaps>>

(* lhh_arc_rename_one to its end: read, delete, which rebuilds the catalog *)
(* in place, and append, which the catalog does not show.  kept is what    *)
(* the archive holds before the append, listed what the catalog does; the  *)
(* data is not read, or read wrong, where the catalog does not show the    *)
(* file as it is.                                                          *)
Readds(p, kept, listed) ==
    \E data \in DataRead(p[1]) :
        /\ disk' = Append(kept, Readded(p[2], data))
        /\ RebuiltInPlace(listed)
        /\ job' = [IF data = DataOf(disk, p[1]) THEN Without(p) ELSE Unlucky(p) EXCEPT
                      !.moved = TRUE,
                      !.dropped = @ \cup (NamesOf(disk) \ (NamesOf(kept) \cup {p[1]}))]
        /\ UNCHANGED changes

RenameOne(p) ==
    /\ job.on /\ p \in job.todo /\ Present /\ UNCHANGED mishaps
    /\ LET kept == lh_archive_rewrite(disk, p[1]) IN Readds(p, kept, kept)

(* Three failing calls that it does not notice.  A read of the rewrite     *)
(* that fails behind row k is taken for the archive's end, and the rest is *)
(* dropped;                                                                *)
RenameCut(p, k) ==
    /\ job.on /\ p \in job.todo /\ Present /\ Mishap
    /\ k < Len(disk)
    /\ LET kept == lh_archive_rewrite(SubSeq(disk, 1, k), p[1]) IN Readds(p, kept, kept)

(* a read that fails while the catalog is rebuilt breaks that off likewise; *)
RenameUnlisted(p, k) ==
    /\ job.on /\ p \in job.todo /\ Present /\ Mishap
    /\ LET kept == lh_archive_rewrite(disk, p[1])
       IN k < Len(kept) /\ Readds(p, kept, SubSeq(kept, 1, k))

(* a Lock that fails before the append stands for no archive: a new one.   *)
RenameAnew(p) ==
    /\ job.on /\ p \in job.todo /\ Present /\ Mishap
    /\ Readds(p, <<>>, lh_archive_rewrite(disk, p[1]))

(* The data cannot be read: the entry becomes a directory.  (Without a     *)
(* reader nobody rebuilds a stale catalog.)                                *)
RenameUnread(p) ==
    /\ job.on /\ p \in job.todo /\ Present /\ Mishap
    /\ LET kept == lh_archive_rewrite(disk, p[1])
       IN /\ disk' = Append(kept, DirEntry(p[2]))
          /\ \/ RebuiltInPlace(kept)
             \/ arc = "stale" /\ UNCHANGED <<arc, cat, locks, scans>>
    /\ job' = [Unlucky(p) EXCEPT !.moved = TRUE]
    /\ UNCHANGED changes

(* The rewrite fails and leaves the file; the catalog is built again.      *)
RenameUndeleted(p) ==
    /\ job.on /\ p \in job.todo /\ Present /\ Mishap
    /\ RebuiltInPlace(disk)
    /\ job' = Without(p)
    /\ UNCHANGED <<disk, changes>>

(* The rewrite succeeds and its catalog breaks off behind row k, or the    *)
(* append fails (k is the last row then): the entry is gone.               *)
RenameLost(p, k) ==
    /\ job.on /\ p \in job.todo /\ Present /\ Mishap
    /\ disk' = lh_archive_rewrite(disk, p[1])
    /\ k <= Len(disk')
    /\ RebuiltInPlace(SubSeq(disk', 1, k))
    /\ job' = Unlucky(p)
    /\ UNCHANGED changes

(* The rewrite deletes the archive and cannot rename the temporary, or the *)
(* new archive cannot be opened for its catalog.                           *)
RenameUnopened(p) ==
    /\ job.on /\ p \in job.todo /\ Present /\ Mishap
    /\ disk' = lh_archive_rewrite(disk, p[1])
    /\ arc' \in {"gone", "stale"}
    /\ job' = Unlucky(p)
    /\ UNCHANGED <<cat, locks, scans, changes>>

(* Once the archive is gone every further step fails at once.              *)
RenameDenied(p) ==
    /\ job.on /\ p \in job.todo /\ arc = "gone"
    /\ job' = Without(p)
    /\ UNCHANGED <<disk, arc, cat, locks, scans, changes, mishaps>>

(* The archive is loaded again if anything was renamed.                    *)
EndRename ==
    /\ job.on /\ job.todo = {}
    /\ \/ job.moved /\ Present /\ lhh_arc_refresh(disk)
       \/ job.moved /\ arc = "gone" /\ RefreshFails
       \/ ~job.moved /\ UNCHANGED <<arc, cat, locks, scans>>
    /\ job' = NoJob
    /\ UNCHANGED <<disk, changes, mishaps>>

-----------------------------------------------------------------------------
Next ==
    \/ \E l \in LockIds :
        \/ \E n \in Names \cup {<<>>} : Locate(l, n)
        \/ Free(l)
        \/ ExamineObject(l)
        \/ ExamineNext(l)
        \/ BeginAll(l)
        \/ \E k \in 0 .. Len(cat) : ExamineAll(l, k)
        \/ ExamineAllEnd(l)
    \/ \E e \in Additions : Commit(e) \/ CommitAnew(e)
    \/ \E n \in Names :
        \/ Delete(n)
        \/ DeleteUnopened(n)
        \/ \E k \in 0 .. Len(disk) : DeleteCut(n, k) \/ DeleteUnbuilt(n, k)
    \/ \E from, to \in Names : StartRename(from, to)
    \/ \E p \in job.todo :
        \/ RenameOne(p)
        \/ RenameUnread(p)
        \/ RenameAnew(p)
        \/ RenameUndeleted(p)
        \/ RenameUnopened(p)
        \/ RenameDenied(p)
        \/ \E k \in 0 .. Len(disk) :
            RenameCut(p, k) \/ RenameUnlisted(p, k) \/ RenameLost(p, k)
    \/ EndRename

(* A client that has begun a listing asks until it ends, and the handler   *)
(* works on a rename until it is done.                                     *)
Fairness ==
    /\ \A l \in LockIds : WF_vars(ExamineNext(l))
    /\ \A l \in LockIds : WF_vars(\E k \in 0 .. Len(cat) : ExamineAll(l, k))
    /\ WF_vars(\E p \in job.todo : RenameOne(p) \/ RenameDenied(p))
    /\ WF_vars(EndRename)

Spec == Init /\ [][Next]_vars /\ Fairness

-----------------------------------------------------------------------------
TypeOK ==
    /\ disk \in Catalog
    /\ arc \in {"open", "stale", "gone", "closed"}
    /\ cat \in Catalog
    /\ locks \in [LockIds -> [open : BOOLEAN, at : Names \cup {<<>>}, lh : Int,
                               cursor : Nat, aborted : BOOLEAN, pending : Names \cup {NoName}]]
    /\ scans \in [LockIds -> [by : {"none", "next", "all"}, key : Nat,
                               names : SUBSET Names, icons : SUBSET Names,
                               last : Names \cup {NoName}, twice : BOOLEAN, stray : BOOLEAN,
                               held : SUBSET Names, steady : BOOLEAN, whole : BOOLEAN,
                               ended : BOOLEAN]]
    /\ job \in [on : BOOLEAN, from : Names \cup {<<>>}, to : Names \cup {<<>>},
                 todo : SUBSET (Names \X Names), moved : BOOLEAN, start : Catalog,
                 unlucky : SUBSET Names, dropped : SUBSET Names]
    /\ changes \in 0 .. MaxChanges
    /\ mishaps \in 0 .. MaxMishaps

(* A listing during which nothing changes shows each child once, the icon  *)
(* of each drawer right behind it, and when it ends it has shown them all: *)
(* lh_fill_next_child and lh_arc_exall skip what they have shown by its    *)
(* name, and EXAMINE_NEXT keeps one icon between two calls.                *)
Icons(c, d) == {IconAfter(c, d, i) : i \in RowsAfter(c, d, 0)} \ {NoName}
ListsEachOnce ==
    \A l \in LockIds : scans[l].steady =>
        LET d == locks[l].at IN
        /\ ~scans[l].twice /\ ~scans[l].stray
        /\ scans[l].names \subseteq Children(cat, d)
        /\ scans[l].icons \subseteq Icons(cat, d)
        /\ scans[l].ended => /\ scans[l].names = Children(cat, d)
                             /\ scans[l].by = "next" => scans[l].icons = Icons(cat, d)

(* However often the archive changes under an EXAMINE_NEXT listing, it     *)
(* misses no child that is there from its beginning to its end, as long as *)
(* each change refreshes the locks and leaves a directory to list.         *)
NothingMissed ==
    \A l \in LockIds :
        scans[l].by = "next" /\ scans[l].ended /\ scans[l].whole =>
            scans[l].held \subseteq scans[l].names

(* A rename whose calls all succeed leaves every file that has data and    *)
(* that a listing reaches and shows as a file readable: under its new name *)
(* if it moves and there is room for that name, under its old one if not.  *)
(* (Where an archive has both x and x/y, and x/y first, x is shown as a    *)
(* drawer, and a rename of what is above it leaves it behind.)             *)
FilesOf(c) == {n \in Names : Walked(c, n) /\ DataOf(c, n) # <<>>}
Target(n) == IF Moves(n, job.from) /\ Renamed(n, job.from, job.to) \in Names
             THEN Renamed(n, job.from, job.to) ELSE n
RenameMovesAll ==
    [][EndRename /\ job.unlucky = {} /\ mishaps = 0 =>
        \A n \in FilesOf(job.start) :
            (DirInWalk(job.start, n) => n = job.from) =>
                DataOf(disk, Target(n)) = DataOf(job.start, n)]_vars

(* At every moment of a rename each file is there with its data under its  *)
(* old name or its new one: in the archive, or, where a rewrite has deleted *)
(* that and could not rename its temporary, in the temporary.  Excepted    *)
(* are files the code does lose.  unlucky: its own data could not be read  *)
(* or added again, be it that one failing call broke off the catalog or    *)
(* left it stale before the file's turn came.  dropped: a failing read     *)
(* ended the rewrite before it, or a failing Lock made the archive anew,   *)
(* and nobody noticed.  (Of a rename that begins on a catalog that is not  *)
(* the file's nothing is said: start is empty then.)                       *)
RenameKeepsOthers ==
    job.on => \A n \in FilesOf(job.start) \ job.unlucky :
        {n, Target(n)} \cap job.dropped = {} =>
            DataOf(job.start, n) \in {DataOf(disk, n), DataOf(disk, Target(n))}

(* Every listing ends, though each change begins it again.                 *)
ListingsEnd == \A l \in LockIds : ~scans[l].ended ~> scans[l].ended
=============================================================================

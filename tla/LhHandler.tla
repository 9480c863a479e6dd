---------------------------- MODULE LhHandler ----------------------------
(***************************************************************************)
(* lh-handler: the AmigaDOS handler that mounts .lha files of the host     *)
(* volumes as drawers under LHA:.  This module is its packet loop and      *)
(* lh_arc.c: the cache of open archives (struct LhHArc), the locks and     *)
(* file handles it gives to clients, and the memory images that commits,   *)
(* deletes and directory creation invalidate.                              *)
(*                                                                         *)
(* The handler serves one packet at a time: an action is one packet, and   *)
(* what interleaves is the packets of any number of clients, each step     *)
(* naming a lock or handle some client holds.  Inside a packet the C       *)
(* functions are operators of the same name on a "world", a record of the  *)
(* state variables plus the results of the last call.                      *)
(***************************************************************************)
EXTENDS LhCatalog

CONSTANTS
    Paths,       \* the .lha files of the host volume, by path
    Volume,      \* the host volume that holds them ("Work:")
    NoPath,      \* the path of a ROOT lock
    LockIds,     \* the lock structures the memory pool has room for
    HandleIds,   \* the file handle structures, likewise
    Absent, Junk, HostDir,  \* no file; a file that is no archive; a drawer
    InitDisks,   \* what the host volume may hold at start
    FaultPlans,  \* which calls of a packet fail, see Fails
    HostEdits,   \* TRUE: other programs replace files of the host volume
    MaxEntries,  \* bound: entries in an archive before its volume is full
    MaxChunks    \* bound: chunks a writer can buffer before memory is full

NoLock == 0      \* a NULL struct LhHLock pointer

HostFile == Archive \cup {Absent, Junk, HostDir}

ASSUME PathsAssumption == /\ Volume \notin Paths
                          /\ NoPath \notin Paths \cup {Volume}
ASSUME FilesAssumption == /\ {Absent, Junk, HostDir} \cap Archive = {}
                          /\ Absent # Junk /\ Absent # HostDir /\ Junk # HostDir
ASSUME LocksAssumption == /\ IsFiniteSet(LockIds)
                          /\ NoLock \notin LockIds
ASSUME HandlesAssumption == IsFiniteSet(HandleIds)
ASSUME PlansAssumption == FaultPlans \subseteq SUBSET Nat
ASSUME BoundsAssumption == /\ HostEdits \in BOOLEAN
                           /\ MaxEntries \in Nat
                           /\ MaxChunks \in Nat
ASSUME DisksAssumption == InitDisks \subseteq [Paths -> HostFile]

VARIABLES
    disk,       \* the host volume
    cats,       \* the catalog of each open archive (LhHArc.archive)
    arcs,       \* gd_Arcs: ref = refcount, 0 when the path is not cached;
                \* open = (archive # NULL); users = the list of locks
    locks,      \* struct LhHLock: type, arc or host path, entry, lh_lock
    hostLocks,  \* locks this handler holds on the host file system
    lockCnt,    \* gd_LockCnt
    usageCnt,   \* gd_UsageCnt
    handles,    \* struct LhHHandle
    fault,      \* TRUE once freed memory has been used
    running     \* the packet loop has not been left

vars == <<disk, cats, arcs, locks, hostLocks, lockCnt, usageCnt, handles,
          fault, running>>

LockTypes == {"free", "ROOT", "REAL", "ARCHIVE", "ENTRY", "VINFO"}
HandleKinds == {"free", "mem", "host", "image", "write"}

NoArc == [ref |-> 0, open |-> FALSE, users |-> {}]
FreeLock == [type |-> "free", path |-> NoPath, entry |-> <<>>, lh |-> ZERO]
FreeHandle == [kind |-> "free", lock |-> NoLock, entry |-> <<>>, buf |-> <<>>]

Init ==
    /\ disk \in InitDisks
    /\ cats = [p \in Paths |-> <<>>]
    /\ arcs = [p \in Paths |-> NoArc]
    /\ locks = [l \in LockIds |-> FreeLock]
    /\ hostLocks = 0
    /\ lockCnt = 0
    /\ usageCnt = 0
    /\ handles = [h \in HandleIds |-> FreeHandle]
    /\ fault = FALSE
    /\ running = TRUE

-----------------------------------------------------------------------------
(* Worlds.  ok is the LONG a call returned, got the lock it returned.      *)

World(plan) ==
    [disk |-> disk, cats |-> cats, arcs |-> arcs, locks |-> locks,
     hostLocks |-> hostLocks, lockCnt |-> lockCnt, usageCnt |-> usageCnt,
     fault |-> fault, ok |-> TRUE, got |-> NoLock, calls |-> 0, plan |-> plan]

(* A plan names calls the packet makes: one that names more is the same    *)
(* as a smaller one.                                                       *)
Becomes(w) ==
    /\ \A i \in w.plan : i <= w.calls
    /\ disk' = w.disk
    /\ cats' = w.cats
    /\ arcs' = w.arcs
    /\ locks' = w.locks
    /\ hostLocks' = w.hostLocks
    /\ lockCnt' = w.lockCnt
    /\ usageCnt' = w.usageCnt
    /\ fault' = w.fault

(* Calls that can fail (memory, host packets, archive I/O) are numbered in *)
(* the order a packet makes them; those in the packet's plan fail.  Calls  *)
(* that follow each other and fail alike count as one.                     *)
Fails(w) == (w.calls + 1) \in w.plan
Called(w) == [w EXCEPT !.calls = @ + 1]

Null(w) == [w EXCEPT !.got = NoLock]
Returns(w, b) == [w EXCEPT !.ok = b]

IsIcon(n) == n \in DOMAIN IconBase
LhLock(w, p, n) == IF w.arcs[p].open THEN lh_arc_lock(w.cats[p], n) ELSE ZERO

-----------------------------------------------------------------------------
(* The cache of open archives.                                             *)

OnArc(w, l, p) == w.locks[l].type \in {"ARCHIVE", "ENTRY"} /\ w.locks[l].path = p

(* LhCloseArchive frees the catalog: an LhLock still held on it dangles.   *)
LhCloseArchive(w, p) ==
    [w EXCEPT
        !.arcs[p].open = FALSE,
        !.cats[p] = <<>>,
        !.locks = [l \in LockIds |->
            IF OnArc(w, l, p) /\ w.locks[l].lh # ZERO
            THEN [w.locks[l] EXCEPT !.lh = DANGLING] ELSE w.locks[l]]]

CloseReader(w, p) == IF w.arcs[p].open THEN LhCloseArchive(w, p) ELSE w

(* Load the whole .lha and build its catalog from the memory image.        *)
lhh_open_archive_mem(w, p) ==
    LET v == Called(w) IN
    IF Fails(w) \/ w.disk[p] \in {Absent, Junk, HostDir} THEN Returns(v, FALSE)
    ELSE Returns([v EXCEPT !.cats[p] = w.disk[p].cat, !.arcs[p].open = TRUE], TRUE)

(* Takes over one host lock on the file, whatever the outcome.             *)
lhh_arc_obtain(w, p) ==
    LET u == [w EXCEPT !.hostLocks = @ - 1]
        v == lhh_open_archive_mem(u, p)
        x == Called(v)
    IN IF w.arcs[p].ref > 0
       THEN Returns([u EXCEPT !.arcs[p].ref = @ + 1], TRUE)
       ELSE IF ~v.ok THEN v
       ELSE IF Fails(v) THEN Returns(LhCloseArchive(x, p), FALSE)
       ELSE Returns([x EXCEPT !.arcs[p].ref = 1], TRUE)

(* Wrong on purpose: the last reference leaves the archive in the cache.   *)
ReleaseKeepsReader(w, p) == [w EXCEPT !.arcs[p].ref = @ - 1]

lhh_arc_release(w, p) ==
    LET v == [w EXCEPT !.arcs[p].ref = @ - 1] IN
    IF v.arcs[p].ref > 0 THEN v
    ELSE [CloseReader(v, p) EXCEPT !.arcs[p] = NoArc]

(* Wrong on purpose: the reader is closed under the locks of its users.    *)
UnlockNobody(w, p) == w

UnlockUsers(w, p) ==
    [w EXCEPT !.locks = [l \in LockIds |->
        IF l \in w.arcs[p].users
        THEN [w.locks[l] EXCEPT !.lh = ZERO] ELSE w.locks[l]]]

(* Wrong on purpose: users stay unbound; users whose entry is gone lose    *)
(* their lock.                                                             *)
RebindNobody(w, p) == w
RebindDropsGone(w, p) ==
    [w EXCEPT !.locks = [l \in LockIds |->
        IF l \in w.arcs[p].users /\ lh_arc_lock(w.cats[p], w.locks[l].entry) = ZERO
        THEN FreeLock ELSE w.locks[l]]]

RebindUsers(w, p) ==
    [w EXCEPT !.locks = [l \in LockIds |->
        IF l \in w.arcs[p].users
        THEN [w.locks[l] EXCEPT !.lh = lh_arc_lock(w.cats[p], w.locks[l].entry)]
        ELSE w.locks[l]]]

(* Drop every LhLock, close the reader, load the file again and rebind     *)
(* every user to the new catalog; an entry that is gone stays ZERO.        *)
lhh_arc_refresh(w, p) ==
    LET v == lhh_open_archive_mem(CloseReader(UnlockUsers(w, p), p), p)
    IN IF v.ok THEN RebindUsers(v, p) ELSE v

(* LhOpenArchive(LHARC_MODE_APPEND), LhAddEntryA, LhCloseArchive.  A       *)
(* missing file is created; a full volume refuses the entry.               *)
LhAppendEntry(w, p, e) ==
    LET v == Called(w)
        a == IF w.disk[p] = Absent THEN EmptyArchive ELSE w.disk[p]
        x == Called([v EXCEPT !.disk[p] = a])
    IN IF Fails(w) \/ w.disk[p] = HostDir THEN Returns(v, FALSE)
       ELSE IF Fails(v) THEN Returns(x, FALSE)
       ELSE IF a = Junk THEN Returns(x, TRUE)
       ELSE IF Len(a.cat) >= MaxEntries THEN Returns(x, FALSE)
       ELSE Returns([x EXCEPT !.disk[p] = lh_writer_add(a, e)], TRUE)

(* Wrong on purpose: append and leave the memory image; append while the   *)
(* reader holds the file, which fails and drops the data.                  *)
CommitUnrefreshed(w, p, e) == LhAppendEntry(w, p, e)
CommitUnderReader(w, p, e) ==
    IF w.arcs[p].open THEN Returns(w, FALSE) ELSE LhAppendEntry(w, p, e)

lhh_arc_commit_write(w, p, e) ==
    LET v == LhAppendEntry(CloseReader(UnlockUsers(w, p), p), p, e)
        x == lhh_arc_refresh(v, p)
    IN IF v.ok THEN x ELSE Returns(x, FALSE)

(* LhDeleteFile: rewrite the file on disk, not the memory image, then      *)
(* rebuild the catalog in place: the LhLocks keep their old positions.     *)
(* The rewrite ends with DeleteFile(archive) and Rename(temp, archive):    *)
(* when the Rename fails the archive is gone.                              *)
lh_arc_delete_entry(w, p, n) ==
    LET v == Called(w)
        x == Called(v)
        y == Called(x)
        new == [cat |-> lh_archive_rewrite(w.disk[p].cat, n), marked |-> FALSE]
    IN IF ~w.arcs[p].open THEN Returns(w, FALSE)
       ELSE IF w.disk[p] = Junk THEN Returns([v EXCEPT !.cats[p] = <<>>], FALSE)
       ELSE IF w.disk[p] \in {Absent, HostDir} THEN Returns(v, FALSE)
       ELSE IF Fails(w) THEN Returns([v EXCEPT !.cats[p] = w.disk[p].cat], FALSE)
       ELSE IF Fails(v) THEN Returns([x EXCEPT !.disk[p] = Absent], FALSE)
       ELSE IF Fails(x) THEN Returns([y EXCEPT !.disk[p] = new], FALSE)
       ELSE Returns([y EXCEPT !.disk[p] = new, !.cats[p] = new.cat], TRUE)

-----------------------------------------------------------------------------
(* Locks.                                                                  *)

FreeLocks(w) == {l \in LockIds : w.locks[l].type = "free"}

(* A new lock structure, counted; the pool gives any free one.             *)
NewLock(w, type, p, n, lh) ==
    LET l == CHOOSE i \in FreeLocks(w) : TRUE
    IN [w EXCEPT
          !.locks[l] = [type |-> type, path |-> p, entry |-> n, lh |-> lh],
          !.lockCnt = @ + 1,
          !.usageCnt = @ + 1,
          !.got = l]

(* ROOT and VINFO locks refer to nothing that is counted.  A VINFO lock is *)
(* the placeholder icon of (p, n); the disk icon has path NoPath.          *)
AllocPlain(w, type, p, n) ==
    LET v == Called(w) IN
    IF Fails(w) \/ FreeLocks(w) = {} THEN Null(v)
    ELSE NewLock(v, type, p, n, ZERO)

(* Wrong on purpose: no memory, and the host lock is forgotten.            *)
AllocRealLeaks(w, o) ==
    LET v == Called(w) IN
    IF Fails(w) \/ FreeLocks(w) = {} THEN Null(v)
    ELSE NewLock(v, "REAL", o, <<>>, ZERO)

(* A REAL lock takes over one host lock; when there is no memory the host  *)
(* lock is given back.                                                     *)
AllocReal(w, o) ==
    LET v == Called(w) IN
    IF Fails(w) \/ FreeLocks(w) = {}
    THEN Null([v EXCEPT !.hostLocks = @ - 1])
    ELSE NewLock(v, "REAL", o, <<>>, ZERO)

(* Wrong on purpose: a name that is not there costs a reference.           *)
AllocInArchiveLeaks(w, p, n) ==
    LET v == Called(w)
        lh == LhLock(w, p, n)
        x == NewLock(v, IF n = <<>> THEN "ARCHIVE" ELSE "ENTRY", p, n, lh)
    IN IF lh = ZERO THEN Null(v)
       ELSE IF Fails(w) \/ FreeLocks(w) = {} THEN Null(lhh_arc_release(v, p))
       ELSE [x EXCEPT !.arcs[p].users = @ \cup {x.got}]

(* An ARCHIVE (n = <<>>) or ENTRY lock takes over one reference on the     *)
(* archive, and gives it back on every failure.                            *)
AllocInArchive(w, p, n) ==
    LET v == Called(w)
        lh == LhLock(w, p, n)
        type == IF n = <<>> THEN "ARCHIVE" ELSE "ENTRY"
        x == NewLock(v, type, p, n, lh)
    IN IF Fails(w) \/ FreeLocks(w) = {} \/ lh = ZERO
       THEN Null(lhh_arc_release(v, p))
       ELSE [x EXCEPT !.arcs[p].users = @ \cup {x.got}]

lhh_lock_free(w, l) ==
    LET k == w.locks[l]
        v == [w EXCEPT !.locks[l] = FreeLock,
                       !.lockCnt = @ - 1,
                       !.usageCnt = @ - 1]
    IN CASE k.type = "REAL" -> [v EXCEPT !.hostLocks = @ - 1]
         [] k.type \in {"ARCHIVE", "ENTRY"} ->
                lhh_arc_release([v EXCEPT !.arcs[k.path].users = @ \ {l}], k.path)
         [] OTHER -> v

(* arc->refcount++ before the reference is handed to a new lock.           *)
Retain(w, p) == [w EXCEPT !.arcs[p].ref = @ + 1]

(* One host packet that yields a lock, and the FileInfoBlock to examine it.*)
HostLockExists(w, o) == o = Volume \/ (o \in Paths /\ w.disk[o] # Absent)
lhh_host_lock(w, o) ==
    LET v == Called(w) IN
    IF Fails(w) \/ ~HostLockExists(w, o) THEN Returns(v, FALSE)
    ELSE Returns([v EXCEPT !.hostLocks = @ + 1], TRUE)

lhh_lock_dup(w, l) ==
    LET k == w.locks[l]
        v == Called(w)
    IN CASE k.type = "REAL" ->
                IF Fails(w) THEN Null(v)
                ELSE AllocReal([v EXCEPT !.hostLocks = @ + 1], k.path)
         [] k.type \in {"ARCHIVE", "ENTRY"} ->
                AllocInArchive(Retain(w, k.path), k.path, k.entry)
         [] OTHER -> AllocPlain(w, k.type, k.path, k.entry)

-----------------------------------------------------------------------------
(* Names.  The path, entry and icon of a name say what it spells in full:  *)
(* <<Volume, <<>>>>, an archive <<p, <<>>>> or an entry <<p, n>>; icon     *)
(* asks for the .info file of a host object.                               *)

(* A host object becomes an ARCHIVE when it is a file the library can      *)
(* mount, and passes through as REAL otherwise.                            *)
PassThrough(x, o) == IF x.ok THEN AllocReal(x, o) ELSE Null(x)

Mounted(v, o) ==
    IF v.ok THEN AllocInArchive(v, o, <<>>)
    ELSE PassThrough(lhh_host_lock(v, o), o)

Located(u, o) ==
    IF u.ok /\ o \in Paths /\ u.disk[o] # HostDir
    THEN Mounted(lhh_arc_obtain(u, o), o) ELSE PassThrough(u, o)

lhh_lock_real_path(w, o) == Located(lhh_host_lock(w, o), o)

(* The icon of a host object without one of its own: Disk.info always, a   *)
(* drawer icon when the object is a host drawer or mounts as an archive.   *)
IconOf(v, o) ==
    LET type == v.locks[v.got].type
        drawer == \/ type = "ARCHIVE"
                  \/ type = "REAL" /\ (o = Volume \/ v.disk[o] = HostDir)
        x == lhh_lock_free(v, v.got)
    IN IF v.got = NoLock THEN v
       ELSE IF drawer THEN AllocPlain(x, "VINFO", o, <<>>) ELSE Null(x)

HostIcon(w, o) ==
    IF o = NoPath THEN AllocPlain(w, "VINFO", NoPath, <<>>)
    ELSE IconOf(lhh_lock_real_path(w, o), o)

(* The .info of an archive entry that is not in the catalog: a drawer icon *)
(* when its companion is a directory.                                      *)
lhh_arc_missing_info_lock(w, p, n) ==
    LET base == IconBase[n] IN
    IF w.arcs[p].open /\ IsDirectory(w.cats[p], lh_arc_lock(w.cats[p], base))
    THEN AllocPlain(w, "VINFO", p, base) ELSE Null(w)

(* A name relative to an ARCHIVE or ENTRY lock.                            *)
LocateInside(w, p, n) ==
    IF IsIcon(n) /\ LhLock(w, p, n) = ZERO THEN lhh_arc_missing_info_lock(w, p, n)
    ELSE AllocInArchive(Retain(w, p), p, n)

(* What is left of a host path after the archive l.  The icon case frees l *)
(* first and then asks its archive: with no other user, the archive is     *)
(* freed memory, and the answer is either of the two.                      *)
IconAfterFree(v, p, n) ==
    LET freed == Called([v EXCEPT !.fault = TRUE]) IN
    IF v.arcs[p].ref > 0 THEN lhh_arc_missing_info_lock(v, p, n)
    ELSE IF Fails(v) THEN AllocPlain(freed, "VINFO", p, IconBase[n])
    ELSE Null(freed)

LocateRest(w, l, n) ==
    LET p == w.locks[l].path IN
    IF IsIcon(n) /\ LhLock(w, p, n) = ZERO
    THEN IconAfterFree(lhh_lock_free(w, l), p, n)
    ELSE AllocInArchive(lhh_lock_free(Retain(w, p), l), p, n)

(* A host path is walked one component at a time; each intermediate lock   *)
(* is freed as soon as the next one is there.                              *)
Component(w, name) ==
    IF name.icon THEN HostIcon(w, name.path) ELSE lhh_lock_real_path(w, name.path)

FreeBehind(w, l) == [lhh_lock_free(w, l) EXCEPT !.got = w.got]

Rest(w, n) ==
    IF n = <<>> \/ w.got = NoLock THEN w
    ELSE IF w.locks[w.got].type = "ARCHIVE" THEN LocateRest(w, w.got, n)
    ELSE Null(lhh_lock_free(w, w.got))

WalkFromVolume(v, name) ==
    IF v.got = NoLock THEN v
    ELSE Rest(FreeBehind(Component(v, name), v.got), name.entry)

WalkFromRoot(w, name) ==
    IF name.path \in {Volume, NoPath} THEN Component(w, name)
    ELSE WalkFromVolume(lhh_lock_real_path(w, Volume), name)

(* Names as clients spell them, relative to the object k.                  *)
Self == [path |-> NoPath, entry |-> <<>>, icon |-> FALSE]
HostName(o) == [path |-> o, entry |-> <<>>, icon |-> FALSE]
IconName(o) == [path |-> o, entry |-> <<>>, icon |-> TRUE]
EntryName(p, n) == [path |-> p, entry |-> n, icon |-> FALSE]

NamesFrom(k) ==
    CASE k.type = "ROOT" ->
            {HostName(o) : o \in Paths \cup {Volume}}
            \cup {IconName(o) : o \in Paths \cup {Volume, NoPath}}
            \cup {EntryName(p, n) : p \in Paths, n \in Names}
      [] k.type = "REAL" /\ k.path = Volume ->
            {HostName(p) : p \in Paths} \cup {IconName(p) : p \in Paths}
            \cup {EntryName(p, n) : p \in Paths, n \in Names}
      [] k.type \in {"ARCHIVE", "ENTRY"} ->
            {EntryName(k.path, n) : n \in {m \in Names : IsUnder(m, k.entry)}}
      [] OTHER -> {}

lhh_lock_resolve(w, l, name) ==
    LET type == IF l = NoLock THEN "ROOT" ELSE w.locks[l].type IN
    CASE type = "ROOT" /\ name = Self -> AllocPlain(w, "ROOT", NoPath, <<>>)
      [] type = "ROOT" /\ name # Self -> WalkFromRoot(w, name)
      [] type # "ROOT" /\ name = Self -> lhh_lock_dup(w, l)
      [] type \in {"ARCHIVE", "ENTRY"} /\ name # Self -> LocateInside(w, name.path, name.entry)
      [] OTHER -> Rest(Component(w, name), name.entry)

(* The parent of a volume or of Disk.info is the root, of an archive the   *)
(* host drawer it lies in.  The parent of a drawer icon is looked up by    *)
(* stripping .info from its own path: that is the drawer itself.           *)
lhh_lock_parent(w, l) ==
    LET k == w.locks[l]
        up == SubSeq(k.entry, 1, Len(k.entry) - 1)
    IN CASE k.type = "ROOT" -> Null(w)
         [] k.type = "REAL" /\ k.path = Volume -> AllocPlain(w, "ROOT", NoPath, <<>>)
         [] k.type = "REAL" /\ k.path # Volume ->
                PassThrough(lhh_host_lock(w, Volume), Volume)
         [] k.type = "VINFO" /\ k.path = NoPath -> AllocPlain(w, "ROOT", NoPath, <<>>)
         [] k.type = "VINFO" /\ k.path # NoPath ->
                WalkFromRoot(w, EntryName(k.path, k.entry))
         [] k.type = "ENTRY" -> AllocInArchive(Retain(w, k.path), k.path, up)
         [] OTHER -> WalkFromRoot(w, HostName(Volume))

(* "//" under a lock: two levels up.                                       *)
ParentOf(v) ==
    IF v.got = NoLock THEN v ELSE FreeBehind(lhh_lock_parent(v, v.got), v.got)
Grandparent(w, l) == ParentOf(lhh_lock_parent(w, l))

-----------------------------------------------------------------------------
(* File handles.  Opening returns the world and the new handle.            *)

Modes == {"old", "new", "readwrite"}

Opened(w, kind, l, n) ==
    [w |-> [w EXCEPT !.usageCnt = @ + 1],
     hh |-> [kind |-> kind, lock |-> l, entry |-> n, buf |-> <<>>]]
NotOpened(w) == [w |-> w, hh |-> FreeHandle]

(* Open the object of lock l.  stolen: FH_FROM_LOCK, where a failure       *)
(* leaves the lock with the client; otherwise the handle frees it.         *)
OpenLock(w, l, mode, stolen) ==
    LET k == w.locks[l]
        v == Called(w)
        x == Called(v)
        Failed(y) == NotOpened(IF stolen THEN y ELSE lhh_lock_free(y, l))
        isFile == k.path \in Paths /\ w.disk[k.path] \notin {Absent, HostDir}
        deleted == lhh_arc_refresh(lh_arc_delete_entry(v, k.path, k.entry), k.path)
    IN IF Fails(w) THEN Failed(v)
       ELSE CASE k.type = "VINFO" /\ mode = "old" ->
                    Opened(lhh_lock_free(v, l), "mem", NoLock, <<>>)
              [] k.type = "REAL" ->
                    IF Fails(v) \/ ~isFile THEN Failed(x)
                    ELSE IF mode = "new"
                    THEN Opened([x EXCEPT !.disk[k.path] = EmptyArchive], "host", l, <<>>)
                    ELSE Opened(x, "host", l, <<>>)
              [] k.type = "ENTRY" /\ mode # "old" ->
                    Opened(deleted, "write", l, k.entry)
              [] k.type = "ENTRY" /\ mode = "old" ->
                    IF k.lh > Len(w.cats[k.path]) THEN Failed([x EXCEPT !.fault = TRUE])
                    ELSE IF HasImage(w.cats[k.path], k.lh) /\ ~Fails(v)
                    THEN Opened(x, "image", l, <<>>) ELSE Failed(x)
              [] OTHER -> Failed(v)

(* A name that cannot be locked, for whatever reason, becomes a new entry  *)
(* under an ARCHIVE or ENTRY lock when the mode allows it.                 *)
OpenNew(d, n) ==
    IF d.got = NoLock THEN NotOpened(d)
    ELSE IF Fails(d) THEN NotOpened(lhh_lock_free(Called(d), d.got))
    ELSE Opened(Called(d), "write", d.got, n)

OpenResolved(r, l, name, mode) ==
    LET new == /\ mode # "old" /\ name # Self /\ l # NoLock
               /\ r.locks[l].type \in {"ARCHIVE", "ENTRY"}
    IN IF r.got # NoLock THEN OpenLock(r, r.got, mode, FALSE)
       ELSE IF new THEN OpenNew(lhh_lock_dup(r, l), name.entry)
       ELSE NotOpened(r)

lhh_handle_open(w, l, name, mode) ==
    OpenResolved(lhh_lock_resolve(w, l, name), l, name, mode)

(* ACTION_END: the commit's result is not looked at.                       *)
lhh_handle_close(w, hh) ==
    LET v == IF hh.kind # "write" THEN w
             ELSE lhh_arc_commit_write(w, w.locks[hh.lock].path, FileEntry(hh.entry, hh.buf))
        x == IF hh.lock = NoLock THEN v ELSE lhh_lock_free(v, hh.lock)
    IN [x EXCEPT !.usageCnt = @ - 1]

-----------------------------------------------------------------------------
(* Operations on names.                                                    *)

(* The host file system refuses to delete an object somebody holds a lock  *)
(* on; the handler keeps none on an archive it has loaded.                 *)
HostLocked(w, p) ==
    \E l \in LockIds : w.locks[l].type = "REAL" /\ w.locks[l].path = p

RefreshIfDone(d, p) == IF d.ok THEN lhh_arc_refresh(d, p) ELSE d

DeleteHost(v, o) ==
    IF Fails(v) \/ o = Volume \/ HostLocked(v, o) THEN v
    ELSE [v EXCEPT !.disk[o] = Absent]

DeleteResolved(r) ==
    LET k == r.locks[r.got]
        d == lh_arc_delete_entry(r, k.path, k.entry)
    IN IF r.got = NoLock THEN r
       ELSE CASE k.type = "ENTRY" -> lhh_lock_free(RefreshIfDone(d, k.path), r.got)
              [] k.type \in {"REAL", "ARCHIVE"} ->
                    DeleteHost(lhh_lock_free(r, r.got), k.path)
              [] OTHER -> lhh_lock_free(r, r.got)

lhh_delete_name(w, l, name) == DeleteResolved(lhh_lock_resolve(w, l, name))

(* The host drawer case applies to a volume and a plain name.              *)
LockMade(f, name) ==
    IF f.ok THEN AllocInArchive(Retain(f, name.path), name.path, name.entry)
    ELSE Null(f)

CreateResolved(r, l, name) ==
    LET type == IF l = NoLock THEN "ROOT" ELSE r.locks[l].type
        made == LhAppendEntry(r, name.path, DirEntry(name.entry))
        c == Called(r)
    IN IF r.got # NoLock THEN Null(lhh_lock_free(r, r.got))
       ELSE IF type \in {"ARCHIVE", "ENTRY"}
       THEN LockMade(RefreshIfDone(made, name.path), name)
       ELSE IF type = "REAL" /\ name.entry = <<>> /\ r.disk[name.path] = Absent /\ ~Fails(r)
       THEN lhh_lock_resolve([c EXCEPT !.disk[name.path] = HostDir], l, name)
       ELSE r

lhh_create_dir_name(w, l, name) ==
    CreateResolved(lhh_lock_resolve(w, l, name), l, name)

-----------------------------------------------------------------------------
(* Packets.  A client names a lock it holds, never one inside a handle, or *)
(* no lock, which stands for the root.                                     *)

HandleLocks == {handles[h].lock : h \in HandleIds} \ {NoLock}
ClientLocks == {l \in LockIds : locks[l].type # "free"} \ HandleLocks
OpenHandles == {h \in HandleIds : handles[h].kind # "free"}

Parents == ClientLocks \cup {NoLock}
NamesUnder(l) ==
    NamesFrom(IF l = NoLock THEN [type |-> "ROOT"] ELSE locks[l])

(* ACTION_LOCATE_OBJECT with a name, with "" or with ":".                  *)
Locate(plan) ==
    /\ running
    /\ \/ \E l \in Parents : \E name \in NamesUnder(l) \cup {Self} :
            Becomes(lhh_lock_resolve(World(plan), l, name))
       \/ Becomes(AllocPlain(World(plan), "ROOT", NoPath, <<>>))
    /\ UNCHANGED <<handles, running>>

(* ACTION_COPY_DIR and ACTION_COPY_DIR_FH.                                 *)
CopyDir(plan) ==
    /\ running
    /\ \E l \in ClientLocks \cup HandleLocks :
            Becomes(lhh_lock_dup(World(plan), l))
    /\ UNCHANGED <<handles, running>>

(* ACTION_PARENT, ACTION_PARENT_FH, and ACTION_LOCATE_OBJECT "/", "//".    *)
Parent(plan) ==
    /\ running
    /\ \/ \E l \in ClientLocks \cup HandleLocks :
            Becomes(lhh_lock_parent(World(plan), l))
       \/ \E l \in ClientLocks :
            /\ locks[l].type # "ROOT"
            /\ Becomes(Grandparent(World(plan), l))
    /\ UNCHANGED <<handles, running>>

(* ACTION_FREE_LOCK.                                                       *)
FreeClientLock ==
    /\ running
    /\ \E l \in ClientLocks : Becomes(lhh_lock_free(World({}), l))
    /\ UNCHANGED <<handles, running>>

(* ACTION_FINDINPUT, FINDOUTPUT, FINDUPDATE.                               *)
Open(plan) ==
    /\ running
    /\ \E h \in HandleIds \ OpenHandles, l \in Parents, mode \in Modes :
       \E name \in NamesUnder(l) \cup (IF l = NoLock THEN {} ELSE {Self}) :
            LET o == lhh_handle_open(World(plan), l, name, mode) IN
            /\ Becomes(o.w)
            /\ handles' = [handles EXCEPT ![h] = o.hh]
    /\ UNCHANGED running

(* ACTION_FH_FROM_LOCK.                                                    *)
FhFromLock(plan) ==
    /\ running
    /\ \E h \in HandleIds \ OpenHandles, l \in ClientLocks, mode \in Modes :
            LET o == OpenLock(World(plan), l, mode, TRUE) IN
            /\ Becomes(o.w)
            /\ handles' = [handles EXCEPT ![h] = o.hh]
    /\ UNCHANGED running

(* ACTION_WRITE: an archive writer buffers, a host file is written at once *)
(* and whatever it held, it is no archive any more.                        *)
Write ==
    /\ running
    /\ \E h \in OpenHandles, c \in Chunks :
            \/ /\ handles[h].kind = "write"
               /\ Len(handles[h].buf) < MaxChunks
               /\ handles' = [handles EXCEPT ![h].buf = Append(@, c)]
               /\ UNCHANGED disk
            \/ /\ handles[h].kind = "host"
               /\ disk[locks[handles[h].lock].path] \notin {Absent, HostDir}
               /\ disk' = [disk EXCEPT ![locks[handles[h].lock].path] = Junk]
               /\ UNCHANGED handles
    /\ UNCHANGED <<cats, arcs, locks, hostLocks, lockCnt, usageCnt, fault, running>>

(* ACTION_END.                                                             *)
Close(plan) ==
    /\ running
    /\ \E h \in OpenHandles :
            /\ Becomes(lhh_handle_close(World(plan), handles[h]))
            /\ handles' = [handles EXCEPT ![h] = FreeHandle]
    /\ UNCHANGED running

(* ACTION_DELETE_OBJECT.                                                   *)
Delete(plan) ==
    /\ running
    /\ \E l \in Parents : \E name \in NamesUnder(l) \cup {Self} :
            Becomes(lhh_delete_name(World(plan), l, name))
    /\ UNCHANGED <<handles, running>>

(* ACTION_CREATE_DIR.                                                      *)
CreateDir(plan) ==
    /\ running
    /\ \E l \in Parents : \E name \in {n \in NamesUnder(l) : ~n.icon} :
            Becomes(lhh_create_dir_name(World(plan), l, name))
    /\ UNCHANGED <<handles, running>>

(* Wrong on purpose: only the locks are counted.                           *)
DieWithHandles ==
    /\ running
    /\ lockCnt = 0
    /\ running' = FALSE
    /\ UNCHANGED <<disk, cats, arcs, locks, hostLocks, lockCnt, usageCnt,
                   handles, fault>>

(* ACTION_DIE: refused while any lock or handle is out.                    *)
Die ==
    /\ running
    /\ usageCnt = 0
    /\ running' = FALSE
    /\ UNCHANGED <<disk, cats, arcs, locks, hostLocks, lockCnt, usageCnt,
                   handles, fault>>

(* Another program replaces or removes a file of the host volume.          *)
HostEdit ==
    /\ HostEdits
    /\ \E p \in Paths, d \in InitDisks :
            disk' = [disk EXCEPT ![p] = d[p]]
    /\ UNCHANGED <<cats, arcs, locks, hostLocks, lockCnt, usageCnt, handles,
                   fault, running>>

Next ==
    \/ \E plan \in FaultPlans :
        \/ Locate(plan) \/ CopyDir(plan) \/ Parent(plan)
        \/ Open(plan) \/ FhFromLock(plan) \/ Close(plan)
        \/ Delete(plan) \/ CreateDir(plan)
    \/ FreeClientLock \/ Write \/ Die \/ HostEdit

Spec == Init /\ [][Next]_vars

-----------------------------------------------------------------------------
(* Properties.                                                             *)

(* Every variable keeps the shape its C structure has.                     *)
TypeOK ==
    /\ disk \in [Paths -> HostFile]
    /\ cats \in [Paths -> Catalog]
    /\ arcs \in [Paths -> [ref : Nat, open : BOOLEAN, users : SUBSET LockIds]]
    /\ locks \in [LockIds -> [type : LockTypes,
                             path : Paths \cup {Volume, NoPath},
                             entry : Names \cup {<<>>},
                             lh : Nat \cup {ROOT_DIR, SYNTH_DIR, DANGLING}]]
    /\ hostLocks \in Nat
    /\ lockCnt \in Nat
    /\ usageCnt \in Nat
    /\ handles \in [HandleIds -> [kind : HandleKinds,
                                 lock : LockIds \cup {NoLock},
                                 entry : Names \cup {<<>>},
                                 buf : Seq(Chunks)]]
    /\ fault \in BOOLEAN
    /\ running \in BOOLEAN

UsersOf(p) == {l \in LockIds : locks[l].type \in {"ARCHIVE", "ENTRY"} /\ locks[l].path = p}

(* Between packets an archive has exactly one reference per ARCHIVE or     *)
(* ENTRY lock on it, and its users list is exactly those locks: no path    *)
(* through resolve, dup, parent, open, close, create or delete, failing at *)
(* any call, leaks a reference or drops one too many.                      *)
ReferencesBalanced ==
    \A p \in Paths :
        /\ arcs[p].users = UsersOf(p)
        /\ arcs[p].ref = Cardinality(arcs[p].users)

(* A lock that lives on an archive finds it still in the cache, and an     *)
(* archive nobody uses is closed: the last lhh_lock_free frees it.         *)
CacheMatchesUse ==
    \A p \in Paths : UsersOf(p) = {} => arcs[p] = NoArc /\ cats[p] = <<>>

(* The counters ACTION_DIE and the volume code rely on are exact, and no   *)
(* host lock is leaked by a walk that fails half way.                      *)
CountsExact ==
    /\ lockCnt = Cardinality({l \in LockIds : locks[l].type # "free"})
    /\ usageCnt = lockCnt + Cardinality(OpenHandles)
    /\ hostLocks = Cardinality({l \in LockIds : locks[l].type = "REAL"})

(* lh_arc.c drops the LhLock of every user before it closes a reader: no   *)
(* lock is left pointing into a closed LhArchive.                          *)
NoDangling == \A l \in LockIds : locks[l].lh # DANGLING

(* A handle's lock is a live lock of the type the handle reads or commits  *)
(* through, and belongs to no other handle: FH_FROM_LOCK steals it whole.  *)
HandlesOwnLocks ==
    \A h \in OpenHandles :
        /\ handles[h].kind = "mem" <=> handles[h].lock = NoLock
        /\ handles[h].kind = "host" => locks[handles[h].lock].type = "REAL"
        /\ handles[h].kind = "image" => locks[handles[h].lock].type = "ENTRY"
        /\ handles[h].kind = "write" => locks[handles[h].lock].type \in {"ARCHIVE", "ENTRY"}
        /\ \A g \in OpenHandles \ {h} :
               handles[g].lock = handles[h].lock => handles[h].lock = NoLock

(* While a reader is open every lock on the archive is bound to the row    *)
(* its entry name has now, whatever was deleted or appended since.         *)
LocksTrackCatalog ==
    \A p \in Paths : \A l \in arcs[p].users :
        locks[l].lh = IF arcs[p].open THEN lh_arc_lock(cats[p], locks[l].entry) ELSE ZERO

(* The memory image never lags behind the handler's own writes.            *)
CacheCoherent ==
    \A p \in Paths : arcs[p].open /\ disk[p] \in Archive => cats[p] = disk[p].cat

(* Closing a writer stores what it buffered as the last entry of the       *)
(* archive, unless the host volume is full or the archive's path has       *)
(* become a drawer meanwhile.                                              *)
CloseStoresData ==
    [][\A h \in HandleIds :
        LET hh == handles[h]
            p == locks[hh.lock].path
        IN hh.kind = "write" /\ handles'[h].kind = "free" /\ disk[p] # HostDir =>
            /\ disk'[p] \in Archive
            /\ \/ Len(disk'[p].cat) >= MaxEntries
               \/ /\ disk'[p].cat # <<>>
                  /\ disk'[p].cat[Len(disk'[p].cat)] = FileEntry(hh.entry, hh.buf)]_vars

(* A delete copies the other entries: none of them changes its kind.  Not  *)
(* so in this code: the drawers it copies become empty files.              *)
KindsKept ==
    [][\A p \in Paths : disk[p] \in Archive /\ disk'[p] \in Archive =>
            \A n \in Names :
                (\A i \in Matching(disk[p].cat, n) : disk[p].cat[i].kind = "dir")
                => \A i \in Matching(disk'[p].cat, n) :
                        i <= Len(disk[p].cat) => disk'[p].cat[i].kind = "dir"]_vars

(* When the loop has been left nothing a client could still name is alive: *)
(* no lock, no handle, no cached archive, no host lock.                    *)
ShutdownLeavesNothing ==
    ~running => /\ \A l \in LockIds : locks[l].type = "free"
                /\ OpenHandles = {}
                /\ \A p \in Paths : arcs[p] = NoArc
                /\ hostLocks = 0

(* No call reads an archive that has been freed, or a catalog row past the *)
(* end.  Not so in this code: see lhh_lock_resolve.                        *)
NoUseAfterFree == ~fault
=============================================================================

# Lhassa: TLA+ models of lh-handler, lh.library, the archive engine, its codecs, Handle and Load

Lhassa is an LHA archiver for the Amiga: an engine that reads and writes `.lha`
files, `lh.library` on top of it, `lh-handler`, which mounts every `.lha` file of
the host volumes as a drawer under `LHA:`, and the commands `lha`, `lhx`, `load`
and `handle`. This directory holds TLA+ modules translated from that source, the
TLC configurations that check them on small instances, and proofs that TLAPS
checks for every value of the constants.

    tlc -workers 2 -config Faults.cfg MCLhHandler.tla     (and Quiet)
    tlc -workers 2 -config Port.cfg MCHandlerPort.tla
    tlc -workers 2 -config Scan.cfg MCLhScan.tla
    tlc -workers 2 -config Load.cfg MCLoadInstall.tla
    tlc -workers 2 -config Package.cfg MCPackage.tla
    tlc -workers 2 -config Rewrite.cfg MCArchiveFile.tla
    tlc -workers 2 -config Headers.cfg MCLhHeader.tla
    tlc -workers 2 -config Codec.cfg MCLhCodec.tla        (and LostBytes)
    tlc -workers 2 -config Lzhuf.cfg MCLhLzhuf.tla
    tlc -workers 2 -config Static.cfg MCLhStatic.tla
    tlapm LhHandlerProofs.tla     (and HandlerPortProofs, LoadInstallProofs,
                                   ArchiveFileProofs, LhHeaderProofs,
                                   LhScanProofs, PackageProofs, LhCodecProofs)

Paths below are relative to `src/Source`.

## 1. Inventory

| part | state it keeps | operations | what is hard |
|---|---|---|---|
| **Archive cache, locks, handles** `lh-handler/lh_arc.c`, `lh-handler.h` | `gd_Arcs`: per path a `struct LhHArc` (open archive, reference count, list of user locks); `struct LhHLock` (ROOT, REAL, ARCHIVE, ENTRY, VINFO) with a host lock or an `LhLock`; `struct LhHHandle`; `gd_LockCnt`, `gd_UsageCnt` | obtain, release, refresh, commit; alloc, dup, parent, resolve, free; open, from-lock, read, write, seek, close; delete, rename, create dir | ownership moves through every call: each consumes or returns a reference or host lock on every failure path; a commit or delete by one client replaces the archive under all others |
| **Packet loop** `lh-handler.c` | the port, ExAll scan state, the running flag | one AmigaDOS packet at a time: LOCATE, COPY_DIR, PARENT, FREE_LOCK, EXAMINE_*, FIND*, READ, WRITE, SEEK, END, DELETE, RENAME, CREATE_DIR, DIE ... | any client may interleave any packet between two packets of another; DIE against a late packet |
| **Names** `lh_path.c` | none | splits `vol/x.lha/entry`, `/`, `.info`, `:` | which prefix is an archive |
| **Host packets** `lh_pkt.c` | a private reply port and one packet | host Lock, Examine, Open, ... by packet | dos.library calls wait at the port clients use; a path that leads back to the handler |
| **Volume node** `lh_volume.c` | the DosList node, published or not | publish, retry, remove | the DosList belongs to everyone |
| **Icons** `lh_icon.c`, `lh_drawer_info.c` | two constant images | load at startup | reads them through dos.library, before the port is known |
| **lh.library archive API** `lib_source/lh_archive_dos.c` | `struct LhArchive`: catalog, memory image, writer; `struct LhLock`: row number and scan cursor | open, close, lock, examine, ExNext, ExAll, open-from-lock, add, delete, concat, extract | row numbers outlive the catalog they came from |
| **Library vectors, startup, memory** `lib_source/{lh_lvo,LibInit,StartUp,malloc,lh_amiga_time}.c` | open count, expunge flag, pool | open, close, expunge | a delayed expunge |
| **Engine: archives** `src/lh_archive.c` | reader and writer streams | next, add, append, rewrite | the end mark, truncation, the window in which an archive does not exist |
| **Engine: headers** `src/lh_header.c` | parse position | read, write, levels 0 to 2 | truncated input, extended headers |
| **Engine: codecs** `src/lh_codec.c`, `lh_lzhuf.c`, `lh_lh5dec.c`, `lh_lh1dec.c`, `lh_buffer.c`, `lh_crc.c` | window, bit buffer, trees | encode, decode | window wrap, match length, short input |
| **Engine: dates, cipher, errors** `src/lh_datetime.c`, `lh_crypto.c`, `lh_error.c`, `lmodu.c` | none | conversions | two-second steps, year bases |
| **lha** `cli/*` | none beyond one run | list, extract, add, update, delete | none concurrent |
| **lhx** `lhx/*` | progress window, break flag | gauge, Workbench | a break between two entries |
| **load** `load/*` | on disk: candidates `LHc*`, backups `LHb*` and sidecars `LHk*` in `SYS:T/Load`, a temporary copy `LHt*` beside the destination; in memory the Manifest | parse the Manifest, check dependencies, choose variants; per file: stage, gate by version, back up, place; roll back | any call may fail and the machine may be reset half way; names of backups come round with the clock |
| **handle** `handle/*` | in memory the scan: `File:` lines, requirements, version; on disk the package | walk the stage for `File:` lines, merge the staged Manifest, compare versions, write the Manifest, walk the stage again for the members | two walks of a directory that others use; buffers that are full; what a failure leaves |
| **tests** `test/*` | none | | read for what they expect |

How they interact: clients send packets to the loop; the loop calls `lh_arc.c`;
that asks the host file system for locks and files by packet (`lh_pkt.c`) and
`lh.library` for catalogs; the library calls the engine, which reads or rewrites
the `.lha` file on the host volume. The shared state is the memory image of an
archive (`LhHArc.archive`) that all locks on it use, and the file itself, which
other programs may change. `handle` and `load` run on different machines, perhaps:
what ties them is the package, an archive with a Manifest.

What makes each part correct, in short: the handler releases exactly what it
obtained, serves no archive that has been closed, keeps every lock on its entry
while the archive changes, and stores what a writer wrote; the library's scans
list every entry once; the engine's rewrite keeps what it was told to keep and
never leaves the user without an archive; the loop answers every packet; the
library is expunged only when it is closed; a failed installation is rolled back;
a package holds what its Manifest names, and a machine gets what it can run;
the codecs invert each other. The hazards, each at its line, are listed in
`PROJECT.json`.

## 2. What is modelled

### `LhCatalog`: what the library knows about an open archive

Pure operators: the catalog (rows in file order), `lh_find_entry_index` (the first
row of that name), `lh_arc_lock` (a row, an implied directory, or nothing),
whether a row is a directory or has an image, `lh_archive_rewrite` and
`lh_writer_add`. A name is a sequence of components, data a sequence of opaque
chunks. `marked` says that the file ends in the zero byte other LhA tools write:
the reader stops there, this code's writer never writes it.

### `LhHandler`: packet loop, cache, locks and handles

Each action is one packet, with every call it makes and in the order it makes
them. The C functions are operators of the same name on a *world*: a record of
the state variables, the result of the last call and the number of calls so far.
So `lhh_lock_dup(w, l)` is the world after the call, and composing calls is
composing operators, error paths included.

| variable | in the code |
|---|---|
| `disk` | the host volume: an archive, something that is none, a drawer, nothing |
| `cats`, `arcs` | `LhHArc.archive`'s catalog; `refcount`, whether `archive` is NULL, `users` |
| `locks` | `struct LhHLock`: type, path, entry, `lh_lock` |
| `hostLocks` | locks held on the host file system |
| `lockCnt`, `usageCnt` | `gd_LockCnt`, `gd_UsageCnt` |
| `handles` | `struct LhHHandle`: kind, the lock it owns, the writer's buffer |
| `fault` | freed memory has been read |
| `running` | the loop has not been left |

*Failing calls.* The calls that can fail (memory, host packets, archive I/O) are
numbered in the order a packet makes them; a packet runs under a *plan*, the set
of numbers that fail. The failing path then runs to its end: what it frees, what
it hands back and what it forgets is what is checked.

*The host.* With `HostEdits` other programs replace the archive file between
packets. A deleted archive, one replaced by a drawer or by something that is not
an archive, and one edited while it is cached are all reachable.

Packets modelled: LOCATE_OBJECT, COPY_DIR(_FH), PARENT(_FH) with the `/` and `//`
names, FREE_LOCK, FINDINPUT, FINDOUTPUT, FINDUPDATE, FH_FROM_LOCK, WRITE, END,
DELETE_OBJECT, CREATE_DIR, DIE. READ and SEEK change only a handle's position,
which no property here reads.

Left out of this module: RENAME_OBJECT; EXAMINE_OBJECT, EXAMINE_NEXT, EXAMINE_ALL
(both are in `LhScan`); the volume node; a host `.info` file beside an archive (the
placeholder is always synthesised); CREATE_DIR of an icon name; a torn append (an
append either adds the entry or fails); failure of the small allocation that
rebinding a lock needs; packets that name a lock or handle no client holds. One
host volume holds the archives directly in its root. A full lock pool is an
empty `FreeLocks`, a full volume `MaxEntries`, a full memory `MaxChunks`.

### `LhScan`: listings and renames

On top of `LhCatalog`, beside `LhHandler`: one cached archive, without what
`LhHandler` says of references, and the packets that are more than one step.

| variable | in the code |
|---|---|
| `disk`, `cat` | the archive's entries (or those of the temporary that could not be renamed), and the catalog in memory, which is behind them after a step that failed |
| `arc` | how the archive stands: open; stale, where the catalog is that of the file before; gone, where only the temporary is left; closed, where nothing could be loaded any more |
| `locks` | `LhHLock` with its `LhLock`: path, `entry_index`, `iterate_index`, `exall_aborted`, `pending_info` |
| `scans` | history: what the last listing of each lock has shown |
| `job` | the rename `lhh_rename_name` is working on: what is collected, what is left |

A listing is many packets and goes on from a row number; any delete, commit or
rename may come between two of them. The client examines, and lists with
EXAMINE_NEXT or EXAMINE_ALL, each to its end before it begins the next. EXAMINE_ALL
stops where its buffer is full, which is after any number of entries. A rename is
one packet and as many rewrites of the file as there are entries below the name;
each is a step (`lhh_arc_rename_one`: read, delete, append) in which one call may
fail. The order in which entries are collected is left open.

| the call that fails | what the code does | action |
|---|---|---|
| LhReadData | the entry becomes a directory (`lh_arc.c:2112`) | `RenameUnread` |
| one that stops the rewrite, and says so | the file stays, the catalog is built again (`lh_archive_dos.c:1920`) | `RenameUndeleted` |
| a Read of the rewrite | taken for the archive's end: the rest is dropped with LH_OK (`lh_archive.c:1056-1062`, `:1076`) | `RenameCut`, `DeleteCut` |
| the Rename of the temporary | the archive is deleted, the temporary stays (`lh_archive.c:1085-1088`); every later step of this rename fails | `RenameUnopened`, `RenameDenied`, `DeleteUnopened` |
| the Open of the new archive | its old catalog stays, with the old offsets (`lh_archive_dos.c:1934`) | `RenameUnopened`, `DeleteUnopened` |
| a Read or malloc of the new catalog | the catalog breaks off there | `RenameUnlisted`, `RenameLost`, `DeleteUnbuilt` |
| the Lock in front of the append | read as "no archive": it is made anew (`lh_archive.c:576`, `:599`) | `RenameAnew`, `CommitAnew` |
| one of the append | the entry is gone (`lh_arc.c:2134-2168`) | `RenameLost` |

What the code does and the model keeps: `rename_one` reads the entry's data from
the open catalog, so after a step whose reload broke off, it takes the entry for
one without data and adds a directory, and after one that left the catalog stale
it may read any entry's data (`unlucky`); new names that are too long are
skipped and reported as renamed; a rename may begin on a catalog that an earlier
one left behind; a second EXAMINE_NEXT listing on one lock of an archive's root is
empty, since `examine_archive_fib` (`lh-handler.c:685`) does not move the cursor
back (`lh.doc:578` says that examining does).

Left out: listings of the volume and of host drawers, match patterns, a refresh that
fails though the archive is there (`LhHandler`), a commit that fails, the piece of an
entry that a failing append leaves at the archive's end (`ArchiveFile`).

### `HandlerPort`: the process, its port and the way out

The other half of the loop: not what a packet does, but how packets come and go.
`LhHandler` takes one packet as one step and knows no port; `HandlerPort` keeps of
a packet only whether it grants or returns a lock and whom it calls, and splits it
at every point where the handler waits. Both describe `lhh_main`; what ties them is
`gd_UsageCnt`: `usageCnt` there, `held` here.

| variable | in the code |
|---|---|
| `port` | the messages at `pr_MsgPort` (`gd_Port`), in order |
| `private`, `asking` | the reply port of `lhh_dopkt`; a request at another handler |
| `at`, `serving`, `calls` | where `lhh_main` is, whose packet it serves, calls so far |
| `device`, `volume` | `dol_Task` of the device node; the volume node in the DosList |
| `client`, `kind`, `held` | clients: idle, about to send, waiting; the packet; who holds something |

A client first finds the port (in a node of the DosList or in `fl_Task` of a lock)
and then sends, in two steps: in between, the handler may have left its loop. Host
calls through `lhh_dopkt` wait at the private port. Calls of dos.library wait at
`pr_MsgPort` and take whatever comes first; if that is not the answer, dos.library
stops with an alert. That is how dos.library is modelled, from its documented
`WaitPkt`; it is not under `src`. A host path may also lead through an assign back
to `LHA:` (`"own"` in `Routes`): the packet then waits at the handler's own port.

Left out: a second mount after the process has ended, and the retry of
`lhh_volume_try_add`: `lhh_volume_splice_in` needs no lock on the DosList and
comes first.

### `PacketService`: what a handler promises

Three variables (who has asked, who holds something, whether the service is up) and
three steps: ask, answer, stop. Each packet is answered once, every packet is
answered while the service is up, and it stops only when nobody holds anything.
`HandlerPort` implements it under the mapping `asked <- Waiting`,
`holding <- held`, `up <- Up`.

### `LoadInstall`: the staged installation of Load

A component of its own: it reads a package through `lh.library` and works on the
file system otherwise. One run of Load installs the selected files one after the
other, or rolls a destination back; each action is a call that changes the disk,
or a few between which nothing is written, with the ways it can fail.

| variable | in the code |
|---|---|
| `disk` | destinations, `LHc`, `LHb` and `LHt` files, with what is in them |
| `side` | the `LHk` files: which destination each names |
| `load` | where the run is in `load_install_one` and below, its package and file, `force`, the token of its candidate, the backup it holds, and what the destination held when the file's turn came |
| `rc`, `clock` | the result of the last run; `DateStamp` |
| `good`, `newest` | history: what a completed run last left at each destination; the token of its latest backup |

`TakeToken`, `OpenCand`, `WriteCand` and `Gate` are `load_install_one` up to the
version comparison; `OpenBak` to `WriteSide` are `load_backup_to_t`; `OpenTemp` to
`CopyBack` are `load_place_file`, its way back included; `StartRollback`,
`OpenRoll` and `CopyRoll` are `load_rollback_dest`. `Reset` may happen between any
two, `Tick` at any time. A *mishap* is a call that fails, a write the media stores
wrongly, or a reset.

What is abstracted: a file's contents are a body or `Junk`, and a CRC tells bodies
apart. A fragment may show any version tag. Files in `SYS:T/Load` and beside the
destination that this run made can be deleted again. `Lock` of a file that exists
succeeds (the code reads any failing `Lock` as "no file"). Media errors that
nobody reports hit candidates and temporary copies only: the code never compares a
backup with the file it was copied from. A sidecar cut short by a reset is not
readable, and a roll-back overlooks at most one sidecar it cannot read. Each
destination and body has a temporary name of its own. Left out: two Loads at the
same time (they may choose the same token, because a name is looked for and used
in two steps). The Manifest, dependencies and the choice of variants are in
`Package`.

A package of several files is not installed as a whole: a failure at the second
file leaves the first one installed. `Package` says when that cannot happen.

### `VersionTag`: $VER: tags

Pure operators for what `handle_ver.c` and `load_ver.c` hold twice: a text is a
sequence of cells; `load_ver_scan_file` finds its first tag and takes a version and
a date from what follows, `load_ver_compare` compares two. The buffer is part of it:
a file is read `BufLen` cells at a time, and a tag's line ends where the buffer in
which it was found ends (`WindowEnd`). At the end of a file the cells that were kept
are searched again for ever: a text without a tag is read as `Hang`, an empty one as
`NoVersion`. A parenthesis that stands right behind a token ends that and is not
read as a date. `StrToLong` skips blanks; numbers have no sign and do not overflow
here.

### `Package`: from a stage to installed files

Handle and, when it is over, Load on another machine, with the package between them.

| variable | in the code |
|---|---|
| `given` | the arguments of both, the staged Manifest, the host (`load_host_*`, OS and library versions), what lay at OUT and at the destinations |
| `stage` | the files below FROM, with their texts |
| `bin` | the package at OUT: its Manifest, and for each member what was read |
| `installed` | the files at the destinations |
| `job` | `handle_run`: where it is, what the walk has come to, `struct HandleScan`; history: whether its Manifest was cut, whether the staged one was read in part (`skimmed`), whether the package at OUT was taken for none (`unseen`) |
| `load` | `load_run`: `struct LoadManifest`, which lines are still to be installed; history: what was placed, and where a file was taken for none (`unseen`) |
| `edits`, `mishaps` | how often the stage has changed, calls failed or machines were reset |

`StartScan`, `ScanOne` and `EndScan` are `handle_scan_stage`, a file a step, since
`ExNext` and the lock of each directory let others in between; `CheckOne` is
`handle_check_sys_ver_uniform`; `BuildManifest` makes the text and deletes what is in
the way; `CreateBin`, `AddManifest`, `PackOne` and `EndPack` write the archive.
`HandleCallFails` is any call of theirs whose result is looked at, `HandleReset` a
reset, `Edit` another program that writes a staged file or removes one. `StartLoad` is `load_run` up to its loop:
`load_parse_manifest`, `load_check_deps`, `load_select_variants`. `InstallOne` is
`load_install_one`; how the file is put into place and what a failure there leaves is
`LoadInstall`'s subject, here it is one step or none; `LoadCallFails` is a call of Load
whose failure stops it.

Some calls may fail and the code goes on, on what it makes of that; these are steps of
their own. A staged Manifest that cannot be opened is none, and a Read of it that
fails is its end, in any place of any line (`CutStaged` in `EndScan`). A Lock of OUT
that fails means that no package is there (`BuildManifest`): it stays until
`LhOpenArchive` deletes it, FORCE or not. A Lock of the readme that fails means that
there is none (`EndPack`), and a Lock of a destination that nothing is installed
(`InstallUnseen`).

A name is a sequence of what stands between its dots, so that tags are members of
it; a path is a sequence of names. The order of a walk is `ExNext`'s: any, but a
directory is walked to its end. A Manifest is a record, its `File:` lines with as
many tokens as there were room for: `ManifestMax` counts tokens, and the cut is in any
place of the token where it comes (`CutLine`, `CutPaths`).

What the code does and the model keeps: the second walk takes what is there, whether
the first has seen it or not; it leaves out `Manifest`, `-package.ver` and
`Load.displayme` in every directory, where the first leaves out a Manifest beside the
program only, or nothing; a name with a blank is cut there when `load` reads it
(`FirstWord`); the last line of a staged Manifest is dropped without a word when
no newline ends it and it is wrong; `OS:` is not compared when it begins with no
digit; all files of a system stage have one version, those of a program are compared
by Load only, one after the other.

Left out: arguments and messages; names that differ in case alone; `File:` lines and
staged lines longer than 511 bytes; a PRIMARY from outside the stage (a Lock that
fails for the staged one makes Handle look for a file of that name in the current
directory, `handle_manifest.c:541-550`), a readme whose name is that of a staged file;
an end mark that cannot be written when the package is closed, which no reader misses;
a file that appears in the stage between the walks; destinations that are the root of a volume. A file for
a PowerPC is judged by its library alone, as the code does (a WarpOS file scores 1000,
a 68020 one 2000).

### `ArchiveFile`: the archive on disk while the engine changes it

Below the catalog: the `.lha` file as a sequence of pieces (entries, whole or cut
short in header or payload, and end marks), and the two ways the engine changes
it, each action one call on the file system. `LhCatalog` takes a rewrite and an
append as one step each; this is what happens inside.

| variable | in the code |
|---|---|
| `archive`, `temp` | the file, and `archive.$$$` of `lh_archive_rewrite`; `NoFile` where there is none |
| `held` | another program has the archive open, so `DeleteFile` and `MODE_NEWFILE` fail |
| `run` | where `lh_archive_rewrite` or the adding loop is, the names to delete, the entries to add, the position of the reader, the archive at the start |
| `rc` | the status returned |
| `misled` | history: a failed `Read` was taken for the end of the archive, or a failed `Lock` for its absence |

`StartDelete`, `OpenTemp`, `Skip`, `Copy`, `StopCopying`, `CopyGarbled`, `Abandon`,
`DeleteArchive` and `RenameTemp` are `lh_archive_rewrite` (`lha d`,
`LhDeleteFile`); `StartAdd`, `WriteHeader` and `WritePayload` are
`lh_writer_open_append` and `lh_writer_add` (`lha a`, `LhAddEntry`). `Reset`
happens between any two calls or in the middle of a write; `Hold` and `Release`
are another program. A *mishap* is a call that fails or a reset.

What the reader makes of damage: a header cut by the end of the file, like the end
mark, is the end; a payload cut by it is an error that the rewrite takes for the
end. A cut piece followed by others reads on into those: what comes back is one
entry of garbage at most, and then the end or an error, whichever the bytes
happen to say (`CopyGarbled`).

Left out: two programs changing one archive at the same time; what a rewrite does
to the *kind* of a kept entry (`KindsKept` of `LhHandler` has that); `lha c`,
which ignores an addition that fails. Readable is what `lh_reader_next` returns
entry by entry: building a catalog seeks over payloads, and on a file that ends in
a cut payload that seek fails, so after a torn addition the library opens the
archive again only when a rewrite (`lha d`) has dropped the torn entry.

### `LhHeader`: what is written of an entry and what is found again

Below `ArchiveFile`, which takes a header as readable or not: what of a header
decides that. All of it is lengths, so the module has lengths only: of the
directory and the name, of the comment, of each extension, of the header and of the
payload. `lh_hdr_split_path`, `WriteLevel2` and `WriteLevel01` (the two halves of
`lh_hdr_write`), `Level2Chain` (the extensions the first of them writes),
`lh_hdr_read_level2`, `lh_hdr_read_lhex` and `lh_hdr_read` are operators from lengths
to lengths. A header remembers the entry it says it is for (`meant`), which nothing
reads but the properties; one of level 0 or 1 has no comment, so neither has the
entry it means. What a rewrite keeps (`RewriteKeeps`) is not judged by `meant` but by
what `lh_hdr_read` gets of the old header and of the new one.

| variable | in the code |
|---|---|
| `file`, `temp` | the `.lha` file, and the one a rewrite writes, as headers with their payloads |
| `mode` | between calls, in `lh_arc_build_catalog` (or `lha l`), in `lh_archive_rewrite`; `end` or `failed` after a listing |
| `next`, `shown` | where the reader is, or `Lost` when it is not at a header; what it has returned |
| `level` | the level the rewrite writes (`lha d -0`, `-1`, `-2`) |

`Add` is `lh_writer_add`, `AddForeign` a header of another program, which may use
any mix of level, extensions and pads the format allows (`WellFormed`). `List`,
`Copy` and `Replace` each take one result of `lh_reader_next`.

Left out: checksums and CRCs of headers (the reader ignores them), dates and
attributes, which names are equal (the catalog normalises separators and a rewrite
compares names as they are written, `lh_archive.c:1062`, so a delete may remove
nothing: a hazard no property covers), allocation failures, a torn file (see
`ArchiveFile`), a directory named in the path alone whose promoted name has
several components (it is one component here), and `lh_hdr_read_extensions`, which
nothing calls. A rewrite encodes payloads anew, and their packed lengths may change: here they
stay, since no header's size depends on them.

### `AdaptiveTree`, `LhLzhuf`: -lh1-

`AdaptiveTree` is the tree of adaptive Huffman codes both ends keep
(`StartHuff`, `update`, `reconst` of `lh_lzhuf.c`): frequencies, parents, sons, the
swap that keeps frequencies in order, the halving at the limit. `LhLzhuf` has the
encoder (`lhz_encode`: the ring with its mirror, the trees of matches with
`InsertNode` and `DeleteNode`), its decoder in the same file, and the second
decoder of `lh_lh1dec.c`, which keeps blocks of equal frequencies with a leader
each and a free list of blocks. Each action is one character of the text that is
encoded, and then one of the code that is decoded. Codes are the bits they
are made of; the positions' fixed codes are generated from the lengths as the
tables of the code are, and agree with them at the code's sizes.

Left out: the checks of sizes in front of the encoder (`lh_lzhuf.c:665-677`) and
`lh_buffer.c`. Codes longer than 16 bits are cut by the code
(`lh_lzhuf.c:548`); a tree that deep needs more characters than TLC can feed it.

### `StaticFormat`, `LhStatic`: -lh4- to -lh7- and -lhx-, reading

`lh_lh5dec.c`. There is no encoder in `src` that this decoder can read (below), so
`StaticFormat` states the format as other programs write it, from the lengths of
codes to bits; it is external. `LhStatic` is the decoder: bit buffer, the three
tables with their trees for codes longer than a table's index, rows of lengths with
their runs, blocks, matches and the window. Each action is one block header, or one
character or match.

`make_table` returns without a word on a row of lengths that is not complete, and
the table of the block before stays in use; the properties are about complete rows.
With -lhx-, a position code of 17 or more overflows the `unsigned short` it is
built in (`lh_lh5dec.c:317`), while the ring is 1 MiB (`:452`).

### `LhCodec`: the encoders and the copying methods

`lh_codec.c`: what `lh_writer_add` calls for every method. Each action is one
pass of an encoder's loop: refill, search for a match, literal or match; or one
character of a LArc decoder. The output of -lh5- to -lh7- is counted, not written:
no decoder in `src` reads it. (The encoders of -lh1- and -lh4- write 512 bytes of
table and the text as it is; -lh2- and -lh3- entries can be written and not be
read, `LH_ERR_UNSUPPORTED`; `smoke.c:38` calls the -lh5- round trip pending.)

| variable | in the code |
|---|---|
| `method`, `input`, `spare` | what `lh_writer_add` asks for, the text, the room beyond nine eighths of it |
| `status` | how far the call is, or how it ended |
| `enc` | window, `startPos`, `lookahead`, the chains of equal bytes |
| `codes`, `bits`, `sent` | `codeLookup` and `distLookup`; how many bits were written, and which bytes they stand for |
| `out`, `dec` | the bytes of the other encoders; the LArc decoders: ring, flags, what has come out |

What the code does and the model keeps: a literal of -lh5- to -lh7- moves both
cursors, and so every second byte is skipped; a match moves them by twice its
length; at the end of the input a match moves neither, so that -lh5- and -lh7-
write until there is no room and -lh6- for ever; the chains are never cut, and
become circles after one lap of the ring unless a match is good enough to stop the
search; a distance may be beyond the table of distance codes (`beyond`). -lzs- has
four bits for a length that may be 18 or more, and both LArc encoders compare with
bytes the decoder has overwritten by then; the -lz5- decoder takes the first flags
for text.

Left out: bit buffers (and with them `bitBuffer` and `bitCount` of -lh6- and
-lh7-, which are file-scope and shared by concurrent calls), the search of -lh2-,
which reads behind its input, and functions nothing calls (`lh_read_bits`,
`lh_build_huffman_tree`, `lh_decode_value`, `lh_init_decompress_state`,
`lh_codec.c:2097-2125`).

### The `MC` modules

Values for TLC: one archive with a directory `d`, a file `d/f` in it and, in some
runs, the name `d.info`; `d` is implied by `d/f` in one initial file and has a
header of its own in the other, and the path may also hold a drawer, something that
is no archive, or nothing. For the port: every kind of packet, with and
without host paths that lead back. For Load: an old package with one file and a
newer one with two. For the archive file: two names, one of which may be a
directory or empty file, in archives that end well, in a mark, or in a cut entry.
For headers: lengths on both sides of each limit, and seven headers of other
programs. For listings: a directory with two files below it and a file beside it,
implied or with a header. For packages: stages of one to four files for one or two
destinations, four hosts from a plain 68000 to a 68040 with WarpOS, staged Manifests
that ask, trail off, spoil or are too long, old packages, and installed files that
are older, newer, dated, untagged or unreadable. For the codecs: every short text, and longer ones that
repeat, nearly repeat, or do not; for `LhStatic` every complete row of lengths for
six characters and four positions.

## 3. Runs

| run | instance | properties |
|---|---|---|
| `faults` | 2 locks, 1 handle, an archive of one entry, a pass-through file, a drawer or nothing, icon names, no or any one of the first 6 calls of a packet fails, other programs replace the file | `ReferencesBalanced`, `CacheMatchesUse`, `CountsExact`, `NoDangling`, `HandlesOwnLocks`, `ShutdownLeavesNothing` |
| `quiet` | 2 locks, 2 handles, archives of up to two entries, a drawer or nothing, no call fails, nobody else writes the host volume | `LocksTrackCatalog`, `CacheCoherent`, `CloseStoresData` |
| `port` | 2 clients and the mounter, every kind of packet, 2 calls per packet | `IconsReadSafely`, `ServesOnce` (refinement), `ServesAll` (liveness) |
| `load` | 2 destinations, packages of 1 and 2 files, an installed file of an older date, days of 3 minutes, tokens that keep nothing of minute and day, 3 names, a clock that moves once, 2 mishaps | `Recoverable`, `FragmentsAreCovered`, `BackupsAreKept`, `FailureRestores`, `OkMeansInstalled` |
| `rewrite` | archives of two entries, perhaps the last one cut or a mark behind them, additions of up to 2 entries, 4 pieces, 2 mishaps | `KeepsTheRest`, `OkMeansGone`, `FailureKeepsArchive`, `AddedIsReadable` |
| `scan` | 1 lock, archives of up to 3 entries, 2 deletes, additions or renames, 1 failing call | `ListsEachOnce`, `NothingMissed`, `RenameKeepsOthers`, `RenameMovesAll`, `ListingsEnd` (liveness) |
| `lzhuf` | 5 characters (2 bytes and 3 lengths), frequencies up to 11, a ring of 32, matches of 3 to 5, every text of up to 7 bytes and chosen ones of 70 | `ReadsBack`, `TreesAgree`, `LongestMatch` |
| `static` | 6 characters, 4 positions, a window of 8, tables of 3 and 2 bits, every complete row of lengths | `ReadsBack` |
| `codec` | the 15 methods, rings of 8 and 16, matches of 3 to 6, every text of up to 8 bytes and chosen ones of 48, room that is tight or ample | `CursorSafe`, `ReadsBack`, `CallEnds` |
| `package` | 122 cases of stage, Manifest, host and installed files; 4 files, 2 requirements, 10 tokens, buffers and lines of 16 cells, 1 change of the stage, 2 mishaps | `LeavesWholeOrNothing`, `LoadsAsAWhole`, `InstallsWhatFits`, `NoDowngrade` |
| `lost_bytes` | -lh5- alone | violates `EveryByteSent` |
| `headers` | archives of 2 headers, of 36 entries added and 7 headers of other programs, listed and rewritten to every level | `ShowsWhatWasMeant`, `StopsOnlyThere`, `RewriteKeeps` |

Why these bounds. Two locks are two clients on one archive: one writes or deletes,
the other watches its lock being unbound and rebound, and a walk needs at most one
lock beyond its parent's. Two handles (`quiet`) give two writers on one archive, one
writer and one image. What the files hold may take a third client, one that changes an
archive under a reader and a writer: with `LockIds = {1, 2, 3}` and `HandleIds = {1}`
`quiet` has 324,750 states, finds no violation, and takes minutes; the theorems of
section 4 hold for any number. No packet
makes more than six calls that fail apart from each other: call numbers up to
nine give the same states. Two entries (`quiet`) are enough for a duplicate, for a
row that moves, and for a full volume; the bookkeeping that `faults` checks does not
depend on how many there are. One chunk is enough to tell written data
from none (`faults`, whose properties never look at data, buffers none). Two archives never touch each other in this code except by paths, so
one is checked and the proof covers any number.

`CHECK_DEADLOCK FALSE`: after ACTION_DIE the handler stops, Handle and Load end, and
there is nothing left to do.

`LocksTrackCatalog`, `CacheCoherent` and `CloseStoresData` are
checked without failing calls. Of the first this is a limit of the code: a delete that
fails half way rebuilds the catalog in place (`lh_archive_dos.c`, end of
`lh_arc_delete_entry`), and `lhh_delete_name` then skips the refresh, so locks
keep rows of the old catalog.

In `port`, two clients are enough for one packet to overtake another and for one
client to send while another is served; two calls per packet are enough for an
answer of the first to meet the second.

In `load`, two mishaps are one failure and one failure of the recovery from it;
tokens that all share one stamp, with three names in all, let the names come round
at once, run out and meet those of older backups. Two packages over one destination
give an upgrade, a downgrade, a reinstallation and, with the second file of the
newer one, an installation that stops half way.

In `rewrite`, two entries are enough for one to be deleted and the other kept in
either order, and for a cut between them; two mishaps are a failing call and the
reset that follows it, or two resets, so that an addition meets what a torn one
left. Two gaps of the code are excepted from `KeepsTheRest` by name: calls that
mislead (`misled`), and an addition that makes a new archive while the old one is
still under its temporary name.

In `headers`, two headers are enough for one to be lost behind the other, and for a
rewrite to write a second one after the first; the reader keeps nothing else from
one header to the next. The lengths meet each limit and pass it: level-2 sizes 39,
255, 256 with its pad, 257, 275 to 277 and 1018 to 1024; names of 200 and 201, 255
and 256; directories of 510 to 512.

In `scan`, three entries let one be shown, one deleted or added in front of the
cursor, and one be left; two changes are a change and one that undoes or follows
it; one failing call in each of the places of the table in section 2 meets every step
of a rename, before, at and after the file it hits; the lock is the lister's, since listers share nothing but the catalog.

In `package`, two files for one destination are enough for a choice and three for a
tie in one part of the score and a difference in another; two destinations are
enough for the first file to be installed and the second refused. Ten tokens are
three plain `File:` lines or two and a half with an FPU. One change of the stage
between the walks is a file that goes or changes; two mishaps are a call that
fails and the DeleteFile behind it. Buffers of 16 cells and tags of two let a tag
lie across a border, in front of it and with its line cut by it. The properties hold
with exceptions, each of which the run reaches: without any one of them TLC finds a
counterexample.

In the codecs, the constants of the code are scaled down together, so that the
window wraps (twice in 70 or 48 bytes), frequencies are halved, a table's index
is shorter than the longest code, a row has a run of zeros and a length beyond its
three bits, and a match is cut by the end of the text, all within texts of which
all can be tried.

*Fairness.* `LhHandler`, `LoadInstall`, `ArchiveFile`, `LhHeader` and the codecs
state safety only and assume none: `CallEnds` says that a measure of what is left
falls with each pass, which is stronger. `LhScan` assumes weak fairness of the
client's next EXAMINE and of the next step of a rename that has begun: `ListingsEnd`
is about clients that go on, and the rename is one packet the handler works off.
`HandlerPort` assumes
weak fairness of the handler's process (it is a process the system schedules, and
each of its steps stays enabled until it takes it) and of each other handler (it
answers what it is asked). Nothing is assumed of clients. `ServesAll` says that
under this fairness every packet sent while the handler is up is answered, unless
a packet is stolen (see below) or the handler has sent a packet to itself: those
two stop it for good, and both are reachable. A packet sent in the window between
`Die` finding the port empty and `dol_Task` being cleared (`lh-handler.c:154`,
`:1400`) is never answered either; `PacketService` allows that, because a service
that is down answers nobody.

### Where code and comments disagree

* `lost_bytes`: `src/README.md:40` says that -lh5-, -lh6- and -lh7- compress, and
  `smoke.c:38` that only a "codec header/bitstream alignment fix" is pending. Every
  second byte of what they do not match is in no item of the output (`LhCodec`).

Some more that the code does not hold to, as definitions no run lists or as what a
property excepts, since the runs are about what it does hold to:

* `lh_pkt.c:8-10` and `lh_icon.c:14-15` explain why nothing in the handler may wait at
  `pr_MsgPort` once the device is live. Deleting a host object (`lh_arc.c:2070`),
  creating a drawer (`:2576`) and every write to an archive (`:429`, through the
  library's own files) do: a client's packet that arrives during the call is taken for
  the answer (`at = "alert"` in `HandlerPort`).
* `load_ver.c:14-15` says that a scan returns 0 for an I/O error and -1 for a file
  without a tag, and `load_run.c:846` counts on it ("No $VER: on installed file: treat as
  older"). Only an empty file gets that answer: at the end of any other the loop reads
  nothing, has kept four bytes and searches those for ever (`:277-280`, and
  `handle_ver.c` the same). Handle does not end on such a file of a system stage, Load
  not on one that is installed.
* A tag whose line the end of a 4096-byte buffer cuts is read in part: 4.12 may be
  taken for 4.1 (`load_ver.c:253`), and a newer file be replaced. `NoDowngrade` is
  about installed files where it lies in one buffer. In the one that replaces them
  what is read counts, and that may be more than is there: of a date in 1998 cut
  behind 199 the year is 99.
* A change of the stage between Handle's two walks, a reserved name in a
  subdirectory, or a Manifest over 12288 bytes give a package that names members it
  does not hold, or holds some it does not name, and Handle says that all is well.
* A `Requires:` line that is one too many is an error (`handle_manifest.c:864`) unless
  it is the last line and no newline ends it: then it is dropped (`:904`), and Load
  does not ask for what it names. `InstallsWhatFits` excepts it.
* A name with a blank cannot be installed: Load reads what precedes the blank, and if
  that has tags of its own, goes by those.
* A staged Manifest that cannot be opened, or read to its end, is taken for one that
  says no more (`handle_manifest.c:844`, `:852`): its `Requires:` and `OS:` lines are
  dropped, Handle returns `RETURN_OK`, and Load installs where they are not met.
  `InstallsWhatFits` excepts it (`skimmed`).
* A Lock that fails is taken for a file that is not there. In Handle
  (`handle_walk.c:520`) a package is then replaced without FORCE, which
  `LeavesWholeOrNothing` excepts (`job.unseen`), and a readme left out. In Load
  (`load_run.c:719`, `:831`) no versions are compared and no backup is made, and
  `load_place_file` deletes what it finds (`load_atomic.c:597-609`): a newer file is
  replaced by an older one without FORCE, which `NoDowngrade` excepts (`load.unseen`),
  and if the Rename fails then there is none, and no backup of it. `LoadInstall` assumes
  that a Lock of a file that exists succeeds.
* With FORCE, a run of Handle that fails has deleted the old package and leaves
  none; a reset behind `AddManifest` leaves one with a Manifest and part of its members.
* A rename of a drawer may lose files it is not about (`dropped`): a Read that fails
  while one entry is deleted (`lh_archive.c:1076`) drops all behind it with LH_OK, and
  a Lock that fails in front of an append (`:576`) makes the archive anew with that one
  entry. A Rename that fails (`:1086`) leaves the temporary `.$$$` alone; if something
  had been renamed before, `lhh_rename_name` still answers with success and its refresh
  then finds no archive. When the new archive cannot be opened
  (`lh_archive_dos.c:1934`), the next file is read at the offset it had in the old one.
  `RenameKeepsOthers` excepts `dropped`, and files read wrong (`unlucky`).
* `NoUseAfterFree` (`LhHandler`): `lhh_lock_resolve` (`lh_arc.c:1543`) frees the lock
  of the walk and then asks `arc->archive` about the companion of an icon. When that
  lock was the archive's last user, the archive has just been closed.
* An entry appended to an archive that ends in the end mark lies behind the mark
  (`lh_archive.c:348`) and is never seen; a file copied into an archive another LhA
  made is gone after it is closed. `CloseStoresData` does not hold of such archives.
* `KindsKept` (`LhHandler`): `lh_archive_rewrite` (`lh_archive.c:1063`) adds kept
  entries with a store method, so the `-lhd-` entries it keeps become empty files.
* `RollbackTakesLatest` (`LoadInstall`): a backup's token keeps the minute of the day
  modulo 100 (`load_atomic.c:396`), so of two backups the one taken a minute later
  may have the smaller token. `load_rollback_dest` (`:756`) takes the greatest and
  calls it the latest.
* `CommentsPreserved` (`LhHeader`): `src/README.md:192` says that file comments are
  "Preserved on rewrite where present in archive headers". `lha d` with `-0` or `-1`
  writes headers that have no comment (`lh_header.c:1099`, "no comment ext"), and the
  comments of all entries are gone. `RewriteKeeps` asks for them at level 2.
* `EveryEntryIsListed` (`LhHeader`): `lh_hdr_read` (`lh_header.c:840`) judges the low
  byte of a level-2 size as if it were all of it. A header of 257 to 275 bytes is
  rejected, and with it the archive; one of 276 is read as an entry without a name,
  which everyone takes for the end, so that `lha d` drops what is behind it. Any name
  and comment of about 220 bytes together do it. The pad that `lh_hdr_write` puts
  behind a header of 256 bytes, so that it is not taken for the end, makes it one of
  these; and sizes of 1020 to 1024 fit the writer's buffer but not the reader's. A
  rewrite to level 2 may give a readable header of another level or another program
  such a size, and what is behind it is lost to readers then: `RewriteKeeps` excepts
  the new headers that cannot be read.

## 4. What is proved

`LhHandlerProofs` proves for any set of archives, names, locks and handles, any
initial disk and any plans of failing calls:

| theorem | property |
|---|---|
| `Invariance` | the inductive invariant `IInv` |
| `Balance` | `ReferencesBalanced` |
| `CacheEmptied` | `CacheMatchesUse` |
| `Counters` | `CountsExact` |
| `Bound` | `NoDangling` |
| `Ownership` | `HandlesOwnLocks` |
| `Shutdown` | `ShutdownLeavesNothing` |
| `Soundness` | the inductive invariant of the files and their pictures, `SInv` |
| `TypeCorrect` | `TypeOK` |
| `Tracking` | `LocksTrackCatalog`, if `Undisturbed` |
| `Coherence` | `CacheCoherent`, if `Undisturbed` and one entry fits an archive |
| `StoredOnClose` | `CloseStoresData`, if `Undisturbed` and `Unmarked` |

`Undisturbed` and `Unmarked` are about the constants, and what they exclude breaks
the property (below): no call fails, no other program writes the host volume, and
under an archive's name there is at first an archive, a drawer or nothing; no archive
ends in the end mark. `Soundness` and `TypeCorrect` need neither.

and `HandlerPortProofs`, for any number of clients, any kinds of packets and any
number of calls in a packet:

| theorem | property |
|---|---|
| `PortInvariance` | its inductive invariant `IInv` |
| `PortTypes` | `TypeOK` |
| `IconsSafe` | `IconsReadSafely` |
| `PacketOnce` | `EveryPacketOnce` |
| `PrivateQuiet` | `PrivatePortQuiet` |
| `Implements` | `ServesOnce`: every step is a step of `PacketService` or a stutter |

and `LoadInstallProofs`, for any packages, destinations, versions, widths of the
parts of a token and any number of mishaps:

| theorem | property |
|---|---|
| `LoadInvariance` | its inductive invariant `IInv` |
| `NothingIsLost` | `Recoverable` |
| `FragmentsCovered` | `FragmentsAreCovered` |
| `BackupsKept` | `BackupsAreKept` |
| `FailuresRestore` | `FailureRestores` |
| `OkInstalled` | `OkMeansInstalled` |

and `ArchiveFileProofs`, for any archive, any entries, and any number of mishaps:

| theorem | property |
|---|---|
| `ArchiveInvariance` | its inductive invariant `IInv` |
| `ArchiveTypes` | `TypeOK` |
| `RestIsKept` | `KeepsTheRest` |
| `DeletedIsGone` | `OkMeansGone` |
| `FailuresKeep` | `FailureKeepsArchive` |
| `AdditionsAreRead` | `AddedIsReadable` |

and `LhHeaderProofs`, for names, comments, payloads and extensions of any length:

| theorem | property |
|---|---|
| `HeaderInvariance` | its inductive invariant `IInv` |
| `HeaderTypes` | `TypeOK` |
| `ReadsWhatWasWritten` | `ShowsWhatWasMeant` |
| `ReadersStop` | `StopsOnlyThere` |
| `RewritesKeep` | `RewriteKeeps` |

and `LhScanProofs`, for any archive, names, number of locks and failing calls:

| theorem | property |
|---|---|
| `Typed` | `TypeOK` |
| `EachOnce` | `ListsEachOnce` |
| `NoneMissed` | `NothingMissed` |
| `KeepsOthers` | `RenameKeepsOthers` |
| `MovesAll` | `RenameMovesAll` |

and `PackageProofs`, for any stage, Manifest, host, limits, edits and mishaps:

| theorem | property |
|---|---|
| `Typed` | `TypeOK` |
| `LeavesWhole` | `LeavesWholeOrNothing` |
| `InstallsBest` | `InstallsWhatFits` |
| `LoadsWhole` | `LoadsAsAWhole` |
| `NoDowngrades` | `NoDowngrade` |

and `LhCodecProofs`, for any input and room, and any sizes of rings, windows, tables
and of the two bytes of a match:

| theorem | property |
|---|---|
| `CursorsSafe` | `CursorSafe` |
| `CallsEnd` | `CallEnds` |
| `Returned` | `ReadsBack` |

*The bookkeeping.* None of its properties is inductive between the calls of a packet: inside
`lhh_lock_real_path` there is a host lock nobody counts yet, and between
`lhh_arc_obtain` and `lhh_lock_alloc` an archive has one reference more than it
has users. So the invariant is one of worlds, `Good(w, x, k, j, u)`: types; no
dangling `LhLock` and free locks blank (`Tidy`); unreferenced archives out of the
cache (`Idle`); references on each archive equal to its users, plus `k` in transit
on archive `x` (`Refs`); counters equal to what they count, plus `j` host locks in
transit, with `u` handles open (`Counts`). One lemma per C function says how it
changes `x`, `k` and `j` and which locks it keeps, grants or frees; the lemmas
compose the way the functions do. Between packets nothing is in transit
(`Settled`), and `IInv` adds that each handle's lock fits its kind and is its own
(`HandlesOk`), and that no packet is served after DIE except with nothing out.

*The files and their pictures.* `Sound(w)` says of each lock and each path of a world
what it has to do with the file. A lock holds a row, the code of a drawer or nothing;
undisturbed, it is the row `lh_arc_lock` finds for its entry in the archive's catalog
now (`LockSound`). A file is one of those the host can hold, a picture is a catalog, and
undisturbed the picture of an open archive is what its file holds (`PathSound`). Two more
facts make it inductive: undisturbed, a host lock under a `.lha` path is on a drawer,
so that nobody opens an archive's file for output as a host file, and a drawer that
is locked is not deleted (`HostLocked`); and a writer's entry has a name (`WriteFits`).
Inside a packet it is not so: between the append and the refresh of a commit the file
is ahead of the picture, and between the reload and the rebinding the locks are behind
the catalog. `SoundBut(w, x)` therefore excepts the archive `x`: changing a file leads
from `Sound` to `SoundBut` (`FileStep`), the refresh back from it (`RefreshSettles`),
and every other function keeps either, since a picture changes only where no lock is
on it (`FreshPicture`, `SoundStep`). `HandleCloseSound` carries `Stored` through the
commit: the reader is closed before the file is written, so that the append sees the
archive as it is. That one entry fits (`MaxEntries > 0`) is needed by an archive which
is deleted under its reader: the next CREATE_DIR in it creates the file, and if nothing
fits, `RefreshIfDone` leaves the picture as it was.

The proof found what two locks in `quiet` did not show. Of a file that is no archive
clients get host locks; one of them is opened for output, which makes the file an empty
archive, and the next client mounts it; when the other host lock is opened for output,
the file changes behind the picture. TLC finds it with three locks. So `quiet` begins
without such a file now, and `Undisturbed` excludes it; `faults` has one.

*The port.* `EveryPacketOnce` is not inductive alone: that a step of the handler
answers the packet it took needs the message it takes to be a client's, and that
needs to know where the answers to dos.library and the handler's own packets can
be. `IInv` therefore says, with the port seen as a set without repetitions
(`PutAtEnd`, `TakeFirst`): which messages can be there at which place of the
program (`Startup`, `Answers`), that each user's packet is in one place
(`Packets`), and that nothing is held on the way out (`Released`), which is what
the refinement needs for `Stop`.

*The installation.* `Recoverable` is not inductive: the step that deletes the
destination keeps it only because the backup was finished before, and the steps in
between do not show that. `IInv` adds what Load holds at each step (`Progress`):
the destination is untouched until the swap (`Untouched`), the backup being made
has a name no finished one uses (`FreshBak`), the finished one has the old file's
contents and a sidecar that names the destination (`HasBak`), what is renamed is
the verified body (`Placed`), a restoration follows a mishap (`Restoring`) and a
roll-back copies a finished backup (`Rolling`). `Safe` says that from the swap on
the last good file is in a finished backup, `Whole` that no sidecar outlives its
backup, and `Genuine` that a backup of a fragment is never the only one. That
finished backups stay (`Kept`) is shown for each action and used for the rest.
`OkMeansInstalled` speaks of all files of a run, but its last step sees one; so
`Orderly` keeps what each file before the present one was left as (`SettledUp`),
with the destinations of a package distinct (`Apart`) and no step writing to
another's (`InstallGoes`). It was first stated without its last condition, and
the proof failed at the version gate: a candidate that the media spoilt may show
the tag of an older body of the Manifest's Version, and a file older than the one
selected then stays, with RETURN_OK. TLC shows it once such a body exists, and `load`
now has one.

*The archive file.* What the properties say of the last step, the deletion of the
archive, follows only from what has been copied until then. `IInv` says: while a
rewrite reads, the archive is what it was (`Source`); the temporary file has whole
entries only, none of them deleted (`Clean`), and exactly the kept ones among those
read so far, in order (`Copied`, through a map from the entries kept to their
places, extended by `HoldsCopied`); once reading has stopped and nobody was
misled, that is all that could be read (`Copies`). Of an addition it says that the
archive is the old one and the first entries of those to add (`Adding`), the last
perhaps without its payload (`Torn`).

*The headers.* What carries the argument is not about states: whatever the writer
accepts (`WrittenIsSound`) and whatever is well formed (`WellFormedIsSound`) is
`Sound`, that is, with a readable size it is read as it was meant, and to its last
byte, so that the next read begins at the next header. `SplitThenCombined` says
what the split of a name keeps of it. `IInv` says that all headers of both files are
sound, that the reader is behind as many headers as it has shown, and that a rewrite
has written, for each entry shown, what the writer makes of it (`Sent`). Both headers
being sound, what a reader gets of the new one is what it got of the old, but for the
name that level 2 cuts and the comment that levels 0 and 1 do not have.

*Listings.* What a listing has shown is history, and nothing in a lock but a cursor
stands for it. `ScanInv` says of each lock for itself (`Sound`): a listing that
nothing has disturbed has shown what stands in the rows up to the cursor of
EXAMINE_NEXT, or before the key of EXAMINE_ALL, with the queued icon the last one's
(`SteadyNext`, `SteadyAll`), and no two rows it stops at speak of one child
(`NextChild`, `RowsToNext`); one that each change begins again has
shown what was there all along, or has it ahead of the cursor (`Whole`). One lemma
says what a packet of a lock does to it, one what a change of the archive does to
all (`Rebound`).

*The rename.* The proof needs the catalog's rows in order without `SelectSeq`: a
rewrite keeps row i at the place `Rank` and `RowAt` finds it again, so that a name
is found with the same data after another is deleted. `RenameInv` says that a
file's old name is still to be worked off, or is found under its new one
(`Fate`), and that the new names of what is still to come are free (`Apart`), so
that none hides or is hidden. It says so of names that are not `dropped`: a rewrite of
the first rows finds a name where the whole archive has it, or not at all
(`FirstRows`), and what it does not find is in `dropped`. While nothing has failed
nothing is dropped and the archive is open, which `RenameMovesAll` needs. `RenameMovesAll` excepts a file that a listing shows
as a drawer (an archive with both x and x/y, x/y first): TLC finds it in an instance
where both are there, the proof wants it said.

*The package.* The first walk has a `File:` line for each file it has come to, and
behind it for each there is (`LinesInv`); what the second walk has come to is held
under its name with the text it had (`HeldInv`); the old package is there until it
is out of the way (`BinInv`), which without FORCE takes a Lock that fails. `LoadInv` says that what is installed comes from lines
that `load_select_variants` has chosen out of that Manifest. That the choice is the
best is arithmetic about `load_variant_score` (`BetterScoresMore`: 10 ranks of a CPU
weigh more than any FPU and MMU) and about the first of the greatest (`BestFacts`).
For a package of SYS, `CheckInv` says that what Handle has checked has the
package's version, `InstallInv` that each chosen line whose turn has come holds it or a
newer one; that `load_ver_compare` orders versions needs them to be pairs of numbers
(`NumberFacts` to `VersionFacts`, along the parser). Two things came out of the proof
and are excepted now from `InstallsWhatFits`: a reset behind `CreateBin` leaves
a package without its Manifest, and the last `Requires:` line may be dropped. What the
staged Manifest asks for is in the package's while it was not read in part (`Merged`).

*No downgrade.* Where the line of a tag lies in one buffer, the run of cells that
ends it is the same in the buffer and in the file (`SameLine`), so that what is read is
what the file declares (`ClearIsRead`); and where `load_ver_compare` says newer, it
is (`Outranks`). All of it is about sequences of cells, so `TextsInv` says that every
text of the stage, in the package and on the machine is one, `-package.ver` too, whose
numbers are written digit by digit (`DecimalFacts`). The property was first stated of
every file that replaces a clear one, and the proof found that a tag which is cut
may show more than it declares; the cases now have one whose year is. A step that took
the file that was there for none (`InstallUnseen`) compares nothing: its destination is
in `load.unseen`, and it changes no other.

*The encoders.* `Coding` says of a pass over the text that the ring's cursor is behind
what went in, that neither `lookahead` nor `curPos` is negative, that `curPos` is at most
one byte behind the end, and that as long as there is text to come, as much of it is
looked ahead at as a match needs; a match takes only bytes that are there, and a
literal makes up for what it takes. That a walk along a chain ends is the invariant
`Linked`: until the ring is full each link leads to an older string or to the end, so
that the places of a chain are all different (`ChainEnds`), and with a full ring
`CallEnds` excepts it. `Coded` says that each code has a length of at least one bit,
which is why a round that moves no cursor still fills the output.

*What LArc reads back.* The window of an encoder and that of a decoder are both a
function of the text and of how many bytes have gone through (`WindowAt`): of each
place it says which byte was last there. `Packed` says that the output is a row of
items, each at a place (`Places`: bytes of the output and of the text before it, flag
and byte of flags) and each either the next byte of the text or a match whose offset
and length, as its two bytes have them, repeat it (`Repeats`); flags below the next
one are not set yet, so that adding one changes no other (`FlagBits`, `FlagsBefore`).
`Reading` says that the decoder is at the place of one of these items and has put out
the text up to there (`Synced`). The exception of `ReadsBack` is where the proof needs
it: a copy reads what it has not yet overwritten (`WindowKeeps`), and two bytes hold
the length (`MatchSays`). A decoder that begins out of step has no such places.

Assumptions used: those named in the modules (`PathsAssumption`,
`FilesAssumption`, `LocksAssumption`, `HandlesAssumption`, `PlansAssumption`,
`BoundsAssumption`, `DisksAssumption`, `NamesAssumption`, `IconAssumption`;
`MounterAssumption`, `KindsAssumption`, `RoutesAssumption`, `CallsAssumption`;
`BodiesAssumption`, `PackagesAssumption`, `StampsAssumption`, `TokensAssumption`;
`DataAssumption`, `FilesAssumption`, `BoundsAssumption` of `ArchiveFile`;
`AddedAssumption`, `ForeignAssumption`, `BoundAssumption` of `LhHeader`;
`NamesAssumption` of `LhCatalog`: names are sequences of parts, none is empty, and
what is above a name is one too; `TagAssumption` of `VersionTag`; `PackageAssumption`,
`AssignAssumption`, `CasesAssumption` and `DraftsAssumption` of `Package`: paths are
sequences of names that are not empty, texts sequences of cells, no file name has a
colon as the assigns have, and no assign has a blank; `CodecAssumption` of `LhCodec`:
sizes are positive, a match that is worth it is shorter than what is looked ahead at and
that fits the ring, an offset of a LArc window fits its bits, a byte of flags begins
with one of its eight). TLC evaluates them in every run.

Only model-checked:

* `ServesAll`, `ListingsEnd`: liveness, which the prover does not do.
* `ReadsBack`, `TreesAgree` and `LongestMatch` of `LhLzhuf` and `ReadsBack` of
  `LhStatic`: that trees of codes are rebuilt alike, and what a code word stands for,
  is induction over trees and bits; `AdaptiveTree`, `LhLzhuf`, `StaticFormat` and
  `LhStatic` use RECURSIVE operators for it, which the prover cannot take in.

## 5. Plan

In order; each gets its module, MC module, runs, mutants and, where named, proofs.

1. **LhCatalog, LhHandler** (done), proofs (done) of the bookkeeping, and that locks
   and pictures follow the files and writers' data arrives.
2. **LhScan** (done): ExNext and ExAll cursors over a catalog that changes under
   them, with the handler's emulated ExAll, and the rename: collect, delete and add
   of each entry; proofs (done) that listings are complete and of what a rename keeps.
3. **ArchiveFile** (done): rewrite and append step by step, with a reset or a
   failing call between any two; proofs (done) that what is not deleted stays
   readable and that return codes tell the truth.
4. **HandlerPort, PacketService** (done), proofs of safety and refinement (done).
5. **LoadInstall** (done): staged installation with backups and roll-back; proofs
   (done) that nothing is lost and a failure restores what was there.
6. **LhHeader** (done): headers by lengths; proofs (done) that what is written is read.
7. **LhLzhuf, LhStatic, LhCodec** (done); proofs (done) that the cursors of
   `LhCodec` are safe, that its calls end, and that LArc and the copies read back.
8. **LockService**: an abstract specification of what clients are promised (each
   lock names an object, an operation on it succeeds or fails as a whole) and
   `LhHandler` shown to implement it; theorem: the refinement of steps.
9. The two halves of the loop joined: `LhHandler`'s packets as the steps between
   `WaitDosPacket` and `Answer`.
10. **VersionTag, Package** (done): Handle's package and what Load makes of it;
   proofs (done) of its types, that what is left is whole or nothing, that what is
   installed is the best that runs, that a system package is installed as a whole,
   and that no file is replaced by an older one.
11. **LibraryBase**: open count, delayed expunge; **MallocPool**.
12. **Datetime** (packings against a reference), **Gauge**.

------------------------------ MODULE LhHeader ------------------------------
(***************************************************************************)
(* Headers of an .lha file, as src/lh_header.c writes them and reads them  *)
(* back.  What decides whether an entry is found again, and the entries    *)
(* behind it, are lengths: of names and comments, of the extensions they   *)
(* go to, of the header, whose size field holds one byte at levels 0 and 1 *)
(* and two bytes at level 2, and of the buffer both sides work in.         *)
(***************************************************************************)
EXTENDS Integers, Sequences

CONSTANTS
  Added,        \* entries that programs add
  Foreign,      \* headers that other programs write
  MaxEntries    \* bound: entries in the archive

Buffer == 1024  \* LH_HDR_BUF
None == -1      \* no such extension
Lost == 0       \* the reader is not at the start of a header

(* Entries have a name, a comment (0: none) and packed data (0: none).      *)
NameLengths == [dir : Nat, base : Nat]
EntryLengths == [name : NameLengths, comment : Nat, data : Nat]

(* The extensions: names of files and directories, the directory's trailing *)
(* separator counted, a comment, and all others together.                   *)
Chains == [other : Nat \cup {None}, file : Nat \cup {None}, path : Nat \cup {None},
           sep : {0, 1}, comment : Nat \cup {None}]
Extension(n) == IF n = None THEN 0 ELSE 3 + n
ChainLength(c) ==
  Extension(c.other) + Extension(c.file) + Extension(c.path) + Extension(c.comment)
NoChain == [other |-> None, file |-> None, path |-> None, sep |-> 0, comment |-> None]

(* A header: its size field, the name in it and what is counted besides     *)
(* that (levels 0 and 1), the field of the packed size, and the entry meant. *)
Headers == [level : 0 .. 2, size : Nat, name : NameLengths, rest : Nat,
            chain : Chains, packed : Nat, meant : EntryLengths]
NoName == [dir |-> 0, base |-> 0]
Length(n) == IF n.dir = 0 THEN n.base ELSE n.dir + 1 + n.base

(* The bytes of a header in the file.                                       *)
HeaderBytes(h) == IF h.level = 2 THEN h.size
                  ELSE h.size + 2 + (IF h.level = 1 THEN ChainLength(h.chain) ELSE 0)

----------------------------------------------------------------------------
(* Writing.                                                                 *)

Least(m, n) == IF m <= n THEN m ELSE n

(* Wrong on purpose: one byte more than the reader has room for.             *)
SplitPathWider(n) ==
  [base |-> Least(n.base, 255),
   path |-> IF n.dir = 0 THEN None ELSE Least(n.dir + 1, 512),
   sep  |-> IF n.dir \in 1 .. 511 THEN 1 ELSE 0]

(* A longer directory is cut, and then has no separator at its end.         *)
lh_hdr_split_path(n) ==
  [base |-> Least(n.base, 255),
   path |-> IF n.dir = 0 THEN None ELSE Least(n.dir + 1, 511),
   sep  |-> IF n.dir \in 1 .. 510 THEN 1 ELSE 0]

Refused(status) == [st |-> status]
Wrote(h) == [st |-> "ok", head |-> h]

(* A size whose low byte is zero is padded: that byte would be the end mark. *)
Padded(n) == IF n % 256 = 0 THEN n + 1 ELSE n

(* The extensions of a level-2 header: a checksum, the name, the comment.    *)
ChainWithPath(e, comment) ==
  LET split == lh_hdr_split_path(e.name)
  IN [other |-> 2, file |-> split.base, path |-> split.path, sep |-> split.sep,
      comment |-> comment]

(* Wrong on purpose: the comment is forgotten.                               *)
Level2ChainBare(e) == ChainWithPath(e, None)

Level2Chain(e) == ChainWithPath(e, IF e.comment = 0 THEN None ELSE e.comment)

Level2Header(e, size) ==
  IF lh_hdr_split_path(e.name).base = 0 THEN Refused("invalid_arg")
  ELSE IF size > Buffer THEN Refused("bad_header")
  ELSE Wrote([level |-> 2, size |-> size, name |-> NoName, rest |-> 0,
              chain |-> Level2Chain(e), packed |-> e.data, meant |-> e])

(* Wrong on purpose: the word that ends the extensions is not counted.       *)
WriteLevel2Short(e) == Level2Header(e, Padded(24 + ChainLength(Level2Chain(e))))

WriteLevel2(e) == Level2Header(e, Padded(24 + ChainLength(Level2Chain(e)) + 2))

(* Levels 0 and 1 have no place for a comment: such a header means an entry  *)
(* without one.                                                              *)
WriteLevel01(e, level) ==
  LET rest == IF level = 0 THEN 24 ELSE 27
  IN IF Length(e.name) > 200 THEN Refused("filename_too_long")
     ELSE Wrote([level |-> level, size |-> rest + Length(e.name), name |-> e.name,
                 rest |-> rest, chain |-> NoChain, packed |-> e.data,
                 meant |-> [e EXCEPT !.comment = 0]])

lh_hdr_write(e, level) == IF level = 2 THEN WriteLevel2(e) ELSE WriteLevel01(e, level)

----------------------------------------------------------------------------
(* Reading.  A result has a status and, when that is "ok", the entry found   *)
(* and how many bytes of header and payload were read; "end" is the end of   *)
(* the archive, or a header without a name, which callers take for it.       *)

Stops(status) == [st |-> status]
Found(name, comment, used, data) ==
  [st |-> "ok", entry |-> [name |-> name, comment |-> comment, data |-> data], used |-> used]

(* The directory and the name; a directory alone, of one component, becomes  *)
(* the name.                                                                 *)
Combined(inline, c) ==
  LET dir  == IF c.path # None /\ c.path \in 1 .. 511 THEN c.path - c.sep ELSE 0
      name == IF c.file = None THEN inline ELSE [dir |-> 0, base |-> c.file]
  IN IF dir = 0 THEN name
     ELSE IF name = NoName THEN [dir |-> 0, base |-> dir]
     ELSE [dir |-> IF name.dir = 0 THEN dir ELSE dir + 1 + name.dir, base |-> name.base]
CommentOf(c) == IF c.comment = None THEN 0 ELSE c.comment

lh_hdr_read_level2(h) ==
  LET name    == Combined(NoName, h.chain)
      padding == h.size - 26 - ChainLength(h.chain)
  IN IF padding \notin {0, 1} \/ name = NoName THEN Stops("bad_header")
     ELSE Found(name, CommentOf(h.chain), h.size + padding, h.packed)

(* Levels 0 and 1; the extensions of level 1 are part of the packed size.    *)
lh_hdr_read_lhex(h) ==
  LET chain == IF h.level = 1 THEN h.chain ELSE NoChain
      more  == ChainLength(chain)
      name  == Combined(h.name, chain)
  IN IF (h.rest < 24 /\ h.rest \notin {20, 22}) \/ h.size + 2 + more > Buffer
       THEN Stops("bad_header")
     ELSE IF name = NoName THEN Stops("end")
     ELSE Found(name, CommentOf(chain), h.size + 2 + more, h.packed - more)

(* The first byte is all that is seen of the size until the level is known,  *)
(* and the level is the byte behind the first twenty.                        *)
lh_hdr_read(h) ==
  LET first == h.size % 256
  IN IF first = 0 THEN Stops("end")
     ELSE IF first < 20 THEN Stops("bad_header")
     ELSE IF first = 20 /\ h.level = 2 THEN Stops("nameless")
     ELSE IF h.level # 2 THEN lh_hdr_read_lhex(h)
     ELSE IF h.size >= Buffer - 4 THEN Stops("bad_header")
     ELSE lh_hdr_read_level2(h)

----------------------------------------------------------------------------
(* What the format asks of a header, and of one that says what it means; a   *)
(* directory is more than its separator.                                    *)

WellFormed(h) ==
  /\ h \in Headers
  /\ \/ h.level = 2 /\ h.size = Padded(26 + ChainLength(h.chain)) /\ h.packed = h.meant.data
        /\ h.name = NoName
     \/ /\ h.level < 2 /\ (h.rest \in {20, 22} \/ h.rest >= 24) /\ h.size <= 255
        /\ h.size = h.rest + Length(h.name) /\ h.size + 2 + ChainLength(h.chain) <= Buffer
        /\ h.packed = h.meant.data + ChainLength(h.chain) /\ (h.level = 0 => h.chain = NoChain)
  /\ h.chain.path # h.chain.sep
  /\ h.meant.name = Combined(h.name, h.chain) /\ h.meant.name # NoName
  /\ h.meant.comment = CommentOf(h.chain)

ASSUME AddedAssumption == Added \subseteq EntryLengths
ASSUME ForeignAssumption == \A h \in Foreign : WellFormed(h)
ASSUME BoundAssumption == MaxEntries \in Nat

----------------------------------------------------------------------------
(* A reader that lists the archive, or one that rewrites it at some level.  *)

VARIABLES
  file,      \* the archive: headers, each with its payload behind it
  mode,      \* "idle", "list", "rewrite"; "end" or "failed" after a listing
  next,      \* the header the reader is at, or Lost
  shown,     \* the entries it has returned
  level,     \* the level a rewrite writes
  temp       \* what the rewrite has written

vars == <<file, mode, next, shown, level, temp>>

Init ==
  /\ file = << >> /\ mode = "idle" /\ next = 1 /\ shown = << >>
  /\ level = 2 /\ temp = << >>

(* lh_writer_add; lha and lh.library write level 2, except in a rewrite.     *)
Add(e) ==
  /\ mode = "idle" /\ Len(file) < MaxEntries
  /\ LET written == lh_hdr_write(e, 2)
     IN /\ written.st = "ok"
        /\ file' = Append(file, written.head)
  /\ UNCHANGED <<mode, next, shown, level, temp>>

AddForeign(h) ==
  /\ mode = "idle" /\ Len(file) < MaxEntries
  /\ file' = Append(file, h)
  /\ UNCHANGED <<mode, next, shown, level, temp>>

StartList ==
  /\ mode = "idle" /\ mode' = "list" /\ next' = 1 /\ shown' = << >>
  /\ UNCHANGED <<file, level, temp>>

StartRewrite(l) ==
  /\ mode = "idle" /\ mode' = "rewrite" /\ next' = 1 /\ shown' = << >>
  /\ level' = l /\ temp' = << >>
  /\ UNCHANGED file

(* lh_reader_next.  Past the end there is no byte to read; where the reader *)
(* is lost it may find anything.                                            *)
lh_reader_next ==
  IF next = Lost THEN Stops("lost")
  ELSE IF next > Len(file) THEN Stops("end")
  ELSE lh_hdr_read(file[next])

(* A header without a name is taken for the end; but a rewrite reads its    *)
(* payload first, from the middle of the header, and may fail to decode it. *)
Outcomes(r) ==
  CASE r.st = "lost" -> {"end", "failed"}
    [] r.st = "nameless" ->
         {"end"} \cup (IF mode = "rewrite" /\ file[next].packed > 0 THEN {"failed"} ELSE {})
    [] r.st = "end" -> {"end"}
    [] OTHER -> {"failed"}

After(h, r) ==
  IF r.used + r.entry.data = HeaderBytes(h) + h.meant.data THEN next + 1 ELSE Lost

List ==
  /\ mode = "list"
  /\ LET r == lh_reader_next
     IN \/ /\ r.st = "ok" /\ shown' = Append(shown, r.entry)
           /\ next' = After(file[next], r) /\ mode' = mode
        \/ /\ r.st # "ok" /\ mode' \in Outcomes(r) /\ UNCHANGED <<next, shown>>
  /\ UNCHANGED <<file, level, temp>>

(* lh_archive_rewrite, which keeps every entry here, gives up on an entry    *)
(* that the writer refuses.                                                  *)
Copy ==
  /\ mode = "rewrite"
  /\ LET r == lh_reader_next IN
     /\ r.st = "ok"
     /\ LET written == lh_hdr_write(r.entry, level)
        IN \/ /\ written.st = "ok" /\ temp' = Append(temp, written.head)
              /\ shown' = Append(shown, r.entry)
              /\ next' = After(file[next], r) /\ mode' = mode
           \/ written.st # "ok" /\ mode' = "idle" /\ UNCHANGED <<next, shown, temp>>
  /\ UNCHANGED <<file, level>>

Replace ==
  /\ mode = "rewrite" /\ mode' = "idle"
  /\ LET r == lh_reader_next IN
     /\ r.st # "ok"
     /\ \/ "end" \in Outcomes(r) /\ file' = temp
        \/ "failed" \in Outcomes(r) /\ file' = file
  /\ UNCHANGED <<next, shown, level, temp>>

Close ==
  /\ mode \in {"end", "failed"} /\ mode' = "idle"
  /\ UNCHANGED <<file, next, shown, level, temp>>

Next ==
  \/ \E e \in Added : Add(e)
  \/ \E h \in Foreign : AddForeign(h)
  \/ StartList \/ List \/ Close
  \/ \E l \in 0 .. 2 : StartRewrite(l)
  \/ Copy \/ Replace

Spec == Init /\ [][Next]_vars

----------------------------------------------------------------------------
(* Properties.                                                              *)

TypeOK ==
  /\ file \in Seq(Headers) /\ temp \in Seq(Headers) /\ shown \in Seq(EntryLengths)
  /\ mode \in {"idle", "list", "rewrite", "end", "failed"} /\ level \in 0 .. 2
  /\ next \in Nat

(* Sizes whose first byte is taken for something else, and those that fit   *)
(* the writer's buffer and not the reader's.                                *)
Unreadable(h) == h.level = 2 /\ (h.size % 256 <= 20 \/ h.size >= Buffer - 4)

TooLong(n) == n.dir > 511 \/ n.base > 255

(* A reader returns the entries in the order they were written, each with   *)
(* its name, data and comment; but level 2 cuts names that are too long.    *)
Conveys(h, e) ==
  /\ e.data = h.meant.data /\ e.comment = h.meant.comment
  /\ (h.level = 2 /\ TooLong(h.meant.name)) \/ e.name = h.meant.name

ShowsWhatWasMeant ==
  mode # "idle" =>
    Len(shown) <= Len(file) /\ \A i \in DOMAIN shown : Conveys(file[i], shown[i])

(* A reader stops with the end of the archive at the end of the file, and   *)
(* before that only at a header whose size it cannot read.  A rewrite may   *)
(* also be refused by the writer, and then leaves the archive alone.        *)
StopsOnlyThere ==
  [][mode' \in {"idle", "end", "failed"} /\ mode \in {"list", "rewrite"} =>
       \/ next = Len(file) + 1 /\ mode' # "failed"
       \/ next \in DOMAIN file /\ Unreadable(file[next])
       \/ mode = "rewrite" /\ file' = file]_vars

(* A rewrite of readable headers keeps every entry: what a reader gets of    *)
(* the new header, where it can read it, is what it got of the old one.      *)
(* Level 2 cuts a name that is too long; levels 0 and 1 drop the comment.    *)
(* One to level 2 of what this writer wrote at level 2 keeps every header's  *)
(* size, so that it stays readable.                                          *)
Rewriting == mode = "rewrite" /\ file' # file /\ \A i \in DOMAIN file : ~Unreadable(file[i])

ReadsAlike(old, new) ==
  LET was == lh_hdr_read(old).entry
      now == lh_hdr_read(new).entry
  IN /\ lh_hdr_read(new).st = "ok" /\ now.data = was.data
     /\ new.level = 2 => now.comment = was.comment
     /\ (new.level = 2 /\ TooLong(was.name)) \/ now.name = was.name

RewriteKeeps ==
  [][Rewriting =>
       /\ Len(file') = Len(file)
       /\ \A i \in DOMAIN file :
            /\ file'[i].level = level
            /\ Unreadable(file'[i]) \/ ReadsAlike(file[i], file'[i])
            /\ level = 2 /\ lh_hdr_write(file[i].meant, 2) = Wrote(file[i]) =>
                 file'[i].size = file[i].size]_vars

(* A rewrite to any level preserves comments (src/README.md:192).  Not so in *)
(* this code, at levels 0 and 1.                                             *)
CommentsPreserved ==
  [][Rewriting => \A i \in DOMAIN file \cap DOMAIN file' :
       Unreadable(file'[i]) \/
         lh_hdr_read(file'[i]).entry.comment = lh_hdr_read(file[i]).entry.comment]_vars

(* Every entry that was written is listed.  Not so in this code, of sizes   *)
(* whose low byte is small.                                                 *)
EveryEntryIsListed == mode \in {"end", "failed"} => Len(shown) = Len(file)

=============================================================================

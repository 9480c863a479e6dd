---------------------------- MODULE LhCatalog ----------------------------
(***************************************************************************)
(* What lh.library keeps for one open archive: the catalog, an array of    *)
(* entry headers in file order, and the library's view of a name in it.    *)
(* Pure operators, used by the handler model and by its proofs: there is   *)
(* no state here and no RECURSIVE operator.                                *)
(*                                                                         *)
(* A name is the sequence of its path components, so "d/f" is              *)
(* <<"d", "f">>; file contents are sequences of opaque chunks.             *)
(***************************************************************************)
EXTENDS Integers, Sequences, FiniteSets

CONSTANTS
    Names,      \* the entry names the model uses: non-empty sequences,
                \* and with a name every drawer above it
    Chunks,     \* opaque pieces of file data
    IconBase    \* for each icon name x.info of Names, its companion x

ASSUME NamesAssumption ==
    /\ <<>> \notin Names
    /\ \A n \in Names : n \in Seq({n[i] : i \in DOMAIN n})
    /\ \A n \in Names : SubSeq(n, 1, Len(n) - 1) \in Names \cup {<<>>}
ASSUME IconAssumption ==
    /\ DOMAIN IconBase \subseteq Names
    /\ IconBase \in [DOMAIN IconBase -> Names]

(* A catalog row.  Only an -lhd- header is a directory; sizes, dates and   *)
(* comments are left out, the data stands for the payload on disk.         *)
Entry == [name : Names, kind : {"file", "dir"}, data : Seq(Chunks)]
Catalog == Seq(Entry)

DirEntry(n) == [name |-> n, kind |-> "dir", data |-> <<>>]
FileEntry(n, d) == [name |-> n, kind |-> "file", data |-> d]

(* entry_index of a struct LhLock: a catalog position (counted from 1      *)
(* here), or one of the two negative codes of the source.  ZERO is the     *)
(* null BPTR; DANGLING marks a BPTR whose archive has been closed.         *)
ZERO == 0
ROOT_DIR == -1
SYNTH_DIR == -2
DANGLING == -3

(* n lies strictly below the directory d.                                  *)
IsUnder(n, d) == /\ Len(d) < Len(n)
                 /\ SubSeq(n, 1, Len(d)) = d

Matching(cat, n) == {i \in 1 .. Len(cat) : cat[i].name = n}

(* First row of that exact name: an older duplicate hides a newer one.     *)
lh_find_entry_index(cat, n) ==
    CHOOSE i \in Matching(cat, n) : \A j \in Matching(cat, n) : i <= j

lh_has_children_under(cat, n) == \E i \in 1 .. Len(cat) : IsUnder(cat[i].name, n)

(* LhLock: a row, an implied directory (only a prefix of other names), or  *)
(* nothing.                                                                *)
lh_arc_lock(cat, n) ==
    IF n = <<>> THEN ROOT_DIR
    ELSE IF Matching(cat, n) # {} THEN lh_find_entry_index(cat, n)
    ELSE IF lh_has_children_under(cat, n) THEN SYNTH_DIR
    ELSE ZERO

(* LhExamine answers "directory" for this LhLock.                          *)
IsDirectory(cat, lh) ==
    \/ lh \in {ROOT_DIR, SYNTH_DIR}
    \/ lh \in 1 .. Len(cat) /\ cat[lh].kind = "dir"

(* LhOpenFromLock can decompress the row: a regular file with a payload    *)
(* (a zero-length file has no image and is refused).                       *)
HasImage(cat, lh) ==
    lh \in 1 .. Len(cat) /\ cat[lh].kind = "file" /\ cat[lh].data # <<>>

(* The k-th of a set of rows: the reader meets them in the file's order.   *)
RowAt(rows, k) == CHOOSE i \in rows : Cardinality({j \in rows : j <= i}) = k

(* lh_archive_rewrite with lh_keep_not_name: every kept entry is added     *)
(* again at level STORE, so an -lhd- entry comes back as an empty -lh0-    *)
(* file.                                                                   *)
lh_archive_rewrite(cat, n) ==
    LET kept == {i \in 1 .. Len(cat) : cat[i].name # n}
    IN [k \in 1 .. Cardinality(kept) |-> [cat[RowAt(kept, k)] EXCEPT !.kind = "file"]]

(* An archive file on the host volume.  marked: the file ends in the zero  *)
(* byte that closes an archive made by other LhA tools; the writer of this *)
(* code never writes one, the reader stops at it, and entries appended     *)
(* after it are never seen again.                                          *)
Archive == [cat : Catalog, marked : BOOLEAN]
EmptyArchive == [cat |-> <<>>, marked |-> FALSE]

lh_writer_add(a, e) == IF a.marked THEN a ELSE [a EXCEPT !.cat = Append(@, e)]
=============================================================================

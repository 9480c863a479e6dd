----------------------------- MODULE ArchiveFile -----------------------------
(***************************************************************************)
(* An .lha file on disk and the engine's ways of changing it               *)
(* (src/lh_archive.c): lh_archive_rewrite, which LhDeleteFile and lha d    *)
(* call, copies what is kept to a temporary file and puts that in the      *)
(* archive's place; lh_writer_open_append and lh_writer_add, behind        *)
(* LhAddEntry, lha a and lha c, write behind the archive's end.  Each      *)
(* action is a call on the file system; any may fail, the machine may be   *)
(* reset between any two, and another program may have the archive open.   *)
(*                                                                         *)
(* A file is a sequence of pieces: entries, whole or cut short in their    *)
(* header or payload, and the end mark that other programs write.          *)
(***************************************************************************)
EXTENDS Integers, Sequences

CONSTANTS
  Names,        \* names of entries
  Bodies,       \* what files hold
  Empty,        \* what directories and empty files hold: a header only
  Garbage,      \* the data of an entry whose payload was cut and overwritten
  Mark,         \* the end mark, a zero byte
  NoFile,       \* there is no such file
  InitFiles,    \* what the archive may be at the start
  Additions,    \* sequences of entries that programs add
  MaxPieces,    \* bound: pieces in the archive when an addition starts
  MaxMishaps    \* bound: calls that fail, and resets

Entries == [name : Names, data : Bodies \cup {Empty, Garbage},
            part : {"whole", "header", "payload"}]
Files == Seq(Entries \cup {Mark})

ASSUME DataAssumption == Mark \notin Entries /\ NoFile \notin Files
ASSUME FilesAssumption ==
  /\ InitFiles \subseteq Files \cup {NoFile}
  /\ Additions \subseteq Seq({e \in Entries : e.part = "whole"}) \ {<< >>}
ASSUME BoundsAssumption == MaxPieces \in Nat /\ MaxMishaps \in Nat

VARIABLES
  archive,   \* the archive, or NoFile
  temp,      \* the file named archive.$$$, or NoFile
  held,      \* another program has the archive open for reading
  run,       \* the running operation
  rc,        \* what the last operation returned; "none" while one runs
  misled,    \* a failed call was taken for the archive's end or absence
  mishaps    \* calls that failed and resets so far

vars == <<archive, temp, held, run, rc, misled, mishaps>>

Idle == [at |-> "idle", gone |-> {}, todo |-> << >>, pos |-> 0, was |-> NoFile]

----------------------------------------------------------------------------
(* What the reader finds.                                                   *)

Whole(p) == p # Mark /\ p.part = "whole"

(* lh_reader_next: the archive's end, its mark, or a header cut at its end.  *)
AtEnd(f, i) == i \in DOMAIN f /\ f[i] # Mark => i = Len(f) /\ f[i].part = "header"
(* A payload cut at the end of the file; a cut piece that others follow.     *)
CutPayload(f, i) == ~AtEnd(f, i) /\ i = Len(f) /\ f[i].part = "payload"
Garbled(f, i) == ~AtEnd(f, i) /\ i < Len(f) /\ f[i].part # "whole"

(* What lh_reader_next returns one by one: the entries up to the first piece *)
(* that is not one.  (Listing, which seeks over payloads, fails as a whole   *)
(* on a file that ends in a cut payload.)                                    *)
Readable(f) ==
  [n \in {n \in DOMAIN f : \A i \in 1 .. n : Whole(f[i])} |-> f[n]]

----------------------------------------------------------------------------
(* How a step ends.                                                         *)

Mishap == mishaps < MaxMishaps /\ mishaps' = mishaps + 1
Fine  == mishaps' = mishaps

GoTo(step) == run' = [run EXCEPT !.at = step] /\ rc' = rc
Return(code) == run' = Idle /\ rc' = code

----------------------------------------------------------------------------
(* lh_archive_rewrite, which keeps the entries not named in `gone`.         *)

StartDelete(gone) ==
  /\ run.at = "idle"
  /\ \/ /\ archive # NoFile /\ Fine
        /\ run' = [at |-> "open_temp", gone |-> gone, todo |-> << >>, pos |-> 1,
                   was |-> archive]
        /\ rc' = "none"
     \/ archive = NoFile /\ Fine /\ Return("fail")
     \/ Mishap /\ Return("fail")
  /\ misled' = FALSE /\ UNCHANGED <<archive, temp, held>>

(* A file of that name is deleted first.                                    *)
OpenTemp ==
  /\ run.at = "open_temp"
  /\ \/ Fine /\ temp' = << >> /\ GoTo("copy")
     \/ Mishap /\ temp' \in {temp, NoFile} /\ Return("fail")
  /\ UNCHANGED <<archive, held, misled>>

Piece == archive[run.pos]

Skip ==
  /\ run.at = "copy" /\ ~AtEnd(archive, run.pos) /\ Whole(Piece)
  /\ Piece.name \in run.gone /\ Fine
  /\ run' = [run EXCEPT !.pos = @ + 1]
  /\ UNCHANGED <<archive, temp, held, rc, misled>>

Copy ==
  /\ run.at = "copy" /\ ~AtEnd(archive, run.pos) /\ Whole(Piece)
  /\ Piece.name \notin run.gone
  /\ \/ /\ Fine /\ temp' = Append(temp, Piece)
        /\ run' = [run EXCEPT !.pos = @ + 1] /\ rc' = rc
     \/ /\ Mishap /\ GoTo("abandon")
        /\ \/ temp' = temp
           \/ \E cut \in {"header", "payload"} :
                temp' = Append(temp, [Piece EXCEPT !.part = cut])
  /\ UNCHANGED <<archive, held, misled>>

(* Wrong on purpose: no memory for an entry is taken for the end.            *)
StopCopyingAnyway ==
  /\ run.at = "copy"
  /\ \/ /\ (AtEnd(archive, run.pos) \/ CutPayload(archive, run.pos)) = TRUE
        /\ Fine /\ GoTo("replace") /\ misled' = misled
     \/ /\ ~AtEnd(archive, run.pos) /\ Mishap
        /\ GoTo("replace") /\ misled' \in {TRUE, misled}
  /\ UNCHANGED <<archive, temp, held>>

(* A read that returns less than asked for looks like the archive's end; no *)
(* memory for an entry ends the rewrite.                                    *)
StopCopying ==
  /\ run.at = "copy"
  /\ \/ /\ (AtEnd(archive, run.pos) \/ CutPayload(archive, run.pos)) = TRUE
        /\ Fine /\ GoTo("replace") /\ misled' = misled
     \/ /\ ~AtEnd(archive, run.pos) /\ Mishap
        /\ \/ GoTo("replace") /\ misled' = TRUE
           \/ GoTo("abandon") /\ misled' = misled
  /\ UNCHANGED <<archive, temp, held>>

(* The bytes behind a cut entry complete it; what follows is out of step.   *)
CopyGarbled ==
  /\ run.at = "copy" /\ Garbled(archive, run.pos)
  /\ Fine
  /\ \/ temp' = temp
     \/ /\ Piece.part = "payload" /\ Piece.name \notin run.gone
        /\ temp' = Append(temp, [Piece EXCEPT !.data = Garbage, !.part = "whole"])
  /\ GoTo("replace") \/ GoTo("abandon")
  /\ UNCHANGED <<archive, held, misled>>

Abandon ==
  /\ run.at = "abandon" /\ Return("fail")
  /\ \/ Fine /\ temp' = NoFile
     \/ Mishap /\ temp' = temp
  /\ UNCHANGED <<archive, held, misled>>

(* The result of DeleteFile is not looked at.                               *)
DeleteArchive ==
  /\ run.at = "replace" /\ GoTo("rename")
  /\ \/ Fine /\ ~held /\ archive' = NoFile
     \/ Fine /\ held /\ archive' = archive
     \/ Mishap /\ archive' = archive
  /\ UNCHANGED <<temp, held, misled>>

(* Wrong on purpose: a rename that worked is returned as an error.           *)
RenameTempDenied ==
  /\ run.at = "rename" /\ Return("fail")
  /\ \/ Fine /\ archive = NoFile /\ archive' = temp /\ temp' = NoFile
     \/ Fine /\ archive # NoFile /\ UNCHANGED <<archive, temp>>
     \/ Mishap /\ UNCHANGED <<archive, temp>>
  /\ UNCHANGED <<held, misled>>

(* Wrong on purpose: the result of Rename is not looked at.                  *)
RenameTempUnchecked ==
  /\ run.at = "rename" /\ Return("ok")
  /\ \/ Fine /\ archive = NoFile /\ archive' = temp /\ temp' = NoFile
     \/ Fine /\ archive # NoFile /\ UNCHANGED <<archive, temp>>
     \/ Mishap /\ UNCHANGED <<archive, temp>>
  /\ UNCHANGED <<held, misled>>

RenameTemp ==
  /\ run.at = "rename"
  /\ \/ Fine /\ archive = NoFile /\ archive' = temp /\ temp' = NoFile /\ Return("ok")
     \/ Fine /\ archive # NoFile /\ UNCHANGED <<archive, temp>> /\ Return("fail")
     \/ Mishap /\ UNCHANGED <<archive, temp>> /\ Return("fail")
  /\ UNCHANGED <<held, misled>>

----------------------------------------------------------------------------
(* lh_writer_open_append and lh_writer_add of each entry in `todo`.  A Lock *)
(* that fails stands for no file, and the archive is created anew.          *)

StartAdd(todo) ==
  /\ run.at = "idle" /\ (archive # NoFile => Len(archive) + Len(todo) <= MaxPieces)
  /\ \/ /\ Fine /\ archive' = IF archive = NoFile THEN << >> ELSE archive
        /\ run' = [at |-> "header", gone |-> {}, todo |-> todo, pos |-> 1,
                   was |-> archive']
        /\ rc' = "none"
        /\ misled' = FALSE
     \/ Mishap /\ archive' = archive /\ Return("fail") /\ misled' = FALSE
     \/ /\ Mishap /\ archive # NoFile /\ ~held /\ archive' = << >>
        /\ run' = [at |-> "header", gone |-> {}, todo |-> todo, pos |-> 1,
                   was |-> archive]
        /\ rc' = "none" /\ misled' = TRUE
  /\ UNCHANGED <<temp, held>>

Added == run.todo[run.pos]

NextEntry ==
  IF run.pos = Len(run.todo) THEN Return("ok")
  ELSE run' = [run EXCEPT !.at = "header", !.pos = @ + 1] /\ rc' = rc

WriteHeader ==
  /\ run.at = "header"
  /\ \/ Fine /\ Added.data = Empty /\ archive' = Append(archive, Added) /\ NextEntry
     \/ /\ Fine /\ Added.data # Empty /\ GoTo("payload")
        /\ archive' = Append(archive, [Added EXCEPT !.part = "payload"])
     \/ /\ Mishap /\ Return("fail")
        /\ \/ archive' = archive
           \/ archive' = Append(archive, [Added EXCEPT !.part = "header"])
  /\ UNCHANGED <<temp, held, misled>>

(* Wrong on purpose: a short write of the payload goes unnoticed.            *)
WritePayloadUnchecked ==
  /\ run.at = "payload" /\ NextEntry
  /\ \/ Fine /\ archive' = [archive EXCEPT ![Len(archive)] = Added]
     \/ Mishap /\ archive' = archive
  /\ UNCHANGED <<temp, held, misled>>

WritePayload ==
  /\ run.at = "payload"
  /\ \/ Fine /\ archive' = [archive EXCEPT ![Len(archive)] = Added] /\ NextEntry
     \/ Mishap /\ archive' = archive /\ Return("fail")
  /\ UNCHANGED <<temp, held, misled>>

----------------------------------------------------------------------------
(* The world.                                                               *)

Hold    == /\ ~held /\ archive # NoFile /\ held' = TRUE
           /\ UNCHANGED <<archive, temp, run, rc, misled, mishaps>>
Release == /\ held /\ held' = FALSE
           /\ UNCHANGED <<archive, temp, run, rc, misled, mishaps>>

(* A reset, perhaps in the middle of a write.                               *)
Reset ==
  /\ run.at # "idle" /\ Mishap /\ Return("none")
  /\ \/ archive' = archive
     \/ /\ run.at = "header"
        /\ archive' = Append(archive, [Added EXCEPT !.part = "header"])
  /\ held' = FALSE /\ UNCHANGED <<temp, misled>>

Init ==
  /\ archive \in InitFiles /\ temp = NoFile /\ held = FALSE
  /\ run = Idle /\ rc = "none" /\ misled = FALSE /\ mishaps = 0

Rewrite == \/ OpenTemp \/ Skip \/ Copy \/ StopCopying \/ CopyGarbled \/ Abandon
           \/ DeleteArchive \/ RenameTemp

Next ==
  \/ \E gone \in SUBSET Names \ {{}} : StartDelete(gone)
  \/ Rewrite
  \/ \E todo \in Additions : StartAdd(todo)
  \/ WriteHeader \/ WritePayload
  \/ Hold \/ Release \/ Reset

Spec == Init /\ [][Next]_vars

----------------------------------------------------------------------------
(* Properties.                                                              *)

RewriteSteps == {"open_temp", "copy", "abandon", "replace", "rename"}
AddSteps == {"header", "payload"}

(* Every variable keeps its kind, and an operation has a file to work on.   *)
TypeOK ==
  /\ archive \in Files \cup {NoFile} /\ temp \in Files \cup {NoFile}
  /\ held \in BOOLEAN /\ misled \in BOOLEAN /\ mishaps \in 0 .. MaxMishaps
  /\ rc \in {"ok", "fail", "none"}
  /\ run \in [at : {"idle"} \cup RewriteSteps \cup AddSteps, gone : SUBSET Names,
              todo : Seq(Entries), pos : Nat, was : Files \cup {NoFile}]
  /\ run.at \in AddSteps => run.pos \in 1 .. Len(run.todo)

Starts(s, t) == DOMAIN s \subseteq DOMAIN t /\ \A i \in DOMAIN s : t[i] = s[i]

(* t starts with the entries of f not named in gone, in their order: place  *)
(* says where in t each of them is.                                         *)
KeptOf(f, gone) == {i \in DOMAIN f : f[i].name \notin gone}
Selects(t, f, gone) ==
  \E place \in [KeptOf(f, gone) -> DOMAIN t] :
    \A i \in KeptOf(f, gone) :
      /\ t[place[i]] = f[i]
      /\ \A j \in KeptOf(f, gone) : i < j => place[i] < place[j]
      /\ \A n \in 1 .. place[i] : \E j \in KeptOf(f, gone) : n = place[j]

(* What can still be read: the archive's entries, or those of the temporary *)
(* file where a rewrite was cut off after it had deleted the archive.       *)
Contents == Readable(IF archive # NoFile THEN archive
                     ELSE IF temp # NoFile THEN temp ELSE << >>)

(* Whatever fails and whenever the machine is reset, each step leaves every *)
(* readable entry but those being deleted, in order.  Two gaps the code has *)
(* are excepted: failed calls that mislead (lh_archive_rewrite takes a      *)
(* failed read for the end of the archive, lh_writer_open_append a failed   *)
(* Lock for its absence), and an addition that makes a new archive where    *)
(* the old one is still in the temporary file.                              *)
KeepsTheRest ==
  [][\/ Starts(Contents, Contents')
     \/ Selects(Contents', Contents, run.gone)
     \/ misled'
     \/ run.at = "idle" /\ archive = NoFile]_vars

(* A rewrite that returns LH_OK has left an archive without the deleted     *)
(* names and no temporary file.                                             *)
OkMeansGone ==
  [][rc' = "ok" /\ run.at \in RewriteSteps =>
       /\ archive' # NoFile /\ temp' = NoFile
       /\ \A i \in DOMAIN archive' : Whole(archive'[i]) /\ archive'[i].name \notin run.gone]_vars

(* A rewrite that returns an error has left the archive as it was, or, when *)
(* the rename failed, under its temporary name.                             *)
FailureKeepsArchive ==
  [][rc' = "fail" /\ run.at \in RewriteSteps =>
       \/ archive' = run.was
       \/ archive' = NoFile /\ temp' # NoFile /\ mishaps' > mishaps]_vars

(* All entries of an addition that returns LH_OK can be read behind those   *)
(* that were there, if the archive ended in a whole entry.                  *)
AddedIsReadable ==
  [][rc' = "ok" /\ run.at \in AddSteps /\ ~misled /\ Readable(run.was) = run.was =>
       Readable(archive') = run.was \o run.todo]_vars
=============================================================================

----------------------------- MODULE LoadInstall -----------------------------
(***************************************************************************)
(* The Load command (load/load_run.c, load/load_atomic.c): one run of it   *)
(* installs the files of a package one after the other, or rolls one       *)
(* destination back.  A file is staged as a candidate in SYS:T/Load, the   *)
(* file it replaces is copied there with a sidecar that names it, the      *)
(* candidate is copied beside the destination, the destination is deleted  *)
(* and the copy renamed into place, and a copy of the old file is put back *)
(* when a late step fails.  Each action is one call on the file system or  *)
(* a few between which nothing is written; any call may fail, and the      *)
(* machine may be reset between any two.                                   *)
(*                                                                         *)
(* A file's contents are a body.  Junk is what a write cut short leaves.   *)
(* A CRC tells a body from every other one.                                *)
(***************************************************************************)
EXTENDS Integers, FiniteSets, Sequences

CONSTANTS
  Dests,            \* paths that packages install to
  Bodies,           \* contents of complete files
  Version,          \* the $VER: tag found in a body
  Installed,        \* what the destinations may hold to begin with
  Packages,         \* packages: a Manifest Version and the selected File: lines
  MinutesPerDay, DayWrap, MinuteWrap, Seqs,   \* 1440, 10000, 100 and 100
  MaxClock,         \* bound: minutes that pass
  MaxMishaps,       \* bound: calls that fail, media errors and resets
  None,             \* no file
  Junk              \* the contents of a file whose writing was cut short

NoVer  == [rel |-> -1, date |-> 0]    \* no $VER: tag
BadVer == [rel |-> -2, date |-> 0]    \* a tag that does not parse, or no reading
Files  == [dest : Dests, body : Bodies]

ASSUME BodiesAssumption ==
  /\ None \notin Bodies \cup Dests /\ Junk \notin Bodies \cup Dests /\ None # Junk
  /\ Version \in [Bodies -> [rel : Int, date : Nat]]
  /\ Installed \subseteq [Dests -> Bodies \cup {None}]
ASSUME PackagesAssumption ==
  /\ Packages \subseteq [rel : Nat, files : Seq(Files)]
  /\ \A p \in Packages : /\ p.files # << >>
                         /\ \A i, j \in DOMAIN p.files :
                              p.files[i].dest = p.files[j].dest => i = j
ASSUME StampsAssumption ==
  /\ {MinutesPerDay, DayWrap, MinuteWrap, Seqs} \subseteq Nat \ {0}
  /\ MaxClock \in Nat /\ MaxMishaps \in Nat

(***************************************************************************)
(* Names.  A token is eight digits, compared as the number they write:     *)
(* four for the day, two for the minute and two for a sequence number.     *)
(***************************************************************************)
Stamp(minutes) ==
  LET day == minutes \div MinutesPerDay
      min == minutes % MinutesPerDay
  IN (day % DayWrap) * MinuteWrap + (min % MinuteWrap)
Tokens == 0 .. (DayWrap * MinuteWrap * Seqs - 1)

ASSUME TokensAssumption == None \notin Tokens

Live(d)    == <<"live", d>>
Cand(t)    == <<"LHc", t>>
Bak(t)     == <<"LHb", t>>
Temp(d, b) == <<"LHt", d, b>>          \* beside d, named after b's CRC
Paths == {Live(d) : d \in Dests} \cup {Cand(t) : t \in Tokens}
           \cup {Bak(t) : t \in Tokens} \cup {Temp(d, b) : d \in Dests, b \in Bodies}
Contents == Bodies \cup {None, Junk}

VARIABLES
  disk,     \* contents of every path but the sidecars
  side,     \* for each token, the destination its sidecar names
  clock,    \* minutes since the epoch
  load,     \* the running Load: where it is and what it holds
  rc,       \* what the last Load returned; "none" while one runs or was cut off
  mishaps,  \* calls that failed, media errors and resets so far
  good,     \* history: what each destination last held by a completed Load
  newest    \* history: the token of each destination's latest backup

vars == <<disk, side, clock, load, rc, mishaps, good, newest>>
history == <<good, newest>>

Idle == [at |-> "idle", pkg |-> [rel |-> 0, files |-> << >>], idx |-> 0,
         force |-> FALSE, cand |-> None, bak |-> None, was |-> None]

Target == load.pkg.files[load.idx].dest
Body   == load.pkg.files[load.idx].body
MyCand == Cand(load.cand)
MyTemp == Temp(Target, Body)

----------------------------------------------------------------------------
(* Versions.                                                               *)

(* What a scan for a $VER: tag may find; a fragment may hold any tag.       *)
Scans(c) == IF c \in Bodies THEN {Version[c]}
            ELSE {NoVer, BadVer} \cup {Version[b] : b \in Bodies}

(* load_ver_compare > 0 for a candidate that has a version.                 *)
Newer(c, i) ==
  \/ c.rel > i.rel
  \/ c.rel = i.rel /\ c.date > 0 /\ i.date > 0 /\ c.date > i.date

(* Wrong on purpose: looks for a candidate of that name instead of a backup.*)
FreeCandTokens ==
  {t \in Tokens : /\ t \in {Stamp(clock) * Seqs + s : s \in 0 .. Seqs - 1}
                  /\ disk[Cand(t)] = None}

(* The tokens of this minute that neither a backup nor a sidecar uses.      *)
FreeTokens ==
  {t \in Tokens : /\ t \in {Stamp(clock) * Seqs + s : s \in 0 .. Seqs - 1}
                  /\ disk[Bak(t)] = None /\ side[t] = None}

AllocToken(t) == t \in FreeTokens /\ \A u \in FreeTokens : t <= u

----------------------------------------------------------------------------
(* How a step ends.                                                         *)

Mishap == mishaps < MaxMishaps /\ mishaps' = mishaps + 1
Fine  == mishaps' = mishaps

GoTo(step) == load' = [load EXCEPT !.at = step] /\ rc' = rc
Return(code) == load' = Idle /\ rc' = code

(* Deletes the candidate, with the files in `also`, and gives up.           *)
Reject(also) ==
  /\ disk' = [x \in Paths |-> IF x \in {MyCand} \cup also THEN None ELSE disk[x]]
  /\ Return("fail")

(* Wrong on purpose: stops after the first file.                           *)
NextFileNone == disk' = [disk EXCEPT ![MyCand] = None] /\ Return("ok")

(* Deletes the candidate and goes to the next selected file, if any.        *)
NextFile ==
  /\ disk' = [disk EXCEPT ![MyCand] = None]
  /\ IF load.idx = Len(load.pkg.files) THEN Return("ok")
     ELSE /\ load' = [load EXCEPT !.at = "token", !.idx = @ + 1, !.bak = None,
                        !.was = disk[Live(load.pkg.files[load.idx + 1].dest)]]
          /\ rc' = rc

----------------------------------------------------------------------------
(* One file: the candidate and the version gate.                            *)

StartInstall(p, f) ==
  /\ load.at = "idle"
  /\ load' = [at |-> "token", pkg |-> p, idx |-> 1, force |-> f, cand |-> None,
              bak |-> None, was |-> disk[Live(p.files[1].dest)]]
  /\ rc' = "none"
  /\ UNCHANGED <<disk, side, clock, mishaps, history>>

(* Reads the member from the archive and takes a token for the candidate.   *)
TakeToken ==
  /\ load.at = "token"
  /\ \/ /\ Fine
        /\ \E t \in Tokens : /\ AllocToken(t)
                             /\ load' = [load EXCEPT !.at = "open_cand", !.cand = t]
        /\ rc' = rc
     \/ FreeTokens = {} /\ Fine /\ Return("fail")
     \/ Mishap /\ Return("fail")
  /\ UNCHANGED <<disk, side, clock, history>>

OpenCand ==
  /\ load.at = "open_cand"
  /\ \/ Fine /\ disk' = [disk EXCEPT ![MyCand] = Junk] /\ GoTo("write_cand")
     \/ Mishap /\ disk' = disk /\ Return("fail")
  /\ UNCHANGED <<side, clock, history>>

(* The media may also store something else than was written.                *)
WriteCand ==
  /\ load.at = "write_cand"
  /\ \/ Fine /\ disk' = [disk EXCEPT ![MyCand] = Body] /\ GoTo("gate")
     \/ Mishap /\ disk' = disk /\ GoTo("gate")
     \/ Mishap /\ Reject({})
  /\ UNCHANGED <<side, clock, history>>

(* The candidate's version must be the Manifest's; an installed file stays  *)
(* if it is not older, unless FORCE is given.                               *)
Gate ==
  /\ load.at = "gate"
  /\ \/ /\ Fine
        /\ \E v \in Scans(disk[MyCand]) :
             \/ v.rel # load.pkg.rel /\ Reject({})
             \/ /\ v.rel = load.pkg.rel /\ disk[Live(Target)] = None
                /\ GoTo("place") /\ disk' = disk
             \/ /\ v.rel = load.pkg.rel /\ disk[Live(Target)] # None
                /\ \E w \in Scans(disk[Live(Target)]) :
                     \/ w = BadVer /\ Reject({})
                     \/ w # BadVer /\ ~Newer(v, w) /\ ~load.force /\ NextFile
                     \/ /\ w # BadVer /\ (Newer(v, w) \/ load.force)
                        /\ GoTo("backup") /\ disk' = disk
     \/ Mishap /\ Reject({})
  /\ UNCHANGED <<side, clock, history>>

----------------------------------------------------------------------------
(* The copy of the file to be replaced.                                     *)

OpenBak ==
  /\ load.at = "backup"
  /\ \/ /\ Fine
        /\ \E t \in Tokens :
             /\ AllocToken(t)
             /\ disk' = [disk EXCEPT ![Bak(t)] = Junk]
             /\ load' = [load EXCEPT !.at = "copy_bak", !.bak = t]
             /\ rc' = rc
     \/ FreeTokens = {} /\ Fine /\ Reject({})
     \/ Mishap /\ Reject({})
  /\ UNCHANGED <<side, clock, history>>

(* Wrong on purpose: nobody looks at the result of the copy.               *)
CopyBakUnchecked ==
  /\ load.at = "copy_bak"
  /\ \/ /\ Fine
        /\ disk' = [disk EXCEPT ![Bak(load.bak)] = disk[Live(Target)]]
        /\ GoTo("open_side")
     \/ Mishap /\ disk' = disk /\ GoTo("open_side")
  /\ UNCHANGED <<side, clock, history>>

CopyBak ==
  /\ load.at = "copy_bak"
  /\ \/ /\ Fine
        /\ disk' = [disk EXCEPT ![Bak(load.bak)] = disk[Live(Target)]]
        /\ GoTo("open_side")
     \/ Mishap /\ Reject({Bak(load.bak)})
  /\ UNCHANGED <<side, clock, history>>

OpenSide ==
  /\ load.at = "open_side"
  /\ \/ /\ Fine
        /\ side' = [side EXCEPT ![load.bak] = Junk]
        /\ GoTo("write_side") /\ disk' = disk
     \/ Mishap /\ Reject({Bak(load.bak)}) /\ side' = side
  /\ UNCHANGED <<clock, history>>

WriteSide ==
  /\ load.at = "write_side"
  /\ \/ /\ Fine
        /\ side' = [side EXCEPT ![load.bak] = Target]
        /\ newest' = [newest EXCEPT ![Target] = load.bak]
        /\ GoTo("place") /\ disk' = disk
     \/ /\ Mishap /\ Reject({Bak(load.bak)})
        /\ side' = [side EXCEPT ![load.bak] = None] /\ newest' = newest
  /\ UNCHANGED <<clock, good>>

----------------------------------------------------------------------------
(* load_place_file.                                                         *)

OpenTemp ==
  /\ load.at = "place"
  /\ \/ /\ Fine /\ disk[MyCand] = Body
        /\ disk' = [disk EXCEPT ![MyTemp] = Junk]
        /\ GoTo("copy_temp")
     \/ Fine /\ disk[MyCand] # Body /\ Reject({})
     \/ Mishap /\ Reject({})
     \/ Mishap /\ Reject({MyTemp})
  /\ UNCHANGED <<side, clock, history>>

CopyTemp ==
  /\ load.at = "copy_temp"
  /\ \/ Fine /\ disk' = [disk EXCEPT ![MyTemp] = disk[MyCand]] /\ GoTo("swap")
     \/ Mishap /\ disk' = disk /\ GoTo("swap")
     \/ Mishap /\ Reject({MyTemp})
  /\ UNCHANGED <<side, clock, history>>

(* Wrong on purpose: the copy is not verified.                             *)
SwapUnverified ==
  /\ load.at = "swap"
  /\ \/ Fine /\ disk' = [disk EXCEPT ![Live(Target)] = None] /\ GoTo("rename")
     \/ Mishap /\ Reject({MyTemp})
  /\ UNCHANGED <<side, clock, history>>

(* The copy is verified and the old file deleted.                           *)
Swap ==
  /\ load.at = "swap"
  /\ \/ /\ Fine /\ disk[MyTemp] = Body
        /\ disk' = [disk EXCEPT ![Live(Target)] = None]
        /\ GoTo("rename")
     \/ Fine /\ disk[MyTemp] # Body /\ Reject({MyTemp})
     \/ Mishap /\ Reject({MyTemp})
  /\ UNCHANGED <<side, clock, history>>

Rename ==
  /\ load.at = "rename"
  /\ \/ /\ Fine
        /\ disk' = [disk EXCEPT ![Live(Target)] = disk[MyTemp], ![MyTemp] = None]
        /\ GoTo("verify")
     \/ Mishap /\ load.bak # None /\ GoTo("restore") /\ disk' = disk
     \/ Mishap /\ load.bak = None /\ Reject({MyTemp})
  /\ UNCHANGED <<side, clock, history>>

(* Wrong on purpose: nothing is put back.                                  *)
VerifyGivesUp ==
  /\ load.at = "verify"
  /\ \/ /\ Fine /\ disk[Live(Target)] = Body
        /\ good' = [good EXCEPT ![Target] = Body]
        /\ NextFile
     \/ /\ \/ Fine /\ disk[Live(Target)] # Body
           \/ Mishap
        /\ good' = good /\ Reject({})
  /\ UNCHANGED <<side, clock, newest>>

Verify ==
  /\ load.at = "verify"
  /\ \/ /\ Fine /\ disk[Live(Target)] = Body
        /\ good' = [good EXCEPT ![Target] = Body]
        /\ NextFile
     \/ /\ \/ Fine /\ disk[Live(Target)] # Body
           \/ Mishap
        /\ good' = good
        /\ \/ load.bak = None /\ Reject({})
           \/ /\ load.bak # None /\ GoTo("restore")
              /\ disk' = [disk EXCEPT ![Live(Target)] = None]
  /\ UNCHANGED <<side, clock, newest>>

(* load_copy_file from the backup to the destination; its result is unused. *)
OpenBack ==
  /\ load.at = "restore"
  /\ \/ Fine /\ disk' = [disk EXCEPT ![Live(Target)] = Junk] /\ GoTo("copy_back")
     \/ Mishap /\ Reject({MyTemp})
  /\ UNCHANGED <<side, clock, history>>

CopyBack ==
  /\ load.at = "copy_back"
  /\ \/ /\ Fine
        /\ disk' = [[disk EXCEPT ![Live(Target)] = disk[Bak(load.bak)]]
                         EXCEPT ![MyTemp] = None, ![MyCand] = None]
        /\ Return("fail")
     \/ Mishap /\ Reject({MyTemp, Live(Target)})
  /\ UNCHANGED <<side, clock, history>>

----------------------------------------------------------------------------
(* load_rollback_dest: the backup with the greatest token whose sidecar can *)
(* be read and names the destination.  Where there is none, Load says so    *)
(* and changes nothing.                                                     *)

StartRollback(d) ==
  /\ load.at = "idle"
  /\ \E t \in Tokens :
       /\ side[t] = d /\ disk[Bak(t)] # None
       /\ \/ /\ Fine /\ \A u \in Tokens : side[u] = d => u <= t
             /\ disk' = [disk EXCEPT ![Live(d)] = None]
          \/ /\ Mishap /\ Cardinality({u \in Tokens : side[u] = d /\ u > t}) = 1
             /\ disk' = [disk EXCEPT ![Live(d)] = None]
          \/ /\ Mishap /\ \A u \in Tokens : side[u] = d => u <= t
             /\ disk' = disk
       /\ good' = [good EXCEPT ![d] = disk[Bak(t)]]
       /\ load' = [Idle EXCEPT !.at = "open_roll", !.bak = t, !.idx = 1,
                     !.pkg = [rel |-> 0, files |-> <<[dest |-> d, body |-> None]>>]]
  /\ rc' = "none"
  /\ UNCHANGED <<side, clock, newest>>

OpenRoll ==
  /\ load.at = "open_roll"
  /\ \/ Fine /\ disk' = [disk EXCEPT ![Live(Target)] = Junk] /\ GoTo("copy_roll")
     \/ Mishap /\ disk' = disk /\ Return("fail")
  /\ UNCHANGED <<side, clock, history>>

CopyRoll ==
  /\ load.at = "copy_roll"
  /\ \/ /\ Fine /\ Return("ok")
        /\ disk' = [disk EXCEPT ![Live(Target)] = disk[Bak(load.bak)]]
     \/ /\ Mishap /\ Return("fail")
        /\ disk' = [disk EXCEPT ![Live(Target)] = None]
  /\ UNCHANGED <<side, clock, history>>

----------------------------------------------------------------------------
(* The world.                                                               *)

(* Time passes, also while Load runs.                                       *)
Tick == /\ clock < MaxClock /\ clock' = clock + 1
        /\ UNCHANGED <<disk, side, load, rc, mishaps, history>>

(* A reset: what is on disk stays, what Load held is gone.                  *)
Reset == /\ load.at # "idle"
         /\ Mishap /\ Return("none")
         /\ UNCHANGED <<disk, side, clock, history>>

Init ==
  /\ \E live \in Installed :
       /\ disk = [x \in Paths |-> IF x[1] = "live" THEN live[x[2]] ELSE None]
       /\ good = live
  /\ side = [t \in Tokens |-> None]
  /\ clock = 0 /\ load = Idle /\ rc = "none" /\ mishaps = 0
  /\ newest = [d \in Dests |-> None]

Install ==
  \/ TakeToken \/ OpenCand \/ WriteCand \/ Gate
  \/ OpenBak \/ CopyBak \/ OpenSide \/ WriteSide
  \/ OpenTemp \/ CopyTemp \/ Swap \/ Rename \/ Verify \/ OpenBack \/ CopyBack

Next ==
  \/ \E p \in Packages, f \in BOOLEAN : StartInstall(p, f)
  \/ Install
  \/ \E d \in Dests : StartRollback(d)
  \/ OpenRoll \/ CopyRoll
  \/ Tick \/ Reset

Spec == Init /\ [][Next]_vars

----------------------------------------------------------------------------
(* Properties.                                                              *)

Steps == {"idle", "token", "open_cand", "write_cand", "gate", "backup", "copy_bak",
          "open_side", "write_side", "place", "copy_temp", "swap", "rename",
          "verify", "restore", "copy_back", "open_roll", "copy_roll"}
RollSteps == {"open_roll", "copy_roll"}

Loads == [at : Steps, idx : Nat, force : BOOLEAN, was : Contents,
          pkg : [rel : Nat, files : Seq([dest : Dests, body : Bodies \cup {None}])],
          cand : Tokens \cup {None}, bak : Tokens \cup {None}]

(* Every variable keeps its kind: paths hold contents, sidecars name        *)
(* destinations, and Load is at one of its steps.                           *)
TypeOK ==
  /\ disk \in [Paths -> Contents]
  /\ side \in [Tokens -> Dests \cup {None, Junk}]
  /\ clock \in 0 .. MaxClock /\ mishaps \in 0 .. MaxMishaps
  /\ rc \in {"ok", "fail", "none"}
  /\ load \in Loads /\ (load.at # "idle" => load.idx \in 1 .. Len(load.pkg.files))
  /\ good \in [Dests -> Contents]
  /\ newest \in [Dests -> Tokens \cup {None}]

(* A backup is complete when its sidecar names the file it was taken from.  *)
BackedUp(d, c) == \E t \in Tokens : side[t] = d /\ disk[Bak(t)] = c

(* Whatever fails and whenever the machine is reset, the file that a        *)
(* completed Load left at a destination is still there or in a backup that  *)
(* ROLLBACK finds: load_place_file deletes a destination only after         *)
(* load_backup_to_t has finished its copy and sidecar.                      *)
Recoverable ==
  \A d \in Dests : good[d] # None =>
    disk[Live(d)] = good[d] \/ BackedUp(d, good[d])

(* A fragment of a file stands at a destination only while a whole file     *)
(* that was there before can be rolled back: nothing unverified is renamed  *)
(* into place, and only the copying back of a backup writes there.          *)
FragmentsAreCovered ==
  \A d \in Dests : disk[Live(d)] = Junk => \E b \in Bodies : BackedUp(d, b)

(* No later run, in the same minute or after the minutes' two digits have   *)
(* come round again, reuses the token of a complete backup: its copy and    *)
(* its sidecar stay as they are.                                            *)
BackupsAreKept ==
  [][\A t \in Tokens : side[t] \in Dests =>
       side'[t] = side[t] /\ disk'[Bak(t)] = disk[Bak(t)]]_vars

(* A Load that gives up on replacing a file leaves the old one in place; if *)
(* more than one thing went wrong it may leave none, but never the new one. *)
FailureRestores ==
  [][rc' = "fail" /\ load.at \notin RollSteps /\ load.was # None =>
       \/ disk'[Live(Target)] = load.was
       \/ disk'[Live(Target)] = None /\ mishaps' > 1]_vars

(* A Load that returns RETURN_OK has dealt with every selected file, and    *)
(* spoilt none of them when it went on to the others.  Under FORCE each     *)
(* destination holds the package's body, otherwise that or what the version *)
(* gate left there: a fragment, or a file of the Manifest's Version or a    *)
(* later one.  While nothing went wrong that file is not older than the     *)
(* body; a candidate that the media spoilt may show any tag.                *)
OkMeansInstalled ==
  [][rc' = "ok" /\ load.at \notin RollSteps =>
       \A i \in 1 .. Len(load.pkg.files) :
         LET f   == load.pkg.files[i]
             now == disk'[Live(f.dest)]
         IN \/ now = f.body
            \/ /\ ~load.force /\ now # None
               /\ now \in Bodies =>
                    /\ Version[now].rel >= load.pkg.rel
                    /\ mishaps' = 0 => ~Newer(Version[f.body], Version[now])]_vars

(* ROLLBACK puts back the latest backup of its destination, as the comment  *)
(* in load_rollback_dest says ("lexicographically greatest token (latest    *)
(* stamp)").  Not so in this code, when the minutes of a token come round.  *)
RollbackTakesLatest ==
  [][load'.at = "open_roll" /\ load.at = "idle" =>
       load'.bak = newest'[load'.pkg.files[1].dest]]_vars
=============================================================================

-------------------------- MODULE LoadInstallProofs --------------------------
(***************************************************************************)
(* Proofs that the staged installation of LoadInstall never loses a file   *)
(* and deals with every one it is given, for any set of packages, any      *)
(* number of failing calls and resets, and any widths of the parts of a    *)
(* token.                                                                  *)
(***************************************************************************)
EXTENDS LoadInstall, SequenceTheorems, TLAPS

(* The steps before the destination is touched, those after it, those that  *)
(* make the backup and those that follow it.                                *)
NoBakSteps == {"token", "open_cand", "write_cand", "gate", "backup"}
Copying    == {"copy_bak", "open_side", "write_side"}
Early      == NoBakSteps \cup Copying \cup {"place", "copy_temp", "swap"}
Late       == {"rename", "verify", "restore", "copy_back"}
Placing    == {"place", "copy_temp", "swap"} \cup Late

HasCand   == load.at \in (Early \cup Late) \ {"token"} => load.cand \in Tokens
Untouched == load.at \in Early => disk[Live(Target)] = load.was
NoBakYet  == load.at \in NoBakSteps => load.bak = None
Replacing == load.at \in {"backup"} \cup Copying => load.was # None
FreshBak  == load.at \in Copying =>
               /\ load.bak \in Tokens /\ side[load.bak] \notin Dests
               /\ load.at # "copy_bak" => disk[Bak(load.bak)] = load.was
HasBak    == load.at \in Placing =>
               \/ load.bak = None /\ load.was = None
               \/ /\ load.bak \in Tokens /\ load.was # None
                  /\ side[load.bak] = Target /\ disk[Bak(load.bak)] = load.was
Removed   == load.at \in {"rename", "restore"} => disk[Live(Target)] = None
Placed    == /\ load.at = "rename" => disk[MyTemp] = Body
             /\ load.at = "verify" => disk[Live(Target)] = Body
Restoring == load.at \in {"restore", "copy_back"} => load.bak # None /\ mishaps > 0
Rolling   == load.at \in RollSteps =>
               /\ load.bak \in Tokens /\ side[load.bak] = Target
               /\ disk[Bak(load.bak)] = good[Target]
Safe      == load.at \in Late /\ good[Target] # None => BackedUp(Target, good[Target])
Whole     == \A t \in Tokens : side[t] \in Dests => disk[Bak(t)] # None
Genuine   == \A d \in Dests : disk[Live(d)] = Junk \/ BackedUp(d, Junk) =>
               \E b \in Bodies : BackedUp(d, b)

(* Where Load is in replacing a file, what it holds of the old one.         *)
Progress == /\ HasCand /\ Untouched /\ NoBakYet /\ Replacing /\ FreshBak /\ HasBak
            /\ Removed /\ Placed /\ Restoring /\ Rolling
IInv == TypeOK /\ Progress /\ Safe /\ Whole /\ Genuine /\ Recoverable

(* Completed backups stay.                                                  *)
Kept == \A t \in Tokens : side[t] \in Dests =>
          side'[t] = side[t] /\ disk'[Bak(t)] = disk[Bak(t)]

----------------------------------------------------------------------------
(* The names of different kinds of files differ.                            *)
LEMMA Distinct ==
  /\ \A d, t : Live(d) # Cand(t) /\ Live(d) # Bak(t)
  /\ \A t, u : Cand(t) # Bak(u)
  /\ \A d, e, b : Live(d) # Temp(e, b)
  /\ \A t, e, b : Cand(t) # Temp(e, b) /\ Bak(t) # Temp(e, b)
  /\ \A d, e : Live(d) = Live(e) => d = e
  /\ \A t, u : Bak(t) = Bak(u) => t = u
  BY DEF Live, Cand, Bak, Temp

LEMMA Staging ==
  /\ \A d : MyCand # Live(d) /\ MyTemp # Live(d)
  /\ \A t : MyCand # Bak(t) /\ MyTemp # Bak(t)
  BY Distinct DEF MyCand, MyTemp

LEMMA InPaths ==
  /\ \A d \in Dests : Live(d) \in Paths
  /\ \A t \in Tokens : Bak(t) \in Paths /\ Cand(t) \in Paths
  /\ \A d \in Dests, b \in Bodies : Temp(d, b) \in Paths
  BY DEF Paths

(* While Load works on a file, the file is one of its package's.            *)
LEMMA AtWork ==
  ASSUME TypeOK, load.at # "idle"
  PROVE  Target \in Dests /\ Body \in Bodies \cup {None}
  <1>1. load.pkg.files \in Seq([dest : Dests, body : Bodies \cup {None}])
        /\ load.idx \in 1 .. Len(load.pkg.files)
    BY DEF TypeOK, Loads
  <1>2. load.pkg.files[load.idx] \in [dest : Dests, body : Bodies \cup {None}]
    BY <1>1, ElementOfSeq
  <1> QED BY <1>2 DEF Target, Body

(* What a step to another point of the same file changes of Load.           *)
LEMMA OnGoTo ==
  ASSUME TypeOK, NEW s \in Steps, load.at # "idle", GoTo(s)
  PROVE  /\ load' \in Loads /\ (load'.at # "idle" => load'.idx \in 1 .. Len(load'.pkg.files))
         /\ rc' \in {"ok", "fail", "none"}
         /\ load'.at = s /\ load'.bak = load.bak /\ load'.was = load.was
         /\ load'.cand = load.cand
         /\ Target' = Target /\ Body' = Body /\ MyTemp' = MyTemp /\ MyCand' = MyCand
  BY DEF TypeOK, Loads, GoTo, Target, Body, MyTemp, MyCand

(* What a Load that ends leaves of itself.                                  *)
LEMMA OnReturn ==
  ASSUME NEW code \in {"ok", "fail", "none"}, Return(code), BodiesAssumption
  PROVE  /\ load' \in Loads /\ load'.at = "idle"
         /\ rc' \in {"ok", "fail", "none"}
         /\ Progress' /\ Safe'
  <1>1. << >> \in Seq([dest : Dests, body : Bodies \cup {None}])
    OBVIOUS
  <1>2. load' \in Loads /\ load'.at = "idle" /\ rc' \in {"ok", "fail", "none"}
    BY <1>1 DEF Return, Idle, Loads, Steps, Contents
  <1>3. Progress'
    BY <1>2 DEF Progress, HasCand, Untouched, NoBakYet, Replacing, FreshBak,
      HasBak, Removed, Placed, Restoring, Rolling, NoBakSteps, Copying, Early,
      Late, Placing, RollSteps
  <1>4. Safe'
    BY <1>2 DEF Safe, Late
  <1> QED BY <1>2, <1>3, <1>4

(* A step that completes no backup and changes none of the complete ones.   *)
NoNew == \A t \in Tokens : side'[t] \in Dests => side[t] \in Dests
LEMMA SameBackups ==
  ASSUME Kept, NoNew, Whole
  PROVE  Whole' /\ \A d \in Dests : \A c : BackedUp(d, c)' <=> BackedUp(d, c)
  BY DEF Kept, NoNew, Whole, BackedUp

(* If such a step leaves the destinations alone too, nothing is lost.       *)
SameLive == \A d \in Dests : disk'[Live(d)] = disk[Live(d)]
LEMMA Quiet ==
  ASSUME IInv, Kept, NoNew, SameLive, good' = good
  PROVE  Whole' /\ Genuine' /\ Recoverable'
  <1>1. Whole' /\ \A d \in Dests : \A c : BackedUp(d, c)' <=> BackedUp(d, c)
    BY SameBackups DEF IInv
  <1>2. Genuine'
    BY <1>1 DEF IInv, Genuine, SameLive
  <1>3. Recoverable'
    BY <1>1 DEF IInv, Recoverable, SameLive
  <1> QED BY <1>1, <1>2, <1>3

(* Only Load's place and the two histories tell such steps apart.           *)
Typed == /\ disk' \in [Paths -> Contents] /\ side' \in [Tokens -> Dests \cup {None, Junk}]
         /\ clock' \in 0 .. MaxClock /\ mishaps' \in 0 .. MaxMishaps
         /\ good' \in [Dests -> Contents] /\ newest' \in [Dests -> Tokens \cup {None}]

LEMMA Ends ==
  ASSUME IInv, Kept, NoNew, SameLive, good' = good, Typed,
         NEW code \in {"ok", "fail", "none"}, Return(code)
  PROVE  IInv'
  <1>1. load' \in Loads /\ load'.at = "idle" /\ rc' \in {"ok", "fail", "none"}
        /\ Progress' /\ Safe'
    BY OnReturn, BodiesAssumption
  <1>2. TypeOK'
    BY <1>1 DEF TypeOK, Typed
  <1> QED BY <1>1, <1>2, Quiet DEF IInv

LEMMA Moves ==
  ASSUME IInv, Kept, NoNew, SameLive, good' = good, Typed,
         NEW s \in Steps, load.at # "idle", GoTo(s),
         TypeOK' => Progress' /\ Safe'
  PROVE  IInv'
  <1>1. TypeOK'
    BY OnGoTo DEF TypeOK, Typed, IInv
  <1> QED BY <1>1, Quiet DEF IInv

(* The budget of mishaps is kept.                                           *)
LEMMA Budget ==
  ASSUME TypeOK, Fine \/ Mishap
  PROVE  mishaps' \in 0 .. MaxMishaps /\ mishaps' >= mishaps
  BY StampsAssumption DEF TypeOK, Fine, Mishap

(* A write to a path that is neither a destination nor a complete backup.   *)
LEMMA Stages ==
  ASSUME TypeOK, NEW x, NEW c \in Contents, disk' = [disk EXCEPT ![x] = c], side' = side,
         \A d : x # Live(d), \A t \in Tokens : side[t] \in Dests => x # Bak(t)
  PROVE  disk' \in [Paths -> Contents] /\ Kept /\ NoNew /\ SameLive
  <1>1. disk \in [Paths -> Contents]
    BY DEF TypeOK
  <1>2. disk' \in [Paths -> Contents] /\ \A y \in Paths : y # x => disk'[y] = disk[y]
    BY <1>1
  <1>3. Kept /\ NoNew
    BY <1>2, InPaths DEF Kept, NoNew
  <1>4. SameLive
    BY <1>2, InPaths DEF SameLive
  <1> QED BY <1>2, <1>3, <1>4

(* Load gives up: it deletes its own staging files and perhaps a backup     *)
(* that is not complete, and leaves destinations and backups alone.         *)
LEMMA Rejects ==
  ASSUME IInv, NEW also, Reject(also), Fine \/ Mishap,
         also \subseteq {MyTemp, Bak(load.bak)},
         Bak(load.bak) \in also => load.at \in Copying,
         side' = side \/ (load.at \in Copying /\ side' = [side EXCEPT ![load.bak] = None]),
         clock' = clock, good' = good, newest' = newest
  PROVE  IInv' /\ Kept
  <1>0. TypeOK /\ FreshBak /\ Return("fail")
    BY DEF IInv, Progress, Reject
  <1>1. Typed
    BY <1>0, Budget DEF Typed, TypeOK, Reject, Contents
  <1>2. SameLive
    BY <1>0, Distinct, InPaths DEF SameLive, Reject, MyCand, MyTemp
  <1>3. NoNew
    BY <1>0, BodiesAssumption DEF NoNew, FreshBak, TypeOK
  <1>4. Kept
    <2> SUFFICES ASSUME NEW t \in Tokens, side[t] \in Dests
                 PROVE  side'[t] = side[t] /\ disk'[Bak(t)] = disk[Bak(t)]
      BY DEF Kept
    <2>1. load.at \in Copying => t # load.bak
      BY <1>0 DEF FreshBak
    <2>2. Bak(t) \notin {MyCand} \cup also
      BY <2>1, Distinct DEF MyCand, MyTemp
    <2> QED BY <2>1, <2>2, <1>0, InPaths DEF Reject, TypeOK
  <1> QED BY <1>0, <1>1, <1>2, <1>3, <1>4, Ends

(* Load deletes the candidate and turns to its next file, if there is one.  *)
LEMMA TurnsToNext ==
  ASSUME IInv, NextFile, load.at \in {"gate", "verify"}, side' = side
  PROVE  /\ disk' \in [Paths -> Contents] /\ Kept /\ NoNew /\ SameLive
         /\ load' \in Loads /\ (load'.at # "idle" => load'.idx \in 1 .. Len(load'.pkg.files))
         /\ rc' \in {"ok", "fail", "none"} /\ Progress' /\ Safe'
  <1>1. TypeOK /\ rc \in {"ok", "fail", "none"} /\ disk \in [Paths -> Contents]
    BY DEF IInv, TypeOK
  <1>2. disk' \in [Paths -> Contents] /\ Kept /\ NoNew /\ SameLive
    BY <1>1, Stages, Staging DEF NextFile, Contents
  <1>3. CASE load.idx = Len(load.pkg.files)
    BY <1>2, <1>3, OnReturn, BodiesAssumption DEF NextFile
  <1>4. CASE load.idx # Len(load.pkg.files)
    <2> DEFINE n == load.idx + 1
    <2>1. /\ load.pkg.files \in Seq([dest : Dests, body : Bodies \cup {None}])
          /\ load.idx \in 1 .. Len(load.pkg.files) /\ load \in Loads
      BY <1>1 DEF TypeOK, Loads
    <2>2. n \in 1 .. Len(load.pkg.files) /\ n \in Nat
      BY <2>1, <1>4, LenProperties
    <2>3. load.pkg.files[n].dest \in Dests
      <3>1. load.pkg.files[n] \in [dest : Dests, body : Bodies \cup {None}]
        BY <2>1, <2>2, ElementOfSeq
      <3> QED BY <3>1
    <2>4. disk[Live(load.pkg.files[n].dest)] \in Contents
      BY <1>1, <2>3, InPaths
    <2>5. load' = [load EXCEPT !.at = "token", !.idx = n, !.bak = None,
                     !.was = disk[Live(load.pkg.files[n].dest)]] /\ rc' = rc
      BY <1>4 DEF NextFile
    <2>6. load' \in Loads /\ load'.at = "token" /\ load'.idx = n /\ load'.bak = None
          /\ load'.pkg = load.pkg /\ load'.was = disk[Live(load.pkg.files[n].dest)]
      BY <2>1, <2>2, <2>4, <2>5 DEF Loads, Steps
    <2>7. disk'[Live(Target')] = load'.was
      BY <1>2, <2>3, <2>6 DEF SameLive, Target
    <2>8. Progress' /\ Safe'
      BY <2>6, <2>7 DEF Safe, Progress, HasCand, Untouched, NoBakYet, Replacing,
        FreshBak, HasBak, Removed, Placed, Restoring, Rolling, NoBakSteps, Copying,
        Early, Late, Placing, RollSteps
    <2> QED BY <1>1, <1>2, <2>2, <2>5, <2>6, <2>8
  <1> QED BY <1>3, <1>4

(* A step that changes the destination Load works on and no other, and      *)
(* leaves the backups alone, loses nothing if that destination is covered.  *)
LEMMA Replaces ==
  ASSUME IInv, Kept, NoNew, NEW d \in Dests,
         \A e \in Dests : e # d => disk'[Live(e)] = disk[Live(e)] /\ good'[e] = good[e],
         good'[d] # None => disk'[Live(d)] = good'[d] \/ BackedUp(d, good'[d]),
         disk'[Live(d)] = Junk => \E b \in Bodies : BackedUp(d, b)
  PROVE  Whole' /\ Genuine' /\ Recoverable'
  <1>1. Whole' /\ \A e \in Dests : \A c : BackedUp(e, c)' <=> BackedUp(e, c)
    BY SameBackups DEF IInv
  <1>2. Genuine'
    BY <1>1 DEF IInv, Genuine
  <1>3. Recoverable'
    BY <1>1 DEF IInv, Recoverable
  <1> QED BY <1>1, <1>2, <1>3

----------------------------------------------------------------------------
(* One lemma per action: the invariant is kept, and so are the backups.     *)
LEMMA DoStartInstall ==
  ASSUME IInv, NEW p \in Packages, NEW f \in BOOLEAN, StartInstall(p, f)
  PROVE  IInv' /\ Kept
  <1>1. disk' = disk /\ side' = side /\ good' = good /\ newest' = newest /\ clock' = clock
    BY DEF StartInstall, history
  <1>2. Kept /\ NoNew /\ SameLive
    BY <1>1 DEF Kept, NoNew, SameLive
  <1>3. p.files \in Seq(Files) /\ p.rel \in Nat /\ p.files # << >> /\ p = [rel |-> p.rel, files |-> p.files]
    BY PackagesAssumption
  <1>4. p.files[1] \in Files /\ 1 \in 1 .. Len(p.files)
    BY <1>3, ElementOfSeq, EmptySeq, LenProperties
  <1>5. p.files \in Seq([dest : Dests, body : Bodies \cup {None}])
    <2>1. Files \subseteq [dest : Dests, body : Bodies \cup {None}]
      BY DEF Files
    <2> QED BY <2>1, <1>3, SeqMonotonic
  <1>6. disk[Live(p.files[1].dest)] \in Contents
    BY <1>4, InPaths DEF IInv, TypeOK, Files
  <1>7. load' \in Loads /\ load'.at = "token" /\ load'.idx = 1 /\ load'.pkg = p
        /\ load'.bak = None /\ load'.was = disk[Live(p.files[1].dest)]
    BY <1>3, <1>5, <1>6 DEF StartInstall, Loads, Steps
  <1>8. TypeOK'
    BY <1>1, <1>4, <1>7 DEF TypeOK, StartInstall, IInv
  <1>9. Progress' /\ Safe'
    BY <1>1, <1>7 DEF Safe, Progress, HasCand, Untouched, NoBakYet, Replacing,
      FreshBak, HasBak, Removed, Placed, Restoring, Rolling, NoBakSteps, Copying,
      Early, Late, Placing, RollSteps, Target
  <1> QED BY <1>1, <1>2, <1>8, <1>9, Quiet DEF IInv

LEMMA DoTakeToken ==
  ASSUME IInv, TakeToken
  PROVE  IInv' /\ Kept
  <1>1. disk' = disk /\ side' = side /\ good' = good /\ newest' = newest /\ clock' = clock
    BY DEF TakeToken, history
  <1>2. Kept /\ NoNew /\ SameLive
    BY <1>1 DEF Kept, NoNew, SameLive
  <1>3. load.at = "token" /\ TypeOK /\ Target \in Dests /\ (Fine \/ Mishap)
    BY AtWork DEF TakeToken, IInv
  <1>4. Typed
    BY <1>1, <1>3, Budget DEF Typed, TypeOK
  <1>5. CASE Return("fail")
    BY <1>1, <1>2, <1>4, <1>5, Ends
  <1>6. ASSUME NEW t \in Tokens, rc' = rc,
               load' = [load EXCEPT !.at = "open_cand", !.cand = t]
        PROVE  IInv'
    <2>1. TypeOK'
      BY <1>3, <1>4, <1>6 DEF TypeOK, Typed, Loads, Steps
    <2>2. load'.at = "open_cand" /\ load'.bak = load.bak /\ load'.was = load.was
          /\ load'.cand = t /\ Target' = Target
      BY <1>3, <1>6 DEF TypeOK, Loads, Target
    <2>3. Progress' /\ Safe'
      BY <1>1, <1>3, <2>2 DEF IInv, Safe, Progress, HasCand, Untouched, NoBakYet,
        Replacing, FreshBak, HasBak, Removed, Placed, Restoring, Rolling,
        NoBakSteps, Copying, Early, Late, Placing, RollSteps
    <2> QED BY <1>1, <1>2, <2>1, <2>3, Quiet DEF IInv
  <1> QED BY <1>2, <1>5, <1>6 DEF TakeToken

LEMMA DoOpenCand ==
  ASSUME IInv, OpenCand
  PROVE  IInv' /\ Kept
  <1>1. load.at = "open_cand" /\ TypeOK /\ Target \in Dests /\ Body \in Bodies \cup {None}
        /\ (Fine \/ Mishap) /\ clock' = clock /\ side' = side
        /\ good' = good /\ newest' = newest
    BY AtWork DEF OpenCand, IInv, history
  <1>2. ASSUME disk' = disk \/ disk' = [disk EXCEPT ![MyCand] = Junk]
        PROVE  Kept /\ NoNew /\ SameLive /\ Typed
    <2>1. CASE disk' = disk
      BY <1>1, <2>1, Budget DEF Kept, NoNew, SameLive, Typed, TypeOK
    <2>2. CASE disk' = [disk EXCEPT ![MyCand] = Junk]
      <3>1. disk' \in [Paths -> Contents] /\ Kept /\ NoNew /\ SameLive
        BY <1>1, <2>2, Stages, Staging DEF Contents
      <3> QED BY <1>1, <3>1, Budget DEF Typed, TypeOK
    <2> QED BY <1>2, <2>1, <2>2
  <1>3. ASSUME GoTo("write_cand"), Kept, NoNew, SameLive, Typed, good' = good
        PROVE  IInv'
    <2>1. load'.at = "write_cand" /\ load'.bak = load.bak /\ load'.was = load.was /\ Target' = Target
          /\ load'.cand = load.cand /\ MyTemp' = MyTemp /\ Body' = Body
      BY <1>1, <1>3, OnGoTo DEF Steps
    <2>2. Progress' /\ Safe'
      BY <1>1, <1>3, <2>1 DEF SameLive, Kept, IInv, Safe, Progress, HasCand,
        Untouched, NoBakYet, Replacing, FreshBak, HasBak, Removed, Placed,
        Restoring, Rolling, NoBakSteps, Copying, Early, Late, Placing, RollSteps
    <2> QED BY <1>1, <1>3, <2>2, Moves DEF Steps
  <1> QED BY <1>1, <1>2, <1>3, Ends DEF OpenCand

LEMMA DoWriteCand ==
  ASSUME IInv, WriteCand
  PROVE  IInv' /\ Kept
  <1>1. load.at = "write_cand" /\ TypeOK /\ Target \in Dests /\ Body \in Bodies \cup {None}
        /\ (Fine \/ Mishap) /\ clock' = clock /\ side' = side
        /\ good' = good /\ newest' = newest
    BY AtWork DEF WriteCand, IInv, history
  <1>2. ASSUME disk' = disk \/ disk' = [disk EXCEPT ![MyCand] = Body]
        PROVE  Kept /\ NoNew /\ SameLive /\ Typed
    <2>1. CASE disk' = disk
      BY <1>1, <2>1, Budget DEF Kept, NoNew, SameLive, Typed, TypeOK
    <2>2. CASE disk' = [disk EXCEPT ![MyCand] = Body]
      <3>1. disk' \in [Paths -> Contents] /\ Kept /\ NoNew /\ SameLive
        BY <1>1, <2>2, Stages, Staging DEF Contents
      <3> QED BY <1>1, <3>1, Budget DEF Typed, TypeOK
    <2> QED BY <1>2, <2>1, <2>2
  <1>3. ASSUME GoTo("gate"), Kept, NoNew, SameLive, Typed, good' = good
        PROVE  IInv'
    <2>1. load'.at = "gate" /\ load'.bak = load.bak /\ load'.was = load.was /\ Target' = Target
          /\ load'.cand = load.cand /\ MyTemp' = MyTemp /\ Body' = Body
      BY <1>1, <1>3, OnGoTo DEF Steps
    <2>2. Progress' /\ Safe'
      BY <1>1, <1>3, <2>1 DEF SameLive, Kept, IInv, Safe, Progress, HasCand,
        Untouched, NoBakYet, Replacing, FreshBak, HasBak, Removed, Placed,
        Restoring, Rolling, NoBakSteps, Copying, Early, Late, Placing, RollSteps
    <2> QED BY <1>1, <1>3, <2>2, Moves DEF Steps
  <1>4. CASE Reject({})
    BY <1>1, <1>4, Rejects
  <1> QED BY <1>1, <1>2, <1>3, <1>4 DEF WriteCand

LEMMA DoGate ==
  ASSUME IInv, Gate
  PROVE  IInv' /\ Kept
  <1>1. load.at = "gate" /\ TypeOK /\ Target \in Dests /\ Body \in Bodies \cup {None}
        /\ (Fine \/ Mishap) /\ clock' = clock /\ side' = side
        /\ good' = good /\ newest' = newest
    BY AtWork DEF Gate, IInv, history
  <1>2. CASE Reject({})
    BY <1>1, <1>2, Rejects
  <1>3. CASE NextFile
    <2>1. TypeOK'
      BY <1>1, <1>3, TurnsToNext, Budget DEF TypeOK
    <2> QED BY <1>1, <1>3, <2>1, TurnsToNext, Quiet DEF IInv
  <1>4. ASSUME disk' = disk
        PROVE  Kept /\ NoNew /\ SameLive /\ Typed
    BY <1>1, <1>4, Budget DEF Kept, NoNew, SameLive, Typed, TypeOK
  <1>5. ASSUME GoTo("backup"), Kept, NoNew, SameLive, Typed, good' = good,
               disk' = disk, disk[Live(Target)] # None
        PROVE  IInv'
    <2>1. load'.at = "backup" /\ load'.bak = load.bak /\ load'.was = load.was /\ Target' = Target
          /\ load'.cand = load.cand /\ MyTemp' = MyTemp /\ Body' = Body
      BY <1>1, <1>5, OnGoTo DEF Steps
    <2>2. Progress' /\ Safe'
      BY <1>1, <1>5, <2>1 DEF SameLive, Kept, IInv, Safe, Progress, HasCand,
        Untouched, NoBakYet, Replacing, FreshBak, HasBak, Removed, Placed,
        Restoring, Rolling, NoBakSteps, Copying, Early, Late, Placing, RollSteps
    <2> QED BY <1>1, <1>5, <2>2, Moves DEF Steps
  <1>6. ASSUME GoTo("place"), Kept, NoNew, SameLive, Typed, good' = good,
               disk' = disk, disk[Live(Target)] = None
        PROVE  IInv'
    <2>1. load'.at = "place" /\ load'.bak = load.bak /\ load'.was = load.was /\ Target' = Target
          /\ load'.cand = load.cand /\ MyTemp' = MyTemp /\ Body' = Body
      BY <1>1, <1>6, OnGoTo DEF Steps
    <2>2. Progress' /\ Safe'
      BY <1>1, <1>6, <2>1 DEF SameLive, Kept, IInv, Safe, Progress, HasCand,
        Untouched, NoBakYet, Replacing, FreshBak, HasBak, Removed, Placed,
        Restoring, Rolling, NoBakSteps, Copying, Early, Late, Placing, RollSteps
    <2> QED BY <1>1, <1>6, <2>2, Moves DEF Steps
  <1> QED
    <2>1. \/ Reject({}) \/ NextFile
          \/ disk' = disk /\ GoTo("place") /\ disk[Live(Target)] = None
          \/ disk' = disk /\ GoTo("backup") /\ disk[Live(Target)] # None
      BY DEF Gate
    <2> QED BY <2>1, <1>1, <1>2, <1>3, <1>4, <1>5, <1>6

LEMMA DoOpenBak ==
  ASSUME IInv, OpenBak
  PROVE  IInv' /\ Kept
  <1>1. load.at = "backup" /\ TypeOK /\ Target \in Dests /\ Body \in Bodies \cup {None}
        /\ (Fine \/ Mishap) /\ clock' = clock /\ side' = side
        /\ good' = good /\ newest' = newest
    BY AtWork DEF OpenBak, IInv, history
  <1>2. CASE Reject({})
    BY <1>1, <1>2, Rejects
  <1>3. ASSUME NEW t \in Tokens, AllocToken(t), rc' = rc,
               disk' = [disk EXCEPT ![Bak(t)] = Junk],
               load' = [load EXCEPT !.at = "copy_bak", !.bak = t]
        PROVE  IInv' /\ Kept
    <2>1. side[t] \notin Dests
      BY <1>3, BodiesAssumption DEF AllocToken, FreeTokens
    <2>2. (\A d : Bak(t) # Live(d)) /\ \A u \in Tokens : side[u] \in Dests => Bak(t) # Bak(u)
      BY <2>1, Distinct
    <2>3. disk' \in [Paths -> Contents] /\ Kept /\ NoNew /\ SameLive
      BY <1>1, <1>3, <2>2, Stages DEF Contents
    <2>4. TypeOK'
      BY <1>1, <1>3, <2>3, Budget DEF TypeOK, Loads, Steps
    <2>5. load'.at = "copy_bak" /\ load'.bak = t /\ load'.was = load.was /\ Target' = Target
          /\ load'.cand = load.cand
      BY <1>1, <1>3 DEF TypeOK, Loads, Target
    <2>6. Progress' /\ Safe'
      BY <1>1, <2>1, <2>3, <2>5 DEF SameLive, IInv, Safe, Progress, HasCand,
        Untouched, NoBakYet, Replacing, FreshBak, HasBak, Removed, Placed,
        Restoring, Rolling, NoBakSteps, Copying, Early, Late, Placing, RollSteps
    <2> QED BY <1>1, <2>3, <2>4, <2>6, Quiet DEF IInv
  <1> QED BY <1>2, <1>3 DEF OpenBak

LEMMA DoCopyBak ==
  ASSUME IInv, CopyBak
  PROVE  IInv' /\ Kept
  <1>1. load.at = "copy_bak" /\ TypeOK /\ Target \in Dests /\ Body \in Bodies \cup {None}
        /\ (Fine \/ Mishap) /\ clock' = clock /\ side' = side
        /\ good' = good /\ newest' = newest
    BY AtWork DEF CopyBak, IInv, history
  <1>2. load.bak \in Tokens /\ side[load.bak] \notin Dests /\ disk[Live(Target)] = load.was
    BY <1>1 DEF IInv, Progress, FreshBak, Copying, Untouched, Early
  <1>3. CASE Reject({Bak(load.bak)})
    BY <1>1, <1>3, Rejects DEF Copying
  <1>4. ASSUME disk' = [disk EXCEPT ![Bak(load.bak)] = disk[Live(Target)]], GoTo("open_side")
        PROVE  IInv' /\ Kept
    <2>1. \A d : Bak(load.bak) # Live(d)
      BY Distinct
    <2>2. \A u \in Tokens : side[u] \in Dests => Bak(load.bak) # Bak(u)
      BY <1>2, Distinct
    <2>3. disk[Live(Target)] \in Contents
      BY <1>1, InPaths DEF TypeOK
    <2>4. disk' \in [Paths -> Contents] /\ Kept /\ NoNew /\ SameLive
      BY <1>1, <1>4, <2>1, <2>2, <2>3, Stages
    <2>5. Typed
      BY <1>1, <2>4, Budget DEF Typed, TypeOK
    <2>6. disk'[Bak(load.bak)] = load.was
      BY <1>1, <1>2, <1>4, InPaths DEF TypeOK
    <2>7. load'.at = "open_side" /\ load'.bak = load.bak /\ load'.was = load.was
          /\ Target' = Target /\ load'.cand = load.cand
      BY <1>1, <1>4, OnGoTo DEF Steps
    <2>8. Progress' /\ Safe'
      BY <1>1, <1>2, <2>4, <2>6, <2>7 DEF SameLive, IInv, Safe, Progress, HasCand,
        Untouched, NoBakYet, Replacing, FreshBak, HasBak, Removed, Placed,
        Restoring, Rolling, NoBakSteps, Copying, Early, Late, Placing, RollSteps
    <2> QED BY <1>1, <1>4, <2>4, <2>5, <2>8, Moves DEF Steps
  <1> QED BY <1>3, <1>4 DEF CopyBak

LEMMA DoOpenSide ==
  ASSUME IInv, OpenSide
  PROVE  IInv' /\ Kept
  <1>1. load.at = "open_side" /\ TypeOK /\ Target \in Dests /\ Body \in Bodies \cup {None}
        /\ (Fine \/ Mishap) /\ clock' = clock /\ good' = good /\ newest' = newest
    BY AtWork DEF OpenSide, IInv, history
  <1>2. load.bak \in Tokens /\ side[load.bak] \notin Dests
    BY <1>1 DEF IInv, Progress, FreshBak, Copying
  <1>3. CASE Reject({Bak(load.bak)}) /\ side' = side
    BY <1>1, <1>3, Rejects DEF Copying
  <1>4. ASSUME disk' = disk, side' = [side EXCEPT ![load.bak] = Junk], GoTo("write_side")
        PROVE  IInv' /\ Kept
    <2>1. side \in [Tokens -> Dests \cup {None, Junk}]
      BY <1>1 DEF TypeOK
    <2>2. Kept /\ NoNew /\ SameLive
      BY <1>2, <1>4, <2>1, BodiesAssumption DEF Kept, NoNew, SameLive
    <2>3. Typed
      BY <1>1, <1>4, Budget DEF Typed, TypeOK
    <2>4. side'[load.bak] \notin Dests
      BY <1>2, <1>4, <2>1, BodiesAssumption
    <2>5. load'.at = "write_side" /\ load'.bak = load.bak /\ load'.was = load.was
          /\ Target' = Target /\ load'.cand = load.cand
      BY <1>1, <1>4, OnGoTo DEF Steps
    <2>6. Progress' /\ Safe'
      BY <1>1, <1>2, <1>4, <2>4, <2>5 DEF IInv, Safe, Progress, HasCand, Untouched,
        NoBakYet, Replacing, FreshBak, HasBak, Removed, Placed, Restoring, Rolling,
        NoBakSteps, Copying, Early, Late, Placing, RollSteps
    <2> QED BY <1>1, <1>4, <2>2, <2>3, <2>6, Moves DEF Steps
  <1> QED BY <1>3, <1>4 DEF OpenSide

LEMMA DoOpenTemp ==
  ASSUME IInv, OpenTemp
  PROVE  IInv' /\ Kept
  <1>1. load.at = "place" /\ TypeOK /\ Target \in Dests /\ Body \in Bodies \cup {None}
        /\ (Fine \/ Mishap) /\ clock' = clock /\ side' = side
        /\ good' = good /\ newest' = newest
    BY AtWork DEF OpenTemp, IInv, history
  <1>2. ASSUME disk' = disk \/ disk' = [disk EXCEPT ![MyTemp] = Junk]
        PROVE  Kept /\ NoNew /\ SameLive /\ Typed
    <2>1. CASE disk' = disk
      BY <1>1, <2>1, Budget DEF Kept, NoNew, SameLive, Typed, TypeOK
    <2>2. CASE disk' = [disk EXCEPT ![MyTemp] = Junk]
      <3>1. disk' \in [Paths -> Contents] /\ Kept /\ NoNew /\ SameLive
        BY <1>1, <2>2, Stages, Staging DEF Contents
      <3> QED BY <1>1, <3>1, Budget DEF Typed, TypeOK
    <2> QED BY <1>2, <2>1, <2>2
  <1>3. ASSUME GoTo("copy_temp"), Kept, NoNew, SameLive, Typed, good' = good
        PROVE  IInv'
    <2>1. load'.at = "copy_temp" /\ load'.bak = load.bak /\ load'.was = load.was /\ Target' = Target
          /\ load'.cand = load.cand /\ MyTemp' = MyTemp /\ Body' = Body
      BY <1>1, <1>3, OnGoTo DEF Steps
    <2>2. Progress' /\ Safe'
      BY <1>1, <1>3, <2>1 DEF SameLive, Kept, IInv, Safe, Progress, HasCand,
        Untouched, NoBakYet, Replacing, FreshBak, HasBak, Removed, Placed,
        Restoring, Rolling, NoBakSteps, Copying, Early, Late, Placing, RollSteps
    <2> QED BY <1>1, <1>3, <2>2, Moves DEF Steps
  <1>4. CASE Reject({}) \/ Reject({MyTemp})
    BY <1>1, <1>4, Rejects, Staging
  <1> QED BY <1>1, <1>2, <1>3, <1>4 DEF OpenTemp

LEMMA DoCopyTemp ==
  ASSUME IInv, CopyTemp
  PROVE  IInv' /\ Kept
  <1>1. load.at = "copy_temp" /\ TypeOK /\ Target \in Dests /\ Body \in Bodies \cup {None}
        /\ (Fine \/ Mishap) /\ clock' = clock /\ side' = side
        /\ good' = good /\ newest' = newest
    BY AtWork DEF CopyTemp, IInv, history
  <1>5. disk[MyCand] \in Contents
    BY <1>1, InPaths DEF MyCand, TypeOK, IInv, Progress, HasCand, Early, NoBakSteps
  <1>2. ASSUME disk' = disk \/ disk' = [disk EXCEPT ![MyTemp] = disk[MyCand]]
        PROVE  Kept /\ NoNew /\ SameLive /\ Typed
    <2>1. CASE disk' = disk
      BY <1>1, <2>1, Budget DEF Kept, NoNew, SameLive, Typed, TypeOK
    <2>2. CASE disk' = [disk EXCEPT ![MyTemp] = disk[MyCand]]
      <3>1. disk' \in [Paths -> Contents] /\ Kept /\ NoNew /\ SameLive
        BY <1>1, <2>2, Stages, Staging, <1>5
      <3> QED BY <1>1, <3>1, Budget DEF Typed, TypeOK
    <2> QED BY <1>2, <2>1, <2>2
  <1>3. ASSUME GoTo("swap"), Kept, NoNew, SameLive, Typed, good' = good
        PROVE  IInv'
    <2>1. load'.at = "swap" /\ load'.bak = load.bak /\ load'.was = load.was /\ Target' = Target
          /\ load'.cand = load.cand /\ MyTemp' = MyTemp /\ Body' = Body
      BY <1>1, <1>3, OnGoTo DEF Steps
    <2>2. Progress' /\ Safe'
      BY <1>1, <1>3, <2>1 DEF SameLive, Kept, IInv, Safe, Progress, HasCand,
        Untouched, NoBakYet, Replacing, FreshBak, HasBak, Removed, Placed,
        Restoring, Rolling, NoBakSteps, Copying, Early, Late, Placing, RollSteps
    <2> QED BY <1>1, <1>3, <2>2, Moves DEF Steps
  <1>4. CASE Reject({MyTemp})
    BY <1>1, <1>4, Rejects, Staging
  <1> QED BY <1>1, <1>2, <1>3, <1>4 DEF CopyTemp

LEMMA DoWriteSide ==
  ASSUME IInv, WriteSide
  PROVE  IInv' /\ Kept
  <1>1. load.at = "write_side" /\ TypeOK /\ Target \in Dests /\ Body \in Bodies \cup {None}
        /\ (Fine \/ Mishap) /\ clock' = clock /\ good' = good
    BY AtWork DEF WriteSide, IInv, history
  <1>2. /\ load.bak \in Tokens /\ side[load.bak] \notin Dests
        /\ disk[Bak(load.bak)] = load.was /\ load.was # None
        /\ disk[Live(Target)] = load.was
    BY <1>1 DEF IInv, Progress, FreshBak, Replacing, Copying, Untouched, Early
  <1>3. CASE Reject({Bak(load.bak)}) /\ side' = [side EXCEPT ![load.bak] = None]
                                    /\ newest' = newest
    BY <1>1, <1>3, Rejects DEF Copying
  <1>4. ASSUME disk' = disk, side' = [side EXCEPT ![load.bak] = Target],
               newest' = [newest EXCEPT ![Target] = load.bak], GoTo("place")
        PROVE  IInv' /\ Kept
    <2>1. side \in [Tokens -> Dests \cup {None, Junk}]
          /\ newest \in [Dests -> Tokens \cup {None}]
      BY <1>1 DEF TypeOK
    <2>2. Kept /\ side'[load.bak] = Target /\ \A t \in Tokens \ {load.bak} : side'[t] = side[t]
      BY <1>2, <1>4, <2>1 DEF Kept
    <2>3. load'.at = "place" /\ load'.bak = load.bak /\ load'.was = load.was
          /\ Target' = Target /\ load'.cand = load.cand /\ MyTemp' = MyTemp /\ Body' = Body
          /\ load' \in Loads /\ (load'.at # "idle" => load'.idx \in 1 .. Len(load'.pkg.files))
          /\ rc' \in {"ok", "fail", "none"}
      BY <1>1, <1>4, OnGoTo DEF Steps
    <2>4. TypeOK'
      BY <1>1, <1>2, <1>4, <2>1, <2>3, Budget DEF TypeOK
    <2>5. Progress' /\ Safe'
      BY <1>1, <1>2, <1>4, <2>2, <2>3 DEF IInv, Safe, Progress, HasCand, Untouched,
        NoBakYet, Replacing, FreshBak, HasBak, Removed, Placed, Restoring, Rolling,
        NoBakSteps, Copying, Early, Late, Placing, RollSteps
    <2>6. Whole'
      BY <1>2, <1>4, <2>2 DEF Whole, IInv
    <2>7. \A d \in Dests : \A c : BackedUp(d, c) => BackedUp(d, c)'
      BY <1>2, <1>4, <2>2 DEF BackedUp
    <2>8. \A d \in Dests : \A c : BackedUp(d, c)' => BackedUp(d, c) \/ (d = Target /\ c = load.was)
      <3> SUFFICES ASSUME NEW d \in Dests, NEW c, NEW t \in Tokens,
                          side'[t] = d, disk'[Bak(t)] = c
                   PROVE  BackedUp(d, c) \/ (d = Target /\ c = load.was)
        BY DEF BackedUp
      <3>1. CASE t = load.bak
        BY <1>2, <1>4, <2>2, <3>1
      <3>2. CASE t # load.bak
        <4>1. side[t] = d /\ disk[Bak(t)] = c
          BY <1>4, <2>2, <3>2
        <4> QED BY <4>1 DEF BackedUp
      <3> QED BY <3>1, <3>2
    <2>9. Recoverable'
      BY <1>1, <1>4, <2>7 DEF Recoverable, IInv
    <2>10. Genuine'
      BY <1>1, <1>2, <1>4, <2>7, <2>8 DEF Genuine, IInv
    <2> QED BY <2>2, <2>4, <2>5, <2>6, <2>9, <2>10 DEF IInv
  <1> QED BY <1>3, <1>4 DEF WriteSide

(* A write to the destination Load works on.                                *)
LEMMA WritesLive ==
  ASSUME TypeOK, NEW d \in Dests, side' = side, disk' \in [Paths -> Contents],
         \A x \in Paths : x \notin {Live(d), MyTemp, MyCand} => disk'[x] = disk[x]
  PROVE  Kept /\ NoNew /\ \A e \in Dests : e # d => disk'[Live(e)] = disk[Live(e)]
  <1>1. Kept
    BY InPaths, Distinct, Staging DEF Kept
  <1>2. NoNew
    BY DEF NoNew
  <1>3. ASSUME NEW e \in Dests, e # d
        PROVE  disk'[Live(e)] = disk[Live(e)]
    BY <1>3, InPaths, Distinct, Staging
  <1> QED BY <1>1, <1>2, <1>3

LEMMA DoSwap ==
  ASSUME IInv, Swap
  PROVE  IInv' /\ Kept
  <1>1. load.at = "swap" /\ TypeOK /\ Target \in Dests /\ Body \in Bodies \cup {None}
        /\ (Fine \/ Mishap) /\ clock' = clock /\ side' = side
        /\ good' = good /\ newest' = newest
    BY AtWork DEF Swap, IInv, history
  <1>2. /\ disk[Live(Target)] = load.was
        /\ load.was # None => BackedUp(Target, load.was)
    BY <1>1 DEF IInv, Progress, HasBak, Placing, Untouched, Early, BackedUp
  <1>3. CASE Reject({MyTemp})
    BY <1>1, <1>3, Rejects, Staging
  <1>4. ASSUME disk' = [disk EXCEPT ![Live(Target)] = None], disk[MyTemp] = Body, GoTo("rename")
        PROVE  IInv' /\ Kept
    <2>1. disk' \in [Paths -> Contents] /\ disk'[Live(Target)] = None
          /\ \A x \in Paths : x # Live(Target) => disk'[x] = disk[x]
      BY <1>1, <1>4, InPaths DEF TypeOK, Contents
    <2>2. Kept /\ NoNew /\ \A e \in Dests : e # Target => disk'[Live(e)] = disk[Live(e)]
      BY <1>1, <2>1, WritesLive
    <2>3. load'.at = "rename" /\ load'.bak = load.bak /\ load'.was = load.was
          /\ Target' = Target /\ load'.cand = load.cand /\ MyTemp' = MyTemp /\ Body' = Body
          /\ load' \in Loads /\ (load'.at # "idle" => load'.idx \in 1 .. Len(load'.pkg.files))
          /\ rc' \in {"ok", "fail", "none"}
      BY <1>1, <1>4, OnGoTo DEF Steps
    <2>4. TypeOK'
      BY <1>1, <2>1, <2>3, Budget DEF TypeOK
    <2>5. good[Target] # None => BackedUp(Target, good[Target])
      BY <1>1, <1>2 DEF IInv, Recoverable
    <2>6. Whole' /\ Genuine' /\ Recoverable'
      BY <1>1, <2>1, <2>2, <2>5, Replaces, BodiesAssumption
    <2>7. Safe'
      BY <1>1, <2>2, <2>3, <2>5, SameBackups DEF IInv, Safe
    <2>8. disk'[MyTemp] = Body
      BY <1>1, <1>4, Staging DEF TypeOK
    <2>9. Progress'
      BY <1>1, <1>2, <2>1, <2>2, <2>3, <2>8 DEF IInv, Kept, Safe, Progress,
        HasCand, Untouched, NoBakYet, Replacing, FreshBak, HasBak, Removed, Placed,
        Restoring, Rolling, NoBakSteps, Copying, Early, Late, Placing, RollSteps
    <2> QED BY <2>2, <2>4, <2>6, <2>7, <2>9 DEF IInv
  <1> QED BY <1>3, <1>4 DEF Swap

LEMMA DoRename ==
  ASSUME IInv, Rename
  PROVE  IInv' /\ Kept
  <1>1. load.at = "rename" /\ TypeOK /\ Target \in Dests /\ Body \in Bodies \cup {None}
        /\ (Fine \/ Mishap) /\ clock' = clock /\ side' = side
        /\ good' = good /\ newest' = newest
    BY AtWork DEF Rename, IInv, history
  <1>2. /\ disk[MyTemp] = Body /\ disk[Live(Target)] = None
        /\ good[Target] # None => BackedUp(Target, good[Target])
    BY <1>1 DEF IInv, Progress, Placed, Removed, Safe, Late
  <1>3. CASE Reject({MyTemp})
    BY <1>1, <1>3, Rejects, Staging
  <1>4. CASE Mishap /\ load.bak # None /\ disk' = disk /\ GoTo("restore")
    <2>1. Kept /\ NoNew /\ SameLive /\ Typed
      BY <1>1, <1>4, Budget DEF Kept, NoNew, SameLive, Typed, TypeOK
    <2>2. load'.at = "restore" /\ load'.bak = load.bak /\ load'.was = load.was
          /\ Target' = Target /\ load'.cand = load.cand /\ MyTemp' = MyTemp /\ Body' = Body
          /\ load' \in Loads /\ (load'.at # "idle" => load'.idx \in 1 .. Len(load'.pkg.files))
          /\ rc' \in {"ok", "fail", "none"}
      BY <1>1, <1>4, OnGoTo DEF Steps
    <2>3. mishaps' > 0
      BY <1>1, <1>4 DEF Mishap, TypeOK
    <2>4. Progress'
      BY <1>1, <1>2, <1>4, <2>2, <2>3 DEF IInv, Safe, Progress, HasCand, Untouched,
        NoBakYet, Replacing, FreshBak, HasBak, Removed, Placed, Restoring, Rolling,
        NoBakSteps, Copying, Early, Late, Placing, RollSteps
    <2>5. Safe'
      BY <1>1, <1>2, <2>1, <2>2, SameBackups DEF IInv, Safe
    <2> QED BY <1>1, <1>4, <2>1, <2>4, <2>5, Moves DEF Steps
  <1>5. ASSUME disk' = [disk EXCEPT ![Live(Target)] = disk[MyTemp], ![MyTemp] = None],
               GoTo("verify")
        PROVE  IInv' /\ Kept
    <2>1. disk' \in [Paths -> Contents] /\ disk'[Live(Target)] = Body
          /\ \A x \in Paths : x \notin {Live(Target), MyTemp} => disk'[x] = disk[x]
      BY <1>1, <1>2, <1>5, InPaths, Staging DEF TypeOK, Contents
    <2>2. Kept /\ NoNew /\ \A e \in Dests : e # Target => disk'[Live(e)] = disk[Live(e)]
      BY <1>1, <2>1, WritesLive
    <2>3. load'.at = "verify" /\ load'.bak = load.bak /\ load'.was = load.was
          /\ Target' = Target /\ load'.cand = load.cand /\ MyTemp' = MyTemp /\ Body' = Body
          /\ load' \in Loads /\ (load'.at # "idle" => load'.idx \in 1 .. Len(load'.pkg.files))
          /\ rc' \in {"ok", "fail", "none"}
      BY <1>1, <1>5, OnGoTo DEF Steps
    <2>4. TypeOK'
      BY <1>1, <2>1, <2>3, Budget DEF TypeOK
    <2>5. Body # Junk
      BY <1>1, BodiesAssumption
    <2>6. Whole' /\ Genuine' /\ Recoverable'
      BY <1>1, <1>2, <2>1, <2>2, <2>5, Replaces
    <2>7. Safe'
      BY <1>1, <1>2, <2>2, <2>3, SameBackups DEF IInv, Safe
    <2>8. Progress'
      BY <1>1, <1>2, <2>1, <2>2, <2>3 DEF IInv, Kept, Safe, Progress, HasCand,
        Untouched, NoBakYet, Replacing, FreshBak, HasBak, Removed, Placed,
        Restoring, Rolling, NoBakSteps, Copying, Early, Late, Placing, RollSteps
    <2> QED BY <2>2, <2>4, <2>6, <2>7, <2>8 DEF IInv
  <1> QED BY <1>3, <1>4, <1>5 DEF Rename

LEMMA DoVerify ==
  ASSUME IInv, Verify
  PROVE  IInv' /\ Kept
  <1>1. load.at = "verify" /\ TypeOK /\ Target \in Dests /\ Body \in Bodies \cup {None}
        /\ (Fine \/ Mishap) /\ clock' = clock /\ side' = side /\ newest' = newest
    BY AtWork DEF Verify, IInv, history
  <1>2. /\ disk[Live(Target)] = Body
        /\ good[Target] # None => BackedUp(Target, good[Target])
        /\ mishaps \in Nat
    BY <1>1, StampsAssumption DEF IInv, Progress, Placed, Safe, Late, TypeOK
  <1>3. CASE Reject({}) /\ good' = good
    BY <1>1, <1>3, Rejects
  <1>4. CASE NextFile /\ good' = [good EXCEPT ![Target] = Body]
    <2>1. good' \in [Dests -> Contents] /\ good'[Target] = Body
          /\ \A e \in Dests : e # Target => good'[e] = good[e]
      BY <1>1, <1>4 DEF TypeOK, Contents
    <2>2. /\ disk' \in [Paths -> Contents] /\ Kept /\ NoNew /\ SameLive
          /\ load' \in Loads /\ (load'.at # "idle" => load'.idx \in 1 .. Len(load'.pkg.files))
          /\ rc' \in {"ok", "fail", "none"} /\ Progress' /\ Safe'
      BY <1>1, <1>4, TurnsToNext
    <2>3. TypeOK'
      BY <1>1, <2>1, <2>2, Budget DEF TypeOK
    <2>4. Body # Junk
      BY <1>1, BodiesAssumption
    <2>5. Whole' /\ Genuine' /\ Recoverable'
      BY <1>1, <1>2, <2>1, <2>2, <2>4, Replaces DEF SameLive
    <2> QED BY <2>2, <2>3, <2>5 DEF IInv
  <1>5. ASSUME load.bak # None, disk' = [disk EXCEPT ![Live(Target)] = None], GoTo("restore"),
               good' = good, Mishap
        PROVE  IInv' /\ Kept
    <2>1. disk' \in [Paths -> Contents] /\ disk'[Live(Target)] = None
          /\ \A x \in Paths : x # Live(Target) => disk'[x] = disk[x]
      BY <1>1, <1>5, InPaths DEF TypeOK, Contents
    <2>2. Kept /\ NoNew /\ \A e \in Dests : e # Target => disk'[Live(e)] = disk[Live(e)]
      BY <1>1, <2>1, WritesLive
    <2>3. load'.at = "restore" /\ load'.bak = load.bak /\ load'.was = load.was
          /\ Target' = Target /\ load'.cand = load.cand /\ MyTemp' = MyTemp /\ Body' = Body
          /\ load' \in Loads /\ (load'.at # "idle" => load'.idx \in 1 .. Len(load'.pkg.files))
          /\ rc' \in {"ok", "fail", "none"}
      BY <1>1, <1>5, OnGoTo DEF Steps
    <2>4. TypeOK'
      BY <1>1, <1>5, <2>1, <2>3, Budget DEF TypeOK
    <2>5. Whole' /\ Genuine' /\ Recoverable'
      BY <1>1, <1>2, <1>5, <2>1, <2>2, Replaces, BodiesAssumption
    <2>6. Safe'
      BY <1>1, <1>2, <1>5, <2>2, <2>3, SameBackups DEF IInv, Safe
    <2>7. mishaps' > 0
      BY <1>2, <1>5 DEF Mishap
    <2>8. Progress'
      BY <1>1, <1>5, <2>1, <2>2, <2>3, <2>7 DEF IInv, Kept, Safe, Progress,
        HasCand, Untouched, NoBakYet, Replacing, FreshBak, HasBak, Removed, Placed,
        Restoring, Rolling, NoBakSteps, Copying, Early, Late, Placing, RollSteps
    <2> QED BY <2>2, <2>4, <2>5, <2>6, <2>8 DEF IInv
  <1> QED BY <1>2, <1>3, <1>4, <1>5 DEF Verify

LEMMA DoOpenBack ==
  ASSUME IInv, OpenBack
  PROVE  IInv' /\ Kept
  <1>1. load.at = "restore" /\ TypeOK /\ Target \in Dests /\ Body \in Bodies \cup {None}
        /\ (Fine \/ Mishap) /\ clock' = clock /\ side' = side
        /\ good' = good /\ newest' = newest
    BY AtWork DEF OpenBack, IInv, history
  <1>2. /\ load.bak \in Tokens /\ load.was # None
        /\ side[load.bak] = Target /\ disk[Bak(load.bak)] = load.was
        /\ good[Target] # None => BackedUp(Target, good[Target])
        /\ mishaps > 0
    BY <1>1 DEF IInv, Progress, HasBak, Placing, Restoring, Safe, Late
  <1>3. \E b \in Bodies : BackedUp(Target, b)
    <2>1. BackedUp(Target, load.was) /\ load.was \in Contents
      BY <1>1, <1>2 DEF BackedUp, TypeOK, Loads
    <2>2. load.was = Junk \/ load.was \in Bodies
      BY <1>2, <2>1 DEF Contents
    <2> QED BY <1>1, <2>1, <2>2 DEF IInv, Genuine
  <1>4. CASE Reject({MyTemp})
    BY <1>1, <1>4, Rejects, Staging
  <1>5. ASSUME disk' = [disk EXCEPT ![Live(Target)] = Junk], GoTo("copy_back")
        PROVE  IInv' /\ Kept
    <2>1. disk' \in [Paths -> Contents]
          /\ \A x \in Paths : x # Live(Target) => disk'[x] = disk[x]
      BY <1>1, <1>5, InPaths DEF TypeOK, Contents
    <2>2. Kept /\ NoNew /\ \A e \in Dests : e # Target => disk'[Live(e)] = disk[Live(e)]
      BY <1>1, <2>1, WritesLive
    <2>3. load'.at = "copy_back" /\ load'.bak = load.bak /\ load'.was = load.was
          /\ Target' = Target /\ load'.cand = load.cand /\ MyTemp' = MyTemp /\ Body' = Body
          /\ load' \in Loads /\ (load'.at # "idle" => load'.idx \in 1 .. Len(load'.pkg.files))
          /\ rc' \in {"ok", "fail", "none"}
      BY <1>1, <1>5, OnGoTo DEF Steps
    <2>4. TypeOK'
      BY <1>1, <2>1, <2>3, Budget DEF TypeOK
    <2>5. Whole' /\ Genuine' /\ Recoverable'
      BY <1>1, <1>2, <1>3, <2>2, Replaces
    <2>6. Safe'
      BY <1>1, <1>2, <2>2, <2>3, SameBackups DEF IInv, Safe
    <2>7. mishaps' > 0
      BY <1>1, <1>2, Budget DEF TypeOK
    <2>8. Progress'
      BY <1>1, <2>1, <2>2, <2>3, <2>7 DEF IInv, Kept, Safe, Progress, HasCand,
        Untouched, NoBakYet, Replacing, FreshBak, HasBak, Removed, Placed,
        Restoring, Rolling, NoBakSteps, Copying, Early, Late, Placing, RollSteps
    <2> QED BY <2>2, <2>4, <2>5, <2>6, <2>8 DEF IInv
  <1> QED BY <1>4, <1>5 DEF OpenBack

LEMMA DoCopyBack ==
  ASSUME IInv, CopyBack
  PROVE  IInv' /\ Kept
  <1>1. load.at = "copy_back" /\ TypeOK /\ Target \in Dests /\ Body \in Bodies \cup {None}
        /\ (Fine \/ Mishap) /\ clock' = clock /\ side' = side
        /\ good' = good /\ newest' = newest
    BY AtWork DEF CopyBack, IInv, history
  <1>2. /\ load.bak \in Tokens /\ load.was # None
        /\ side[load.bak] = Target /\ disk[Bak(load.bak)] = load.was
        /\ good[Target] # None => BackedUp(Target, good[Target])
        /\ mishaps > 0
    BY <1>1 DEF IInv, Progress, HasBak, Placing, Restoring, Safe, Late
  <1>3. \E b \in Bodies : BackedUp(Target, b)
    <2>1. BackedUp(Target, load.was) /\ load.was \in Contents
      BY <1>1, <1>2 DEF BackedUp, TypeOK, Loads
    <2>2. load.was = Junk \/ load.was \in Bodies
      BY <1>2, <2>1 DEF Contents
    <2> QED BY <1>1, <2>1, <2>2 DEF IInv, Genuine
  <1>4. /\ disk' \in [Paths -> Contents]
        /\ \A x \in Paths : x \notin {Live(Target), MyTemp, MyCand} => disk'[x] = disk[x]
        /\ Return("fail") /\ disk'[Live(Target)] \in {disk[Bak(load.bak)], None}
    <2>1. disk \in [Paths -> Contents] /\ disk[Bak(load.bak)] \in Contents /\ None \in Contents
      BY <1>1, <1>2, InPaths DEF TypeOK, Contents
    <2>2. CASE Reject({MyTemp, Live(Target)})
      BY <1>1, <2>1, <2>2, InPaths DEF Reject
    <2>3. CASE /\ disk' = [[disk EXCEPT ![Live(Target)] = disk[Bak(load.bak)]]
                               EXCEPT ![MyTemp] = None, ![MyCand] = None]
               /\ Return("fail")
      BY <1>1, <2>1, <2>3, InPaths, Staging
    <2> QED BY <2>2, <2>3 DEF CopyBack
  <1>5. Kept /\ NoNew /\ \A e \in Dests : e # Target => disk'[Live(e)] = disk[Live(e)]
    BY <1>1, <1>4, WritesLive
  <1>6. Whole' /\ Genuine' /\ Recoverable'
    BY <1>1, <1>2, <1>3, <1>5, Replaces
  <1>7. load' \in Loads /\ load'.at = "idle" /\ rc' \in {"ok", "fail", "none"}
        /\ Progress' /\ Safe'
    BY <1>4, OnReturn, BodiesAssumption
  <1>8. TypeOK'
    BY <1>1, <1>4, <1>7, Budget DEF TypeOK
  <1> QED BY <1>5, <1>6, <1>7, <1>8 DEF IInv

LEMMA DoStartRollback ==
  ASSUME IInv, NEW d \in Dests, StartRollback(d)
  PROVE  IInv' /\ Kept
  <1>1. TypeOK /\ side' = side /\ newest' = newest /\ clock' = clock /\ rc' = "none"
        /\ (Fine \/ Mishap)
    BY DEF StartRollback, IInv
  <1>2. PICK t \in Tokens :
          /\ side[t] = d /\ disk[Bak(t)] # None
          /\ disk' = [disk EXCEPT ![Live(d)] = None] \/ disk' = disk
          /\ good' = [good EXCEPT ![d] = disk[Bak(t)]]
          /\ load' = [Idle EXCEPT !.at = "open_roll", !.bak = t, !.idx = 1,
                        !.pkg = [rel |-> 0, files |-> <<[dest |-> d, body |-> None]>>]]
    BY DEF StartRollback
  <1>3. disk' \in [Paths -> Contents] /\ disk'[Live(d)] \in {disk[Live(d)], None}
        /\ \A x \in Paths : x # Live(d) => disk'[x] = disk[x]
    BY <1>1, <1>2, InPaths DEF TypeOK, Contents
  <1>4. Kept /\ NoNew /\ \A e \in Dests : e # d => disk'[Live(e)] = disk[Live(e)]
    BY <1>1, <1>3, WritesLive
  <1>5. good' \in [Dests -> Contents] /\ good'[d] = disk[Bak(t)]
        /\ \A e \in Dests : e # d => good'[e] = good[e]
    BY <1>1, <1>2, InPaths DEF TypeOK
  <1>6. BackedUp(d, good'[d])
    BY <1>2, <1>5 DEF BackedUp
  <1>7. disk'[Live(d)] = Junk => \E b \in Bodies : BackedUp(d, b)
    BY <1>3, BodiesAssumption DEF IInv, Genuine
  <1>8. Whole' /\ Genuine' /\ Recoverable'
    BY <1>4, <1>5, <1>6, <1>7, Replaces
  <1>9. load' \in Loads /\ load'.at = "open_roll" /\ load'.bak = t /\ load'.idx = 1
        /\ load'.pkg.files = <<[dest |-> d, body |-> None]>>
    <2>1. <<[dest |-> d, body |-> None]>> \in Seq([dest : Dests, body : Bodies \cup {None}])
      OBVIOUS
    <2> QED BY <1>2, <2>1 DEF Idle, Loads, Steps, Contents
  <1>10. TypeOK'
    BY <1>1, <1>3, <1>5, <1>9, Budget DEF TypeOK
  <1>11. Target' = d
    BY <1>9 DEF Target
  <1>12. disk'[Bak(t)] = disk[Bak(t)]
    BY <1>2, <1>4 DEF Kept
  <1>13. Progress' /\ Safe'
    BY <1>1, <1>2, <1>5, <1>9, <1>11, <1>12 DEF Safe, Progress, HasCand, Untouched,
      NoBakYet, Replacing, FreshBak, HasBak, Removed, Placed, Restoring, Rolling,
      NoBakSteps, Copying, Early, Late, Placing, RollSteps
  <1> QED BY <1>4, <1>8, <1>10, <1>13 DEF IInv

LEMMA DoOpenRoll ==
  ASSUME IInv, OpenRoll
  PROVE  IInv' /\ Kept
  <1>1. load.at = "open_roll" /\ TypeOK /\ Target \in Dests /\ Body \in Bodies \cup {None}
        /\ (Fine \/ Mishap) /\ clock' = clock /\ side' = side
        /\ good' = good /\ newest' = newest
    BY AtWork DEF OpenRoll, IInv, history
  <1>2. /\ load.bak \in Tokens /\ side[load.bak] = Target
        /\ disk[Bak(load.bak)] = good[Target] /\ BackedUp(Target, good[Target])
        /\ good[Target] # None
    BY <1>1 DEF IInv, Progress, Rolling, RollSteps, BackedUp, Whole
  <1>3. \E b \in Bodies : BackedUp(Target, b)
    <2>1. good[Target] = Junk \/ good[Target] \in Bodies
      BY <1>1, <1>2 DEF Contents, TypeOK
    <2> QED BY <1>1, <1>2, <2>1 DEF IInv, Genuine
  <1>4. CASE disk' = disk /\ Return("fail")
    <2>1. Kept /\ NoNew /\ SameLive /\ Typed
      BY <1>1, <1>4, Budget DEF Kept, NoNew, SameLive, Typed, TypeOK
    <2> QED BY <1>1, <1>4, <2>1, Ends
  <1>5. ASSUME disk' = [disk EXCEPT ![Live(Target)] = Junk], GoTo("copy_roll")
        PROVE  IInv' /\ Kept
    <2>1. disk' \in [Paths -> Contents]
          /\ \A x \in Paths : x # Live(Target) => disk'[x] = disk[x]
      BY <1>1, <1>5, InPaths DEF TypeOK, Contents
    <2>2. Kept /\ NoNew /\ \A e \in Dests : e # Target => disk'[Live(e)] = disk[Live(e)]
      BY <1>1, <2>1, WritesLive
    <2>3. load'.at = "copy_roll" /\ load'.bak = load.bak /\ load'.was = load.was
          /\ Target' = Target /\ load'.cand = load.cand /\ MyTemp' = MyTemp /\ Body' = Body
          /\ load' \in Loads /\ (load'.at # "idle" => load'.idx \in 1 .. Len(load'.pkg.files))
          /\ rc' \in {"ok", "fail", "none"}
      BY <1>1, <1>5, OnGoTo DEF Steps
    <2>4. TypeOK'
      BY <1>1, <2>1, <2>3, Budget DEF TypeOK
    <2>5. Whole' /\ Genuine' /\ Recoverable'
      BY <1>1, <1>2, <1>3, <2>2, Replaces
    <2>6. Progress' /\ Safe'
      BY <1>1, <1>2, <2>2, <2>3 DEF Kept, Safe, Progress, HasCand, Untouched,
        NoBakYet, Replacing, FreshBak, HasBak, Removed, Placed, Restoring, Rolling,
        NoBakSteps, Copying, Early, Late, Placing, RollSteps
    <2> QED BY <2>2, <2>4, <2>5, <2>6 DEF IInv
  <1> QED BY <1>4, <1>5 DEF OpenRoll

LEMMA DoCopyRoll ==
  ASSUME IInv, CopyRoll
  PROVE  IInv' /\ Kept
  <1>1. load.at = "copy_roll" /\ TypeOK /\ Target \in Dests /\ Body \in Bodies \cup {None}
        /\ (Fine \/ Mishap) /\ clock' = clock /\ side' = side
        /\ good' = good /\ newest' = newest
    BY AtWork DEF CopyRoll, IInv, history
  <1>2. /\ load.bak \in Tokens /\ side[load.bak] = Target
        /\ disk[Bak(load.bak)] = good[Target] /\ BackedUp(Target, good[Target])
        /\ good[Target] # None
    BY <1>1 DEF IInv, Progress, Rolling, RollSteps, BackedUp, Whole
  <1>3. \E b \in Bodies : BackedUp(Target, b)
    <2>1. good[Target] = Junk \/ good[Target] \in Bodies
      BY <1>1, <1>2 DEF Contents, TypeOK
    <2> QED BY <1>1, <1>2, <2>1 DEF IInv, Genuine
  <1>4. disk[Bak(load.bak)] \in Contents /\ None \in Contents
    BY <1>1, <1>2, InPaths DEF TypeOK, Contents
  <1>5. /\ disk' \in [Paths -> Contents] /\ disk'[Live(Target)] \in {disk[Bak(load.bak)], None}
        /\ \A x \in Paths : x # Live(Target) => disk'[x] = disk[x]
    BY <1>1, <1>4, InPaths DEF TypeOK, CopyRoll
  <1>6. Kept /\ NoNew /\ \A e \in Dests : e # Target => disk'[Live(e)] = disk[Live(e)]
    BY <1>1, <1>5, WritesLive
  <1>7. Whole' /\ Genuine' /\ Recoverable'
    BY <1>1, <1>2, <1>3, <1>6, Replaces
  <1>8. load' \in Loads /\ load'.at = "idle" /\ rc' \in {"ok", "fail", "none"}
        /\ Progress' /\ Safe'
    BY OnReturn, BodiesAssumption DEF CopyRoll
  <1>9. TypeOK'
    BY <1>1, <1>5, <1>8, Budget DEF TypeOK
  <1> QED BY <1>6, <1>7, <1>8, <1>9 DEF IInv

LEMMA DoTick ==
  ASSUME IInv, Tick
  PROVE  IInv' /\ Kept
  <1>1. disk' = disk /\ side' = side /\ good' = good /\ newest' = newest /\ load' = load
        /\ rc' = rc /\ mishaps' = mishaps /\ TypeOK
    BY DEF Tick, history, IInv
  <1>2. clock' \in 0 .. MaxClock
    BY <1>1, StampsAssumption DEF Tick, TypeOK
  <1>3. TypeOK'
    BY <1>1, <1>2 DEF TypeOK
  <1>4. Kept /\ NoNew /\ SameLive
    BY <1>1 DEF Kept, NoNew, SameLive
  <1>5. Progress' /\ Safe'
    BY <1>1 DEF IInv, Target, Body, MyTemp, BackedUp, Safe, Progress, HasCand,
      Untouched, NoBakYet, Replacing, FreshBak, HasBak, Removed, Placed, Restoring,
      Rolling, NoBakSteps, Copying, Early, Late, Placing, RollSteps
  <1> QED BY <1>1, <1>3, <1>4, <1>5, Quiet DEF IInv

LEMMA DoReset ==
  ASSUME IInv, Reset
  PROVE  IInv' /\ Kept
  <1>1. disk' = disk /\ side' = side /\ good' = good /\ newest' = newest /\ clock' = clock
        /\ Mishap /\ Return("none") /\ TypeOK
    BY DEF Reset, history, IInv
  <1>2. Kept /\ NoNew /\ SameLive /\ Typed
    BY <1>1, Budget DEF Kept, NoNew, SameLive, Typed, TypeOK
  <1> QED BY <1>1, <1>2, Ends

----------------------------------------------------------------------------
(* The invariant of the specification.                                      *)
LEMMA Initially ==
  ASSUME Init
  PROVE  IInv
  <1>1. PICK live \in Installed :
          /\ disk = [x \in Paths |-> IF x[1] = "live" THEN live[x[2]] ELSE None]
          /\ good = live
    BY DEF Init
  <1>2. /\ side = [t \in Tokens |-> None] /\ clock = 0 /\ load = Idle /\ rc = "none"
        /\ mishaps = 0 /\ newest = [d \in Dests |-> None]
    BY DEF Init
  <1>3. live \in [Dests -> Bodies \cup {None}]
    BY BodiesAssumption
  <1>4. \A d \in Dests : disk[Live(d)] = live[d]
    BY <1>1, InPaths DEF Live
  <1>5. disk \in [Paths -> Contents]
    <2> SUFFICES ASSUME NEW x \in Paths
                 PROVE  (IF x[1] = "live" THEN live[x[2]] ELSE None) \in Contents
      BY <1>1
    <2>1. x[1] = "live" => x[2] \in Dests
      BY DEF Paths, Live, Cand, Bak, Temp
    <2> QED BY <1>3, <2>1 DEF Contents
  <1>6. load \in Loads /\ load.at = "idle"
    <2>1. << >> \in Seq([dest : Dests, body : Bodies \cup {None}])
      OBVIOUS
    <2> QED BY <1>2, <2>1 DEF Idle, Loads, Steps, Contents
  <1>7. TypeOK
    BY <1>1, <1>2, <1>3, <1>5, <1>6, StampsAssumption DEF TypeOK, Contents
  <1>8. Progress /\ Safe
    BY <1>6 DEF Safe, Progress, HasCand, Untouched, NoBakYet, Replacing, FreshBak,
      HasBak, Removed, Placed, Restoring, Rolling, NoBakSteps, Copying, Early,
      Late, Placing, RollSteps
  <1>9. \A t \in Tokens : side[t] \notin Dests
    BY <1>2, BodiesAssumption
  <1>10. Whole /\ Genuine /\ Recoverable
    <2>1. Whole /\ Recoverable
      BY <1>1, <1>4, <1>9 DEF Whole, Recoverable
    <2>2. \A d \in Dests : disk[Live(d)] # Junk /\ ~BackedUp(d, Junk)
      BY <1>3, <1>4, <1>9, BodiesAssumption DEF BackedUp
    <2> QED BY <2>1, <2>2 DEF Genuine
  <1> QED BY <1>7, <1>8, <1>10 DEF IInv

LEMMA Step ==
  ASSUME IInv, Next
  PROVE  IInv' /\ Kept
  <1>1. CASE \E p \in Packages, f \in BOOLEAN : StartInstall(p, f)
    BY <1>1, DoStartInstall
  <1>2. CASE Install
    BY <1>2, DoTakeToken, DoOpenCand, DoWriteCand, DoGate, DoOpenBak, DoCopyBak,
      DoOpenSide, DoWriteSide, DoOpenTemp, DoCopyTemp, DoSwap, DoRename, DoVerify,
      DoOpenBack, DoCopyBack DEF Install
  <1>3. CASE \E d \in Dests : StartRollback(d)
    BY <1>3, DoStartRollback
  <1> QED BY <1>1, <1>2, <1>3, DoOpenRoll, DoCopyRoll, DoTick, DoReset DEF Next

LEMMA Stutter ==
  ASSUME IInv, UNCHANGED vars
  PROVE  IInv' /\ Kept
  <1> USE DEF vars
  <1>1. TypeOK' /\ Kept
    BY DEF IInv, TypeOK, Kept
  <1>2. Target' = Target /\ Body' = Body /\ MyTemp' = MyTemp
        /\ \A d, c : BackedUp(d, c)' <=> BackedUp(d, c)
    BY DEF Target, Body, MyTemp, BackedUp
  <1>3. Safe' /\ Whole' /\ Genuine' /\ Recoverable'
    BY <1>2 DEF IInv, Safe, Whole, Genuine, Recoverable
  <1>4. HasCand' /\ Untouched' /\ NoBakYet' /\ Replacing' /\ FreshBak'
    BY <1>2 DEF IInv, Progress, HasCand, Untouched, NoBakYet, Replacing, FreshBak
  <1>5. HasBak' /\ Removed' /\ Placed' /\ Restoring' /\ Rolling'
    BY <1>2 DEF IInv, Progress, HasBak, Removed, Placed, Restoring, Rolling
  <1> QED BY <1>1, <1>3, <1>4, <1>5 DEF IInv, Progress

(* The invariant holds throughout: what Load holds of the old file matches  *)
(* where it is in replacing it.                                             *)
THEOREM LoadInvariance == Spec => []IInv
  <1>1. IInv /\ [Next]_vars => IInv'
    BY Step, Stutter
  <1> QED BY Initially, <1>1, PTL DEF Spec

(* A file that a completed Load left at a destination is there or can be    *)
(* rolled back to, whatever failed and whenever the machine was reset: the  *)
(* backup is complete, sidecar included, before load_place_file deletes.    *)
THEOREM NothingIsLost == Spec => []Recoverable
  BY LoadInvariance, PTL DEF IInv

(* Fragments stand at a destination only beside a whole backup of it.       *)
THEOREM FragmentsCovered == Spec => []FragmentsAreCovered
  <1>1. IInv => FragmentsAreCovered
    BY DEF IInv, Genuine, FragmentsAreCovered
  <1> QED BY <1>1, LoadInvariance, PTL

(* No step touches a complete backup: load_alloc_token gives out no token   *)
(* that has a copy or a sidecar, and only its own run writes under it.      *)
THEOREM BackupsKept == Spec => BackupsAreKept
  <1>1. IInv /\ [Next]_vars =>
          [\A t \in Tokens : side[t] \in Dests =>
             side'[t] = side[t] /\ disk'[Bak(t)] = disk[Bak(t)]]_vars
    BY Step DEF Kept
  <1> QED BY <1>1, LoadInvariance, PTL DEF Spec, BackupsAreKept

(* While Load runs it has returned nothing, and at rest it holds nothing.   *)
Running == /\ load.at # "idle" => rc = "none"
           /\ load.at = "idle" => load.was = None

LEMMA RunningStep ==
  ASSUME TypeOK, Running, [Next]_vars
  PROVE  Running'
  <1>1. ASSUME NEW code, Return(code) PROVE Running'
    BY <1>1 DEF Return, Idle, Running
  <1>2. ASSUME NEW s \in Steps \ {"idle"}, load.at # "idle", GoTo(s) PROVE Running'
    BY <1>2, OnGoTo DEF Running, GoTo
  <1>3. ASSUME NEW also, Reject(also) PROVE Running'
    BY <1>1, <1>3 DEF Reject
  <1>4. ASSUME NextFile, load.at # "idle" PROVE Running'
    <2>1. CASE Return("ok")
      BY <1>1, <2>1
    <2>2. CASE load'.at = "token" /\ rc' = rc
      BY <1>4, <2>2 DEF Running
    <2>3. load \in Loads
      BY DEF TypeOK
    <2> QED BY <1>4, <2>1, <2>2, <2>3 DEF NextFile, Loads
  <1>5. CASE \E p \in Packages, g \in BOOLEAN : StartInstall(p, g)
    BY <1>5 DEF StartInstall, Running
  <1>6. CASE TakeToken
    <2>1. CASE Return("fail")
      BY <1>1, <2>1
    <2>2. ASSUME NEW t \in Tokens, load' = [load EXCEPT !.at = "open_cand", !.cand = t], rc' = rc
          PROVE  Running'
      BY <1>6, <2>2 DEF Running, TypeOK, Loads, TakeToken
    <2> QED BY <1>6, <2>1, <2>2 DEF TakeToken
  <1>7. CASE OpenBak
    <2>1. CASE Reject({})
      BY <1>3, <2>1
    <2>2. ASSUME NEW t \in Tokens, load' = [load EXCEPT !.at = "copy_bak", !.bak = t], rc' = rc
          PROVE  Running'
      BY <1>7, <2>2 DEF Running, TypeOK, Loads, OpenBak
    <2> QED BY <1>7, <2>1, <2>2 DEF OpenBak
  <1>8. CASE Gate
    BY <1>2, <1>3, <1>4, <1>8 DEF Gate, Steps
  <1>9. CASE OpenCand \/ WriteCand \/ CopyBak \/ OpenSide \/ WriteSide
    BY <1>1, <1>2, <1>3, <1>9 DEF OpenCand, WriteCand, CopyBak, OpenSide,
      WriteSide, Steps
  <1>10. CASE OpenTemp \/ CopyTemp \/ Swap \/ Rename
    BY <1>2, <1>3, <1>10 DEF OpenTemp, CopyTemp, Swap, Rename, Steps
  <1>11. CASE Verify
    BY <1>2, <1>3, <1>4, <1>11 DEF Verify, Steps
  <1>12. CASE OpenBack \/ CopyBack
    BY <1>1, <1>2, <1>3, <1>12 DEF OpenBack, CopyBack, Steps
  <1>13. CASE \E d \in Dests : StartRollback(d)
    BY <1>13 DEF StartRollback, Idle, Running
  <1>14. CASE OpenRoll \/ CopyRoll
    BY <1>1, <1>2, <1>14 DEF OpenRoll, CopyRoll, Steps
  <1>15. CASE Tick \/ UNCHANGED vars
    BY <1>15 DEF Tick, vars, Running
  <1>16. CASE Reset
    BY <1>1, <1>16 DEF Reset
  <1> QED BY <1>5, <1>6, <1>7, <1>8, <1>9, <1>10, <1>11, <1>12, <1>13, <1>14,
    <1>15, <1>16
    DEF Next, Install

(* What is at the destination when Load gives up on replacing the file.     *)
LEMMA GivesUp ==
  ASSUME IInv, Running, [Next]_vars, rc' = "fail", load.at \notin RollSteps, load.was # None
  PROVE  \/ disk'[Live(Target)] = load.was
         \/ disk'[Live(Target)] = None /\ mishaps' > 1
  <1>1. load.at # "idle" /\ rc = "none" /\ TypeOK /\ Target \in Dests /\ load \in Loads
    BY AtWork DEF Running, IInv, TypeOK
  <1>2. \A s : ~GoTo(s)
    BY <1>1 DEF GoTo
  <1>3. ~NextFile
    BY <1>1 DEF NextFile, Return
  <1>4. load.at \in Early => disk[Live(Target)] = load.was
    BY DEF IInv, Progress, Untouched
  <1>5. ASSUME NEW also, Reject(also), also \subseteq {MyTemp, Bak(load.bak)}
        PROVE  disk'[Live(Target)] = disk[Live(Target)]
    BY <1>1, <1>5, InPaths, Distinct, Staging DEF Reject
  <1>6. load.at \in Placing =>
          load.bak \in Tokens /\ load.bak # None /\ disk[Bak(load.bak)] = load.was
    BY TokensAssumption DEF IInv, Progress, HasBak
  <1>7. CASE TakeToken \/ OpenCand
    BY <1>1, <1>2, <1>4, <1>7 DEF TakeToken, OpenCand, Early, NoBakSteps
  <1>8. CASE WriteCand \/ Gate \/ OpenBak \/ CopyBak \/ OpenSide \/ WriteSide
    <2>1. load.at \in Early
      BY <1>8 DEF WriteCand, Gate, OpenBak, CopyBak, OpenSide, WriteSide, Early,
        NoBakSteps, Copying
    <2>2. Reject({}) \/ Reject({Bak(load.bak)})
      BY <1>1, <1>2, <1>3, <1>8 DEF WriteCand, Gate, OpenBak, CopyBak, OpenSide,
        WriteSide
    <2> QED BY <1>4, <1>5, <2>1, <2>2
  <1>9. CASE OpenTemp \/ CopyTemp \/ Swap
    <2>1. load.at \in Early
      BY <1>9 DEF OpenTemp, CopyTemp, Swap, Early
    <2>2. Reject({}) \/ Reject({MyTemp})
      BY <1>2, <1>9 DEF OpenTemp, CopyTemp, Swap
    <2> QED BY <1>4, <1>5, <2>1, <2>2
  <1>10. CASE Rename \/ Verify
    BY <1>2, <1>3, <1>6, <1>10 DEF Rename, Verify, Placing, Late
  <1>11. CASE OpenBack
    <2>1. disk[Live(Target)] = None /\ mishaps > 0 /\ mishaps \in Nat
      BY <1>1, <1>11, StampsAssumption DEF OpenBack, IInv, Progress, Removed,
        Restoring, TypeOK
    <2>2. Mishap /\ Reject({MyTemp})
      BY <1>2, <1>11 DEF OpenBack
    <2> QED BY <1>5, <2>1, <2>2 DEF Mishap
  <1>12. CASE CopyBack
    <2>1. disk[Bak(load.bak)] = load.was /\ mishaps > 0 /\ mishaps \in Nat
      BY <1>1, <1>6, <1>12, StampsAssumption DEF CopyBack, IInv, Progress,
        Restoring, TypeOK, Placing, Late
    <2>2. CASE Mishap /\ Reject({MyTemp, Live(Target)})
      <3>1. disk'[Live(Target)] = None
        BY <1>1, <2>2, InPaths DEF Reject
      <3>2. mishaps' > 1
        BY <2>1, <2>2 DEF Mishap
      <3> QED BY <3>1, <3>2
    <2>3. CASE disk' = [[disk EXCEPT ![Live(Target)] = disk[Bak(load.bak)]]
                            EXCEPT ![MyTemp] = None, ![MyCand] = None]
      BY <1>1, <2>1, <2>3, InPaths, Staging DEF TypeOK
    <2> QED BY <1>12, <2>2, <2>3 DEF CopyBack
  <1>13. ~\E p \in Packages, g \in BOOLEAN : StartInstall(p, g)
    BY <1>1 DEF StartInstall
  <1>14. ~\E d \in Dests : StartRollback(d)
    BY <1>1 DEF StartRollback
  <1>15. ~OpenRoll /\ ~CopyRoll
    BY DEF OpenRoll, CopyRoll, RollSteps
  <1>16. ~Tick /\ ~Reset /\ ~UNCHANGED vars
    BY <1>1 DEF Tick, Reset, Return, vars
  <1> QED BY <1>7, <1>8, <1>9, <1>10, <1>11, <1>12, <1>13, <1>14, <1>15, <1>16 DEF
    Next, Install

(* A Load that gives up on replacing a file leaves the old one in place, or *)
(* none after a second mishap, and never the new one.                       *)
THEOREM FailuresRestore == Spec => FailureRestores
  <1>1. Init => Running
    BY DEF Init, Idle, Running
  <1>2. IInv /\ Running /\ [Next]_vars => Running'
    BY RunningStep DEF IInv
  <1>3. IInv /\ Running /\ [Next]_vars =>
          [rc' = "fail" /\ load.at \notin RollSteps /\ load.was # None =>
             \/ disk'[Live(Target)] = load.was
             \/ disk'[Live(Target)] = None /\ mishaps' > 1]_vars
    BY GivesUp
  <1> QED BY <1>1, <1>2, <1>3, LoadInvariance, PTL DEF Spec, FailureRestores
----------------------------------------------------------------------------
(* What Load has made of a file of its package that it is done with.        *)
Settled(f) ==
  LET now == disk[Live(f.dest)]
  IN \/ now = f.body
     \/ /\ ~load.force /\ now # None
        /\ now \in Bodies => /\ Version[now].rel >= load.pkg.rel
                             /\ mishaps = 0 => ~Newer(Version[f.body], Version[now])

AtRest    == {"idle"} \cup RollSteps
Resting   == load.at = "idle" => load.pkg.files = << >>
Selected  == load.at \notin AtRest => load.pkg \in Packages
SettledUp == load.at \notin AtRest =>
               \A i \in 1 .. load.idx - 1 : Settled(load.pkg.files[i])
Unspoilt  == load.at = "gate" /\ mishaps = 0 => disk[MyCand] = Body
Orderly   == Resting /\ Selected /\ SettledUp /\ Unspoilt

(* The files of a package go to places of their own.                        *)
LEMMA Apart ==
  ASSUME TypeOK, Selected, load.at \notin AtRest
  PROVE  /\ load.idx \in 1 .. Len(load.pkg.files) /\ load.idx \in Nat
         /\ Len(load.pkg.files) \in Nat
         /\ \A i \in 1 .. Len(load.pkg.files) :
              /\ load.pkg.files[i] \in Files
              /\ load.pkg.files[i].dest = Target => i = load.idx
         /\ Body \in Bodies /\ load.pkg.rel \in Nat /\ load.cand \in Tokens \cup {None}
  <1>1. load.pkg \in Packages /\ load.idx \in 1 .. Len(load.pkg.files)
        /\ load.cand \in Tokens \cup {None}
    BY DEF TypeOK, Selected, AtRest, Loads
  <1>2. load.pkg.files \in Seq(Files) /\ load.pkg.rel \in Nat
    BY <1>1, PackagesAssumption
  <1>3. Len(load.pkg.files) \in Nat /\ DOMAIN load.pkg.files = 1 .. Len(load.pkg.files)
    BY <1>2, LenProperties
  <1>4. \A i \in 1 .. Len(load.pkg.files) : load.pkg.files[i] \in Files
    BY <1>2, ElementOfSeq
  <1>5. \A i \in 1 .. Len(load.pkg.files) :
          load.pkg.files[i].dest = load.pkg.files[load.idx].dest => i = load.idx
    BY <1>1, <1>3, PackagesAssumption
  <1> QED BY <1>1, <1>2, <1>3, <1>4, <1>5 DEF Target, Body, Files

(* A file stays settled when its destination does and mishaps only add up.  *)
LEMMA StaysSettled ==
  ASSUME TypeOK, NEW f, Settled(f), disk'[Live(f.dest)] = disk[Live(f.dest)],
         load'.force = load.force, load'.pkg = load.pkg, Fine \/ Mishap
  PROVE  Settled(f)'
  <1>1. mishaps' = 0 => mishaps = 0
    BY DEF Fine, Mishap, TypeOK
  <1> QED BY <1>1 DEF Settled

(* While Load installs, it ends, turns to its next file or goes on with     *)
(* this one, and writes to no other file's destination.                     *)
Elsewhere == \A e \in Dests : e # Target => disk'[Live(e)] = disk[Live(e)]
Goes == /\ load'.at \notin AtRest /\ load'.pkg = load.pkg /\ load'.idx = load.idx
        /\ load'.force = load.force /\ rc' = rc

LEMMA Spares ==
  ASSUME TypeOK, NEW e \in Dests, e # Target, NEW S,
         S \subseteq {MyCand, MyTemp, Live(Target)} \cup {Bak(t) : t \in Tokens}
  PROVE  Live(e) \in Paths /\ Live(e) \notin S
  BY Distinct, Staging, InPaths

LEMMA InstallGoes ==
  ASSUME TypeOK, HasCand, HasBak, FreshBak, Install
  PROVE  /\ load.at \notin AtRest /\ (Fine \/ Mishap)
         /\ \/ NextFile /\ load.at \in {"gate", "verify"}
            \/ Return("fail")
            \/ Goes
         /\ Elsewhere
  <1>1. ASSUME NEW also, Reject(also),
               also \subseteq {MyTemp, Live(Target)} \cup {Bak(t) : t \in Tokens}
        PROVE  Return("fail") /\ Elsewhere
    <2>1. \A e \in Dests : e # Target => Live(e) \in Paths /\ Live(e) \notin {MyCand} \cup also
      BY <1>1, Spares
    <2> QED BY <1>1, <2>1 DEF Reject, Elsewhere
  <1>2. ASSUME NEW s \in Steps \ AtRest, GoTo(s)
        PROVE  Goes
    BY <1>2 DEF GoTo, Goes, TypeOK, Loads
  <1>3. ASSUME NEW x, NEW c, disk' = [disk EXCEPT ![x] = c],
               x \in {MyCand, MyTemp, Live(Target)} \cup {Bak(t) : t \in Tokens}
        PROVE  Elsewhere
    <2>1. \A e \in Dests : e # Target => Live(e) \in Paths /\ Live(e) \notin {x}
      BY <1>3, Spares
    <2>2. disk \in [Paths -> Contents]
      BY DEF TypeOK
    <2> QED BY <1>3, <2>1, <2>2 DEF Elsewhere
  <1>4. disk' = disk => Elsewhere
    BY DEF Elsewhere
  <1>5. ASSUME NextFile
        PROVE  Elsewhere
    BY <1>3, <1>5 DEF NextFile
  <1>6. load.at \in Copying \cup Placing /\ load.bak # None => load.bak \in Tokens
    BY DEF HasBak, FreshBak
  <1>7. CASE TakeToken
    <2>1. ASSUME NEW t \in Tokens, load' = [load EXCEPT !.at = "open_cand", !.cand = t], rc' = rc
          PROVE  Goes
      BY <2>1 DEF Goes, TypeOK, Loads, AtRest, RollSteps
    <2> QED BY <1>4, <1>7, <2>1 DEF TakeToken, AtRest, RollSteps
  <1>8. CASE OpenCand
    BY <1>2, <1>3, <1>4, <1>8 DEF OpenCand, AtRest, RollSteps, Steps
  <1>9. CASE WriteCand
    BY <1>1, <1>2, <1>3, <1>4, <1>9 DEF WriteCand, AtRest, RollSteps, Steps
  <1>10. CASE Gate
    BY <1>1, <1>2, <1>4, <1>5, <1>10 DEF Gate, AtRest, RollSteps, Steps
  <1>11. CASE OpenBak
    <2>1. ASSUME NEW t \in Tokens, load' = [load EXCEPT !.at = "copy_bak", !.bak = t], rc' = rc
          PROVE  Goes
      BY <2>1 DEF Goes, TypeOK, Loads, AtRest, RollSteps
    <2> QED BY <1>1, <1>3, <1>11, <2>1 DEF OpenBak, AtRest, RollSteps
  <1>12. CASE CopyBak
    <2>1. load.at \in Copying /\ load.bak \in Tokens
      BY <1>12 DEF CopyBak, FreshBak, Copying
    <2> QED BY <1>1, <1>2, <1>3, <1>12, <2>1 DEF CopyBak, AtRest, RollSteps, Steps
  <1>13. CASE OpenSide \/ WriteSide
    <2>1. load.at \in Copying /\ load.bak \in Tokens
      BY <1>13 DEF OpenSide, WriteSide, FreshBak, Copying
    <2> QED BY <1>1, <1>2, <1>4, <1>13, <2>1 DEF OpenSide, WriteSide, AtRest, RollSteps, Steps
  <1>14. CASE OpenTemp \/ CopyTemp
    BY <1>1, <1>2, <1>3, <1>4, <1>14 DEF OpenTemp, CopyTemp, AtRest, RollSteps, Steps
  <1>15. CASE Swap
    BY <1>1, <1>2, <1>3, <1>15 DEF Swap, AtRest, RollSteps, Steps
  <1>16. CASE Rename
    <2>1. CASE Fine /\ GoTo("verify")
               /\ disk' = [disk EXCEPT ![Live(Target)] = disk[MyTemp], ![MyTemp] = None]
      <3>1. \A e \in Dests : e # Target => Live(e) \in Paths /\ Live(e) \notin {Live(Target), MyTemp}
        BY Spares
      <3>2. disk \in [Paths -> Contents]
        BY DEF TypeOK
      <3>3. Elsewhere
        BY <2>1, <3>1, <3>2 DEF Elsewhere
      <3> QED BY <1>2, <1>16, <2>1, <3>3 DEF Rename, AtRest, RollSteps, Steps
    <2>2. CASE Mishap /\ ((GoTo("restore") /\ disk' = disk) \/ Reject({MyTemp}))
      BY <1>1, <1>2, <1>4, <1>16, <2>2 DEF Rename, AtRest, RollSteps, Steps
    <2> QED BY <1>16, <2>1, <2>2 DEF Rename
  <1>17. CASE Verify
    BY <1>1, <1>2, <1>3, <1>5, <1>17 DEF Verify, AtRest, RollSteps, Steps
  <1>18. CASE OpenBack
    BY <1>1, <1>2, <1>3, <1>18 DEF OpenBack, AtRest, RollSteps, Steps
  <1>19. CASE CopyBack
    <2>1. CASE Fine /\ Return("fail")
               /\ disk' = [[disk EXCEPT ![Live(Target)] = disk[Bak(load.bak)]]
                               EXCEPT ![MyTemp] = None, ![MyCand] = None]
      <3>1. \A e \in Dests : e # Target =>
              Live(e) \in Paths /\ Live(e) \notin {Live(Target), MyTemp, MyCand}
        BY Spares
      <3>2. disk \in [Paths -> Contents]
        BY DEF TypeOK
      <3>3. Elsewhere
        BY <2>1, <3>1, <3>2 DEF Elsewhere
      <3> QED BY <1>19, <2>1, <3>3 DEF CopyBack, AtRest, RollSteps
    <2>2. CASE Mishap /\ Reject({MyTemp, Live(Target)})
      BY <1>1, <1>19, <2>2 DEF CopyBack, AtRest, RollSteps
    <2> QED BY <1>19, <2>1, <2>2 DEF CopyBack
  <1> QED BY <1>7, <1>8, <1>9, <1>10, <1>11, <1>12, <1>13, <1>14, <1>15, <1>16,
    <1>17, <1>18, <1>19 DEF Install

(* Load turns to its next file only when the one it leaves is settled.      *)
LEMMA LeavesSettled ==
  ASSUME TypeOK, HasCand, Selected, Unspoilt, Gate \/ Verify, NextFile
  PROVE  LET f == load.pkg.files[load.idx]
             now == disk'[Live(f.dest)]
         IN \/ now = f.body
            \/ /\ ~load.force /\ now # None
               /\ now \in Bodies =>
                    /\ Version[now].rel >= load.pkg.rel
                    /\ mishaps' = 0 => ~Newer(Version[f.body], Version[now])
  <1>1. load.at \notin AtRest
    BY DEF Gate, Verify, AtRest, RollSteps
  <1>2. ~Return("fail") /\ \A s \in {"place", "backup", "restore"} : ~GoTo(s)
    <2>1. load \in Loads
      BY DEF TypeOK
    <2>2. (load'.at = "idle" /\ rc' = "ok") \/ load'.at = "token"
      <3>1. CASE load.idx = Len(load.pkg.files)
        BY <3>1 DEF NextFile, Return, Idle
      <3>2. CASE load.idx # Len(load.pkg.files)
        BY <2>1, <3>2 DEF NextFile, Loads
      <3> QED BY <3>1, <3>2
    <2>3. \A s \in {"place", "backup", "restore"} : GoTo(s) => load'.at = s
      BY <2>1 DEF GoTo, Loads
    <2>4. Return("fail") => load'.at = "idle" /\ rc' = "fail"
      BY DEF Return, Idle
    <2> QED BY <2>2, <2>3, <2>4
  <1>3. \A also : ~Reject(also)
    BY <1>2 DEF Reject
  <1>4. Target \in Dests /\ Body \in Bodies /\ load.pkg.rel \in Nat /\ disk \in [Paths -> Contents]
        /\ Target = load.pkg.files[load.idx].dest /\ Body = load.pkg.files[load.idx].body
    BY <1>1, Apart, AtWork DEF AtRest, TypeOK, Target, Body
  <1>5. disk'[Live(Target)] = disk[Live(Target)]
    BY <1>4, Staging, InPaths DEF NextFile
  <1>6. CASE Verify
    BY <1>2, <1>3, <1>4, <1>5, <1>6 DEF Verify
  <1>7. CASE Gate
    <2>1. Fine /\ load.at = "gate"
      BY <1>2, <1>3, <1>7 DEF Gate
    <2>2. PICK v \in Scans(disk[MyCand]) :
            /\ v.rel = load.pkg.rel /\ disk[Live(Target)] # None
            /\ \E w \in Scans(disk[Live(Target)]) : ~Newer(v, w) /\ ~load.force
      BY <1>2, <1>3, <1>7 DEF Gate
    <2>3. ASSUME disk[Live(Target)] \in Bodies
          PROVE  /\ Version[disk[Live(Target)]].rel >= load.pkg.rel
                 /\ mishaps = 0 => ~Newer(Version[Body], Version[disk[Live(Target)]])
      <3>1. ~Newer(v, Version[disk[Live(Target)]]) /\ Version[disk[Live(Target)]].rel \in Int
        BY <2>2, <2>3, BodiesAssumption DEF Scans
      <3>2. Version[disk[Live(Target)]].rel >= load.pkg.rel
        <4>1. ~(load.pkg.rel > Version[disk[Live(Target)]].rel)
          BY <2>2, <3>1 DEF Newer
        <4>2. load.pkg.rel \in Nat /\ Version[disk[Live(Target)]].rel \in Int
          BY <1>4, <3>1
        <4> QED BY <4>1, <4>2
      <3>3. ASSUME mishaps = 0 PROVE v = Version[Body]
        BY <1>4, <2>1, <2>2, <3>3 DEF Unspoilt, Scans
      <3> QED BY <3>1, <3>2, <3>3
    <2> QED BY <1>4, <1>5, <2>1, <2>2, <2>3 DEF Fine
  <1> QED BY <1>6, <1>7

(* Only the written candidate comes to the version gate.                    *)
LEMMA ToGate ==
  ASSUME TypeOK, Install, load'.at = "gate"
  PROVE  WriteCand
  <1>1. load \in Loads
    BY DEF TypeOK
  <1>2. \A s : GoTo(s) => s = "gate"
    BY <1>1 DEF GoTo, Loads
  <1>3. \A code : ~Return(code)
    BY DEF Return, Idle
  <1>4. ~NextFile /\ \A also : ~Reject(also)
    BY <1>1, <1>3 DEF NextFile, Reject, Loads
  <1>5. \A s, t : load' # [load EXCEPT !.at = "open_cand", !.cand = t]
                  /\ load' # [load EXCEPT !.at = "copy_bak", !.bak = t]
    BY <1>1 DEF Loads
  <1>6. ~(TakeToken \/ OpenCand \/ Gate \/ OpenBak \/ CopyBak)
    BY <1>2, <1>3, <1>4, <1>5 DEF TakeToken, OpenCand, Gate, OpenBak, CopyBak
  <1>7. ~(OpenSide \/ WriteSide \/ OpenTemp \/ CopyTemp \/ Swap)
    BY <1>2, <1>4 DEF OpenSide, WriteSide, OpenTemp, CopyTemp, Swap
  <1>8. ~(Rename \/ Verify \/ OpenBack \/ CopyBack)
    BY <1>2, <1>3, <1>4 DEF Rename, Verify, OpenBack, CopyBack
  <1> QED BY <1>6, <1>7, <1>8 DEF Install

(* Load keeps to its order: what it is done with stays as it left it.       *)
LEMMA OrderlyStep ==
  ASSUME IInv, Orderly, [Next]_vars
  PROVE  Orderly'
  <1>1. TypeOK /\ HasCand /\ HasBak /\ FreshBak
    BY DEF IInv, Progress
  <1>2. ASSUME NEW code, Return(code) PROVE Orderly'
    BY <1>2 DEF Return, Idle, Orderly, Resting, Selected, SettledUp, Unspoilt, AtRest
  <1>3. ASSUME load.at \notin AtRest, Fine \/ Mishap, Elsewhere, load'.pkg = load.pkg,
               load'.force = load.force
        PROVE  \A i \in 1 .. load.idx - 1 : Settled(load.pkg.files[i])'
    <2> SUFFICES ASSUME NEW i \in 1 .. load.idx - 1
                 PROVE  Settled(load.pkg.files[i])'
      OBVIOUS
    <2>1. /\ Settled(load.pkg.files[i]) /\ load.pkg.files[i] \in Files
          /\ load.pkg.files[i].dest # Target
      BY <1>1, <1>3, Apart DEF Orderly, SettledUp
    <2>2. disk'[Live(load.pkg.files[i].dest)] = disk[Live(load.pkg.files[i].dest)]
      BY <1>3, <2>1 DEF Elsewhere, Files
    <2> QED BY <1>1, <1>3, <2>1, <2>2, StaysSettled
  <1>4. CASE Install
    <2>1. /\ load.at \notin AtRest /\ (Fine \/ Mishap) /\ Elsewhere
          /\ (NextFile /\ load.at \in {"gate", "verify"}) \/ Return("fail") \/ Goes
      BY <1>1, <1>4, InstallGoes
    <2>2. load.pkg \in Packages /\ load.pkg.files[load.idx] \in Files /\ load.idx \in Nat
          /\ Target = load.pkg.files[load.idx].dest
      BY <1>1, <2>1, Apart DEF Orderly, Selected, Target
    <2>3. ASSUME Goes
          PROVE  Orderly'
      <3>1. SettledUp' /\ Selected' /\ Resting'
        BY <1>3, <2>1, <2>2, <2>3 DEF Goes, SettledUp, Selected, Resting, AtRest
      <3>2. Unspoilt'
        <4> SUFFICES ASSUME load'.at = "gate", mishaps' = 0
                     PROVE  disk'[MyCand'] = Body'
          BY DEF Unspoilt
        <4>1. mishaps' # mishaps + 1 /\ disk \in [Paths -> Contents]
          BY <1>1 DEF TypeOK
        <4>2. WriteCand
          BY <1>1, <1>4, ToGate
        <4>3. \A also : ~Reject(also)
          BY DEF Reject, Return, Idle
        <4>4. GoTo("gate") /\ disk' = [disk EXCEPT ![MyCand] = Body]
          BY <4>1, <4>2, <4>3 DEF WriteCand, Mishap
        <4>5. MyCand' = MyCand /\ Body' = Body /\ MyCand \in Paths
          BY <1>1, <4>2, <4>4, OnGoTo, InPaths
            DEF HasCand, WriteCand, MyCand, Early, NoBakSteps, Steps
        <4> QED BY <4>1, <4>4, <4>5
      <3> QED BY <3>1, <3>2 DEF Orderly
    <2>4. ASSUME NextFile, load.at \in {"gate", "verify"}
          PROVE  Orderly'
      <3>1. CASE Return("ok")
        BY <1>2, <3>1
      <3>2. CASE /\ load' = [load EXCEPT !.at = "token", !.idx = @ + 1, !.bak = None,
                               !.was = disk[Live(load.pkg.files[load.idx + 1].dest)]]
                 /\ rc' = rc
        <4>1. load'.at = "token" /\ load'.idx = load.idx + 1 /\ load'.pkg = load.pkg
              /\ load'.force = load.force
          BY <1>1, <3>2 DEF TypeOK, Loads
        <4>2. PICK n \in Nat : n = load.idx
          BY <2>2
        <4>3. Gate \/ Verify
          BY <1>4, <2>4 DEF Install, TakeToken, OpenCand, WriteCand, OpenBak, CopyBak,
            OpenSide, WriteSide, OpenTemp, CopyTemp, Swap, Rename, OpenBack, CopyBack
        <4>4. Selected /\ Unspoilt
          BY DEF Orderly
        <4>5. Settled(load.pkg.files[n])'
          <5> DEFINE f == load.pkg.files[load.idx]
                     now == disk'[Live(f.dest)]
          <5>1. \/ now = f.body
                \/ /\ ~load.force /\ now # None
                   /\ now \in Bodies =>
                        /\ Version[now].rel >= load.pkg.rel
                        /\ mishaps' = 0 => ~Newer(Version[f.body], Version[now])
            BY <1>1, <2>4, <4>3, <4>4, LeavesSettled
          <5>2. f = load'.pkg.files[n]
            BY <4>1, <4>2
          <5> QED BY <4>1, <5>1, <5>2 DEF Settled
        <4>6. \A i \in 1 .. load.idx - 1 : Settled(load.pkg.files[i])'
          BY <1>3, <2>1, <4>1
        <4>7. SettledUp'
          <5>1. \A i \in 1 .. load'.idx - 1 : i = n \/ i \in 1 .. load.idx - 1
            BY <2>2, <4>1, <4>2
          <5> QED BY <4>5, <4>6, <5>1 DEF SettledUp
        <4>8. Resting' /\ Selected' /\ Unspoilt'
          BY <2>2, <4>1 DEF Resting, Selected, Unspoilt
        <4> QED BY <4>7, <4>8 DEF Orderly
      <3> QED BY <2>4, <3>1, <3>2 DEF NextFile
    <2> QED BY <1>2, <2>1, <2>3, <2>4
  <1>5. ASSUME NEW p \in Packages, NEW f \in BOOLEAN, StartInstall(p, f)
        PROVE  Orderly'
    BY <1>5 DEF StartInstall, Orderly, Resting, Selected, SettledUp, Unspoilt, AtRest
  <1>6. CASE (\E d \in Dests : StartRollback(d)) \/ OpenRoll
    <2>1. CASE \E d \in Dests : StartRollback(d)
      BY <2>1 DEF StartRollback, Idle, Orderly, Resting, Selected, SettledUp, Unspoilt,
        AtRest, RollSteps
    <2>2. CASE OpenRoll /\ Return("fail")
      BY <1>2, <2>2
    <2>3. CASE OpenRoll /\ GoTo("copy_roll")
      <3>1. load'.at = "copy_roll"
        BY <1>1, <2>3 DEF GoTo, TypeOK, Loads
      <3> QED BY <3>1 DEF Orderly, Resting, Selected, SettledUp, Unspoilt, AtRest, RollSteps
    <2> QED BY <1>6, <2>1, <2>2, <2>3 DEF OpenRoll
  <1>7. CASE CopyRoll \/ Reset
    BY <1>2, <1>7 DEF CopyRoll, Reset
  <1>8. CASE Tick \/ UNCHANGED vars
    BY <1>8 DEF Tick, vars, Orderly, Resting, Selected, SettledUp, Unspoilt, Settled,
      MyCand, Body
  <1> QED BY <1>2, <1>4, <1>5, <1>6, <1>7, <1>8 DEF Next

LEMMA OkIsSettled ==
  ASSUME IInv, Running, Orderly, [Next]_vars, rc' = "ok", load.at \notin RollSteps,
         NEW i \in 1 .. Len(load.pkg.files)
  PROVE  LET f   == load.pkg.files[i]
             now == disk'[Live(f.dest)]
         IN \/ now = f.body
            \/ /\ ~load.force /\ now # None
               /\ now \in Bodies =>
                    /\ Version[now].rel >= load.pkg.rel
                    /\ mishaps' = 0 => ~Newer(Version[f.body], Version[now])
  <1>1. TypeOK /\ HasCand /\ HasBak /\ FreshBak
    BY DEF IInv, Progress
  <1>2. load.at \notin AtRest /\ rc = "none"
    <2>1. load.at # "idle"
      BY LenProperties DEF Orderly, Resting
    <2> QED BY <2>1 DEF Running, AtRest
  <1>3. Install
    <2>1. ~(\E p \in Packages, g \in BOOLEAN : StartInstall(p, g))
          /\ ~(\E d \in Dests : StartRollback(d))
      BY <1>2 DEF StartInstall, StartRollback, AtRest
    <2>2. ~OpenRoll /\ ~CopyRoll /\ ~Tick /\ ~Reset /\ ~UNCHANGED vars
      BY <1>2 DEF OpenRoll, CopyRoll, Tick, Reset, Return, vars, AtRest, RollSteps
    <2> QED BY <2>1, <2>2 DEF Next
  <1>4. NextFile /\ load.at \in {"gate", "verify"} /\ (Fine \/ Mishap) /\ Elsewhere
    BY <1>1, <1>2, <1>3, InstallGoes DEF Return, Goes
  <1>5. load.idx = Len(load.pkg.files)
    BY <1>2, <1>4 DEF NextFile
  <1>6. CASE i = load.idx
    <2>1. Gate \/ Verify
      BY <1>3, <1>4 DEF Install, TakeToken, OpenCand, WriteCand, OpenBak, CopyBak,
        OpenSide, WriteSide, OpenTemp, CopyTemp, Swap, Rename, OpenBack, CopyBack
    <2> QED BY <1>1, <1>4, <1>6, <2>1, LeavesSettled DEF Orderly
  <1>7. CASE i # load.idx
    <2>1. /\ Settled(load.pkg.files[i]) /\ load.pkg.files[i] \in Files
          /\ load.pkg.files[i].dest # Target
      BY <1>1, <1>2, <1>5, <1>7, Apart DEF Orderly, SettledUp
    <2>2. disk'[Live(load.pkg.files[i].dest)] = disk[Live(load.pkg.files[i].dest)]
      BY <1>4, <2>1 DEF Elsewhere, Files
    <2>3. mishaps' = 0 => mishaps = 0
      BY <1>1, <1>4 DEF Fine, Mishap, TypeOK
    <2> QED BY <2>1, <2>2, <2>3 DEF Settled
  <1> QED BY <1>6, <1>7

(* A Load that returns RETURN_OK has dealt with each of its files, and has  *)
(* spoilt none when it went on to the next: the destinations of a package   *)
(* differ, and a run writes to that of its present file alone.              *)
THEOREM OkInstalled == Spec => OkMeansInstalled
  <1>1. Init => Running /\ Orderly
    BY DEF Init, Idle, Running, Orderly, Resting, Selected, SettledUp, Unspoilt, AtRest
  <1>2. IInv /\ Running /\ Orderly /\ [Next]_vars => Running' /\ Orderly'
    BY RunningStep, OrderlyStep DEF IInv
  <1>3. IInv /\ Running /\ Orderly /\ [Next]_vars =>
          [rc' = "ok" /\ load.at \notin RollSteps =>
             \A i \in 1 .. Len(load.pkg.files) :
               LET f   == load.pkg.files[i]
                   now == disk'[Live(f.dest)]
               IN \/ now = f.body
                  \/ /\ ~load.force /\ now # None
                     /\ now \in Bodies =>
                          /\ Version[now].rel >= load.pkg.rel
                          /\ mishaps' = 0 => ~Newer(Version[f.body], Version[now])]_vars
    BY OkIsSettled
  <1> QED BY <1>1, <1>2, <1>3, LoadInvariance, PTL DEF Spec, OkMeansInstalled
=============================================================================

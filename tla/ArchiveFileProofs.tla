-------------------------- MODULE ArchiveFileProofs --------------------------
(***************************************************************************)
(* Proofs that a rewrite or an addition, cut off at any step, leaves the   *)
(* entries of the archive readable, for any archive, any entries and any   *)
(* number of failing calls and resets.                                     *)
(***************************************************************************)
EXTENDS ArchiveFile, SequenceTheorems, TLAPS

Reading == {"open_temp", "copy", "abandon", "replace"}
Writing == {"copy", "replace", "rename"}

Busy    == run.at # "idle" => rc = "none"
Source  == /\ run.at = "open_temp" => run.pos = 1
           /\ run.at \in Reading => archive = run.was /\ archive # NoFile
           /\ run.at = "rename" => run.was # NoFile /\ archive \in {run.was, NoFile}
HasTemp == run.at \in Writing \cup {"abandon"} => temp # NoFile
Clean   == run.at \in Writing =>
             \A i \in DOMAIN temp : Whole(temp[i]) /\ temp[i].name \notin run.gone

(* t holds the first n entries of f not named in gone, and nothing else.    *)
KeptTo(f, n, gone) == {i \in 1 .. n : f[i].name \notin gone}
Holds(t, f, n, gone) ==
  \E place \in [KeptTo(f, n, gone) -> DOMAIN t] :
    /\ \A i \in KeptTo(f, n, gone) : t[place[i]] = f[i]
    /\ \A i, j \in KeptTo(f, n, gone) : i < j => place[i] < place[j]
    /\ \A m \in DOMAIN t : \E j \in KeptTo(f, n, gone) : m = place[j]

Copied  == run.at = "copy" =>
             /\ run.pos \in 1 .. Len(archive) + 1
             /\ \A i \in 1 .. run.pos - 1 : Whole(archive[i])
             /\ Holds(temp, archive, run.pos - 1, run.gone)
Copies  == run.at \in {"replace", "rename"} /\ ~misled =>
             Selects(Readable(temp), Readable(run.was), run.gone)

Torn    == /\ run.at \in AddSteps => archive # NoFile
           /\ run.at = "payload" => archive # << >> /\ ~Whole(archive[Len(archive)])
Wanted  == run.at \in AddSteps => \A i \in DOMAIN run.todo : Whole(run.todo[i])
Before  == run.was \o SubSeq(run.todo, 1, run.pos - 1)
Adding  == run.at \in AddSteps /\ ~misled =>
             /\ run.was # NoFile
             /\ run.at = "header" => archive = Before
             /\ run.at = "payload" =>
                  archive = Append(Before, [Added EXCEPT !.part = "payload"])

IInv == /\ TypeOK /\ Busy /\ Source /\ HasTemp /\ Clean /\ Copied /\ Copies
        /\ Torn /\ Wanted /\ Adding

----------------------------------------------------------------------------
(* Files and what is readable of them.                                      *)

LEMMA Pieces ==
  ASSUME NEW f \in Files, NEW i \in DOMAIN f
  PROVE  /\ f[i] \in Entries \cup {Mark} /\ Len(f) \in Nat /\ DOMAIN f = 1 .. Len(f)
         /\ f # NoFile
BY DataAssumption DEF Files

(* An entry that is cut is not a whole one, and one is what it is cut from. *)
LEMMA Cuts ==
  ASSUME NEW e \in Entries, NEW cut \in {"header", "payload"}
  PROVE  [e EXCEPT !.part = cut] \in Entries /\ ~Whole([e EXCEPT !.part = cut])
BY DEF Entries, Whole

LEMMA Longer ==
  ASSUME NEW f \in Files, NEW p \in Entries \cup {Mark}
  PROVE  /\ Append(f, p) \in Files /\ Append(f, p) # NoFile /\ Append(f, p) # << >>
         /\ Len(Append(f, p)) = Len(f) + 1 /\ Append(f, p)[Len(f) + 1] = p
         /\ DOMAIN Append(f, p) = 1 .. Len(f) + 1
         /\ \A i \in DOMAIN f : Append(f, p)[i] = f[i]
BY DataAssumption DEF Files

LEMMA ReadsMore ==
  ASSUME NEW f \in Files, NEW g \in Files, NEW n \in Nat,
         n <= Len(f), n <= Len(g),
         n < Len(f) => ~Whole(f[n + 1]),
         \A i \in 1 .. n : g[i] = f[i]
  PROVE  Starts(Readable(f), Readable(g))
<1> DEFINE R(h) == {k \in DOMAIN h : \A i \in 1 .. k : Whole(h[i])}
<1>1. DOMAIN f = 1 .. Len(f) /\ DOMAIN g = 1 .. Len(g) /\ Len(f) \in Nat /\ Len(g) \in Nat
  BY DEF Files
<1>2. ASSUME NEW k \in R(f)  PROVE k \in 1 .. n
  BY <1>1
<1>3. ASSUME NEW k \in R(f)  PROVE k \in R(g) /\ g[k] = f[k]
  BY <1>1, <1>2
<1>4. Readable(f) = [k \in R(f) |-> f[k]] /\ Readable(g) = [k \in R(g) |-> g[k]]
  BY DEF Readable
<1> HIDE DEF R
<1> QED BY <1>3, <1>4 DEF Starts

LEMMA ReadsSame ==
  ASSUME NEW f \in Files
  PROVE  Starts(Readable(f), Readable(f))
BY DEF Starts

LEMMA ReadsAppended ==
  ASSUME NEW f \in Files, NEW p \in Entries \cup {Mark}
  PROVE  Starts(Readable(f), Readable(Append(f, p)))
<1>1. Len(f) \in Nat /\ DOMAIN f = 1 .. Len(f)
  BY DEF Files
<1>2. /\ Append(f, p) \in Files /\ Len(f) <= Len(Append(f, p))
      /\ \A i \in 1 .. Len(f) : Append(f, p)[i] = f[i]
  BY <1>1, Longer
<1>3. Len(f) <= Len(f) /\ ~(Len(f) < Len(f))
  BY <1>1
<1> DEFINE g == Append(f, p)
<1> HIDE DEF g
<1>4. g \in Files /\ Len(f) <= Len(g) /\ \A i \in 1 .. Len(f) : g[i] = f[i]
  BY <1>2 DEF g
<1>5. Starts(Readable(f), Readable(g))
  BY <1>1, <1>3, <1>4, ReadsMore
<1> QED BY <1>5 DEF g

LEMMA ReadsCompleted ==
  ASSUME NEW f \in Files, NEW e \in Entries, f # << >>, ~Whole(f[Len(f)])
  PROVE  /\ [f EXCEPT ![Len(f)] = e] \in Files
         /\ Starts(Readable(f), Readable([f EXCEPT ![Len(f)] = e]))
<1> DEFINE g == [f EXCEPT ![Len(f)] = e]
<1>1. Len(f) \in Nat \ {0} /\ DOMAIN f = 1 .. Len(f)
  BY DEF Files
<1>2. g \in Files /\ Len(g) = Len(f)
  BY <1>1 DEF Files
<1>3. \A i \in 1 .. Len(f) - 1 : g[i] = f[i]
  <2>1. \A n \in Nat \ {0} : \A i \in 1 .. n - 1 : i \in 1 .. n /\ i # n
    OBVIOUS
  <2>2. \A i \in 1 .. Len(f) - 1 : i \in DOMAIN f /\ i # Len(f)
    BY <1>1, <2>1
  <2> QED BY <2>2
<1>4. Len(f) - 1 \in Nat /\ Len(f) - 1 <= Len(f) /\ Len(f) - 1 + 1 = Len(f)
  BY <1>1
<1> HIDE DEF g
<1>5. Starts(Readable(f), Readable(g))
  BY <1>2, <1>3, <1>4, ReadsMore
<1> QED BY <1>2, <1>5 DEF g

(* A file of whole entries is readable to its end, one with a whole prefix  *)
(* that something else follows up to that.                                  *)
LEMMA ReadsWhole ==
  ASSUME NEW f \in Files, NEW n \in Nat, n <= Len(f),
         \A i \in 1 .. n : Whole(f[i]),
         n < Len(f) => ~Whole(f[n + 1])
  PROVE  DOMAIN Readable(f) = 1 .. n /\ \A i \in 1 .. n : Readable(f)[i] = f[i]
<1>1. DOMAIN f = 1 .. Len(f) /\ Len(f) \in Nat
  BY DEF Files
<1>2. {k \in DOMAIN f : \A i \in 1 .. k : Whole(f[i])} = 1 .. n
  <2>1. ASSUME NEW k \in DOMAIN f, \A i \in 1 .. k : Whole(f[i])  PROVE k \in 1 .. n
    BY <1>1, <2>1
  <2>2. ASSUME NEW k \in 1 .. n  PROVE k \in DOMAIN f /\ \A i \in 1 .. k : Whole(f[i])
    BY <1>1
  <2> QED BY <2>1, <2>2
<1> QED BY <1>2 DEF Readable

----------------------------------------------------------------------------
(* Copying.                                                                 *)

LEMMA HoldsNothing ==
  ASSUME NEW f, NEW gone
  PROVE  Holds(<< >>, f, 0, gone)
<1> DEFINE place == [i \in KeptTo(f, 0, gone) |-> i]
<1>1. KeptTo(f, 0, gone) = {} /\ DOMAIN << >> = {}
  BY DEF KeptTo
<1>2. place \in [KeptTo(f, 0, gone) -> DOMAIN << >>]
  BY <1>1
<1> QED BY <1>1, <1>2 DEF Holds

LEMMA HoldsSkipped ==
  ASSUME NEW t, NEW f, NEW gone, NEW n \in Nat,
         Holds(t, f, n, gone), f[n + 1].name \in gone
  PROVE  Holds(t, f, n + 1, gone)
<1>1. KeptTo(f, n + 1, gone) = KeptTo(f, n, gone)
  BY DEF KeptTo
<1> QED BY <1>1 DEF Holds

LEMMA HoldsCopied ==
  ASSUME NEW t \in Files, NEW f, NEW gone, NEW n \in Nat,
         Holds(t, f, n, gone), f[n + 1].name \notin gone, f[n + 1] \in Entries
  PROVE  Holds(Append(t, f[n + 1]), f, n + 1, gone)
<1> DEFINE t2 == Append(t, f[n + 1])
           K == KeptTo(f, n, gone)
           K2 == KeptTo(f, n + 1, gone)
<1>1. PICK place \in [K -> DOMAIN t] :
        /\ \A i \in K : t[place[i]] = f[i]
        /\ \A i, j \in K : i < j => place[i] < place[j]
        /\ \A m \in DOMAIN t : \E j \in K : m = place[j]
  BY DEF Holds
<1>2. K2 = K \cup {n + 1} /\ K \subseteq 1 .. n /\ n + 1 \notin K
  BY DEF KeptTo
<1>3. /\ Len(t) \in Nat /\ DOMAIN t = 1 .. Len(t) /\ DOMAIN t2 = 1 .. Len(t) + 1
      /\ t2[Len(t) + 1] = f[n + 1] /\ \A i \in DOMAIN t : t2[i] = t[i]
  BY Longer DEF Files
<1> DEFINE place2 == [i \in K2 |-> IF i = n + 1 THEN Len(t) + 1 ELSE place[i]]
<1> HIDE DEF t2, K, K2
<1>4. place2 \in [K2 -> DOMAIN t2]
  BY <1>2, <1>3
<1>5. \A i \in K : i # n + 1 /\ i \in K2 /\ place2[i] = place[i] /\ place[i] \in 1 .. Len(t)
  BY <1>2, <1>3
<1>6. n + 1 \in K2 /\ place2[n + 1] = Len(t) + 1
  BY <1>2
<1> HIDE DEF place2
<1>7. \A i \in K2 : t2[place2[i]] = f[i]
  BY <1>1, <1>2, <1>3, <1>5, <1>6
<1>8. \A i, j \in K2 : i < j => place2[i] < place2[j]
  BY <1>1, <1>2, <1>3, <1>5, <1>6
<1>9. \A m \in DOMAIN t2 : \E j \in K2 : m = place2[j]
  <2> TAKE m \in DOMAIN t2
  <2>1. CASE m = Len(t) + 1
    BY <2>1, <1>6
  <2>2. CASE m \in DOMAIN t
    BY <2>2, <1>1, <1>5
  <2> QED BY <1>3, <2>1, <2>2
<1> QED BY <1>4, <1>7, <1>8, <1>9 DEF Holds, t2, K2

(* What is held of the readable entries is what Selects asks for, also when *)
(* more follows it.                                                         *)
LEMMA HoldsSelects ==
  ASSUME NEW t \in Files, NEW r, NEW f, NEW gone, NEW n \in Nat,
         Holds(t, f, n, gone), Starts(t, r),
         DOMAIN Readable(f) = 1 .. n, \A i \in 1 .. n : Readable(f)[i] = f[i]
  PROVE  Selects(r, Readable(f), gone)
<1> DEFINE K == KeptTo(f, n, gone)
<1>1. PICK place \in [K -> DOMAIN t] :
        /\ \A i \in K : t[place[i]] = f[i]
        /\ \A i, j \in K : i < j => place[i] < place[j]
        /\ \A m \in DOMAIN t : \E j \in K : m = place[j]
  BY DEF Holds
<1>2. KeptOf(Readable(f), gone) = K /\ \A i \in K : Readable(f)[i] = f[i]
  BY DEF KeptOf, KeptTo
<1>3. DOMAIN t = 1 .. Len(t) /\ Len(t) \in Nat
  BY DEF Files
<1>4. DOMAIN t \subseteq DOMAIN r /\ \A m \in DOMAIN t : r[m] = t[m]
  BY DEF Starts
<1> HIDE DEF K
<1>5. place \in [K -> DOMAIN r] /\ \A i \in K : r[place[i]] = Readable(f)[i]
  BY <1>1, <1>2, <1>4
<1>6. \A i \in K : \A m \in 1 .. place[i] : \E j \in K : m = place[j]
  BY <1>1, <1>3
<1> QED BY <1>1, <1>2, <1>5, <1>6 DEF Selects

----------------------------------------------------------------------------
(* The invariant is kept.                                                   *)

Runs == [at : {"idle"} \cup RewriteSteps \cup AddSteps, gone : SUBSET Names,
         todo : Seq(Entries), pos : Nat, was : Files \cup {NoFile}]

(* Going to another step changes nothing else of the operation.             *)
LEMMA Moves ==
  ASSUME run \in Runs, NEW step \in RewriteSteps \cup AddSteps,
         run' = [run EXCEPT !.at = step]
  PROVE  /\ run' \in Runs /\ run'.at = step /\ run'.gone = run.gone
         /\ run'.todo = run.todo /\ run'.pos = run.pos /\ run'.was = run.was
BY DEF Runs

(* The variables the end of an operation may leave in any state.            *)
Typed == /\ archive \in Files \cup {NoFile} /\ temp \in Files \cup {NoFile}
         /\ held \in BOOLEAN /\ misled \in BOOLEAN /\ mishaps \in 0 .. MaxMishaps

LEMMA Counted ==
  ASSUME TypeOK, Mishap \/ Fine
  PROVE  mishaps' \in 0 .. MaxMishaps
BY BoundsAssumption DEF TypeOK, Mishap, Fine

LEMMA Ends ==
  ASSUME NEW code \in {"ok", "fail", "none"}, Return(code), Typed'
  PROVE  IInv'
<1>1. run'.at = "idle" /\ run' \in Runs /\ rc' \in {"ok", "fail", "none"}
  BY DEF Return, Idle, Runs
<1>2. TypeOK'
  BY <1>1 DEF TypeOK, Typed, Runs, AddSteps
<1> QED BY <1>1, <1>2 DEF IInv, Busy, Source, HasTemp, Clean, Copied, Copies,
          Torn, Wanted, Adding, Reading, Writing, AddSteps

LEMMA EmptyFile ==
  << >> \in Files /\ << >> # NoFile /\ NoFile \notin Files
<1>1. << >> \in Files
  BY DEF Files
<1>2. NoFile \notin Files
  BY DataAssumption
<1> QED BY <1>1, <1>2

LEMMA InitInv ==
  ASSUME Init
  PROVE  IInv
<1>1. run.at = "idle" /\ run \in Runs /\ rc = "none"
  BY DEF Init, Idle, Runs
<1>2. TypeOK
  <2>1. archive \in Files \cup {NoFile}
    BY FilesAssumption DEF Init
  <2>2. held \in BOOLEAN /\ misled \in BOOLEAN /\ temp = NoFile /\ mishaps = 0
    BY DEF Init
  <2>3. 0 \in 0 .. MaxMishaps
    BY BoundsAssumption
  <2> QED BY <1>1, <2>1, <2>2, <2>3 DEF TypeOK, Runs, AddSteps
<1> QED BY <1>1, <1>2 DEF IInv, Busy, Source, HasTemp, Clean, Copied, Copies,
          Torn, Wanted, Adding, Reading, Writing, AddSteps

LEMMA StartDeleteInv ==
  ASSUME IInv, NEW gone \in SUBSET Names, StartDelete(gone)
  PROVE  IInv'
<1>1. mishaps' \in 0 .. MaxMishaps
  BY Counted DEF StartDelete, IInv
<1>2. Typed'
  BY <1>1 DEF Typed, IInv, TypeOK, StartDelete
<1>3. CASE Return("fail")
  BY <1>2, <1>3, Ends
<1>4. CASE /\ archive # NoFile /\ rc' = "none"
           /\ run' = [at |-> "open_temp", gone |-> gone, todo |-> << >>, pos |-> 1,
                      was |-> archive]
  <2>1. run' \in Runs /\ run'.at = "open_temp" /\ run'.pos = 1 /\ run'.was = archive
    BY <1>4 DEF Runs, RewriteSteps, IInv, TypeOK
  <2>2. archive' = archive
    BY DEF StartDelete
  <2>3. TypeOK'
    BY <1>2, <1>4, <2>1 DEF TypeOK, Typed, Runs, AddSteps
  <2> QED BY <1>4, <2>1, <2>2, <2>3 DEF IInv, Busy, Source, HasTemp, Clean, Copied,
            Copies, Torn, Wanted, Adding, Reading, Writing, AddSteps
<1> QED BY <1>3, <1>4 DEF StartDelete

LEMMA OpenTempInv ==
  ASSUME IInv, OpenTemp
  PROVE  IInv'
<1>1. mishaps' \in 0 .. MaxMishaps
  BY Counted DEF OpenTemp, IInv
<1>2. Typed'
  BY <1>1, EmptyFile DEF Typed, IInv, TypeOK, OpenTemp
<1>3. CASE Return("fail")
  BY <1>2, <1>3, Ends
<1>4. CASE temp' = << >> /\ GoTo("copy")
  <2>1. /\ run' \in Runs /\ run'.at = "copy" /\ run'.gone = run.gone
        /\ run'.pos = 1 /\ run'.was = run.was
    BY <1>4, Moves DEF IInv, TypeOK, Runs, GoTo, Source, OpenTemp, RewriteSteps
  <2>2. archive' = archive /\ archive \in Files /\ archive = run.was /\ rc' = rc /\ rc = "none"
    BY <1>4 DEF OpenTemp, IInv, TypeOK, Source, Reading, Busy, GoTo
  <2>3. TypeOK'
    BY <1>2, <2>1, <2>2 DEF TypeOK, Typed, Runs, AddSteps
  <2>4. Holds(temp', archive', 0, run'.gone)
    BY <1>4, HoldsNothing
  <2>5. Copied'
    <3>1. run'.pos \in 1 .. Len(archive') + 1 /\ run'.pos - 1 = 0
      BY <2>1, <2>2 DEF Files
    <3> QED BY <2>4, <3>1 DEF Copied
  <2> QED BY <1>4, <2>1, <2>2, <2>3, <2>5, EmptyFile DEF IInv, Busy, Source, HasTemp,
            Clean, Copies, Torn, Wanted, Adding, Reading, Writing, AddSteps
<1> QED BY <1>3, <1>4 DEF OpenTemp

(* An entry of the archive that is copied is one.                           *)
LEMMA PieceAt ==
  ASSUME IInv, run.at = "copy", ~AtEnd(archive, run.pos)
  PROVE  /\ archive \in Files /\ run.pos \in 1 .. Len(archive) /\ Piece \in Entries
         /\ run.pos - 1 \in Nat /\ run.pos - 1 + 1 = run.pos /\ Len(archive) \in Nat
<1>1. archive \in Files /\ run.pos \in 1 .. Len(archive) + 1
  BY DEF IInv, TypeOK, Source, Reading, Copied
<1>2. run.pos \in DOMAIN archive /\ archive[run.pos] # Mark
  BY DEF AtEnd
<1> QED BY <1>1, <1>2, Pieces DEF Files, Piece

LEMMA SkipInv ==
  ASSUME IInv, Skip
  PROVE  IInv'
<1>1. mishaps' \in 0 .. MaxMishaps
  BY Counted DEF Skip, IInv
<1>2. Typed'
  BY <1>1 DEF Typed, IInv, TypeOK, Skip
<1>3. /\ archive \in Files /\ run.pos \in 1 .. Len(archive)
      /\ run.pos - 1 \in Nat /\ run.pos - 1 + 1 = run.pos /\ Len(archive) \in Nat
  BY PieceAt DEF Skip
<1>4. /\ run' \in Runs /\ run'.at = "copy" /\ run'.gone = run.gone
      /\ run'.pos = run.pos + 1 /\ run'.was = run.was
  BY DEF IInv, TypeOK, Runs, Skip
<1>5. UNCHANGED <<archive, temp, rc>> /\ run.at = "copy"
  BY DEF Skip
<1>6. TypeOK'
  BY <1>2, <1>4, <1>5 DEF TypeOK, Typed, Runs, AddSteps, IInv
<1>7. Copied'
  <2>1. Holds(temp, archive, run.pos, run.gone)
    BY <1>3, HoldsSkipped DEF IInv, Copied, Skip, Piece
  <2>2. \A i \in 1 .. run.pos : Whole(archive[i])
    BY <1>3 DEF IInv, Copied, Skip, Piece
  <2>3. run'.pos - 1 = run.pos /\ run'.pos \in 1 .. Len(archive) + 1
    BY <1>3, <1>4
  <2> QED BY <1>4, <1>5, <2>1, <2>2, <2>3 DEF Copied
<1> QED BY <1>4, <1>5, <1>6, <1>7 DEF IInv, Busy, Source, HasTemp,
          Clean, Copies, Torn, Wanted, Adding, Reading, Writing, AddSteps

(* Giving up what has been copied.                                          *)
LEMMA GivesUp ==
  ASSUME IInv, run.at = "copy", GoTo("abandon"), Typed', temp' # NoFile,
         archive' = archive
  PROVE  IInv'
<1>1. /\ run' \in Runs /\ run'.at = "abandon" /\ run'.was = run.was
  BY Moves DEF IInv, TypeOK, Runs, GoTo, RewriteSteps
<1>2. rc' = rc /\ rc = "none"
  BY DEF GoTo, IInv, Busy
<1>3. TypeOK'
  BY <1>1, <1>2 DEF TypeOK, Typed, Runs, AddSteps
<1> QED BY <1>1, <1>2, <1>3 DEF IInv, Busy, Source, HasTemp, Clean, Copied,
          Copies, Torn, Wanted, Adding, Reading, Writing, AddSteps

(* Going on to put the copy in the archive's place.                         *)
LEMMA Replaces ==
  ASSUME IInv, run.at = "copy", GoTo("replace"), Typed', temp' \in Files,
         archive' = archive,
         \A i \in DOMAIN temp' : Whole(temp'[i]) /\ temp'[i].name \notin run.gone,
         ~misled' => Selects(Readable(temp'), Readable(archive), run.gone)
  PROVE  IInv'
<1>1. /\ run' \in Runs /\ run'.at = "replace" /\ run'.was = run.was
      /\ run'.gone = run.gone
  BY Moves DEF IInv, TypeOK, Runs, GoTo, RewriteSteps
<1>2. rc' = rc /\ rc = "none" /\ archive = run.was /\ archive # NoFile
  BY DEF GoTo, IInv, Busy, Source, Reading
<1>3. TypeOK'
  BY <1>1, <1>2 DEF TypeOK, Typed, Runs, AddSteps
<1>4. temp' # NoFile
  BY EmptyFile
<1> QED BY <1>1, <1>2, <1>3, <1>4 DEF IInv, Busy, Source, HasTemp, Clean, Copied,
          Copies, Torn, Wanted, Adding, Reading, Writing, AddSteps

LEMMA CopyInv ==
  ASSUME IInv, Copy
  PROVE  IInv'
<1>1. mishaps' \in 0 .. MaxMishaps
  BY Counted DEF Copy, IInv
<1>2. /\ archive \in Files /\ run.pos \in 1 .. Len(archive) /\ Piece \in Entries
      /\ run.pos - 1 \in Nat /\ run.pos - 1 + 1 = run.pos /\ Len(archive) \in Nat
  BY PieceAt DEF Copy
<1>3. temp \in Files /\ run.at = "copy" /\ archive' = archive
  BY DEF Copy, IInv, TypeOK, HasTemp, Writing
<1>4. CASE temp' = Append(temp, Piece) /\ run' = [run EXCEPT !.pos = @ + 1] /\ rc' = rc
  <2>1. Typed'
    BY <1>1, <1>2, <1>3, <1>4, Longer DEF Typed, IInv, TypeOK, Copy
  <2>2. /\ run' \in Runs /\ run'.at = "copy" /\ run'.gone = run.gone
        /\ run'.pos = run.pos + 1 /\ run'.was = run.was
    BY <1>4, <1>3, SMTT(60) DEF IInv, TypeOK, Runs
  <2>3. TypeOK'
    BY <1>4, <2>1, <2>2 DEF TypeOK, Typed, Runs, AddSteps, IInv
  <2>4. Copied'
    <3>1. Holds(temp', archive, run.pos, run.gone)
      BY <1>2, <1>3, <1>4, HoldsCopied DEF IInv, Copied, Copy, Piece
    <3>2. \A i \in 1 .. run.pos : Whole(archive[i])
      BY <1>2, <1>3 DEF IInv, Copied, Copy, Piece
    <3>3. run'.pos - 1 = run.pos /\ run'.pos \in 1 .. Len(archive) + 1
      BY <1>2, <2>2
    <3> QED BY <1>3, <2>2, <3>1, <3>2, <3>3 DEF Copied
  <2>5. Clean'
    <3>1. \A i \in DOMAIN temp' : Whole(temp'[i]) /\ temp'[i].name \notin run.gone
      <4>1. DOMAIN temp = 1 .. Len(temp) /\ Len(temp) \in Nat
        BY <1>3 DEF Files
      <4>2. /\ DOMAIN temp' = 1 .. Len(temp) + 1 /\ temp'[Len(temp) + 1] = Piece
            /\ \A i \in DOMAIN temp : temp'[i] = temp[i]
        BY <1>2, <1>3, <1>4, Longer
      <4>3. Whole(Piece) /\ Piece.name \notin run.gone
        BY DEF Copy
      <4>4. \A i \in DOMAIN temp : Whole(temp[i]) /\ temp[i].name \notin run.gone
        BY <1>3 DEF IInv, Clean, Writing
      <4>5. \A i \in DOMAIN temp' : i \in DOMAIN temp \/ i = Len(temp) + 1
        BY <4>1, <4>2
      <4> QED BY <4>2, <4>3, <4>4, <4>5
    <3> QED BY <2>2, <3>1 DEF Clean
  <2>6. temp' # NoFile
    BY <1>2, <1>3, <1>4, Longer
  <2> QED BY <1>3, <1>4, <2>2, <2>3, <2>4, <2>5, <2>6 DEF IInv, Busy, Source, HasTemp,
            Copies, Torn, Wanted, Adding, Reading, Writing, AddSteps
<1>5. CASE /\ GoTo("abandon")
           /\ \/ temp' = temp
              \/ \E cut \in {"header", "payload"} :
                   temp' = Append(temp, [Piece EXCEPT !.part = cut])
  <2>1. temp' \in Files /\ temp' # NoFile
    <3>1. CASE temp' = temp
      BY <3>1, <1>3, EmptyFile
    <3>2. ASSUME NEW cut \in {"header", "payload"},
                 temp' = Append(temp, [Piece EXCEPT !.part = cut])
          PROVE  temp' \in Files /\ temp' # NoFile
      <4>1. [Piece EXCEPT !.part = cut] \in Entries
        BY <1>2, Cuts
      <4> QED BY <3>2, <4>1, <1>3, Longer
    <3> QED BY <1>5, <3>1, <3>2
  <2>2. Typed'
    BY <1>1, <2>1, <1>3 DEF Typed, IInv, TypeOK, Copy
  <2> QED BY <1>3, <1>5, <2>1, <2>2, GivesUp
<1> QED BY <1>4, <1>5 DEF Copy

(* Where copying ends without having been misled, all that is readable has  *)
(* been copied.                                                             *)
LEMMA CopiedAll ==
  ASSUME IInv, run.at = "copy", NEW t \in Files, Starts(temp, Readable(t)),
         run.pos <= Len(archive) => ~Whole(archive[run.pos])
  PROVE  Selects(Readable(t), Readable(archive), run.gone)
<1>1. archive \in Files /\ temp \in Files /\ Len(archive) \in Nat
  BY DEF IInv, TypeOK, Source, HasTemp, Reading, Writing, Files
<1>2. /\ run.pos \in 1 .. Len(archive) + 1
      /\ \A i \in 1 .. run.pos - 1 : Whole(archive[i])
      /\ Holds(temp, archive, run.pos - 1, run.gone)
  BY DEF IInv, Copied
<1>3. /\ run.pos - 1 \in Nat /\ run.pos - 1 <= Len(archive) /\ run.pos - 1 + 1 = run.pos
      /\ run.pos - 1 < Len(archive) => run.pos <= Len(archive)
  BY <1>1, <1>2
<1> DEFINE n == run.pos - 1
<1> HIDE DEF n
<1>4. /\ n \in Nat /\ n <= Len(archive) /\ \A i \in 1 .. n : Whole(archive[i])
      /\ n < Len(archive) => ~Whole(archive[n + 1])
      /\ Holds(temp, archive, n, run.gone)
  BY <1>2, <1>3 DEF n
<1>5. DOMAIN Readable(archive) = 1 .. n /\ \A i \in 1 .. n : Readable(archive)[i] = archive[i]
  BY <1>1, <1>4, ReadsWhole
<1> QED BY <1>1, <1>4, <1>5, HoldsSelects

(* A file of whole entries starts with itself.                              *)
LEMMA WholeFile ==
  ASSUME NEW t \in Files, \A i \in DOMAIN t : Whole(t[i])
  PROVE  /\ DOMAIN Readable(t) = DOMAIN t /\ \A i \in DOMAIN t : Readable(t)[i] = t[i]
         /\ Starts(t, Readable(t))
<1>1. Len(t) \in Nat /\ DOMAIN t = 1 .. Len(t) /\ Len(t) <= Len(t) /\ ~(Len(t) < Len(t))
  BY DEF Files
<1>2. DOMAIN Readable(t) = 1 .. Len(t) /\ \A i \in 1 .. Len(t) : Readable(t)[i] = t[i]
  BY <1>1, ReadsWhole
<1> QED BY <1>1, <1>2 DEF Starts

LEMMA StopCopyingInv ==
  ASSUME IInv, StopCopying
  PROVE  IInv'
<1>1. mishaps' \in 0 .. MaxMishaps
  BY Counted DEF StopCopying, IInv
<1>2. /\ run.at = "copy" /\ archive' = archive /\ temp' = temp /\ held' = held
      /\ misled' \in {TRUE, misled}
  BY DEF StopCopying
<1>3. Typed'
  BY <1>1, <1>2 DEF Typed, IInv, TypeOK
<1>4. temp \in Files /\ archive \in Files /\ temp # NoFile /\ run.pos \in Nat \ {0}
  BY <1>2 DEF IInv, TypeOK, HasTemp, Source, Reading, Writing, Copied
<1>5. \A i \in DOMAIN temp : Whole(temp[i]) /\ temp[i].name \notin run.gone
  BY <1>2 DEF IInv, Clean, Writing
<1>6. CASE GoTo("abandon")
  BY <1>2, <1>3, <1>4, <1>6, GivesUp
<1>7. CASE GoTo("replace") /\ misled'
  BY <1>2, <1>3, <1>4, <1>5, <1>7, Replaces
<1>8. CASE GoTo("replace") /\ (AtEnd(archive, run.pos) \/ CutPayload(archive, run.pos))
  <2>1. run.pos <= Len(archive) => ~Whole(archive[run.pos])
    <3>1. Len(archive) \in Nat /\ DOMAIN archive = 1 .. Len(archive)
      BY <1>4 DEF Files
    <3> QED BY <1>4, <1>8, <3>1 DEF AtEnd, CutPayload, Whole
  <2>2. Selects(Readable(temp), Readable(archive), run.gone)
    BY <1>2, <1>4, <1>5, <2>1, WholeFile, CopiedAll
  <2> QED BY <1>2, <1>3, <1>4, <1>5, <1>8, <2>2, Replaces
<1> QED BY <1>6, <1>7, <1>8 DEF StopCopying

LEMMA CopyGarbledInv ==
  ASSUME IInv, CopyGarbled
  PROVE  IInv'
<1> DEFINE e == [Piece EXCEPT !.data = Garbage, !.part = "whole"]
<1>1. mishaps' \in 0 .. MaxMishaps
  BY Counted DEF CopyGarbled, IInv
<1>2. run.at = "copy" /\ archive' = archive /\ UNCHANGED <<held, misled>>
  BY DEF CopyGarbled
<1>3. /\ ~AtEnd(archive, run.pos) /\ run.pos < Len(archive) /\ ~Whole(Piece)
  BY DEF CopyGarbled, Garbled, Whole, Piece
<1>4. /\ archive \in Files /\ run.pos \in 1 .. Len(archive) /\ Piece \in Entries
  BY <1>2, <1>3, PieceAt
<1>5. temp \in Files /\ temp # NoFile
  BY <1>2 DEF IInv, TypeOK, HasTemp, Writing
<1>6. \A i \in DOMAIN temp : Whole(temp[i]) /\ temp[i].name \notin run.gone
  BY <1>2 DEF IInv, Clean, Writing
<1>7. e \in Entries /\ e.name = Piece.name /\ Whole(e)
  <2>1. e \in Entries /\ e.name = Piece.name /\ e.part = "whole"
    BY <1>4 DEF Entries
  <2> QED BY <2>1, DataAssumption DEF Whole
<1> HIDE DEF e
<1>8. temp' \in Files /\ temp' # NoFile /\ Starts(temp, Readable(temp'))
      /\ \A i \in DOMAIN temp' : Whole(temp'[i]) /\ temp'[i].name \notin run.gone
  <2>1. CASE temp' = temp
    BY <2>1, <1>5, <1>6, WholeFile
  <2>2. CASE Piece.name \notin run.gone /\ temp' = Append(temp, e)
    <3>1. /\ temp' \in Files /\ temp' # NoFile /\ DOMAIN temp' = 1 .. Len(temp) + 1
          /\ temp'[Len(temp) + 1] = e /\ \A i \in DOMAIN temp : temp'[i] = temp[i]
      BY <2>2, <1>5, <1>7, Longer
    <3>2. Len(temp) \in Nat /\ DOMAIN temp = 1 .. Len(temp)
      BY <1>5 DEF Files
    <3>3. \A i \in DOMAIN temp' : i \in DOMAIN temp \/ i = Len(temp) + 1
      BY <3>1, <3>2
    <3>4. \A i \in DOMAIN temp' : Whole(temp'[i]) /\ temp'[i].name \notin run.gone
      BY <3>1, <3>3, <1>6, <1>7, <2>2
    <3>5. DOMAIN temp \subseteq DOMAIN temp'
      BY <3>1, <3>2
    <3>6. Starts(temp, Readable(temp'))
      BY <3>1, <3>4, <3>5, WholeFile DEF Starts
    <3> QED BY <3>1, <3>4, <3>6
  <2> QED BY <2>1, <2>2 DEF CopyGarbled, e
<1>9. Typed'
  BY <1>1, <1>2, <1>8 DEF Typed, IInv, TypeOK
<1>10. CASE GoTo("abandon")
  BY <1>2, <1>8, <1>9, <1>10, GivesUp
<1>11. CASE GoTo("replace")
  <2>1. Selects(Readable(temp'), Readable(archive), run.gone)
    BY <1>2, <1>3, <1>8, CopiedAll DEF Piece
  <2> QED BY <1>2, <1>8, <1>9, <1>11, <2>1, Replaces
<1> QED BY <1>10, <1>11 DEF CopyGarbled

LEMMA AbandonInv ==
  ASSUME IInv, Abandon
  PROVE  IInv'
<1>1. mishaps' \in 0 .. MaxMishaps
  BY Counted DEF Abandon, IInv
<1>2. Typed'
  BY <1>1 DEF Typed, IInv, TypeOK, Abandon
<1> QED BY <1>2, Ends DEF Abandon

LEMMA DeleteArchiveInv ==
  ASSUME IInv, DeleteArchive
  PROVE  IInv'
<1>1. mishaps' \in 0 .. MaxMishaps
  BY Counted DEF DeleteArchive, IInv
<1>2. Typed'
  BY <1>1 DEF Typed, IInv, TypeOK, DeleteArchive
<1>3. /\ run' \in Runs /\ run'.at = "rename" /\ run'.gone = run.gone /\ run'.was = run.was
      /\ rc' = rc /\ run.at = "replace" /\ temp' = temp /\ misled' = misled
  BY Moves DEF IInv, TypeOK, Runs, GoTo, DeleteArchive, RewriteSteps
<1>4. rc = "none" /\ run.was # NoFile /\ archive' \in {run.was, NoFile} /\ temp # NoFile
  BY <1>3 DEF IInv, Busy, Source, HasTemp, Reading, Writing, DeleteArchive
<1>5. TypeOK'
  BY <1>2, <1>3, <1>4 DEF TypeOK, Typed, Runs, AddSteps
<1>6. Clean' /\ Copies'
  BY <1>3 DEF IInv, Clean, Copies, Writing
<1> QED BY <1>3, <1>4, <1>5, <1>6 DEF IInv, Busy, Source, HasTemp,
          Copied, Torn, Wanted, Adding, Reading, Writing, AddSteps

LEMMA RenameTempInv ==
  ASSUME IInv, RenameTemp
  PROVE  IInv'
<1>1. mishaps' \in 0 .. MaxMishaps
  BY Counted DEF RenameTemp, IInv
<1>2. archive' \in Files \cup {NoFile} /\ temp' \in Files \cup {NoFile}
  BY DEF IInv, TypeOK, RenameTemp
<1>3. Typed'
  BY <1>1, <1>2 DEF Typed, IInv, TypeOK, RenameTemp
<1> QED BY <1>3, Ends DEF RenameTemp

----------------------------------------------------------------------------
(* Additions.                                                               *)

LEMMA OneMore ==
  ASSUME NEW S, NEW w \in Seq(S), NEW t \in Seq(S), NEW p \in 1 .. Len(t)
  PROVE  /\ w \o SubSeq(t, 1, p - 1) \in Seq(S)
         /\ Append(w \o SubSeq(t, 1, p - 1), t[p]) = w \o SubSeq(t, 1, p)
<1>1. /\ p \in Nat /\ p - 1 \in Nat /\ Len(t) \in Nat /\ p <= Len(t) /\ Len(w) \in Nat
      /\ DOMAIN t = 1 .. Len(t)
  OBVIOUS
<1>2. SubSeq(t, 1, p - 1) \in Seq(S) /\ SubSeq(t, 1, p) \in Seq(S)
      /\ Len(SubSeq(t, 1, p - 1)) = p - 1 /\ Len(SubSeq(t, 1, p)) = p
  BY <1>1
<1> DEFINE a == SubSeq(t, 1, p - 1)
           b == SubSeq(t, 1, p)
<1>3. /\ \A i \in 1 .. p - 1 : a[i] = t[i]
      /\ \A i \in 1 .. p : b[i] = t[i]
  BY <1>1
<1>4. t[p] \in S
  BY <1>1
<1> HIDE DEF a, b
<1>5. Append(a, t[p]) = b
  BY <1>1, <1>2, <1>3, <1>4 DEF a, b
<1>6. a \in Seq(S) /\ b \in Seq(S)
  BY <1>2 DEF a, b
<1>7. Append(w \o a, t[p]) = w \o Append(a, t[p])
  <2>1. \A v \in Seq(S) : (w \o a) \o v = w \o (a \o v)
    <3>1. SUFFICES ASSUME NEW v \in Seq(S)
                   PROVE  (w \o a) \o v = w \o (a \o v)
      OBVIOUS
    <3> QED BY <1>6, ConcatAssociative, SMTT(60)
  <2>2. <<t[p]>> \in Seq(S) /\ w \o a \in Seq(S)
    BY <1>4, <1>6
  <2>3. Append(w \o a, t[p]) = (w \o a) \o <<t[p]>>
    BY <1>4, <2>2, AppendIsConcat
  <2>4. Append(a, t[p]) = a \o <<t[p]>>
    BY <1>4, <1>6, AppendIsConcat
  <2> QED BY <2>1, <2>2, <2>3, <2>4
<1>8. w \o a \in Seq(S)
  BY <1>6
<1>9. w \o a \in Seq(S) /\ Append(w \o a, t[p]) = w \o b
  BY <1>5, <1>7, <1>8
<1> QED BY <1>9 DEF a, b

LEMMA HoldInv ==
  ASSUME IInv, Hold \/ Release
  PROVE  IInv'
<1>1. UNCHANGED <<archive, temp, run, rc, misled, mishaps>> /\ held' \in BOOLEAN
  BY DEF Hold, Release
<1>2. TypeOK'
  BY <1>1 DEF IInv, TypeOK
<1> QED BY <1>1, <1>2 DEF IInv, Busy, Source, HasTemp, Clean, Copied, Copies,
          Torn, Wanted, Adding, Before, Added

LEMMA StutterInv ==
  ASSUME IInv, UNCHANGED vars
  PROVE  IInv'
<1>1. UNCHANGED <<archive, temp, run, rc, misled, mishaps>> /\ held' = held
  BY DEF vars
<1>2. TypeOK'
  BY <1>1 DEF IInv, TypeOK
<1> QED BY <1>1, <1>2, ZenonT(60) DEF IInv, Busy, Source, HasTemp, Clean, Copied, Copies,
          Torn, Wanted, Adding, Before, Added

(* What an addition appends is an entry.                                    *)
LEMMA AddedEntry ==
  ASSUME IInv, run.at \in AddSteps
  PROVE  /\ run.pos \in 1 .. Len(run.todo) /\ run.todo \in Seq(Entries)
         /\ Added \in Entries /\ Whole(Added) /\ archive \in Files
         /\ Len(run.todo) \in Nat
<1>1. run.pos \in 1 .. Len(run.todo) /\ run.todo \in Seq(Entries) /\ archive \in Files
  BY DEF IInv, TypeOK, Torn
<1>2. run.pos \in DOMAIN run.todo /\ Len(run.todo) \in Nat
  BY <1>1
<1> QED BY <1>1, <1>2 DEF IInv, Wanted, Added

LEMMA ResetInv ==
  ASSUME IInv, Reset
  PROVE  IInv'
<1>1. mishaps' \in 0 .. MaxMishaps
  BY Counted DEF Reset, IInv
<1>2. archive' \in Files \cup {NoFile}
  <2>1. CASE archive' = archive
    BY <2>1 DEF IInv, TypeOK
  <2>2. CASE run.at = "header" /\ archive' = Append(archive, [Added EXCEPT !.part = "header"])
    <3>1. [Added EXCEPT !.part = "header"] \in Entries /\ archive \in Files
      BY <2>2, AddedEntry, Cuts DEF AddSteps
    <3> QED BY <2>2, <3>1, Longer
  <2> QED BY <2>1, <2>2 DEF Reset
<1>3. Typed'
  BY <1>1, <1>2 DEF Typed, IInv, TypeOK, Reset
<1> QED BY <1>3, Ends DEF Reset

LEMMA StartAddInv ==
  ASSUME IInv, NEW todo \in Additions, StartAdd(todo)
  PROVE  IInv'
<1>1. mishaps' \in 0 .. MaxMishaps
  BY Counted DEF StartAdd, IInv
<1>2. archive' \in Files \cup {NoFile} /\ misled' \in BOOLEAN
  BY EmptyFile DEF IInv, TypeOK, StartAdd
<1>3. Typed'
  BY <1>1, <1>2 DEF Typed, IInv, TypeOK, StartAdd
<1>4. CASE Return("fail")
  BY <1>3, <1>4, Ends
<1>5. ASSUME NEW was \in Files, archive' \in Files, archive' = was \/ misled', rc' = "none",
             run' = [at |-> "header", gone |-> {}, todo |-> todo, pos |-> 1, was |-> was]
      PROVE  IInv'
  <2>1. /\ todo \in Seq(Entries) /\ Len(todo) \in Nat \ {0}
        /\ \A i \in DOMAIN todo : todo[i].part = "whole" /\ todo[i] # Mark
    <3>1. todo \in Seq({e \in Entries : e.part = "whole"}) /\ todo # << >>
      BY FilesAssumption
    <3>2. \A i \in DOMAIN todo : todo[i] \in Entries /\ todo[i].part = "whole"
      BY <3>1
    <3> QED BY <3>1, <3>2, DataAssumption
  <2>2. /\ run' \in Runs /\ run'.at = "header" /\ run'.pos = 1 /\ run'.was = was
        /\ run'.todo = todo
    BY <1>5, <2>1 DEF Runs, AddSteps
  <2>3. TypeOK'
    BY <1>3, <1>5, <2>1, <2>2 DEF TypeOK, Typed, Runs, AddSteps
  <2>4. Adding'
    <3>1. was \o SubSeq(todo, 1, 1 - 1) = was
      BY <2>1 DEF Files
    <3> QED BY <1>5, <2>2, <3>1, EmptyFile DEF Adding, Before
  <2>5. archive' # NoFile
    BY <1>5, EmptyFile
  <2>6. Wanted'
    BY <2>1, <2>2 DEF Wanted, Whole
  <2> QED BY <1>5, <2>2, <2>3, <2>4, <2>5, <2>6 DEF IInv, Busy, Source, HasTemp, Clean,
            Copied, Copies, Torn, Reading, Writing
<1>6. CASE /\ archive' = (IF archive = NoFile THEN << >> ELSE archive)
           /\ run' = [at |-> "header", gone |-> {}, todo |-> todo, pos |-> 1, was |-> archive']
           /\ rc' = "none"
  <2>1. archive' \in Files
    BY <1>6, EmptyFile DEF IInv, TypeOK
  <2> QED BY <1>5, <1>6, <2>1
<1>7. CASE /\ archive # NoFile /\ archive' = << >> /\ misled' = TRUE /\ rc' = "none"
           /\ run' = [at |-> "header", gone |-> {}, todo |-> todo, pos |-> 1, was |-> archive]
  <2>1. archive \in Files /\ archive' \in Files
    BY <1>7, EmptyFile DEF IInv, TypeOK
  <2> QED BY <1>5, <1>7, <2>1
<1> QED BY <1>4, <1>6, <1>7 DEF StartAdd

(* What the archive is when the entry at hand has been added.               *)
LEMMA Advances ==
  ASSUME IInv, run.at \in AddSteps, ~misled
  PROVE  /\ run.was \in Files /\ run.was # NoFile
         /\ Append(Before, Added) = run.was \o SubSeq(run.todo, 1, run.pos)
         /\ Before \in Files
<1>1. run.was \in Seq(Entries \cup {Mark}) /\ run.was # NoFile
  BY DEF IInv, Adding, TypeOK, Files
<1>2. run.pos \in 1 .. Len(run.todo) /\ run.todo \in Seq(Entries \cup {Mark})
  BY AddedEntry
<1>3. /\ run.was \o SubSeq(run.todo, 1, run.pos - 1) \in Seq(Entries \cup {Mark})
      /\ Append(run.was \o SubSeq(run.todo, 1, run.pos - 1), run.todo[run.pos])
           = run.was \o SubSeq(run.todo, 1, run.pos)
  BY <1>1, <1>2, OneMore
<1> QED BY <1>1, <1>3 DEF Before, Added, Files

(* The step to the next entry, once this one is whole in the archive.       *)
LEMMA NextEntryInv ==
  ASSUME IInv, run.at \in AddSteps, Typed', archive' # NoFile, misled' = misled,
         ~misled => archive' = Append(Before, Added), NextEntry
  PROVE  IInv'
<1>1. /\ run.pos \in 1 .. Len(run.todo) /\ run.todo \in Seq(Entries)
      /\ Len(run.todo) \in Nat /\ run \in Runs
  BY AddedEntry DEF IInv, TypeOK, Runs
<1>2. CASE Return("ok")
  BY <1>2, Ends
<1>3. CASE /\ run.pos # Len(run.todo) /\ rc' = rc
           /\ run' = [run EXCEPT !.at = "header", !.pos = @ + 1]
  <2>1. /\ run' \in Runs /\ run'.at = "header" /\ run'.pos = run.pos + 1
        /\ run'.was = run.was /\ run'.todo = run.todo
    <3>1. run.pos + 1 \in Nat
      BY <1>1
    <3> QED BY <1>1, <1>3, <3>1 DEF Runs, AddSteps
  <2>2. rc' = "none"
    BY <1>3 DEF IInv, Busy, AddSteps
  <2>3. run'.pos \in 1 .. Len(run.todo) /\ run'.pos - 1 = run.pos
    BY <1>1, <1>3, <2>1
  <2>4. TypeOK'
    BY <2>1, <2>2, <2>3 DEF TypeOK, Typed, Runs, AddSteps
  <2>5. Wanted'
    BY <2>1 DEF IInv, Wanted
  <2>6. Before' = run.was \o SubSeq(run.todo, 1, run.pos)
    BY <2>1, <2>3 DEF Before
  <2>7. Adding'
    <3>1. CASE ~misled
      BY <3>1, <2>1, <2>6, Advances DEF Adding
    <3>2. CASE misled
      BY <3>2 DEF Adding
    <3> QED BY <3>1, <3>2
  <2> QED BY <2>1, <2>2, <2>4, <2>5, <2>7 DEF IInv, Busy, Source, HasTemp, Clean,
            Copied, Copies, Torn, Reading, Writing
<1> QED BY <1>2, <1>3 DEF NextEntry

LEMMA WriteHeaderInv ==
  ASSUME IInv, WriteHeader
  PROVE  IInv'
<1>1. mishaps' \in 0 .. MaxMishaps
  BY Counted DEF WriteHeader, IInv
<1>2. run.at = "header" /\ UNCHANGED <<temp, held, misled>>
  BY DEF WriteHeader
<1>3. /\ archive \in Files /\ archive # NoFile /\ Added \in Entries /\ run \in Runs
      /\ run.pos \in 1 .. Len(run.todo)
  BY <1>2, AddedEntry, EmptyFile DEF AddSteps, IInv, TypeOK, Runs
<1>4. ASSUME archive' \in Files  PROVE Typed' /\ archive' # NoFile
  BY <1>1, <1>2, <1>4, EmptyFile DEF Typed, IInv, TypeOK
<1>5. CASE archive' = Append(archive, Added) /\ NextEntry
  <2>1. archive' \in Files
    BY <1>3, <1>5, Longer
  <2>2. ~misled => archive' = Append(Before, Added)
    BY <1>2, <1>5 DEF IInv, Adding, AddSteps
  <2> QED BY <1>2, <1>4, <1>5, <2>1, <2>2, NextEntryInv DEF AddSteps
<1>6. CASE GoTo("payload") /\ archive' = Append(archive, [Added EXCEPT !.part = "payload"])
  <2> DEFINE cut == [Added EXCEPT !.part = "payload"]
  <2>1. cut \in Entries /\ ~Whole(cut)
    BY <1>3, Cuts
  <2>2. /\ run' \in Runs /\ run'.at = "payload" /\ run'.was = run.was
        /\ run'.todo = run.todo /\ run'.pos = run.pos
    BY <1>3, <1>6, Moves DEF GoTo, AddSteps
  <2>3. rc' = rc /\ rc = "none"
    BY <1>2, <1>6 DEF GoTo, IInv, Busy
  <2>4. /\ archive' \in Files /\ archive' # << >> /\ Len(archive') = Len(archive) + 1
        /\ archive'[Len(archive) + 1] = cut
    BY <1>3, <1>6, <2>1, Longer
  <2>5. Torn'
    BY <1>4, <2>1, <2>2, <2>4 DEF Torn
  <2>6. TypeOK'
    BY <1>3, <1>4, <2>2, <2>3, <2>4 DEF TypeOK, Typed, Runs, AddSteps
  <2>7. Wanted'
    BY <1>2, <2>2 DEF IInv, Wanted, AddSteps
  <2>8. Adding'
    <3>1. Before' = Before /\ Added' = Added
      BY <2>2 DEF Before, Added
    <3>2. ~misled => archive = Before /\ run.was # NoFile
      BY <1>2 DEF IInv, Adding, AddSteps
    <3> QED BY <1>2, <1>6, <2>2, <3>1, <3>2 DEF Adding
  <2> QED BY <2>2, <2>3, <2>5, <2>6, <2>7, <2>8 DEF IInv, Busy, Source, HasTemp,
            Clean, Copied, Copies, Reading, Writing
<1>7. CASE /\ Return("fail")
           /\ \/ archive' = archive
              \/ archive' = Append(archive, [Added EXCEPT !.part = "header"])
  <2>1. [Added EXCEPT !.part = "header"] \in Entries
    BY <1>3, Cuts
  <2>2. archive' \in Files
    BY <1>3, <1>7, <2>1, Longer
  <2> QED BY <1>4, <1>7, <2>2, Ends
<1> QED BY <1>5, <1>6, <1>7 DEF WriteHeader

LEMMA Completed ==
  ASSUME NEW S, NEW b \in Seq(S), NEW cut \in S, NEW e \in S
  PROVE  [Append(b, cut) EXCEPT ![Len(b) + 1] = e] = Append(b, e)
<1>1. Len(b) \in Nat /\ DOMAIN b = 1 .. Len(b)
  OBVIOUS
<1> DEFINE x == Append(b, cut)
           y == Append(b, e)
           z == [x EXCEPT ![Len(b) + 1] = e]
<1>2. /\ x \in Seq(S) /\ DOMAIN x = 1 .. Len(b) + 1 /\ \A i \in 1 .. Len(b) : x[i] = b[i]
  OBVIOUS
<1>3. /\ y \in Seq(S) /\ DOMAIN y = 1 .. Len(b) + 1 /\ y[Len(b) + 1] = e
      /\ \A i \in 1 .. Len(b) : y[i] = b[i]
  OBVIOUS
<1> HIDE DEF x, y
<1>4. z = [i \in 1 .. Len(b) + 1 |-> IF i = Len(b) + 1 THEN e ELSE x[i]]
  BY <1>1, <1>2
<1>5. y = [i \in 1 .. Len(b) + 1 |-> y[i]]
  BY <1>1, <1>3
<1>6. \A i \in 1 .. Len(b) + 1 : (IF i = Len(b) + 1 THEN e ELSE x[i]) = y[i]
  BY <1>1, <1>2, <1>3
<1>7. z = y
  BY <1>4, <1>5, <1>6
<1> QED BY <1>7 DEF x, y

LEMMA WritePayloadInv ==
  ASSUME IInv, WritePayload
  PROVE  IInv'
<1>1. mishaps' \in 0 .. MaxMishaps
  BY Counted DEF WritePayload, IInv
<1>2. run.at = "payload" /\ UNCHANGED <<temp, held, misled>>
  BY DEF WritePayload
<1>3. /\ archive \in Files /\ archive # NoFile /\ Added \in Entries
      /\ archive # << >> /\ ~Whole(archive[Len(archive)])
  BY <1>2, AddedEntry, EmptyFile DEF AddSteps, IInv, Torn
<1>4. ASSUME archive' \in Files  PROVE Typed' /\ archive' # NoFile
  BY <1>1, <1>2, <1>4, EmptyFile DEF Typed, IInv, TypeOK
<1>5. CASE archive' = [archive EXCEPT ![Len(archive)] = Added] /\ NextEntry
  <2>1. archive' \in Files
    BY <1>3, <1>5, ReadsCompleted
  <2>2. ~misled => archive' = Append(Before, Added)
    <3>1. SUFFICES ASSUME ~misled PROVE archive' = Append(Before, Added)
      OBVIOUS
    <3> DEFINE cut == [Added EXCEPT !.part = "payload"]
               b == Before
    <3>2. b \in Files /\ archive = Append(b, cut) /\ cut \in Entries
      BY <1>2, <1>3, <3>1, Advances, Cuts DEF IInv, Adding, AddSteps
    <3> HIDE DEF cut, b
    <3>3. Len(archive) = Len(b) + 1
      BY <3>2, Longer
    <3>4. [Append(b, cut) EXCEPT ![Len(b) + 1] = Added] = Append(b, Added)
      <4>1. b \in Seq(Entries \cup {Mark}) /\ cut \in Entries \cup {Mark}
            /\ Added \in Entries \cup {Mark}
        BY <1>3, <3>2 DEF Files
      <4> QED BY <4>1, Completed
    <3> QED BY <1>5, <3>2, <3>3, <3>4 DEF b
  <2> QED BY <1>2, <1>4, <1>5, <2>1, <2>2, NextEntryInv DEF AddSteps
<1>6. CASE archive' = archive /\ Return("fail")
  BY <1>3, <1>4, <1>6, Ends
<1> QED BY <1>5, <1>6 DEF WritePayload

(* The inductive invariant: a running rewrite has copied what it has read,  *)
(* a running addition has added what it has written.                        *)
THEOREM ArchiveInvariance == Spec => []IInv
<1>1. Init => IInv
  BY InitInv
<1>2. IInv /\ [Next]_vars => IInv'
  <2> SUFFICES ASSUME IInv, [Next]_vars PROVE IInv'
    OBVIOUS
  <2>1. ASSUME NEW gone \in SUBSET Names \ {{}}, StartDelete(gone)  PROVE IInv'
    BY <2>1, StartDeleteInv
  <2>2. CASE Rewrite
    BY <2>2, OpenTempInv, SkipInv, CopyInv, StopCopyingInv, CopyGarbledInv, AbandonInv,
       DeleteArchiveInv, RenameTempInv DEF Rewrite
  <2>3. ASSUME NEW todo \in Additions, StartAdd(todo)  PROVE IInv'
    BY <2>3, StartAddInv
  <2>4. CASE WriteHeader \/ WritePayload
    BY <2>4, WriteHeaderInv, WritePayloadInv
  <2>5. CASE Hold \/ Release \/ Reset
    BY <2>5, HoldInv, ResetInv
  <2>6. CASE UNCHANGED vars
    BY <2>6, StutterInv
  <2> QED BY <2>1, <2>2, <2>3, <2>4, <2>5, <2>6 DEF Next
<1> QED BY <1>1, <1>2, PTL DEF Spec

(* Every variable of ArchiveFile keeps its kind.                            *)
THEOREM ArchiveTypes == Spec => []TypeOK
<1>1. IInv => TypeOK
  BY DEF IInv
<1> QED BY <1>1, ArchiveInvariance, PTL

----------------------------------------------------------------------------
(* What a step does to what can be read.                                    *)

LEMMA AddingEnds ==
  ASSUME [Next]_vars, IInv, run.at \in AddSteps, rc' = "ok"
  PROVE  /\ run.pos = Len(run.todo)
         /\ ~misled => archive' = Append(Before, Added)
<1>1. rc = "none" /\ run.at \notin RewriteSteps /\ run.at # "idle"
  BY DEF IInv, Busy, AddSteps, RewriteSteps
<1>2. CASE WriteHeader
  <2>1. Added.data = Empty /\ archive' = Append(archive, Added) /\ run.pos = Len(run.todo)
    BY <1>1, <1>2 DEF WriteHeader, NextEntry, Return, GoTo
  <2>2. run.at = "header"
    BY <1>2 DEF WriteHeader
  <2> QED BY <2>1, <2>2 DEF IInv, Adding, AddSteps
<1>3. CASE WritePayload
  <2>1. /\ archive' = [archive EXCEPT ![Len(archive)] = Added]
        /\ run.pos = Len(run.todo) /\ run.at = "payload"
    BY <1>1, <1>3 DEF WritePayload, NextEntry, Return
  <2>2. ASSUME ~misled PROVE archive' = Append(Before, Added)
    <3> DEFINE cut == [Added EXCEPT !.part = "payload"]
               b == Before
    <3>1. b \in Files /\ archive = Append(b, cut) /\ cut \in Entries /\ Added \in Entries
      BY <2>1, <2>2, Advances, AddedEntry, Cuts DEF IInv, Adding, AddSteps
    <3> HIDE DEF cut, b
    <3>2. Len(archive) = Len(b) + 1
      BY <3>1, Longer
    <3>3. [Append(b, cut) EXCEPT ![Len(b) + 1] = Added] = Append(b, Added)
      <4>1. b \in Seq(Entries \cup {Mark}) /\ cut \in Entries \cup {Mark}
            /\ Added \in Entries \cup {Mark}
        BY <3>1 DEF Files
      <4> QED BY <4>1, Completed
    <3> QED BY <2>1, <3>1, <3>2, <3>3 DEF b
  <2> QED BY <2>1, <2>2
<1>4. CASE Hold \/ Release \/ Reset \/ UNCHANGED vars
  BY <1>1, <1>4 DEF Hold, Release, Reset, Return, vars
<1> QED BY <1>1, <1>2, <1>3, <1>4 DEF Next, StartDelete, StartAdd, Rewrite, OpenTemp, Skip,
          Copy, StopCopying, CopyGarbled, Abandon, DeleteArchive, RenameTemp, RewriteSteps

(* What lh_writer_add has reported as added can be read behind what the     *)
(* archive held.                                                            *)
THEOREM AdditionsAreRead == Spec => AddedIsReadable
<1>1. ASSUME IInv, [Next]_vars, rc' = "ok", run.at \in AddSteps, ~misled,
             Readable(run.was) = run.was
      PROVE  Readable(archive') = run.was \o run.todo
  <2>1. archive' = Append(Before, Added) /\ run.pos = Len(run.todo)
    BY <1>1, AddingEnds
  <2>2. /\ run.was \in Files /\ run.todo \in Seq(Entries) /\ Len(run.todo) \in Nat
        /\ Append(Before, Added) = run.was \o SubSeq(run.todo, 1, run.pos)
    BY <1>1, AddedEntry, Advances
  <2>3. SubSeq(run.todo, 1, Len(run.todo)) = run.todo
    BY <2>2
  <2>4. archive' = run.was \o run.todo
    BY <2>1, <2>2, <2>3
  <2>5. \A i \in DOMAIN run.was : Whole(run.was[i])
    <3>1. Len(run.was) \in Nat /\ DOMAIN run.was = 1 .. Len(run.was)
      BY <2>2 DEF Files
    <3>2. DOMAIN Readable(run.was) = {n \in DOMAIN run.was : \A i \in 1 .. n : Whole(run.was[i])}
      BY DEF Readable
    <3>3. \A n \in DOMAIN run.was : \A i \in 1 .. n : Whole(run.was[i])
      BY <1>1, <3>2
    <3> QED BY <3>1, <3>3
  <2>6. \A i \in DOMAIN run.todo : Whole(run.todo[i])
    BY <1>1 DEF IInv, Wanted
  <2> DEFINE w == run.was
             t == run.todo
             f == w \o t
  <2>7. /\ w \in Seq(Entries \cup {Mark}) /\ t \in Seq(Entries \cup {Mark})
        /\ \A i \in DOMAIN w : Whole(w[i])
        /\ \A i \in DOMAIN t : Whole(t[i])
    BY <2>2, <2>5, <2>6 DEF Files
  <2> HIDE DEF w, t
  <2>8. /\ f \in Seq(Entries \cup {Mark}) /\ Len(f) = Len(w) + Len(t)
        /\ DOMAIN f = 1 .. Len(w) + Len(t)
        /\ \A i \in 1 .. Len(w) + Len(t) : f[i] = IF i <= Len(w) THEN w[i] ELSE t[i - Len(w)]
        /\ Len(w) \in Nat /\ Len(t) \in Nat
        /\ DOMAIN w = 1 .. Len(w) /\ DOMAIN t = 1 .. Len(t)
    BY <2>7
  <2> HIDE DEF f
  <2>9. ASSUME NEW i \in DOMAIN f  PROVE Whole(f[i])
    <3>1. CASE i <= Len(w)
      BY <2>7, <2>8, <3>1
    <3>2. CASE i > Len(w)
      <4>1. i - Len(w) \in 1 .. Len(t)
        BY <2>8, <3>2
      <4>2. f[i] = t[i - Len(w)]
        BY <2>8, <3>2
      <4>3. Whole(t[i - Len(w)])
        BY <2>7, <2>8, <4>1
      <4> QED BY <4>2, <4>3
    <3> QED BY <2>8, <3>1, <3>2
  <2>10. f \in Files
    BY <2>8 DEF Files
  <2>11. Readable(f) = f
    <3>1. DOMAIN Readable(f) = DOMAIN f /\ \A i \in DOMAIN f : Readable(f)[i] = f[i]
      BY <2>9, <2>10, WholeFile
    <3>2. Readable(f) = [i \in DOMAIN Readable(f) |-> Readable(f)[i]]
      BY DEF Readable
    <3>3. f = [i \in DOMAIN f |-> f[i]]
      BY <2>8
    <3> QED BY <3>1, <3>2, <3>3
  <2> QED BY <2>4, <2>11 DEF f, w, t
<1>2. IInv /\ [Next]_vars =>
        [rc' = "ok" /\ run.at \in AddSteps /\ ~misled /\ Readable(run.was) = run.was =>
           Readable(archive') = run.was \o run.todo]_vars
  BY <1>1
<1> QED BY <1>2, ArchiveInvariance, PTL DEF Spec, AddedIsReadable

(* A rewrite that reports success has put a complete copy without the       *)
(* deleted entries in the archive's place.                                  *)
THEOREM DeletedIsGone == Spec => OkMeansGone
<1>1. ASSUME IInv, Next, rc' = "ok", run.at \in RewriteSteps
      PROVE  /\ archive' # NoFile /\ temp' = NoFile
             /\ \A i \in DOMAIN archive' : Whole(archive'[i]) /\ archive'[i].name \notin run.gone
  <2>1. rc = "none" /\ run.at # "idle" /\ run.at \notin AddSteps
    BY <1>1 DEF IInv, Busy, RewriteSteps, AddSteps
  <2>2. CASE RenameTemp
    <3>1. archive' = temp /\ temp' = NoFile /\ run.at = "rename"
      BY <1>1, <2>2 DEF RenameTemp, Return
    <3> QED BY <1>1, <3>1 DEF IInv, HasTemp, Clean, Writing
  <2>3. CASE OpenTemp \/ Skip \/ Copy \/ StopCopying \/ CopyGarbled \/ Abandon
             \/ DeleteArchive \/ Hold \/ Release \/ Reset
    BY <1>1, <2>1, <2>3 DEF OpenTemp, Skip, Copy, StopCopying, CopyGarbled, Abandon,
       DeleteArchive, Hold, Release, Reset, Return, GoTo
  <2> QED BY <1>1, <2>1, <2>2, <2>3 DEF Next, Rewrite, StartDelete, StartAdd, WriteHeader,
            WritePayload, AddSteps
<1>2. IInv /\ [Next]_vars =>
        [rc' = "ok" /\ run.at \in RewriteSteps =>
           /\ archive' # NoFile /\ temp' = NoFile
           /\ \A i \in DOMAIN archive' : Whole(archive'[i]) /\ archive'[i].name \notin run.gone]_vars
  BY <1>1
<1> QED BY <1>2, ArchiveInvariance, PTL DEF Spec, OkMeansGone

(* A rewrite that reports an error has not changed the archive, except that *)
(* a failing Rename leaves it under the temporary name.                     *)
THEOREM FailuresKeep == Spec => FailureKeepsArchive
<1>1. ASSUME IInv, Next, rc' = "fail", run.at \in RewriteSteps
      PROVE  \/ archive' = run.was
             \/ archive' = NoFile /\ temp' # NoFile /\ mishaps' > mishaps
  <2>1. rc = "none" /\ run.at # "idle" /\ run.at \notin AddSteps
    BY <1>1 DEF IInv, Busy, RewriteSteps, AddSteps
  <2>2. CASE RenameTemp
    <3>1. run.at = "rename" /\ archive' = archive /\ temp' = temp
          /\ (archive # NoFile \/ Mishap)
      BY <1>1, <2>2 DEF RenameTemp, Return
    <3>2. archive \in {run.was, NoFile} /\ temp # NoFile /\ mishaps \in Int
      BY <1>1, <3>1 DEF IInv, Source, HasTemp, Writing, TypeOK
    <3> QED BY <3>1, <3>2 DEF Mishap
  <2>3. CASE OpenTemp \/ Abandon
    BY <1>1, <2>3 DEF OpenTemp, Abandon, IInv, Source, Reading, Abandon
  <2>4. CASE Skip \/ Copy \/ StopCopying \/ CopyGarbled
             \/ DeleteArchive \/ Hold \/ Release \/ Reset
    BY <1>1, <2>1, <2>4 DEF Skip, Copy, StopCopying, CopyGarbled,
       DeleteArchive, Hold, Release, Reset, Return, GoTo
  <2> QED BY <1>1, <2>1, <2>2, <2>3, <2>4 DEF Next, Rewrite, StartDelete, StartAdd,
            WriteHeader, WritePayload, AddSteps
<1>2. IInv /\ [Next]_vars =>
        [rc' = "fail" /\ run.at \in RewriteSteps =>
           \/ archive' = run.was
           \/ archive' = NoFile /\ temp' # NoFile /\ mishaps' > mishaps]_vars
  BY <1>1
<1> QED BY <1>2, ArchiveInvariance, PTL DEF Spec, FailureKeepsArchive

LEMMA StaysReadable ==
  ASSUME archive' = archive, temp' = temp \/ archive # NoFile
  PROVE  Starts(Contents, Contents')
<1>1. Contents' = Contents
  BY DEF Contents
<1> QED BY <1>1 DEF Starts

(* Every step of a rewrite or an addition, failing calls and resets          *)
(* included, leaves all entries readable but those that are deleted.         *)
THEOREM RestIsKept == Spec => KeepsTheRest
<1> DEFINE Kept == \/ Starts(Contents, Contents')
                   \/ Selects(Contents', Contents, run.gone)
                   \/ misled'
                   \/ run.at = "idle" /\ archive = NoFile
<1>1. ASSUME IInv, Next  PROVE Kept
  <2>1. CASE OpenTemp \/ Skip \/ Copy \/ StopCopying \/ CopyGarbled \/ Abandon
    <3>1. run.at \in Reading /\ archive' = archive
      BY <2>1 DEF OpenTemp, Skip, Copy, StopCopying, CopyGarbled, Abandon, Reading
    <3>2. archive # NoFile
      BY <1>1, <3>1 DEF IInv, Source
    <3> QED BY <3>1, <3>2, StaysReadable
  <2>2. CASE DeleteArchive
    <3>1. run.at = "replace" /\ temp' = temp /\ misled' = misled /\ archive' \in {archive, NoFile}
      BY <2>2 DEF DeleteArchive
    <3>2. CASE archive' = archive
      BY <3>1, <3>2, StaysReadable
    <3>3. CASE archive' = NoFile /\ ~misled
      <4>1. archive = run.was /\ archive # NoFile /\ temp # NoFile
        BY <1>1, <3>1 DEF IInv, Source, Reading, HasTemp, Writing
      <4>2. Contents = Readable(run.was) /\ Contents' = Readable(temp)
        BY <3>1, <3>3, <4>1 DEF Contents
      <4>3. Selects(Readable(temp), Readable(run.was), run.gone)
        BY <1>1, <3>1, <3>3 DEF IInv, Copies
      <4> QED BY <4>2, <4>3
    <3> QED BY <3>1, <3>2, <3>3
  <2>3. CASE RenameTemp
    <3>1. temp # NoFile
      BY <1>1, <2>3 DEF IInv, HasTemp, Writing, RenameTemp
    <3>2. CASE archive' = archive /\ temp' = temp
      BY <3>2, StaysReadable
    <3>3. CASE archive = NoFile /\ archive' = temp
      <4>1. Contents' = Contents
        BY <3>1, <3>3 DEF Contents
      <4> QED BY <4>1 DEF Starts
    <3> QED BY <2>3, <3>2, <3>3 DEF RenameTemp
  <2>4. CASE WriteHeader \/ WritePayload \/ Reset
    <3>1. CASE archive' = archive /\ temp' = temp
      BY <3>1, StaysReadable
    <3>2. ASSUME run.at \in AddSteps, Starts(Readable(archive), Readable(archive')),
                 archive' # NoFile
          PROVE  Kept
      <4>1. archive # NoFile
        BY <1>1, <3>2 DEF IInv, Torn
      <4>2. Contents = Readable(archive) /\ Contents' = Readable(archive')
        BY <3>2, <4>1 DEF Contents
      <4> QED BY <3>2, <4>2
    <3>3. ASSUME run.at \in AddSteps
          PROVE  archive \in Files /\ Added \in Entries
      <4>1. run.pos \in 1 .. Len(run.todo) /\ run.todo \in Seq(Entries) /\ archive # NoFile
        BY <1>1, <3>3 DEF IInv, TypeOK, Torn
      <4> QED BY <1>1, <4>1 DEF IInv, TypeOK, Added
    <3>4. ASSUME run.at \in AddSteps, NEW p \in Entries, archive' = Append(archive, p)
          PROVE  Kept
      <4>1. archive \in Files
        BY <3>3, <3>4
      <4>2. Starts(Readable(archive), Readable(Append(archive, p))) /\ Append(archive, p) # NoFile
        BY <4>1, ReadsAppended, Longer
      <4> QED BY <3>2, <3>4, <4>2
    <3>5. CASE WriteHeader
      <4>1. run.at \in AddSteps
        BY <3>5 DEF WriteHeader, AddSteps
      <4>2. Added \in Entries /\ \A cut \in {"header", "payload"} :
              [Added EXCEPT !.part = cut] \in Entries
        BY <3>3, <4>1, Cuts
      <4>3. temp' = temp /\ \/ archive' = archive
                            \/ \E p \in Entries : archive' = Append(archive, p)
        BY <3>5, <4>2 DEF WriteHeader
      <4> QED BY <3>1, <3>4, <4>1, <4>3
    <3>6. CASE WritePayload
      <4>1. run.at \in AddSteps /\ run.at = "payload" /\ temp' = temp
        BY <3>6 DEF WritePayload, AddSteps
      <4>2. archive # << >> /\ ~Whole(archive[Len(archive)])
        BY <1>1, <4>1 DEF IInv, Torn
      <4>3. CASE archive' = [archive EXCEPT ![Len(archive)] = Added]
        <5>1. archive \in Files /\ Added \in Entries
          BY <3>3, <4>1
        <5>2. /\ [archive EXCEPT ![Len(archive)] = Added] \in Files
              /\ Starts(Readable(archive), Readable([archive EXCEPT ![Len(archive)] = Added]))
          BY <4>2, <5>1, ReadsCompleted
        <5> QED BY <3>2, <4>1, <4>3, <5>2, EmptyFile
      <4> QED BY <3>1, <3>6, <4>1, <4>3 DEF WritePayload
    <3>7. CASE Reset
      <4>1. CASE run.at = "header" /\ archive' = Append(archive, [Added EXCEPT !.part = "header"])
        <5>1. run.at \in AddSteps
          BY <4>1 DEF AddSteps
        <5>2. [Added EXCEPT !.part = "header"] \in Entries
          BY <3>3, <5>1, Cuts
        <5> QED BY <3>4, <4>1, <5>1, <5>2
      <4> QED BY <3>1, <3>7, <4>1 DEF Reset
    <3> QED BY <2>4, <3>5, <3>6, <3>7
  <2>5. ASSUME NEW gone \in SUBSET Names, StartDelete(gone)  PROVE Kept
    BY <2>5, StaysReadable DEF StartDelete
  <2>6. ASSUME NEW todo \in Additions, StartAdd(todo)  PROVE Kept
    <3>1. CASE archive # NoFile /\ archive' = archive
      BY <3>1, StaysReadable
    <3>2. run.at = "idle" /\ (archive # NoFile => archive' = archive \/ misled')
      BY <2>6 DEF StartAdd
    <3> QED BY <3>1, <3>2
  <2>7. CASE Hold \/ Release
    BY <2>7, StaysReadable DEF Hold, Release
  <2> HIDE DEF Kept
  <2> QED BY <1>1, <2>1, <2>2, <2>3, <2>4, <2>5, <2>6, <2>7 DEF Next, Rewrite
<1>2. IInv /\ [Next]_vars =>
        [\/ Starts(Contents, Contents')
         \/ Selects(Contents', Contents, run.gone)
         \/ misled'
         \/ run.at = "idle" /\ archive = NoFile]_vars
  BY <1>1
<1> QED BY <1>2, ArchiveInvariance, PTL DEF Spec, KeepsTheRest
=============================================================================

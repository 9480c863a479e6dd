--------------------------- MODULE PackageProofs ---------------------------
(***************************************************************************)
(* Proofs about Package: for any stage, host and limits, what Handle       *)
(* leaves is a whole package, the old one or none; what Load puts into     *)
(* place is the best file the host can run; a package for SYS is installed *)
(* as a whole or not at all; and no file is replaced by an older one.      *)
(* Each has the exceptions that its property in Package names.             *)
(*                                                                         *)
(* First names, paths and the lines that Handle makes of them; then how    *)
(* Load scores lines; then the two programs step by step; last what is     *)
(* read from texts.                                                        *)
(***************************************************************************)
EXTENDS Package, TLAPS, FiniteSetTheorems, SequenceTheorems, WellFoundedInduction

-----------------------------------------------------------------------------
(* Least elements and the sequences that are paths.                        *)

(* A non-empty set of numbers has a least one.                             *)
LEMMA LeastFacts ==
    ASSUME NEW S \in SUBSET Nat, S # {}
    PROVE  /\ LeastOf(S) \in S
           /\ \A i \in S : LeastOf(S) <= i
<1>1. PICK i \in S : \A j \in S : <<j, i>> \notin OpToRel(<, Nat)
  BY WFMin, NatLessThanWellFounded, Zenon
<1>2. \A j \in S : ~ (j < i)
  BY <1>1, Zenon DEF OpToRel
<1>3. \E k \in S : \A j \in S : k <= j
  BY <1>2
<1> QED BY <1>3, Zenon DEF LeastOf

(* A sequence and one more element in front of it or behind it.            *)
LEMMA InFront ==
    ASSUME NEW S, NEW s \in Seq(S), NEW x \in S
    PROVE  /\ <<x>> \o s \in Seq(S) /\ Len(<<x>> \o s) = Len(s) + 1
           /\ (<<x>> \o s)[1] = x
           /\ \A i \in 1 .. Len(s) : (<<x>> \o s)[i + 1] = s[i]
OBVIOUS

LEMMA Behind ==
    ASSUME NEW S, NEW s \in Seq(S), NEW x \in S
    PROVE  /\ s \o <<x>> \in Seq(S) /\ Len(s \o <<x>>) = Len(s) + 1
           /\ (s \o <<x>>)[Len(s) + 1] = x
           /\ \A i \in 1 .. Len(s) : (s \o <<x>>)[i] = s[i]
OBVIOUS

(* A path is a sequence of names.                                          *)
Path == Seq(Names) \ {<<>>}

LEMMA NameFacts ==
    ASSUME NEW n \in Names
    PROVE  n \in Seq(STRING) /\ Len(n) \in Nat \ {0} /\ DOMAIN n = 1 .. Len(n)
BY DEF Names

LEMMA PathFacts ==
    ASSUME NEW p \in Path
    PROVE  /\ p \in Seq(Names) /\ Len(p) \in Nat \ {0} /\ DOMAIN p = 1 .. Len(p)
           /\ \A i \in DOMAIN p : p[i] \in Names
           /\ Last(p) = p[Len(p)] /\ Last(p) \in Names
BY DEF Path, Last

(* Tags are taken off the end, and something is left.                      *)
LEMMA BaseFacts ==
    ASSUME NEW n \in Names
    PROVE  /\ BaseLen(n) \in 1 .. Len(n)
           /\ BaseOf(n) \in Names /\ Len(BaseOf(n)) = BaseLen(n)
           /\ \A j \in 1 .. BaseLen(n) : BaseOf(n)[j] = n[j]
<1> DEFINE S == {k \in DOMAIN n : \A j \in k + 1 .. Len(n) : n[j] \in Tags}
<1>1. n \in Seq(STRING) /\ Len(n) \in Nat \ {0} /\ DOMAIN n = 1 .. Len(n)
  BY NameFacts
<1>2. Len(n) \in S
  BY <1>1
<1>3. S \in SUBSET Nat /\ S # {}
  BY <1>1, <1>2
<1>4. LeastOf(S) \in S
  BY <1>3, LeastFacts
<1>5. BaseLen(n) \in S
  BY <1>4 DEF BaseLen
<1>6. BaseLen(n) \in 1 .. Len(n)
  BY <1>1, <1>5
<1>7. /\ BaseOf(n) \in Seq(STRING) /\ Len(BaseOf(n)) = BaseLen(n)
      /\ \A j \in 1 .. BaseLen(n) : BaseOf(n)[j] = n[j]
  BY <1>1, <1>6 DEF BaseOf
<1>8. BaseOf(n) # <<>>
  BY <1>6, <1>7
<1> QED BY <1>6, <1>7, <1>8 DEF Names

(* What Handle calls a file in the package tells which file it was.        *)
LEMMA MemberFacts ==
    ASSUME NEW p \in Path, NEW sys \in BOOLEAN
    PROVE  /\ MemberName(sys, p) \in Seq(Names \cup {SYS})
           /\ Last(MemberName(sys, p)) = Last(p)
           /\ FromStage(sys, MemberName(sys, p)) = p
           /\ Packed(p) => MemberName(sys, p) \notin {<<PackageVer>>, <<AutoShow>>}
<1>1. p \in Seq(Names) /\ Len(p) \in Nat \ {0} /\ DOMAIN p = 1 .. Len(p)
  BY PathFacts
<1>2. CASE ~sys
  <2>1. MemberName(sys, p) = p /\ FromStage(sys, p) = p
    BY <1>2 DEF MemberName, FromStage
  <2>2. Packed(p) => p[1] \notin Reserved
    BY <1>1 DEF Packed
  <2>3. Packed(p) => p # <<PackageVer>> /\ p # <<AutoShow>>
    BY <2>2 DEF Reserved
  <2>4. p \in Seq(Names \cup {SYS})
    BY <1>1, SeqMonotonic
  <2> QED BY <2>1, <2>3, <2>4
<1>3. CASE sys
  <2> DEFINE m == <<SYS>> \o p
  <2>1. MemberName(sys, p) = m
    BY <1>3 DEF MemberName
  <2>2. m \in Seq(Names \cup {SYS}) /\ Len(m) = 1 + Len(p) /\ \A i \in 1 .. Len(p) : m[i + 1] = p[i]
    <3>1. p \in Seq(Names \cup {SYS}) /\ <<SYS>> \in Seq(Names \cup {SYS}) /\ Len(<<SYS>>) = 1
      BY <1>1, SeqMonotonic
    <3> QED BY <3>1, <1>1, ConcatProperties
  <2>3. Len(m) > 1
    BY <2>2, <1>1
  <2>4. m[Len(m)] = p[Len(p)]
    BY <2>2, <1>1
  <2>5. Below(m) \in Seq(Names \cup {SYS}) /\ Len(Below(m)) = Len(p) /\ \A i \in 1 .. Len(p) : Below(m)[i] = m[i + 1]
    BY <2>2, <2>3, <1>1 DEF Below
  <2>6. Below(m) = p
    <3>1. p \in Seq(Names \cup {SYS})
      BY <1>1, SeqMonotonic
    <3> QED BY <3>1, <2>5, <2>2, SeqEqual
  <2>7. m # <<>> /\ m # <<PackageVer>> /\ m # <<AutoShow>>
    BY <2>3
  <2> HIDE DEF m
  <2>8. FromStage(sys, m) = p
    BY <2>6, <1>3 DEF FromStage
  <2> QED BY <2>1, <2>2, <2>4, <2>7, <2>8 DEF Last
<1> QED BY <1>2, <1>3

-----------------------------------------------------------------------------
(* CPUs.                                                                   *)

(* The place of the highest CPU tag, 0 without one.                        *)
Top(tags) == Cardinality({i \in DOMAIN CpuTags : \E j \in i .. Len(CpuTags) : CpuTags[j] \in tags})

LEMMA TopFacts ==
    ASSUME NEW tags
    PROVE  /\ Top(tags) \in 0 .. 4
           /\ Top(tags) = 0 \/ Top(tags) \in CpuOf(tags)
           /\ \A i \in CpuOf(tags) : i \in 1 .. 4 /\ i <= Top(tags)
<1> DEFINE S == {i \in DOMAIN CpuTags : \E j \in i .. Len(CpuTags) : CpuTags[j] \in tags}
<1>1. DOMAIN CpuTags = 1 .. 4 /\ Len(CpuTags) = 4
  BY DEF CpuTags
<1>2. CpuOf(tags) = {i \in 1 .. 4 : CpuTags[i] \in tags}
  BY <1>1 DEF CpuOf
<1>3. S = {i \in 1 .. 4 : \E j \in CpuOf(tags) : i <= j}
  <2>1. \A i \in 1 .. 4 : (\E j \in i .. 4 : CpuTags[j] \in tags) <=> (\E j \in CpuOf(tags) : i <= j)
    BY <1>2
  <2> QED BY <1>1, <2>1
<1>4. PICK m \in 0 .. 4 : /\ m = 0 \/ m \in CpuOf(tags)
                          /\ \A j \in CpuOf(tags) : j <= m
  <2>1. CASE 4 \in CpuOf(tags)
    BY <2>1, <1>2
  <2>2. CASE 4 \notin CpuOf(tags) /\ 3 \in CpuOf(tags)
    BY <2>2, <1>2
  <2>3. CASE 4 \notin CpuOf(tags) /\ 3 \notin CpuOf(tags) /\ 2 \in CpuOf(tags)
    BY <2>3, <1>2
  <2>4. CASE 4 \notin CpuOf(tags) /\ 3 \notin CpuOf(tags) /\ 2 \notin CpuOf(tags) /\ 1 \in CpuOf(tags)
    BY <2>4, <1>2
  <2>5. CASE 4 \notin CpuOf(tags) /\ 3 \notin CpuOf(tags) /\ 2 \notin CpuOf(tags) /\ 1 \notin CpuOf(tags)
    <3>1. CpuOf(tags) = {}
      BY <2>5, <1>2
    <3> QED BY <3>1
  <2> QED BY <2>1, <2>2, <2>3, <2>4, <2>5
<1>5. S = 1 .. m
  <2>1. \A i \in 1 .. 4 : (\E j \in CpuOf(tags) : i <= j) <=> i <= m
    BY <1>2, <1>4
  <2>2. S = {i \in 1 .. 4 : i <= m}
    BY <1>3, <2>1
  <2> QED BY <2>2, <1>4
<1>6. Cardinality(1 .. m) = m
  <2>1. m \in Int /\ m >= 0
    BY <1>4
  <2> QED BY <2>1, FS_Interval
<1>7. Top(tags) = m
  BY <1>5, <1>6 DEF Top
<1> QED BY <1>2, <1>4, <1>7

(* The CPU of a File: line is that tag's, but for files for a PowerPC.     *)
LEMMA CpuString ==
    ASSUME NEW tags
    PROVE  /\ handle_variant_cpu_string(tags) # "none"
           /\ "wos" \in tags => handle_variant_cpu_string(tags) = "wos"
           /\ "wos" \notin tags /\ "pup" \in tags => handle_variant_cpu_string(tags) = "pup"
           /\ ~ForPPC(tags) => /\ handle_variant_cpu_string(tags) \notin {"wos", "pup"}
                               /\ load_cpu_rank(handle_variant_cpu_string(tags)) = Ranks[Top(tags) + 1]
<1>1. ~ForPPC(tags) => handle_variant_cpu_string(tags) = Cpus[1 + Top(tags)]
  BY DEF ForPPC, handle_variant_cpu_string, Top
<1>2. ForPPC(tags) <=> "wos" \in tags \/ "pup" \in tags
  BY DEF ForPPC
<1>3. Top(tags) \in 0 .. 4
  BY TopFacts
<1>4. DOMAIN Cpus = 1 .. 5 /\ \A i \in 1 .. 5 : Cpus[i] \notin {"none", "wos", "pup"}
  BY DEF Cpus
<1>5. \A i, j \in 1 .. 5 : Cpus[i] = Cpus[j] => i = j
  BY DEF Cpus
<1>6. 1 + Top(tags) \in 1 .. 5 /\ Top(tags) + 1 = 1 + Top(tags)
  BY <1>3
<1>7. \A i \in 1 .. 5 : load_cpu_rank(Cpus[i]) = Ranks[i]
  <2>1. SUFFICES ASSUME NEW i \in 1 .. 5 PROVE load_cpu_rank(Cpus[i]) = Ranks[i]
    OBVIOUS
  <2>2. (CHOOSE j \in DOMAIN Cpus : Cpus[j] = Cpus[i]) = i
    BY <1>4, <1>5
  <2> QED BY <1>4, <2>2 DEF load_cpu_rank
<1>8. ~ForPPC(tags) => /\ handle_variant_cpu_string(tags) \notin {"none", "wos", "pup"}
                       /\ load_cpu_rank(handle_variant_cpu_string(tags)) = Ranks[Top(tags) + 1]
  BY <1>1, <1>4, <1>6, <1>7
<1>9. /\ "wos" \in tags => handle_variant_cpu_string(tags) = "wos"
      /\ "wos" \notin tags /\ "pup" \in tags => handle_variant_cpu_string(tags) = "pup"
  BY DEF handle_variant_cpu_string
<1> QED BY <1>2, <1>8, <1>9

-----------------------------------------------------------------------------
(* File: lines.                                                            *)

(* No part of the path has a blank in it.                                  *)
NoBlank(p) == \A i \in DOMAIN p : \A j \in DOMAIN p[i] : p[i][j] \notin DOMAIN Spaced

LEMMA PlainWord ==
    ASSUME NEW p, NoBlank(p)
    PROVE  FirstWord(p) = p
<1>1. {i \in DOMAIN p : {j \in DOMAIN p[i] : p[i][j] \in DOMAIN Spaced} # {}} = {}
  BY DEF NoBlank
<1> QED BY <1>1 DEF FirstWord

(* The destination of a staged file: its directory, where SYS has one its  *)
(* assign, and what stands before the tags of its name.                    *)
LEMMA DestFacts ==
    ASSUME NEW sys \in BOOLEAN, NEW p \in Path, Mapped(sys, p),
           NEW dest, dest = handle_add_file(sys, p).dest
    PROVE  /\ dest \in Path
           /\ IF sys THEN p[1] \in DOMAIN Assign /\ dest[1] = Assign[p[1]]
              ELSE dest[1][1] = p[1][1]
           /\ NoBlank(p) => NoBlank(dest)
<1> DEFINE dir == IF sys THEN <<Assign[p[1]]>> \o Below(Parent(p)) ELSE Parent(p)
           base == BaseOf(Last(p))
<1>1. p \in Seq(Names) /\ Len(p) \in Nat \ {0} /\ DOMAIN p = 1 .. Len(p) /\ Last(p) = p[Len(p)]
      /\ Last(p) \in Names
  BY PathFacts
<1>0. Len(p) \in Nat \ {0}
  BY <1>1
<1>2. base \in Names /\ \A j \in 1 .. Len(base) : j \in 1 .. Len(Last(p)) /\ base[j] = Last(p)[j]
  <2>1. Len(Last(p)) \in Nat
    BY <1>1, NameFacts
  <2> QED BY <1>1, <2>1, BaseFacts
<1>3. dest = dir \o <<base>>
  BY DEF handle_add_file
<1>4. /\ Parent(p) \in Seq(Names) /\ Len(Parent(p)) = Len(p) - 1
      /\ \A i \in 1 .. Len(p) - 1 : Parent(p)[i] = p[i]
  BY <1>1 DEF Parent
<1>5. CASE sys
  <2>1. Len(p) > 1 /\ p[1] \in DOMAIN Assign
    BY <1>5 DEF Mapped
  <2> DEFINE a == Assign[p[1]]
  <2>2. a \in Names
    BY <2>1, AssignAssumption
  <2>3. /\ Below(Parent(p)) \in Seq(Names) /\ Len(Below(Parent(p))) = Len(p) - 2
        /\ \A i \in 1 .. Len(p) - 2 : Below(Parent(p))[i] = Parent(p)[i + 1]
    BY <1>1, <1>4, <2>1 DEF Below
  <2> HIDE DEF a
  <2>4. dir = <<a>> \o Below(Parent(p))
    BY <1>5 DEF a
  <2>5. /\ dir \in Seq(Names) /\ Len(dir) = Len(p) - 1 /\ dir[1] = a
        /\ \A i \in 2 .. Len(p) - 1 : dir[i] = p[i]
    <3>1. /\ dir \in Seq(Names) /\ Len(dir) = (Len(p) - 2) + 1 /\ dir[1] = a
          /\ \A i \in 1 .. Len(p) - 2 : dir[i + 1] = Below(Parent(p))[i]
      <4> DEFINE rest == Below(Parent(p))
      <4>1. rest \in Seq(Names) /\ Len(rest) = Len(p) - 2 /\ dir = <<a>> \o rest
        BY <2>3, <2>4
      <4> HIDE DEF rest, dir
      <4>2. /\ dir \in Seq(Names) /\ Len(dir) = Len(rest) + 1 /\ dir[1] = a
            /\ \A i \in 1 .. Len(rest) : dir[i + 1] = rest[i]
        BY <2>2, <4>1, InFront
      <4> QED BY <4>1, <4>2 DEF rest
    <3>2. \A i \in 1 .. Len(p) - 2 : dir[i + 1] = p[i + 1]
      <4>1. \A i \in 1 .. Len(p) - 2 : i + 1 \in 1 .. Len(p) - 1
        BY <1>0
      <4> QED BY <4>1, <3>1, <2>3, <1>4
    <3>3. \A i \in 2 .. Len(p) - 1 : i - 1 \in 1 .. Len(p) - 2 /\ (i - 1) + 1 = i
      BY <1>0
    <3>4. \A i \in 2 .. Len(p) - 1 : dir[i] = p[i]
      BY <3>2, <3>3
    <3>5. Len(dir) = Len(p) - 1
      BY <3>1, <1>0
    <3> QED BY <3>1, <3>4, <3>5
  <2> HIDE DEF dir, base
  <2>6. /\ dest \in Seq(Names) /\ Len(dest) = (Len(p) - 1) + 1 /\ dest[(Len(p) - 1) + 1] = base
        /\ \A i \in 1 .. Len(p) - 1 : dest[i] = dir[i]
    BY <1>2, <1>3, <2>5, Behind
  <2>7. Len(dest) = Len(p) /\ dest[Len(p)] = base
    BY <1>0, <2>6
  <2>8. dest[1] = a /\ \A i \in 2 .. Len(p) - 1 : dest[i] = p[i]
    <3>1. 1 \in 1 .. Len(p) - 1 /\ \A i \in 2 .. Len(p) - 1 : i \in 1 .. Len(p) - 1
      BY <1>0, <2>1
    <3> QED BY <2>5, <2>6, <3>1
  <2>9. ASSUME NoBlank(p) PROVE NoBlank(dest)
    <3>1. \A j \in DOMAIN a : a[j] \notin DOMAIN Spaced
      BY <2>1, AssignAssumption DEF a
    <3>2. \A j \in DOMAIN Last(p) : Last(p)[j] \notin DOMAIN Spaced
      BY <1>1, <2>9 DEF NoBlank
    <3>3. \A j \in DOMAIN base : base[j] \notin DOMAIN Spaced
      BY <1>1, <1>2, <3>2, NameFacts
    <3>4. \A i \in 1 .. Len(p) : i = 1 \/ i = Len(p) \/ i \in 2 .. Len(p) - 1
      BY <1>0
    <3>5. \A i \in 2 .. Len(p) - 1 : i \in DOMAIN p
      BY <1>1
    <3>6. \A i \in 1 .. Len(p) : \A j \in DOMAIN dest[i] : dest[i][j] \notin DOMAIN Spaced
      BY <2>7, <2>8, <2>9, <3>1, <3>3, <3>4, <3>5, Zenon DEF NoBlank
    <3> QED BY <2>6, <2>7, <3>6 DEF NoBlank
  <2>10. dest # <<>>
    BY <2>7, <1>1
  <2> QED BY <1>5, <2>1, <2>6, <2>8, <2>9, <2>10 DEF Path, a
<1>6. CASE ~sys
  <2>1. dir = Parent(p)
    BY <1>6
  <2> HIDE DEF dir, base
  <2>2. /\ dest \in Seq(Names) /\ Len(dest) = (Len(p) - 1) + 1 /\ dest[(Len(p) - 1) + 1] = base
        /\ \A i \in 1 .. Len(p) - 1 : dest[i] = dir[i]
    BY <1>2, <1>3, <1>4, <2>1, Behind
  <2>3. Len(dest) = Len(p) /\ dest[Len(p)] = base
    BY <1>0, <2>2
  <2>4. dest[Len(p)] = base /\ \A i \in 1 .. Len(p) - 1 : dest[i] = p[i]
    BY <1>4, <2>1, <2>2, <2>3
  <2>5. dest[1][1] = p[1][1]
    <3>1. CASE Len(p) = 1
      <4>1. 1 \in 1 .. Len(base)
        BY <1>2, NameFacts
      <4>2. base[1] = p[1][1]
        BY <1>1, <1>2, <3>1, <4>1
      <4> QED BY <2>4, <3>1, <4>2
    <3>2. CASE Len(p) # 1
      BY <1>1, <2>4, <3>2
    <3> QED BY <3>1, <3>2
  <2>6. ASSUME NoBlank(p) PROVE NoBlank(dest)
    <3>2. \A j \in DOMAIN Last(p) : Last(p)[j] \notin DOMAIN Spaced
      BY <1>1, <2>6 DEF NoBlank
    <3>3. \A j \in DOMAIN base : base[j] \notin DOMAIN Spaced
      BY <1>1, <1>2, <3>2, NameFacts
    <3>4. \A i \in 1 .. Len(p) : i = Len(p) \/ i \in 1 .. Len(p) - 1
      BY <1>0
    <3>5. \A i \in 1 .. Len(p) - 1 : i \in DOMAIN p
      BY <1>1
    <3>6. \A i \in 1 .. Len(p) : \A j \in DOMAIN dest[i] : dest[i][j] \notin DOMAIN Spaced
      BY <2>4, <2>6, <3>3, <3>4, <3>5, Zenon DEF NoBlank
    <3> QED BY <2>2, <2>3, <3>6 DEF NoBlank
  <2>7. dest # <<>>
    BY <2>3, <1>1
  <2> QED BY <1>6, <2>2, <2>5, <2>6, <2>7 DEF Path
<1> QED BY <1>5, <1>6

(* What Handle writes for a file without blanks, Load reads.               *)
LEMMA LineIsRead ==
    ASSUME NEW sys \in BOOLEAN, NEW p \in Path, Mapped(sys, p), NoBlank(p)
    PROVE  load_parse_file_line(handle_add_file(sys, p)) = handle_add_file(sys, p)
<1> DEFINE line == handle_add_file(sys, p)
<1>1. p \in Seq(Names) /\ Len(p) \in Nat \ {0} /\ DOMAIN p = 1 .. Len(p)
  BY PathFacts
<1>2. FirstWord(line.dest) = line.dest
  <2>1. NoBlank(line.dest)
    BY DestFacts
  <2> QED BY <2>1, PlainWord
<1>3. line.from = MemberName(sys, p)
  BY DEF handle_add_file
<1>4. NoBlank(MemberName(sys, p))
  <2>1. CASE ~sys
    BY <2>1 DEF MemberName
  <2>2. CASE sys
    <3> DEFINE m == <<SYS>> \o p
    <3>1. p \in Seq(Names \cup {SYS}) /\ <<SYS>> \in Seq(Names \cup {SYS}) /\ Len(<<SYS>>) = 1
      BY <1>1, SeqMonotonic
    <3>2. /\ m \in Seq(Names \cup {SYS}) /\ Len(m) = 1 + Len(p) /\ m[1] = SYS
          /\ \A i \in 2 .. Len(m) : i - 1 \in 1 .. Len(p) /\ m[i] = p[i - 1]
      BY <1>1, <3>1, ConcatProperties
    <3>3. DOMAIN m = 1 .. Len(m) /\ \A i \in DOMAIN m : i = 1 \/ i \in 2 .. Len(m)
      BY <3>2, <1>1
    <3>4. \A j \in DOMAIN SYS : SYS[j] \notin DOMAIN Spaced
      <4>1. DOMAIN SYS = {1}
        BY DEF SYS
      <4> QED BY <4>1, AssignAssumption
    <3> HIDE DEF m
    <3>5. \A i \in 1 .. Len(p) : \A j \in DOMAIN p[i] : p[i][j] \notin DOMAIN Spaced
      BY <1>1 DEF NoBlank
    <3>6. \A i \in DOMAIN m : \A j \in DOMAIN m[i] : m[i][j] \notin DOMAIN Spaced
      <4>1. SUFFICES ASSUME NEW i \in DOMAIN m
                     PROVE  \A j \in DOMAIN m[i] : m[i][j] \notin DOMAIN Spaced
        OBVIOUS
      <4>2. CASE i = 1
        BY <4>2, <3>2, <3>4
      <4>3. CASE i \in 2 .. Len(m)
        <5>1. i - 1 \in 1 .. Len(p) /\ m[i] = p[i - 1]
          BY <3>2, <4>3
        <5> QED BY <3>5, <5>1
      <4> QED BY <3>3, <4>2, <4>3
    <3> QED BY <2>2, <3>6 DEF NoBlank, MemberName, m
  <2> QED BY <2>1, <2>2
<1>5. FirstWord(line.from) = line.from
  BY <1>3, <1>4, PlainWord
<1>6. line.cpu # "none"
  <2>1. line.cpu = handle_variant_cpu_string(TagsOf(Last(p)))
    BY DEF handle_add_file
  <2> QED BY <2>1, CpuString
<1>7. line = [line EXCEPT !.dest = line.dest, !.from = line.from, !.cpu = line.cpu]
  BY DEF handle_add_file
<1> HIDE DEF line
<1>8. load_parse_file_line(line) = [line EXCEPT !.dest = line.dest, !.from = line.from, !.cpu = line.cpu]
  BY <1>2, <1>5, <1>6 DEF load_parse_file_line
<1> QED BY <1>7, <1>8 DEF line

-----------------------------------------------------------------------------
(* Which line Load picks.                                                  *)

LEMMA RankValues ==
    /\ Ranks[1] = 0 /\ Ranks[2] = 20 /\ Ranks[3] = 30 /\ Ranks[4] = 40 /\ Ranks[5] = 60
BY DEF Ranks

LEMMA RankOrder ==
    ASSUME NEW i \in 0 .. 4, NEW j \in 0 .. 4
    PROVE  /\ Ranks[i + 1] \in 0 .. 60
           /\ i <= j => Ranks[i + 1] <= Ranks[j + 1]
           /\ i < j => Ranks[i + 1] + 10 <= Ranks[j + 1]
<1>1. i \in {0, 1, 2, 3, 4} /\ j \in {0, 1, 2, 3, 4}
  OBVIOUS
<1> QED BY <1>1, RankValues

(* A line that Handle wrote runs on those hosts that have what its tags    *)
(* ask for.                                                                *)
LEMMA RunsIfFits ==
    ASSUME NEW sys, NEW p, NEW host, host.cpu \in Nat
    PROVE  /\ load_variant_runnable(handle_add_file(sys, p), host) => Fits(TagsOf(Last(p)), host)
           /\ Fits(TagsOf(Last(p)), host) => load_variant_runnable(handle_add_file(sys, p), host)
<1> DEFINE tags == TagsOf(Last(p))
           line == handle_add_file(sys, p)
<1>1. /\ line.cpu = handle_variant_cpu_string(tags)
      /\ line.fpu = IF "882" \in tags THEN "882" ELSE IF "881" \in tags THEN "881" ELSE "none"
      /\ line.mmu = ("mmu" \in tags)
  BY DEF handle_add_file
<1> HIDE DEF tags, line
<1>2. CASE "wos" \in tags
  <2>1. line.cpu = "wos"
    BY <1>1, <1>2, CpuString
  <2> QED BY <1>2, <2>1 DEF Fits, load_variant_runnable, tags, line
<1>3. CASE "wos" \notin tags /\ "pup" \in tags
  <2>1. line.cpu = "pup"
    BY <1>1, <1>3, CpuString
  <2> QED BY <1>3, <2>1 DEF Fits, load_variant_runnable, tags, line
<1>4. CASE "wos" \notin tags /\ "pup" \notin tags
  <2>1. ~ForPPC(tags)
    BY <1>4 DEF ForPPC
  <2>2. line.cpu \notin {"wos", "pup"} /\ load_cpu_rank(line.cpu) = Ranks[Top(tags) + 1]
    BY <1>1, <2>1, CpuString
  <2>3. Top(tags) \in 0 .. 4 /\ \A i \in CpuOf(tags) : i \in 0 .. 4 /\ i <= Top(tags)
    BY TopFacts
  <2>4. Ranks[Top(tags) + 1] \in 0 .. 60 /\ \A i \in CpuOf(tags) : Ranks[i + 1] \in 0 .. 60 /\ Ranks[i + 1] <= Ranks[Top(tags) + 1]
    BY <2>3, RankOrder
  <2>5. load_cpu_rank(line.cpu) \in 0 .. host.cpu <=> Ranks[Top(tags) + 1] <= host.cpu
    BY <2>2, <2>4
  <2>6. (\A i \in CpuOf(tags) : Ranks[i + 1] <= host.cpu) <=> Ranks[Top(tags) + 1] <= host.cpu
    <3>1. Ranks[Top(tags) + 1] <= host.cpu => \A i \in CpuOf(tags) : Ranks[i + 1] <= host.cpu
      BY <2>4
    <3>2. Top(tags) \in CpuOf(tags) \/ Ranks[Top(tags) + 1] <= host.cpu
      <4>1. CASE Top(tags) = 0
        <5>1. Ranks[Top(tags) + 1] = 0
          BY <4>1, RankValues
        <5> QED BY <5>1
      <4> QED BY <4>1, TopFacts
    <3> QED BY <3>1, <3>2
  <2>7. (\A i \in DOMAIN CpuTags : CpuTags[i] \in tags => Ranks[i + 1] <= host.cpu)
          <=> load_cpu_rank(line.cpu) \in 0 .. host.cpu
    BY <2>5, <2>6 DEF CpuOf
  <2>8. Fits(tags, host) <=> /\ load_cpu_rank(line.cpu) \in 0 .. host.cpu
                             /\ "882" \in tags => host.fpu = "882"
                             /\ "881" \in tags /\ "882" \notin tags => host.fpu # "none"
                             /\ "mmu" \in tags => host.cpu >= 30
    BY <1>4, <2>7 DEF Fits
  <2>9. load_variant_runnable(line, host)
          <=> /\ load_cpu_rank(line.cpu) \in 0 .. host.cpu
              /\ line.fpu = "882" => host.fpu = "882"
              /\ line.fpu = "881" => host.fpu # "none"
              /\ line.mmu => host.cpu >= 30
    BY <2>2 DEF load_variant_runnable
  <2>10. /\ line.fpu = "882" <=> "882" \in tags
         /\ line.fpu = "881" <=> "881" \in tags /\ "882" \notin tags
         /\ line.mmu <=> "mmu" \in tags
    BY <1>1
  <2>11. Fits(tags, host) <=> load_variant_runnable(line, host)
    BY <2>8, <2>9, <2>10
  <2> QED BY <2>11 DEF tags, line
<1> QED BY <1>2, <1>3, <1>4

(* A CPU above all of the other's is a higher one.                         *)
LEMMA AboveIsHigher ==
    ASSUME NEW a, NEW b
    PROVE  (\E i \in CpuOf(a) : \A j \in CpuOf(b) : i > j) <=> Top(a) > Top(b)
<1>1. /\ Top(a) \in 0 .. 4
      /\ Top(a) = 0 \/ Top(a) \in CpuOf(a)
      /\ \A i \in CpuOf(a) : i \in 1 .. 4 /\ i <= Top(a)
  BY TopFacts
<1>2. /\ Top(b) \in 0 .. 4
      /\ Top(b) = 0 \/ Top(b) \in CpuOf(b)
      /\ \A i \in CpuOf(b) : i \in 1 .. 4 /\ i <= Top(b)
  BY TopFacts
<1>3. ASSUME NEW i \in CpuOf(a), \A j \in CpuOf(b) : i > j PROVE Top(a) > Top(b)
  <2>1. i \in 1 .. 4 /\ i <= Top(a)
    BY <1>1
  <2>2. Top(b) = 0 \/ i > Top(b)
    BY <1>2, <1>3
  <2>3. Top(a) \in Int /\ Top(b) \in Int /\ i \in Int
    BY <1>1, <1>2, <2>1
  <2>4. Top(b) = 0 => Top(a) > Top(b)
    BY <2>1, <2>3
  <2>5. i > Top(b) => Top(a) > Top(b)
    BY <2>1, <2>3
  <2> QED BY <2>2, <2>4, <2>5
<1>4. ASSUME Top(a) > Top(b) PROVE \E i \in CpuOf(a) : \A j \in CpuOf(b) : i > j
  <2>1. Top(a) \in CpuOf(a)
    BY <1>1, <1>2, <1>4
  <2>2. \A j \in CpuOf(b) : Top(a) > j
    BY <1>1, <1>2, <1>4
  <2> QED BY <2>1, <2>2
<1> QED BY <1>3, <1>4

FpuPoints(tags) == IF "882" \in tags THEN 30 ELSE IF "881" \in tags THEN 20 ELSE 0
MmuPoints(tags) == IF "mmu" \in tags THEN 5 ELSE 0

LEMMA ScoreValue ==
    ASSUME NEW sys, NEW p, ~ForPPC(TagsOf(Last(p)))
    PROVE  load_variant_score(handle_add_file(sys, p))
             = 100 * Ranks[Top(TagsOf(Last(p))) + 1] + FpuPoints(TagsOf(Last(p))) + MmuPoints(TagsOf(Last(p)))
<1> DEFINE tags == TagsOf(Last(p))
           line == handle_add_file(sys, p)
<1>1. /\ line.cpu = handle_variant_cpu_string(tags)
      /\ line.fpu = IF "882" \in tags THEN "882" ELSE IF "881" \in tags THEN "881" ELSE "none"
      /\ line.mmu = ("mmu" \in tags)
  BY DEF handle_add_file
<1>2. ~ForPPC(tags)
  OBVIOUS
<1> HIDE DEF tags, line
<1>3. line.cpu \notin {"wos", "pup"} /\ load_cpu_rank(line.cpu) = Ranks[Top(tags) + 1]
  BY <1>1, <1>2, CpuString
<1>4. (CASE line.fpu = "882" -> 30 [] line.fpu = "881" -> 20 [] OTHER -> 0) = FpuPoints(tags)
  BY <1>1 DEF FpuPoints
<1>5. (IF line.mmu THEN 5 ELSE 0) = MmuPoints(tags)
  BY <1>1 DEF MmuPoints
<1>6. (IF line.cpu \in {"wos", "pup"} THEN 1000 ELSE 100 * load_cpu_rank(line.cpu)) = 100 * Ranks[Top(tags) + 1]
  BY <1>3
<1>7. load_variant_score(line) = 100 * Ranks[Top(tags) + 1] + FpuPoints(tags) + MmuPoints(tags)
  BY <1>4, <1>5, <1>6 DEF load_variant_score
<1> QED BY <1>7 DEF tags, line

LEMMA Sums ==
    ASSUME NEW x \in Int, NEW y \in Int, NEW f \in {0, 20, 30}, NEW g \in {0, 20, 30},
           NEW m \in {0, 5}, NEW n \in {0, 5}
    PROVE  /\ x + 10 <= y => 100 * x + f + m < 100 * y + g + n
           /\ f < g => 100 * x + f + m < 100 * x + g + n
           /\ m < n => 100 * x + f + m < 100 * x + f + n
OBVIOUS

(* Of two files for a 68k the better one scores more.                      *)
LEMMA BetterScoresMore ==
    ASSUME NEW sys, NEW p, NEW q, ~ForPPC(TagsOf(Last(p))), ~ForPPC(TagsOf(Last(q))),
           Better(TagsOf(Last(p)), TagsOf(Last(q)))
    PROVE  load_variant_score(handle_add_file(sys, p)) > load_variant_score(handle_add_file(sys, q))
<1> DEFINE a == TagsOf(Last(p))
           b == TagsOf(Last(q))
<1>1. /\ load_variant_score(handle_add_file(sys, p)) = 100 * Ranks[Top(a) + 1] + FpuPoints(a) + MmuPoints(a)
      /\ load_variant_score(handle_add_file(sys, q)) = 100 * Ranks[Top(b) + 1] + FpuPoints(b) + MmuPoints(b)
  BY ScoreValue
<1>2. Better(a, b)
  OBVIOUS
<1> HIDE DEF a, b
<1>3. Top(a) \in 0 .. 4 /\ Top(b) \in 0 .. 4
  BY TopFacts
<1> DEFINE fpu(t) == (IF "882" \in t THEN {1, 2} ELSE IF "881" \in t THEN {1} ELSE {})
<1>4. /\ (\E i \in fpu(a) : \A j \in fpu(b) : i > j) <=> FpuPoints(a) > FpuPoints(b)
      /\ (\E i \in fpu(b) : \A j \in fpu(a) : i > j) <=> FpuPoints(b) > FpuPoints(a)
  <2>1. ASSUME NEW s, NEW t
        PROVE  (\E i \in fpu(s) : \A j \in fpu(t) : i > j) <=> FpuPoints(s) > FpuPoints(t)
    <3>1. CASE "882" \in s
      BY <3>1 DEF FpuPoints
    <3>2. CASE "882" \notin s /\ "881" \in s
      BY <3>2 DEF FpuPoints
    <3>3. CASE "882" \notin s /\ "881" \notin s
      BY <3>3 DEF FpuPoints
    <3> QED BY <3>1, <3>2, <3>3
  <2> QED BY <2>1
<1>5. \/ Top(a) > Top(b)
      \/ /\ ~(Top(a) > Top(b)) /\ ~(Top(b) > Top(a))
         /\ \/ FpuPoints(a) > FpuPoints(b)
            \/ /\ ~(FpuPoints(a) > FpuPoints(b)) /\ ~(FpuPoints(b) > FpuPoints(a))
               /\ "mmu" \in a /\ "mmu" \notin b
  <2>1. /\ (\E i \in CpuOf(a) : \A j \in CpuOf(b) : i > j) <=> Top(a) > Top(b)
        /\ (\E i \in CpuOf(b) : \A j \in CpuOf(a) : i > j) <=> Top(b) > Top(a)
    BY AboveIsHigher
  <2> QED BY <1>2, <1>4, <2>1, Zenon DEF Better
<1>6. /\ FpuPoints(a) \in {0, 20, 30} /\ FpuPoints(b) \in {0, 20, 30}
      /\ MmuPoints(a) \in {0, 5} /\ MmuPoints(b) \in {0, 5}
      /\ "mmu" \in a => MmuPoints(a) = 5
      /\ "mmu" \notin b => MmuPoints(b) = 0
  BY DEF FpuPoints, MmuPoints
<1>7. Ranks[Top(a) + 1] \in Int /\ Ranks[Top(b) + 1] \in Int
  <2>1. Ranks[Top(a) + 1] \in 0 .. 60 /\ Ranks[Top(b) + 1] \in 0 .. 60
    BY <1>3, RankOrder
  <2> QED BY <2>1
<1> DEFINE x == Ranks[Top(a) + 1]
           y == Ranks[Top(b) + 1]
<1>8. CASE Top(a) > Top(b)
  <2>1. y + 10 <= x
    BY <1>3, <1>8, RankOrder
  <2> HIDE DEF x, y
  <2>2. 100 * y + FpuPoints(b) + MmuPoints(b) < 100 * x + FpuPoints(a) + MmuPoints(a)
    BY <1>6, <1>7, <2>1, Sums DEF x, y
  <2> QED BY <1>1, <2>2 DEF x, y
<1>9. CASE ~(Top(a) > Top(b)) /\ ~(Top(b) > Top(a))
  <2>1. x = y
    BY <1>3, <1>9
  <2> HIDE DEF x, y
  <2>2. \/ FpuPoints(a) > FpuPoints(b)
        \/ FpuPoints(a) = FpuPoints(b) /\ MmuPoints(b) < MmuPoints(a)
    BY <1>5, <1>6, <1>9
  <2>3. 100 * x + FpuPoints(b) + MmuPoints(b) < 100 * x + FpuPoints(a) + MmuPoints(a)
    BY <1>6, <1>7, <2>2, Sums DEF x, y
  <2> QED BY <1>1, <2>1, <2>3 DEF x, y
<1> QED BY <1>5, <1>8, <1>9

(* Whatever a line says, its score is a number and not very high.          *)
LEMMA ScoreBound ==
    ASSUME NEW line
    PROVE  load_variant_score(line) \in Int /\ load_variant_score(line) <= 7000
<1>1. load_cpu_rank(line.cpu) \in -1 .. 60
  <2>1. CASE line.cpu \in {"wos", "pup"}
    BY <2>1 DEF load_cpu_rank
  <2>2. CASE line.cpu \notin {"wos", "pup"} /\ \E i \in DOMAIN Cpus : Cpus[i] = line.cpu
    <3> DEFINE i == CHOOSE i \in DOMAIN Cpus : Cpus[i] = line.cpu
    <3>1. i \in DOMAIN Cpus
      BY <2>2
    <3>2. DOMAIN Cpus = 1 .. 5
      BY DEF Cpus
    <3>3. load_cpu_rank(line.cpu) = Ranks[i]
      BY <2>2 DEF load_cpu_rank
    <3> HIDE DEF i
    <3>4. i \in {1, 2, 3, 4, 5}
      BY <3>1, <3>2
    <3> QED BY <3>3, <3>4, RankValues
  <2>3. CASE line.cpu \notin {"wos", "pup"} /\ ~\E i \in DOMAIN Cpus : Cpus[i] = line.cpu
    BY <2>3 DEF load_cpu_rank
  <2> QED BY <2>1, <2>2, <2>3
<1> DEFINE c == IF line.cpu \in {"wos", "pup"} THEN 1000 ELSE 100 * load_cpu_rank(line.cpu)
           f == CASE line.fpu = "882" -> 30 [] line.fpu = "881" -> 20 [] OTHER -> 0
           m == IF line.mmu THEN 5 ELSE 0
<1>2. c \in Int /\ c <= 6000
  BY <1>1
<1>3. f \in {0, 20, 30} /\ m \in {0, 5}
  OBVIOUS
<1>4. load_variant_score(line) = c + f + m
  BY DEF load_variant_score
<1> HIDE DEF c, f, m
<1> QED BY <1>2, <1>3, <1>4

(* There is a best line among rivals.                                      *)
LEMMA BestFacts ==
    ASSUME NEW files, NEW rivals \in SUBSET Nat, rivals # {}
    PROVE  /\ Best(files, rivals) \in rivals
           /\ \A k \in rivals : load_variant_score(files[k]) <= load_variant_score(files[Best(files, rivals)])
<1> DEFINE s == [j \in rivals |-> load_variant_score(files[j])]
           short == {7000 - s[j] : j \in rivals}
           best == {j \in rivals : \A k \in rivals :
                       load_variant_score(files[k]) <= load_variant_score(files[j])}
<1>0. \A j \in rivals : s[j] = load_variant_score(files[j])
  OBVIOUS
<1>1. \A j \in rivals : s[j] \in Int /\ s[j] <= 7000
  BY ScoreBound
<1> HIDE DEF s
<1>2. short \in SUBSET Nat /\ short # {}
  <2>1. \A j \in rivals : 7000 - s[j] \in Nat
    BY <1>1
  <2>2. \A x \in short : x \in Nat
    BY <2>1
  <2>3. PICK j \in rivals : TRUE
    OBVIOUS
  <2>4. 7000 - s[j] \in short
    OBVIOUS
  <2> HIDE DEF short
  <2> QED BY <2>2, <2>4
<1>3. PICK x \in short : \A y \in short : x <= y
  <2> HIDE DEF short
  <2>1. LeastOf(short) \in short /\ \A y \in short : LeastOf(short) <= y
    BY <1>2, LeastFacts
  <2> QED BY <2>1
<1>4. PICK j \in rivals : x = 7000 - s[j]
  BY <1>3
<1>5. \A k \in rivals : s[k] <= s[j]
  <2>1. \A k \in rivals : 7000 - s[j] <= 7000 - s[k]
    BY <1>3, <1>4
  <2> QED BY <2>1, <1>1
<1>6. best \in SUBSET Nat /\ best # {}
  <2>1. \A k \in rivals : load_variant_score(files[k]) <= load_variant_score(files[j])
    <3>1. SUFFICES ASSUME NEW k \in rivals
                   PROVE  load_variant_score(files[k]) <= load_variant_score(files[j])
      OBVIOUS
    <3>2. s[k] <= s[j] /\ s[k] = load_variant_score(files[k]) /\ s[j] = load_variant_score(files[j])
      BY <1>0, <1>5
    <3> QED BY <3>2, Zenon
  <2> QED BY <2>1
<1>7. LeastOf(best) \in best
  BY <1>6, LeastFacts
<1>8. Best(files, rivals) = LeastOf(best)
  BY DEF Best
<1> QED BY <1>7, <1>8

Ranged(f) == Len(f) \in Nat /\ DOMAIN f = 1 .. Len(f)

(* What load_select_variants chooses runs on the host and scores as much   *)
(* as any other line for its destination that runs there; and if it        *)
(* chooses at all, it leaves no destination out.                           *)
LEMMA SelectFacts ==
    ASSUME NEW files, Ranged(files), NEW host
    PROVE  /\ load_select_variants(files, host) \subseteq DOMAIN files
           /\ \A i \in load_select_variants(files, host) :
                /\ load_variant_runnable(files[i], host)
                /\ \A j \in DOMAIN files :
                     files[j].dest = files[i].dest /\ load_variant_runnable(files[j], host)
                       => load_variant_score(files[j]) <= load_variant_score(files[i])
           /\ load_select_variants(files, host) # {} =>
                \A j \in DOMAIN files : \E i \in load_select_variants(files, host) :
                   files[i].dest = files[j].dest
<1> DEFINE dests == {files[i].dest : i \in DOMAIN files}
           rivals(d) == {j \in DOMAIN files : files[j].dest = d /\ load_variant_runnable(files[j], host)}
           select == load_select_variants(files, host)
<1>1. select = IF \E d \in dests : rivals(d) = {} THEN {} ELSE {Best(files, rivals(d)) : d \in dests}
  <2> DEFINE r == [d \in dests |-> rivals(d)]
  <2>1. \A d \in dests : r[d] = rivals(d)
    OBVIOUS
  <2>2. select = IF \E d \in dests : r[d] = {} THEN {} ELSE {Best(files, r[d]) : d \in dests}
    BY DEF load_select_variants
  <2> HIDE DEF r, rivals, dests, select
  <2>3. {Best(files, r[d]) : d \in dests} = {Best(files, rivals(d)) : d \in dests}
    BY <2>1
  <2> QED BY <2>1, <2>2, <2>3
<1>2. \A d \in dests : rivals(d) # {} => Best(files, rivals(d)) \in rivals(d)
        /\ \A k \in rivals(d) : load_variant_score(files[k]) <= load_variant_score(files[Best(files, rivals(d))])
  <2>1. SUFFICES ASSUME NEW d \in dests, rivals(d) # {}
                 PROVE  Best(files, rivals(d)) \in rivals(d)
        /\ \A k \in rivals(d) : load_variant_score(files[k]) <= load_variant_score(files[Best(files, rivals(d))])
    BY Zenon
  <2>2. rivals(d) \in SUBSET Nat
    BY DEF Ranged
  <2> QED BY <2>1, <2>2, BestFacts, Zenon
<1>3. ASSUME NEW i \in select
      PROVE  /\ i \in DOMAIN files /\ load_variant_runnable(files[i], host)
             /\ \A j \in DOMAIN files :
                     files[j].dest = files[i].dest /\ load_variant_runnable(files[j], host)
                       => load_variant_score(files[j]) <= load_variant_score(files[i])
  <2> HIDE DEF dests, rivals, select
  <2>1. PICK d \in dests : rivals(d) # {} /\ i = Best(files, rivals(d))
    BY <1>1, <1>3, Zenon
  <2>2. i \in rivals(d) /\ \A k \in rivals(d) : load_variant_score(files[k]) <= load_variant_score(files[i])
    BY <1>2, <2>1, Zenon
  <2> QED BY <2>2, Zenon DEF rivals
<1>4. ASSUME select # {}, NEW j \in DOMAIN files
      PROVE  \E i \in select : files[i].dest = files[j].dest
  <2> DEFINE d == files[j].dest
  <2>1. d \in dests
    OBVIOUS
  <2> HIDE DEF dests, select, d
  <2>2. rivals(d) # {} /\ Best(files, rivals(d)) \in select
    BY <1>1, <1>4, <2>1, Zenon
  <2>3. Best(files, rivals(d)) \in rivals(d)
    BY <1>2, <2>1, <2>2, Zenon
  <2> QED BY <2>2, <2>3, Zenon DEF d
<1> HIDE DEF select
<1> QED BY <1>3, <1>4 DEF select

-----------------------------------------------------------------------------
(* What each step does to the parts of the two programs' states.           *)

Line(p) == handle_add_file(given.sys, p)
MappedFiles == {p \in DOMAIN given.stage : Mapped(given.sys, p)}
Lines == {Line(p) : p \in MappedFiles}

(* The fields of the records, and sequences where there should be some.    *)
Shape ==
    /\ DOMAIN job = {"at", "seen", "last", "files", "man", "ver", "checked", "cut", "skimmed", "unseen"}
    /\ job.files \in Seq(Lines)
    /\ DOMAIN job.man = DOMAIN NoManifest /\ Ranged(job.man.files)
    /\ DOMAIN bin = DOMAIN NoBin
    /\ DOMAIN bin.man = DOMAIN NoManifest /\ Ranged(bin.man.files)
    /\ DOMAIN load = {"at", "man", "todo", "placed", "unseen"}
    /\ DOMAIN stage \subseteq DOMAIN given.stage

SameReads == job'.skimmed = job.skimmed /\ job'.unseen = job.unseen
SameLines ==
    /\ job'.files = job.files /\ job'.man = job.man /\ job'.cut = job.cut /\ job'.ver = job.ver
    /\ SameReads
SameJob == SameLines /\ job'.checked = job.checked /\ DOMAIN job' = DOMAIN job
Ends(at) == job'.at = at /\ job'.seen = {} /\ SameJob

(* A step that takes no call for failed, or one.                           *)
MayMiss == mishaps' = mishaps \/ Mishap

LEMMA MissTyped ==
    ASSUME mishaps \in 0 .. MaxMishaps, MayMiss
    PROVE  mishaps' \in 0 .. MaxMishaps /\ mishaps' \in {mishaps, mishaps + 1}
BY PackageAssumption DEF MayMiss, Mishap

LEMMA FailsMeans ==
    ASSUME Shape, Fails
    PROVE  Ends("failed") /\ bin' = bin
BY DEF Shape, Fails, Ends, SameJob, SameLines, SameReads

LEMMA HangsMeans ==
    ASSUME Shape, Hangs
    PROVE  Ends("hang") /\ bin' = bin
BY DEF Shape, Hangs, Ends, SameJob, SameLines, SameReads

LEMMA StartScanMeans ==
    ASSUME Shape, StartScan
    PROVE  /\ job.at = "idle" /\ job'.at = "scan" /\ job'.seen = job.seen /\ SameJob
           /\ bin' = bin /\ mishaps' = mishaps /\ HandleKeeps
BY DEF Shape, StartScan, SameJob, SameLines, SameReads

LEMMA ScanOneMeans ==
    ASSUME Shape, NEW p \in DOMAIN stage, ScanOne(p)
    PROVE  /\ job.at = "scan" /\ p \in ToScan
           /\ bin' = bin /\ mishaps' = mishaps /\ HandleKeeps
           /\ \/ Ends("failed")
              \/ /\ job'.at = "scan" /\ job'.seen = job.seen \cup {p}
                 /\ Len(job.files) < MaxFiles /\ job'.files = Append(job.files, Line(p))
                 /\ job'.man = job.man /\ job'.cut = job.cut /\ job'.ver = job.ver /\ SameReads
                 /\ job'.checked = job.checked /\ DOMAIN job' = DOMAIN job
<1>1. job.at = "scan" /\ p \in ToScan /\ HandleKeeps /\ mishaps' = mishaps
  BY DEF ScanOne, NextOf
<1>2. CASE Fails
  BY <1>1, <1>2, FailsMeans
<1>3. CASE ~Fails
  <2>1. /\ Len(job.files) < MaxFiles
        /\ job' = [job EXCEPT !.seen = @ \cup {p}, !.last = p,
                              !.files = Append(@, handle_add_file(given.sys, p))]
        /\ UNCHANGED bin
    BY <1>3 DEF ScanOne
  <2> QED BY <1>1, <2>1 DEF Shape, Line, SameReads
<1> QED BY <1>2, <1>3

LEMMA EndScanMeans ==
    ASSUME Shape, EndScan
    PROVE  /\ job.at = "scan" /\ ToScan = {}
           /\ bin' = bin /\ MayMiss /\ HandleKeeps
           /\ \/ Ends("failed")
              \/ Ends("hang")
              \/ /\ job.files # <<>>
                 /\ job'.at = IF given.sys THEN "check" ELSE "build"
                 /\ job'.seen = {} /\ job'.files = job.files /\ job'.cut = job.cut
                 /\ job'.checked = job.checked /\ DOMAIN job' = DOMAIN job
                 /\ job'.unseen = job.unseen
                 /\ handle_set_package_version.kind = "ver" /\ job'.ver = handle_set_package_version
                 /\ job'.man.version # <<>> /\ job'.man.files = <<>>
                 /\ \/ job'.skimmed
                    \/ /\ job'.man.os = MergedOS(given.staged)
                       /\ job'.man.reqs = MergedReqs(given.staged)
                 /\ DOMAIN job'.man = DOMAIN NoManifest
<1>1. job.at = "scan" /\ ToScan = {} /\ HandleKeeps /\ MayMiss
  BY DEF EndScan, MayMiss
<1> DEFINE v == handle_set_package_version
<1>2. PICK staged : EndScanWith(v, staged)
  BY DEF EndScan
<1> HIDE DEF v
<1>3. CASE Fails
  BY <1>1, <1>3, FailsMeans
<1>4. CASE Hangs
  BY <1>1, <1>4, HangsMeans
<1>5. CASE ~Fails /\ ~Hangs
  <2> DEFINE man == [NoManifest EXCEPT !.version = <<v.major, v.minor>>,
                                       !.os = MergedOS(staged),
                                       !.reqs = MergedReqs(staged)]
             new == [job EXCEPT !.at = IF given.sys THEN "check" ELSE "build",
                                !.ver = v, !.seen = {}, !.last = <<>>,
                                !.skimmed = (staged # given.staged), !.man = man]
  <2>0. IF job.files = <<>> \/ MergeFails(staged) THEN Fails
        ELSE CASE v.kind = "hang" -> Hangs
               [] v.kind = "ver" -> job' = new /\ UNCHANGED bin
               [] OTHER -> Fails
    BY <1>2 DEF EndScanWith
  <2> HIDE DEF new
  <2>1. /\ job.files # <<>> /\ v.kind = "ver"
        /\ job' = new /\ UNCHANGED bin
    BY <2>0, <1>5
  <2>2. /\ man.version = <<v.major, v.minor>> /\ man.files = <<>>
        /\ man.os = MergedOS(staged) /\ man.reqs = MergedReqs(staged)
        /\ DOMAIN man = DOMAIN NoManifest
    BY DEF NoManifest
  <2>3. <<v.major, v.minor>> # <<>>
    OBVIOUS
  <2> HIDE DEF man
  <2>4. /\ job'.at = IF given.sys THEN "check" ELSE "build"
        /\ job'.seen = {} /\ job'.files = job.files /\ job'.cut = job.cut
        /\ job'.checked = job.checked /\ DOMAIN job' = DOMAIN job /\ job'.man = man
        /\ job'.ver = v /\ job'.unseen = job.unseen /\ job'.skimmed = (staged # given.staged)
    BY <2>1 DEF Shape, new
  <2>5. job'.skimmed \/ (job'.man.os = MergedOS(given.staged) /\ job'.man.reqs = MergedReqs(given.staged))
    BY <2>2, <2>4
  <2> QED BY <1>1, <2>1, <2>2, <2>3, <2>4, <2>5 DEF v
<1> QED BY <1>3, <1>4, <1>5

(* However the Manifest is cut, it is a list of lines.                     *)
LEMMA CutLineFacts ==
    ASSUME NEW line, NEW n, NEW rest \in CutLine(line, n)
    PROVE  \E S : rest \in Seq(S)
<1> DEFINE tokens == TokensOf(line)
           whole == Keeping(line, {tokens[i] : i \in 1 .. n})
           cut == {<<[whole EXCEPT !.from = q]>> : q \in CutPaths(line.from)}
           part == <<[whole EXCEPT !.cpu = "part"]>>
<1>1. rest \in CASE n = 0 -> {<<>>, <<whole>>}
                 [] n = 1 -> {<<whole>>} \cup cut
                 [] n = 2 -> {<<whole>>, part}
                 [] OTHER -> {<<whole>>}
  BY DEF CutLine
<1> HIDE DEF whole, cut, part
<1>2. rest = <<>> \/ rest = <<whole>> \/ rest \in cut \/ rest = part
  BY <1>1
<1>3. rest = <<>> \/ \E x : rest = <<x>>
  BY <1>2, Zenon DEF cut, part
<1>4. CASE rest = <<>>
  BY <1>4
<1>5. ASSUME NEW x, rest = <<x>> PROVE rest \in Seq({x})
  BY <1>5
<1> QED BY <1>3, <1>4, <1>5

LEMMA BuildFacts ==
    ASSUME NEW S, NEW files \in Seq(S), NEW reqs, NEW man \in handle_build_manifest(files, reqs)
    PROVE  Ranged(man)
<1> DEFINE used[i \in 0 .. Len(files)] ==
               IF i = 0 THEN Cardinality(DOMAIN reqs) ELSE used[i - 1] + Len(TokensOf(files[i]))
           fits(i) == used[i] <= ManifestMax
           k == CHOOSE i \in 0 .. Len(files) :
                    /\ i > 0 => fits(i)
                    /\ \A j \in i + 1 .. Len(files) : ~fits(j)
           n == IF ManifestMax <= used[k] THEN 0 ELSE ManifestMax - used[k]
<1>1. man \in IF k = Len(files) THEN {files}
              ELSE {SubSeq(files, 1, k) \o rest : rest \in CutLine(files[k + 1], n)}
  BY DEF handle_build_manifest
<1> HIDE DEF used, n
<1>0. Len(files) \in Nat /\ files \in Seq(S) /\ Ranged(files)
  BY DEF Ranged
<1>2. k \in 0 .. Len(files)
  <2> DEFINE ok == {i \in 0 .. Len(files) : \A j \in i + 1 .. Len(files) : ~fits(j)}
  <2> HIDE DEF fits
  <2>1. Len(files) \in ok /\ ok \in SUBSET Nat
    BY <1>0
  <2>2. PICK i \in ok : \A j \in ok : i <= j
    BY <2>1, LeastFacts
  <2>3. i > 0 => fits(i)
    <3>1. SUFFICES ASSUME i > 0, ~fits(i) PROVE FALSE
      OBVIOUS
    <3>2. i - 1 \in 0 .. Len(files) /\ \A j \in (i - 1) + 1 .. Len(files) : j = i \/ j \in i + 1 .. Len(files)
      BY <1>0, <3>1
    <3>3. i - 1 \in ok
      BY <3>1, <3>2
    <3>4. i \in Nat /\ i <= i - 1
      BY <2>1, <2>2, <3>3
    <3> QED BY <3>4
  <2>4. \E m \in 0 .. Len(files) : (m > 0 => fits(m)) /\ \A j \in m + 1 .. Len(files) : ~fits(j)
    BY <2>3
  <2> QED BY <2>4
<1> HIDE DEF k
<1>3. CASE k = Len(files)
  BY <1>0, <1>1, <1>3
<1>4. CASE k # Len(files)
  <2>1. PICK rest \in CutLine(files[k + 1], n) : man = SubSeq(files, 1, k) \o rest
    BY <1>1, <1>4
  <2>2. PICK T : rest \in Seq(T)
    BY CutLineFacts
  <2>3. SubSeq(files, 1, k) \in Seq(S)
    BY <1>0, <1>2
  <2>4. SubSeq(files, 1, k) \in Seq(S \cup T) /\ rest \in Seq(S \cup T)
    BY <2>2, <2>3, SeqMonotonic
  <2>5. man \in Seq(S \cup T)
    BY <2>1, <2>4, ConcatProperties
  <2> QED BY <2>5 DEF Ranged
<1> QED BY <1>3, <1>4

Kind(text) == load_ver_scan_file(text).kind
Version(text) == <<load_ver_scan_file(text).major, load_ver_scan_file(text).minor>>
Checked(i) == FromStage(given.sys, job.files[i].from)
CheckedText(i) == IF Checked(i) \in DOMAIN stage THEN stage[Checked(i)] ELSE <<>>

LEMMA CheckOneMeans ==
    ASSUME Shape, CheckOne
    PROVE  /\ job.at = "check"
           /\ bin' = bin /\ mishaps' = mishaps /\ HandleKeeps
           /\ \/ Ends("failed")
              \/ Ends("hang")
              \/ /\ job'.at = IF job.checked + 1 = Len(job.files) THEN "build" ELSE "check"
                 /\ job'.checked = job.checked + 1
                 /\ Kind(CheckedText(job.checked + 1)) = "ver"
                 /\ Version(CheckedText(job.checked + 1)) = job.man.version
                 /\ job'.seen = job.seen /\ SameLines /\ DOMAIN job' = DOMAIN job
<1> DEFINE v == load_ver_scan_file(CheckedText(job.checked + 1))
           new == [job EXCEPT !.checked = @ + 1,
                              !.at = IF job.checked + 1 = Len(job.files) THEN "build" ELSE @]
<1>1. job.at = "check" /\ HandleKeeps /\ mishaps' = mishaps /\ CheckWith(v)
  BY DEF CheckOne, CheckedText, Checked
<1>2. CASE Fails
  BY <1>1, <1>2, FailsMeans
<1>3. CASE Hangs
  BY <1>1, <1>3, HangsMeans
<1>4. CASE ~Fails /\ ~Hangs
  <2> HIDE DEF v, new
  <2>1. TRUE /\ CASE v.kind = "hang" -> Hangs
                  [] v.kind = "ver" /\ <<v.major, v.minor>> = job.man.version ->
                       job' = new /\ UNCHANGED bin
                  [] OTHER -> Fails
    BY <1>1 DEF CheckWith, new
  <2>2. /\ v.kind = "ver" /\ <<v.major, v.minor>> = job.man.version
        /\ job' = new /\ UNCHANGED bin
    BY <2>1, <1>4
  <2>3. /\ job'.at = IF job.checked + 1 = Len(job.files) THEN "build" ELSE "check"
        /\ job'.checked = job.checked + 1
        /\ job'.seen = job.seen /\ SameLines /\ DOMAIN job' = DOMAIN job
    BY <1>1, <2>2 DEF Shape, SameLines, SameReads, new
  <2> QED BY <1>1, <2>2, <2>3 DEF Kind, Version, v
<1> QED BY <1>2, <1>3, <1>4

LEMMA BuildManifestMeans ==
    ASSUME Shape, BuildManifest
    PROVE  /\ job.at = "build" /\ MayMiss /\ HandleKeeps
           /\ \/ Ends("failed") /\ bin' = bin
              \/ /\ job'.at = "create" /\ bin' \in {bin, NoBin}
                 /\ bin.there => given.force \/ job'.unseen
                 /\ job'.man.files \in handle_build_manifest(job.files, job.man.reqs)
                 /\ Ranged(job'.man.files)
                 /\ job'.cut = (job'.man.files # job.files)
                 /\ job'.man.version = job.man.version /\ job'.man.os = job.man.os
                 /\ job'.man.reqs = job.man.reqs /\ DOMAIN job'.man = DOMAIN job.man
                 /\ job'.seen = job.seen /\ job'.files = job.files /\ job'.ver = job.ver
                 /\ job'.checked = job.checked /\ job'.skimmed = job.skimmed
                 /\ DOMAIN job' = DOMAIN job
<1>1. job.at = "build" /\ HandleKeeps
  BY DEF BuildManifest
<1>2. PICK files \in handle_build_manifest(job.files, job.man.reqs), unseen \in BOOLEAN :
         /\ IF unseen THEN bin.there /\ Mishap ELSE UNCHANGED mishaps
         /\ IF bin.there /\ ~unseen /\ ~given.force THEN Fails
            ELSE /\ job' = [job EXCEPT !.at = "create", !.man.files = files,
                                       !.cut = files # job.files, !.unseen = unseen]
                 /\ bin' = IF unseen THEN bin ELSE NoBin
  BY DEF BuildManifest
<1>3. MayMiss
  BY <1>2 DEF MayMiss
<1>4. CASE Fails
  BY <1>1, <1>3, <1>4, FailsMeans
<1>5. CASE ~Fails
  <2>1. /\ job' = [job EXCEPT !.at = "create", !.man.files = files,
                              !.cut = files # job.files, !.unseen = unseen]
        /\ bin' \in {bin, NoBin} /\ (bin.there => given.force \/ unseen)
    BY <1>2, <1>5
  <2>2. Ranged(files)
    BY <1>2, BuildFacts DEF Shape
  <2>3. /\ job'.at = "create" /\ job'.man.files = files /\ job'.cut = (files # job.files)
        /\ job'.man.version = job.man.version /\ job'.man.os = job.man.os
        /\ job'.man.reqs = job.man.reqs /\ DOMAIN job'.man = DOMAIN job.man
        /\ job'.seen = job.seen /\ job'.files = job.files /\ job'.ver = job.ver
        /\ job'.checked = job.checked /\ job'.skimmed = job.skimmed /\ job'.unseen = unseen
        /\ DOMAIN job' = DOMAIN job
    BY <2>1 DEF Shape, NoManifest
  <2> QED BY <1>1, <1>2, <1>3, <2>1, <2>2, <2>3
<1> QED BY <1>4, <1>5

LEMMA CreateBinMeans ==
    ASSUME Shape, CreateBin
    PROVE  /\ job.at = "create" /\ job'.at = "list" /\ job'.seen = job.seen /\ SameJob
           /\ bin'.man = NoManifest /\ DOMAIN bin' = DOMAIN NoBin /\ bin'.there = TRUE
           /\ \A m \in DOMAIN bin'.held : m \in {<<PackageVer>>, <<AutoShow>>}
           /\ \A m \in DOMAIN bin'.held : bin'.held[m] \in {handle_build_package_ver, AutoShowText}
           /\ mishaps' = mishaps /\ HandleKeeps
<1>1. /\ job.at = "create" /\ mishaps' = mishaps /\ HandleKeeps
      /\ job' = [job EXCEPT !.at = "list"]
  BY DEF CreateBin
<1> DEFINE held == With(With(Nothing, <<PackageVer>>, handle_build_package_ver),
                        <<AutoShow>>, AutoShowText)
<1>2. bin' = [NoBin EXCEPT !.there = TRUE, !.held = held]
  BY DEF CreateBin
<1>3. \A m \in DOMAIN held :
        m \in {<<PackageVer>>, <<AutoShow>>} /\ held[m] \in {handle_build_package_ver, AutoShowText}
  BY DEF With, Nothing
<1> HIDE DEF held
<1>4. bin'.man = NoManifest /\ DOMAIN bin' = DOMAIN NoBin /\ bin'.there = TRUE /\ bin'.held = held
  BY <1>2 DEF NoBin
<1>5. job'.at = "list" /\ job'.seen = job.seen /\ SameJob
  BY <1>1 DEF Shape, SameJob, SameLines, SameReads
<1> QED BY <1>1, <1>3, <1>4, <1>5

LEMMA AddManifestMeans ==
    ASSUME Shape, AddManifest
    PROVE  /\ job.at = "list" /\ job'.at = "pack" /\ job'.seen = job.seen /\ SameJob
           /\ bin'.man = job.man /\ DOMAIN bin' = DOMAIN NoBin /\ bin'.there = bin.there
           /\ bin'.held = bin.held
           /\ mishaps' = mishaps /\ HandleKeeps
BY DEF AddManifest, Shape, SameJob, SameLines, SameReads, NoBin

LEMMA PackOneMeans ==
    ASSUME Shape, NEW p \in DOMAIN stage, PackOne(p)
    PROVE  /\ job.at = "pack" /\ p \in ToPack
           /\ job'.at = "pack" /\ job'.seen = job.seen \cup {p} /\ SameJob
           /\ bin'.man = bin.man /\ DOMAIN bin' = DOMAIN NoBin /\ bin'.there = bin.there
           /\ bin'.held = Append1(bin.held, MemberName(given.sys, p), stage[p])
           /\ mishaps' = mishaps /\ HandleKeeps
BY DEF PackOne, Shape, SameJob, SameLines, SameReads, NoBin, NextOf

LEMMA EndPackMeans ==
    ASSUME Shape, EndPack
    PROVE  /\ job.at = "pack" /\ ToPack = {} /\ Ends("done")
           /\ bin'.man = bin.man /\ DOMAIN bin' = DOMAIN NoBin /\ bin'.there = bin.there
           /\ bin'.held \in {bin.held, Append1(bin.held, <<Readme>>, <<"other">>)}
           /\ MayMiss /\ HandleKeeps
BY DEF EndPack, Shape, Ends, SameJob, SameLines, SameReads, NoBin, MayMiss

LEMMA HandleCallFailsMeans ==
    ASSUME Shape, HandleCallFails
    PROVE  /\ HandleRuns /\ Ends("failed") /\ HandleKeeps
           /\ \/ /\ IF job.at \in {"list", "pack"} THEN bin' = NoBin ELSE MaybeDeleted
                 /\ Mishap
              \/ /\ job.at \in {"list", "pack"} /\ mishaps + 1 < MaxMishaps
                 /\ bin' = bin /\ mishaps' = mishaps + 2
BY DEF HandleCallFails, Shape, Ends, SameJob, SameLines, SameReads

LEMMA HandleResetMeans ==
    ASSUME Shape, HandleReset
    PROVE  /\ HandleRuns /\ Ends("cut") /\ HandleKeeps /\ MaybeDeleted /\ Mishap
BY DEF HandleReset, Shape, Ends, SameJob, SameLines, SameReads

LEMMA EditMeans ==
    ASSUME NEW p \in DOMAIN stage, Edit(p)
    PROVE  /\ HandleRuns /\ edits < MaxEdits /\ edits' = edits + 1
           /\ DOMAIN stage' \subseteq DOMAIN stage
           /\ \A q \in DOMAIN stage' : stage'[q] = stage[q] \/ stage'[q] \in Drafts
           /\ UNCHANGED <<given, bin, installed, job, load, mishaps>>
BY DEF Edit, Without, With

(* Load writes nothing of Handle's.                                        *)
SameLoad == load'.man = load.man /\ DOMAIN load' = DOMAIN load
Parsed(files) == [i \in DOMAIN files |-> load_parse_file_line(files[i])]

LEMMA StartLoadMeans ==
    ASSUME Shape, StartLoad
    PROVE  /\ HandleOver /\ load.at = "idle" /\ LoadKeeps
           /\ installed' = installed /\ mishaps' = mishaps
           /\ load'.placed = load.placed /\ DOMAIN load' = DOMAIN load
           /\ \/ load'.at = "failed" /\ load'.todo = load.todo /\ load'.man = load.man
              \/ /\ load'.at = "install" /\ load'.man = [bin.man EXCEPT !.files = Parsed(bin.man.files)]
                 /\ load'.todo = load_select_variants(Parsed(bin.man.files), given.host)
                 /\ load'.todo # {} /\ ~ManifestFails(bin.man) /\ load_check_deps(bin.man, given.host)
<1> DEFINE files == Parsed(bin.man.files)
           chosen == load_select_variants(files, given.host)
<1>1. /\ HandleOver /\ load.at = "idle" /\ LoadKeeps /\ UNCHANGED <<installed, mishaps>>
      /\ Begin(files, chosen)
  BY DEF StartLoad, Parsed
<1> HIDE DEF files, chosen
<1>2. CASE \/ ~bin.there \/ ManifestFails(bin.man)
           \/ ~load_check_deps(bin.man, given.host) \/ chosen = {}
  <2>1. load' = [load EXCEPT !.at = "failed"]
    BY <1>1, <1>2 DEF Begin
  <2> QED BY <1>1, <2>1 DEF Shape
<1>3. CASE ~ \/ ~bin.there \/ ManifestFails(bin.man)
             \/ ~load_check_deps(bin.man, given.host) \/ chosen = {}
  <2>1. load' = [load EXCEPT !.at = "install", !.todo = chosen,
                             !.man = [bin.man EXCEPT !.files = files]]
    BY <1>1, <1>3 DEF Begin
  <2> QED BY <1>1, <1>3, <2>1 DEF Shape, files, chosen
<1> QED BY <1>2, <1>3

LEMMA EndLoadMeans ==
    ASSUME Shape, EndLoad
    PROVE  /\ load.at = "install" /\ load.todo = {} /\ load'.at = "done" /\ SameLoad
           /\ load'.todo = load.todo /\ load'.placed = load.placed
           /\ LoadKeeps /\ installed' = installed /\ mishaps' = mishaps
BY DEF Shape, EndLoad, Stops, SameLoad

LEMMA LoadCallFailsMeans ==
    ASSUME Shape, LoadCallFails
    PROVE  /\ load.at = "install" \/ (load.at = "idle" /\ HandleOver)
           /\ load'.at = "failed" /\ SameLoad
           /\ load'.todo = load.todo /\ load'.placed = load.placed
           /\ LoadKeeps /\ installed' = installed
           /\ mishaps < MaxMishaps /\ mishaps' = mishaps + 1
BY DEF Shape, LoadCallFails, Stops, SameLoad, Mishap

(* The line whose turn it is, where it goes, and the tags in question.     *)
Turn == LeastOf(load.todo)
TurnLine == load.man.files[Turn]
TurnDest == load_resolve_dest(TurnLine.dest, given.to)
TurnText == MemberText(TurnLine.from)
TurnOld == load_ver_scan_file(IF TurnDest \in DOMAIN installed THEN installed[TurnDest] ELSE <<>>)

(* A line is installed when its member has the package's version; it is    *)
(* skipped when what is there is as new.                                   *)
LEMMA InstallOneMeans ==
    ASSUME Shape, InstallOne
    PROVE  /\ load.at = "install" /\ load.todo # {} /\ LoadKeeps /\ mishaps' = mishaps
           /\ SameLoad
           /\ \/ /\ load'.at \in {"hang", "failed"}
                 /\ load'.todo = load.todo /\ load'.placed = load.placed /\ installed' = installed
                 /\ \/ ~(Kind(TurnText) = "ver" /\ Version(TurnText) = load.man.version)
                    \/ TurnOld.kind \in {"hang", "bad"}
              \/ /\ load'.at = "install" /\ load'.todo = load.todo \ {Turn}
                 /\ load'.placed = load.placed /\ installed' = installed
                 /\ Kind(TurnText) = "ver" /\ Version(TurnText) = load.man.version
                 /\ TurnOld.kind = "ver" /\ load_ver_compare(load_ver_scan_file(TurnText), TurnOld) < 1
              \/ /\ load'.at = "install" /\ load'.todo = load.todo \ {Turn}
                 /\ load'.placed = With(load.placed, TurnDest, TurnLine.from)
                 /\ installed' = With(installed, TurnDest, TurnText)
                 /\ Kind(TurnText) = "ver" /\ Version(TurnText) = load.man.version
                 /\ TurnOld.kind = "ver" /\ ~given.again =>
                      ~(load_ver_compare(load_ver_scan_file(TurnText), TurnOld) < 1)
<1> DEFINE new == load_ver_scan_file(TurnText)
           old == TurnOld
<1>1. /\ load.at = "install" /\ load.todo # {} /\ LoadKeeps /\ mishaps' = mishaps
      /\ InstallLine(TurnLine, TurnText)
  BY DEF InstallOne, Turn, TurnLine, TurnText
<1>2. InstallText(TurnLine, TurnDest, TurnText, new)
  BY <1>1 DEF InstallLine, TurnDest
<1>3. new.kind = Kind(TurnText) /\ <<new.major, new.minor>> = Version(TurnText)
  BY DEF Kind, Version
<1> HIDE DEF new
<1>4. CASE Kind(TurnText) = "ver" /\ Version(TurnText) = load.man.version
  <2>1. InstallOver(TurnLine, TurnDest, TurnText, new, old)
    BY <1>2, <1>3, <1>4 DEF InstallText, TurnOld
  <2> HIDE DEF old
  <2>2. CASE old.kind \in {"hang", "bad"}
    <3>1. Stops("hang") \/ Stops("failed")
      BY <2>1, <2>2 DEF InstallOver
    <3> QED BY <1>1, <2>2, <3>1 DEF Stops, SameLoad, Shape, old
  <2>3. CASE old.kind = "ver" /\ ~given.again /\ load_ver_compare(new, old) < 1
    <3>1. Skip
      BY <2>1, <2>3 DEF InstallOver
    <3>2. load'.at = "install" /\ load'.todo = load.todo \ {Turn} /\ SameLoad
          /\ load'.placed = load.placed /\ installed' = installed
      BY <1>1, <3>1 DEF Skip, SameLoad, Shape, Turn
    <3> QED BY <1>1, <1>4, <2>3, <3>2 DEF new, old
  <2>4. CASE old.kind \notin {"hang", "bad"}
             /\ ~(old.kind = "ver" /\ ~given.again /\ load_ver_compare(new, old) < 1)
    <3>1. Place(TurnLine, TurnDest, TurnText)
      BY <2>1, <2>4 DEF InstallOver
    <3>2. /\ load'.at = "install" /\ load'.todo = load.todo \ {Turn} /\ SameLoad
          /\ load'.placed = With(load.placed, TurnDest, TurnLine.from)
          /\ installed' = With(installed, TurnDest, TurnText)
      BY <1>1, <3>1 DEF Place, SameLoad, Shape, Turn
    <3> QED BY <1>1, <1>4, <2>4, <3>2 DEF new, old
  <2> QED BY <2>2, <2>3, <2>4
<1>5. CASE ~(Kind(TurnText) = "ver" /\ Version(TurnText) = load.man.version)
  <2>1. Stops("hang") \/ Stops("failed")
    BY <1>2, <1>3, <1>5 DEF InstallText
  <2> QED BY <1>1, <1>5, <2>1 DEF Stops, SameLoad, Shape
<1> QED BY <1>4, <1>5

(* A line is installed over a file that was not seen.                      *)
LEMMA InstallUnseenMeans ==
    ASSUME Shape, InstallUnseen
    PROVE  /\ load.at = "install" /\ load.todo # {} /\ LoadKeeps /\ Mishap /\ SameLoad
           /\ load'.at = "install" /\ load'.todo = load.todo \ {Turn}
           /\ load'.placed = With(load.placed, TurnDest, TurnLine.from)
           /\ installed' = With(installed, TurnDest, TurnText)
           /\ load'.unseen = load.unseen \cup {TurnDest}
BY DEF Shape, InstallUnseen, SameLoad, Turn, TurnLine, TurnDest, TurnText

(* The steps of Handle, and what they leave alone.                         *)
HandleStep ==
    \/ StartScan \/ (\E p \in DOMAIN stage : ScanOne(p)) \/ EndScan \/ CheckOne
    \/ BuildManifest \/ CreateBin \/ AddManifest
    \/ (\E p \in DOMAIN stage : PackOne(p)) \/ EndPack
    \/ HandleCallFails \/ HandleReset \/ (\E p \in DOMAIN stage : Edit(p))
LoadStep == StartLoad \/ InstallOne \/ InstallUnseen \/ EndLoad \/ LoadCallFails

LEMMA Steps == Next <=> HandleStep \/ LoadStep
BY DEF Next, HandleStep, LoadStep

LEMMA HandleStepKeeps ==
    ASSUME Shape, HandleStep
    PROVE  ~HandleOver /\ given' = given /\ load' = load /\ installed' = installed
<1>1. CASE StartScan
  BY <1>1, StartScanMeans DEF HandleOver, HandleKeeps
<1>2. ASSUME NEW p \in DOMAIN stage, ScanOne(p)
      PROVE  ~HandleOver /\ given' = given /\ load' = load /\ installed' = installed
  BY <1>2, ScanOneMeans DEF HandleOver, HandleKeeps
<1>3. CASE EndScan
  BY <1>3, EndScanMeans DEF HandleOver, HandleKeeps
<1>4. CASE CheckOne
  BY <1>4, CheckOneMeans DEF HandleOver, HandleKeeps
<1>5. CASE BuildManifest
  BY <1>5, BuildManifestMeans DEF HandleOver, HandleKeeps
<1>6. CASE CreateBin
  BY <1>6, CreateBinMeans DEF HandleOver, HandleKeeps
<1>7. CASE AddManifest
  BY <1>7, AddManifestMeans DEF HandleOver, HandleKeeps
<1>8. ASSUME NEW p \in DOMAIN stage, PackOne(p)
      PROVE  ~HandleOver /\ given' = given /\ load' = load /\ installed' = installed
  BY <1>8, PackOneMeans DEF HandleOver, HandleKeeps
<1>9. CASE EndPack
  BY <1>9, EndPackMeans DEF HandleOver, HandleKeeps
<1>10. CASE HandleCallFails
  BY <1>10, HandleCallFailsMeans DEF HandleOver, HandleRuns, HandleKeeps
<1>11. CASE HandleReset
  BY <1>11, HandleResetMeans DEF HandleOver, HandleRuns, HandleKeeps
<1>12. ASSUME NEW p \in DOMAIN stage, Edit(p)
       PROVE  ~HandleOver /\ given' = given /\ load' = load /\ installed' = installed
  BY <1>12, EditMeans DEF HandleOver, HandleRuns
<1> QED BY <1>1, <1>2, <1>3, <1>4, <1>5, <1>6, <1>7, <1>8, <1>9, <1>10, <1>11, <1>12 DEF HandleStep

LEMMA LoadStepKeeps ==
    ASSUME Shape, LoadStep, mishaps \in Nat
    PROVE  /\ LoadKeeps /\ mishaps' \in {mishaps, mishaps + 1}
           /\ load.at \in {"idle", "install"} /\ (load.at = "idle" => HandleOver)
<1>1. CASE StartLoad
  BY <1>1, StartLoadMeans
<1>2. CASE InstallOne
  BY <1>2, InstallOneMeans
<1>3. CASE EndLoad
  BY <1>3, EndLoadMeans
<1>4. CASE LoadCallFails
  BY <1>4, LoadCallFailsMeans
<1>5. CASE InstallUnseen
  BY <1>5, InstallUnseenMeans DEF Mishap
<1> QED BY <1>1, <1>2, <1>3, <1>4, <1>5 DEF LoadStep

-----------------------------------------------------------------------------
(* Types.                                                                  *)

AfterCheck == {"build", "create", "list", "pack", "done"}
(* How far the versions of the files of a package for SYS are checked.     *)
Counts ==
    /\ job.at \in {"idle", "scan"} => job.checked = 0
    /\ job.at = "check" => given.sys /\ job.checked < Len(job.files)
    /\ given.sys /\ job.at \in AfterCheck => job.checked = Len(job.files)

PackageTypes == TypeOK /\ Shape /\ Counts

LEMMA CaseFacts ==
    ASSUME NEW c \in Cases
    PROVE  /\ DOMAIN c.stage \subseteq Path
           /\ \A p \in DOMAIN c.stage, s \in DOMAIN Assign : p[1][1] # Assign[s][1]
           /\ c.sys \in BOOLEAN /\ c.host.cpu \in Nat
           /\ DOMAIN c.old = DOMAIN NoBin /\ c.old.there \in BOOLEAN
           /\ DOMAIN c.old.man = DOMAIN NoManifest /\ Ranged(c.old.man.files)
           /\ Ranged(c.staged.lines)
           /\ \A p \in DOMAIN c.stage : c.stage[p] \in Seq(STRING)
           /\ \A d \in DOMAIN c.installed : c.installed[d] \in Seq(STRING)
           /\ \A m \in DOMAIN c.old.held : c.old.held[m] \in Seq(STRING)
           /\ c.version \in Seq(STRING)
BY CasesAssumption DEF Path, Ranged

LEMMA Limits == MaxFiles \in Nat /\ MaxReqs \in Nat /\ ManifestMax \in Nat /\ MaxEdits \in Nat /\ MaxMishaps \in Nat
BY PackageAssumption

LEMMA TypesInit == Init => PackageTypes
<1> SUFFICES ASSUME Init PROVE PackageTypes
  OBVIOUS
<1>1. given \in Cases /\ stage = given.stage /\ bin = given.old /\ edits = 0 /\ mishaps = 0
  BY DEF Init
<1>2. /\ job.at = "idle" /\ job.files = <<>> /\ job.man = NoManifest /\ job.checked = 0
      /\ DOMAIN job = {"at", "seen", "last", "files", "man", "ver", "checked", "cut", "skimmed", "unseen"}
  BY DEF Init
<1>3. /\ load.at = "idle" /\ load.man = NoManifest /\ load.todo = {}
      /\ DOMAIN load = {"at", "man", "todo", "placed", "unseen"}
  BY DEF Init
<1>4. Ranged(<<>>) /\ NoManifest.files = <<>>
  BY DEF Ranged, NoManifest
<1>5. Shape
  BY <1>1, <1>2, <1>3, <1>4, CaseFacts DEF Shape
<1>6. TypeOK
  BY <1>1, <1>2, <1>3, CaseFacts, Limits DEF TypeOK
<1>7. Counts
  BY <1>2 DEF Counts, AfterCheck
<1> QED BY <1>5, <1>6, <1>7 DEF PackageTypes

(* What is typed of Handle's side, and what is of Load's.                  *)
HandleTypes ==
    /\ job.at \in {"idle", "scan", "check", "build", "create", "list", "pack",
                   "done", "failed", "cut", "hang"}
    /\ Len(job.files) <= MaxFiles /\ job.checked \in 0 .. Len(job.files)
    /\ bin.there \in BOOLEAN
    /\ edits \in 0 .. MaxEdits /\ mishaps \in 0 .. MaxMishaps
    /\ DOMAIN job = {"at", "seen", "last", "files", "man", "ver", "checked", "cut", "skimmed", "unseen"}
    /\ job.files \in Seq(Lines)
    /\ DOMAIN job.man = DOMAIN NoManifest /\ Ranged(job.man.files)
    /\ DOMAIN bin = DOMAIN NoBin
    /\ DOMAIN bin.man = DOMAIN NoManifest /\ Ranged(bin.man.files)
    /\ DOMAIN stage \subseteq DOMAIN given.stage
LoadTypes ==
    /\ load.at \in {"idle", "install", "done", "failed", "hang"}
    /\ load.todo \subseteq DOMAIN load.man.files
    /\ DOMAIN load = {"at", "man", "todo", "placed", "unseen"}

LEMMA TypesSplit == PackageTypes <=> given \in Cases /\ HandleTypes /\ LoadTypes /\ Counts
BY DEF PackageTypes, TypeOK, Shape, HandleTypes, LoadTypes

LEMMA EmptyRanged == Ranged(<<>>) /\ NoManifest.files = <<>> /\ DOMAIN NoBin.man = DOMAIN NoManifest
                     /\ NoBin.man = NoManifest /\ NoBin.there = FALSE
BY DEF Ranged, NoManifest, NoBin

LEMMA HandleTyped ==
    ASSUME PackageTypes, HandleStep
    PROVE  HandleTypes' /\ Counts'
<1>1. Shape /\ given \in Cases /\ HandleTypes /\ Counts /\ given' = given
  BY TypesSplit, HandleStepKeeps DEF PackageTypes
<1>2. Lines' = Lines
  BY <1>1 DEF Lines, MappedFiles, Line
<1>3. given.sys \in BOOLEAN
  BY <1>1, CaseFacts
<1>4. job.checked \in Nat /\ Len(job.files) \in Nat /\ job.files \in Seq(Lines)
  BY <1>1 DEF HandleTypes
<1>5. CASE StartScan
  <2>1. HandleTypes'
    BY <1>1, <1>2, <1>5, StartScanMeans DEF HandleTypes, HandleKeeps, SameJob, SameLines
  <2>2. Counts'
    BY <1>1, <1>5, StartScanMeans DEF Counts, SameJob, SameLines, AfterCheck
  <2> QED BY <2>1, <2>2
<1>6. ASSUME NEW p \in DOMAIN stage, ScanOne(p) PROVE HandleTypes' /\ Counts'
  <2>1. CASE Ends("failed")
    <3>1. HandleTypes'
      BY <1>1, <1>2, <1>6, <2>1, ScanOneMeans DEF HandleTypes, HandleKeeps, Ends, SameJob, SameLines
    <3>2. Counts'
      BY <1>1, <2>1 DEF Counts, Ends, AfterCheck
    <3> QED BY <3>1, <3>2
  <2>2. CASE ~Ends("failed")
    <3>1. /\ job.at = "scan" /\ job'.at = "scan" /\ p \in ToScan
          /\ Len(job.files) < MaxFiles /\ job'.files = Append(job.files, Line(p))
          /\ job'.man = job.man /\ job'.checked = job.checked /\ DOMAIN job' = DOMAIN job
          /\ bin' = bin /\ mishaps' = mishaps /\ HandleKeeps
      BY <1>1, <1>6, <2>2, ScanOneMeans
    <3>2. Line(p) \in Lines
      BY <1>1, <3>1 DEF Lines, MappedFiles, ToScan, HandleTypes
    <3>3. job'.files \in Seq(Lines) /\ Len(job'.files) = Len(job.files) + 1
      BY <1>4, <3>1, <3>2, AppendProperties
    <3>4. Len(job'.files) <= MaxFiles /\ job'.checked \in 0 .. Len(job'.files)
      BY <1>1, <1>4, <3>1, <3>3, Limits DEF HandleTypes
    <3>5. HandleTypes'
      BY <1>1, <1>2, <3>1, <3>3, <3>4 DEF HandleTypes, HandleKeeps
    <3>6. Counts'
      BY <1>1, <3>1 DEF Counts, AfterCheck
    <3> QED BY <3>5, <3>6
  <2> QED BY <2>1, <2>2
<1>7. CASE EndScan
  <2>0. mishaps' \in 0 .. MaxMishaps
    BY <1>1, <1>7, EndScanMeans, MissTyped DEF HandleTypes
  <2>1. CASE Ends("failed") \/ Ends("hang")
    <3>1. HandleTypes'
      BY <1>1, <1>2, <1>7, <2>0, <2>1, EndScanMeans DEF HandleTypes, HandleKeeps, Ends, SameJob, SameLines
    <3>2. Counts'
      BY <1>1, <2>1 DEF Counts, Ends, AfterCheck
    <3> QED BY <3>1, <3>2
  <2>2. CASE ~Ends("failed") /\ ~Ends("hang")
    <3>1. /\ job.at = "scan" /\ job.files # <<>> /\ job'.at = IF given.sys THEN "check" ELSE "build"
          /\ job'.files = job.files /\ job'.checked = job.checked /\ DOMAIN job' = DOMAIN job
          /\ job'.man.files = <<>> /\ DOMAIN job'.man = DOMAIN NoManifest
          /\ bin' = bin /\ HandleKeeps
      BY <1>1, <1>7, <2>2, EndScanMeans
    <3>2. HandleTypes'
      BY <1>1, <1>2, <2>0, <3>1, EmptyRanged DEF HandleTypes, HandleKeeps
    <3>3. job.checked = 0 /\ 0 < Len(job.files)
      BY <1>1, <1>4, <3>1 DEF Counts
    <3>4. Counts'
      BY <1>1, <1>3, <3>1, <3>3 DEF Counts, AfterCheck
    <3> QED BY <3>2, <3>4
  <2> QED BY <2>1, <2>2
<1>8. CASE CheckOne
  <2>1. CASE Ends("failed") \/ Ends("hang")
    <3>1. HandleTypes'
      BY <1>1, <1>2, <1>8, <2>1, CheckOneMeans DEF HandleTypes, HandleKeeps, Ends, SameJob, SameLines
    <3>2. Counts'
      BY <1>1, <2>1 DEF Counts, Ends, AfterCheck
    <3> QED BY <3>1, <3>2
  <2>2. CASE ~Ends("failed") /\ ~Ends("hang")
    <3>1. /\ job.at = "check"
          /\ job'.at = IF job.checked + 1 = Len(job.files) THEN "build" ELSE "check"
          /\ job'.checked = job.checked + 1 /\ SameLines /\ DOMAIN job' = DOMAIN job
          /\ bin' = bin /\ mishaps' = mishaps /\ HandleKeeps
      BY <1>1, <1>8, <2>2, CheckOneMeans
    <3>2. job.checked < Len(job.files) /\ given.sys
      BY <1>1, <3>1 DEF Counts
    <3>3. job.checked + 1 \in 0 .. Len(job.files)
      BY <1>4, <3>2
    <3>4. job'.files = job.files /\ job'.man = job.man
      BY <3>1 DEF SameLines
    <3>5. HandleTypes'
      BY <1>1, <1>2, <3>1, <3>3, <3>4 DEF HandleTypes, HandleKeeps
    <3>6. job.checked + 1 = Len(job.files) \/ job.checked + 1 < Len(job.files)
      BY <1>4, <3>2
    <3>7. Counts'
      BY <1>1, <3>1, <3>2, <3>4, <3>6 DEF Counts, AfterCheck
    <3> QED BY <3>5, <3>7
  <2> QED BY <2>1, <2>2
<1>9. CASE BuildManifest
  <2>0. mishaps' \in 0 .. MaxMishaps
    BY <1>1, <1>9, BuildManifestMeans, MissTyped DEF HandleTypes
  <2>1. CASE Ends("failed") /\ bin' = bin
    <3>1. HandleTypes'
      BY <1>1, <1>2, <1>9, <2>0, <2>1, BuildManifestMeans DEF HandleTypes, HandleKeeps, Ends, SameJob, SameLines
    <3>2. Counts'
      BY <1>1, <2>1 DEF Counts, Ends, AfterCheck
    <3> QED BY <3>1, <3>2
  <2>2. CASE ~(Ends("failed") /\ bin' = bin)
    <3>1. /\ job.at = "build" /\ job'.at = "create" /\ bin' \in {bin, NoBin}
          /\ Ranged(job'.man.files) /\ DOMAIN job'.man = DOMAIN job.man
          /\ job'.files = job.files /\ job'.checked = job.checked /\ DOMAIN job' = DOMAIN job
          /\ HandleKeeps
      BY <1>1, <1>9, <2>2, BuildManifestMeans
    <3>2. HandleTypes'
      BY <1>1, <1>2, <2>0, <3>1, EmptyRanged DEF HandleTypes, HandleKeeps
    <3>3. Counts'
      BY <1>1, <3>1 DEF Counts, AfterCheck
    <3> QED BY <3>2, <3>3
  <2> QED BY <2>1, <2>2
<1>10. CASE CreateBin
  <2>1. HandleTypes'
    BY <1>1, <1>2, <1>10, CreateBinMeans, EmptyRanged DEF HandleTypes, HandleKeeps, SameJob, SameLines
  <2>2. Counts'
    BY <1>1, <1>10, CreateBinMeans DEF Counts, SameJob, SameLines, AfterCheck
  <2> QED BY <2>1, <2>2
<1>11. CASE AddManifest
  <2>1. HandleTypes'
    BY <1>1, <1>2, <1>11, AddManifestMeans DEF HandleTypes, HandleKeeps, SameJob, SameLines
  <2>2. Counts'
    BY <1>1, <1>11, AddManifestMeans DEF Counts, SameJob, SameLines, AfterCheck
  <2> QED BY <2>1, <2>2
<1>12. ASSUME NEW p \in DOMAIN stage, PackOne(p) PROVE HandleTypes' /\ Counts'
  <2>1. HandleTypes'
    BY <1>1, <1>2, <1>12, PackOneMeans DEF HandleTypes, HandleKeeps, SameJob, SameLines
  <2>2. Counts'
    BY <1>1, <1>12, PackOneMeans DEF Counts, SameJob, SameLines, AfterCheck
  <2> QED BY <2>1, <2>2
<1>13. CASE EndPack
  <2>0. mishaps' \in 0 .. MaxMishaps
    BY <1>1, <1>13, EndPackMeans, MissTyped DEF HandleTypes
  <2>1. HandleTypes'
    BY <1>1, <1>2, <1>13, <2>0, EndPackMeans DEF HandleTypes, HandleKeeps, Ends, SameJob, SameLines
  <2>2. Counts'
    BY <1>1, <1>13, EndPackMeans DEF Counts, Ends, SameJob, SameLines, AfterCheck
  <2> QED BY <2>1, <2>2
<1>14. CASE HandleCallFails
  <2>1. mishaps' \in 0 .. MaxMishaps
    BY <1>1, <1>14, HandleCallFailsMeans, Limits DEF HandleTypes, Mishap
  <2>2. HandleTypes'
    BY <1>1, <1>2, <1>14, <2>1, HandleCallFailsMeans, EmptyRanged
       DEF HandleTypes, HandleKeeps, Ends, SameJob, SameLines, MaybeDeleted
  <2>3. Counts'
    BY <1>1, <1>14, HandleCallFailsMeans DEF Counts, Ends, AfterCheck
  <2> QED BY <2>2, <2>3
<1>15. CASE HandleReset
  <2>1. mishaps' \in 0 .. MaxMishaps
    BY <1>1, <1>15, HandleResetMeans, Limits DEF HandleTypes, Mishap
  <2>2. HandleTypes'
    BY <1>1, <1>2, <1>15, <2>1, HandleResetMeans, EmptyRanged
       DEF HandleTypes, HandleKeeps, Ends, SameJob, SameLines, MaybeDeleted
  <2>3. Counts'
    BY <1>1, <1>15, HandleResetMeans DEF Counts, Ends, AfterCheck
  <2> QED BY <2>2, <2>3
<1>16. ASSUME NEW p \in DOMAIN stage, Edit(p) PROVE HandleTypes' /\ Counts'
  <2>1. edits' \in 0 .. MaxEdits
    BY <1>1, <1>16, EditMeans, Limits DEF HandleTypes
  <2> QED BY <1>1, <1>2, <1>16, <2>1, EditMeans DEF HandleTypes, Counts
<1> QED BY <1>5, <1>6, <1>7, <1>8, <1>9, <1>10, <1>11, <1>12, <1>13, <1>14, <1>15, <1>16 DEF HandleStep

LEMMA LoadTyped ==
    ASSUME PackageTypes, LoadStep
    PROVE  LoadTypes'
<1>1. Shape /\ given \in Cases /\ LoadTypes
  BY TypesSplit DEF PackageTypes
<1>2. CASE StartLoad
  <2>1. CASE load'.at = "failed" /\ load'.todo = load.todo /\ load'.man = load.man
    BY <1>1, <1>2, <2>1, StartLoadMeans DEF LoadTypes
  <2>2. CASE /\ load'.at = "install" /\ load'.man = [bin.man EXCEPT !.files = Parsed(bin.man.files)]
             /\ load'.todo = load_select_variants(Parsed(bin.man.files), given.host)
    <3>1. load'.man.files = Parsed(bin.man.files)
      BY <1>1, <2>2 DEF Shape, NoManifest
    <3>2. Ranged(Parsed(bin.man.files))
      <4>1. DOMAIN Parsed(bin.man.files) = 1 .. Len(bin.man.files) /\ Len(bin.man.files) \in Nat
        BY <1>1 DEF Parsed, Shape, Ranged
      <4> QED BY <4>1 DEF Ranged
    <3>3. load'.todo \subseteq DOMAIN load'.man.files
      BY <2>2, <3>1, <3>2, SelectFacts
    <3> QED BY <1>1, <1>2, <2>2, <3>3, StartLoadMeans DEF LoadTypes
  <2> QED BY <1>1, <1>2, <2>1, <2>2, StartLoadMeans
<1>3. CASE InstallOne
  <2>1. /\ load'.at \in {"install", "hang", "failed"} /\ SameLoad
        /\ load'.todo \subseteq load.todo
    BY <1>1, <1>3, InstallOneMeans
  <2> QED BY <1>1, <2>1 DEF LoadTypes, SameLoad
<1>4. CASE EndLoad
  BY <1>1, <1>4, EndLoadMeans DEF LoadTypes, SameLoad
<1>5. CASE LoadCallFails
  BY <1>1, <1>5, LoadCallFailsMeans DEF LoadTypes, SameLoad
<1>6. CASE InstallUnseen
  <2>1. load'.at = "install" /\ SameLoad /\ load'.todo \subseteq load.todo
    BY <1>1, <1>6, InstallUnseenMeans
  <2> QED BY <1>1, <2>1 DEF LoadTypes, SameLoad
<1> QED BY <1>2, <1>3, <1>4, <1>5, <1>6 DEF LoadStep

LEMMA TypesStep ==
    ASSUME PackageTypes, [Next]_vars
    PROVE  PackageTypes'
<1>1. Shape /\ given \in Cases /\ HandleTypes /\ LoadTypes /\ Counts
  BY TypesSplit DEF PackageTypes
<1>2. CASE HandleStep
  <2>1. given' = given /\ load' = load
    BY <1>1, <1>2, HandleStepKeeps
  <2>2. HandleTypes' /\ Counts'
    BY <1>2, HandleTyped
  <2>3. LoadTypes'
    BY <1>1, <2>1 DEF LoadTypes
  <2>4. (given \in Cases)'
    BY <1>1, <2>1
  <2> QED BY <2>2, <2>3, <2>4 DEF PackageTypes, TypeOK, Shape, HandleTypes, LoadTypes
<1>3. CASE LoadStep
  <2>0. mishaps \in Nat
    BY <1>1, Limits DEF HandleTypes
  <2>1. LoadKeeps /\ mishaps' \in {mishaps, mishaps + 1}
    BY <1>1, <1>3, <2>0, LoadStepKeeps
  <2>2. mishaps' \in 0 .. MaxMishaps
    <3>1. CASE LoadCallFails
      BY <1>1, <2>0, <3>1, LoadCallFailsMeans, Limits
    <3>2. CASE StartLoad \/ InstallOne \/ EndLoad
      BY <1>1, <3>2, StartLoadMeans, InstallOneMeans, EndLoadMeans DEF HandleTypes
    <3>3. CASE InstallUnseen
      BY <1>1, <2>0, <3>3, InstallUnseenMeans, Limits DEF Mishap
    <3> QED BY <1>3, <3>1, <3>2, <3>3 DEF LoadStep
  <2>3. Lines' = Lines
    BY <2>1 DEF Lines, MappedFiles, Line, LoadKeeps
  <2>4. HandleTypes' /\ Counts' /\ (given \in Cases)'
    BY <1>1, <2>1, <2>2, <2>3 DEF HandleTypes, Counts, LoadKeeps
  <2>5. LoadTypes'
    BY <1>3, LoadTyped
  <2> QED BY <2>4, <2>5 DEF PackageTypes, TypeOK, Shape, HandleTypes, LoadTypes
<1>4. CASE UNCHANGED vars
  <2>1. Lines' = Lines
    BY <1>4 DEF Lines, MappedFiles, Line, vars
  <2>2. HandleTypes' /\ Counts' /\ LoadTypes' /\ (given \in Cases)'
    BY <1>1, <1>4, <2>1 DEF HandleTypes, LoadTypes, Counts, vars
  <2> QED BY <2>2 DEF PackageTypes, TypeOK, Shape, HandleTypes, LoadTypes
<1> QED BY <1>2, <1>3, <1>4, Steps

(* Every variable always has its type: the two programs' records have      *)
(* their fields, the lines Handle collects are those of staged files, and  *)
(* no count exceeds its limit.                                             *)
THEOREM Typed == Spec => []TypeOK
<1>1. PackageTypes => TypeOK
  BY DEF PackageTypes
<1> QED BY <1>1, TypesInit, TypesStep, PTL DEF Spec

-----------------------------------------------------------------------------
(* What Handle leaves.                                                     *)

Listed(p) == \E i \in DOMAIN job.files : job.files[i] = Line(p)
Covers == \A p \in DOMAIN stage : Mapped(given.sys, p) => Listed(p)
Merged ==
    \/ job.skimmed
    \/ job.man.os = MergedOS(given.staged) /\ job.man.reqs = MergedReqs(given.staged)

(* Until it has been put out of the way the old package is there, and then *)
(* none but that which is being made; that happens only with FORCE, or     *)
(* when it was not seen.                                                   *)
BinInv ==
    /\ job.at \in {"idle", "scan", "check", "build"} => bin = given.old
    /\ job.at = "create" => bin \in {NoBin, given.old}
    /\ job.at \in {"pack", "done"} => bin.man = job.man
    /\ job.at = "failed" /\ mishaps < 2 => bin \in {NoBin, given.old}
    /\ given.old.there /\ job.at \in {"create", "list", "pack", "done"} => given.force \/ job.unseen
    /\ given.old.there /\ ~given.force /\ ~job.unseen => bin = given.old

(* Each file that the first walk has come to has its line; behind that     *)
(* walk, each file still there has one; and the Manifest has those lines   *)
(* unless it is cut.                                                       *)
LinesInv ==
    /\ job.at \notin {"scan", "pack"} => job.seen = {}
    /\ job.at = "scan" => \A p \in job.seen : Listed(p)
    /\ job.at \in {"idle", "scan"} => job.man = NoManifest
    /\ job.at \in {"check"} \cup AfterCheck => Covers /\ Merged
    /\ job.at \in {"create", "list", "pack", "done"} => job.cut \/ job.man.files = job.files
    /\ job.man = NoManifest \/ (Covers /\ Merged)
    /\ job.man.files = <<>> \/ job.cut \/ job.man.files = job.files

(* What the second walk has come to is held, with the text it had.         *)
Holding(p) == MemberName(given.sys, p) \in DOMAIN bin.held
HeldInv ==
    /\ edits = 0 => stage = given.stage
    /\ job.at = "list" => \A m \in DOMAIN bin.held : m \in {<<PackageVer>>, <<AutoShow>>}
    /\ job.at = "pack" => \A p \in job.seen : Holding(p)
    /\ job.at = "done" => \A p \in DOMAIN stage : Packed(p) => Holding(p)
    /\ edits = 0 /\ job.at \in {"pack", "done"} =>
         \A p \in DOMAIN stage :
            Packed(p) /\ Holding(p) => bin.held[MemberName(given.sys, p)] = stage[p]

HandleInv == BinInv /\ LinesInv /\ HeldInv

LEMMA HandleInit == Init => HandleInv
<1> SUFFICES ASSUME Init PROVE HandleInv
  OBVIOUS
<1>1. /\ stage = given.stage /\ bin = given.old
      /\ job.at = "idle" /\ job.seen = {} /\ job.man = NoManifest
  BY DEF Init
<1>2. NoManifest.files = <<>>
  BY EmptyRanged
<1> QED BY <1>1, <1>2 DEF HandleInv, BinInv, LinesInv, HeldInv, AfterCheck

LEMMA BinStep ==
    ASSUME PackageTypes, BinInv, HandleStep
    PROVE  BinInv'
<1>1. Shape /\ mishaps \in Nat /\ given' = given
  BY Limits, HandleStepKeeps DEF PackageTypes, TypeOK
<1>2. CASE StartScan
  BY <1>1, <1>2, StartScanMeans DEF BinInv, SameJob, SameLines, SameReads
<1>3. ASSUME NEW p \in DOMAIN stage, ScanOne(p) PROVE BinInv'
  BY <1>1, <1>3, ScanOneMeans DEF BinInv, Ends, SameJob, SameLines, SameReads
<1>4. CASE EndScan
  BY <1>1, <1>4, EndScanMeans DEF BinInv, Ends, SameJob, SameLines, SameReads
<1>5. CASE CheckOne
  BY <1>1, <1>5, CheckOneMeans DEF BinInv, Ends, SameJob, SameLines, SameReads
<1>6. CASE BuildManifest
  BY <1>1, <1>6, BuildManifestMeans DEF BinInv, Ends, SameJob, SameLines, SameReads
<1>7. CASE CreateBin
  BY <1>1, <1>7, CreateBinMeans DEF BinInv, SameJob, SameLines, SameReads
<1>8. CASE AddManifest
  BY <1>1, <1>8, AddManifestMeans DEF BinInv, SameJob, SameLines, SameReads
<1>9. ASSUME NEW p \in DOMAIN stage, PackOne(p) PROVE BinInv'
  BY <1>1, <1>9, PackOneMeans DEF BinInv, SameJob, SameLines, SameReads
<1>10. CASE EndPack
  BY <1>1, <1>10, EndPackMeans DEF BinInv, Ends, SameJob, SameLines, SameReads
<1>11. CASE HandleCallFails
  <2>1. job'.at = "failed" /\ job'.unseen = job.unseen /\ HandleRuns
    BY <1>1, <1>11, HandleCallFailsMeans DEF Ends, SameJob, SameLines, SameReads
  <2>2. ASSUME mishaps' < 2 PROVE bin' \in {NoBin, given.old}
    BY <1>1, <1>11, <2>1, <2>2, HandleCallFailsMeans DEF BinInv, HandleRuns, MaybeDeleted
  <2>3. bin' = bin \/ job.at \in {"create", "list", "pack"}
    BY <1>1, <1>11, HandleCallFailsMeans DEF MaybeDeleted
  <2> QED BY <1>1, <2>1, <2>2, <2>3 DEF BinInv
<1>12. CASE HandleReset
  BY <1>1, <1>12, HandleResetMeans
     DEF BinInv, Ends, SameJob, SameLines, SameReads, MaybeDeleted
<1>13. ASSUME NEW p \in DOMAIN stage, Edit(p) PROVE BinInv'
  BY <1>13, EditMeans DEF BinInv
<1> QED BY <1>2, <1>3, <1>4, <1>5, <1>6, <1>7, <1>8, <1>9, <1>10, <1>11, <1>12, <1>13 DEF HandleStep

(* Where the lines and the stage stay as they are, so does what is said of *)
(* them.                                                                   *)
LEMMA SameCovers ==
    ASSUME given' = given, stage' = stage, job'.files = job.files
    PROVE  (Covers <=> Covers') /\ \A p : Listed(p) <=> Listed(p)'
BY DEF Covers, Listed, Line

LEMMA EndsLines ==
    ASSUME LinesInv, given' = given, stage' = stage, NEW at \in {"failed", "hang", "cut"}, Ends(at)
    PROVE  LinesInv'
<1>1. job'.files = job.files /\ job'.man = job.man /\ job'.cut = job.cut
      /\ job'.at = at /\ job'.seen = {} /\ job'.skimmed = job.skimmed
  BY DEF Ends, SameJob, SameLines, SameReads
<1>2. (Covers <=> Covers') /\ (Merged <=> Merged')
  BY <1>1, SameCovers DEF Merged
<1> QED BY <1>1, <1>2 DEF LinesInv, AfterCheck

(* The same where Handle goes on after the Manifest is made.               *)
LEMMA LaterLines ==
    ASSUME LinesInv, given' = given, stage' = stage, SameLines,
           job.at \in {"create", "list", "pack"}, job'.at \in {"list", "pack", "done"},
           job'.at = "pack" \/ job'.seen = {}
    PROVE  LinesInv'
<1>1. job'.files = job.files /\ job'.man = job.man /\ job'.cut = job.cut
      /\ job'.skimmed = job.skimmed
  BY DEF SameLines, SameReads
<1>2. (Covers <=> Covers') /\ (Merged <=> Merged')
  BY <1>1, SameCovers DEF Merged
<1>3. Covers /\ Merged /\ (job.cut \/ job.man.files = job.files)
  BY DEF LinesInv, AfterCheck
<1> QED BY <1>1, <1>2, <1>3 DEF LinesInv

LEMMA LinesStep ==
    ASSUME PackageTypes, LinesInv, HandleStep
    PROVE  LinesInv'
<1>1. Shape /\ given' = given /\ job.files \in Seq(Lines) /\ Len(job.files) \in Nat
  BY HandleStepKeeps DEF PackageTypes, Shape
<1>2. CASE StartScan
  <2>1. /\ job.at = "idle" /\ job'.at = "scan" /\ job'.seen = {} /\ stage' = stage
        /\ job'.files = job.files /\ job'.man = job.man /\ job'.cut = job.cut
    BY <1>1, <1>2, StartScanMeans DEF HandleKeeps, LinesInv, SameJob, SameLines
  <2>2. job.man = NoManifest /\ NoManifest.files = <<>>
    BY <2>1, EmptyRanged DEF LinesInv
  <2> QED BY <2>1, <2>2 DEF LinesInv, AfterCheck
<1>3. ASSUME NEW p \in DOMAIN stage, ScanOne(p) PROVE LinesInv'
  <2>1. CASE Ends("failed")
    BY <1>1, <1>3, <2>1, ScanOneMeans, EndsLines DEF HandleKeeps
  <2>2. CASE ~Ends("failed")
    <3>1. /\ job.at = "scan" /\ job'.at = "scan" /\ job'.seen = job.seen \cup {p}
          /\ job'.files = Append(job.files, Line(p)) /\ job'.man = job.man /\ job'.cut = job.cut
          /\ p \in ToScan
      BY <1>1, <1>3, <2>2, ScanOneMeans
    <3>2. Line(p) \in Lines
      BY <1>1, <3>1 DEF Lines, MappedFiles, ToScan, Shape
    <3>3. /\ DOMAIN job'.files = 1 .. Len(job.files) + 1
          /\ job'.files[Len(job.files) + 1] = Line(p)
          /\ \A i \in 1 .. Len(job.files) : job'.files[i] = job.files[i]
          /\ DOMAIN job.files = 1 .. Len(job.files)
      BY <1>1, <3>1, <3>2, AppendProperties
    <3>4. \A q : Line(q)' = Line(q)
      BY <1>1 DEF Line
    <3>5. Listed(p)' /\ \A q : Listed(q) => Listed(q)'
      <4>1. Len(job.files) + 1 \in DOMAIN job'.files /\ DOMAIN job.files \subseteq DOMAIN job'.files
        BY <1>1, <3>3
      <4> QED BY <3>3, <3>4, <4>1 DEF Listed
    <3>6. \A q \in job'.seen : Listed(q)'
      BY <3>1, <3>5 DEF LinesInv
    <3>7. job'.man = NoManifest /\ NoManifest.files = <<>>
      BY <3>1, EmptyRanged DEF LinesInv
    <3> QED BY <3>1, <3>6, <3>7 DEF LinesInv, AfterCheck
  <2> QED BY <2>1, <2>2
<1>4. CASE EndScan
  <2>1. CASE Ends("failed") \/ Ends("hang")
    BY <1>1, <1>4, <2>1, EndScanMeans, EndsLines DEF HandleKeeps
  <2>2. CASE ~Ends("failed") /\ ~Ends("hang")
    <3>1. /\ job.at = "scan" /\ ToScan = {} /\ stage' = stage
          /\ job'.at = IF given.sys THEN "check" ELSE "build"
          /\ job'.seen = {} /\ job'.files = job.files /\ job'.cut = job.cut
          /\ job'.man.files = <<>>
          /\ \/ job'.skimmed
             \/ job'.man.os = MergedOS(given.staged) /\ job'.man.reqs = MergedReqs(given.staged)
      BY <1>1, <1>4, <2>2, EndScanMeans DEF HandleKeeps
    <3>2. Covers
      BY <3>1 DEF LinesInv, Covers, ToScan
    <3>3. Covers' /\ Merged'
      BY <1>1, <3>1, <3>2, SameCovers DEF Merged
    <3> QED BY <3>1, <3>3 DEF LinesInv
  <2> QED BY <2>1, <2>2
<1>5. CASE CheckOne
  <2>1. CASE Ends("failed") \/ Ends("hang")
    BY <1>1, <1>5, <2>1, CheckOneMeans, EndsLines DEF HandleKeeps
  <2>2. CASE ~Ends("failed") /\ ~Ends("hang")
    <3>1. /\ job.at = "check" /\ job'.at \in {"check", "build"} /\ stage' = stage
          /\ job'.seen = job.seen
          /\ job'.files = job.files /\ job'.man = job.man /\ job'.cut = job.cut
          /\ job'.skimmed = job.skimmed
      BY <1>1, <1>5, <2>2, CheckOneMeans DEF HandleKeeps, SameLines, SameReads
    <3>2. Covers' /\ Merged'
      BY <1>1, <3>1, SameCovers DEF Merged, LinesInv
    <3> QED BY <3>1, <3>2 DEF LinesInv
  <2> QED BY <2>1, <2>2
<1>6. CASE BuildManifest
  <2>1. CASE Ends("failed")
    BY <1>1, <1>6, <2>1, BuildManifestMeans, EndsLines DEF HandleKeeps
  <2>2. CASE ~Ends("failed")
    <3>1. /\ job.at = "build" /\ job'.at = "create" /\ stage' = stage /\ job'.seen = job.seen
          /\ job'.files = job.files /\ job'.cut = (job'.man.files # job.files)
          /\ job'.man.os = job.man.os /\ job'.man.reqs = job.man.reqs
          /\ job'.skimmed = job.skimmed
      BY <1>1, <1>6, <2>2, BuildManifestMeans DEF HandleKeeps
    <3>2. Covers' /\ Merged'
      BY <1>1, <3>1, SameCovers DEF Merged, LinesInv, AfterCheck
    <3>3. job'.cut \/ job'.man.files = job'.files
      BY <3>1
    <3> QED BY <3>1, <3>2, <3>3 DEF LinesInv
  <2> QED BY <2>1, <2>2
<1>7. CASE CreateBin
  BY <1>1, <1>7, CreateBinMeans, LaterLines DEF HandleKeeps, SameJob, LinesInv
<1>8. CASE AddManifest
  BY <1>1, <1>8, AddManifestMeans, LaterLines DEF HandleKeeps, SameJob
<1>9. ASSUME NEW p \in DOMAIN stage, PackOne(p) PROVE LinesInv'
  BY <1>1, <1>9, PackOneMeans, LaterLines DEF HandleKeeps, SameJob
<1>10. CASE EndPack
  BY <1>1, <1>10, EndPackMeans, LaterLines DEF HandleKeeps, SameJob, Ends
<1>11. CASE HandleCallFails
  BY <1>1, <1>11, HandleCallFailsMeans, EndsLines DEF HandleKeeps
<1>12. CASE HandleReset
  BY <1>1, <1>12, HandleResetMeans, EndsLines DEF HandleKeeps
<1>13. ASSUME NEW p \in DOMAIN stage, Edit(p) PROVE LinesInv'
  <2>1. DOMAIN stage' \subseteq DOMAIN stage /\ job' = job
    BY <1>13, EditMeans
  <2>2. (Covers => Covers') /\ (Merged <=> Merged') /\ \A q : Listed(q) <=> Listed(q)'
    BY <1>1, <2>1 DEF Covers, Listed, Line, Merged
  <2> QED BY <2>1, <2>2 DEF LinesInv
<1> QED BY <1>2, <1>3, <1>4, <1>5, <1>6, <1>7, <1>8, <1>9, <1>10, <1>11, <1>12, <1>13 DEF HandleStep

LEMMA HeldStep ==
    ASSUME PackageTypes, LinesInv, HeldInv, HandleStep
    PROVE  HeldInv'
<1>1. /\ Shape /\ given' = given /\ given \in Cases /\ edits \in Nat
      /\ DOMAIN stage \subseteq Path /\ given.sys \in BOOLEAN
  <2>1. Shape /\ given' = given /\ given \in Cases /\ edits \in Nat
    BY HandleStepKeeps, Limits DEF PackageTypes, TypeOK
  <2> QED BY <2>1, CaseFacts DEF Shape
<1>2. ASSUME stage' = stage, edits' = edits, job'.at \notin {"list", "pack", "done"}
      PROVE  HeldInv'
  BY <1>1, <1>2 DEF HeldInv
<1>3. CASE StartScan
  BY <1>1, <1>2, <1>3, StartScanMeans DEF HandleKeeps
<1>4. ASSUME NEW p \in DOMAIN stage, ScanOne(p) PROVE HeldInv'
  BY <1>1, <1>2, <1>4, ScanOneMeans DEF HandleKeeps, Ends
<1>5. CASE EndScan
  <2>1. job'.at \in {"failed", "hang", "check", "build"} /\ stage' = stage /\ edits' = edits
    BY <1>1, <1>5, EndScanMeans DEF HandleKeeps, Ends
  <2> QED BY <1>2, <2>1
<1>6. CASE CheckOne
  <2>1. job'.at \in {"failed", "hang", "check", "build"} /\ stage' = stage /\ edits' = edits
    BY <1>1, <1>6, CheckOneMeans DEF HandleKeeps, Ends
  <2> QED BY <1>2, <2>1
<1>7. CASE BuildManifest
  BY <1>1, <1>2, <1>7, BuildManifestMeans DEF HandleKeeps, Ends
<1>8. CASE CreateBin
  BY <1>1, <1>8, CreateBinMeans DEF HandleKeeps, HeldInv
<1>9. CASE AddManifest
  <2>1. /\ job.at = "list" /\ job'.at = "pack" /\ job'.seen = {} /\ bin'.held = bin.held
        /\ stage' = stage /\ edits' = edits
    BY <1>1, <1>9, AddManifestMeans DEF HandleKeeps, LinesInv
  <2>2. \A p \in DOMAIN stage : Packed(p) => ~Holding(p)'
    <3>1. SUFFICES ASSUME NEW p \in DOMAIN stage, Packed(p) PROVE MemberName(given.sys, p) \notin DOMAIN bin.held
      BY <1>1, <2>1 DEF Holding
    <3>2. MemberName(given.sys, p) \notin {<<PackageVer>>, <<AutoShow>>}
      BY <1>1, <3>1, MemberFacts
    <3> QED BY <2>1, <3>2 DEF HeldInv
  <2>3. edits' = 0 => stage' = given'.stage
    BY <1>1, <2>1 DEF HeldInv
  <2> QED BY <2>1, <2>2, <2>3 DEF HeldInv
<1>10. ASSUME NEW p \in DOMAIN stage, PackOne(p) PROVE HeldInv'
  <2>1. /\ job.at = "pack" /\ job'.at = "pack" /\ job'.seen = job.seen \cup {p}
        /\ bin'.held = Append1(bin.held, MemberName(given.sys, p), stage[p])
        /\ stage' = stage /\ edits' = edits /\ p \in ToPack
    BY <1>1, <1>10, PackOneMeans DEF HandleKeeps
  <2>2. /\ DOMAIN bin'.held = DOMAIN bin.held \cup {MemberName(given.sys, p)}
        /\ \A m \in DOMAIN bin.held : bin'.held[m] = bin.held[m]
        /\ MemberName(given.sys, p) \in DOMAIN bin.held \/ bin'.held[MemberName(given.sys, p)] = stage[p]
    BY <2>1 DEF Append1, With
  <2>3. \A q : Holding(q)' <=> Holding(q) \/ MemberName(given.sys, q) = MemberName(given.sys, p)
    BY <1>1, <2>2 DEF Holding
  <2>4. \A q \in DOMAIN stage : MemberName(given.sys, q) = MemberName(given.sys, p) => q = p
    <3>1. SUFFICES ASSUME NEW q \in DOMAIN stage, MemberName(given.sys, q) = MemberName(given.sys, p)
                   PROVE  q = p
      OBVIOUS
    <3>2. FromStage(given.sys, MemberName(given.sys, q)) = q /\ FromStage(given.sys, MemberName(given.sys, p)) = p
      BY <1>1, MemberFacts
    <3> QED BY <3>1, <3>2
  <2>5. \A q \in job'.seen : Holding(q)'
    BY <2>1, <2>3 DEF HeldInv
  <2>6. ASSUME edits = 0, NEW q \in DOMAIN stage, Packed(q), Holding(q)'
        PROVE  bin'.held[MemberName(given.sys, q)] = stage[q]
    <3>1. CASE Holding(q)
      <4>1. bin.held[MemberName(given.sys, q)] = stage[q]
        BY <2>1, <2>6, <3>1 DEF HeldInv
      <4> QED BY <2>2, <3>1, <4>1 DEF Holding
    <3>2. CASE ~Holding(q)
      <4>1. q = p
        BY <2>3, <2>4, <2>6, <3>2
      <4> QED BY <2>2, <3>2, <4>1 DEF Holding
    <3> QED BY <3>1, <3>2
  <2>7. edits' = 0 => stage' = given'.stage
    BY <1>1, <2>1 DEF HeldInv
  <2> QED BY <1>1, <2>1, <2>5, <2>6, <2>7 DEF HeldInv
<1>11. CASE EndPack
  <2>1. /\ job.at = "pack" /\ job'.at = "done" /\ ToPack = {}
        /\ bin'.held \in {bin.held, Append1(bin.held, <<Readme>>, <<"other">>)}
        /\ stage' = stage /\ edits' = edits
    BY <1>1, <1>11, EndPackMeans DEF HandleKeeps, Ends
  <2>2. /\ DOMAIN bin.held \subseteq DOMAIN bin'.held
        /\ \A m \in DOMAIN bin.held : bin'.held[m] = bin.held[m]
    BY <2>1 DEF Append1, With
  <2>3. \A q \in DOMAIN stage : Packed(q) => Holding(q)
    BY <2>1 DEF HeldInv, ToPack
  <2>4. \A q \in DOMAIN stage : Packed(q) => Holding(q)'
    BY <1>1, <2>2, <2>3 DEF Holding
  <2>5. ASSUME edits = 0, NEW q \in DOMAIN stage, Packed(q)
        PROVE  bin'.held[MemberName(given.sys, q)] = stage[q]
    BY <2>1, <2>2, <2>3, <2>5 DEF HeldInv, Holding
  <2>6. edits' = 0 => stage' = given'.stage
    BY <1>1, <2>1 DEF HeldInv
  <2> QED BY <1>1, <2>1, <2>4, <2>5, <2>6 DEF HeldInv
<1>12. CASE HandleCallFails
  BY <1>1, <1>2, <1>12, HandleCallFailsMeans DEF HandleKeeps, Ends
<1>13. CASE HandleReset
  BY <1>1, <1>2, <1>13, HandleResetMeans DEF HandleKeeps, Ends
<1>14. ASSUME NEW p \in DOMAIN stage, Edit(p) PROVE HeldInv'
  <2>1. HandleRuns /\ edits' = edits + 1 /\ DOMAIN stage' \subseteq DOMAIN stage /\ bin' = bin /\ job' = job
    BY <1>14, EditMeans
  <2> QED BY <1>1, <2>1 DEF HeldInv, HandleRuns, Holding
<1> QED BY <1>3, <1>4, <1>5, <1>6, <1>7, <1>8, <1>9, <1>10, <1>11, <1>12, <1>13, <1>14 DEF HandleStep

LEMMA HandleInvStep ==
    ASSUME PackageTypes, HandleInv, [Next]_vars
    PROVE  HandleInv'
<1>1. CASE HandleStep
  BY <1>1, BinStep, LinesStep, HeldStep DEF HandleInv
<1>2. ASSUME given' = given, stage' = stage, bin' = bin, job' = job, edits' = edits,
             mishaps' \in {mishaps, mishaps + 1}
      PROVE  HandleInv'
  <2>1. mishaps \in Nat
    BY Limits DEF PackageTypes, TypeOK
  <2>2. mishaps' < 2 => mishaps < 2
    BY <1>2, <2>1
  <2>3. BinInv'
    BY <1>2, <2>2 DEF HandleInv, BinInv
  <2>4. LinesInv'
    BY <1>2 DEF HandleInv, LinesInv, Covers, Merged, Listed, Line
  <2>5. HeldInv'
    BY <1>2 DEF HandleInv, HeldInv, Holding
  <2> QED BY <2>3, <2>4, <2>5 DEF HandleInv
<1>3. CASE LoadStep
  <2>1. Shape /\ mishaps \in Nat
    BY Limits DEF PackageTypes, TypeOK
  <2> QED BY <1>2, <1>3, <2>1, LoadStepKeeps DEF LoadKeeps
<1>4. CASE UNCHANGED vars
  BY <1>2, <1>4 DEF vars
<1> QED BY <1>1, <1>3, <1>4, Steps

LEMMA LineOf ==
    ASSUME PackageTypes, NEW i \in DOMAIN job.files
    PROVE  \E p \in MappedFiles : job.files[i] = Line(p)
<1>1. job.files \in Seq(Lines)
  BY DEF PackageTypes, Shape
<1>2. job.files[i] \in Lines
  BY <1>1
<1> QED BY <1>2 DEF Lines

LEMMA HandleInvGives == PackageTypes /\ HandleInv => LeavesWholeOrNothing
<1> SUFFICES ASSUME PackageTypes, HandleInv PROVE LeavesWholeOrNothing
  OBVIOUS
<1>1. ASSUME job.at = "failed" /\ mishaps < 2 PROVE bin \in {NoBin, given.old}
  BY <1>1 DEF HandleInv, BinInv
<1>2. ASSUME job.at = "done" /\ edits = 0 /\ PlainNames /\ ~job.cut
      PROVE  /\ \A i \in DOMAIN bin.man.files : bin.man.files[i].from \in DOMAIN bin.held
             /\ \A p \in DOMAIN stage : Mapped(given.sys, p) =>
                  \E i \in DOMAIN bin.man.files : bin.man.files[i].from = MemberName(given.sys, p)
  <2>1. bin.man.files = job.files /\ stage = given.stage /\ Covers
    BY <1>2 DEF HandleInv, BinInv, LinesInv, HeldInv, AfterCheck
  <2>2. \A p : Line(p).from = MemberName(given.sys, p)
    BY DEF Line, handle_add_file
  <2>3. \A p \in MappedFiles : p \in DOMAIN stage /\ Packed(p)
    BY <1>2, <2>1 DEF MappedFiles, Mapped, Packed, PlainNames
  <2>4. \A p \in MappedFiles : MemberName(given.sys, p) \in DOMAIN bin.held
    BY <1>2, <2>3 DEF HandleInv, HeldInv, Holding
  <2>5. \A i \in DOMAIN job.files : job.files[i].from \in DOMAIN bin.held
    BY <2>2, <2>4, LineOf
  <2>6. \A p \in DOMAIN stage : Mapped(given.sys, p) =>
          \E i \in DOMAIN job.files : job.files[i].from = MemberName(given.sys, p)
    BY <2>1, <2>2 DEF Covers, Listed
  <2> QED BY <2>1, <2>5, <2>6
<1>3. given.old.there /\ ~given.force /\ ~job.unseen => bin = given.old
  BY DEF HandleInv, BinInv
<1> QED BY <1>1, <1>2, <1>3 DEF LeavesWholeOrNothing

(* Handle leaves a package whose Manifest and members agree and which      *)
(* lacks no file, provided that the stage is not changed between its two   *)
(* walks, no file has a name that Handle uses itself or one with a blank,  *)
(* and the Manifest is not cut; when a call fails, and no second one does, *)
(* it leaves the old package or none; and without FORCE it leaves the old  *)
(* one alone unless a Lock of it fails.  What a reset leaves is not said.  *)
THEOREM LeavesWhole == Spec => []LeavesWholeOrNothing
<1>1. Init => PackageTypes /\ HandleInv
  BY TypesInit, HandleInit
<1>2. PackageTypes /\ HandleInv /\ [Next]_vars => (PackageTypes /\ HandleInv)'
  BY TypesStep, HandleInvStep
<1> QED BY <1>1, <1>2, HandleInvGives, PTL DEF Spec

-----------------------------------------------------------------------------
(* What Load puts into place.                                              *)

Chosen == load_select_variants(load.man.files, given.host)
Installing == load.at \in {"install", "done"} \/ DOMAIN load.placed # {}
(* The line at i was chosen for d.                                         *)
PlacedFrom(i, d) ==
    /\ load.placed[d] = load.man.files[i].from
    /\ d = load_resolve_dest(load.man.files[i].dest, given.to)

(* Once Load installs, it does so from the lines chosen out of a Manifest  *)
(* that it could read and whose demands the host meets, and Handle is over.*)
LoadInv ==
    /\ load.at # "idle" => HandleOver
    /\ load.at = "idle" => load.placed = Nothing /\ installed = given.installed
    /\ Installing =>
         /\ HandleOver
         /\ load.man = [bin.man EXCEPT !.files = Parsed(bin.man.files)]
         /\ ~ManifestFails(bin.man) /\ load_check_deps(bin.man, given.host)
         /\ load.todo \subseteq Chosen /\ Chosen # {}
         /\ \A d \in DOMAIN load.placed : \E i \in Chosen : PlacedFrom(i, d)

LEMMA LoadInit == Init => LoadInv
<1> SUFFICES ASSUME Init PROVE LoadInv
  OBVIOUS
<1>1. load.at = "idle" /\ load.placed = Nothing /\ installed = given.installed
  BY DEF Init
<1>2. DOMAIN Nothing = {}
  BY DEF Nothing
<1> QED BY <1>1, <1>2 DEF LoadInv, Installing

LEMMA ParsedFacts ==
    ASSUME NEW files, Ranged(files)
    PROVE  Ranged(Parsed(files)) /\ DOMAIN Parsed(files) = DOMAIN files
<1>1. DOMAIN Parsed(files) = 1 .. Len(files) /\ Len(files) \in Nat
  BY DEF Parsed, Ranged
<1> QED BY <1>1 DEF Ranged

LEMMA TurnFacts ==
    ASSUME PackageTypes, LoadInv, load.at = "install", load.todo # {}
    PROVE  Turn \in load.todo /\ Turn \in Chosen
<1>1. load.man = [bin.man EXCEPT !.files = Parsed(bin.man.files)] /\ load.todo \subseteq Chosen
  BY DEF LoadInv, Installing
<1>2. load.man.files = Parsed(bin.man.files) /\ Ranged(bin.man.files)
  BY <1>1 DEF PackageTypes, Shape, NoManifest
<1>3. Chosen \subseteq DOMAIN load.man.files /\ DOMAIN load.man.files \subseteq Nat
  BY <1>2, ParsedFacts, SelectFacts DEF Chosen, Ranged
<1>4. load.todo \in SUBSET Nat
  BY <1>1, <1>3
<1>5. Turn \in load.todo
  BY <1>4, LeastFacts DEF Turn
<1> QED BY <1>1, <1>5

LEMMA LoadInvStep ==
    ASSUME PackageTypes, LoadInv, [Next]_vars
    PROVE  LoadInv'
<1>1. Shape /\ mishaps \in Nat
  BY Limits DEF PackageTypes, TypeOK
<1>2. DOMAIN Nothing = {}
  BY DEF Nothing
<1>3. CASE HandleStep
  <2>1. ~HandleOver /\ given' = given /\ load' = load /\ installed' = installed
    BY <1>1, <1>3, HandleStepKeeps
  <2>2. load.at = "idle" /\ load.placed = Nothing /\ installed = given.installed
    BY <2>1 DEF LoadInv
  <2>3. ~Installing'
    BY <1>2, <2>1, <2>2 DEF Installing
  <2> QED BY <2>1, <2>2, <2>3 DEF LoadInv
<1>4. CASE StartLoad
  <2>1. /\ HandleOver /\ load.at = "idle" /\ LoadKeeps /\ load'.placed = load.placed
        /\ load.placed = Nothing
    BY <1>1, <1>4, StartLoadMeans DEF LoadInv
  <2>2. HandleOver' /\ given' = given /\ bin' = bin
    BY <2>1 DEF LoadKeeps, HandleOver
  <2>3. CASE load'.at = "failed"
    <3>1. ~Installing'
      BY <1>2, <2>1, <2>3 DEF Installing
    <3> QED BY <2>2, <2>3, <3>1 DEF LoadInv
  <2>4. CASE /\ load'.at = "install" /\ load'.man = [bin.man EXCEPT !.files = Parsed(bin.man.files)]
             /\ load'.todo = load_select_variants(Parsed(bin.man.files), given.host)
             /\ load'.todo # {} /\ ~ManifestFails(bin.man) /\ load_check_deps(bin.man, given.host)
    <3>1. load'.man.files = Parsed(bin.man.files)
      BY <1>1, <2>4 DEF Shape, NoManifest
    <3>2. load'.todo \subseteq Chosen' /\ Chosen' # {}
      BY <2>2, <2>4, <3>1 DEF Chosen
    <3>3. (load.man = [bin.man EXCEPT !.files = Parsed(bin.man.files)])'
      BY <2>2, <2>4 DEF Parsed
    <3>4. DOMAIN load'.placed = {}
      BY <1>2, <2>1
    <3> QED BY <2>2, <2>4, <3>2, <3>3, <3>4 DEF LoadInv
  <2> QED BY <1>1, <1>4, <2>3, <2>4, StartLoadMeans
<1>5. ASSUME LoadKeeps, SameLoad, load.at = "install", load'.at # "idle",
             load'.todo \subseteq load.todo,
             \A d \in DOMAIN load'.placed : \/ d \in DOMAIN load.placed /\ load'.placed[d] = load.placed[d]
                                            \/ load'.placed[d] = TurnLine.from /\ d = TurnDest /\ load.todo # {}
      PROVE  LoadInv'
  <2>1. /\ HandleOver /\ load.man = [bin.man EXCEPT !.files = Parsed(bin.man.files)]
        /\ ~ManifestFails(bin.man) /\ load_check_deps(bin.man, given.host)
        /\ load.todo \subseteq Chosen /\ Chosen # {}
        /\ \A d \in DOMAIN load.placed : \E i \in Chosen : PlacedFrom(i, d)
    BY <1>5 DEF LoadInv, Installing
  <2>2. given' = given /\ bin' = bin /\ load'.man = load.man /\ HandleOver' /\ Chosen' = Chosen
    BY <1>5, <2>1 DEF LoadKeeps, SameLoad, HandleOver, Chosen
  <2>3. \A d \in DOMAIN load'.placed : \E i \in Chosen : PlacedFrom(i, d)'
    <3>1. SUFFICES ASSUME NEW d \in DOMAIN load'.placed PROVE \E i \in Chosen : PlacedFrom(i, d)'
      OBVIOUS
    <3>2. CASE d \in DOMAIN load.placed /\ load'.placed[d] = load.placed[d]
      BY <2>1, <2>2, <3>2 DEF PlacedFrom
    <3>3. CASE load'.placed[d] = TurnLine.from /\ d = TurnDest /\ load.todo # {}
      <4>1. PICK i \in Chosen : i = Turn
        BY <1>5, <3>3, TurnFacts
      <4>2. PlacedFrom(i, d)'
        BY <2>2, <3>3, <4>1 DEF PlacedFrom, TurnLine, TurnDest
      <4> QED BY <4>2
    <3> QED BY <1>5, <3>2, <3>3
  <2>4. (load.man = [bin.man EXCEPT !.files = Parsed(bin.man.files)])'
    BY <2>1, <2>2 DEF Parsed
  <2>5. load'.todo \subseteq Chosen' /\ Chosen' # {}
    BY <1>5, <2>1, <2>2
  <2>6. (~ManifestFails(bin.man) /\ load_check_deps(bin.man, given.host))'
    BY <2>1, <2>2
  <2> QED BY <1>5, <2>2, <2>3, <2>4, <2>5, <2>6 DEF LoadInv
<1>6. CASE InstallOne
  <2>1. LoadKeeps /\ SameLoad /\ load.at = "install" /\ load.todo # {} /\ load'.at # "idle"
        /\ load'.todo \subseteq load.todo
    BY <1>1, <1>6, InstallOneMeans
  <2>2. load'.placed = load.placed \/ load'.placed = With(load.placed, TurnDest, TurnLine.from)
    BY <1>1, <1>6, InstallOneMeans
  <2>3. \A d \in DOMAIN load'.placed : \/ d \in DOMAIN load.placed /\ load'.placed[d] = load.placed[d]
                                       \/ load'.placed[d] = TurnLine.from /\ d = TurnDest /\ load.todo # {}
    BY <2>1, <2>2 DEF With
  <2> QED BY <1>5, <2>1, <2>3
<1>7. CASE EndLoad
  BY <1>1, <1>5, <1>7, EndLoadMeans
<1>8. CASE LoadCallFails
  <2>1. CASE load.at = "install"
    BY <1>1, <1>5, <1>8, <2>1, LoadCallFailsMeans
  <2>2. CASE load.at = "idle" /\ HandleOver
    <3>1. LoadKeeps /\ load'.at = "failed" /\ load'.placed = load.placed
      BY <1>1, <1>8, LoadCallFailsMeans
    <3>2. HandleOver' /\ ~Installing'
      BY <1>2, <2>2, <3>1 DEF LoadKeeps, HandleOver, LoadInv, Installing
    <3> QED BY <3>1, <3>2 DEF LoadInv
  <2> QED BY <1>1, <1>8, <2>1, <2>2, LoadCallFailsMeans
<1>10. CASE InstallUnseen
  <2>1. LoadKeeps /\ SameLoad /\ load.at = "install" /\ load.todo # {} /\ load'.at # "idle"
        /\ load'.todo \subseteq load.todo
        /\ load'.placed = With(load.placed, TurnDest, TurnLine.from)
    BY <1>1, <1>10, InstallUnseenMeans
  <2>2. \A d \in DOMAIN load'.placed : \/ d \in DOMAIN load.placed /\ load'.placed[d] = load.placed[d]
                                       \/ load'.placed[d] = TurnLine.from /\ d = TurnDest /\ load.todo # {}
    BY <2>1 DEF With
  <2> QED BY <1>5, <2>1, <2>2
<1>9. CASE UNCHANGED vars
  <2>1. Chosen' = Chosen /\ Installing' = Installing /\ HandleOver' = HandleOver
        /\ \A i, d : PlacedFrom(i, d)' <=> PlacedFrom(i, d)
    BY <1>9 DEF Chosen, Installing, HandleOver, PlacedFrom, vars
  <2>2. given' = given /\ bin' = bin /\ load' = load /\ installed' = installed
    BY <1>9 DEF vars
  <2> QED BY <2>1, <2>2 DEF LoadInv, Parsed
<1> QED BY <1>3, <1>4, <1>6, <1>7, <1>8, <1>9, <1>10, Steps DEF LoadStep

(* Two files of one stage that are installed to one place have one         *)
(* destination in the Manifest.                                            *)
LEMMA ResolvedOnce ==
    ASSUME given \in Cases, NEW p \in MappedFiles, NEW q \in MappedFiles,
           load_resolve_dest(Line(p).dest, given.to) = load_resolve_dest(Line(q).dest, given.to)
    PROVE  Line(p).dest = Line(q).dest
<1>1. given.sys \in BOOLEAN /\ p \in Path /\ q \in Path
      /\ \A s \in DOMAIN Assign : p[1][1] # Assign[s][1] /\ q[1][1] # Assign[s][1]
  BY CaseFacts DEF MappedFiles
<1> DEFINE a == Line(p).dest
           b == Line(q).dest
<1>2. /\ a \in Path /\ b \in Path
      /\ given.sys => \E s \in DOMAIN Assign : a[1] = Assign[s]
      /\ given.sys => \E s \in DOMAIN Assign : b[1] = Assign[s]
      /\ ~given.sys => a[1][1] = p[1][1]
      /\ ~given.sys => b[1][1] = q[1][1]
  BY <1>1, DestFacts DEF MappedFiles, Line
<1> HIDE DEF a, b
<1>3. CASE given.sys
  <2>1. load_resolve_dest(a, given.to) = a /\ load_resolve_dest(b, given.to) = b
    BY <1>2, <1>3 DEF load_resolve_dest
  <2> QED BY <2>1 DEF a, b
<1>4. CASE ~given.sys
  <2>1. (\A s \in DOMAIN Assign : Assign[s] # a[1]) /\ (\A s \in DOMAIN Assign : Assign[s] # b[1])
    BY <1>1, <1>2, <1>4
  <2>2. load_resolve_dest(a, given.to) = <<given.to>> \o a /\ load_resolve_dest(b, given.to) = <<given.to>> \o b
    BY <2>1 DEF load_resolve_dest
  <2>3. <<given.to>> \o a = <<given.to>> \o b
    BY <2>2 DEF a, b
  <2>4. a \in Seq(Names \cup {given.to}) /\ b \in Seq(Names \cup {given.to})
    BY <1>2, SeqMonotonic DEF Path
  <2>5. /\ Len(<<given.to>> \o a) = Len(a) + 1 /\ \A i \in 1 .. Len(a) : (<<given.to>> \o a)[i + 1] = a[i]
        /\ Len(<<given.to>> \o b) = Len(b) + 1 /\ \A i \in 1 .. Len(b) : (<<given.to>> \o b)[i + 1] = b[i]
    BY <2>4, InFront
  <2>6. Len(a) = Len(b) /\ \A i \in 1 .. Len(a) : a[i] = b[i]
    <3>1. Len(a) \in Nat /\ Len(b) \in Nat
      BY <2>4
    <3> QED BY <2>3, <2>5, <3>1
  <2> QED BY <2>4, <2>6, SeqEqual DEF a, b
<1> QED BY <1>1, <1>3, <1>4

(* What Load reads of a Manifest that is whole and has no blanks in it.    *)
LEMMA LoadReads ==
    ASSUME PackageTypes, HandleInv, LoadInv, Installing,
           bin.man = job.man, PlainNames, ~job.cut
    PROVE  /\ bin.man.files = job.files /\ load.man.files = job.files /\ Covers /\ Merged
           /\ load.man.version = job.man.version
<1>1. ~ManifestFails(bin.man) /\ load.man = [bin.man EXCEPT !.files = Parsed(bin.man.files)]
  BY DEF LoadInv
<1>2. bin.man.files # <<>>
  BY <1>1 DEF ManifestFails
<1>3. bin.man.files = job.files /\ Covers /\ Merged
  <2>1. job.man.files # <<>> /\ NoManifest.files = <<>>
    BY <1>2, EmptyRanged
  <2> QED BY <2>1 DEF HandleInv, LinesInv
<1>4. given.sys \in BOOLEAN /\ DOMAIN given.stage \subseteq Path
  BY CaseFacts DEF PackageTypes, TypeOK
<1>5. \A i \in DOMAIN job.files : load_parse_file_line(job.files[i]) = job.files[i]
  <2>1. SUFFICES ASSUME NEW i \in DOMAIN job.files
                 PROVE  load_parse_file_line(job.files[i]) = job.files[i]
    OBVIOUS
  <2>2. PICK p \in MappedFiles : job.files[i] = Line(p)
    BY LineOf
  <2>3. p \in Path /\ Mapped(given.sys, p) /\ NoBlank(p)
    BY <1>4 DEF MappedFiles, PlainNames, NoBlank
  <2> QED BY <1>4, <2>2, <2>3, LineIsRead DEF Line
<1>6. Parsed(job.files) = job.files
  <2>1. job.files \in Seq(Lines)
    BY DEF PackageTypes, Shape
  <2>2. job.files = [i \in DOMAIN job.files |-> job.files[i]]
    BY <2>1
  <2> QED BY <1>5, <2>2 DEF Parsed
<1>7. load.man.files = job.files /\ load.man.version = job.man.version
  <2>1. DOMAIN bin.man = {"version", "os", "reqs", "files"}
    BY DEF PackageTypes, Shape, NoManifest
  <2> QED BY <1>1, <1>3, <1>6, <2>1
<1> QED BY <1>3, <1>7

LEMMA LoadInvGives ==
    ASSUME PackageTypes, HandleInv, LoadInv
    PROVE  InstallsWhatFits
<1>1. SUFFICES ASSUME NEW d \in DOMAIN load.placed, bin.man = job.man, PlainNames, ~job.cut
               PROVE  LET tags == TagsOf(Last(load.placed[d]))
                      IN /\ Fits(tags, given.host)
                         /\ ~ForPPC(tags) =>
                              \A p \in DOMAIN stage :
                                LET other == TagsOf(Last(p))
                                IN /\ Mapped(given.sys, p) /\ ~ForPPC(other) /\ Fits(other, given.host)
                                   /\ load_resolve_dest(handle_add_file(given.sys, p).dest, given.to) = d
                                   => ~Better(other, tags)
                         /\ ~job.skimmed => \A i \in DOMAIN given.staged.lines :
                              LET line == given.staged.lines[i]
                              IN /\ /\ IsReq(line) /\ line.name # ""
                                    /\ Cardinality(ReqLines(given.staged)) <= MaxReqs
                                    => ReqMet(line, given.host)
                                 /\ IsOS(line) => OsMet(MergedOS(given.staged), given.host)
  BY DEF InstallsWhatFits
<1>2. Installing /\ given \in Cases /\ DOMAIN stage \subseteq DOMAIN given.stage
  BY DEF Installing, PackageTypes, TypeOK, Shape
<1>3. given.host.cpu \in Nat /\ given.sys \in BOOLEAN /\ DOMAIN given.stage \subseteq Path
  BY <1>2, CaseFacts
<1>4. /\ bin.man.files = job.files /\ load.man.files = job.files /\ Covers /\ Merged
  BY <1>1, <1>2, LoadReads
<1>5. /\ load_check_deps(bin.man, given.host)
      /\ \E i \in Chosen : PlacedFrom(i, d)
  BY <1>2 DEF LoadInv
<1>6. PICK i \in Chosen : PlacedFrom(i, d)
  BY <1>5
<1>7. Ranged(job.files)
  BY DEF PackageTypes, Shape, Ranged
<1>8. /\ i \in DOMAIN job.files /\ load_variant_runnable(job.files[i], given.host)
      /\ \A j \in DOMAIN job.files :
           job.files[j].dest = job.files[i].dest /\ load_variant_runnable(job.files[j], given.host)
             => load_variant_score(job.files[j]) <= load_variant_score(job.files[i])
  <2>1. Chosen = load_select_variants(job.files, given.host)
    BY <1>4 DEF Chosen
  <2> QED BY <1>6, <1>7, <2>1, SelectFacts
<1>9. PICK q \in MappedFiles : job.files[i] = Line(q)
  BY <1>8, LineOf
<1> DEFINE tags == TagsOf(Last(q))
<1>10. load.placed[d] = MemberName(given.sys, q) /\ d = load_resolve_dest(Line(q).dest, given.to)
  BY <1>4, <1>6, <1>9 DEF PlacedFrom, Line, handle_add_file
<1>11. Last(load.placed[d]) = Last(q)
  BY <1>3, <1>10, MemberFacts DEF MappedFiles
<1>12. Fits(tags, given.host)
  BY <1>3, <1>8, <1>9, RunsIfFits DEF Line
<1>13. ASSUME ~ForPPC(tags), NEW p \in DOMAIN stage, Mapped(given.sys, p),
              ~ForPPC(TagsOf(Last(p))), Fits(TagsOf(Last(p)), given.host),
              load_resolve_dest(Line(p).dest, given.to) = d,
              Better(TagsOf(Last(p)), tags)
       PROVE  FALSE
  <2>1. p \in MappedFiles
    BY <1>2, <1>13 DEF MappedFiles
  <2>2. PICK j \in DOMAIN job.files : job.files[j] = Line(p)
    BY <1>4, <1>13 DEF Covers, Listed
  <2>3. job.files[j].dest = job.files[i].dest
    BY <1>2, <1>9, <1>10, <1>13, <2>1, <2>2, ResolvedOnce
  <2>4. load_variant_runnable(job.files[j], given.host)
    BY <1>3, <1>13, <2>2, RunsIfFits DEF Line
  <2>5. load_variant_score(Line(p)) <= load_variant_score(Line(q))
    BY <1>8, <1>9, <2>2, <2>3, <2>4
  <2>6. load_variant_score(Line(p)) > load_variant_score(Line(q))
    BY <1>13, BetterScoresMore DEF Line
  <2>7. load_variant_score(Line(p)) \in Int /\ load_variant_score(Line(q)) \in Int
    BY ScoreBound
  <2> QED BY <2>5, <2>6, <2>7
<1>14. ASSUME NEW k \in DOMAIN given.staged.lines, IsReq(given.staged.lines[k]),
              given.staged.lines[k].name # "", Cardinality(ReqLines(given.staged)) <= MaxReqs,
              ~job.skimmed
       PROVE  ReqMet(given.staged.lines[k], given.host)
  <2> DEFINE reqs == ReqLines(given.staged)
             dropped == {j \in reqs : /\ given.staged.open /\ j = Len(given.staged.lines)
                                      /\ given.staged.lines[j].name = "" \/ Cardinality(reqs) > MaxReqs}
  <2>1. k \in reqs
    BY <1>14 DEF ReqLines
  <2>2. bin.man.reqs = [j \in reqs \ dropped |-> given.staged.lines[j]]
    BY <1>1, <1>4, <1>14 DEF Merged, MergedReqs
  <2>3. k \notin dropped
    <3>1. Cardinality(reqs) <= MaxReqs
      BY <1>14
    <3>2. Cardinality(reqs) \in Nat
      <4>1. DOMAIN given.staged.lines = 1 .. Len(given.staged.lines) /\ Len(given.staged.lines) \in Nat
        BY <1>2, CaseFacts DEF Ranged
      <4>2. IsFiniteSet(1 .. Len(given.staged.lines)) /\ reqs \subseteq 1 .. Len(given.staged.lines)
        BY <4>1, FS_Interval DEF ReqLines
      <4> QED BY <4>2, FS_Subset, FS_CardinalityType
    <3>3. ~(Cardinality(reqs) > MaxReqs)
      BY <3>1, <3>2, Limits
    <3> QED BY <1>14, <3>3
  <2> HIDE DEF reqs, dropped
  <2>4. k \in DOMAIN bin.man.reqs /\ bin.man.reqs[k] = given.staged.lines[k]
    BY <2>1, <2>2, <2>3
  <2>5. ReqMet(bin.man.reqs[k], given.host)
    BY <1>5, <2>4 DEF load_check_deps
  <2> QED BY <2>4, <2>5
<1>15. ASSUME ~job.skimmed PROVE OsMet(MergedOS(given.staged), given.host)
  BY <1>1, <1>4, <1>5, <1>15 DEF load_check_deps, Merged
<1> QED BY <1>11, <1>12, <1>13, <1>14, <1>15 DEF Line

(* What Load installs from a Manifest that Handle made, that is not cut    *)
(* and whose names have no blanks, runs on the host; no other staged file  *)
(* would have been better; and all is there that the staged Manifest asks  *)
(* for, provided that Handle could read that to its end, but for a last    *)
(* line that no newline ends and that is one too many.                     *)
THEOREM InstallsBest == Spec => []InstallsWhatFits
<1> DEFINE Inv == PackageTypes /\ HandleInv /\ LoadInv
<1>1. Init => Inv
  BY TypesInit, HandleInit, LoadInit
<1>2. Inv /\ [Next]_vars => Inv'
  BY TypesStep, HandleInvStep, LoadInvStep
<1>3. Inv => InstallsWhatFits
  BY LoadInvGives
<1> QED BY <1>1, <1>2, <1>3, PTL DEF Spec

-----------------------------------------------------------------------------
(* Versions are pairs of numbers.                                          *)

LEMMA DigitValue ==
    ASSUME NEW c, IsDigit(c)
    PROVE  ValueOf(c) \in Nat
<1>1. DOMAIN Digits = 1 .. 10
  BY DEF Digits
<1> DEFINE i == CHOOSE i \in DOMAIN Digits : Digits[i] = c
<1>2. i \in 1 .. 10
  BY <1>1 DEF IsDigit
<1>3. ValueOf(c) = i - 1
  BY DEF ValueOf
<1> HIDE DEF i
<1> QED BY <1>2, <1>3

(* StrToLong of digits.  The function that NumberOf chooses exists: with   *)
(* one for the first b - 1 digits there is one for b.                      *)
LEMMA NumberFacts ==
    ASSUME NEW s, Ranged(s), \A i \in 1 .. Len(s) : IsDigit(s[i])
    PROVE  NumberOf(s) \in Nat
<1> DEFINE n == Len(s)
           d == [i \in 1 .. n |-> ValueOf(s[i])]
           upTo(m, f) == /\ f \in [0 .. m -> Nat] /\ f[0] = 0
                         /\ \A k \in 1 .. m : f[k] = 10 * f[k - 1] + d[k]
           bad == {m \in 0 .. n : ~ \E f : upTo(m, f)}
           value[k \in 0 .. n] == IF k = 0 THEN 0 ELSE 10 * value[k - 1] + ValueOf(s[k])
           step(f) == [k \in 0 .. n |-> IF k = 0 THEN 0 ELSE 10 * f[k - 1] + ValueOf(s[k])]
<1>0. n \in Nat
  BY DEF Ranged
<1>1. d \in [1 .. n -> Nat] /\ \A k \in 1 .. n : d[k] = ValueOf(s[k])
  BY DigitValue
<1> HIDE DEF n, d
<1>2. bad = {}
  <2>1. SUFFICES ASSUME bad # {} PROVE FALSE
    OBVIOUS
  <2>2. bad \in SUBSET Nat
    BY <1>0
  <2>3. PICK b \in bad : \A m \in bad : b <= m
    BY <2>1, <2>2, LeastFacts
  <2>4. b \in 0 .. n /\ ~ \E f : upTo(b, f)
    OBVIOUS
  <2>5. b # 0
    <3>1. upTo(0, [k \in 0 .. 0 |-> 0])
      OBVIOUS
    <3> HIDE DEF upTo
    <3> QED BY <2>4, <3>1
  <2>6. \E f : upTo(b - 1, f)
    <3>1. \A m \in 0 .. n : m \notin bad => \E f : upTo(m, f)
      OBVIOUS
    <3> HIDE DEF bad
    <3>2. b - 1 \in 0 .. n /\ ~(b <= b - 1)
      BY <1>0, <2>4, <2>5
    <3> DEFINE c == b - 1
    <3> HIDE DEF c
    <3>3. c \in 0 .. n /\ ~(b <= c)
      BY <3>2 DEF c
    <3>4. c \notin bad
      BY <2>3, <3>3
    <3>5. \E f : upTo(c, f)
      BY <3>1, <3>3, <3>4
    <3> QED BY <3>5 DEF c
  <2>7. PICK f : upTo(b - 1, f)
    BY <2>6
  <2> DEFINE g == [k \in 0 .. b |-> IF k = b THEN 10 * f[b - 1] + d[b] ELSE f[k]]
  <2>8. b \in 1 .. n /\ f[b - 1] \in Nat /\ d[b] \in Nat
    BY <1>0, <1>1, <2>4, <2>5, <2>7
  <2>9. 10 * f[b - 1] + d[b] \in Nat
    BY <2>8
  <2>10. g \in [0 .. b -> Nat] /\ g[0] = 0
    BY <1>0, <2>7, <2>8, <2>9
  <2>11. \A k \in 1 .. b : g[k] = 10 * g[k - 1] + d[k]
    <3>1. SUFFICES ASSUME NEW k \in 1 .. b PROVE g[k] = 10 * g[k - 1] + d[k]
      OBVIOUS
    <3>2. k \in 0 .. b /\ k - 1 \in 0 .. b /\ k - 1 # b
      BY <1>0, <2>8
    <3>3. g[k - 1] = f[k - 1]
      BY <3>2
    <3>4. CASE k = b
      BY <3>2, <3>3, <3>4
    <3>5. CASE k # b
      <4>1. k \in 1 .. b - 1
        BY <1>0, <2>8, <3>5
      <4> QED BY <2>7, <3>2, <3>3, <3>5, <4>1
    <3> QED BY <3>4, <3>5
  <2>12. upTo(b, g)
    BY <2>10, <2>11
  <2> HIDE DEF upTo
  <2> QED BY <2>4, <2>12
<1>3. PICK f : upTo(n, f)
  <2>1. \A m \in 0 .. n : m \notin bad => \E f : upTo(m, f)
    OBVIOUS
  <2> HIDE DEF bad
  <2>2. n \in 0 .. n
    BY <1>0
  <2>3. \E f : upTo(n, f)
    BY <1>2, <2>1, <2>2
  <2> QED BY <2>3
<1>4. f = step(f)
  BY <1>0, <1>1, <1>3
<1>5. value = step(value)
  BY <1>4 DEF value
<1> HIDE DEF value
<1>6. \A k \in 0 .. n : value[k] \in Nat
  <2> DEFINE worse == {k \in 0 .. n : value[k] \notin Nat}
  <2>1. SUFFICES ASSUME worse # {} PROVE FALSE
    OBVIOUS
  <2>2. worse \in SUBSET Nat
    BY <1>0
  <2>3. PICK b \in worse : \A m \in worse : b <= m
    BY <2>1, <2>2, LeastFacts
  <2>4. b \in 0 .. n /\ value[b] \notin Nat
    OBVIOUS
  <2>5. value[0] = 0
    BY <1>0, <1>5
  <2>6. b \in 1 .. n /\ b - 1 \in 0 .. n /\ ~(b <= b - 1)
    BY <1>0, <2>4, <2>5
  <2>7. value[b - 1] \in Nat
    BY <2>3, <2>6
  <2>8. value[b] = 10 * value[b - 1] + d[b] /\ d[b] \in Nat
    BY <1>1, <1>5, <2>6
  <2> QED BY <2>4, <2>7, <2>8
<1>7. NumberOf(s) = value[n]
  BY DEF NumberOf, value, n
<1> QED BY <1>0, <1>6, <1>7

LEMMA SubRanged ==
    ASSUME NEW s, NEW m \in Int, NEW n \in Int
    PROVE  /\ Ranged(SubSeq(s, m, n))
           /\ Len(SubSeq(s, m, n)) = IF m <= n THEN n - m + 1 ELSE 0
           /\ \A i \in 1 .. n - m + 1 : SubSeq(s, m, n)[i] = s[m + i - 1]
<1> DEFINE S == {s[i] : i \in m .. n}
<1>1. \A i \in m .. n : s[i] \in S
  OBVIOUS
<1> HIDE DEF S
<1>2. /\ SubSeq(s, m, n) \in Seq(S)
      /\ Len(SubSeq(s, m, n)) = IF m <= n THEN n - m + 1 ELSE 0
      /\ \A i \in 1 .. n - m + 1 : SubSeq(s, m, n)[i] = s[m + i - 1]
  BY <1>1, SubSeqProperties
<1> QED BY <1>2 DEF Ranged

(* The end of a run of cells.                                              *)
LEMMA StopFacts ==
    ASSUME NEW m \in Nat, NEW i \in 1 .. m + 1, NEW K, NEW stop,
           stop = {j \in i .. m + 1 : j > m \/ j \in K}
    PROVE  LeastOf(stop) \in i .. m + 1 /\ \A j \in i .. LeastOf(stop) - 1 : j \notin K
<1>1. stop \in SUBSET Nat /\ m + 1 \in stop
  OBVIOUS
<1>2. LeastOf(stop) \in stop /\ \A j \in stop : LeastOf(stop) <= j
  BY <1>1, LeastFacts
<1> DEFINE b == LeastOf(stop)
<1> HIDE DEF b
<1>3. b \in i .. m + 1 /\ \A j \in stop : b <= j
  BY <1>2 DEF b
<1>4. \A j \in i .. b - 1 : j \notin K
  <2>1. SUFFICES ASSUME NEW j \in i .. b - 1, j \in K PROVE FALSE
    OBVIOUS
  <2>2. j \in stop
    BY <1>3, <2>1
  <2>3. b <= j
    BY <1>3, <2>2
  <2> QED BY <1>3, <2>1, <2>3
<1> QED BY <1>3, <1>4 DEF b

LEMMA PastDigits ==
    ASSUME NEW s, Ranged(s), NEW i \in 1 .. Len(s) + 1
    PROVE  Past(s, i, IsDigit) \in i .. Len(s) + 1 /\ \A j \in i .. Past(s, i, IsDigit) - 1 : IsDigit(s[j])
<1> DEFINE K == {j \in i .. Len(s) + 1 : ~IsDigit(s[j])}
           stop == {j \in i .. Len(s) + 1 : j > Len(s) \/ ~IsDigit(s[j])}
<1>1. stop = {j \in i .. Len(s) + 1 : j > Len(s) \/ j \in K} /\ Len(s) \in Nat
  BY DEF Ranged
<1>2. Past(s, i, IsDigit) = LeastOf(stop)
  BY DEF Past
<1>3. \A j \in i .. Len(s) + 1 : j \notin K => IsDigit(s[j])
  OBVIOUS
<1> HIDE DEF K, stop
<1>4. LeastOf(stop) \in i .. Len(s) + 1 /\ \A j \in i .. LeastOf(stop) - 1 : j \notin K
  BY <1>1, StopFacts
<1>5. \A j \in i .. LeastOf(stop) - 1 : j \in i .. Len(s) + 1
  BY <1>1, <1>4
<1> QED BY <1>2, <1>3, <1>4, <1>5

LEMMA PastBlanks ==
    ASSUME NEW s, Ranged(s), NEW i \in 1 .. Len(s) + 1
    PROVE  Past(s, i, IsBlank) \in i .. Len(s) + 1
<1> DEFINE K == {j \in i .. Len(s) + 1 : ~IsBlank(s[j])}
           stop == {j \in i .. Len(s) + 1 : j > Len(s) \/ ~IsBlank(s[j])}
<1>1. stop = {j \in i .. Len(s) + 1 : j > Len(s) \/ j \in K} /\ Len(s) \in Nat
  BY DEF Ranged
<1>2. Past(s, i, IsBlank) = LeastOf(stop)
  BY DEF Past
<1> HIDE DEF K, stop
<1>4. LeastOf(stop) \in i .. Len(s) + 1 /\ \A j \in i .. LeastOf(stop) - 1 : j \notin K
  BY <1>1, StopFacts
<1> QED BY <1>2, <1>4

LEMMA LeadingRanged ==
    ASSUME NEW s, Ranged(s)
    PROVE  Ranged(Leading(s, IsWord)) /\ Ranged(Leading(s, IsText))
<1> DEFINE word == {j \in 1 .. Len(s) + 1 : ~IsWord(s[j])}
           text == {j \in 1 .. Len(s) + 1 : ~IsText(s[j])}
           stopW == {j \in 1 .. Len(s) + 1 : j > Len(s) \/ ~IsWord(s[j])}
           stopT == {j \in 1 .. Len(s) + 1 : j > Len(s) \/ ~IsText(s[j])}
<1>1. /\ Len(s) \in Nat /\ 1 \in 1 .. Len(s) + 1
      /\ stopW = {j \in 1 .. Len(s) + 1 : j > Len(s) \/ j \in word}
      /\ stopT = {j \in 1 .. Len(s) + 1 : j > Len(s) \/ j \in text}
  BY DEF Ranged
<1>2. Past(s, 1, IsWord) = LeastOf(stopW) /\ Past(s, 1, IsText) = LeastOf(stopT)
  BY DEF Past
<1> HIDE DEF word, text, stopW, stopT
<1>3. LeastOf(stopW) \in 1 .. Len(s) + 1 /\ LeastOf(stopT) \in 1 .. Len(s) + 1
  <2>1. LeastOf(stopW) \in 1 .. Len(s) + 1
    <3>1. Len(s) \in Nat /\ 1 \in 1 .. Len(s) + 1
      BY <1>1
    <3>2. stopW = {j \in 1 .. Len(s) + 1 : j > Len(s) \/ j \in word}
      BY <1>1
    <3> QED BY <3>1, <3>2, StopFacts
  <2>2. LeastOf(stopT) \in 1 .. Len(s) + 1
    <3>1. Len(s) \in Nat /\ 1 \in 1 .. Len(s) + 1
      BY <1>1
    <3>2. stopT = {j \in 1 .. Len(s) + 1 : j > Len(s) \/ j \in text}
      BY <1>1
    <3> QED BY <3>1, <3>2, StopFacts
  <2> QED BY <2>1, <2>2
<1> DEFINE w == LeastOf(stopW) - 1
           t == LeastOf(stopT) - 1
<1>4. Leading(s, IsWord) = SubSeq(s, 1, w) /\ Leading(s, IsText) = SubSeq(s, 1, t)
  BY <1>2 DEF Leading
<1>5. w \in Int /\ t \in Int
  BY <1>1, <1>3
<1> HIDE DEF w, t
<1>6. Ranged(SubSeq(s, 1, w)) /\ Ranged(SubSeq(s, 1, t))
  BY <1>5, SubRanged
<1> QED BY <1>4, <1>6

(* A version is two numbers.                                               *)
LEMMA TokenFacts ==
    ASSUME NEW t, Ranged(t), ver_parse_token(t) # <<>>
    PROVE  ver_parse_token(t)[1] \in Nat /\ ver_parse_token(t)[2] \in Nat
<1> DEFINE behind(a) == Past(t, a, IsDigit)
           next(a) == IF a < behind(a) /\ behind(a) <= Len(t) /\ t[behind(a)] \in {"."}
                      THEN Past(t, behind(a) + 1, IsBlank) ELSE Len(t) + 1
           first[k \in 1 .. 2] == IF k = 1 THEN Past(t, 1, IsBlank) ELSE next(first[k - 1])
           a1 == Past(t, 1, IsBlank)
           f == [k \in 1 .. 2 |-> IF k = 1 THEN a1 ELSE next(a1)]
<1>0. Len(t) \in Nat /\ 1 \in 1 .. Len(t) + 1
  BY DEF Ranged
<1>1. ver_parse_token(t) = [k \in 1 .. 2 |-> NumberOf(SubSeq(t, first[k], behind(first[k]) - 1))]
  BY DEF ver_parse_token, Numbers
<1>2. first = [k \in 1 .. 2 |-> IF k = 1 THEN a1 ELSE next(first[k - 1])]
  <2>1. f = [k \in 1 .. 2 |-> IF k = 1 THEN a1 ELSE next(f[k - 1])]
    <3> HIDE DEF a1
    <3>1. f[1] = a1
      OBVIOUS
    <3>2. \A k \in 1 .. 2 : k # 1 => k - 1 = 1
      OBVIOUS
    <3> HIDE DEF next
    <3> QED BY <3>1, <3>2
  <2> HIDE DEF f, a1, next
  <2> QED BY <2>1 DEF first, a1
<1> HIDE DEF first
<1>3. a1 \in 1 .. Len(t) + 1
  BY <1>0, PastBlanks
<1>4. next(a1) \in 1 .. Len(t) + 1
  <2> HIDE DEF a1
  <2>1. behind(a1) \in 1 .. Len(t) + 1
    <3>1. behind(a1) \in a1 .. Len(t) + 1 /\ \A j \in a1 .. behind(a1) - 1 : IsDigit(t[j])
      BY <1>3, PastDigits
    <3> HIDE DEF behind
    <3> QED BY <1>0, <1>3, <3>1
  <2>2. CASE behind(a1) <= Len(t)
    <3>1. behind(a1) + 1 \in 1 .. Len(t) + 1
      BY <1>0, <2>1, <2>2
    <3>2. Past(t, behind(a1) + 1, IsBlank) \in 1 .. Len(t) + 1
      BY <1>0, <3>1, PastBlanks
    <3> QED BY <1>0, <3>2
  <2>3. CASE ~(behind(a1) <= Len(t))
    BY <1>0, <2>3
  <2> QED BY <2>2, <2>3
<1> HIDE DEF a1, next
<1>5. first[1] \in 1 .. Len(t) + 1 /\ first[2] \in 1 .. Len(t) + 1
  BY <1>2, <1>3, <1>4
<1>6. ASSUME NEW a \in 1 .. Len(t) + 1
      PROVE  NumberOf(SubSeq(t, a, behind(a) - 1)) \in Nat
  <2>1. behind(a) \in a .. Len(t) + 1 /\ \A j \in a .. behind(a) - 1 : IsDigit(t[j])
    BY <1>6, PastDigits
  <2> DEFINE b == behind(a) - 1
             s == SubSeq(t, a, b)
  <2>2. a \in Int /\ b \in Int /\ a - 1 <= b
    BY <1>0, <2>1
  <2>3. \A j \in a .. b : IsDigit(t[j])
    BY <2>1
  <2> HIDE DEF b
  <2>4. /\ Ranged(s) /\ Len(s) = IF a <= b THEN b - a + 1 ELSE 0
        /\ \A i \in 1 .. b - a + 1 : s[i] = t[a + i - 1]
    BY <2>2, SubRanged
  <2> HIDE DEF s
  <2>5. \A i \in 1 .. Len(s) : a + i - 1 \in a .. b /\ i \in 1 .. b - a + 1
    BY <2>2, <2>4
  <2>6. \A i \in 1 .. Len(s) : IsDigit(s[i])
    <3>1. SUFFICES ASSUME NEW i \in 1 .. Len(s) PROVE IsDigit(s[i])
      OBVIOUS
    <3>2. a + i - 1 \in a .. b /\ s[i] = t[a + i - 1]
      BY <2>4, <2>5
    <3> QED BY <2>3, <3>2
  <2> QED BY <2>4, <2>6, NumberFacts DEF s, b
<1> QED BY <1>1, <1>5, <1>6

LEMMA FirstVersionFacts ==
    ASSUME NEW s, Ranged(s), FirstVersion(s) # <<>>
    PROVE  FirstVersion(s)[1] \in Nat /\ FirstVersion(s)[2] \in Nat
<1> DEFINE starts == {i \in DOMAIN s : IsWord(s[i]) /\ (i = 1 \/ ~IsWord(s[i - 1]))}
           read == [i \in starts |-> ver_parse_token(Leading(From(s, i), IsWord))]
           good == {i \in DOMAIN read : read[i] # <<>>}
<1>1. FirstVersion(s) = IF good = {} THEN <<>> ELSE read[LeastOf(good)]
  BY DEF FirstVersion
<1>2. starts \in SUBSET Nat /\ \A i \in starts : i \in 1 .. Len(s)
  BY DEF Ranged
<1>3. \A i \in starts : read[i] = ver_parse_token(Leading(From(s, i), IsWord))
  OBVIOUS
<1>4. \A i \in good : i \in starts /\ read[i] # <<>>
  OBVIOUS
<1> HIDE DEF starts, read, good
<1>5. good # {} /\ good \in SUBSET Nat
  BY <1>1, <1>2, <1>4
<1>6. LeastOf(good) \in good
  BY <1>5, LeastFacts
<1> DEFINE i == LeastOf(good)
<1> HIDE DEF i
<1>7. i \in starts /\ read[i] # <<>> /\ FirstVersion(s) = read[i]
  BY <1>1, <1>4, <1>5, <1>6 DEF i
<1>8. Len(s) \in Int /\ i \in Int
  <2>1. i \in 1 .. Len(s)
    BY <1>2, <1>7
  <2>2. Len(s) \in Nat
    BY DEF Ranged
  <2> QED BY <2>1, <2>2
<1>9. Ranged(From(s, i))
  BY <1>8, SubRanged DEF From
<1>10. Ranged(Leading(From(s, i), IsWord))
  BY <1>9, LeadingRanged
<1> QED BY <1>3, <1>7, <1>10, TokenFacts

(* The major and minor number of a tag that was read.                      *)
LEMMA VersionFacts ==
    ASSUME NEW text, Ranged(text), Kind(text) = "ver"
    PROVE  load_ver_scan_file(text).major \in Nat /\ load_ver_scan_file(text).minor \in Nat
<1> DEFINE tags == TagsIn(text)
           i == LeastOf(tags)
           w == WindowEnd(text, i)
           cells == SubSeq(text, i, w)
           line == Leading(cells, IsText)
           s == LineAt(text, i)
           opens == {j \in DOMAIN s : s[j] = "(" /\ (j = 1 \/ s[j - 1] \in Apart)} \cup {Len(s) + 1}
           open == LeastOf(opens)
           v == FirstVersion(SubSeq(s, 1, open - 1))
           dated == open <= Len(s)
           ymd == IF open <= Len(s) THEN ver_parse_date(From(s, open)) ELSE 0
<1>1. text # <<>> /\ tags # {} /\ load_ver_scan_file(text) = ver_parse_line(s)
  BY DEF Kind, load_ver_scan_file, ScanFrom, NoVersion, Hang
<1>2. load_ver_scan_file(text) = Reading(v, dated, ymd)
  BY <1>1 DEF ver_parse_line, ParseBefore
<1>3. i \in Nat /\ Len(text) \in Nat
  <2>1. Len(text) \in Nat /\ Len(Tag) \in Nat
    BY TagAssumption DEF Ranged
  <2>2. tags \in SUBSET Nat
    BY <2>1 DEF TagsIn
  <2> QED BY <1>1, <2>1, <2>2, LeastFacts
<1> HIDE DEF tags, i
<1>4. w \in Int
  <2>1. BufLen \in Nat /\ BufLen > 0 /\ Len(Tag) \in Nat
    BY TagAssumption
  <2> DEFINE q == (i + Len(Tag) + BufLen - 2) \div BufLen
  <2>2. q \in Int
    BY <1>3, <2>1
  <2> HIDE DEF q
  <2>3. q * BufLen \in Int
    BY <2>1, <2>2
  <2>4. w = Len(text) \/ w = q * BufLen
    BY DEF WindowEnd, Least, q
  <2> QED BY <1>3, <2>3, <2>4
<1> HIDE DEF w
<1>5. Ranged(cells)
  <2>1. i \in Int
    BY <1>3
  <2>2. \A m, n \in Int : Ranged(SubSeq(text, m, n))
    BY SubRanged
  <2> QED BY <1>4, <2>1, <2>2
<1>6. Ranged(line)
  BY <1>5, LeadingRanged
<1>7. s = SubSeq(line, Len(Tag) + 1, Least(Len(line), LineMax - 1))
  BY DEF LineAt, w
<1> HIDE DEF line, s
<1>8. Ranged(s)
  <2>1. Len(Tag) + 1 \in Int /\ Least(Len(line), LineMax - 1) \in Int
    BY <1>6, TagAssumption DEF Ranged, Least
  <2> QED BY <1>7, <2>1, SubRanged
<1>9. open \in Int
  <2>1. opens \in SUBSET Nat /\ opens # {}
    BY <1>8 DEF Ranged
  <2> HIDE DEF opens
  <2>2. open \in opens
    BY <2>1, LeastFacts
  <2>3. open \in Nat
    BY <2>1, <2>2
  <2> HIDE DEF open
  <2> QED BY <2>3
<1> HIDE DEF open
<1>10. open - 1 \in Int
  BY <1>9
<1>11. Ranged(SubSeq(s, 1, open - 1))
  BY <1>10, SubRanged
<1> HIDE DEF dated, ymd
<1>12. v # <<>> => v[1] \in Nat /\ v[2] \in Nat
  BY <1>11, FirstVersionFacts
<1> HIDE DEF v
<1>13. Kind(text) = Reading(v, dated, ymd).kind
  BY <1>2 DEF Kind
<1>14. v # <<>> /\ Reading(v, dated, ymd).major = v[1] /\ Reading(v, dated, ymd).minor = v[2]
  BY <1>13 DEF Reading, Bad, NoVersion
<1> QED BY <1>2, <1>12, <1>14

-----------------------------------------------------------------------------
(* A package for SYS is installed as a whole.                              *)

(* The files that Handle has checked all have the package's version.       *)
CheckedAt(i) == Kind(CheckedText(i)) = "ver" /\ Version(CheckedText(i)) = job.man.version
CheckInv ==
    edits = 0 /\ given.sys /\ job.at \in {"check"} \cup AfterCheck
      => \A i \in 1 .. job.checked : CheckedAt(i)

LEMMA CheckInit == Init => CheckInv
BY DEF Init, CheckInv, AfterCheck

LEMMA SameChecked ==
    ASSUME Shape, job'.files = job.files, job'.man.version = job.man.version,
           job'.checked = job.checked, given' = given, stage' = stage,
           edits' = 0 => edits = 0,
           job'.at \in {"check"} \cup AfterCheck => job.at \in {"check"} \cup AfterCheck,
           CheckInv
    PROVE  CheckInv'
<1>1. \A i : CheckedAt(i) => CheckedAt(i)'
  BY DEF CheckedAt, CheckedText, Checked
<1> QED BY <1>1 DEF CheckInv

LEMMA CheckInvStep ==
    ASSUME PackageTypes, CheckInv, [Next]_vars
    PROVE  CheckInv'
<1>1. Shape /\ edits \in Nat /\ job.checked \in Nat /\ Ranged(job.files)
  BY Limits DEF PackageTypes, TypeOK, Shape, Ranged
<1>2. ASSUME job'.at \notin {"check"} \cup AfterCheck
      PROVE  CheckInv'
  BY <1>2 DEF CheckInv
<1>3. CASE StartScan
  BY <1>1, <1>2, <1>3, StartScanMeans DEF AfterCheck
<1>4. ASSUME NEW p \in DOMAIN stage, ScanOne(p) PROVE CheckInv'
  BY <1>1, <1>2, <1>4, ScanOneMeans DEF Ends, AfterCheck
<1>5. CASE EndScan
  <2>1. job'.checked = 0
    BY <1>1, <1>5, EndScanMeans DEF PackageTypes, Counts, Ends, SameJob
  <2> QED BY <2>1 DEF CheckInv
<1>6. CASE CheckOne
  <2>1. /\ job.at = "check" /\ given' = given /\ stage' = stage /\ edits' = edits
        /\ \/ job'.at \in {"failed", "hang"}
           \/ /\ job'.checked = job.checked + 1 /\ SameLines
              /\ Kind(CheckedText(job.checked + 1)) = "ver"
              /\ Version(CheckedText(job.checked + 1)) = job.man.version
    BY <1>1, <1>6, CheckOneMeans DEF HandleKeeps, Ends
  <2>2. CASE job'.at \in {"failed", "hang"}
    BY <1>2, <2>2 DEF AfterCheck
  <2>3. CASE /\ job'.checked = job.checked + 1 /\ SameLines
             /\ Kind(CheckedText(job.checked + 1)) = "ver"
             /\ Version(CheckedText(job.checked + 1)) = job.man.version
    <3>1. \A i : CheckedAt(i) => CheckedAt(i)'
      BY <2>1, <2>3 DEF CheckedAt, CheckedText, Checked, SameLines
    <3>2. PICK k \in Nat : k = job.checked
      BY <1>1
    <3>3. CheckedAt(k + 1)
      BY <2>3, <3>2 DEF CheckedAt
    <3>4. edits' = 0 /\ given'.sys => \A i \in 1 .. k : CheckedAt(i)
      BY <2>1, <3>2 DEF CheckInv
    <3>5. \A i \in 1 .. k + 1 : i \in 1 .. k \/ i = k + 1
      BY <3>2
    <3>6. job'.checked = k + 1
      BY <2>3, <3>2
    <3> QED BY <3>1, <3>3, <3>4, <3>5, <3>6 DEF CheckInv
  <2> QED BY <2>1, <2>2, <2>3
<1>7. CASE BuildManifest
  <2>1. /\ job.at = "build" /\ given' = given /\ stage' = stage /\ edits' = edits
        /\ \/ job'.at = "failed"
           \/ /\ job'.files = job.files /\ job'.man.version = job.man.version
              /\ job'.checked = job.checked
    BY <1>1, <1>7, BuildManifestMeans DEF HandleKeeps, Ends
  <2> QED BY <1>1, <1>2, <2>1, SameChecked DEF AfterCheck
<1>8. ASSUME job.at \in AfterCheck, SameJob, given' = given, stage' = stage, edits' = edits
      PROVE  CheckInv'
  BY <1>1, <1>8, SameChecked DEF SameJob, SameLines
<1>9. CASE CreateBin \/ AddManifest
  BY <1>1, <1>8, <1>9, CreateBinMeans, AddManifestMeans DEF HandleKeeps, AfterCheck
<1>10. ASSUME NEW p \in DOMAIN stage, PackOne(p) PROVE CheckInv'
  BY <1>1, <1>8, <1>10, PackOneMeans DEF HandleKeeps, AfterCheck
<1>11. CASE EndPack
  BY <1>1, <1>8, <1>11, EndPackMeans DEF HandleKeeps, AfterCheck, Ends
<1>12. CASE HandleCallFails \/ HandleReset
  BY <1>1, <1>2, <1>12, HandleCallFailsMeans, HandleResetMeans DEF Ends, AfterCheck
<1>13. ASSUME NEW p \in DOMAIN stage, Edit(p) PROVE CheckInv'
  <2>1. edits' # 0
    BY <1>1, <1>13, EditMeans
  <2> QED BY <2>1 DEF CheckInv
<1>14. CASE LoadStep \/ UNCHANGED vars
  <2>1. UNCHANGED <<given, stage, job, edits>>
    BY <1>1, <1>14, LoadStepKeeps, Limits DEF LoadKeeps, vars, PackageTypes, TypeOK
  <2> QED BY <1>1, <2>1, SameChecked
<1> QED BY <1>3, <1>4, <1>5, <1>6, <1>7, <1>9, <1>10, <1>11, <1>12, <1>13, <1>14, Steps DEF HandleStep

(* A text whose tag gives Load no trouble; a place that holds the          *)
(* package's version or a newer one.                                       *)
Readable(text) ==
    /\ Kind(text) \in {"ver", "none"}
    /\ Kind(text) = "ver" => /\ load_ver_scan_file(text).major \in Nat
                             /\ load_ver_scan_file(text).minor \in Nat
Holds(d) ==
    /\ d \in DOMAIN installed /\ Kind(installed[d]) = "ver"
    /\ AtLeast(Version(installed[d]), job.man.version)
PlaceOf(i) == load_resolve_dest(load.man.files[i].dest, given.to)

(* What the chosen lines were to install is there, but for those whose     *)
(* turn is still to come.                                                  *)
InstallInv ==
    given.sys /\ Undisturbed =>
        /\ load.at # "hang" /\ (load.at = "failed" => load.placed = Nothing)
        /\ load.at = "done" => load.todo = {}
        /\ \A d \in DOMAIN installed : Readable(installed[d])
        /\ Installing => \A i \in Chosen \ load.todo : Holds(PlaceOf(i))

LEMMA InstallInit == Init => InstallInv
BY DEF Init, InstallInv, Undisturbed

(* The member whose turn it is has the version that the Manifest says.     *)
LEMMA TurnIsChecked ==
    ASSUME PackageTypes, HandleInv, LoadInv, CheckInv, given.sys, Undisturbed,
           load.at = "install", load.todo # {}
    PROVE  /\ Kind(TurnText) = "ver" /\ Version(TurnText) = job.man.version
           /\ load.man.version = job.man.version /\ Readable(TurnText)
<1>1. /\ given \in Cases /\ DOMAIN stage \subseteq DOMAIN given.stage /\ Installing
      /\ edits = 0 /\ PlainNames /\ ~job.cut /\ job.at = "done" /\ bin.man = job.man
  BY DEF PackageTypes, TypeOK, Shape, Undisturbed, Installing, HandleInv, BinInv
<1>2. /\ DOMAIN given.stage \subseteq Path /\ given.sys \in BOOLEAN
      /\ \A p \in DOMAIN given.stage : given.stage[p] \in Seq(STRING)
  BY <1>1, CaseFacts
<1>3. load.man.files = job.files /\ load.man.version = job.man.version
  BY <1>1, LoadReads
<1>4. PICK i \in load.todo : i = Turn
  BY TurnFacts
<1>5. i \in DOMAIN job.files
  BY <1>3 DEF PackageTypes, TypeOK
<1>6. PICK p \in MappedFiles : job.files[i] = Line(p)
  BY <1>5, LineOf
<1>7. p \in DOMAIN given.stage /\ Mapped(given.sys, p) /\ p \in Path /\ stage = given.stage
  BY <1>1, <1>2 DEF MappedFiles, HandleInv, HeldInv
<1>8. Packed(p)
  BY <1>1, <1>7 DEF Mapped, Packed, PlainNames
<1>9. Holding(p) /\ bin.held[MemberName(given.sys, p)] = stage[p]
  BY <1>1, <1>7, <1>8 DEF HandleInv, HeldInv
<1>10. job.files[i].from = MemberName(given.sys, p)
  BY <1>6 DEF Line, handle_add_file
<1>11. TurnText = stage[p]
  BY <1>3, <1>4, <1>9, <1>10 DEF TurnText, TurnLine, MemberText, Holding
<1>12. CheckedText(i) = stage[p]
  BY <1>2, <1>7, <1>10, MemberFacts DEF CheckedText, Checked
<1>13. CheckedAt(i)
  <2>1. job.checked = Len(job.files) /\ Ranged(job.files)
    BY <1>1 DEF PackageTypes, Counts, AfterCheck, Shape, Ranged
  <2>2. i \in 1 .. job.checked
    BY <1>5, <2>1 DEF Ranged
  <2> QED BY <1>1, <2>2 DEF CheckInv, AfterCheck
<1>14. Kind(stage[p]) = "ver" /\ Version(stage[p]) = job.man.version
  BY <1>12, <1>13 DEF CheckedAt
<1>15. Readable(stage[p])
  BY <1>2, <1>7, <1>14, VersionFacts DEF Readable, Ranged
<1> QED BY <1>3, <1>11, <1>14, <1>15

(* What is not older by load_ver_compare has at least the version.         *)
LEMMA NotOlder ==
    ASSUME NEW cand, NEW inst, inst.kind = "ver", load_ver_compare(cand, inst) < 1,
           cand.major \in Nat, cand.minor \in Nat, inst.major \in Nat, inst.minor \in Nat
    PROVE  AtLeast(<<inst.major, inst.minor>>, <<cand.major, cand.minor>>)
<1>1. CASE cand.major # inst.major
  BY <1>1 DEF load_ver_compare, Sign, AtLeast
<1>2. CASE cand.major = inst.major /\ cand.minor # inst.minor
  BY <1>2 DEF load_ver_compare, Sign, AtLeast
<1>3. CASE cand.major = inst.major /\ cand.minor = inst.minor
  BY <1>3 DEF AtLeast
<1> QED BY <1>1, <1>2, <1>3

LEMMA Reflexive ==
    ASSUME NEW text, Kind(text) = "ver", Readable(text)
    PROVE  AtLeast(Version(text), Version(text))
BY DEF AtLeast, Version, Readable

LEMMA NothingThere == load_ver_scan_file(<<>>).kind = "none"
BY DEF load_ver_scan_file, NoVersion

(* One line is installed or skipped.                                       *)
LEMMA InstallOneStep ==
    ASSUME PackageTypes, HandleInv, LoadInv, CheckInv, InstallInv, InstallOne
    PROVE  InstallInv'
<1>1. /\ Shape /\ load.at = "install" /\ load.todo # {} /\ LoadKeeps /\ mishaps' = mishaps /\ SameLoad
  BY InstallOneMeans DEF PackageTypes
<1>2. SUFFICES ASSUME given.sys, Undisturbed
               PROVE  InstallInv'
  BY <1>1 DEF InstallInv, LoadKeeps, Undisturbed, PlainNames
<1>3. /\ Kind(TurnText) = "ver" /\ Version(TurnText) = job.man.version
      /\ load.man.version = job.man.version /\ Readable(TurnText)
  BY <1>1, <1>2, TurnIsChecked
<1>4. /\ \A d \in DOMAIN installed : Readable(installed[d])
      /\ \A i \in Chosen \ load.todo : Holds(PlaceOf(i))
  BY <1>1, <1>2 DEF InstallInv, Installing
<1>5. TurnOld.kind \in {"ver", "none"}
  BY <1>4, NothingThere DEF TurnOld, Readable, Kind
<1>6. PICK t \in load.todo : t = Turn
  BY <1>1, TurnFacts
<1> PICK d : d = TurnDest
  OBVIOUS
<1>7. Chosen' = Chosen /\ (\A i : PlaceOf(i)' = PlaceOf(i)) /\ d = PlaceOf(t)
  BY <1>1, <1>6 DEF LoadKeeps, SameLoad, Chosen, PlaceOf, TurnDest, TurnLine
<1>8. ASSUME load'.at = "install", load'.todo = load.todo \ {Turn},
             \A q : Holds(q) => Holds(q)', Holds(d)',
             \A q \in DOMAIN installed' : Readable(installed'[q])
      PROVE  InstallInv'
  <2>1. \A i \in Chosen' \ load'.todo : i = t \/ i \in Chosen \ load.todo
    BY <1>6, <1>7, <1>8
  <2>2. \A i \in Chosen' \ load'.todo : Holds(PlaceOf(i))'
    <3>1. SUFFICES ASSUME NEW i \in Chosen' \ load'.todo PROVE Holds(PlaceOf(i))'
      OBVIOUS
    <3>2. PICK q : q = PlaceOf(i)
      OBVIOUS
    <3>3. PlaceOf(i)' = q
      BY <1>7, <3>2
    <3>4. Holds(q)'
      <4>1. CASE i = t
        BY <1>7, <1>8, <3>2, <4>1
      <4>2. CASE i \in Chosen \ load.todo
        <5>1. Holds(q)
          BY <1>4, <3>2, <4>2
        <5> QED BY <1>8, <5>1
      <4> QED BY <2>1, <4>1, <4>2
    <3> QED BY <3>3, <3>4 DEF Holds
  <2> QED BY <1>8, <2>2 DEF InstallInv
<1>9. CASE /\ load'.at \in {"hang", "failed"}
           /\ \/ ~(Kind(TurnText) = "ver" /\ Version(TurnText) = load.man.version)
              \/ TurnOld.kind \in {"hang", "bad"}
  BY <1>3, <1>5, <1>9
<1>10. CASE /\ load'.at = "install" /\ load'.todo = load.todo \ {Turn}
            /\ load'.placed = load.placed /\ installed' = installed
            /\ Kind(TurnText) = "ver" /\ Version(TurnText) = load.man.version
            /\ TurnOld.kind = "ver" /\ load_ver_compare(load_ver_scan_file(TurnText), TurnOld) < 1
  <2>1. \A q : Holds(q) => Holds(q)'
    BY <1>1, <1>10 DEF Holds, LoadKeeps
  <2>2. d \in DOMAIN installed /\ TurnOld = load_ver_scan_file(installed[d])
    BY <1>10, NothingThere DEF TurnOld
  <2>3. Readable(installed[d]) /\ Kind(installed[d]) = "ver"
    BY <1>4, <1>10, <2>2 DEF Kind
  <2>4. AtLeast(Version(installed[d]), Version(TurnText))
    BY <1>3, <1>10, <2>2, <2>3, NotOlder DEF Readable, Version, Kind
  <2>5. Holds(d)
    BY <1>3, <2>2, <2>3, <2>4 DEF Holds
  <2> QED BY <1>4, <1>8, <1>10, <2>1, <2>5
<1>11. CASE /\ load'.at = "install" /\ load'.todo = load.todo \ {Turn}
            /\ load'.placed = With(load.placed, TurnDest, TurnLine.from)
            /\ installed' = With(installed, TurnDest, TurnText)
            /\ Kind(TurnText) = "ver" /\ Version(TurnText) = load.man.version
  <2>1. PICK text : text = TurnText
    OBVIOUS
  <2>2. /\ DOMAIN installed' = DOMAIN installed \cup {d} /\ installed'[d] = text
        /\ \A q \in DOMAIN installed : q = d \/ installed'[q] = installed[q]
    BY <1>11, <2>1 DEF With
  <2>3. Kind(text) = "ver" /\ Readable(text) /\ Version(text) = job'.man.version /\ job' = job
    BY <1>1, <1>3, <2>1 DEF LoadKeeps
  <2>4. AtLeast(Version(text), Version(text))
    BY <2>3, Reflexive
  <2>5. Holds(d)'
    BY <2>2, <2>3, <2>4 DEF Holds
  <2>6. \A q : Holds(q) => Holds(q)'
    BY <2>2, <2>3, <2>5 DEF Holds
  <2>7. \A q \in DOMAIN installed' : Readable(installed'[q])
    BY <1>4, <2>2, <2>3
  <2> QED BY <1>8, <1>11, <2>5, <2>6, <2>7
<1> QED BY <1>1, <1>9, <1>10, <1>11, InstallOneMeans

LEMMA InstallInvStep ==
    ASSUME PackageTypes, HandleInv, LoadInv, CheckInv, InstallInv, [Next]_vars
    PROVE  InstallInv'
<1>1. Shape /\ mishaps \in Nat /\ DOMAIN Nothing = {} /\ given \in Cases
  BY Limits DEF PackageTypes, TypeOK, Nothing
<1>2. CASE HandleStep
  <2>1. SUFFICES ASSUME Undisturbed'
                 PROVE  InstallInv'
    BY DEF InstallInv
  <2>2. ~HandleOver /\ given' = given /\ load' = load /\ installed' = installed
    BY <1>1, <1>2, HandleStepKeeps
  <2>3. load.at = "idle" /\ load.placed = Nothing /\ installed = given.installed
    BY <2>2 DEF LoadInv
  <2>4. ~Installing'
    BY <1>1, <2>2, <2>3 DEF Installing
  <2>5. \A d \in DOMAIN given.installed :
          load_ver_scan_file(given.installed[d]).kind \in {"ver", "none"}
    BY <2>1, <2>2 DEF Undisturbed
  <2>6. \A d \in DOMAIN given.installed : given.installed[d] \in Seq(STRING)
    BY <1>1, CaseFacts
  <2>7. \A d \in DOMAIN given.installed : Readable(given.installed[d])
    BY <2>5, <2>6, VersionFacts DEF Readable, Kind, Ranged
  <2> QED BY <2>2, <2>3, <2>4, <2>7 DEF InstallInv
<1>3. CASE StartLoad
  <2>1. /\ load.at = "idle" /\ LoadKeeps /\ load'.placed = load.placed /\ load.placed = Nothing
        /\ installed' = installed /\ mishaps' = mishaps
    BY <1>1, <1>3, StartLoadMeans DEF LoadInv
  <2>2. SUFFICES ASSUME given.sys, Undisturbed
                 PROVE  InstallInv'
    BY <2>1 DEF InstallInv, LoadKeeps, Undisturbed, PlainNames
  <2>3. \A d \in DOMAIN installed' : Readable(installed'[d])
    BY <2>1, <2>2 DEF InstallInv
  <2>4. CASE load'.at = "failed"
    <3>1. ~Installing'
      BY <1>1, <2>1, <2>4 DEF Installing
    <3> QED BY <2>1, <2>3, <2>4, <3>1 DEF InstallInv
  <2>5. CASE /\ load'.at = "install" /\ load'.man = [bin.man EXCEPT !.files = Parsed(bin.man.files)]
             /\ load'.todo = load_select_variants(Parsed(bin.man.files), given.host)
    <3>1. load'.man.files = Parsed(bin.man.files)
      BY <1>1, <2>5 DEF Shape, NoManifest
    <3>2. Chosen' = load'.todo
      BY <2>1, <2>5, <3>1 DEF Chosen, LoadKeeps
    <3> QED BY <2>3, <2>5, <3>2 DEF InstallInv
  <2> QED BY <1>1, <1>3, <2>4, <2>5, StartLoadMeans
<1>4. CASE InstallOne
  BY <1>4, InstallOneStep
<1>5. CASE EndLoad
  <2>1. /\ load.at = "install" /\ load.todo = {} /\ load'.at = "done" /\ SameLoad
        /\ load'.todo = load.todo /\ LoadKeeps /\ installed' = installed /\ mishaps' = mishaps
    BY <1>1, <1>5, EndLoadMeans
  <2>2. SUFFICES ASSUME given.sys, Undisturbed
                 PROVE  InstallInv'
    BY <2>1 DEF InstallInv, LoadKeeps, Undisturbed, PlainNames
  <2>3. /\ \A d \in DOMAIN installed : Readable(installed[d])
        /\ \A i \in Chosen \ load.todo : Holds(PlaceOf(i))
    BY <2>1, <2>2 DEF InstallInv, Installing
  <2>4. Chosen' = Chosen /\ \A i : Holds(PlaceOf(i)) => Holds(PlaceOf(i))'
    BY <2>1 DEF LoadKeeps, SameLoad, Chosen, PlaceOf, Holds
  <2> QED BY <2>1, <2>3, <2>4 DEF InstallInv
<1>6. CASE LoadCallFails \/ InstallUnseen
  <2>1. mishaps' # 0
    BY <1>1, <1>6, LoadCallFailsMeans, InstallUnseenMeans DEF Mishap
  <2> QED BY <2>1 DEF InstallInv, Undisturbed
<1>7. CASE UNCHANGED vars
  <2>1. given' = given /\ bin' = bin /\ load' = load /\ installed' = installed /\ job' = job
        /\ edits' = edits /\ mishaps' = mishaps
    BY <1>7 DEF vars
  <2>2. (Undisturbed' <=> Undisturbed) /\ Chosen' = Chosen /\ (Installing' <=> Installing)
        /\ \A i : Holds(PlaceOf(i)) => Holds(PlaceOf(i))'
    BY <2>1 DEF Undisturbed, PlainNames, Chosen, Installing, PlaceOf, Holds
  <2> QED BY <2>1, <2>2 DEF InstallInv
<1> QED BY <1>2, <1>3, <1>4, <1>5, <1>6, <1>7, Steps DEF LoadStep

LEMMA InstallInvGives ==
    ASSUME PackageTypes, HandleInv, LoadInv, InstallInv
    PROVE  LoadsAsAWhole
<1>1. SUFFICES ASSUME given.sys, Undisturbed, load.at = "done",
                      NEW p \in DOMAIN stage, Mapped(TRUE, p)
               PROVE  LET d == handle_add_file(TRUE, p).dest
                          v == load_ver_scan_file(installed[d])
                      IN d \in DOMAIN installed /\ AtLeast(<<v.major, v.minor>>, job.man.version)
  BY DEF LoadsAsAWhole, InstallInv
<1>2. /\ given \in Cases /\ DOMAIN stage \subseteq DOMAIN given.stage /\ Installing
      /\ edits = 0 /\ PlainNames /\ ~job.cut /\ job.at = "done" /\ bin.man = job.man
  BY <1>1 DEF PackageTypes, TypeOK, Shape, Undisturbed, Installing, HandleInv, BinInv
<1>3. given.sys = TRUE /\ DOMAIN given.stage \subseteq Path
  BY <1>1, <1>2, CaseFacts
<1>4. load.man.files = job.files /\ Covers
  BY <1>2, LoadReads
<1>5. PICK j \in DOMAIN job.files : job.files[j] = handle_add_file(TRUE, p)
  BY <1>1, <1>3, <1>4 DEF Covers, Listed, Line
<1>6. Chosen # {} /\ Chosen = load_select_variants(job.files, given.host)
  BY <1>2, <1>4 DEF LoadInv, Chosen
<1>7. PICK i \in Chosen : job.files[i].dest = job.files[j].dest
  <2>1. Ranged(job.files)
    BY DEF PackageTypes, Shape, Ranged
  <2> QED BY <1>5, <1>6, <2>1, SelectFacts
<1>8. Holds(PlaceOf(i))
  BY <1>1, <1>2 DEF InstallInv
<1> DEFINE d == handle_add_file(TRUE, p).dest
<1>9. p \in Path /\ TRUE \in BOOLEAN
  BY <1>1, <1>2, <1>3
<1>10. p[1] \in DOMAIN Assign /\ d[1] = Assign[p[1]]
  BY <1>1, <1>9, DestFacts
<1>11. PlaceOf(i) = d
  BY <1>4, <1>5, <1>7, <1>10 DEF PlaceOf, load_resolve_dest
<1> QED BY <1>8, <1>11 DEF Holds, Version

(* A package for SYS that nothing disturbed is installed as a whole or not *)
(* at all: what Load may refuse it refuses before the first file is        *)
(* written, for Handle has read every tag that Load will read.             *)
THEOREM LoadsWhole == Spec => []LoadsAsAWhole
<1> DEFINE Inv == PackageTypes /\ HandleInv /\ LoadInv /\ CheckInv /\ InstallInv
<1>1. Init => Inv
  BY TypesInit, HandleInit, LoadInit, CheckInit, InstallInit
<1>2. Inv /\ [Next]_vars => Inv'
  BY TypesStep, HandleInvStep, LoadInvStep, CheckInvStep, InstallInvStep
<1>3. Inv => LoadsAsAWhole
  BY InstallInvGives
<1> QED BY <1>1, <1>2, <1>3, PTL DEF Spec
-----------------------------------------------------------------------------
(* No downgrade: the text that replaces another shows a newer version.     *)

(* A tag that lies in one buffer is read in full.                          *)
LEMMA LeastIs ==
    ASSUME NEW S \in SUBSET Nat, NEW x \in S, \A y \in S : x <= y
    PROVE  LeastOf(S) = x
<1>1. LeastOf(S) \in S /\ LeastOf(S) <= x
  BY LeastFacts
<1> DEFINE l == LeastOf(S)
<1> HIDE DEF l
<1>2. l \in Nat /\ x \in Nat /\ l <= x /\ x <= l
  BY <1>1 DEF l
<1>3. l = x
  BY <1>2
<1> QED BY <1>3 DEF l

(* Where a run of cells ends.                                              *)
LEMMA TextEnds ==
    ASSUME NEW s, Ranged(s)
    PROVE  LET n == Past(s, 1, IsText) - 1
           IN /\ n \in 0 .. Len(s)
              /\ \A j \in 1 .. n : IsText(s[j])
              /\ n < Len(s) => ~IsText(s[n + 1])
              /\ Leading(s, IsText) = SubSeq(s, 1, n)
<1> DEFINE stop == {j \in 1 .. Len(s) + 1 : j > Len(s) \/ ~IsText(s[j])}
           e == LeastOf(stop)
<1>1. Len(s) \in Nat /\ Past(s, 1, IsText) = e
  BY DEF Ranged, Past
<1>2. stop \in SUBSET Nat /\ Len(s) + 1 \in stop
  BY <1>1
<1>3. \A j \in 1 .. Len(s) : j \notin stop => IsText(s[j])
  BY <1>1
<1>4. \A j \in stop : j \in 1 .. Len(s) + 1 /\ (j <= Len(s) => ~IsText(s[j]))
  BY <1>1
<1> HIDE DEF stop
<1>5. e \in stop /\ \A j \in stop : e <= j
  BY <1>2, LeastFacts
<1> HIDE DEF e
<1>6. e \in 1 .. Len(s) + 1 /\ (e <= Len(s) => ~IsText(s[e]))
  BY <1>4, <1>5
<1>7. \A j \in 1 .. e - 1 : IsText(s[j])
  <2>1. SUFFICES ASSUME NEW j \in 1 .. e - 1 PROVE IsText(s[j])
    OBVIOUS
  <2>2. j \in 1 .. Len(s) /\ ~(e <= j)
    BY <1>1, <1>6
  <2> QED BY <1>3, <1>5, <2>2
<1>8. (e - 1) + 1 = e /\ e - 1 \in 0 .. Len(s) /\ (e - 1 < Len(s) => e <= Len(s))
  BY <1>1, <1>6
<1> QED BY <1>1, <1>6, <1>7, <1>8 DEF Leading

(* The line that begins at i is the same when it is read from a window     *)
(* that ends behind it.                                                    *)
LEMMA SameLine ==
    ASSUME NEW text, Ranged(text), NEW i \in 1 .. Len(text), NEW w \in Int, w <= Len(text),
           NEW full, full = Leading(From(text, i), IsText), i + Len(full) - 1 <= w
    PROVE  Leading(SubSeq(text, i, w), IsText) = full /\ Len(full) \in Nat
<1> DEFINE a == From(text, i)
           b == SubSeq(text, i, w)
           n == Past(a, 1, IsText) - 1
           m == Past(b, 1, IsText) - 1
           all == Len(text)
<1>1. all \in Nat /\ i \in Int
  BY DEF Ranged
<1>2. Ranged(a) /\ Len(a) = all - i + 1 /\ \A j \in 1 .. all - i + 1 : a[j] = text[i + j - 1]
  BY <1>1, SubRanged DEF From
<1>3. n \in 0 .. Len(a) /\ (\A j \in 1 .. n : IsText(a[j])) /\ (n < Len(a) => ~IsText(a[n + 1]))
      /\ full = SubSeq(a, 1, n)
  BY <1>2, TextEnds
<1> HIDE DEF n, a
<1>4. n \in Int /\ Len(full) = n /\ \A j \in 1 .. n : full[j] = a[j]
  <2>1. n \in Int /\ n - 1 + 1 = n
    BY <1>1, <1>2, <1>3
  <2>2. /\ Len(SubSeq(a, 1, n)) = IF 1 <= n THEN n - 1 + 1 ELSE 0
        /\ \A j \in 1 .. n - 1 + 1 : SubSeq(a, 1, n)[j] = a[1 + j - 1]
    BY <2>1, SubRanged
  <2>3. \A j \in 1 .. n : 1 + j - 1 = j
    BY <2>1
  <2> QED BY <1>1, <1>2, <1>3, <2>1, <2>2, <2>3
<1>5. n <= w - i + 1
  BY <1>1, <1>4
<1>6. Ranged(b) /\ Len(b) = w - i + 1 /\ \A j \in 1 .. w - i + 1 : b[j] = text[i + j - 1]
  <2>1. /\ Ranged(b) /\ Len(b) = IF i <= w THEN w - i + 1 ELSE 0
        /\ \A j \in 1 .. w - i + 1 : b[j] = text[i + j - 1]
    BY <1>1, SubRanged
  <2>2. 0 <= w - i + 1
    BY <1>1, <1>2, <1>3, <1>5
  <2> QED BY <1>1, <2>1, <2>2
<1>7. \A j \in 1 .. w - i + 1 : a[j] = b[j]
  BY <1>1, <1>2, <1>6
<1>8. m \in 0 .. Len(b) /\ (\A j \in 1 .. m : IsText(b[j])) /\ (m < Len(b) => ~IsText(b[m + 1]))
      /\ Leading(b, IsText) = SubSeq(b, 1, m)
  BY <1>6, TextEnds
<1> HIDE DEF m, b
<1>9. m = n
  <2>1. m \in Int /\ m <= w - i + 1 /\ 0 <= m /\ 0 <= n
    BY <1>1, <1>2, <1>3, <1>6, <1>8
  <2>2. CASE m < n
    <3>1. m + 1 \in 1 .. n /\ m + 1 \in 1 .. w - i + 1 /\ m < Len(b)
      BY <1>1, <1>4, <1>5, <1>6, <2>1, <2>2
    <3>2. IsText(a[m + 1]) /\ ~IsText(b[m + 1]) /\ a[m + 1] = b[m + 1]
      BY <1>3, <1>7, <1>8, <3>1
    <3> QED BY <3>2
  <2>3. CASE n < m
    <3>1. n + 1 \in 1 .. m /\ n + 1 \in 1 .. w - i + 1 /\ n < Len(a)
      BY <1>1, <1>2, <1>4, <2>1, <2>3
    <3>2. IsText(b[n + 1]) /\ ~IsText(a[n + 1]) /\ a[n + 1] = b[n + 1]
      BY <1>3, <1>7, <1>8, <3>1
    <3> QED BY <3>2
  <2> QED BY <1>4, <2>1, <2>2, <2>3
<1>10. SubSeq(b, 1, n) = full
  <2> DEFINE S == {a[j] : j \in 1 .. n}
  <2>1. \A j \in 1 .. n : a[j] \in S
    OBVIOUS
  <2> HIDE DEF S
  <2>2. \A j \in 1 .. n : b[j] = a[j]
    BY <1>1, <1>4, <1>5, <1>7
  <2>3. \A j \in 1 .. n : b[j] \in S
    BY <2>1, <2>2
  <2>4. n \in Int /\ n - 1 + 1 = n /\ \A j \in 1 .. n : 1 + j - 1 = j
    BY <1>4
  <2>5. /\ SubSeq(b, 1, n) \in Seq(S) /\ Len(SubSeq(b, 1, n)) = IF 1 <= n THEN n - 1 + 1 ELSE 0
        /\ \A j \in 1 .. n - 1 + 1 : SubSeq(b, 1, n)[j] = b[1 + j - 1]
    BY <2>3, <2>4, SubSeqProperties
  <2>6. /\ SubSeq(a, 1, n) \in Seq(S) /\ Len(SubSeq(a, 1, n)) = IF 1 <= n THEN n - 1 + 1 ELSE 0
    BY <2>1, <2>4, SubSeqProperties
  <2>7. Len(SubSeq(b, 1, n)) = Len(full) /\ full \in Seq(S) /\ Len(full) = n
    BY <1>3, <1>4, <2>5, <2>6
  <2>8. \A j \in 1 .. n : SubSeq(b, 1, n)[j] = full[j]
    BY <1>4, <2>2, <2>4, <2>5
  <2>9. \A j \in 1 .. Len(SubSeq(b, 1, n)) : SubSeq(b, 1, n)[j] = full[j]
    BY <2>7, <2>8
  <2> QED BY <2>5, <2>7, <2>9, SeqEqual
<1>11. n \in Nat
  BY <1>2, <1>3 DEF Ranged
<1> QED BY <1>4, <1>8, <1>9, <1>10, <1>11 DEF b

LEMMA WindowFacts ==
    ASSUME NEW text, Ranged(text), NEW i \in Nat
    PROVE  WindowEnd(text, i) \in Int /\ WindowEnd(text, i) <= Len(text)
<1>1. BufLen \in Nat /\ BufLen > 0 /\ Len(Tag) \in Nat /\ Len(text) \in Nat
  BY TagAssumption DEF Ranged
<1> DEFINE q == (i + Len(Tag) + BufLen - 2) \div BufLen
           all == Len(text)
<1>2. q \in Int
  BY <1>1
<1> HIDE DEF q
<1> DEFINE e == q * BufLen
<1>3. e \in Int
  BY <1>1, <1>2
<1>4. WindowEnd(text, i) = IF all <= e THEN all ELSE e
  BY DEF WindowEnd, Least, q
<1> HIDE DEF e
<1> QED BY <1>1, <1>3, <1>4

LEMMA ClearIsRead ==
    ASSUME NEW text, Ranged(text), Clear(text)
    PROVE  load_ver_scan_file(text) = Declared(text)
<1>1. PICK i \in TagsIn(text) :
          i = LeastOf(TagsIn(text)) /\ ClearAt(text, i, Len(FullLine(text, {i})))
  BY DEF Clear
<1> DEFINE tags == TagsIn(text)
           full == Leading(From(text, i), IsText)
           w == WindowEnd(text, i)
<1>2. Len(text) \in Nat /\ Len(Tag) \in Nat /\ Len(Tag) > 1 /\ LineMax \in Nat
  BY TagAssumption DEF Ranged
<1>3. i \in 1 .. Len(text)
  <2>1. i \in 1 .. Len(text) + 1 - Len(Tag)
    BY <1>1 DEF TagsIn
  <2> QED BY <1>2, <2>1
<1>4. text # <<>> /\ tags # {}
  BY <1>1, <1>3
<1>5. LeastOf({i}) = i
  BY <1>3, LeastIs
<1>6. FullLine(text, {i}) = full /\ FullLine(text, tags) = full
  BY <1>1, <1>4, <1>5 DEF FullLine
<1>7. i + Len(full) - 1 <= w /\ Len(full) < LineMax
  BY <1>1, <1>6 DEF ClearAt
<1>8. w \in Int /\ w <= Len(text)
  BY <1>2, <1>3, WindowFacts
<1>9. Leading(SubSeq(text, i, w), IsText) = full /\ Len(full) \in Nat
  <2> DEFINE u == w
  <2> HIDE DEF u
  <2>1. u \in Int /\ u <= Len(text) /\ i + Len(full) - 1 <= u
    BY <1>7, <1>8 DEF u
  <2>2. Leading(SubSeq(text, i, u), IsText) = full /\ Len(full) \in Nat
    BY <1>3, <2>1, SameLine
  <2> QED BY <2>2 DEF u
<1>10. Least(Len(full), LineMax - 1) = Len(full)
  BY <1>2, <1>7, <1>9 DEF Least
<1>11. LineAt(text, i) = From(full, Len(Tag) + 1)
  BY <1>9, <1>10 DEF LineAt, From
<1>12. Declared(text) = ver_parse_line(From(full, Len(Tag) + 1))
  BY <1>6 DEF Declared
<1>13. load_ver_scan_file(text) = ver_parse_line(LineAt(text, i))
  BY <1>1, <1>4 DEF load_ver_scan_file, ScanFrom
<1> QED BY <1>11, <1>12, <1>13

LEMMA Outranks ==
    ASSUME NEW a, NEW b, b.kind = "ver", ~(load_ver_compare(a, b) < 1)
    PROVE  Newer(a, b)
<1>1. \A x, y : ~(Sign(x, y) < 1) => x > y
  BY DEF Sign
<1>2. ~(0 < 1) => FALSE
  OBVIOUS
<1>3. CASE a.major # b.major
  <2>1. a.major > b.major
    BY <1>1, <1>3 DEF load_ver_compare
  <2> QED BY <2>1 DEF Newer
<1>4. CASE a.major = b.major /\ a.minor # b.minor
  <2>1. a.minor > b.minor
    BY <1>1, <1>4 DEF load_ver_compare
  <2> QED BY <1>4, <2>1 DEF Newer
<1>5. CASE a.major = b.major /\ a.minor = b.minor
  <2>1. a.ymd # 0 /\ b.ymd # 0 /\ a.ymd > b.ymd
    BY <1>1, <1>2, <1>5 DEF load_ver_compare
  <2> QED BY <1>5, <2>1 DEF Newer
<1> QED BY <1>3, <1>4, <1>5
(* Every text is a sequence of cells, -package.ver too: its numbers are    *)
(* written out digit by digit.                                             *)
LEMMA SeqRanged ==
    ASSUME NEW S, NEW s \in Seq(S)
    PROVE  Ranged(s)
BY DEF Ranged

DigitCells == {Digits[k] : k \in 1 .. 10}

LEMMA DecimalFacts ==
    ASSUME NEW n \in Nat
    PROVE  Decimal(n) \in Seq(DigitCells)
<1> DEFINE T == Seq(DigitCells)
           one == [k \in 0 .. n |-> <<Digits[k + 1]>>]
           low == [k \in 0 .. n |-> Digits[(k % 10) + 1]]
           q == [k \in 0 .. n |-> k \div 10]
           upTo(m, f) == /\ f \in [0 .. m -> T]
                         /\ \A k \in 0 .. m : f[k] = IF k < 10 THEN one[k] ELSE Append(f[q[k]], low[k])
           bad == {m \in 0 .. n : ~ \E f : upTo(m, f)}
           digits[i \in 0 .. n] ==
               IF i < 10 THEN <<Digits[i + 1]>> ELSE Append(digits[i \div 10], Digits[(i % 10) + 1])
           step(f) == [i \in 0 .. n |->
               IF i < 10 THEN <<Digits[i + 1]>> ELSE Append(f[i \div 10], Digits[(i % 10) + 1])]
<1>1. \A k \in 0 .. n : /\ one[k] = <<Digits[k + 1]>> /\ low[k] = Digits[(k % 10) + 1]
                        /\ q[k] = k \div 10
  OBVIOUS
<1> HIDE DEF one, low, q
<1>2. \A k \in 0 .. n : k < 10 => one[k] \in T
  <2>1. \A j \in 1 .. 10 : Digits[j] \in DigitCells
    BY DEF DigitCells
  <2>2. SUFFICES ASSUME NEW k \in 0 .. n, k < 10 PROVE one[k] \in T
    OBVIOUS
  <2>3. k + 1 \in 1 .. 10
    BY <2>2
  <2>4. Digits[k + 1] \in DigitCells
    BY <2>1, <2>3
  <2> DEFINE c == Digits[k + 1]
  <2> HIDE DEF c
  <2>5. <<c>> \in Seq(DigitCells)
    BY <2>4 DEF c
  <2> QED BY <1>1, <2>2, <2>5 DEF c
<1>3. \A k \in 0 .. n : low[k] \in DigitCells
  <2>1. \A j \in 1 .. 10 : Digits[j] \in DigitCells
    BY DEF DigitCells
  <2>2. SUFFICES ASSUME NEW k \in 0 .. n PROVE low[k] \in DigitCells
    OBVIOUS
  <2>3. (k % 10) + 1 \in 1 .. 10
    OBVIOUS
  <2>4. Digits[(k % 10) + 1] \in DigitCells
    BY <2>1, <2>3
  <2> QED BY <1>1, <2>4
<1>4. \A k \in 0 .. n : k >= 10 => q[k] \in 0 .. k - 1
  BY <1>1
<1>5. bad = {}
  <2>1. SUFFICES ASSUME bad # {} PROVE FALSE
    OBVIOUS
  <2>2. bad \in SUBSET Nat
    OBVIOUS
  <2>3. PICK b \in bad : \A m \in bad : b <= m
    BY <2>1, <2>2, LeastFacts
  <2>4. b \in 0 .. n /\ ~ \E f : upTo(b, f)
    OBVIOUS
  <2>5. \E f : /\ f \in [0 .. b - 1 -> T]
               /\ \A k \in 0 .. b - 1 : f[k] = IF k < 10 THEN one[k] ELSE Append(f[q[k]], low[k])
    <3>1. CASE b = 0
      <4>1. 0 .. b - 1 = {}
        BY <3>1
      <4> DEFINE f == [k \in {} |-> <<>>]
      <4>2. f \in [{} -> T] /\ \A k \in {} : FALSE
        OBVIOUS
      <4> HIDE DEF f, T
      <4> QED BY <4>1, <4>2
    <3>2. CASE b # 0
      <4>1. \A m \in 0 .. n : m \notin bad => \E f : upTo(m, f)
        OBVIOUS
      <4> DEFINE c == b - 1
      <4>2. c \in 0 .. n /\ ~(b <= c)
        BY <2>4, <3>2
      <4> HIDE DEF bad, c
      <4>3. c \notin bad
        BY <2>3, <4>2
      <4>4. \E f : upTo(c, f)
        BY <4>1, <4>2, <4>3
      <4> QED BY <4>4 DEF c
    <3> QED BY <3>1, <3>2
  <2>6. PICK f : /\ f \in [0 .. b - 1 -> T]
                 /\ \A k \in 0 .. b - 1 : f[k] = IF k < 10 THEN one[k] ELSE Append(f[q[k]], low[k])
    BY <2>5
  <2> DEFINE last == IF b < 10 THEN one[b] ELSE Append(f[q[b]], low[b])
             g == [k \in 0 .. b |-> IF k = b THEN last ELSE f[k]]
  <2>7. last \in T
    <3>1. CASE b < 10
      BY <1>2, <2>4, <3>1
    <3>2. CASE ~(b < 10)
      <4>1. b >= 10
        BY <2>4, <3>2
      <4>2. q[b] \in 0 .. b - 1
        BY <1>4, <2>4, <4>1
      <4>3. f[q[b]] \in T /\ low[b] \in DigitCells
        BY <1>3, <2>4, <2>6, <4>2
      <4> DEFINE t == f[q[b]]
      <4> HIDE DEF t, T
      <4>4. t \in Seq(DigitCells)
        BY <4>3 DEF t, T
      <4>5. Append(t, low[b]) \in Seq(DigitCells)
        BY <4>3, <4>4, AppendProperties
      <4> QED BY <3>2, <4>5 DEF t, T
    <3> QED BY <3>1, <3>2
  <2> HIDE DEF T
  <2>8. g[b] = last /\ \A k \in 0 .. b - 1 : k \in 0 .. b /\ k # b /\ g[k] = f[k]
    BY <2>4
  <2>9. \A k \in 0 .. b : k = b \/ k \in 0 .. b - 1
    BY <2>4
  <2>10. g \in [0 .. b -> T]
    BY <2>6, <2>7, <2>8, <2>9
  <2>11. \A k \in 0 .. b : g[k] = IF k < 10 THEN one[k] ELSE Append(g[q[k]], low[k])
    <3>1. SUFFICES ASSUME NEW k \in 0 .. b
                   PROVE  g[k] = IF k < 10 THEN one[k] ELSE Append(g[q[k]], low[k])
      OBVIOUS
    <3>2. k >= 10 => q[k] \in 0 .. b - 1
      <4>1. k \in 0 .. n
        BY <2>4
      <4> QED BY <1>4, <2>4, <4>1
    <3>3. k >= 10 => g[q[k]] = f[q[k]]
      BY <2>8, <3>2
    <3>4. k < 10 \/ k >= 10
      BY <2>4
    <3> HIDE DEF g
    <3>5. CASE k = b
      BY <2>8, <3>3, <3>4, <3>5
    <3>6. CASE k \in 0 .. b - 1
      BY <2>6, <2>8, <3>3, <3>4, <3>6
    <3> QED BY <2>9, <3>5, <3>6
  <2>12. upTo(b, g)
    BY <2>10, <2>11
  <2> HIDE DEF upTo
  <2> QED BY <2>4, <2>12
<1>6. PICK f : upTo(n, f)
  <2>1. \A m \in 0 .. n : m \notin bad => \E f : upTo(m, f)
    OBVIOUS
  <2> HIDE DEF bad
  <2>2. n \in 0 .. n
    OBVIOUS
  <2>3. \E f : upTo(n, f)
    BY <1>5, <2>1, <2>2
  <2> QED BY <2>3
<1> HIDE DEF T
<1>7. f = step(f)
  <2> DEFINE h == step(f)
  <2>1. \A k \in 0 .. n : h[k] = f[k]
    BY <1>1, <1>6
  <2> QED BY <1>6, <2>1
<1>8. digits = step(digits)
  BY <1>7 DEF digits
<1> HIDE DEF digits
<1>9. \A k \in 0 .. n : digits[k] = IF k < 10 THEN one[k] ELSE Append(digits[q[k]], low[k])
  BY <1>1, <1>8
<1>10. \A k \in 0 .. n : digits[k] \in T
  <2> DEFINE worse == {k \in 0 .. n : digits[k] \notin T}
  <2>1. SUFFICES ASSUME worse # {} PROVE FALSE
    OBVIOUS
  <2>2. worse \in SUBSET Nat
    OBVIOUS
  <2>3. PICK b \in worse : \A m \in worse : b <= m
    BY <2>1, <2>2, LeastFacts
  <2>4. b \in 0 .. n /\ digits[b] \notin T
    OBVIOUS
  <2>5. ~(b < 10)
    BY <1>2, <1>9, <2>4
  <2>6. b >= 10
    BY <2>4, <2>5
  <2>7. q[b] \in 0 .. b - 1
    BY <1>4, <2>4, <2>6
  <2>8. q[b] \in 0 .. n /\ ~(b <= q[b])
    BY <2>4, <2>7
  <2>9. digits[q[b]] \in T
    BY <2>3, <2>8
  <2> DEFINE t == digits[q[b]]
  <2>10. t \in Seq(DigitCells) /\ low[b] \in DigitCells
    BY <1>3, <2>4, <2>9 DEF T
  <2>11. digits[b] = Append(t, low[b])
    BY <1>9, <2>4, <2>5
  <2> HIDE DEF t
  <2>12. digits[b] \in Seq(DigitCells)
    BY <2>10, <2>11, AppendProperties
  <2> QED BY <2>4, <2>12 DEF T
<1>11. Decimal(n) = digits[n]
  BY DEF Decimal, digits
<1> QED BY <1>10, <1>11 DEF T

LEMMA PackageVerFacts ==
    ASSUME job.ver.major \in Nat, job.ver.minor \in Nat
    PROVE  Ranged(handle_build_package_ver)
<1> DEFINE v == job.ver
           tens(k) == Digits[((k \div 10) % 10) + 1]
           ones(k) == Digits[(k % 10) + 1]
           two(k) == <<tens(k), ones(k)>>
           day == v.ymd % 100
           month == v.ymd \div 100
           year == v.ymd \div 10000
           marks == {NAME, " ", "(", ".", ")", "end"}
           read == {tens(day), ones(day), tens(month), ones(month), tens(year), ones(year)}
           S == STRING \cup DigitCells \cup marks \cup read
           dd == two(day)
           mm == two(month)
           yy == two(year)
           date == <<" ", "(">> \o dd \o <<".">> \o mm \o <<".">> \o yy \o <<")">>
           major == Decimal(v.major)
           minor == Decimal(v.minor)
           tail == IF v.ymd = 0 THEN <<>> ELSE date
<1>1. /\ STRING \subseteq S /\ DigitCells \subseteq S /\ NAME \in S
      /\ " " \in S /\ "(" \in S /\ "." \in S /\ ")" \in S /\ "end" \in S
  <2>1. /\ NAME \in marks /\ " " \in marks /\ "(" \in marks
        /\ "." \in marks /\ ")" \in marks /\ "end" \in marks
    OBVIOUS
  <2> HIDE DEF marks, read
  <2> QED BY <2>1
<1>2. /\ tens(day) \in S /\ ones(day) \in S /\ tens(month) \in S /\ ones(month) \in S
      /\ tens(year) \in S /\ ones(year) \in S
  <2>1. /\ tens(day) \in read /\ ones(day) \in read /\ tens(month) \in read
        /\ ones(month) \in read /\ tens(year) \in read /\ ones(year) \in read
    OBVIOUS
  <2> HIDE DEF tens, ones, day, month, year, marks, read
  <2> QED BY <2>1
<1>3. handle_build_package_ver
        = Tag \o <<" ", NAME, " ">> \o major \o <<".">> \o minor \o tail \o <<"end">>
  BY DEF handle_build_package_ver
<1> HIDE DEF S
<1>4. \A s : s \in Seq(STRING) \/ s \in Seq(DigitCells) => s \in Seq(S)
  BY <1>1, SeqMonotonic
<1>5. \A x, y, z \in S : <<x>> \in Seq(S) /\ <<x, y>> \in Seq(S) /\ <<x, y, z>> \in Seq(S)
  OBVIOUS
<1>6. date \in Seq(S)
  <2>1. dd \in Seq(S) /\ mm \in Seq(S) /\ yy \in Seq(S)
    <3> HIDE DEF tens, ones
    <3> QED BY <1>2, <1>5
  <2>2. <<" ", "(">> \in Seq(S) /\ <<".">> \in Seq(S) /\ <<")">> \in Seq(S)
    BY <1>1, <1>5
  <2> HIDE DEF dd, mm, yy
  <2> QED BY <2>1, <2>2, ConcatProperties
<1>7. major \in Seq(S) /\ minor \in Seq(S) /\ Tag \in Seq(S)
  BY <1>4, DecimalFacts, TagAssumption
<1> HIDE DEF date
<1>8. tail \in Seq(S)
  <2>1. <<>> \in Seq(S)
    OBVIOUS
  <2> QED BY <1>6, <2>1
<1> DEFINE name == <<" ", NAME, " ">>
<1>9. name \in Seq(S) /\ <<".">> \in Seq(S) /\ <<"end">> \in Seq(S)
  BY <1>1, <1>5
<1> HIDE DEF name, major, minor, tail
<1>10. Tag \o name \o major \o <<".">> \o minor \o tail \o <<"end">> \in Seq(S)
  BY <1>7, <1>8, <1>9, ConcatProperties
<1> QED BY <1>3, <1>10, SeqRanged DEF name
TextsInv ==
    /\ job.ver.major \in Nat /\ job.ver.minor \in Nat
    /\ \A p \in DOMAIN stage : Ranged(stage[p])
    /\ \A m \in DOMAIN bin.held : Ranged(bin.held[m])
    /\ \A d \in DOMAIN installed : Ranged(installed[d])

LEMMA TextsInit == Init => TextsInv
<1> SUFFICES ASSUME Init PROVE TextsInv
  OBVIOUS
<1>1. given \in Cases /\ stage = given.stage /\ bin = given.old /\ installed = given.installed
      /\ job.ver.major = 0 /\ job.ver.minor = 0
  BY DEF Init, Bad, NoVersion
<1> QED BY <1>1, CaseFacts, SeqRanged DEF TextsInv

(* The version of a package is given as VERSION=, or read from a file.     *)
LEMMA PackageVersionFacts ==
    ASSUME given \in Cases, TextsInv, handle_set_package_version.kind = "ver"
    PROVE  handle_set_package_version.major \in Nat /\ handle_set_package_version.minor \in Nat
<1>1. CASE given.version # <<>>
  <2> DEFINE token == ver_parse_token(given.version)
  <2>1. Ranged(given.version)
    BY CaseFacts, SeqRanged
  <2>2. handle_set_package_version = Given(token)
    BY <1>1 DEF handle_set_package_version
  <2>3. token # <<>> => token[1] \in Nat /\ token[2] \in Nat
    BY <2>1, TokenFacts
  <2> HIDE DEF token
  <2> QED BY <2>2, <2>3 DEF Given, Bad, NoVersion
<1>2. CASE given.version = <<>> /\ given.primary \in DOMAIN stage
  <2>1. handle_set_package_version = load_ver_scan_file(stage[given.primary])
    BY <1>2 DEF handle_set_package_version
  <2>2. Ranged(stage[given.primary])
    BY <1>2 DEF TextsInv
  <2> QED BY <2>1, <2>2, VersionFacts DEF Kind
<1>3. CASE given.version = <<>> /\ given.primary \notin DOMAIN stage
  BY <1>3 DEF handle_set_package_version, Bad
<1> QED BY <1>1, <1>2, <1>3

LEMMA AppendedRanged ==
    ASSUME NEW f, \A m \in DOMAIN f : Ranged(f[m]), NEW p, NEW t, Ranged(t)
    PROVE  /\ \A m \in DOMAIN With(f, p, t) : Ranged(With(f, p, t)[m])
           /\ \A m \in DOMAIN Append1(f, p, t) : Ranged(Append1(f, p, t)[m])
<1>1. \A m \in DOMAIN With(f, p, t) : With(f, p, t)[m] \in {f[m], t} /\ (m \in DOMAIN f \/ With(f, p, t)[m] = t)
  BY DEF With
<1>2. \A m \in DOMAIN With(f, p, t) : Ranged(With(f, p, t)[m])
  <2>1. SUFFICES ASSUME NEW m \in DOMAIN With(f, p, t) PROVE Ranged(With(f, p, t)[m])
    OBVIOUS
  <2>2. CASE With(f, p, t)[m] = t
    BY <2>2
  <2>3. CASE With(f, p, t)[m] = f[m] /\ m \in DOMAIN f
    <3>1. Ranged(f[m])
      BY <2>3
    <3> QED BY <2>3, <3>1
  <2> QED BY <1>1, <2>1, <2>2, <2>3
<1> QED BY <1>2 DEF Append1

LEMMA OtherRanged == Ranged(AutoShowText) /\ Ranged(<<"other">>) /\ Ranged(<<>>)
<1>1. <<"other">> \in Seq({"other"}) /\ <<>> \in Seq({"other"})
  OBVIOUS
<1> QED BY <1>1, SeqRanged DEF AutoShowText

LEMMA TextsHandle ==
    ASSUME PackageTypes, TextsInv, HandleStep
    PROVE  TextsInv'
<1>1. Shape /\ given \in Cases
  BY DEF PackageTypes, TypeOK
<1>2. installed' = installed
  BY <1>1, HandleStepKeeps
<1>3. ASSUME job'.ver = job.ver \/ (job'.ver.major \in Nat /\ job'.ver.minor \in Nat),
             stage' = stage, \A m \in DOMAIN bin'.held : Ranged(bin'.held[m])
      PROVE  TextsInv'
  BY <1>2, <1>3 DEF TextsInv
<1>4. ASSUME job'.ver = job.ver \/ (job'.ver.major \in Nat /\ job'.ver.minor \in Nat),
             stage' = stage, bin' = bin
      PROVE  TextsInv'
  BY <1>2, <1>4 DEF TextsInv
<1>5. ASSUME job'.ver = job.ver, stage' = stage, bin' \in {bin, NoBin} PROVE TextsInv'
  <2>1. \A m \in DOMAIN NoBin.held : Ranged(NoBin.held[m])
    BY DEF NoBin
  <2> QED BY <1>3, <1>5, <2>1 DEF TextsInv
<1>6. CASE StartScan
  BY <1>1, <1>4, <1>6, StartScanMeans DEF HandleKeeps, SameJob, SameLines
<1>7. ASSUME NEW p \in DOMAIN stage, ScanOne(p) PROVE TextsInv'
  BY <1>1, <1>4, <1>7, ScanOneMeans DEF HandleKeeps, Ends, SameJob, SameLines
<1>8. CASE EndScan
  <2>1. bin' = bin /\ stage' = stage
    BY <1>1, <1>8, EndScanMeans DEF HandleKeeps
  <2>2. \/ job'.ver = job.ver
        \/ handle_set_package_version.kind = "ver" /\ job'.ver = handle_set_package_version
    BY <1>1, <1>8, EndScanMeans DEF Ends, SameJob, SameLines
  <2>3. job'.ver = job.ver \/ (job'.ver.major \in Nat /\ job'.ver.minor \in Nat)
    BY <1>1, <2>2, PackageVersionFacts
  <2> QED BY <1>4, <2>1, <2>3
<1>9. CASE CheckOne
  BY <1>1, <1>4, <1>9, CheckOneMeans DEF HandleKeeps, Ends, SameJob, SameLines
<1>10. CASE BuildManifest
  BY <1>1, <1>5, <1>10, BuildManifestMeans DEF HandleKeeps, Ends, SameJob, SameLines
<1>11. CASE CreateBin
  <2>1. stage' = stage /\ job'.ver = job.ver
        /\ \A m \in DOMAIN bin'.held : bin'.held[m] \in {handle_build_package_ver, AutoShowText}
    BY <1>1, <1>11, CreateBinMeans DEF HandleKeeps, SameJob, SameLines
  <2>2. Ranged(handle_build_package_ver)
    BY PackageVerFacts DEF TextsInv
  <2>3. \A m \in DOMAIN bin'.held : Ranged(bin'.held[m])
    BY <2>1, <2>2, OtherRanged
  <2> QED BY <1>3, <2>1, <2>3
<1>12. CASE AddManifest
  BY <1>1, <1>3, <1>12, AddManifestMeans DEF HandleKeeps, SameJob, SameLines, TextsInv
<1>13. ASSUME NEW p \in DOMAIN stage, PackOne(p) PROVE TextsInv'
  <2>1. stage' = stage /\ job'.ver = job.ver
        /\ bin'.held = Append1(bin.held, MemberName(given.sys, p), stage[p])
    BY <1>1, <1>13, PackOneMeans DEF HandleKeeps, SameJob, SameLines
  <2>2. \A m \in DOMAIN bin'.held : Ranged(bin'.held[m])
    BY <2>1, <1>13, AppendedRanged DEF TextsInv
  <2> QED BY <1>3, <2>1, <2>2
<1>14. CASE EndPack
  <2>1. stage' = stage /\ job'.ver = job.ver
        /\ bin'.held \in {bin.held, Append1(bin.held, <<Readme>>, <<"other">>)}
    BY <1>1, <1>14, EndPackMeans DEF HandleKeeps, Ends, SameJob, SameLines
  <2>2. \A m \in DOMAIN Append1(bin.held, <<Readme>>, <<"other">>) :
           Ranged(Append1(bin.held, <<Readme>>, <<"other">>)[m])
    BY AppendedRanged, OtherRanged DEF TextsInv
  <2>3. \A m \in DOMAIN bin'.held : Ranged(bin'.held[m])
    BY <2>1, <2>2 DEF TextsInv
  <2> QED BY <1>3, <2>1, <2>3
<1>15. CASE HandleCallFails
  BY <1>1, <1>5, <1>15, HandleCallFailsMeans DEF HandleKeeps, Ends, SameJob, SameLines, MaybeDeleted
<1>16. CASE HandleReset
  BY <1>1, <1>5, <1>16, HandleResetMeans DEF HandleKeeps, Ends, SameJob, SameLines, MaybeDeleted
<1>17. ASSUME NEW p \in DOMAIN stage, Edit(p) PROVE TextsInv'
  <2>1. /\ UNCHANGED <<bin, installed, job>>
        /\ DOMAIN stage' \subseteq DOMAIN stage
        /\ \A q \in DOMAIN stage' : stage'[q] = stage[q] \/ stage'[q] \in Drafts
    BY <1>17, EditMeans
  <2>2. \A t \in Drafts : Ranged(t)
    BY DraftsAssumption, SeqRanged
  <2>3. \A q \in DOMAIN stage' : Ranged(stage'[q])
    BY <2>1, <2>2 DEF TextsInv
  <2> QED BY <2>1, <2>3 DEF TextsInv
<1> QED BY <1>6, <1>7, <1>8, <1>9, <1>10, <1>11, <1>12, <1>13, <1>14, <1>15, <1>16, <1>17 DEF HandleStep

LEMMA MemberRanged ==
    ASSUME TextsInv
    PROVE  Ranged(TurnText)
BY OtherRanged DEF TextsInv, TurnText, MemberText

LEMMA TextsStep ==
    ASSUME PackageTypes, TextsInv, [Next]_vars
    PROVE  TextsInv'
<1>1. Shape
  BY DEF PackageTypes
<1>2. CASE HandleStep
  BY <1>2, TextsHandle
<1>3. ASSUME UNCHANGED <<job, stage, bin, installed>> PROVE TextsInv'
  BY <1>3 DEF TextsInv
<1>4. CASE InstallOne
  <2>1. UNCHANGED <<job, stage, bin>>
    BY <1>1, <1>4, InstallOneMeans DEF LoadKeeps
  <2>2. installed' = installed \/ installed' = With(installed, TurnDest, TurnText)
    BY <1>1, <1>4, InstallOneMeans
  <2>3. \A d \in DOMAIN With(installed, TurnDest, TurnText) : Ranged(With(installed, TurnDest, TurnText)[d])
    BY AppendedRanged, MemberRanged DEF TextsInv
  <2>4. \A d \in DOMAIN installed' : Ranged(installed'[d])
    BY <2>2, <2>3 DEF TextsInv
  <2> QED BY <2>1, <2>4 DEF TextsInv
<1>5. CASE StartLoad
  BY <1>1, <1>3, <1>5, StartLoadMeans DEF LoadKeeps
<1>6. CASE EndLoad
  BY <1>1, <1>3, <1>6, EndLoadMeans DEF LoadKeeps
<1>7. CASE LoadCallFails
  BY <1>1, <1>3, <1>7, LoadCallFailsMeans DEF LoadKeeps
<1>8. CASE UNCHANGED vars
  BY <1>3, <1>8 DEF vars
<1>9. CASE InstallUnseen
  <2>1. UNCHANGED <<job, stage, bin>> /\ installed' = With(installed, TurnDest, TurnText)
    BY <1>1, <1>9, InstallUnseenMeans DEF LoadKeeps
  <2>2. \A d \in DOMAIN With(installed, TurnDest, TurnText) : Ranged(With(installed, TurnDest, TurnText)[d])
    BY AppendedRanged, MemberRanged DEF TextsInv
  <2> QED BY <2>1, <2>2 DEF TextsInv
<1> QED BY <1>2, <1>4, <1>5, <1>6, <1>7, <1>8, <1>9, Steps DEF LoadStep

(* What happens to a file when Load puts another in its place.             *)
Replaces(d) ==
    installed'[d] # installed[d] /\ ~given.again /\ Clear(installed[d])
      /\ Declared(installed[d]).kind = "ver"
IsRaised(d) ==
    /\ Newer(load_ver_scan_file(installed'[d]), Declared(installed[d]))
    /\ Clear(installed'[d]) => Newer(Declared(installed'[d]), Declared(installed[d]))

LEMMA OnlyRaised ==
    ASSUME Shape, TextsInv, InstallOne, NEW d \in DOMAIN installed, Replaces(d)
    PROVE  IsRaised(d)
<1>1. /\ d = TurnDest /\ installed'[d] = TurnText
      /\ TurnOld.kind = "ver" => ~(load_ver_compare(load_ver_scan_file(TurnText), TurnOld) < 1)
  BY InstallOneMeans DEF Replaces, With
<1>2. Ranged(installed[d]) /\ Ranged(TurnText)
  BY MemberRanged DEF TextsInv
<1>3. load_ver_scan_file(installed[d]) = Declared(installed[d])
  BY <1>2, ClearIsRead DEF Replaces
<1>4. TurnOld = Declared(installed[d])
  BY <1>1, <1>3 DEF TurnOld
<1>5. Newer(load_ver_scan_file(TurnText), Declared(installed[d]))
  BY <1>1, <1>4, Outranks DEF Replaces
<1>6. Clear(TurnText) => load_ver_scan_file(TurnText) = Declared(TurnText)
  BY <1>2, ClearIsRead
<1> QED BY <1>1, <1>5, <1>6 DEF IsRaised

(* Without FORCE Load replaces a file whose tag it reads in full only by   *)
(* one that shows a newer version (load_install_one, load_ver_compare),    *)
(* which is what that one declares where its tag is read in full too;      *)
(* except where Lock fails for the file and it is taken for none.          *)
THEOREM NoDowngrades == Spec => NoDowngrade
<1> DEFINE Inv == PackageTypes /\ TextsInv
<1>1. Init => Inv
  BY TypesInit, TextsInit
<1>2. Inv /\ [Next]_vars => Inv'
  BY TypesStep, TextsStep
<1>3. Inv /\ [Next]_vars =>
        [\A d \in DOMAIN installed \ load'.unseen :
           LET new == installed'[d]
               old == installed[d]
           IN new # old /\ ~given.again /\ Clear(old) /\ Declared(old).kind = "ver"
              => /\ Newer(load_ver_scan_file(new), Declared(old))
                 /\ Clear(new) => Newer(Declared(new), Declared(old))]_vars
  <2>1. SUFFICES ASSUME Inv, Next, NEW d \in DOMAIN installed, d \notin load'.unseen
                 PROVE  Replaces(d) => IsRaised(d)
    BY DEF Replaces, IsRaised
  <2>2. Shape
    BY <2>1 DEF PackageTypes
  <2>3. CASE InstallOne
    BY <2>1, <2>2, <2>3, OnlyRaised
  <2>4. CASE InstallUnseen
    <3>1. d # TurnDest /\ installed' = With(installed, TurnDest, TurnText)
      BY <2>1, <2>2, <2>4, InstallUnseenMeans
    <3> QED BY <2>1, <3>1 DEF Replaces, With
  <2>5. CASE ~InstallOne /\ ~InstallUnseen
    <3>1. installed' = installed
      BY <2>1, <2>2, <2>5, Steps, HandleStepKeeps, StartLoadMeans, EndLoadMeans, LoadCallFailsMeans
         DEF LoadStep
    <3> QED BY <3>1 DEF Replaces
  <2> QED BY <2>3, <2>4, <2>5
<1> QED BY <1>1, <1>2, <1>3, PTL DEF Spec, NoDowngrade
=============================================================================

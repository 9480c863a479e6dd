----------------------------- MODULE VersionTag -----------------------------
(***************************************************************************)
(* $VER: tags.  handle_ver.c and load_ver.c hold the same code twice: find *)
(* the tag in a file that is read through a buffer, take a version and a   *)
(* date from its line, compare two of them.  A text is a sequence of cells:*)
(* digits, ".", "/", " ", "(", ")", "end" for a NUL or the end of a line,  *)
(* and anything else.                                                      *)
(***************************************************************************)
EXTENDS Integers, Sequences

CONSTANTS
    Tag,      \* the cells of "$VER:"
    BufLen,   \* HANDLE_VER_BUF, LOAD_VER_BUF
    LineMax   \* HANDLE_VER_LINE_MAX, LOAD_VER_LINE_MAX

ASSUME TagAssumption ==
    /\ Tag \in Seq(STRING) /\ {BufLen, LineMax, Len(Tag)} \subseteq Nat
    /\ 1 < Len(Tag) /\ Len(Tag) < BufLen /\ Len(Tag) < LineMax

Digits == <<"0", "1", "2", "3", "4", "5", "6", "7", "8", "9">>
IsBlank(c) == c = " "
IsDigit(c) == \E i \in DOMAIN Digits : Digits[i] = c
ValueOf(c) == (CHOOSE i \in DOMAIN Digits : Digits[i] = c) - 1

Least(a, b) == IF a <= b THEN a ELSE b
LeastOf(S) == CHOOSE i \in S : \A j \in S : i <= j
From(s, i) == SubSeq(s, i, Len(s))

(* Where in s, from i on, the first cell stands that is not of kind.       *)
Past(s, i, kind(_)) == LeastOf({j \in i .. Len(s) + 1 : j > Len(s) \/ ~kind(s[j])})

(* What s begins with, as far as every cell is one of kind.                *)
Leading(s, kind(_)) == SubSeq(s, 1, Past(s, 1, kind) - 1)

(* StrToLong of a sequence of digits.                                      *)
NumberOf(s) ==
    LET value[n \in 0 .. Len(s)] ==
            IF n = 0 THEN 0 ELSE 10 * value[n - 1] + ValueOf(s[n])
    IN value[Len(s)]

Decimal(n) ==
    LET digits[i \in 0 .. n] ==
            IF i < 10 THEN <<Digits[i + 1]>> ELSE Append(digits[i \div 10], Digits[(i % 10) + 1])
    IN digits[n]

(* Numbers with one of seps between them, and the end of s or one of ends  *)
(* behind: the first k of s, or none.  StrToLong skips blanks before one.  *)
Numbers(s, k, seps, ends) ==
    LET behind(a) == Past(s, a, IsDigit)
        next(a) == IF a < behind(a) /\ behind(a) <= Len(s) /\ s[behind(a)] \in seps
                   THEN Past(s, behind(a) + 1, IsBlank) ELSE Len(s) + 1
        first[n \in 1 .. k] == IF n = 1 THEN Past(s, 1, IsBlank) ELSE next(first[n - 1])
    IN IF /\ first[k] < behind(first[k])
          /\ behind(first[k]) <= Len(s) => s[behind(first[k])] \in ends
       THEN [n \in 1 .. k |-> NumberOf(SubSeq(s, first[n], behind(first[n]) - 1))]
       ELSE <<>>

(* load_ver_parse_token: major.minor, and perhaps more behind a dot or a   *)
(* blank.                                                                  *)
ver_parse_token(t) == Numbers(t, 2, {"."}, {".", " "})

(* load_ver_parse_date: (dd.mm.yy) or (dd/mm/yy), and anything behind.     *)
DateOf(d) ==
    IF d = <<>> THEN 0
    ELSE IF d[1] \notin 1 .. 31 \/ d[2] \notin 1 .. 12 THEN 0
    ELSE (d[3] % 100) * 10000 + d[2] * 100 + d[1]
ver_parse_date(s) ==
    DateOf(Numbers(From(s, 2), 3, {".", "/"}, {s[i] : i \in DOMAIN s}))

NoVersion == [kind |-> "none", major |-> 0, minor |-> 0, ymd |-> 0]
Bad == [NoVersion EXCEPT !.kind = "bad"]
Hang == [NoVersion EXCEPT !.kind = "hang"]

(* The first token of a line that is a version.                            *)
Apart == {" ", "("}
IsWord(c) == c \notin Apart
FirstVersion(s) ==
    LET starts == {i \in DOMAIN s : IsWord(s[i]) /\ (i = 1 \/ ~IsWord(s[i - 1]))}
        read == [i \in starts |-> ver_parse_token(Leading(From(s, i), IsWord))]
        good == {i \in DOMAIN read : read[i] # <<>>}
    IN IF good = {} THEN <<>> ELSE read[LeastOf(good)]

(* load_ver_parse_line, behind the tag: a version, and a date from the     *)
(* first parenthesis on.  One that stands right behind a token only ends   *)
(* that.                                                                   *)
Reading(v, dated, ymd) ==
    IF v = <<>> \/ (dated /\ ymd = 0) THEN Bad
    ELSE [kind |-> "ver", major |-> v[1], minor |-> v[2], ymd |-> ymd]
ParseBefore(s, open) ==
    Reading(FirstVersion(SubSeq(s, 1, open - 1)), open <= Len(s),
            IF open <= Len(s) THEN ver_parse_date(From(s, open)) ELSE 0)
ver_parse_line(s) ==
    ParseBefore(s, LeastOf({i \in DOMAIN s : s[i] = "(" /\ (i = 1 \/ s[i - 1] \in Apart)}
                             \cup {Len(s) + 1}))

TagsIn(text) ==
    {i \in 1 .. Len(text) + 1 - Len(Tag) : SubSeq(text, i, i + Len(Tag) - 1) = Tag}

(* The last cell of the buffer in which the tag at i is found: the file is *)
(* read BufLen cells at a time, the last Len(Tag) - 1 of a buffer are kept *)
(* in front of the next.                                                   *)
WindowEnd(text, i) ==
    Least(Len(text), ((i + Len(Tag) + BufLen - 2) \div BufLen) * BufLen)

IsText(c) == c # "end"
(* What follows the tag, in its line, in its buffer, in LineMax - 1 cells. *)
LineAt(text, i) ==
    LET line == Leading(SubSeq(text, i, WindowEnd(text, i)), IsText)
    IN SubSeq(line, Len(Tag) + 1, Least(Len(line), LineMax - 1))

(* load_ver_scan_file: the first tag counts.  At the end of the file Read  *)
(* returns nothing, but what was kept is searched again, and again.        *)
ScanFrom(text, tags) ==
    IF tags = {} THEN Hang ELSE ver_parse_line(LineAt(text, LeastOf(tags)))
load_ver_scan_file(text) ==
    IF text = <<>> THEN NoVersion ELSE ScanFrom(text, TagsIn(text))

Sign(a, b) == IF a > b THEN 1 ELSE IF a < b THEN -1 ELSE 0

(* Wrong on purpose: a file with a date beats one without.                 *)
compare_undated(cand, inst) ==
    IF inst.kind # "ver" THEN 1
    ELSE IF cand.major # inst.major THEN Sign(cand.major, inst.major)
    ELSE IF cand.minor # inst.minor THEN Sign(cand.minor, inst.minor)
    ELSE Sign(cand.ymd, inst.ymd)

(* load_ver_compare: 1 newer, 0 the same, -1 older.                        *)
load_ver_compare(cand, inst) ==
    IF inst.kind # "ver" THEN 1
    ELSE IF cand.major # inst.major THEN Sign(cand.major, inst.major)
    ELSE IF cand.minor # inst.minor THEN Sign(cand.minor, inst.minor)
    ELSE IF cand.ymd # 0 /\ inst.ymd # 0 THEN Sign(cand.ymd, inst.ymd) ELSE 0

-----------------------------------------------------------------------------
(* For properties: the version a text declares, its line read in full, and *)
(* whether the line of its first tag lies in one buffer and fits a line.   *)
FullLine(text, tags) ==
    IF tags = {} THEN <<>> ELSE Leading(From(text, LeastOf(tags)), IsText)
Declared(text) == ver_parse_line(From(FullLine(text, TagsIn(text)), Len(Tag) + 1))

ClearAt(text, i, n) == i + n - 1 <= WindowEnd(text, i) /\ n < LineMax
Clear(text) ==
    \E i \in TagsIn(text) :
        /\ i = LeastOf(TagsIn(text))
        /\ ClearAt(text, i, Len(FullLine(text, {i})))

Newer(a, b) ==
    \/ a.major > b.major
    \/ a.major = b.major /\ a.minor > b.minor
    \/ /\ a.major = b.major /\ a.minor = b.minor
       /\ a.ymd # 0 /\ b.ymd # 0 /\ a.ymd > b.ymd
=============================================================================

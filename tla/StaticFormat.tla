---------------------------- MODULE StaticFormat ----------------------------
(***************************************************************************)
(* What other programs write into -lh4- to -lh7- and -lhx- entries: blocks  *)
(* of codes for characters, match lengths and positions, each block behind  *)
(* the lengths of its codes, which are themselves coded.  No encoder of     *)
(* this format is in the repository: these definitions are what its decoder *)
(* (lh_lh5dec.c) takes for granted, read from the other side.               *)
(***************************************************************************)
EXTENDS Integers, Sequences, FiniteSets

CONSTANTS
    W,             \* the bits of an unsigned short, of which no code has more
    Bytes,         \* the values of a byte, 0 .. Bytes - 1
    DicBit,        \* dicbit: the window has 2^DicBit bytes
    NC,            \* LH5_NC: characters and match lengths
    Threshold,     \* LH5_THRESHOLD: the shortest match
    NP,            \* np: position codes
    CBit, TBit, PBit,      \* LH5_CBIT, LH5_TBIT, pbit: the counts of lengths
    CTableBits, PtTableBits, \* 12 and 8: how many bits the tables resolve
    LenBits,       \* 3: a code length, when it is short
    Special,       \* 3: i_special of the lengths of lengths
    RunBits, RunBase, FarBase, \* 4, 3, 20: runs of zero lengths
    Space          \* the byte that the window begins with

NT == W + 3        \* LH5_NT: the lengths 0 .. W, and two more for runs of zeros

ASSUME StaticAssumption ==
    /\ NC \in Nat /\ Bytes \in 1 .. NC /\ Space \in 0 .. Bytes - 1
    /\ NP \in Nat \ {0} /\ 2 * NP - 2 <= NC   \* two trees fit side by side
    /\ NT <= 2 * NC - 2
    /\ CTableBits \in 1 .. W - 1 /\ PtTableBits \in 1 .. W - 1
    /\ NC <= 2 ^ CTableBits /\ NP <= 2 ^ PtTableBits  \* some code is a short one

Bit(n, i) == (n \div 2 ^ i) % 2
BitsOf(n, len) == [i \in 1 .. len |-> Bit(n, len - i)]
ValueOf(b) == LET v[i \in 0 .. Len(b)] == IF i = 0 THEN 0 ELSE 2 * v[i - 1] + b[i]
              IN v[Len(b)]
Least(S) == CHOOSE x \in S : \A y \in S : x <= y

RECURSIVE Flatten(_)
Flatten(ss) == IF ss = <<>> THEN <<>> ELSE Head(ss) \o Flatten(Tail(ss))

-----------------------------------------------------------------------------
(* A row of code lengths is complete, or has only one code, which then     *)
(* takes no bits; codes count up, shorter ones first.                      *)

None == -1
HasOnly(row) == row.only # None
CodedBy(row) == IF HasOnly(row) THEN {row.only} ELSE {s \in DOMAIN row.len : row.len[s] > 0}

(* The code of s, filled up with zeros to W bits.                          *)
CodeWord(len, s) ==
    LET shorter(r) == len[r] > 0 /\ (len[r] < len[s] \/ (len[r] = len[s] /\ r < s))
        below[r \in 0 .. Cardinality(DOMAIN len)] ==
            IF r = 0 THEN 0
            ELSE below[r - 1] + (IF shorter(r - 1) THEN 2 ^ (W - len[r - 1]) ELSE 0)
    IN below[Cardinality(DOMAIN len)]
Coded(row, s) ==
    IF HasOnly(row) THEN <<>> ELSE SubSeq(BitsOf(CodeWord(row.len, s), W), 1, row.len[s])

(* Lengths up to the last one that is not zero.                            *)
Written(row) == Cardinality({s \in DOMAIN row.len : \E r \in DOMAIN row.len :
                                r >= s /\ row.len[r] > 0})

Escape == 2 ^ LenBits - 1
LengthBits(n) ==
    IF n < Escape THEN BitsOf(n, LenBits)
    ELSE BitsOf(Escape, LenBits) \o [i \in 1 .. n - Escape |-> 1] \o <<0>>

RECURSIVE ZerosAt(_, _, _)
ZerosAt(row, i, most) ==
    IF most = 0 \/ i >= Written(row) \/ row.len[i] > 0 THEN 0
    ELSE 1 + ZerosAt(row, i + 1, most - 1)

RECURSIVE PtLengths(_, _, _)
PtLengths(row, i, special) ==
    IF i >= Written(row) THEN <<>>
    ELSE LET skip == IF i + 1 = special THEN ZerosAt(row, special, 3) ELSE 0
         IN LengthBits(row.len[i])
               \o (IF i + 1 = special THEN BitsOf(skip, 2) ELSE <<>>)
               \o PtLengths(row, i + 1 + skip, special)

PtRow(row, nbit, special) ==
    IF HasOnly(row) THEN BitsOf(0, nbit) \o BitsOf(row.only, nbit)
    ELSE BitsOf(Written(row), nbit) \o PtLengths(row, 0, special)

(* The lengths of character codes, runs of zeros as one symbol.            *)
RECURSIVE Symbols(_, _)
Symbols(row, i) ==
    IF i >= Written(row) THEN <<>>
    ELSE LET z == ZerosAt(row, i, NC)
         IN IF z = 0 THEN <<<<row.len[i] + 2, <<>>>>>> \o Symbols(row, i + 1)
            ELSE IF z >= FarBase
                 THEN <<<<2, BitsOf(z - FarBase, CBit)>>>> \o Symbols(row, i + z)
            ELSE IF z >= RunBase /\ z < RunBase + 2 ^ RunBits
                 THEN <<<<1, BitsOf(z - RunBase, RunBits)>>>> \o Symbols(row, i + z)
            ELSE <<<<0, <<>>>>>> \o Symbols(row, i + 1)

CRow(row, t) ==
    IF HasOnly(row) THEN BitsOf(0, CBit) \o BitsOf(row.only, CBit)
    ELSE LET syms == Symbols(row, 0)
         IN BitsOf(Written(row), CBit)
               \o Flatten([i \in 1 .. Len(syms) |-> Coded(t, syms[i][1]) \o syms[i][2]])

(* A token is a character, or a match: its length and its position, the    *)
(* distance less one.                                                      *)
IsMatch(tok) == tok.length >= Threshold
CodeOf(tok) == IF IsMatch(tok) THEN Bytes - Threshold + tok.length ELSE tok.byte
PositionCode(p) == Least({j \in 0 .. NP : p < 2 ^ j})
TokenBits(b, tok) ==
    LET j == PositionCode(tok.position)
    IN Coded(b.c, CodeOf(tok))
          \o (IF ~IsMatch(tok) THEN <<>>
              ELSE Coded(b.p, j) \o (IF j < 2 THEN <<>>
                                     ELSE BitsOf(tok.position - 2 ^ (j - 1), j - 1)))

BlockBits(b) ==
    BitsOf(Len(b.tokens), W) \o PtRow(b.t, TBit, Special) \o CRow(b.c, b.t)
        \o PtRow(b.p, PBit, None)
        \o Flatten([i \in 1 .. Len(b.tokens) |-> TokenBits(b, b.tokens[i])])

FileBits(f) == Flatten([i \in 1 .. Len(f) |-> BlockBits(f[i])])

(* What the tokens say.                                                    *)
RECURSIVE CopyBack(_, _, _)
CopyBack(out, p, n) ==
    IF n = 0 THEN out
    ELSE CopyBack(Append(out, IF p < Len(out) THEN out[Len(out) - p] ELSE Space), p, n - 1)

RECURSIVE Said(_, _)
Said(out, tokens) ==
    IF tokens = <<>> THEN out
    ELSE Said(IF IsMatch(Head(tokens))
              THEN CopyBack(out, Head(tokens).position, Head(tokens).length)
              ELSE Append(out, Head(tokens).byte), Tail(tokens))

Contents(f) == Said(<<>>, Flatten([i \in 1 .. Len(f) |-> f[i].tokens]))
=============================================================================

------------------------------ MODULE LhStatic ------------------------------
(***************************************************************************)
(* The decoder of -lh4- to -lh7- and -lhx- entries (lh_lh5dec.c).  It keeps *)
(* a table for the first bits of each kind of code, and for the rest of     *)
(* longer ones a tree in two arrays that all kinds share.  The window of    *)
(* bits (bitbuf, subbitbuf, bitcount) is the place pos in the stream.  A    *)
(* step is one round of the loop of lh_decompress_lh_new.                   *)
(***************************************************************************)
EXTENDS StaticFormat

CONSTANT Files     \* what other programs have written, as sequences of blocks

VARIABLES
    file,     \* the blocks of the entry
    data,     \* what they say; outSize is its length
    stream,   \* inBuf, bit by bit
    dec       \* struct lh5_dec, with out, text and loc of lh_decompress_lh_new

vars == <<file, data, stream, dec>>

(* Behind the end of the data the decoder reads zeros.                     *)
Peek(d, n) == ValueOf([i \in 1 .. n |->
                 IF d.pos + i <= Len(stream) THEN stream[d.pos + i] ELSE 0])
lh5_fillbuf(d, n) == [d EXCEPT !.pos = @ + n]

-----------------------------------------------------------------------------
(* lh5_make_table.  A cell is <<name of the array, index>>.                *)

(* The first word with the code of s, in the order in which start[] counts.*)
Start(nchar, bitlen, s) ==
    LET count[k \in 1 .. W] == Cardinality({r \in 0 .. nchar - 1 : bitlen[r] = k})
        start[k \in 1 .. W] == IF k = 1 THEN 0 ELSE start[k - 1] + 2 ^ (W - k + 1) * count[k - 1]
    IN start[bitlen[s]]
          + 2 ^ (W - bitlen[s]) * Cardinality({r \in 0 .. s - 1 : bitlen[r] = bitlen[s]})

Total(nchar, bitlen) ==
    LET total[s \in 0 .. nchar] ==
            IF s = 0 THEN 0
            ELSE total[s - 1] + (IF bitlen[s - 1] = 0 THEN 0 ELSE 2 ^ (W - bitlen[s - 1]))
    IN total[nchar]

At(d, cell) == d[cell[1]][cell[2]]
Store(d, cell, n) == [d EXCEPT ![cell[1]][cell[2]] = n]

(* The rest of a long code, bit by bit: a cell with 0 gets a new node.     *)
RECURSIVE Dig(_, _, _, _)
Dig(d, cell, bitsLeft, s) ==
    IF bitsLeft = <<>> THEN Store(d, cell, s)
    ELSE LET new == At(d, cell) = 0
             n == IF new THEN d.avail ELSE At(d, cell)
             e == IF new THEN [Store(d, cell, n) EXCEPT !.left[n] = 0, !.right[n] = 0,
                                                        !.avail = @ + 1]
                  ELSE d
         IN Dig(e, <<IF Head(bitsLeft) = 1 THEN "right" ELSE "left", n>>,
                Tail(bitsLeft), s)

RECURSIVE DigAll(_, _, _, _, _, _)
DigAll(d, nchar, bitlen, tablebits, table, s) ==
    IF s = nchar THEN d
    ELSE LET w == Start(nchar, bitlen, s)
             rest == SubSeq(BitsOf(w, W), tablebits + 1, bitlen[s])
         IN DigAll(IF bitlen[s] <= tablebits THEN d
                   ELSE Dig(d, <<table, w \div 2 ^ (W - tablebits)>>, rest, s),
                   nchar, bitlen, tablebits, table, s + 1)

(* The short codes that cell i begins with.                                *)
ShortAt(nchar, bitlen, tablebits, i) ==
    {s \in 0 .. nchar - 1 :
        /\ bitlen[s] \in 1 .. tablebits
        /\ i \div 2 ^ (tablebits - bitlen[s])
              = Start(nchar, bitlen, s) \div 2 ^ (W - bitlen[s])}

(* Short codes own all cells that begin with them; the cells behind them   *)
(* are emptied, unless there are no short codes.                           *)
Shorts(d, nchar, bitlen, tablebits, table) ==
    LET none == \A s \in 0 .. nchar - 1 : bitlen[s] \notin 1 .. tablebits
    IN [d EXCEPT ![table] = [i \in DOMAIN @ |->
           LET short == ShortAt(nchar, bitlen, tablebits, i)
           IN IF short # {} THEN CHOOSE s \in short : TRUE
              ELSE IF none THEN @[i] ELSE 0]]

lh5_make_table(d, nchar, bitlen, tablebits, table) ==
    IF Total(nchar, bitlen) % 2 ^ W # 0 THEN d
    ELSE DigAll([Shorts(d, nchar, bitlen, tablebits, table) EXCEPT !.avail = nchar],
                nchar, bitlen, tablebits, table, 0)

(* The symbol of the code at the front, from a table and the tree below it.*)
RECURSIVE Below(_, _, _, _)
Below(d, n, nchar, i) ==
    IF n < nchar THEN n
    ELSE Below(d, IF Bit(Peek(d, i), 0) = 1 THEN d.right[n] ELSE d.left[n], nchar, i + 1)
Look(d, table, tablebits, nchar) ==
    Below(d, d[table][Peek(d, tablebits)], nchar, tablebits + 1)

-----------------------------------------------------------------------------
(* The rows of lengths.                                                    *)

Zeroed(len, i, n) == [s \in DOMAIN len |-> IF i <= s /\ s < i + n THEN 0 ELSE len[s]]

(* One length, and how many bits it takes.                                 *)
RECURSIVE Ones(_, _)
Ones(d, i) == IF Bit(Peek(d, i), 0) = 1 THEN 1 + Ones(d, i + 1) ELSE 0
PtLength(d) ==
    IF Peek(d, LenBits) < Escape THEN <<Peek(d, LenBits), LenBits>>
    ELSE LET c == Escape + Ones(d, LenBits + 1) IN <<c, LenBits + 1 + c - Escape>>

RECURSIVE PtLens(_, _, _, _, _)
PtLens(d, nn, n, i, i_special) ==
    IF i >= n THEN [d EXCEPT !.pt_len = Zeroed(@, i, nn - i)]
    ELSE LET read == PtLength(d)
             e == [lh5_fillbuf(d, read[2]) EXCEPT !.pt_len[i] = read[1]]
             c == Peek(e, 2)
         IN IF i + 1 = i_special
            THEN PtLens([lh5_fillbuf(e, 2) EXCEPT !.pt_len = Zeroed(@, i + 1, c)],
                        nn, n, i + 1 + c, i_special)
            ELSE PtLens(e, nn, n, i + 1, i_special)

(* Wrong on purpose: the run of zeros behind the third length is forgotten.*)
ReadPtLenPlain(d, nn, nbit, i_special) ==
    LET e == PtLens(lh5_fillbuf(d, nbit), nn, Peek(d, nbit), 0, None)
    IN lh5_make_table(e, nn, e.pt_len, PtTableBits, "pt_table")

lh5_read_pt_len(d, nn, nbit, i_special) ==
    LET n == Peek(d, nbit)
        d1 == lh5_fillbuf(d, nbit)
        only == Peek(d1, nbit)
        e == PtLens(d1, nn, n, 0, i_special)
    IN IF n = 0
       THEN [lh5_fillbuf(d1, nbit) EXCEPT !.pt_len = Zeroed(@, 0, nn),
                                          !.pt_table = [i \in DOMAIN @ |-> only]]
       ELSE lh5_make_table(e, nn, e.pt_len, PtTableBits, "pt_table")

RECURSIVE CLens(_, _, _)
CLens(d, n, i) ==
    IF i >= n THEN [d EXCEPT !.c_len = Zeroed(@, i, NC - i)]
    ELSE LET c == Look(d, "pt_table", PtTableBits, NT)
             e == lh5_fillbuf(d, d.pt_len[c])
             extra == CASE c = 1 -> RunBits [] c = 2 -> CBit [] OTHER -> 0
             zeros == CASE c = 1 -> Peek(e, RunBits) + RunBase
                        [] c = 2 -> Peek(e, CBit) + FarBase
                        [] OTHER -> 1
             f == lh5_fillbuf(e, extra)
         IN IF c <= 2 THEN CLens([f EXCEPT !.c_len = Zeroed(@, i, zeros)], n, i + zeros)
            ELSE CLens([f EXCEPT !.c_len[i] = c - 2], n, i + 1)

lh5_read_c_len(d) ==
    LET n == Peek(d, CBit)
        d1 == lh5_fillbuf(d, CBit)
        only == Peek(d1, CBit)
        e == CLens(d1, n, 0)
    IN IF n = 0
       THEN [lh5_fillbuf(d1, CBit) EXCEPT !.c_len = Zeroed(@, 0, NC),
                                          !.c_table = [i \in DOMAIN @ |-> only]]
       ELSE lh5_make_table(e, NC, e.c_len, CTableBits, "c_table")

-----------------------------------------------------------------------------
(* Decoding.                                                               *)

Block(d) ==
    IF d.blocksize > 0 THEN d
    ELSE lh5_read_pt_len(
            lh5_read_c_len(
               lh5_read_pt_len([lh5_fillbuf(d, W) EXCEPT !.blocksize = Peek(d, W)],
                               NT, TBit, Special)),
            NP, PBit, None)

(* lh5_decode_c and lh5_decode_p: the value, and the decoder behind it.    *)
lh5_decode_c(d) ==
    LET e == [Block(d) EXCEPT !.blocksize = @ - 1]
        j == Look(e, "c_table", CTableBits, NC)
    IN [value |-> j, d |-> lh5_fillbuf(e, e.c_len[j])]

lh5_decode_p(d) ==
    LET j == Look(d, "pt_table", PtTableBits, NP)
        e == lh5_fillbuf(d, d.pt_len[j])
    IN IF j = 0 THEN [value |-> 0, d |-> e]
       ELSE [value |-> (2 ^ (j - 1) + Peek(e, j - 1)) % 2 ^ W, d |-> lh5_fillbuf(e, j - 1)]

Put(d, b) == [d EXCEPT !.out = Append(@, b), !.text[d.loc] = b, !.loc = (@ + 1) % 2 ^ DicBit]

OutSize == Len(data)

RECURSIVE CopyFrom(_, _, _)
CopyFrom(d, i, n) ==
    IF n = 0 \/ Len(d.out) = OutSize THEN d
    ELSE CopyFrom(Put(d, d.text[i % 2 ^ DicBit]), i + 1, n - 1)

Literal ==
    /\ Len(dec.out) < OutSize
    /\ LET c == lh5_decode_c(dec)
       IN c.value < Bytes /\ dec' = Put(c.d, c.value)
    /\ UNCHANGED <<file, data, stream>>

Match ==
    /\ Len(dec.out) < OutSize
    /\ LET c == lh5_decode_c(dec)
           p == lh5_decode_p(c.d)
       IN /\ c.value >= Bytes
          /\ dec' = CopyFrom(p.d, (dec.loc - p.value - 1) % 2 ^ DicBit,
                             c.value - Bytes + Threshold)
    /\ UNCHANGED <<file, data, stream>>

lh_decompress_lh_new ==
    [pos |-> 0, blocksize |-> 0, avail |-> 0,
     left |-> [n \in 0 .. 2 * NC - 2 |-> 0], right |-> [n \in 0 .. 2 * NC - 2 |-> 0],
     c_len |-> [s \in 0 .. NC - 1 |-> 0], pt_len |-> [s \in 0 .. 2 ^ W - 1 |-> 0],
     c_table |-> [i \in 0 .. 2 ^ CTableBits - 1 |-> 0],
     pt_table |-> [i \in 0 .. 2 ^ PtTableBits - 1 |-> 0],
     out |-> <<>>, loc |-> 0, text |-> [i \in 0 .. 2 ^ DicBit - 1 |-> Space]]

Init ==
    /\ file \in Files
    /\ data = Contents(file)
    /\ stream = FileBits(file)
    /\ dec = lh_decompress_lh_new

Next == Literal \/ Match

Spec == Init /\ [][Next]_vars

-----------------------------------------------------------------------------
(* What comes out is what the tokens say, and no bit behind the last block *)
(* has been used.                                                          *)
ReadsBack ==
    /\ dec.out = SubSeq(data, 1, Len(dec.out))
    /\ dec.pos <= Len(stream)
=============================================================================

---------------------------- MODULE MCLhCodec ----------------------------
(* Two values of a byte.  Every input of up to Short bytes, and of Long     *)
(* bytes ones that repeat themselves and ones that do not: their strings go *)
(* round the ring of -lh5- in both passes, its farther distances lie behind *)
(* the table, and matches of -lzs- are longer than their bits.              *)
EXTENDS LhCodec

CONSTANTS Short, Long

MCRing == [lh5 |-> 8, lh6 |-> 16, lh7 |-> 8]
MCGood == [lh5 |-> 4, lh6 |-> 5, lh7 |-> 5]
MCLenCodes == [lh5 |-> 2, lh6 |-> 2, lh7 |-> 4]
Group(first, code, extra) == [first |-> first, code |-> code, share |-> 2 ^ extra, extra |-> extra]
MCDistGroups == [lh5 |-> {Group(0, 0, 0), Group(2, 2, 1), Group(4, 3, 2)},
                 lh6 |-> {Group(0, 0, 0), Group(2, 2, 1), Group(4, 3, 2), Group(12, 5, 3)}]
MCDistTable == [lh5 |-> 3, lh6 |-> 5, lh7 |-> 3]
MCLzWindow == [lzs |-> 8, lz5 |-> 16]
MCLzMax == [lzs |-> 8, lz5 |-> 5]
MCMargin == [lh5 |-> 8, lh6 |-> 8, lh7 |-> 8, lzs |-> 2, lz5 |-> 2, lh1 |-> 2, lh2 |-> 2]

Noise(seed, n) ==
    LET x[i \in 0 .. n] == IF i = 0 THEN seed ELSE (21 * x[i - 1] + 7) % 256
    IN [i \in 1 .. n |-> ((x[i] + seed) \div 32) % Bytes]
MCInputs ==
    UNION {[1 .. k -> 0 .. Bytes - 1] : k \in 1 .. Short}
        \cup {[i \in 1 .. Long |-> p[((i - 1) % Len(p)) + 1]] : p \in [1 .. 5 -> 0 .. Bytes - 1]}
        \cup {Noise(seed, Long) : seed \in 0 .. 63}
=============================================================================

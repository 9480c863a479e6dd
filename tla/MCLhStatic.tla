---------------------------- MODULE MCLhStatic ----------------------------
(* Words of five bits, six characters and match lengths: every complete row *)
(* of code lengths for them, and every complete row for the positions, each *)
(* in a block of its own before one whose codes are as long as they get.    *)
EXTENDS LhStatic

Complete(n) ==
    LET weight(l) == IF l = 0 THEN 0 ELSE 2 ^ (W - l)
        sum[i \in 0 .. n] ==       \* the rows of i lengths, with their weights
            IF i = 0 THEN {<<<<>>, 0>>}
            ELSE {r \in {<<Append(q[1], l), q[2] + weight(l)>> : q \in sum[i - 1], l \in 0 .. W} :
                     r[2] <= 2 ^ W}
    IN {[s \in 0 .. n - 1 |-> r[1][s + 1]] : r \in {r \in sum[n] : r[2] = 2 ^ W}}
Rows(n) ==
    {[only |-> None, len |-> len] : len \in Complete(n)}
        \cup {[only |-> s, len |-> [r \in 0 .. n - 1 |-> 0]] : s \in 0 .. n - 1}

(* Codes of 1, 2, ..., n - 1, n - 1 bits for the members of S, going up or  *)
(* down.                                                                    *)
Unary(S, up, n) ==
    LET rank(s) == 1 + Cardinality({r \in S : IF up THEN r < s ELSE r > s})
        most == Cardinality(S) - 1
    IN IF most = 0 THEN [only |-> CHOOSE s \in S : TRUE, len |-> [s \in 0 .. n - 1 |-> 0]]
       ELSE [only |-> None,
             len |-> [s \in 0 .. n - 1 |->
                        IF s \notin S THEN 0 ELSE IF rank(s) > most THEN most ELSE rank(s)]]

LengthCodes(row, up) ==
    LET used == {Symbols(row, 0)[i][1] : i \in 1 .. Len(Symbols(row, 0))}
    IN Unary(IF HasOnly(row) THEN {0} ELSE used, up, NT)

Nth(S, i) == CHOOSE s \in S : Cardinality({r \in S : r < s}) = i % Cardinality(S)

(* Each code of the block once, with a position for each match: the lowest  *)
(* or the highest that its code stands for.                                 *)
TokensFor(c, p) ==
    LET k == Cardinality(CodedBy(c)) + Cardinality(CodedBy(p))
        position(j, i) == IF j = 0 THEN 0 ELSE IF i % 2 = 0 THEN 2 ^ (j - 1) ELSE 2 ^ j - 1
    IN [i \in 1 .. k |->
          LET s == Nth(CodedBy(c), i)
          IN IF s < Bytes THEN [length |-> 0, byte |-> s, position |-> 0]
             ELSE [length |-> s - Bytes + Threshold, byte |-> 0,
                   position |-> position(Nth(CodedBy(p), i), i \div 2)]]

BlockOf(c, p, up) == [t |-> LengthCodes(c, up), c |-> c, p |-> p, tokens |-> TokensFor(c, p)]

LongC == Unary(0 .. NC - 1, TRUE, NC)
LongP == Unary(0 .. NP - 1, FALSE, NP)
Last == BlockOf(LongC, LongP, TRUE)

MCFiles ==
    {<<BlockOf(c, LongP, c.len[1] > 2), Last>> : c \in Rows(NC)}
        \cup {<<Last, BlockOf(LongC, p, TRUE), Last>> : p \in Rows(NP)}
=============================================================================

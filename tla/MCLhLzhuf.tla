---------------------------- MODULE MCLhLzhuf ----------------------------
(* Two values of a byte, matches of three to five of them, a window of      *)
(* thirty-two: every input of up to Short bytes, and of Long bytes ones     *)
(* that repeat themselves, that nearly do, and that do not, all of them     *)
(* going round the window twice.                                            *)
EXTENDS LhLzhuf

CONSTANTS Short, Long

AllOf(n) == UNION {[1 .. k -> 0 .. Bytes - 1] : k \in 1 .. n}
Periodic(p, n) == [i \in 1 .. n |-> p[((i - 1) % Len(p)) + 1]]

(* The upper bits of a linear congruential generator.                       *)
Noise(seed, n) ==
    LET x[i \in 0 .. n] == IF i = 0 THEN seed ELSE (21 * x[i - 1] + 7) % 256
    IN [i \in 1 .. n |-> ((x[i] + seed) \div 32) % Bytes]

MCInputs ==
    AllOf(Short)
        \cup {Periodic(p, Long) : p \in [1 .. 7 -> 0 .. Bytes - 1]}
        \cup {Periodic(p, 9) \o Periodic(q, Long - 9) :
                p \in [1 .. 3 -> 0 .. Bytes - 1], q \in [1 .. 4 -> 0 .. Bytes - 1]}
        \cup {Noise(seed, Long) : seed \in 0 .. 127}
MCRuns == <<2, 2, 4>>
=============================================================================

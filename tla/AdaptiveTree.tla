---------------------------- MODULE AdaptiveTree ----------------------------
(***************************************************************************)
(* The adaptive Huffman trees of the LHA engine: the one LhEncode and       *)
(* LhDecode share (lh_lzhuf.c) and the one that reads -lh1- entries of      *)
(* archives (lh_lh1dec.c).  Both are arrays of nodes in which siblings are  *)
(* neighbours, ordered by frequency: the first upwards, with a search for   *)
(* the end of a block of equal frequencies; the second downwards, with      *)
(* numbered groups of equal frequency that each know their first node.      *)
(***************************************************************************)
EXTENDS Integers, Sequences

CONSTANTS
    NumCodes,   \* LHZ_N_CHAR, LH1_NUM_CODES: characters and match lengths
    MaxFreq     \* LHZ_MAX_FREQ, LH1_TREE_REORDER: frequencies are halved here

ASSUME TreeAssumption ==
    /\ NumCodes \in Nat /\ NumCodes > 1
    /\ MaxFreq \in Nat /\ MaxFreq > NumCodes

Codes == 0 .. NumCodes - 1
T == 2 * NumCodes - 1          \* LHZ_T, LH1_NUM_TREE_NODES
R == T - 1                     \* LHZ_R: the root of the first tree
Nodes == 0 .. R
Infinity == 65535

Halved(f) == (f + 1) \div 2

-----------------------------------------------------------------------------
(* lh_lzhuf.c: freq, son and prnt.  son[i] >= T is the leaf of a code, and *)
(* otherwise son[i] and son[i] + 1 are the children of i.                  *)

lhz_start_huff ==
    LET freq[i \in 0 .. T] ==
            IF i = T THEN Infinity
            ELSE IF i < NumCodes THEN 1
            ELSE freq[2 * (i - NumCodes)] + freq[2 * (i - NumCodes) + 1]
    IN [freq |-> freq,
        son  |-> [i \in Nodes |-> IF i < NumCodes THEN i + T ELSE 2 * (i - NumCodes)],
        prnt |-> [i \in 0 .. T + NumCodes - 1 |->
                    IF i >= T THEN i - T ELSE IF i = R THEN 0 ELSE NumCodes + (i \div 2)]]

(* The nodes whose parent is set when son s moves.                         *)
Sons(s) == IF s < T THEN {s, s + 1} ELSE {s}

Parents(son) == [k \in 0 .. T + NumCodes - 1 |->
    IF k = R THEN 0 ELSE CHOOSE i \in Nodes : k \in Sons(son[i])]

(* The leaves keep their order with halved frequencies; the inner nodes    *)
(* are made again from pairs and each put behind the last one not above it.*)
RECURSIVE PutInner(_, _)
PutInner(row, j) ==
    IF j = T THEN row
    ELSE LET i == 2 * (j - NumCodes)
             f == row[i + 1].freq + row[i + 2].freq
             k == CHOOSE k \in 0 .. j : /\ \A m \in k .. j - 1 : row[m + 1].freq > f
                                        /\ k > 0 => row[k].freq <= f
         IN PutInner(SubSeq(row, 1, k) \o <<[freq |-> f, son |-> i]>>
                        \o SubSeq(row, k + 1, j), j + 1)

lhz_reconst(t) ==
    LET row == [i \in 1 .. T |-> [freq |-> Halved(t.freq[i - 1]), son |-> t.son[i - 1]]]
        new == PutInner(SelectSeq(row, LAMBDA n : n.son >= T), NumCodes)
        son == [i \in Nodes |-> new[i + 1].son]
    IN [freq |-> [i \in 0 .. T |-> IF i = T THEN Infinity ELSE new[i + 1].freq],
        son  |-> son,
        prnt |-> Parents(son)]

(* Where node c goes when its frequency becomes k: behind the others of    *)
(* its old frequency.                                                      *)
PlaceFor(t, c, k) ==
    CHOOSE l \in c .. R : t.freq[l + 1] >= k /\ \A m \in c + 1 .. l : t.freq[m] < k

Swapped(t, c, l) ==
    LET k == t.freq[c] + 1
    IN [freq |-> [[t.freq EXCEPT ![c] = t.freq[l]] EXCEPT ![l] = k],
        son  |-> [t.son EXCEPT ![c] = t.son[l], ![l] = t.son[c]],
        prnt |-> [n \in DOMAIN t.prnt |->
                    IF l # c /\ n \in Sons(t.son[l]) THEN c
                    ELSE IF l # c /\ n \in Sons(t.son[c]) THEN l ELSE t.prnt[n]]]

RECURSIVE Climb(_, _)
Climb(t, c) ==
    LET l == PlaceFor(t, c, t.freq[c] + 1)
        u == Swapped(t, c, l)
    IN IF u.prnt[l] = 0 THEN u ELSE Climb(u, u.prnt[l])

lhz_update(t, code) ==
    LET u == IF t.freq[R] = MaxFreq THEN lhz_reconst(t) ELSE t
    IN Climb(u, u.prnt[code + T])

(* lhz_encode_char goes up from the leaf: an odd node is a second child.   *)
RECURSIVE PathUp(_, _)
PathUp(t, k) == IF k = R THEN <<>> ELSE Append(PathUp(t, t.prnt[k]), k % 2)
CodeBits(t, code) == PathUp(t, t.prnt[code + T])

-----------------------------------------------------------------------------
(* lh_lh1dec.c: nodes with leaf, child (child_index), parent, freq and     *)
(* group; the leaf of each code; the first node of each group; and the     *)
(* group numbers, of which those from num on are free.                     *)

lh1_alloc_group(d) == d.groups[d.num]
Allocated(d) == [d EXCEPT !.num = @ + 1]
lh1_free_group(d, g) == [d EXCEPT !.num = @ - 1, !.groups[d.num - 1] = g]

Renumbered(d) == [d EXCEPT !.groups = [i \in Nodes |-> i], !.num = 0]

(* lh1_init_tree from node i down to the root: inner nodes over pairs.     *)
RECURSIVE InitInner(_, _, _)
InitInner(d, i, child) ==
    IF i < 0 THEN d
    ELSE LET f == d.freq[child] + d.freq[child - 1]
             same == f = d.freq[i + 1]
             g == IF same THEN d.group[i + 1] ELSE lh1_alloc_group(d)
             e == IF same THEN d ELSE Allocated(d)
         IN InitInner([e EXCEPT !.leaf[i] = FALSE, !.child[i] = child, !.freq[i] = f,
                                !.parent[child] = i, !.parent[child - 1] = i,
                                !.group[i] = g, !.leader[g] = i],
                      i - 1, child - 2)

lh1_init_tree ==
    LET zero == [i \in Nodes |-> 0]
        d == [leaf |-> [i \in Nodes |-> i >= NumCodes - 1],
              child |-> [i \in Nodes |-> IF i >= NumCodes - 1 THEN R - i ELSE 0],
              parent |-> zero,
              freq |-> [i \in Nodes |-> IF i >= NumCodes - 1 THEN 1 ELSE 0],
              group |-> zero,
              leafNode |-> [c \in Codes |-> R - c],
              leader |-> [zero EXCEPT ![0] = NumCodes - 1],
              groups |-> [i \in Nodes |-> i],
              num |-> 1]
    IN InitInner(d, NumCodes - 2, R)

(* What node i refers to is told that it is at i.                          *)
Told(d, i) ==
    IF d.leaf[i] THEN [d EXCEPT !.leafNode[d.child[i]] = i]
    ELSE [d EXCEPT !.parent[d.child[i]] = i, !.parent[d.child[i] - 1] = i]

lh1_make_group_leader(d, i) ==
    LET l == d.leader[d.group[i]]
        e == [d EXCEPT !.leaf[i] = d.leaf[l], !.leaf[l] = d.leaf[i],
                       !.child[i] = d.child[l], !.child[l] = d.child[i]]
    IN IF l = i THEN d ELSE Told(Told(e, i), l)

(* Wrong on purpose: the group goes on with its old first node.            *)
IncrementKeepsLeader(d, i) ==
    LET f == d.freq[i] + 1
        e == [d EXCEPT !.freq[i] = f]
    IN IF f = d.freq[i - 1] THEN [e EXCEPT !.group[i] = d.group[i - 1]]
       ELSE [Allocated(e) EXCEPT !.group[i] = lh1_alloc_group(d),
                                 !.leader[lh1_alloc_group(d)] = i]

lh1_increment_node_freq(d, i) ==
    LET f == d.freq[i] + 1
        g == d.group[i]
        joins == f = d.freq[i - 1]
        e == [d EXCEPT !.freq[i] = f]
    IN IF i < R /\ g = d.group[i + 1]
       THEN LET h == [e EXCEPT !.leader[g] = @ + 1] IN
            IF joins THEN [h EXCEPT !.group[i] = d.group[i - 1]]
            ELSE [Allocated(h) EXCEPT !.group[i] = lh1_alloc_group(h),
                                      !.leader[lh1_alloc_group(h)] = i]
       ELSE IF joins THEN [lh1_free_group(e, g) EXCEPT !.group[i] = d.group[i - 1]] ELSE e

(* lh1_reconstruct_tree from the last node down: leaves (of which the last *)
(* k are left) before inner nodes of the same frequency.                   *)
RECURSIVE Rebuild(_, _, _, _, _)
Rebuild(d, leaves, k, i, child) ==
    IF i < 0 THEN d
    ELSE LET f == d.freq[child] + d.freq[child - 1]
         IN IF child - i < 2 \/ (k > 0 /\ f >= leaves[k].freq)
            THEN Rebuild([d EXCEPT !.leaf[i] = TRUE, !.child[i] = leaves[k].code,
                                   !.freq[i] = leaves[k].freq,
                                   !.leafNode[leaves[k].code] = i],
                         leaves, k - 1, i - 1, child)
            ELSE Rebuild([d EXCEPT !.leaf[i] = FALSE, !.child[i] = child, !.freq[i] = f,
                                   !.parent[child] = i, !.parent[child - 1] = i],
                         leaves, k, i - 1, child - 2)

RECURSIVE Regroup(_, _)
Regroup(d, i) ==
    IF i = T THEN d
    ELSE IF d.freq[i] = d.freq[i - 1]
         THEN Regroup([d EXCEPT !.group[i] = d.group[i - 1]], i + 1)
         ELSE Regroup([Allocated(d) EXCEPT !.group[i] = lh1_alloc_group(d),
                                           !.leader[lh1_alloc_group(d)] = i], i + 1)

lh1_reconstruct_tree(d) ==
    LET row == [i \in 1 .. T |-> [leaf |-> d.leaf[i - 1], code |-> d.child[i - 1],
                                  freq |-> Halved(d.freq[i - 1])]]
        new == Renumbered(Rebuild(d, SelectSeq(row, LAMBDA n : n.leaf), NumCodes, R, R))
    IN Regroup([Allocated(new) EXCEPT !.group[0] = 0, !.leader[0] = 0], 1)

RECURSIVE ClimbGroups(_, _)
ClimbGroups(d, i) ==
    IF i = 0 THEN d
    ELSE LET l == d.leader[d.group[i]]
             e == lh1_increment_node_freq(lh1_make_group_leader(d, i), l)
         IN ClimbGroups(e, e.parent[l])

lh1_increment_for_code(d, code) ==
    LET e == IF d.freq[0] >= MaxFreq THEN lh1_reconstruct_tree(d) ELSE d
    IN ClimbGroups([e EXCEPT !.freq[0] = @ + 1], e.leafNode[code])

-----------------------------------------------------------------------------
(* What both keep.                                                         *)

(* The first tree: neighbours in order of frequency, an inner node as      *)
(* frequent as its two children together, and son and prnt inverse.        *)
OrderedTree(t) ==
    /\ \A i \in 0 .. R : t.freq[i] <= t.freq[i + 1]
    /\ \A i \in Nodes : t.son[i] < T =>
          /\ t.son[i] % 2 = 0 /\ t.son[i] + 1 < i
          /\ t.freq[i] = t.freq[t.son[i]] + t.freq[t.son[i] + 1]
    /\ \A k \in (0 .. T + NumCodes - 1) \ {R} : k \in Sons(t.son[t.prnt[k]])

(* The groups of the second tree are its frequencies, each knows its first *)
(* node, and the free numbers are the ones that no node has.               *)
GroupsMatch(d) ==
    /\ \A i, j \in Nodes : d.group[i] = d.group[j] <=> d.freq[i] = d.freq[j]
    /\ \A i \in Nodes : d.leader[d.group[i]] =
          CHOOSE l \in Nodes : d.freq[l] = d.freq[i] /\ (l > 0 => d.freq[l - 1] # d.freq[i])
    /\ {d.groups[n] : n \in d.num .. R} = Nodes \ {d.group[i] : i \in Nodes}
    /\ \A m, n \in d.num .. R : d.groups[m] = d.groups[n] => m = n

(* The second tree is the first one read from the other end.               *)
Mirrors(d, t) ==
    \A i \in Nodes :
        /\ d.freq[i] = t.freq[R - i]
        /\ d.leaf[i] <=> t.son[R - i] >= T
        /\ d.child[i] = IF d.leaf[i] THEN t.son[R - i] - T ELSE R - t.son[R - i]
=============================================================================

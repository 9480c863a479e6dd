------------------------------ MODULE LhLzhuf ------------------------------
(***************************************************************************)
(* LhEncode and LhDecode of lh.library (lh_lzhuf.c) and the decoder of      *)
(* -lh1- entries (lh_lh1dec.c), which reads the same bits: a window of the  *)
(* last RingSize bytes, a binary search tree over the strings in it, and    *)
(* adaptive Huffman codes for characters and match lengths.  A step is one  *)
(* round of the loop of lh_lzhuf_encode, or one code of a decoder.          *)
(***************************************************************************)
EXTENDS AdaptiveTree

CONSTANTS
    RingSize,    \* LHZ_N, LH1_RING_SIZE
    MaxMatch,    \* LHZ_F: the bytes looked ahead at
    Threshold,   \* LHZ_THRESHOLD: matches are longer than this
    Bytes,       \* the values of a byte, 0 .. Bytes - 1
    Space,       \* the byte that windows begin with
    OffsetRuns,  \* lh1_offset_fdist: how many upper offsets have each length
    MinOffsetLen, \* LH1_MIN_OFFSET_LEN: the shortest of their codes
    LowBits,     \* the lower bits of an offset, which are sent as they are
    Inputs       \* what is encoded

MaxOffsetLen == MinOffsetLen + Len(OffsetRuns) - 1

ASSUME LzhufAssumption ==
    /\ NumCodes = Bytes - Threshold + MaxMatch
    /\ RingSize >= 2 * MaxMatch
    /\ Space \in 0 .. Bytes - 1
    /\ MinOffsetLen + LowBits >= MaxOffsetLen
    /\ Inputs \subseteq Seq(0 .. Bytes - 1) \ {<<>>}

VARIABLES
    input,    \* lh_Src
    enc,      \* the encoder: struct lh_lzhuf_enc and the locals of its loop
    bits,     \* lh_Dst of the encoder
    dec,      \* lh_lzhuf_decode
    dec1      \* lh_decompress_lh1

vars == <<input, enc, bits, dec, dec1>>

NIL == RingSize                  \* LHZ_NIL
Ring == 0 .. RingSize - 1
Undefined == -1                  \* what nobody has written
Wrap(i) == i % RingSize

-----------------------------------------------------------------------------
(* The search tree of the encoder.  lson, rson and dad of the positions,   *)
(* and at RingSize + 1 + b the root of the strings that begin with byte b. *)

NoMatch == [length |-> 0, position |-> 0]

(* Characters that the strings at r and p share: the first, which chose    *)
(* the root, and what follows.                                             *)
Shared(text, r, p) ==
    CHOOSE i \in 1 .. MaxMatch :
        /\ \A j \in 1 .. i - 1 : text[r + j] = text[p + j]
        /\ i < MaxMatch => text[r + i] # text[p + i]

Distance(r, p) == Wrap(r - p) - 1

BetterMatch(m, i, r, p) ==
    IF i <= Threshold THEN m
    ELSE IF i > m.length THEN [length |-> i, position |-> Distance(r, p)]
    ELSE IF i = m.length /\ Distance(r, p) < m.position
         THEN [m EXCEPT !.position = Distance(r, p)] ELSE m

(* Node q is where p was below its dad, and p is out of the tree.          *)
Linked(e, p, q) ==
    LET d == e.dad[p]
    IN IF e.rson[d] = p THEN [e EXCEPT !.rson[d] = q, !.dad[p] = NIL]
       ELSE [e EXCEPT !.lson[d] = q, !.dad[p] = NIL]

(* A string that is wholly the same is replaced by the newer one.          *)
Replace(e, r, p) ==
    LET f == [e EXCEPT !.dad[r] = e.dad[p], !.lson[r] = e.lson[p], !.rson[r] = e.rson[p]]
    IN Linked([f EXCEPT !.dad[e.lson[p]] = r, !.dad[e.rson[p]] = r], p, r)

RECURSIVE Search(_, _, _, _)
Search(e, r, p, up) ==
    LET next == IF up THEN e.rson[p] ELSE e.lson[p]
    IN IF next = NIL
       THEN IF up THEN [e EXCEPT !.rson[p] = r, !.dad[r] = p]
            ELSE [e EXCEPT !.lson[p] = r, !.dad[r] = p]
       ELSE LET i == Shared(e.text, r, next)
                f == [e EXCEPT !.match = BetterMatch(e.match, i, r, next)]
            IN IF i = MaxMatch THEN Replace(f, r, next)
               ELSE Search(f, r, next, e.text[r + i] >= e.text[next + i])

lhz_insert_node(e, r) ==
    Search([e EXCEPT !.rson[r] = NIL, !.lson[r] = NIL, !.match = NoMatch],
           r, RingSize + 1 + e.text[r], TRUE)

RECURSIVE Rightmost(_, _)
Rightmost(e, q) == IF e.rson[q] = NIL THEN q ELSE Rightmost(e, e.rson[q])

(* Node q, the last before p, gives its place to its left children and     *)
(* takes those of p.                                                       *)
Unhooked(e, q) == [e EXCEPT !.rson[e.dad[q]] = e.lson[q], !.dad[e.lson[q]] = e.dad[q]]
TakeLeft(e, p, q) == [e EXCEPT !.lson[q] = e.lson[p], !.dad[e.lson[p]] = q]
TakeRight(e, p, q) == [e EXCEPT !.rson[q] = e.rson[p], !.dad[e.rson[p]] = q]

(* Wrong on purpose: the left children of the node that moves are lost.    *)
SuccessorForgets(e, p) ==
    LET q == Rightmost(e, e.lson[p])
    IN IF e.rson[p] = NIL THEN <<e.lson[p], e>>
       ELSE IF e.lson[p] = NIL THEN <<e.rson[p], e>>
       ELSE <<q, TakeRight(IF q = e.lson[p] THEN e
                           ELSE TakeLeft([e EXCEPT !.rson[e.dad[q]] = NIL], p, q), p, q)>>

(* The node that takes the place of p, and the tree with its links changed.*)
Successor(e, p) ==
    LET q == Rightmost(e, e.lson[p])
    IN IF e.rson[p] = NIL THEN <<e.lson[p], e>>
       ELSE IF e.lson[p] = NIL THEN <<e.rson[p], e>>
       ELSE <<q, TakeRight(IF q = e.lson[p] THEN e ELSE TakeLeft(Unhooked(e, q), p, q), p, q)>>

Moved(found, p) ==
    Linked([found[2] EXCEPT !.dad[found[1]] = found[2].dad[p]], p, found[1])
lhz_delete_node(e, p) == IF e.dad[p] = NIL THEN e ELSE Moved(Successor(e, p), p)

-----------------------------------------------------------------------------
(* The encoder.                                                            *)

Least(a, b) == IF a < b THEN a ELSE b

RECURSIVE InsertAll(_, _, _)
InsertAll(e, r, i) ==
    IF i > MaxMatch THEN lhz_insert_node(e, r)
    ELSE InsertAll(lhz_insert_node(e, r - i), r, i + 1)

(* What lh_lzhuf_encode does before its loop: memset, spaces, the first    *)
(* bytes, and the strings of spaces before them.                           *)
Encoder(src) ==
    LET r == RingSize - MaxMatch
        len == Least(MaxMatch, Len(src))
        none == [i \in 0 .. RingSize + Bytes |-> IF i > RingSize THEN NIL ELSE 0]
    IN InsertAll([tree |-> lhz_start_huff,
                  text |-> [i \in 0 .. RingSize + MaxMatch - 2 |->
                              IF i < r THEN Space
                              ELSE IF i < r + len THEN src[i - r + 1] ELSE 0],
                  lson |-> none, rson |-> none,
                  dad |-> [i \in 0 .. RingSize + Bytes |-> IF i < RingSize THEN NIL ELSE 0],
                  match |-> NoMatch,
                  s |-> 0, r |-> r, len |-> len, offset |-> len], r, 1)

(* Wrong on purpose: the copy behind the end of the window is not kept.    *)
RefillOnce(e) ==
    LET f == lhz_delete_node(e, e.s)
        g == [f EXCEPT !.text[e.s] = input[e.offset + 1]]
    IN lhz_insert_node([g EXCEPT !.offset = @ + 1, !.s = Wrap(@ + 1), !.r = Wrap(@ + 1)],
                       Wrap(e.r + 1))

(* One more byte enters the window at s, whose string leaves the tree.     *)
Refill(e) ==
    LET c == input[e.offset + 1]
        f == lhz_delete_node(e, e.s)
        g == [f EXCEPT !.text = [i \in DOMAIN @ |->
                 IF i = e.s \/ (e.s < MaxMatch - 1 /\ i = e.s + RingSize) THEN c ELSE @[i]]]
    IN lhz_insert_node([g EXCEPT !.offset = @ + 1, !.s = Wrap(@ + 1), !.r = Wrap(@ + 1)],
                       Wrap(e.r + 1))

(* No bytes are left: there is less and less to look ahead at.             *)
Ahead(e) == IF e.len > 0 THEN lhz_insert_node(e, e.r) ELSE e
Shrink(e) ==
    Ahead([lhz_delete_node(e, e.s) EXCEPT !.s = Wrap(@ + 1), !.r = Wrap(@ + 1), !.len = @ - 1])

RECURSIVE Advance(_, _)
Advance(e, n) ==
    IF n = 0 THEN e
    ELSE Advance(IF e.offset < Len(input) THEN Refill(e) ELSE Shrink(e), n - 1)

(* The codes of the upper bits of offsets: OffsetRuns[1] codes of          *)
(* MinOffsetLen bits, then OffsetRuns[2] of one bit more, counting up.     *)
(* lhz_p_len, lhz_p_code, lhz_d_len and lhz_d_code hold the same codes.    *)
RunOf(u) == CHOOSE n \in 1 .. Len(OffsetRuns) :
    LET before[i \in 0 .. Len(OffsetRuns)] ==
            IF i = 0 THEN 0 ELSE before[i - 1] + OffsetRuns[i]
    IN before[n - 1] <= u /\ u < before[n]
OffsetLen(u) == MinOffsetLen + RunOf(u) - 1
OffsetCode(u) ==
    LET code[i \in 0 .. u] == IF i = 0 THEN 0 ELSE code[i - 1] + 2 ^ (MaxOffsetLen - OffsetLen(i - 1))
    IN code[u]
Uppers == 0 .. (RingSize \div 2 ^ LowBits) - 1
OffsetOf(code) == CHOOSE u \in Uppers :
    OffsetCode(u) <= code /\ code < OffsetCode(u) + 2 ^ (MaxOffsetLen - OffsetLen(u))

Bit(n, i) == (n \div 2 ^ i) % 2
BitsOf(n, len) == [i \in 1 .. len |-> Bit(n, len - i)]

lhz_encode_position(c) ==
    LET u == c \div 2 ^ LowBits
    IN SubSeq(BitsOf(OffsetCode(u), MaxOffsetLen), 1, OffsetLen(u))
          \o BitsOf(c % 2 ^ LowBits, LowBits)

Padded(b) == b \o [i \in 1 .. (-Len(b)) % 8 |-> 0]

EncoderRuns == enc.len > 0

EncodeStep ==
    /\ EncoderRuns
    /\ LET length == Least(enc.match.length, enc.len)
           one == length <= Threshold
           code == IF one THEN enc.text[enc.r] ELSE Bytes - 1 - Threshold + length
           sent == bits \o CodeBits(enc.tree, code)
                        \o (IF one THEN <<>> ELSE lhz_encode_position(enc.match.position))
           next == Advance([enc EXCEPT !.tree = lhz_update(@, code)], IF one THEN 1 ELSE length)
       IN /\ enc' = next
          /\ bits' = IF next.len > 0 THEN sent ELSE Padded(sent)
    /\ UNCHANGED <<input, dec, dec1>>

-----------------------------------------------------------------------------
(* The decoders.  pos: bits read so far; behind the last one the first     *)
(* decoder reads zeros, and the second one gives up.                       *)

At(n) == IF n <= Len(bits) THEN bits[n] ELSE 0
ValueAt(pos, n) ==
    LET v[i \in 0 .. n] == IF i = 0 THEN 0 ELSE 2 * v[i - 1] + At(pos + i) IN v[n]

RECURSIVE WalkDown(_, _, _)
WalkDown(t, c, pos) ==
    IF c >= T THEN <<c - T, pos>> ELSE WalkDown(t, t.son[c + At(pos + 1)], pos + 1)

(* lhz_decode_position reads as many bits at once as the longest code has, *)
(* and then the rest.                                                      *)
lhz_decode_position(pos) ==
    LET u == OffsetOf(ValueAt(pos, MaxOffsetLen))
    IN <<(u * 2 ^ LowBits) + (ValueAt(pos, OffsetLen(u) + LowBits) % 2 ^ LowBits),
         pos + OffsetLen(u) + LowBits>>

(* One byte goes to the output and into the window.                        *)
Put(d, b) == [d EXCEPT !.out = Append(@, b), !.text[d.r] = b, !.r = Wrap(@ + 1)]

RECURSIVE CopyFrom(_, _, _)
CopyFrom(d, i, n) ==
    IF n = 0 \/ Len(d.out) = Len(input) THEN d
    ELSE CopyFrom(Put(d, d.text[Wrap(i)]), i + 1, n - 1)

LengthOf(code) == code - (Bytes - 1) + Threshold

Decode ==
    /\ ~EncoderRuns /\ Len(dec.out) < Len(input) /\ Len(dec.out) <= Len(dec1.out)
    /\ LET read == WalkDown(dec.tree, dec.tree.son[R], dec.pos)
           code == read[1]
           d == [dec EXCEPT !.tree = lhz_update(@, code), !.pos = read[2]]
           where == lhz_decode_position(read[2])
       IN dec' = IF code < Bytes THEN Put(d, code)
                 ELSE CopyFrom([d EXCEPT !.pos = where[2]],
                               Wrap(dec.r - where[1] - 1), LengthOf(code))
    /\ UNCHANGED <<input, enc, bits, dec1>>

RECURSIVE WalkNodes(_, _, _)
WalkNodes(t, i, pos) ==
    IF t.leaf[i] THEN <<t.child[i], pos>>
    ELSE IF pos = Len(bits) THEN <<Undefined, pos>>
    ELSE WalkNodes(t, t.child[i] - bits[pos + 1], pos + 1)

(* Bits are read by whole bytes: so many are at hand behind pos.           *)
AtHand(pos) == Len(bits) - pos

lh1_read_offset(pos) ==
    LET u == OffsetOf(ValueAt(pos, MaxOffsetLen))
    IN <<(u * 2 ^ LowBits) + ValueAt(pos + OffsetLen(u), LowBits), pos + OffsetLen(u) + LowBits>>

DecodeLh1 ==
    /\ ~EncoderRuns /\ Len(dec1.out) < Len(dec.out) /\ ~dec1.failed
    /\ LET read == WalkNodes(dec1.tree, 0, dec1.pos)
           code == read[1]
           where == lh1_read_offset(read[2])
           d == [dec1 EXCEPT !.tree = lh1_increment_for_code(@, code), !.pos = read[2]]
       IN dec1' = IF code = Undefined THEN [dec1 EXCEPT !.failed = TRUE]
                  ELSE IF code < Bytes THEN Put(d, code)
                  ELSE IF AtHand(read[2]) < MaxOffsetLen \/ AtHand(where[2]) < 0
                       THEN [dec1 EXCEPT !.failed = TRUE]
                  ELSE CopyFrom([d EXCEPT !.pos = where[2]],
                                dec1.r - where[1] + RingSize - 1, LengthOf(code))
    /\ UNCHANGED <<input, enc, bits, dec>>

-----------------------------------------------------------------------------
(* The window of lh_lzhuf_decode is written up to where it begins; the one *)
(* of lh_decompress_lh1 is all spaces.                                     *)
Init ==
    /\ input \in Inputs
    /\ enc = Encoder(input)
    /\ bits = <<>>
    /\ dec = [tree |-> lhz_start_huff, pos |-> 0, out |-> <<>>, r |-> RingSize - MaxMatch,
              text |-> [i \in Ring |-> IF i < RingSize - MaxMatch THEN Space ELSE Undefined]]
    /\ dec1 = [tree |-> lh1_init_tree, pos |-> 0, out |-> <<>>, r |-> 0, failed |-> FALSE,
               text |-> [i \in Ring |-> Space]]

Next == EncodeStep \/ Decode \/ DecodeLh1

Spec == Init /\ [][Next]_vars

-----------------------------------------------------------------------------
(* What LhEncode writes, LhDecode and the -lh1- decoder read back: byte    *)
(* for byte as far as they are, and to the end.  The second decoder, which *)
(* takes no bits behind the end, finds enough of them.                     *)
ReadsBack ==
    /\ dec.out = SubSeq(input, 1, Len(dec.out))
    /\ dec1.out = SubSeq(input, 1, Len(dec1.out))
    /\ ~dec1.failed

(* The two decoders build the same tree, with different means: node i of   *)
(* one is node R - i of the other after every code, also when frequencies  *)
(* are halved, and the groups of the second are the frequencies.           *)
TreesAgree ==
    /\ OrderedTree(dec.tree)
    /\ GroupsMatch(dec1.tree)
    /\ Len(dec.out) = Len(dec1.out) => Mirrors(dec1.tree, dec.tree)

(* The walk down one path of the search tree has found the longest match   *)
(* in the whole window, and where it is: no string got lost when others    *)
(* were deleted or replaced.                                               *)
Window == {Wrap(enc.r - n) : n \in 1 .. Least(RingSize - MaxMatch,
                                              MaxMatch + enc.offset - enc.len)}
SharedWith(p) ==
    IF enc.text[p] = enc.text[enc.r] THEN Shared(enc.text, enc.r, p) ELSE 0
LongestMatch ==
    EncoderRuns =>
        /\ \A p \in Window : SharedWith(p) > Threshold => SharedWith(p) <= enc.match.length
        /\ enc.match.length > 0 =>
             LET p == Wrap(enc.r - enc.match.position - 1)
             IN p \in Window /\ SharedWith(p) = enc.match.length
=============================================================================

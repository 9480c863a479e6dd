------------------------------ MODULE LhCodec ------------------------------
(***************************************************************************)
(* lh_codec_compress and the decoders of lh_codec.c, as lh_writer_add and   *)
(* LhCompress call them.  One call on one input: the -lh5-, -lh6- and       *)
(* -lh7- encoders look strings up in hash chains over a ring and count      *)
(* codes in a first pass, and write them in a second one; -lzs- and -lz5-   *)
(* write items of bytes behind bytes of flags; the others copy.  A step is  *)
(* one round of a loop.  Of the bits of the -lh5- family the model keeps    *)
(* how many there are and which bytes of the input they stand for.          *)
(***************************************************************************)
EXTENDS Sequences, FiniteSetsExt

CONSTANTS
    Methods,     \* what is called
    Ring,        \* LH_RING_BUFFER_SIZE, LH6_DICT_SIZE, LH7_DICT_SIZE by method
    Good,        \* from this length on a match is taken at once, by method
    MaxMatch,    \* LH_MAX_MATCH_LENGTH: the bytes looked ahead at
    Threshold,   \* MATCH_LENGTH_THRESHOLD, LZS_BREAK_EVEN
    Bytes,       \* the values of a byte of the input, 0 .. Bytes - 1
    Space,       \* what rings begin with; LArc windows begin with zeros
    LenCodes,    \* NUM_LEN_CODES by method
    DistGroups,  \* distance codes by their extra bits, by method: the first offset
                 \* and the first code of a group, how many offsets share a code
    DistTable,   \* DISTANCE_TABLE_SIZE by method; OFFSET_BITS of -lh7-
    PerExtra,    \* how many length codes of -lh7- have each count of extra bits
    LzWindow,    \* LZS_WINDOW_SIZE and 4096
    LzMax,       \* the longest match that is looked for, by method
    LowRange,    \* what the low byte of an offset has: 256
    LenRange,    \* what the bits of a length have: 16
    TopFlag,     \* the first of a byte of flags: 128
    Margin,      \* what an encoder asks of the room: 64 by chains, 12 the others
    TableBytes,  \* code lengths that lh_compress_lh1 writes: 512
    Spares,      \* what callers add to nine eighths of the input: lh_writer_add
                 \* 512, LhCompress what its client has
    Inputs

Chained == {"lh5", "lh6", "lh7"}
LArc == {"lzs", "lz5"}

ASSUME CodecAssumption ==
    /\ Threshold \in Nat \ {0} /\ MaxMatch \in Nat /\ Threshold < MaxMatch
    /\ \A m \in Chained : /\ Ring[m] \in Nat /\ MaxMatch <= Ring[m] /\ Threshold <= Good[m]
                          /\ LenCodes[m] \in Nat \ {0} /\ DistTable[m] \in Nat \ {0}
    /\ \A m \in {"lh5", "lh6"} :
          /\ DistGroups[m] \subseteq [first : Nat, code : Nat, share : Nat \ {0}, extra : Nat]
          /\ \E g \in DistGroups[m] : g.first = 0
    /\ PerExtra \in Nat \ {0}
    /\ {LowRange, LenRange} \subseteq Nat \ {0} /\ TopFlag \in {1, 2, 4, 8, 16, 32, 64, 128}
    /\ \A m \in LArc : /\ LzWindow[m] \in Nat \ {0} /\ LzMax[m] \in 0 .. LzWindow[m]
                       /\ LzWindow[m] <= LowRange * (256 \div LenRange)
    /\ Bytes \in Nat /\ TableBytes \in Nat /\ Spares \subseteq Nat
    /\ Inputs \subseteq Seq(0 .. Bytes - 1) \ {<<>>}

VARIABLES
    method, input,
    spare,    \* how much room the caller has given
    status,   \* how far the call is, or how it ended
    enc,      \* the locals of the encoder
    codes,    \* codeLookup and distLookup: counts, and then code lengths
    bits,     \* how many bits a chained encoder has written
    sent,     \* the positions of the input that they stand for
    out,      \* the bytes of the other encoders
    dec       \* the locals of a LArc decoder

vars == <<method, input, spare, status, enc, codes, bits, sent, out, dec>>

Size == Len(input)
Text(i) == input[i + 1]
Least(a, b) == IF a < b THEN a ELSE b
Capacity == Size + (Size \div 8) + spare       \* *outSize

(* A status done, failed: LH_OK, an error.  hung: a loop that nothing ends.  *)
(* beyond: a count behind the end of distLookup was touched, and anything   *)
(* may follow.                                                              *)

(* Which encoder lh_codec_compress calls.                                   *)
Encoder(asked) ==
    CASE asked \in {"lh8", "lh9", "lha", "lhb", "lhc", "lhe", "lhx"} -> "lh7"
      [] asked \in {"lz2", "lz3", "lz7", "lz8"} -> "lzs"
      [] asked \in {"pc1", "pm0"} -> "lh0"
      [] OTHER -> asked

-----------------------------------------------------------------------------
(* The hash chains: head and link, with Ring as the mark of the end.        *)

Cur(e) == e.start - e.ahead

(* What both passes begin with.  The first bytes enter the ring, and no     *)
(* chain.                                                                   *)
Fresh(m, ahead) ==
    [win   |-> [i \in 0 .. Ring[m] - 1 |-> IF i < ahead THEN Text(i) ELSE Space],
     head  |-> [b \in 0 .. Bytes - 1 |-> Ring[m]],
     link  |-> [i \in 0 .. Ring[m] - 1 |-> Ring[m]],
     w     |-> ahead % Ring[m],
     start |-> ahead, ahead |-> ahead, inserted |-> 0]

(* How many bytes of the input from position i are those of a ring at p.    *)
Alike(win, size, p, i, most) ==
    Min({k \in 0 .. most : k = most \/ win[(p + k) % size] # Text(i + k)})

Shared(m, e, p) ==
    Alike(e.win, Ring[m], p, Cur(e), Least(e.ahead, Size - Cur(e)))

NoMatch == [length |-> 0, offset |-> 0]
Endless == [length |-> -1, offset |-> 0]

(* The places of a chain, from the newest string with the same first byte.  *)
Chain(m, e) ==
    LET After(p) == IF p = Ring[m] THEN p ELSE e.link[p]
        place[n \in 0 .. Ring[m]] ==
            IF n = 0 THEN e.head[Text(Cur(e))] ELSE After(place[n - 1])
    IN place

(* The walk along it, which takes the first of the longest matches, or the  *)
(* first one that is good.  A chain without an end is a circle, and a walk  *)
(* that finds nothing good there goes round for ever.                       *)
Search(m, e) ==
    LET chain == Chain(m, e)
        shared == [n \in {n \in 0 .. Ring[m] : chain[n] # Ring[m]} |-> Shared(m, e, chain[n])]
        good == {n \in DOMAIN shared : shared[n] >= Good[m]}
        seen == {n \in DOMAIN shared : \A k \in good : n <= k}
        best == {n \in seen : /\ shared[n] >= Threshold
                              /\ \A k \in seen : shared[k] <= shared[n]}
    IN IF good = {} /\ Ring[m] \in DOMAIN shared THEN Endless
       ELSE IF best = {} THEN NoMatch
       ELSE [length |-> shared[Min(best)], offset |-> (e.w - chain[Min(best)]) % Ring[m]]

(* Wrong on purpose: the head is moved before the link is taken from it.    *)
InsertLinksItself(m, e, b) ==
    [e EXCEPT !.win[e.w] = b, !.link[e.w] = e.w, !.head[b] = e.w,
              !.w = (@ + 1) % Ring[m], !.inserted = @ + 1]

Insert(m, e, b) ==
    [e EXCEPT !.win[e.w] = b, !.link[e.w] = e.head[b], !.head[b] = e.w,
              !.w = (@ + 1) % Ring[m], !.inserted = @ + 1]

Take(e) == [e EXCEPT !.start = @ + 1, !.ahead = @ - 1]

TakeNext(m, e) == IF e.start < Size THEN Take(Insert(m, e, Text(e.start))) ELSE e
TakeMatch(m, e, k) ==
    LET taken[j \in 0 .. k] == IF j = 0 THEN e ELSE TakeNext(m, taken[j - 1])
    IN taken[k]

TakeLiteral(m, e) == Take(Insert(m, e, Text(Cur(e))))

(* Wrong on purpose: nothing is looked ahead at again.                      *)
RefillNothing(e) == e

Refill(e) ==
    LET k == Least(MaxMatch - 1 - e.ahead, Size - e.start)
    IN IF k <= 0 THEN e ELSE [e EXCEPT !.start = @ + k, !.ahead = @ + k]

IsMatch(found) == found.length >= Threshold
Taken(m, e, found) ==
    Refill(IF IsMatch(found) THEN TakeMatch(m, e, found.length) ELSE TakeLiteral(m, e))

-----------------------------------------------------------------------------
(* Codes.                                                                   *)

(* -lh5- and -lh6-: lengths behind the last code share it.                  *)
LengthCode(m, found) == Bytes + Least(found.length - Threshold, LenCodes[m] - 1)

(* -lh7-: PerExtra codes for one length each, then for two, four, eight.    *)
LengthBase(c) ==
    (PerExtra * (2 ^ (c \div PerExtra) - 1)) + ((c % PerExtra) * 2 ^ (c \div PerExtra)) + Threshold
Lh7LengthCode(found) ==
    Cardinality({c \in 1 .. LenCodes["lh7"] - 1 : LengthBase(c) <= found.length})

(* The distance code and its extra bits.                                    *)
DistGroup(m, offset) ==
    CHOOSE g \in DistGroups[m] :
        /\ g.first <= offset
        /\ \A h \in DistGroups[m] : h.first <= offset => h.first <= g.first
Dist(m, found) ==
    LET g == DistGroup(m, found.offset)
    IN [code |-> g.code + ((found.offset - g.first) \div g.share), extra |-> g.extra]

OutOfTable(m, found) == IsMatch(found) /\ Dist(m, found).code >= DistTable[m]

NumCodes(m) == Bytes + LenCodes[m]
NoCounts(m) == [code |-> [i \in 0 .. NumCodes(m) - 1 |-> 0],
                dist |-> [i \in 0 .. DistTable[m] - 1 |-> 0]]

Counted(m, f, e, found) ==
    IF IsMatch(found)
    THEN [f EXCEPT !.code[LengthCode(m, found)] = @ + 1, !.dist[Dist(m, found).code] = @ + 1]
    ELSE [f EXCEPT !.code[Text(Cur(e))] = @ + 1]

(* The more of all counts, the shorter: no Huffman code.                    *)
Total(f) == FoldFunction(+, 0, f)
AtLeastOne(n) == IF n = 0 THEN 1 ELSE n
Within(n, most) == IF n < 1 THEN 1 ELSE Least(n, most)
CodeLens(f, longest, weight) ==
    [i \in DOMAIN f |-> Within(longest - ((AtLeastOne(f[i]) * weight) \div AtLeastOne(Total(f))), longest)]

-----------------------------------------------------------------------------
(* The chained encoders.                                                    *)

Same == UNCHANGED <<method, input, spare>>
End(how) == status' = how /\ UNCHANGED <<enc, codes, bits, sent, out, dec>> /\ Same
Enough(m, asked) == Capacity >= Size + (Size \div asked) + Margin[m]

(* lh_encode_write_bits writes whole bytes; the rest of the bits waits.     *)
Fits(n) == (bits + n) \div 8 <= Capacity
Flushes == bits % 8 = 0 \/ bits \div 8 < Capacity

(* The check of the room, and one malloc after the other.                   *)
Begin(m) ==
    /\ method = m /\ status = "begin"
    /\ \/ End("failed")
       \/ /\ Enough(m, 8)
          /\ status' = "first"
          /\ enc' = Fresh(m, Least(Size, Threshold)) /\ codes' = NoCounts(m)
          /\ UNCHANGED <<bits, sent, out, dec>> /\ Same

First(m, count(_)) ==
    /\ method = m /\ status = "first" /\ enc.start < Size
    /\ LET found == Search(m, enc)
       IN \/ found = Endless /\ End("hung")
          \/ /\ found # Endless
             /\ enc' = Taken(m, enc, found) /\ codes' = count(found)
             /\ UNCHANGED <<status, bits, sent, out, dec>> /\ Same

CountAll(m) ==
    /\ method = m /\ status = "first" /\ enc.start < Size
    /\ LET found == Search(m, enc)
       IN \/ found = Endless /\ End("hung")
          \/ found # Endless /\ OutOfTable(m, found) /\ End("beyond")
          \/ /\ found # Endless /\ ~OutOfTable(m, found)
             /\ enc' = Taken(m, enc, found) /\ codes' = Counted(m, codes, enc, found)
             /\ UNCHANGED <<status, bits, sent, out, dec>> /\ Same

(* What stands between the passes: code lengths, n bits of head, and the    *)
(* ring and the chains as they were.                                        *)
Tables(m, lens, n) ==
    /\ method = m /\ status = "first" /\ enc.start >= Size
    /\ \/ ~Fits(n) /\ End("failed")
       \/ /\ Fits(n)
          /\ status' = "second" /\ bits' = bits + n /\ codes' = lens
          /\ enc' = Fresh(m, Least(Size, MaxMatch))
          /\ UNCHANGED <<sent, out, dec>> /\ Same

(* One item of the second pass, of cost bits.                               *)
Second(m, found, cost) ==
    \/ found = Endless /\ End("hung")
    \/ found # Endless /\ ~Fits(cost) /\ End("failed")
    \/ /\ found # Endless /\ Fits(cost)
       /\ enc' = Taken(m, enc, found) /\ bits' = bits + cost
       /\ sent' = sent \cup (Cur(enc) .. Cur(enc) + (IF IsMatch(found) THEN found.length ELSE 1) - 1)
       /\ UNCHANGED <<status, codes, out, dec>> /\ Same

Finish(m) ==
    /\ method = m /\ status = "second" /\ Cur(enc) >= Size
    /\ End(IF Flushes THEN "done" ELSE "failed")

Lens(m, longest) ==
    [code |-> CodeLens(codes.code, 15, 10), dist |-> CodeLens(codes.dist, longest, 4)]

Lh5Begin == Begin("lh5")
Lh5First == CountAll("lh5")
Lh5Tables == Tables("lh5", Lens("lh5", 7), 8 * (NumCodes("lh5") + DistTable["lh5"]))
Lh5Second ==
    /\ method = "lh5" /\ status = "second" /\ Cur(enc) < Size
    /\ LET found == Search("lh5", enc)
           d == Dist("lh5", found)
       IN IF OutOfTable("lh5", found) THEN End("beyond")
          ELSE Second("lh5", found,
                 IF IsMatch(found)
                 THEN codes.code[LengthCode("lh5", found)] + codes.dist[d.code] + d.extra
                 ELSE codes.code[Text(Cur(enc))])
Lh5Finish == Finish("lh5")

(* The second pass of lh_compress_lh6 counts as the first one does, and     *)
(* writes nothing: a match that moves no cursor is found for ever.          *)
RepeatsItself ==
    /\ method = "lh6" /\ status = "second"
    /\ Cur(enc) < Size /\ enc.start >= Size /\ IsMatch(Search("lh6", enc))

Lh6Begin == Begin("lh6")
Lh6First == CountAll("lh6")
Lh6Tables == Tables("lh6", Lens("lh6", 8), 8 * (NumCodes("lh6") + DistTable["lh6"]))
Lh6Second ==
    /\ method = "lh6" /\ status = "second" /\ Cur(enc) < Size
    /\ LET found == Search("lh6", enc)
       IN \/ found = Endless /\ End("hung")
          \/ found # Endless /\ OutOfTable("lh6", found) /\ End("beyond")
          \/ RepeatsItself /\ ~OutOfTable("lh6", found) /\ End("hung")
          \/ /\ found # Endless /\ ~OutOfTable("lh6", found) /\ ~RepeatsItself
             /\ enc' = Taken("lh6", enc, found)
             /\ UNCHANGED <<status, codes, bits, sent, out, dec>> /\ Same
Lh6Finish == Finish("lh6")

(* lh_compress_lh7 takes code lengths that do not depend on the counts.     *)
Preset == [code |-> [i \in 0 .. NumCodes("lh7") - 1 |-> IF i < Bytes THEN 9 ELSE 6],
           dist |-> [i \in 0 .. DistTable["lh7"] - 1 |-> 5]]
Lh7Begin == Begin("lh7")
Lh7First == First("lh7", LAMBDA found : codes)
Lh7Tables == Tables("lh7", Preset, 1)
Lh7Second ==
    /\ method = "lh7" /\ status = "second" /\ Cur(enc) < Size
    /\ LET found == Search("lh7", enc)
       IN Second("lh7", found,
             IF IsMatch(found)
             THEN LET c == Lh7LengthCode(found)
                  IN Preset.code[Bytes + c] + (c \div PerExtra) + DistTable["lh7"]
             ELSE Preset.code[Text(Cur(enc))])
Lh7Finish == Finish("lh7")

-----------------------------------------------------------------------------
(* LArc.  w: windowPos; in: inPos; flagAt, mask: flagPos and flagBit.       *)

Zeros(m) == [i \in 0 .. LzWindow[m] - 1 |-> 0]

LzShared(m, p) ==
    Alike(enc.win, LzWindow[m], p, enc.in, Least(LzMax[m], Size - enc.in))

(* The first of the longest matches.                                        *)
LzSearch(m) ==
    LET shared == [p \in 0 .. LzWindow[m] - 1 |-> LzShared(m, p)]
        best == {p \in DOMAIN shared : \A q \in DOMAIN shared : shared[q] <= shared[p]}
    IN [length |-> shared[Min(best)], offset |-> Min(best)]

(* Wrong on purpose: the upper bits of the offset are not sent.             *)
MatchBytesShort(found) ==
    <<found.offset % LowRange, (found.length - Threshold) % LenRange>>

MatchBytes(found) ==
    <<found.offset % LowRange,
      ((found.offset \div LowRange) * LenRange) + ((found.length - Threshold) % LenRange)>>

(* A match is longer than its bits can say, or the string it was compared   *)
(* with lies where the decoder will have written some of the match itself.  *)
TooLong(found) == found.length - Threshold >= LenRange
RunsOver(m, found) == (enc.w - found.offset) % LzWindow[m] \in 1 .. found.length - 1

(* Bytes of the input from one on, into a window from w on.                 *)
Into(m, win, w, from, k) ==
    [p \in DOMAIN win |-> LET i == (p - w) % LzWindow[m]
                          IN IF i < k THEN Text(from + i) ELSE win[p]]

LzBegin(m) ==
    /\ method = m /\ status = "begin"
    /\ \/ ~Enough(m, 8) /\ End("failed")
       \/ /\ Enough(m, 8)
          /\ status' = "items" /\ out' = <<0>>
          /\ enc' = [win |-> Zeros(m), w |-> 0, in |-> 0, flagAt |-> 1, mask |-> TopFlag,
                     faithful |-> TRUE]
          /\ UNCHANGED <<codes, bits, sent, dec>> /\ Same

LzItem(m) ==
    /\ method = m /\ status = "items" /\ enc.in < Size
    /\ LET new == enc.mask = 0
           o == IF new THEN Append(out, 0) ELSE out
           at == IF new THEN Len(o) ELSE enc.flagAt
           mask == IF new THEN TopFlag ELSE enc.mask
           found == IF enc.in > Threshold THEN LzSearch(m) ELSE NoMatch
           length == IF IsMatch(found) THEN found.length ELSE 1
           item == IF IsMatch(found) THEN MatchBytes(found) ELSE <<Text(enc.in)>>
       IN IF Len(o) + Len(item) > Capacity THEN End("failed")
          ELSE /\ out' = (IF IsMatch(found) THEN [o EXCEPT ![at] = @ + mask] ELSE o) \o item
               /\ enc' = [win |-> Into(m, enc.win, enc.w, enc.in, length),
                          w |-> (enc.w + length) % LzWindow[m], in |-> enc.in + length,
                          flagAt |-> at, mask |-> mask \div 2,
                          faithful |-> enc.faithful /\ ~(IsMatch(found) /\
                                         (TooLong(found) \/ RunsOver(m, found)))]
               /\ UNCHANGED <<status, codes, bits, sent, dec>> /\ Same

(* The entry is read.  Of its decoders one takes no byte of flags first.    *)
ReadAs(m, mask) ==
    /\ method = m /\ status = "items" /\ enc.in >= Size
    /\ status' = "read"
    /\ dec' = [pos |-> 0, flags |-> 0, mask |-> mask, inStep |-> mask = 0,
               win |-> Zeros(m), w |-> 0, out |-> <<>>]
    /\ UNCHANGED <<enc, codes, bits, sent, out>> /\ Same

Put(m, d, b) == [d EXCEPT !.out = Append(@, b), !.win[d.w] = b, !.w = (@ + 1) % LzWindow[m]]

CopyByte(m, d, p) ==
    IF Len(d.out) = Size THEN d ELSE Put(m, d, d.win[p % LzWindow[m]])
CopyFrom(m, d, p, k) ==
    LET copied[j \in 0 .. k] == IF j = 0 THEN d ELSE CopyByte(m, copied[j - 1], p + j - 1)
    IN copied[k]

LzDecode(m, overflow(_, _)) ==
    /\ method = m /\ status = "read"
    /\ LET flagged == dec.mask = 0
           d == IF flagged THEN [dec EXCEPT !.pos = @ + 1, !.flags = out[dec.pos + 1], !.mask = TopFlag]
                ELSE dec
           match == (d.flags \div d.mask) % 2 = 1
           low == out[d.pos + 1]
           high == out[d.pos + 2]
           length == (high % LenRange) + Threshold
           answer == End(IF Len(dec.out) = Size THEN "done" ELSE "failed")
       IN IF dec.pos >= Len(out) \/ Len(dec.out) >= Size THEN answer
          ELSE IF d.pos + (IF match THEN 2 ELSE 1) > Len(out) THEN answer
          ELSE IF match /\ overflow(d, length) THEN End("failed")
          ELSE /\ dec' = [IF match
                          THEN CopyFrom(m, d, low + ((high \div LenRange) * LowRange), length)
                          ELSE Put(m, d, low)
                          EXCEPT !.pos = @ + (IF match THEN 2 ELSE 1), !.mask = @ \div 2]
               /\ UNCHANGED <<status, enc, codes, bits, sent, out>> /\ Same

LzsBegin == LzBegin("lzs")
Lz5Begin == LzBegin("lz5")
LzsItem == LzItem("lzs")
Lz5Item == LzItem("lz5")
LzsRead == ReadAs("lzs", 0)
LzsDecode == LzDecode("lzs", LAMBDA d, length : Len(d.out) + length > Size)
Lz5Read == ReadAs("lz5", TopFlag)
Lz5Decode == LzDecode("lz5", LAMBDA d, length : FALSE)
(* Another program that reads -lz5-: byte of flags first.                   *)
Lz5ReadElsewhere == ReadAs("lz5", 0)

-----------------------------------------------------------------------------
(* The methods that copy.                                                   *)

Store(ms, bytes, enough) ==
    /\ method \in ms /\ status = "begin"
    /\ \/ ~(enough /\ Len(bytes) <= Capacity) /\ End("failed")
       \/ /\ enough /\ Len(bytes) <= Capacity
          /\ status' = "stored" /\ out' = bytes
          /\ UNCHANGED <<enc, codes, bits, sent, dec>> /\ Same

Lh0Store == Store({"lh0"}, input, Capacity >= Size)
Lz4Store == Store({"lz4"}, input, Capacity >= Size)
Lh1Store == Store({"lh1", "lh4"}, [i \in 1 .. TableBytes |-> 5] \o input, Enough("lh1", 100))
Lh2Store == Store({"lh2", "lh3"}, input, Enough("lh2", 100))

Lh0Read ==
    /\ method \in {"lh0", "lz4"} /\ status = "stored"
    /\ status' = "done" /\ dec' = [out |-> out]
    /\ UNCHANGED <<enc, codes, bits, sent, out>> /\ Same
Lh2Read == method \in {"lh2", "lh3"} /\ status = "stored" /\ End("failed")

(* lh_decompress_lh1 and lh_decompress_lh4 read another format: LhLzhuf,    *)
(* LhStatic.                                                                *)
Lh1Read == method \in {"lh1", "lh4"} /\ status = "stored" /\ End("done")

(* PMarc is not supported, and of a directory there is nothing to write.    *)
Unsupported == method \in {"pm1", "pm2", "pms"} /\ status = "begin" /\ End("failed")
NoData == method = "lhd" /\ status = "begin" /\ End("done")

-----------------------------------------------------------------------------
Nothing == [out |-> <<>>]

Init ==
    /\ method \in {Encoder(m) : m \in Methods} /\ input \in Inputs /\ spare \in Spares
    /\ status = "begin" /\ enc = Nothing /\ codes = Nothing
    /\ bits = 0 /\ sent = {} /\ out = <<>> /\ dec = Nothing

Next ==
    \/ Lh5Begin \/ Lh5First \/ Lh5Tables \/ Lh5Second \/ Lh5Finish
    \/ Lh6Begin \/ Lh6First \/ Lh6Tables \/ Lh6Second \/ Lh6Finish
    \/ Lh7Begin \/ Lh7First \/ Lh7Tables \/ Lh7Second \/ Lh7Finish
    \/ LzsBegin \/ LzsItem \/ LzsRead \/ LzsDecode
    \/ Lz5Begin \/ Lz5Item \/ Lz5Read \/ Lz5ReadElsewhere \/ Lz5Decode
    \/ Lh0Store \/ Lh1Store \/ Lh2Store \/ Lz4Store \/ Lh0Read \/ Lh1Read \/ Lh2Read
    \/ Unsupported \/ NoData

Spec == Init /\ [][Next]_vars

-----------------------------------------------------------------------------
Encoding == method \in Chained /\ status \in {"first", "second"}

(* The cursors of a chained encoder are unsigned.  lookahead never goes     *)
(* below zero, and as long as the passes read the input, the byte they read *)
(* is there: matches take only bytes that are there too, and what a literal *)
(* takes behind the end is made up for by what it leaves in front.          *)
CursorSafe ==
    Encoding =>
        /\ enc.ahead >= 0 /\ Cur(enc) >= 0
        /\ enc.start < Size => enc.ahead >= Least(MaxMatch - 1, Threshold)
        /\ status = "second" => Cur(enc) <= Size + 1
        /\ enc.w = (enc.inserted + Least(Size, IF status = "first" THEN Threshold ELSE MaxMatch))
                       % Ring[method]

(* A measure of what is left of a call: its phases, and in each of them     *)
(* input to be taken, room to be filled or output to be made.               *)
Phase ==
    CASE status = "begin" -> 3
      [] status \in {"first", "items"} -> 2
      [] status \in {"second", "read", "stored"} -> 1
      [] OTHER -> 0
Left ==
    CASE status = "first" -> Size - enc.start
      [] status = "second" -> IF method = "lh6" THEN Size + 1 - Cur(enc)
                              ELSE (8 * Capacity) + 7 - bits
      [] status = "items" -> Size - enc.in
      [] status = "read" -> Size - Len(dec.out)
      [] OTHER -> 0

(* Every step of a call takes it nearer to its end.  A match behind the     *)
(* last refill moves no cursor, but fills the output, and the call fails.   *)
(* What does not end is lh_compress_lh6 there, which fills nothing, and a   *)
(* walk along a chain that has become a circle: that takes as many strings  *)
(* as the ring has places.                                                  *)
CallEnds ==
    [][/\ Left' >= 0
       /\ Phase' < Phase \/ (Phase' = Phase /\ Left' < Left)
       /\ status' = "hung" => enc.inserted >= Ring[method] \/ RepeatsItself]_vars

(* What LArc encoders and those that copy write reads back, as far as it is *)
(* read and in the end whole, unless a match was longer than its four bits  *)
(* say or had been compared with bytes that its own copy overwrites; for    *)
(* -lz5- in a decoder that takes its flags first.                           *)
ReadsBack ==
    dec # Nothing /\ (method \in LArc => enc.faithful /\ dec.inStep) =>
        /\ dec.out = SubSeq(input, 1, Len(dec.out))
        /\ status \in {"done", "failed"} => status = "done" /\ dec.out = input

(* Every byte of the input is in the entry.                                 *)
EveryByteSent == method \in Chained /\ status = "done" => sent = 0 .. Size - 1
=============================================================================

---------------------------- MODULE LhHeaderProofs ----------------------------
(***************************************************************************)
(* Proofs that, for names, comments and extensions of any length, a reader *)
(* finds what was written in every header whose size it can read, and      *)
(* stops only at the others.                                               *)
(***************************************************************************)
EXTENDS LhHeader, TLAPS

(* A header that is read, or cannot be, as the properties ask.              *)
Sound(h) ==
  /\ h \in Headers
  /\ ~Unreadable(h) =>
       /\ lh_hdr_read(h).st = "ok"
       /\ lh_hdr_read(h).entry \in EntryLengths /\ lh_hdr_read(h).entry.name # NoName
       /\ Conveys(h, lh_hdr_read(h).entry)
       /\ lh_hdr_read(h).used + lh_hdr_read(h).entry.data = HeaderBytes(h) + h.meant.data

----------------------------------------------------------------------------
(* Lengths.                                                                 *)

LEMMA ChainLengths ==
  ASSUME NEW c \in Chains
  PROVE  ChainLength(c) \in Nat
BY DEF Chains, ChainLength, Extension, None

LEMMA Pads ==
  ASSUME NEW n \in Nat
  PROVE  /\ Padded(n) \in Nat /\ Padded(n) \in {n, n + 1}
         /\ Padded(n) % 256 > 20 => Padded(n) = n
BY DEF Padded

LEMMA CombinedType ==
  ASSUME NEW c \in Chains, NEW inline \in NameLengths
  PROVE  Combined(inline, c) \in NameLengths /\ CommentOf(c) \in Nat
<1>1. CommentOf(c) \in Nat
  BY DEF CommentOf, Chains, None
<1>2. Combined(inline, c) \in NameLengths
  <2> DEFINE dir == IF c.path # None /\ c.path \in 1 .. 511 THEN c.path - c.sep ELSE 0
             name == IF c.file = None THEN inline ELSE [dir |-> 0, base |-> c.file]
  <2>1. dir \in Nat
    BY DEF Chains, None
  <2>2. name \in NameLengths
    BY DEF Chains, NameLengths, None
  <2> HIDE DEF dir, name
  <2>3. Combined(inline, c) = IF dir = 0 THEN name
          ELSE IF name = NoName THEN [dir |-> 0, base |-> dir]
          ELSE [dir |-> IF name.dir = 0 THEN dir ELSE dir + 1 + name.dir, base |-> name.base]
    BY DEF Combined, dir, name
  <2> QED BY <2>1, <2>2, <2>3 DEF NameLengths
<1> QED BY <1>1, <1>2

(* A readable size of level 2 is not padded.                                *)
LEMMA ReadsLevel2 ==
  ASSUME NEW h \in Headers, h.level = 2, h.size = Padded(26 + ChainLength(h.chain)),
         h.packed = h.meant.data, ~Unreadable(h), Combined(NoName, h.chain) # NoName
  PROVE  lh_hdr_read(h) = Found(Combined(NoName, h.chain), CommentOf(h.chain),
                                HeaderBytes(h), h.meant.data)
<1>1. h.chain \in Chains /\ h.size \in Nat
  BY DEF Headers
<1>2. h.size = 26 + ChainLength(h.chain) /\ ChainLength(h.chain) \in Nat
  BY <1>1, ChainLengths, Pads DEF Unreadable
<1>3. lh_hdr_read(h) = lh_hdr_read_level2(h)
  <2>1. h.size % 256 > 20 /\ h.size < Buffer - 4
    BY <1>1 DEF Unreadable, Buffer
  <2> QED BY <2>1, <1>1 DEF lh_hdr_read, Buffer
<1>4. h.size - 26 - ChainLength(h.chain) = 0 /\ h.size + 0 = h.size
  BY <1>1, <1>2
<1> QED BY <1>3, <1>4 DEF lh_hdr_read_level2, HeaderBytes

LEMMA ReadsLevel01 ==
  ASSUME NEW h \in Headers, h.level \in {0, 1}, h.rest \in {20, 22} \/ h.rest >= 24,
         h.size = h.rest + Length(h.name), h.size <= 255,
         h.size + 2 + ChainLength(h.chain) <= Buffer, h.level = 0 => h.chain = NoChain,
         h.packed = h.meant.data + ChainLength(h.chain),
         Combined(h.name, h.chain) # NoName
  PROVE  lh_hdr_read(h) = Found(Combined(h.name, h.chain), CommentOf(h.chain),
                                HeaderBytes(h), h.meant.data)
<1>1. /\ h.chain \in Chains /\ h.size \in Nat /\ h.rest \in Nat /\ h.name \in NameLengths
      /\ h.meant.data \in Nat
  BY DEF Headers, EntryLengths
<1>2. Length(h.name) \in Nat /\ ChainLength(h.chain) \in Nat
  BY <1>1, ChainLengths DEF Length, NameLengths
<1>3. h.size \in 20 .. 255 /\ h.size % 256 = h.size
  BY <1>1, <1>2
<1>4. lh_hdr_read(h) = lh_hdr_read_lhex(h)
  BY <1>3 DEF lh_hdr_read
<1>5. ChainLength(NoChain) = 0
  BY DEF ChainLength, NoChain, Extension, None
<1>6. (IF h.level = 1 THEN h.chain ELSE NoChain) = h.chain
  OBVIOUS
<1>7. ~((h.rest < 24 /\ h.rest \notin {20, 22}) \/ h.size + 2 + ChainLength(h.chain) > Buffer)
  BY <1>1, <1>2 DEF Buffer
<1>8. lh_hdr_read_lhex(h) = Found(Combined(h.name, h.chain), CommentOf(h.chain),
        h.size + 2 + ChainLength(h.chain), h.packed - ChainLength(h.chain))
  BY <1>6, <1>7 DEF lh_hdr_read_lhex
<1>9. h.packed - ChainLength(h.chain) = h.meant.data
  BY <1>1, <1>2
<1>10. HeaderBytes(h) = h.size + 2 + ChainLength(h.chain)
  BY <1>1, <1>2, <1>5 DEF HeaderBytes
<1> QED BY <1>4, <1>8, <1>9, <1>10

LEMMA FoundIsSound ==
  ASSUME NEW h \in Headers, NEW name \in NameLengths, NEW comment \in Nat, name # NoName,
         ~Unreadable(h) =>
           lh_hdr_read(h) = Found(name, comment, HeaderBytes(h), h.meant.data),
         comment = h.meant.comment,
         (h.level = 2 /\ TooLong(h.meant.name)) \/ name = h.meant.name
  PROVE  Sound(h)
<1>1. h.meant.data \in Nat
  BY DEF Headers, EntryLengths
<1>2. CASE ~Unreadable(h)
  <2> DEFINE r == Found(name, comment, HeaderBytes(h), h.meant.data)
  <2>1. r.st = "ok" /\ r.used = HeaderBytes(h)
        /\ r.entry = [name |-> name, comment |-> comment, data |-> h.meant.data]
    BY DEF Found
  <2>2. r.entry \in EntryLengths /\ r.entry.name # NoName /\ Conveys(h, r.entry)
    BY <1>1, <2>1 DEF EntryLengths, Conveys
  <2>3. r.entry.data = h.meant.data
    BY <2>1
  <2>4. lh_hdr_read(h) = r
    BY <1>2
  <2> HIDE DEF r
  <2> QED BY <2>1, <2>2, <2>3, <2>4 DEF Sound
<1> QED BY <1>2 DEF Sound

LEMMA WellFormedIsSound ==
  ASSUME NEW h, WellFormed(h)
  PROVE  Sound(h)
<1>1. h \in Headers /\ h.meant.name = Combined(h.name, h.chain) /\ h.meant.name # NoName
      /\ h.meant.comment = CommentOf(h.chain)
  BY DEF WellFormed
<1>2. /\ h.chain \in Chains /\ h.name \in NameLengths /\ h.level \in 0 .. 2
      /\ h.meant.name \in NameLengths /\ h.meant.comment \in Nat
  BY <1>1 DEF Headers, EntryLengths
<1>3. CASE h.level = 2
  <2>1. ~Unreadable(h) => lh_hdr_read(h) = Found(Combined(NoName, h.chain),
                            CommentOf(h.chain), HeaderBytes(h), h.meant.data)
    BY <1>1, <1>3, ReadsLevel2 DEF WellFormed
  <2>2. h.name = NoName
    BY <1>3 DEF WellFormed
  <2> QED BY <1>1, <1>2, <2>1, <2>2, FoundIsSound
<1>4. CASE h.level \in {0, 1}
  <2>1. lh_hdr_read(h) = Found(Combined(h.name, h.chain), CommentOf(h.chain),
                               HeaderBytes(h), h.meant.data)
    BY <1>1, <1>4, ReadsLevel01 DEF WellFormed
  <2> QED BY <1>1, <1>2, <1>4, <2>1, FoundIsSound
<1> QED BY <1>2, <1>3, <1>4

----------------------------------------------------------------------------
(* What is written.                                                         *)

(* A name as level 2 keeps it.                                              *)
Cut(n) == [dir |-> Least(n.dir, 511), base |-> Least(n.base, 255)]

LEMMA SplitThenCombined ==
  ASSUME NEW n \in NameLengths, lh_hdr_split_path(n).base # 0, NEW c \in Chains,
         c.file = lh_hdr_split_path(n).base, c.path = lh_hdr_split_path(n).path,
         c.sep = lh_hdr_split_path(n).sep
  PROVE  /\ Combined(NoName, c) = Cut(n) /\ Combined(NoName, c) # NoName
         /\ Cut(n) \in NameLengths /\ (TooLong(n) \/ Cut(n) = n)
         /\ lh_hdr_split_path(Cut(n)) = lh_hdr_split_path(n)
<1>1. n.dir \in Nat /\ n.base \in Nat /\ n = [dir |-> n.dir, base |-> n.base]
  BY DEF NameLengths
<1>2. /\ c.file = Least(n.base, 255) /\ c.file \in Nat \ {0}
      /\ c.path = (IF n.dir = 0 THEN None ELSE Least(n.dir + 1, 511))
      /\ c.sep = (IF n.dir \in 1 .. 510 THEN 1 ELSE 0)
  BY <1>1 DEF lh_hdr_split_path, Least
<1>3. (IF c.path # None /\ c.path \in 1 .. 511 THEN c.path - c.sep ELSE 0) = Least(n.dir, 511)
  BY <1>1, <1>2 DEF Least, None
<1>4. c.file # None /\ [dir |-> 0, base |-> c.file] # NoName
  BY <1>2 DEF None, NoName
<1>5. Combined(NoName, c) = Cut(n)
  <2> DEFINE dir == Least(n.dir, 511)
             base == Least(n.base, 255)
  <2>1. Combined(NoName, c) =
          IF dir = 0 THEN [dir |-> 0, base |-> base]
          ELSE [dir |-> dir, base |-> base]
    <3> HIDE DEF dir
    <3>1. (IF c.file = None THEN NoName ELSE [dir |-> 0, base |-> c.file])
            = [dir |-> 0, base |-> base] /\ [dir |-> 0, base |-> base] # NoName
      BY <1>2, <1>4
    <3>2. (IF c.path # None /\ c.path \in 1 .. 511 THEN c.path - c.sep ELSE 0) = dir
      BY <1>3 DEF dir
    <3> HIDE DEF base
    <3> QED BY <3>1, <3>2 DEF Combined
  <2> QED BY <2>1 DEF Cut
<1>6. Cut(n) # NoName /\ Cut(n) \in NameLengths /\ Cut(n).dir \in Nat
  BY <1>1, <1>2 DEF Cut, NoName, NameLengths, Least
<1>7. TooLong(n) \/ Cut(n) = n
  BY <1>1 DEF TooLong, Cut, Least
<1>8. lh_hdr_split_path(Cut(n)) = lh_hdr_split_path(n)
  BY <1>1 DEF lh_hdr_split_path, Cut, Least
<1> QED BY <1>5, <1>6, <1>7, <1>8

(* Level 2; a second writing of what is read has the same size.             *)
LEMMA WrittenLevel2 ==
  ASSUME NEW e \in EntryLengths, NEW h, WriteLevel2(e) = Wrote(h)
  PROVE  /\ Sound(h) /\ h.level = 2 /\ h.meant = e
         /\ ~Unreadable(h) => \E head : /\ WriteLevel2(lh_hdr_read(h).entry) = Wrote(head)
                                       /\ head.size = h.size
<1> DEFINE c == Level2Chain(e)
           size == Padded(24 + ChainLength(c) + 2)
           head == [level |-> 2, size |-> size, name |-> NoName, rest |-> 0,
                    chain |-> c, packed |-> e.data, meant |-> e]
<1>1. e.name \in NameLengths /\ e.comment \in Nat /\ e.data \in Nat
  BY DEF EntryLengths
<1>2. c \in Chains
  BY <1>1 DEF Level2Chain, ChainWithPath, Chains, lh_hdr_split_path, Least, None, NameLengths
<1>3. WriteLevel2(e) = IF lh_hdr_split_path(e.name).base = 0 THEN Refused("invalid_arg")
                       ELSE IF size > Buffer THEN Refused("bad_header") ELSE Wrote(head)
  BY DEF WriteLevel2, Level2Header
<1>4. Wrote(h).st = "ok" /\ Wrote(h).head = h /\ Wrote(head).head = head
  BY DEF Wrote
<1>5. lh_hdr_split_path(e.name).base # 0 /\ ~(size > Buffer) /\ h = head
  <2>1. Refused("invalid_arg").st # "ok" /\ Refused("bad_header").st # "ok"
    BY DEF Refused
  <2> HIDE DEF head, size
  <2> QED BY <1>3, <1>4, <2>1
<1>6. c.file = lh_hdr_split_path(e.name).base /\ c.path = lh_hdr_split_path(e.name).path
      /\ c.sep = lh_hdr_split_path(e.name).sep
      /\ c.comment = IF e.comment = 0 THEN None ELSE e.comment
  BY DEF Level2Chain, ChainWithPath
<1>7. ChainLength(c) \in Nat /\ 24 + ChainLength(c) + 2 = 26 + ChainLength(c)
  BY <1>2, ChainLengths
<1>8. size = Padded(26 + ChainLength(c)) /\ size \in Nat
  BY <1>7, Pads
<1> HIDE DEF c, size
<1>9. /\ h.level = 2 /\ h.size = Padded(26 + ChainLength(h.chain)) /\ h.name = NoName
      /\ h.packed = h.meant.data /\ h.meant = e /\ h.chain = c /\ h.size = size
  BY <1>5, <1>8
<1>10. h \in Headers
  BY <1>2, <1>5, <1>8, <1>1 DEF Headers, NameLengths, NoName
<1>11. CommentOf(c) = e.comment
  BY <1>1, <1>6 DEF CommentOf, None
<1>12. /\ Combined(NoName, c) = Cut(e.name) /\ Combined(NoName, c) # NoName
       /\ Cut(e.name) \in NameLengths /\ (TooLong(e.name) \/ Cut(e.name) = e.name)
       /\ lh_hdr_split_path(Cut(e.name)) = lh_hdr_split_path(e.name)
  BY <1>1, <1>2, <1>5, <1>6, SplitThenCombined
<1>13. ~Unreadable(h) => lh_hdr_read(h) = Found(Cut(e.name), e.comment, HeaderBytes(h), h.meant.data)
  BY <1>9, <1>10, <1>11, <1>12, ReadsLevel2
<1>14. Sound(h)
  BY <1>1, <1>9, <1>10, <1>12, <1>13, FoundIsSound
<1>15. ASSUME ~Unreadable(h)
       PROVE  \E head2 : /\ WriteLevel2(lh_hdr_read(h).entry) = Wrote(head2)
                         /\ head2.size = h.size
  <2> DEFINE e2 == lh_hdr_read(h).entry
             head2 == [level |-> 2, size |-> size, name |-> NoName, rest |-> 0,
                       chain |-> c, packed |-> e2.data, meant |-> e2]
  <2>1. e2.name = Cut(e.name) /\ e2.comment = e.comment
    BY <1>13, <1>15 DEF Found
  <2>2. Level2Chain(e2) = c
    BY <1>12, <2>1 DEF Level2Chain, ChainWithPath, c
  <2> HIDE DEF e2
  <2>3. WriteLevel2(e2) = IF lh_hdr_split_path(e2.name).base = 0 THEN Refused("invalid_arg")
          ELSE IF Padded(24 + ChainLength(Level2Chain(e2)) + 2) > Buffer
                 THEN Refused("bad_header")
          ELSE Wrote([level |-> 2, size |-> Padded(24 + ChainLength(Level2Chain(e2)) + 2),
                      name |-> NoName, rest |-> 0, chain |-> Level2Chain(e2),
                      packed |-> e2.data, meant |-> e2])
    BY DEF WriteLevel2, Level2Header
  <2>4. WriteLevel2(e2) = Wrote(head2)
    BY <1>5, <1>12, <2>1, <2>2, <2>3 DEF size
  <2>5. head2.size = h.size
    BY <1>9
  <2> QED BY <2>4, <2>5 DEF e2
<1> QED BY <1>9, <1>14, <1>15

(* What levels 0 and 1 can say of an entry.                                 *)
Bare(e) == [e EXCEPT !.comment = 0]

LEMMA WrittenLevel01 ==
  ASSUME NEW e \in EntryLengths, NEW level01 \in {0, 1}, NEW h,
         WriteLevel01(e, level01) = Wrote(h), e.name # NoName
  PROVE  Sound(h) /\ h.level = level01 /\ h.meant = Bare(e)
<1> DEFINE rest == IF level01 = 0 THEN 24 ELSE 27
           head == [level |-> level01, size |-> rest + Length(e.name), name |-> e.name,
                    rest |-> rest, chain |-> NoChain, packed |-> e.data, meant |-> Bare(e)]
<1>1. /\ e.name \in NameLengths /\ e.comment \in Nat /\ e.data \in Nat
      /\ Bare(e) \in EntryLengths /\ Bare(e).name = e.name /\ Bare(e).data = e.data
      /\ Bare(e).comment = 0
  BY DEF EntryLengths, Bare
<1>2. Length(e.name) <= 200 /\ h = head
  <2>1. Refused("filename_too_long").st # "ok" /\ Wrote(h).st = "ok" /\ Wrote(h).head = h
        /\ Wrote(head).head = head
    BY DEF Refused, Wrote
  <2>2. WriteLevel01(e, level01) = IF Length(e.name) > 200 THEN Refused("filename_too_long")
                                 ELSE Wrote(head)
    BY DEF WriteLevel01, Bare
  <2>3. Length(e.name) \in Nat
    BY <1>1 DEF Length, NameLengths
  <2> HIDE DEF head
  <2>4. ~(Length(e.name) > 200) /\ h = head
    BY <2>1, <2>2
  <2> QED BY <2>3, <2>4
<1>3. rest \in {24, 27} /\ Length(e.name) \in Nat
  BY <1>1 DEF Length, NameLengths
<1>4. NoChain \in Chains /\ ChainLength(NoChain) = 0 /\ CommentOf(NoChain) = 0
  BY DEF NoChain, Chains, ChainLength, Extension, None, CommentOf
<1>5. Combined(e.name, NoChain) = e.name
  BY DEF Combined, NoChain, None
<1>6. h \in Headers
  BY <1>1, <1>2, <1>3, <1>4 DEF Headers
<1>7. lh_hdr_read(h) = Found(e.name, 0, HeaderBytes(h), h.meant.data)
  <2>1. /\ h.level \in {0, 1} /\ h.rest >= 24 /\ h.size = h.rest + Length(h.name)
        /\ h.size <= 255 /\ h.size + 2 + ChainLength(h.chain) <= Buffer
        /\ h.chain = NoChain /\ h.packed = h.meant.data + ChainLength(h.chain)
        /\ h.name = e.name
    BY <1>1, <1>2, <1>3, <1>4 DEF Buffer
  <2> QED BY <1>4, <1>5, <1>6, <2>1, ReadsLevel01
<1>8. h.level = level01 /\ h.meant = Bare(e) /\ h.level # 2
  BY <1>2
<1> QED BY <1>1, <1>6, <1>7, <1>8, FoundIsSound

(* Whatever a writer accepts is sound, and means the entry.                 *)
LEMMA WrittenIsSound ==
  ASSUME NEW e \in EntryLengths, NEW l \in 0 .. 2, e.name # NoName,
         lh_hdr_write(e, l).st = "ok"
  PROVE  /\ Sound(lh_hdr_write(e, l).head) /\ lh_hdr_write(e, l).head.level = l
         /\ lh_hdr_write(e, l).head.meant = IF l = 2 THEN e ELSE Bare(e)
         /\ lh_hdr_write(e, l) = Wrote(lh_hdr_write(e, l).head)
<1>1. PICK h : lh_hdr_write(e, l) = Wrote(h)
  <2>1. CASE l = 2
    <3>1. Refused("invalid_arg").st # "ok" /\ Refused("bad_header").st # "ok"
      BY DEF Refused
    <3> QED BY <2>1, <3>1 DEF lh_hdr_write, WriteLevel2, Level2Header
  <2>2. CASE l # 2
    <3>1. Refused("filename_too_long").st # "ok"
      BY DEF Refused
    <3> QED BY <2>2, <3>1 DEF lh_hdr_write, WriteLevel01
  <2> QED BY <2>1, <2>2
<1>2. lh_hdr_write(e, l).head = h
  BY <1>1 DEF Wrote
<1>3. Sound(h) /\ h.level = l /\ h.meant = IF l = 2 THEN e ELSE Bare(e)
  <2>1. CASE l = 2
    BY <1>1, <2>1, WrittenLevel2 DEF lh_hdr_write
  <2>2. CASE l \in {0, 1}
    BY <1>1, <2>2, WrittenLevel01 DEF lh_hdr_write
  <2> QED BY <2>1, <2>2
<1> QED BY <1>1, <1>2, <1>3

LEMMA UnreadableStops ==
  ASSUME NEW h \in Headers, Unreadable(h)
  PROVE  lh_hdr_read(h).st # "ok"
<1>1. h.level = 2 /\ h.size \in Nat /\ (h.size % 256 <= 20 \/ h.size >= Buffer - 4)
  BY DEF Headers, Unreadable
<1>2. h.size % 256 = 0 \/ h.size % 256 < 20 \/ h.size % 256 = 20 \/ h.size >= Buffer - 4
  BY <1>1 DEF Buffer
<1> QED BY <1>1, <1>2 DEF lh_hdr_read, Stops

----------------------------------------------------------------------------
(* The invariant.                                                           *)

Readers == {"list", "rewrite"}

Filed   == /\ \A i \in DOMAIN file : Sound(file[i])
           /\ \A i \in DOMAIN temp : Sound(temp[i])
InStep  == mode \in Readers => next = Len(shown) + 1
Sent    == mode = "rewrite" =>
             /\ Len(temp) = Len(shown)
             /\ \A i \in DOMAIN shown : lh_hdr_write(shown[i], level) = Wrote(temp[i])
             /\ \A i \in DOMAIN shown : ~Unreadable(file[i]) /\ shown[i] = lh_hdr_read(file[i]).entry

IInv == TypeOK /\ Filed /\ InStep /\ ShowsWhatWasMeant /\ Sent

LEMMA InitInv == Init => IInv
<1> SUFFICES ASSUME Init  PROVE IInv
  OBVIOUS
<1>1. TypeOK
  BY DEF Init, TypeOK
<1> QED BY <1>1 DEF Init, IInv, Filed, InStep, ShowsWhatWasMeant, Sent, Readers

(* A header that was read leaves the reader at the next one.                 *)
LEMMA ReadsOn ==
  ASSUME IInv, mode \in Readers, lh_reader_next.st = "ok"
  PROVE  /\ next \in DOMAIN file /\ next = Len(shown) + 1 /\ lh_reader_next = lh_hdr_read(file[next])
         /\ ~Unreadable(file[next]) /\ file[next] \in Headers
         /\ lh_reader_next.entry \in EntryLengths /\ lh_reader_next.entry.name # NoName
         /\ Conveys(file[next], lh_reader_next.entry)
         /\ After(file[next], lh_reader_next) = next + 1
<1>1. next = Len(shown) + 1 /\ Len(shown) \in Nat /\ Len(file) \in Nat /\ DOMAIN file = 1 .. Len(file)
  BY DEF IInv, InStep, TypeOK
<1>2. Stops("lost").st # "ok" /\ Stops("end").st # "ok"
  BY DEF Stops
<1>3. next \in DOMAIN file /\ lh_reader_next = lh_hdr_read(file[next])
  BY <1>1, <1>2 DEF lh_reader_next, Lost
<1>4. Sound(file[next])
  BY <1>3 DEF IInv, Filed
<1>5. file[next] \in Headers /\ ~Unreadable(file[next])
  BY <1>3, <1>4, UnreadableStops DEF Sound
<1> QED BY <1>1, <1>3, <1>4, <1>5 DEF Sound, After

LEMMA Appended ==
  ASSUME NEW S, NEW s \in Seq(S), NEW x \in S
  PROVE  /\ Append(s, x) \in Seq(S) /\ Len(Append(s, x)) = Len(s) + 1 /\ Len(s) \in Nat
         /\ DOMAIN Append(s, x) = 1 .. Len(s) + 1 /\ DOMAIN s = 1 .. Len(s)
         /\ Append(s, x)[Len(s) + 1] = x /\ \A i \in DOMAIN s : Append(s, x)[i] = s[i]
OBVIOUS

LEMMA FileInv ==
  ASSUME IInv, NEW h, Sound(h), mode = "idle", file' = Append(file, h),
         UNCHANGED <<mode, next, shown, level, temp>>
  PROVE  IInv'
<1>1. file \in Seq(Headers) /\ h \in Headers
  BY DEF IInv, TypeOK, Sound
<1>2. TypeOK'
  BY <1>1, Appended DEF IInv, TypeOK
<1>3. Filed'
  <2>1. \A i \in DOMAIN file' : Sound(file'[i])
    BY <1>1, Appended DEF IInv, Filed
  <2> QED BY <2>1 DEF IInv, Filed
<1> QED BY <1>2, <1>3 DEF IInv, InStep, ShowsWhatWasMeant, Sent, Readers

LEMMA AddInv ==
  ASSUME IInv, NEW e \in Added, Add(e)
  PROVE  IInv'
<1>1. e \in EntryLengths /\ lh_hdr_write(e, 2).st = "ok"
  BY AddedAssumption DEF Add
<1>2. e.name # NoName
  <2>1. e.name.base # 0
    <3>1. CASE lh_hdr_split_path(e.name).base = 0
      <4>1. lh_hdr_write(e, 2) = Refused("invalid_arg")
        BY <3>1 DEF lh_hdr_write, WriteLevel2, Level2Header
      <4> QED BY <1>1, <4>1 DEF Refused
    <3>2. CASE lh_hdr_split_path(e.name).base # 0
      BY <3>2 DEF lh_hdr_split_path, Least
    <3> QED BY <3>1, <3>2
  <2> QED BY <2>1 DEF NoName
<1>3. Sound(lh_hdr_write(e, 2).head)
  BY <1>1, <1>2, WrittenIsSound
<1> QED BY <1>3, FileInv DEF Add

LEMMA AddForeignInv ==
  ASSUME IInv, NEW h \in Foreign, AddForeign(h)
  PROVE  IInv'
BY ForeignAssumption, WellFormedIsSound, FileInv DEF AddForeign

LEMMA ListInv ==
  ASSUME IInv, List
  PROVE  IInv'
<1>1. mode = "list" /\ mode \in Readers /\ UNCHANGED <<file, level, temp>>
  BY DEF List, Readers
<1>2. CASE /\ lh_reader_next.st = "ok" /\ shown' = Append(shown, lh_reader_next.entry)
           /\ next' = After(file[next], lh_reader_next) /\ mode' = mode
  <2>1. /\ next \in DOMAIN file /\ next = Len(shown) + 1
        /\ lh_reader_next.entry \in EntryLengths /\ Conveys(file[next], lh_reader_next.entry)
        /\ next' = next + 1
    BY <1>1, <1>2, ReadsOn
  <2>2. shown \in Seq(EntryLengths) /\ next \in Nat /\ file \in Seq(Headers)
    BY DEF IInv, TypeOK
  <2>3. TypeOK'
    BY <1>1, <1>2, <2>1, <2>2, Appended DEF IInv, TypeOK
  <2>4. InStep'
    BY <1>2, <2>1, <2>2, Appended DEF InStep
  <2>5. ShowsWhatWasMeant'
    <3>1. Len(shown) <= Len(file) /\ \A i \in DOMAIN shown : Conveys(file[i], shown[i])
      BY <1>1 DEF IInv, ShowsWhatWasMeant
    <3>2. Len(shown') <= Len(file')
      BY <1>1, <1>2, <2>1, <2>2, Appended
    <3>3. \A i \in DOMAIN shown' : Conveys(file[i], shown'[i])
      BY <1>2, <2>1, <2>2, <3>1, Appended
    <3> QED BY <1>1, <3>2, <3>3 DEF ShowsWhatWasMeant
  <2> QED BY <1>1, <1>2, <2>3, <2>4, <2>5 DEF IInv, Filed, Sent
<1>3. CASE lh_reader_next.st # "ok" /\ mode' \in Outcomes(lh_reader_next) /\ UNCHANGED <<next, shown>>
  <2>1. mode' \in {"end", "failed"}
    BY <1>1, <1>3 DEF Outcomes
  <2> QED BY <1>1, <1>3, <2>1 DEF IInv, TypeOK, Filed, InStep, ShowsWhatWasMeant, Sent, Readers
<1> QED BY <1>2, <1>3 DEF List

LEMMA CopyInv ==
  ASSUME IInv, Copy
  PROVE  IInv'
<1>1. mode = "rewrite" /\ mode \in Readers /\ UNCHANGED <<file, level>> /\ lh_reader_next.st = "ok"
  BY DEF Copy, Readers
<1> DEFINE e == lh_reader_next.entry
           w == lh_hdr_write(e, level)
<1>2. CASE /\ w.st = "ok" /\ temp' = Append(temp, w.head)
           /\ shown' = Append(shown, e) /\ next' = After(file[next], lh_reader_next) /\ mode' = mode
  <2>1. /\ next \in DOMAIN file /\ next = Len(shown) + 1 /\ e = lh_hdr_read(file[next]).entry
        /\ e \in EntryLengths /\ e.name # NoName /\ Conveys(file[next], e)
        /\ next' = next + 1 /\ ~Unreadable(file[next])
    BY <1>1, <1>2, ReadsOn
  <2>2. /\ shown \in Seq(EntryLengths) /\ next \in Nat /\ file \in Seq(Headers)
        /\ temp \in Seq(Headers) /\ level \in 0 .. 2
    BY DEF IInv, TypeOK
  <2>3. Sound(w.head) /\ w = Wrote(w.head) /\ w.head \in Headers
    BY <1>2, <2>1, <2>2, WrittenIsSound DEF Sound
  <2> HIDE DEF w, e
  <2>4. TypeOK'
    BY <1>1, <1>2, <2>1, <2>2, <2>3, Appended DEF IInv, TypeOK
  <2>5. InStep'
    BY <1>2, <2>1, <2>2, Appended DEF InStep
  <2>6. Filed'
    <3>1. \A i \in DOMAIN temp' : Sound(temp'[i])
      BY <1>2, <2>2, <2>3, Appended DEF IInv, Filed
    <3> QED BY <1>1, <3>1 DEF IInv, Filed
  <2>7. ShowsWhatWasMeant'
    <3>1. Len(shown) <= Len(file) /\ \A i \in DOMAIN shown : Conveys(file[i], shown[i])
      BY <1>1 DEF IInv, ShowsWhatWasMeant
    <3>2. Len(shown') <= Len(file')
      BY <1>1, <1>2, <2>1, <2>2, Appended
    <3>3. \A i \in DOMAIN shown' : Conveys(file[i], shown'[i])
      BY <1>2, <2>1, <2>2, <3>1, Appended
    <3> QED BY <1>1, <3>2, <3>3 DEF ShowsWhatWasMeant
  <2>8. Sent'
    <3>1. /\ Len(temp) = Len(shown)
          /\ \A i \in DOMAIN shown : lh_hdr_write(shown[i], level) = Wrote(temp[i])
          /\ \A i \in DOMAIN shown : ~Unreadable(file[i]) /\ shown[i] = lh_hdr_read(file[i]).entry
      BY <1>1 DEF IInv, Sent
    <3>2. Len(temp') = Len(shown')
      BY <1>2, <2>1, <2>2, <2>3, <3>1, Appended
    <3>3. DOMAIN shown' = DOMAIN shown \cup {next} /\ shown'[next] = e /\ temp'[next] = w.head
          /\ \A i \in DOMAIN shown : shown'[i] = shown[i] /\ temp'[i] = temp[i]
      BY <1>2, <2>1, <2>2, <2>3, <3>1, Appended
    <3>4. lh_hdr_write(e, level) = Wrote(w.head)
      BY <2>3 DEF w
    <3>5. \A i \in DOMAIN shown' : lh_hdr_write(shown'[i], level) = Wrote(temp'[i])
      BY <3>1, <3>3, <3>4
    <3>6. \A i \in DOMAIN shown' : ~Unreadable(file[i]) /\ shown'[i] = lh_hdr_read(file[i]).entry
      BY <2>1, <3>1, <3>3
    <3> QED BY <1>1, <3>2, <3>5, <3>6 DEF Sent
  <2> QED BY <2>4, <2>5, <2>6, <2>7, <2>8 DEF IInv
<1>3. CASE mode' = "idle" /\ UNCHANGED <<next, shown, temp>>
  BY <1>1, <1>3 DEF IInv, TypeOK, Filed, InStep, ShowsWhatWasMeant, Sent, Readers
<1> QED BY <1>2, <1>3 DEF Copy

LEMMA NextInv ==
  ASSUME IInv, [Next]_vars
  PROVE  IInv'
<1>1. ASSUME NEW e \in Added, Add(e)  PROVE IInv'
  BY <1>1, AddInv
<1>2. ASSUME NEW h \in Foreign, AddForeign(h)  PROVE IInv'
  BY <1>2, AddForeignInv
<1>3. CASE StartList
  BY <1>3 DEF StartList, IInv, TypeOK, Filed, InStep, ShowsWhatWasMeant, Sent, Readers
<1>4. ASSUME NEW l \in 0 .. 2, StartRewrite(l)  PROVE IInv'
  BY <1>4 DEF StartRewrite, IInv, TypeOK, Filed, InStep, ShowsWhatWasMeant, Sent, Readers
<1>5. CASE Replace
  <2>1. mode' = "idle" /\ file' \in {file, temp} /\ UNCHANGED <<next, shown, level, temp>>
    BY <1>5 DEF Replace
  <2>2. TypeOK'
    BY <2>1 DEF IInv, TypeOK
  <2>3. Filed'
    BY <2>1 DEF IInv, Filed
  <2> QED BY <2>1, <2>2, <2>3 DEF IInv, InStep, ShowsWhatWasMeant, Sent, Readers
<1>6. CASE Close
  BY <1>6 DEF Close, IInv, TypeOK, Filed, InStep, ShowsWhatWasMeant, Sent, Readers
<1>7. CASE UNCHANGED vars
  BY <1>7 DEF vars, IInv, TypeOK, Filed, InStep, ShowsWhatWasMeant, Sent, Readers, Conveys
<1> QED BY <1>1, <1>2, <1>3, <1>4, <1>5, <1>6, <1>7, ListInv, CopyInv DEF Next

(* The inductive invariant holds in every reachable state.                  *)
THEOREM HeaderInvariance == Spec => []IInv
<1>1. IInv /\ [Next]_vars => IInv'
  BY NextInv
<1> QED BY <1>1, InitInv, PTL DEF Spec

(* The variables keep their types: no length becomes negative.              *)
THEOREM HeaderTypes == Spec => []TypeOK
<1>1. IInv => TypeOK
  BY DEF IInv
<1> QED BY <1>1, HeaderInvariance, PTL

(* What a reader returns is what was meant, in the order it was written.    *)
THEOREM ReadsWhatWasWritten == Spec => []ShowsWhatWasMeant
<1>1. IInv => ShowsWhatWasMeant
  BY DEF IInv
<1> QED BY <1>1, HeaderInvariance, PTL

----------------------------------------------------------------------------
(* Where readers stop.                                                      *)

(* A reader that does not get an entry is at the end, or at an unreadable   *)
(* header.                                                                  *)
LEMMA StopsAt ==
  ASSUME IInv, mode \in Readers, lh_reader_next.st # "ok"
  PROVE  \/ next = Len(file) + 1 /\ Outcomes(lh_reader_next) = {"end"}
         \/ next \in DOMAIN file /\ Unreadable(file[next])
<1>1. next = Len(shown) + 1 /\ Len(shown) \in Nat /\ Len(shown) <= Len(file)
      /\ Len(file) \in Nat /\ DOMAIN file = 1 .. Len(file)
  BY DEF IInv, InStep, TypeOK, ShowsWhatWasMeant, Readers
<1>2. CASE next = Len(file) + 1
  <2>1. lh_reader_next = Stops("end")
    BY <1>1, <1>2 DEF lh_reader_next, Lost
  <2>2. Outcomes(lh_reader_next) = {"end"}
    BY <2>1 DEF Outcomes, Stops
  <2> QED BY <1>2, <2>2
<1>3. CASE next # Len(file) + 1
  <2>1. next \in DOMAIN file /\ lh_reader_next = lh_hdr_read(file[next])
    BY <1>1, <1>3 DEF lh_reader_next, Lost
  <2> QED BY <2>1 DEF IInv, Filed, Sound
<1> QED BY <1>2, <1>3

Stopping ==
  mode' \in {"idle", "end", "failed"} /\ mode \in {"list", "rewrite"} =>
    \/ next = Len(file) + 1 /\ mode' # "failed"
    \/ next \in DOMAIN file /\ Unreadable(file[next])
    \/ mode = "rewrite" /\ file' = file

LEMMA NextStopping ==
  ASSUME IInv, [Next]_vars
  PROVE  Stopping
<1>1. CASE List
  <2>1. mode \in Readers /\ mode = "list"
    BY <1>1 DEF List, Readers
  <2>2. CASE lh_reader_next.st = "ok"
    BY <2>1, <2>2, <1>1 DEF List, Stopping
  <2>3. CASE lh_reader_next.st # "ok" /\ mode' \in Outcomes(lh_reader_next)
    BY <2>1, <2>3, StopsAt DEF Stopping
  <2> QED BY <1>1, <2>2, <2>3 DEF List
<1>2. CASE Copy
  BY <1>2 DEF Copy, Stopping
<1>3. CASE Replace
  <2>1. mode \in Readers /\ lh_reader_next.st # "ok" /\ mode' = "idle"
    BY <1>3 DEF Replace, Readers
  <2> QED BY <2>1, StopsAt DEF Stopping
<1>4. CASE mode \notin {"list", "rewrite"}
  BY <1>4 DEF Stopping
<1>5. CASE UNCHANGED vars
  BY <1>5 DEF vars, Stopping
<1> QED
  BY <1>1, <1>2, <1>3, <1>4, <1>5 DEF Next, Add, AddForeign, StartList, StartRewrite, Close

(* A reader stops at the end of the file, or at a header whose size it      *)
(* cannot read; and a rewrite it stops leaves the archive as it is.         *)
THEOREM ReadersStop == Spec => StopsOnlyThere
<1>1. IInv /\ [Next]_vars => Stopping
  BY NextStopping
<1>2. [][Stopping]_vars => StopsOnlyThere
  BY PTL DEF StopsOnlyThere, Stopping
<1> QED BY <1>1, <1>2, HeaderInvariance, PTL DEF Spec

----------------------------------------------------------------------------
(* What a rewrite keeps.                                                    *)

KeepsAt(old, new) ==
  /\ new.level = level
  /\ Unreadable(new) \/ ReadsAlike(old, new)
  /\ level = 2 /\ lh_hdr_write(old.meant, 2) = Wrote(old) => new.size = old.size

Keeping ==
  Rewriting => Len(file') = Len(file) /\ \A i \in DOMAIN file : KeepsAt(file[i], file'[i])

LEMMA ReplaceKeeps ==
  ASSUME IInv, Replace, file' = temp, \A i \in DOMAIN file : ~Unreadable(file[i])
  PROVE  Len(temp) = Len(file) /\ \A i \in DOMAIN file : KeepsAt(file[i], temp[i])
<1>1. mode = "rewrite" /\ mode \in Readers /\ lh_reader_next.st # "ok"
  BY DEF Replace, Readers
<1>2. next = Len(file) + 1
  BY <1>1, StopsAt
<1>3. /\ Len(temp) = Len(shown)
      /\ \A i \in DOMAIN shown : lh_hdr_write(shown[i], level) = Wrote(temp[i])
      /\ \A i \in DOMAIN shown : shown[i] = lh_hdr_read(file[i]).entry
      /\ \A i \in DOMAIN shown : Conveys(file[i], shown[i])
  BY <1>1 DEF IInv, Sent, ShowsWhatWasMeant
<1>4. Len(shown) = Len(file) /\ DOMAIN shown = DOMAIN file
  BY <1>1, <1>2 DEF IInv, InStep, TypeOK
<1>5. ASSUME NEW i \in DOMAIN file
      PROVE  KeepsAt(file[i], temp[i])
  <2>1. /\ lh_hdr_write(shown[i], level) = Wrote(temp[i])
        /\ shown[i] = lh_hdr_read(file[i]).entry /\ Conveys(file[i], shown[i])
    BY <1>3, <1>4
  <2>2. Sound(file[i]) /\ ~Unreadable(file[i]) /\ file[i] \in Headers /\ level \in 0 .. 2
    BY DEF IInv, Filed, Sound, TypeOK
  <2>3. shown[i] \in EntryLengths /\ shown[i].name # NoName
    BY <2>1, <2>2 DEF Sound
  <2>4. Wrote(temp[i]).st = "ok" /\ Wrote(temp[i]).head = temp[i]
    BY DEF Wrote
  <2>5. /\ Sound(temp[i]) /\ temp[i].level = level
        /\ temp[i].meant = IF level = 2 THEN shown[i] ELSE Bare(shown[i])
    BY <2>1, <2>2, <2>3, <2>4, WrittenIsSound
  <2>7. ASSUME ~Unreadable(temp[i])
        PROVE  ReadsAlike(file[i], temp[i])
    <3> DEFINE was == lh_hdr_read(file[i]).entry
               now == lh_hdr_read(temp[i]).entry
    <3>1. lh_hdr_read(temp[i]).st = "ok" /\ Conveys(temp[i], now)
      BY <2>5, <2>7 DEF Sound
    <3>2. was \in EntryLengths /\ temp[i].meant = IF level = 2 THEN was ELSE Bare(was)
      BY <2>1, <2>3, <2>5
    <3> HIDE DEF was, now
    <3>3. temp[i].meant.name = was.name /\ temp[i].meant.data = was.data
          /\ (level = 2 => temp[i].meant.comment = was.comment)
      BY <3>2 DEF Bare, EntryLengths
    <3>4. /\ now.data = was.data /\ (temp[i].level = 2 => now.comment = was.comment)
          /\ (temp[i].level = 2 /\ TooLong(was.name)) \/ now.name = was.name
      BY <2>5, <3>1, <3>3 DEF Conveys
    <3> QED BY <3>1, <3>4 DEF ReadsAlike, was, now
  <2>6. ASSUME level = 2, lh_hdr_write(file[i].meant, 2) = Wrote(file[i])
        PROVE  temp[i].size = file[i].size
    <3>1. file[i].meant \in EntryLengths
      BY <2>2 DEF Headers
    <3>2. PICK head : WriteLevel2(lh_hdr_read(file[i]).entry) = Wrote(head)
                      /\ head.size = file[i].size
      BY <2>2, <2>6, <3>1, WrittenLevel2 DEF lh_hdr_write
    <3>3. Wrote(temp[i]) = Wrote(head)
      BY <2>1, <2>6, <3>2 DEF lh_hdr_write
    <3>4. temp[i] = head
      BY <3>3 DEF Wrote
    <3> QED BY <3>2, <3>4
  <2> QED BY <2>5, <2>6, <2>7 DEF KeepsAt
<1> QED BY <1>3, <1>4, <1>5

LEMMA NextKeeping ==
  ASSUME IInv, [Next]_vars
  PROVE  Keeping
<1>1. CASE Replace
  <2>1. file' = temp \/ file' = file
    BY <1>1 DEF Replace
  <2> QED BY <1>1, <2>1, ReplaceKeeps DEF Keeping, Rewriting
<1>2. CASE mode # "rewrite" \/ file' = file
  BY <1>2 DEF Keeping, Rewriting
<1> QED
  BY <1>1, <1>2 DEF Next, vars, Add, AddForeign, StartList, StartRewrite, List, Copy, Close

(* A rewrite of readable headers loses no entry: of every new header that   *)
(* can be read, a reader gets the data and the name it got of the old one,  *)
(* and at level 2 the comment; a name too long for level 2 may be cut.  One *)
(* to level 2 gives the headers written at level 2 the size they had.       *)
THEOREM RewritesKeep == Spec => RewriteKeeps
<1>1. IInv /\ [Next]_vars => Keeping
  BY NextKeeping
<1>2. [][Keeping]_vars => RewriteKeeps
  BY PTL DEF RewriteKeeps, Keeping, KeepsAt
<1> QED BY <1>1, <1>2, HeaderInvariance, PTL DEF Spec

=============================================================================

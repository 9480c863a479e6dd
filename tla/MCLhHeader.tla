----------------------------- MODULE MCLhHeader -----------------------------
(* Names and comments around the lengths at which sizes, fields and buffers  *)
(* are full, and headers as other programs write them.                       *)
EXTENDS LhHeader

Entry(dir, base, comment, data) ==
  [name |-> [dir |-> dir, base |-> base], comment |-> comment, data |-> data]

(* Level 2: sizes 39, 255, 256 with its pad, 257, 275 to 277, 1018 to 1024.  *)
Sizes == {Entry(0, 5, c, d) : c \in {0, 213, 214, 215, 233, 234, 235, 976, 977, 978, 981, 982},
                              d \in {0, 1}}
Names == {Entry(0, 200, 0, 1), Entry(0, 201, 0, 1), Entry(0, 222, 0, 1), Entry(0, 243, 0, 1),
          Entry(0, 255, 0, 1), Entry(0, 256, 9, 1), Entry(510, 5, 0, 1), Entry(511, 5, 0, 1),
          Entry(512, 5, 0, 1), Entry(194, 5, 0, 1), Entry(195, 5, 0, 1), Entry(4, 0, 0, 0)}
MCAdded == Sizes \cup Names

Chain(other, base, path, sep, comment) ==
  [other |-> other, file |-> base, path |-> path, sep |-> sep, comment |-> comment]
Two(chain, e) ==
  [level |-> 2, size |-> Padded(26 + ChainLength(chain)), name |-> NoName, rest |-> 0,
   chain |-> chain, packed |-> e.data, meant |-> e]
One(inline, chain, e) ==
  [level |-> 1, size |-> 25 + Length(inline), name |-> inline, rest |-> 25,
   chain |-> chain, packed |-> e.data + ChainLength(chain), meant |-> e]
Zero(rest, e) ==
  [level |-> 0, size |-> rest + Length(e.name), name |-> e.name, rest |-> rest,
   chain |-> NoChain, packed |-> e.data, meant |-> e]

(* A drawer named in the path alone, one with an empty name as well, unknown *)
(* extensions, names in the header and behind it, and short headers.         *)
MCForeign ==
  {Two(Chain(2, None, 6, 1, None), Entry(0, 5, 0, 0)),
   Two(Chain(12, 0, 6, 1, None), Entry(0, 5, 0, 0)),
   Two(Chain(200, 5, 6, 1, None), Entry(5, 5, 0, 1)),
   One([dir |-> 0, base |-> 5], Chain(40, None, 6, 1, 9), Entry(5, 5, 9, 1)),
   One(NoName, Chain(None, 5, 6, 1, None), Entry(5, 5, 0, 1)),
   Zero(20, Entry(3, 5, 0, 1)), Zero(22, Entry(0, 5, 0, 0))}
=============================================================================

---------------------------- MODULE MCLhScan ----------------------------
(* Archives with a drawer d, files in it, an icon and a place to move to.  *)
EXTENDS LhScan

CONSTANTS x, y

D == <<"d">>
F == <<"d", "f">>
G == <<"d", "g">>
E == <<"e">>
EF == <<"e", "f">>
I == <<"d.info">>

AllNames == {D, F, G, E, EF, I}
MCIcons == [n \in {I} |-> D]
MCDisks == {<<FileEntry(F, <<x>>), DirEntry(I), FileEntry(G, <<y>>)>>,
            <<FileEntry(G, <<y>>), DirEntry(D), FileEntry(F, <<x>>)>>}
MCAdditions == {FileEntry(G, <<x>>)}
=============================================================================

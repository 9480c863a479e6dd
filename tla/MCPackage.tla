----------------------------- MODULE MCPackage -----------------------------
(* Stages of a few files for one or two destinations, hosts from a plain      *)
(* 68000 to a PowerPC, and files, old packages and Manifests in the way.      *)
EXTENDS Package, TLC

MCTag == <<"$", ":">>
MCAssign == <<"Libs">> :> <<"LIBS:">> @@ <<"C">> :> <<"C:">>
MCSpaced == "020 b" :> "020"

Text(cells) == MCTag \o <<" ", "n", " ">> \o cells \o <<"end">>
V41 == Text(<<"4", ".", "1">>)
V42 == Text(<<"4", ".", "2">>)
V412 == Text(<<"4", ".", "1", "2">>)
DatedIn(year) == MCTag \o <<" ", "4", ".", "1", " ", "(", "1", "/", "2", ".">> \o year \o <<")", "end">>
Dated(y) == DatedIn(<<y>>)
Century == DatedIn(<<"1", "9", "9", "8">>)           \* its last digit is cut off
Pushed(n, text) == [i \in 1 .. n |-> "x"] \o text    \* a tag further into the file
Untagged == <<"x", "4", ".", "1", "end">>
Garbled == Text(<<"x">>)

Lib(tags) == <<<<"Libs">>, <<"b", "library">> \o tags>>
Files(texts) == [p \in DOMAIN texts |-> texts[p]]

Quiet == [lines |-> <<>>, open |-> FALSE]
Req(name, min) == [key |-> "Requires", name |-> name, val |-> min]
OS(v) == [key |-> "OS", name |-> "", val |-> v]
Asks == [lines |-> <<OS(<<"4", "7", ".", "1", " ", "x">>), Req("asl", <<"4", ".", "2">>)>>, open |-> FALSE]
Trails == [lines |-> <<Req("asl", <<>>), Req("", <<>>)>>, open |-> TRUE]
Spoils == [Trails EXCEPT !.open = FALSE]
Clutters == [lines |-> <<OS(<<"x">>), Req("asl", <<>>), Req("asl", <<"4">>), Req("asl", <<>>)>>,
             open |-> FALSE]

Host(cpu, fpu, ppc, os, libs) ==
    [cpu |-> cpu, fpu |-> fpu, wos |-> ppc = "wos", pup |-> ppc = "pup", os |-> os, libs |-> libs]
NoLibs == [l \in {} |-> <<0, 0>>]
A500 == Host(0, "none", "no", <<34, 2>>, NoLibs)
A1200 == Host(20, "881", "no", <<47, 1>>, "asl" :> <<4, 2>>)
A3000 == Host(30, "882", "no", <<47, 0>>, "asl" :> <<4, 3>>)
A4000 == Host(40, "040", "wos", <<48, 0>>, "asl" :> <<4, 1>>)

Case(sys, stg, staged, host, inst) ==
    [sys |-> sys, stage |-> stg, staged |-> staged, version |-> <<>>,
     primary |-> CHOOSE p \in DOMAIN stg : stg[p] # Untagged \/ \A q \in DOMAIN stg : stg[q] = Untagged,
     force |-> TRUE, readme |-> FALSE,
     old |-> NoBin, host |-> host, to |-> <<"Work:">>, again |-> FALSE, installed |-> inst]

Dest == <<<<"LIBS:">>, <<"b", "library">>>>
Old == [man |-> [version |-> <<4, 1>>, os |-> <<>>, reqs |-> <<>>,
                 files |-> <<handle_add_file(TRUE, Lib(<<>>))>>],
        held |-> MemberName(TRUE, Lib(<<>>)) :> V41, there |-> TRUE]
Clean == [p \in {} |-> <<>>]

Same(tagsets, text) == [p \in {Lib(t) : t \in tagsets} |-> text]
Hosts == {A500, A1200, A3000, A4000}

Overflows == [lines |-> <<Req("asl", <<>>), Req("asl", <<>>), Req("muimaster", <<>>)>>,
              open |-> TRUE]

(* Which of several files is installed, and what is asked for.               *)
Choices ==
    {Case(TRUE, Same(ts, V41), Quiet, h, Clean) :
        ts \in {{<<>>, <<"020", "881">>}, {<<"881", "mmu">>, <<"882">>},
                {<<"020">>, <<"wos">>}, {<<"030">>, <<"040", "020">>},
                {<<>>, <<"exe">>}, {<<"wos", "pup">>, <<>>}},
        h \in Hosts}
      \cup {Case(TRUE, Same({t, <<"wos">>, <<"020", "881">>}, V41), Quiet, h, Clean) :
              t \in {<<>>, <<"030", "882">>}, h \in {A500, A4000}}
      \cup {Case(TRUE, Same({<<>>, <<"020">>}, V41), Asks, h, Clean) : h \in Hosts}
      \cup {Case(TRUE, Same({<<>>, <<"020">>}, V41), m, A1200, Clean) :
              m \in {Trails, Spoils, Clutters, Overflows}}

(* What stands at the destination, and how the tags lie in the files.        *)
Upgrades ==
    {Case(TRUE, Same({<<>>}, new), Quiet, A1200, Dest :> old) :
        new \in {V41, V42, V412, Pushed(8, V412), Dated("9"), Dated("3"), Century},
        old \in {V41, V42, Pushed(8, V412), Dated("5"), DatedIn(<<"9", "8">>), Untagged, Garbled, <<>>}}
      \cup {[Case(TRUE, Same({<<>>}, V41), Quiet, A1200, Dest :> V42) EXCEPT !.again = TRUE]}

Others ==
    LET C == <<<<"C">>, <<"b">>>>
        two == Lib(<<>>) :> V41 @@ C :> V41
    IN {Case(TRUE, two, Quiet, A1200, inst) : inst \in {Clean, Dest :> V42, <<<<"C:">>, <<"b">>>> :> Garbled}}
         \cup {Case(TRUE, two @@ Lib(<<"020">>) :> t, Quiet, A1200, Clean) : t \in {V42, Untagged, <<>>}}
         \cup {Case(TRUE, two @@ Lib(<<"020", "881">>) :> V41 @@ Lib(<<"030">>) :> V41, Quiet,
                    A1200, Clean)}
         \cup {Case(TRUE, two @@ <<<<"", "git">>, <<"b">>>> :> V42 @@ <<<<"b">>>> :> Untagged
                          @@ <<<<"Libs">>, Manifest>> :> V41, Quiet, A1200, Clean),
               Case(TRUE, Same({<<>>, <<"020">>, <<"020 b">>}, V41), Quiet, A500, Clean)}
         \cup {[Case(FALSE, <<<<"b">>>> :> t @@ <<<<"d">>, <<"b", "020">>>> :> V41
                        @@ <<n>> :> V41, Quiet, h, Clean) EXCEPT !.readme = TRUE] :
                 t \in {V41, Untagged}, n \in {Manifest, AutoShow, <<"c">>}, h \in {A500, A1200}}
         \cup {Case(FALSE, <<<<"b">>>> :> Untagged, Quiet, A500, Clean)}
         \cup {[Case(TRUE, two, Quiet, A1200, Clean) EXCEPT !.old = Old, !.force = f, !.version = v] :
                 f \in BOOLEAN, v \in {<<>>, <<"4", ".", "1", ".", "7">>, <<"4">>}}

(* An old package that lists less than the stage has.                        *)
Outdated == {[Case(TRUE, Same({<<>>, <<"020">>}, V41), Quiet, A1200, Clean) EXCEPT !.old = Old]}

MCCases == Choices \cup Upgrades \cup Others \cup Outdated
MCDrafts == {V42}
=============================================================================

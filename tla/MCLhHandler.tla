--------------------------- MODULE MCLhHandler ---------------------------
(***************************************************************************)
(* Instances of LhHandler for TLC: archives of one volume that hold a      *)
(* directory d, a file in it and, perhaps, the icon of that directory.     *)
(***************************************************************************)
EXTENDS LhHandler

CONSTANTS chunk      \* the one piece of data

D == <<"d">>
F == <<"d", "f">>
I == <<"d.info">>

AllNames == {D, F, I}
TwoNames == {D, F}
DrawerIcon == [n \in {I} |-> D]
NoIcons == [n \in {} |-> D]

Plain(cat) == [cat |-> cat, marked |-> FALSE]

\* d only implied by the name of a file in it; d with a header of its own
Implied == <<FileEntry(F, <<chunk>>)>>
Explicit == <<DirEntry(D), FileEntry(F, <<chunk>>)>>

Everywhere(files) == {[p \in Paths |-> f] : f \in files}

AnyDisks == Everywhere({Plain(Implied), Junk, HostDir, Absent})

\* no file that passes through the handler as a host file
CleanDisks == Everywhere({Plain(Implied), Plain(Explicit), HostDir, Absent})

\* no call fails; any one call of a packet fails
NoFaults == {{}}
OneFault == {{}} \cup {{i} : i \in 1 .. 6}
=============================================================================

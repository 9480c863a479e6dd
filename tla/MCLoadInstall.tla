---------------------------- MODULE MCLoadInstall ----------------------------
(* Small packages for two destinations: an old a, and a newer a with b; one  *)
(* of the files installed before is of the newer Version, but older.         *)
EXTENDS LoadInstall, TLC

CONSTANTS a, b, a1, a2, b2, c2

MCVersion ==
  a1 :> [rel |-> 1, date |-> 0] @@ a2 :> [rel |-> 2, date |-> 5]
    @@ b2 :> [rel |-> 2, date |-> 0] @@ c2 :> [rel |-> 2, date |-> 3]
MCInstalled == {[d \in {a, b} |-> None], a :> a1 @@ b :> None, a :> c2 @@ b :> None}
MCPackages ==
  {[rel |-> 1, files |-> <<[dest |-> a, body |-> a1]>>],
   [rel |-> 2, files |-> <<[dest |-> a, body |-> a2], [dest |-> b, body |-> b2]>>]}
=============================================================================

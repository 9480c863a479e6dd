---------------------------- MODULE MCArchiveFile ----------------------------
(* Archives of up to two entries, with and without an end mark or a cut end. *)
EXTENDS ArchiveFile

CONSTANTS a, b, x

E(n, d) == [name |-> n, data |-> d, part |-> "whole"]

MCInitFiles ==
  {NoFile, <<E(a, x), E(b, Empty)>>, <<E(a, x), E(b, x), Mark>>,
   <<E(b, x), [E(a, x) EXCEPT !.part = "payload"]>>}
MCAdditions == {<<E(b, x)>>, <<E(a, Empty), E(b, x)>>}
=============================================================================

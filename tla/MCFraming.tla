---- MODULE MCFraming ----
(***************************************************************************)
(* Instances of Framing: plain bodies, one that ends in the first byte of  *)
(* a mark, and one that holds the end of a frame and the start of another. *)
(***************************************************************************)
EXTENDS Framing

PlainBodies == {<<"x">>}
MarkBodies == {<<"x">>, <<"x", "x", "!">>, <<"x", "!", "#", "!", "&", "x">>}
====

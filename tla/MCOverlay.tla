---- MODULE MCOverlay ----
(***************************************************************************)
(* The overlay of the repository's topology.dat, four hosts and five       *)
(* links, in the order of its lines.                                       *)
(***************************************************************************)
EXTENDS Overlay

Line(host1, host2, cost) == [host1 |-> host1, host2 |-> host2, cost |-> cost]

\* Node IDs are the last byte of the hosts' addresses; any four will do.
kancamagus == 2
tahoe == 3
bear == 1
spruce == 4

DatLines == << Line(kancamagus, tahoe, 2),
               Line(bear, tahoe, 3),
               Line(spruce, kancamagus, 4),
               Line(spruce, bear, 5),
               Line(spruce, tahoe, 7) >>
====

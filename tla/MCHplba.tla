------------------------------ MODULE MCHplba -------------------------------
(***************************************************************************)
(* Small instances of the driver: the chipsets of its root bridges.        *)
(***************************************************************************)
EXTENDS Hplba

CONSTANTS b1, b2, c1, c2

\* One Apollo bridge, and a Mercury bridge where there are two.
MCchip == [l \in Lba |-> IF l = b1 THEN "apollo" ELSE "mercury"]

\* One client uses both bridges, the other the first one only.
MCOpens == [c \in Client |-> IF c = c1 THEN Lba ELSE {b1}]

=============================================================================

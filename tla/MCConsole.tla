----------------------------- MODULE MCConsole -----------------------------
(* A second of four units; speeds whose intervals are a whole second, a    *)
(* divisor, a rounded part of it and less than a unit.                     *)
EXTENDS Console

MCSpeeds == {0, 1, 2, 3, 5}
MCStarts == {0, 7}
=============================================================================

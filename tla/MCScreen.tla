------------------------------ MODULE MCScreen ------------------------------
(* The sizes of the code, with terminals from none at all to larger than   *)
(* the buffer and maps up to the largest side.                             *)
EXTENDS Screen

MCTerminals == [rows : {0, 1, 7, 8, 24, 600}, cols : {0, 1, 4, 5, 9, 10, 80, 600}]
MCMaps == {[rows |-> 11, cols |-> 13], [rows |-> 255, cols |-> 253],
           [rows |-> 1, cols |-> 254], [rows |-> 255, cols |-> 255]}
=============================================================================

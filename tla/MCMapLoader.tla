---------------------------- MODULE MCMapLoader ----------------------------
(* All files of up to four tokens, under headers at the limits of a field. *)
EXTENDS MapLoader

SmallHeader == [read |-> 6, rows |-> 2, cols |-> 2, speed |-> 3, duration |-> 5, radius |-> 1,
                timer |-> 60]
MCHeaders ==
  { SmallHeader, [SmallHeader EXCEPT !.read = 5],
    [SmallHeader EXCEPT !.rows = 0], [SmallHeader EXCEPT !.rows = 256],
    [SmallHeader EXCEPT !.cols = -1], [SmallHeader EXCEPT !.cols = 1],
    [SmallHeader EXCEPT !.radius = 256, !.timer = 65536],
    [SmallHeader EXCEPT !.speed = 0, !.duration = -7, !.radius = 300] }

MCTokens == {"1", "2", "3", "S", "H", "x"}
MCFiles  == UNION {[1..n -> MCTokens] : n \in 0..4}
=============================================================================

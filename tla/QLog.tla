-------------------------------- MODULE QLog --------------------------------
(***************************************************************************)
(* The client's message log: qlogf of client/client.c writes into a ring   *)
(* of lines, draw_qlog of client/ui.c shows the last of them.              *)
(***************************************************************************)
EXTENDS Integers, Sequences

CONSTANTS Count,             \* MAX_CLIENT_LOG_COUNT, 16
          Line, Blank,       \* Blank: what memset left
          MaxLines           \* bound: lines logged
ASSUME CountAssumption == Count \in Nat /\ Count >= 2

VARIABLES qlog, qlog_beg, qlog_end,
          lines              \* history: all that was logged
vars == <<qlog, qlog_beg, qlog_end, lines>>

Init ==
  /\ qlog = [i \in 0..(Count - 1) |-> Blank]
  /\ qlog_beg = 0 /\ qlog_end = 0 /\ lines = << >>

NextBeg(end) == IF qlog_beg = end THEN (qlog_beg + 1) % Count ELSE qlog_beg

Log(line) ==
  /\ qlog' = [qlog EXCEPT ![qlog_end] = line]
  /\ qlog_end' = (qlog_end + 1) % Count
  /\ qlog_beg' = NextBeg(qlog_end')
  /\ lines' = Append(lines, line)

Next == Len(lines) < MaxLines /\ \E line \in Line : Log(line)
Spec == Init /\ [][Next]_vars
-----------------------------------------------------------------------------
(* draw_qlog, in a box with room for so many lines. *)
Total == (qlog_end + Count - qlog_beg) % Count
Visible(room) == IF room > Total THEN Total ELSE room

BadShown(room) ==                         \* from the oldest line on
  [i \in 1..Visible(room) |-> qlog[(qlog_beg + i - 1) % Count]]
Shown(room) ==
  LET first == (qlog_end + Count - Visible(room)) % Count
  IN  [i \in 1..Visible(room) |-> qlog[(first + i - 1) % Count]]

(* Least of the lines there are, the room there is and the ring but one. *)
Kept(room) == LET n == IF Len(lines) < Count THEN Len(lines) ELSE Count - 1
              IN  IF room < n THEN room ELSE n

(* Whatever the box has room for, it shows the latest lines, in the order  *)
(* they came, also when the ring has wrapped; the ring keeps one fewer     *)
(* than it has places.                                                     *)
ShowsLatest ==
  \A room \in 0..Count :
    Shown(room) = SubSeq(lines, Len(lines) - Kept(room) + 1, Len(lines))

TypeOK ==
  /\ qlog \in [0..(Count - 1) -> Line \cup {Blank}]
  /\ qlog_beg \in 0..(Count - 1) /\ qlog_end \in 0..(Count - 1)
  /\ lines \in Seq(Line)
=============================================================================

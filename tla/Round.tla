------------------------------- MODULE Round -------------------------------
(***************************************************************************)
(* What the server promises its players about a round, without a board, a  *)
(* clock or a network: who is seated, who has asked to play, who is still  *)
(* in the game, and when the game may start and end.  Server implements    *)
(* it (RefinesRound); nobody comes back to life in a round, nobody who     *)
(* sits down late takes part, and a round ends only when it is decided.    *)
(***************************************************************************)
CONSTANT Player

VARIABLES stage, seated, willing, inGame
vars == <<stage, seated, willing, inGame>>

TypeOK ==
  /\ stage \in {"LOBBY", "RUNNING", "END"}
  /\ seated \subseteq Player
  /\ willing \subseteq seated
  /\ inGame \subseteq seated

Several(S) == \E p, q \in S : p # q

Init == stage = "LOBBY" /\ seated = {} /\ willing = {} /\ inGame = {}

Sit(p) ==
  /\ p \in Player \ seated
  /\ seated' = seated \cup {p}
  /\ UNCHANGED <<stage, willing, inGame>>

StandUp(p) ==
  /\ p \in seated
  /\ seated' = seated \ {p}
  /\ willing' = willing \ {p}
  /\ inGame' = inGame \ {p}
  /\ UNCHANGED stage

(* A player asks to play; in the lobby the last of two or more to ask      *)
(* starts the game, for everybody who is seated.                           *)
Ask(p) ==
  /\ p \in seated
  /\ willing' = willing \cup {p}
  /\ IF stage = "LOBBY" /\ willing' = seated /\ Several(seated)
     THEN stage' = "RUNNING" /\ inGame' = seated
     ELSE UNCHANGED <<stage, inGame>>
  /\ UNCHANGED seated

(* Players lose their life, several at once if one blast takes them. *)
Perish(S) ==
  /\ stage = "RUNNING"
  /\ S # {} /\ S \subseteq inGame
  /\ inGame' = inGame \ S
  /\ UNCHANGED <<stage, seated, willing>>

Finish ==
  /\ stage = "RUNNING"
  /\ ~Several(inGame) /\ Several(seated)
  /\ stage' = "END"
  /\ UNCHANGED <<seated, willing, inGame>>

(* Anyone seated may call everybody back to the lobby, to ask again. *)
Rematch ==
  /\ stage = "END" /\ seated # {}
  /\ stage' = "LOBBY"
  /\ willing' = {} /\ inGame' = {}
  /\ UNCHANGED seated

Next ==
  \/ \E p \in Player : Sit(p) \/ StandUp(p) \/ Ask(p)
  \/ \E S \in SUBSET inGame : Perish(S)
  \/ Finish
  \/ Rematch

Spec == Init /\ [][Next]_vars

=============================================================================

------------------------------ MODULE Channel ------------------------------
(***************************************************************************)
(* What a connection promises the game: the messages of one side reach the *)
(* other whole, in order, each once and unaltered, until it breaks.        *)
(***************************************************************************)
EXTENDS Naturals, Sequences

CONSTANT Message
VARIABLES sent, delivered, open
vars == <<sent, delivered, open>>

Init == sent = << >> /\ delivered = << >> /\ open = TRUE

Send == \E m \in Message : sent' = Append(sent, m) /\ UNCHANGED <<delivered, open>>

Deliver ==
  /\ open /\ Len(delivered) < Len(sent)
  /\ delivered' = Append(delivered, sent[Len(delivered) + 1])
  /\ UNCHANGED <<sent, open>>

Break == open /\ open' = FALSE /\ UNCHANGED <<sent, delivered>>

Next == Send \/ Deliver \/ Break
Spec == Init /\ [][Next]_vars
=============================================================================

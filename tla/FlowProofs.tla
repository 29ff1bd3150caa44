----------------------------- MODULE FlowProofs -----------------------------
(***************************************************************************)
(* What can end the server, for any number of clients, buffers and         *)
(* messages.                                                               *)
(***************************************************************************)
EXTENDS Flow, TLAPS

LEMMA TypeInit == Init => TypeOK
BY DEF Init, TypeOK

LEMMA TypeStep == TypeOK /\ [Next]_vars => TypeOK'
<1> SUFFICES ASSUME TypeOK, [Next]_vars PROVE TypeOK'
  OBVIOUS
<1> USE DEF TypeOK
<1>1. CASE Poll
  BY <1>1 DEF Poll, outbox
<1>2. CASE Tick \/ TickEnds
  BY <1>2 DEF Tick, TickEnds, outbox
<1>3. CASE Compose
  BY <1>3 DEF Compose
<1>4. ASSUME NEW c \in Clients, Handle(c) PROVE TypeOK'
  BY <1>4 DEF Handle
<1>5. ASSUME NEW c \in Clients, Disconnect(c) PROVE TypeOK'
  BY <1>5 DEF Disconnect
<1>6. ASSUME NEW c \in Clients, Send(c) PROVE TypeOK'
  <2>1. /\ due' \subseteq due /\ server' \in {server, "dead"}
        /\ link' \in [Clients -> {"open", "closed", "poked", "reset", "broken"}]
        /\ UNCHANGED <<readfds, active, doomed, client>>
    BY <1>6 DEF Send, Sent, Done
  <2> QED
    BY <2>1
<1>7. ASSUME NEW c \in Clients, ClientStep(c) \/ Reset(c) PROVE TypeOK'
  BY <1>7 DEF ClientStep, Pass, SendGoesOn, Stop, Quit, Reset, outbox
<1>8. CASE UNCHANGED vars
  BY <1>8 DEF vars, outbox
<1> QED
  BY <1>1, <1>2, <1>3, <1>4, <1>5, <1>6, <1>7, <1>8 DEF Next, ServerStep

(* The fields of the table, the sets of clients at work and the links keep *)
(* their types: only connected clients are served, dropped or sent to.     *)
THEOREM TypeCorrect == Spec => []TypeOK
BY TypeInit, TypeStep, PTL DEF Spec

-----------------------------------------------------------------------------
(* A link is no longer open only when its client has gone; a dead server   *)
(* died in a send over a broken one.                                       *)
LinkInv ==
  /\ \A c \in Clients : link[c] # "open" => client[c] = "gone"
  /\ server = "dead" => \E c \in active : First(c) /\ link[c] = "broken"

LEMMA LinkStep == TypeOK /\ LinkInv /\ [Next]_vars => LinkInv'
<1> SUFFICES ASSUME TypeOK, LinkInv, [Next]_vars PROVE LinkInv'
  OBVIOUS
<1> USE DEF LinkInv, First
<1>0. ASSUME UNCHANGED <<server, active, due, client, link>> PROVE LinkInv'
  BY <1>0
<1>1. ASSUME server # "dead", server' # "dead", UNCHANGED <<client, link>> PROVE LinkInv'
  BY <1>1
<1>2. CASE Poll \/ Tick \/ TickEnds
  BY <1>1, <1>2 DEF Poll, Tick, TickEnds
<1>3. CASE Compose
  BY <1>1, <1>3 DEF Compose
<1>4. ASSUME NEW c \in Clients, Handle(c) \/ Disconnect(c) PROVE LinkInv'
  BY <1>1, <1>4 DEF Handle, Disconnect
<1>5. ASSUME NEW c \in Clients, Send(c) PROVE LinkInv'
  <2>1. client' = client /\ active' = active /\ server # "dead" /\ c \in active
    BY <1>5 DEF Send, TypeOK
  <2>2. CASE server' # "dead"
    BY <1>5, <2>1, <2>2 DEF Send, TypeOK
  <2>3. CASE server' = "dead"
    <3>1. link[c] = "broken" /\ link' = link /\ due' = due /\ First(c)
      BY <1>5, <2>1, <2>3 DEF Send
    <3> QED
      BY <2>1, <3>1
  <2> QED
    BY <2>2, <2>3
<1>6. ASSUME NEW c \in Clients, Reset(c) PROVE LinkInv'
  BY <1>6 DEF Reset, TypeOK, outbox
<1>7. ASSUME NEW c \in Clients, Quit(c) PROVE LinkInv'
  <2>1. /\ client' = [client EXCEPT ![c] = "gone"] /\ client[c] # "gone"
        /\ \A d \in Clients \ {c} : link'[d] = link[d]
        /\ UNCHANGED <<server, active, due>>
    BY <1>7 DEF Quit, TypeOK, outbox
  <2>2. link[c] = "open"
    BY <2>1
  <2> QED
    BY <2>1, <2>2 DEF TypeOK
<1>8. ASSUME NEW c \in Clients, Pass(c) \/ SendGoesOn(c) \/ Stop(c) PROVE LinkInv'
  <2>1. /\ UNCHANGED <<server, active, due, link>> /\ client[c] # "gone"
        /\ \A d \in Clients \ {c} : client'[d] = client[d]
    BY <1>8 DEF Pass, SendGoesOn, Stop, TypeOK, outbox
  <2> QED
    BY <2>1
<1>9. CASE UNCHANGED vars
  BY <1>0, <1>9 DEF vars, outbox
<1> QED
  BY <1>2, <1>3, <1>4, <1>5, <1>6, <1>7, <1>8, <1>9 DEF Next, ServerStep, ClientStep

(* SIGPIPE ends the server only over a client that has left and that it    *)
(* still counts as connected.                                              *)
THEOREM DiesOnlyOfTheUnnoticedHolds == Spec => []DiesOnlyOfTheUnnoticed
<1>1. Init => TypeOK /\ LinkInv
  BY TypeInit DEF Init, LinkInv
<1>2. TypeOK /\ LinkInv /\ [Next]_vars => (TypeOK /\ LinkInv)'
  BY TypeStep, LinkStep
<1>3. TypeOK /\ LinkInv => DiesOnlyOfTheUnnoticed
  BY DEF TypeOK, LinkInv, DiesOnlyOfTheUnnoticed
<1> QED
  BY <1>1, <1>2, <1>3, PTL DEF Spec
=============================================================================

------------------------------ MODULE Session ------------------------------
(***************************************************************************)
(* The server together with one of its clients and the connection between  *)
(* them: what every action of Server sends to that client, in the order it *)
(* sends it, and the client's copy of the game.  TCP keeps the messages in *)
(* order and loses none while both ends live.  The other clients, and what *)
(* this one sends, are as free as in Server.                               *)
(*                                                                         *)
(* Bad... definitions are faulty variants of the next one, outside the     *)
(* model.                                                                  *)
(***************************************************************************)
EXTENDS Server, Client, Sequences, SequencesExt

CONSTANTS Watcher,    \* the slot whose client is modelled
          Window      \* bound: the server is ahead of the client by no more messages than
                      \* this when it begins a step (send blocks when the buffers are full)
ASSUME SessionAssumption == Watcher \in Slot /\ Window \in Nat

VARIABLES view,       \* the client's copy of the game
          wire        \* sent to the client and not yet read
sessionState == <<vars, view, wire>>

SInit == Init /\ view = FreshView /\ wire = << >>

-----------------------------------------------------------------------------
(* Messages, made from the state the server is in when it sends them *)

Welcome(c) == [type |-> "WELCOME", status |-> status, others |-> active \ {c},
               ready |-> (ready \cap active) \ {c}]
Status     == [type |-> "SET_STATUS", status |-> status']
Map        == [type |-> "MAP", cells |-> cells']
Sync       == [type |-> "SYNC_BOARD", status |-> status', players |-> active',
               alive |-> (alive \cap active)', ready |-> (ready \cap active)',
               pos |-> pos', kit |-> kit']
Of(t, player) == [type |-> t, player |-> player]
At(t, cell)   == [type |-> t, cell |-> cell]

(* server_send_to_client and server_broadcast, as far as they concern the  *)
(* watcher; what is sent to a client that has died is lost.                *)
Send(messages) ==
  /\ view' = view
  /\ wire' = IF Watcher \in active /\ view.running THEN wire \o messages ELSE wire

(* The connection begins with a new process, or ends with its process. *)
NewConnection == view' = FreshView /\ wire' = << >>

If(cond, messages) == IF cond THEN messages ELSE << >>

-----------------------------------------------------------------------------
(* What every action of the server sends *)

SAccept(slot, seat) ==
  /\ Accept(slot, seat)
  /\ IF slot = Watcher THEN NewConnection ELSE Send(<< >>)

SRefuse == Refuse /\ Send(<< >>)

Parted(c) == IF c = Watcher THEN NewConnection ELSE Send(<<Of("LEAVE", c)>>)

SLeave(c) == Leave(c) /\ Parted(c)

(* SYNC_REQUEST gets an answer that matters here, to everybody. *)
SNoEffect(c) ==
  /\ NoEffect(c)
  /\ Send(<< >>) \/ Send(<<Sync>>)

BadGreeting(c) == IF c = Watcher THEN <<Welcome(c)>> ELSE << >>      \* late joiners are forgotten
Greeting(c) ==
  If(c = Watcher, <<Welcome(c)>> \o If(status = "RUNNING", <<Map>>))
    \o If(status = "RUNNING", <<Sync>>)

SHello(c, n) ==
  /\ Hello(c, n)
  /\ IF NameTaken(c, n) THEN Parted(c) ELSE Send(Greeting(c))

Opening == <<Status, Map, Sync>>

SSetReady(c) ==
  /\ SetReady(c)
  /\ Send(If(c \notin ready, <<Of("SET_READY", c)>>) \o If(CanStart, Opening))

SMoveAttempt(c, dir) ==
  LET target == Along(pos[c], dir, 1)
  IN  /\ MoveAttempt(c, dir)
      /\ Send(<<[type |-> "MOVED", player |-> c, cell |-> target]>>
              \o If(cells[target] \in Bonuses, <<At("BONUS_RETRIEVED", target), Sync>>))

SBombAttempt(c, claimed) ==
  /\ BombAttempt(c, claimed)
  /\ Send(<<At("BOMB", pos[c]), Sync>>)

SReturnToLobby(c) == ReturnToLobby(c) /\ Send(Opening)

Ending(e) == explosions[e].remaining = 1

(* In any order: each wipes its own cell. *)
STick ==
  /\ Tick
  /\ LET ends == SetToSeq({e \in BombSlot : Ending(e)})
     IN  Send([k \in DOMAIN ends |-> At("EXPLOSION_END", explosions[ends[k]].pos)])

(* Deaths and fires come cell by cell in the order of the blast; a death   *)
(* and a fire, or two fires, change different parts of the client's copy.  *)
(* Only that a block burns before its bonus shows matters.                 *)
Fires(burnt) ==
  LET order == SetToSeq(burnt)
      left  == SetToSeq({c \in burnt : cells'[c] # EMPTY})
  IN  [k \in DOMAIN order |-> At("BLOCK_DESTROYED", order[k])]
        \o [k \in DOMAIN left |->
              [type |-> "BONUS_AVAILABLE", cell |-> left[k], bonus |-> cells'[left[k]]]]

SExplode(i) ==
  LET bomb == bombs[i]
      burnt == {c \in BlastCells(cells, bomb.pos, bomb.radius) : cells[c] = SOFT}
      dead  == SetToSeq(alive \ alive')
  IN  /\ Explode(i)
      /\ Send(<<[type |-> "EXPLOSION_START", cell |-> bomb.pos, radius |-> bomb.radius]>>
              \o [k \in DOMAIN dead |-> Of("DEATH", dead[k])]
              \o Fires(burnt)
              \o If(explosions' = explosions, <<At("EXPLOSION_END", bomb.pos)>>)
              \o <<Sync>>)

SFinishTick == FinishTick /\ Send(If(status' # status, <<Status>>))

(* client_handle_server_message, one message at a time *)
ClientReads ==
  /\ view.running /\ wire # << >>
  /\ view' = Handled(view, Head(wire))
  /\ wire' = IF view'.running THEN Tail(wire) ELSE << >>
  /\ UNCHANGED vars

ServerActs ==
  /\ Len(wire) <= Window
  /\ \/ SRefuse
     \/ \E slot \in Slot, seat \in Cell : SAccept(slot, seat)
     \/ \E c \in Slot : \/ SNoEffect(c)
                        \/ SLeave(c)
                        \/ \E n \in Names : SHello(c, n)
                        \/ SSetReady(c)
                        \/ \E dir \in Directions : SMoveAttempt(c, dir)
                        \/ \E claimed \in Cell : SBombAttempt(c, claimed)
                        \/ SReturnToLobby(c)
     \/ STick
     \/ \E i \in BombSlot : SExplode(i)
     \/ SFinishTick

SNext == ServerActs \/ ClientReads

SSpec == SInit /\ [][SNext]_sessionState

-----------------------------------------------------------------------------

(* The client has read everything the server has sent it. *)
CaughtUp == Watcher \in active /\ view.running /\ wire = << >>

FlameAt(c) == \E e \in BombSlot : explosions[e].remaining > 0 /\ explosions[e].pos = c

(* A client that has a map and has caught up shows the game as it is: the  *)
(* status, who is alive and ready, and where the live players stand and    *)
(* what they carry, though some messages carry a whole state, others a     *)
(* change, and newcomers joined in the middle.                             *)
ReplicaAgrees ==
  CaughtUp /\ HasMap(view) =>
    /\ view.status = status
    /\ view.alive = alive /\ view.ready = ready
    /\ \A p \in alive : view.pos[p] = pos[p] /\ view.kit[p] = kit[p]

(* Its board is the server's, but for cells with a bomb or a flame: a bomb *)
(* that went off is shown until its flame is over, and a bomb laid into    *)
(* the flame vanishes from the display with it.                            *)
MapAgrees ==
  CaughtUp /\ HasMap(view) =>
    \A c \in Cell : \/ view.cells[c] = cells[c]
                    \/ FlameAt(c) /\ {view.cells[c], cells[c]} \subseteq {EMPTY, BOMB}
                    \/ cells[c] = BOMB /\ view.cells[c] = EMPTY

(* Once welcomed, a client outlives every message of the server, for it    *)
(* has a map before the first EXPLOSION_START (one that is connected and   *)
(* has not said HELLO hears the broadcasts of a round, and dies); and when *)
(* it has caught up it knows whether a round is on, and has the map if so. *)
WelcomedFollows ==
  view.welcome =>
    /\ view.running
    /\ CaughtUp => view.status = status /\ (status = "RUNNING" => HasMap(view))

(* "currently drawn explosion radiuses, 0 - no explosion" (client.h:22):   *)
(* what a client that has caught up draws is burning.  server_reset_round  *)
(* forgets the flames without telling the clients, so this fails.          *)
DrawnFlamesBurn ==
  CaughtUp => \A c \in Cell : view.flames[c] # 0 => FlameAt(c)
=============================================================================

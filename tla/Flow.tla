-------------------------------- MODULE Flow --------------------------------
(***************************************************************************)
(* Who waits for whom.  Every send of sock_send_all blocks while the       *)
(* buffers towards its reader are full, on the server's only thread        *)
(* (server_broadcast and the loop of server/server.c) as on the client's   *)
(* (handle_fd_server and handle_fd_input of client/client.c).  Nobody      *)
(* looks at what server_send_to_client returns, and neither program        *)
(* ignores SIGPIPE.  What is sent is left out: a message from a client,    *)
(* and a tick, make the server send some messages, each to one client, to  *)
(* all, or to all but one, in one send or, with a payload, in two.         *)
(* Clients that leave are not replaced.                                    *)
(***************************************************************************)
EXTENDS Naturals, FiniteSets

CONSTANTS Clients,           \* a set of numbers, the order of the server's table
          DownCap, UpCap,    \* sends that the buffers hold
          MaxMessages        \* bound: messages sent in one go
ASSUME ClientsAssumption == Clients \subseteq Nat /\ IsFiniteSet(Clients)
ASSUME CapsAssumption    == {DownCap, UpCap, MaxMessages} \subseteq Nat \ {0}

VARIABLES server,            \* "select", "serving", "ticking", or "dead"
          readfds,           \* clients found readable and not served yet
          active,            \* clients[].active
          doomed,            \* the client whose handler failed or said LEAVE
          left,              \* messages to be sent after this one
          due, parts, sent,  \* to whom this one still goes, its sends, and those made to the first
          client,            \* "run", "sending", "stopped" or "gone"
          down, up,          \* sends in the buffers
          link               \* "open", "closed", "poked", "reset" or "broken"
outbox == <<left, due, parts, sent>>
vars == <<server, readfds, active, doomed, outbox, client, down, up, link>>

Init ==
  /\ server = "select" /\ readfds = {} /\ active = Clients /\ doomed = {}
  /\ left = 0 /\ due = {} /\ parts = 1 /\ sent = 0
  /\ client = [c \in Clients |-> "run"]
  /\ down = [c \in Clients |-> 0] /\ up = [c \in Clients |-> 0]
  /\ link = [c \in Clients |-> "open"]
-----------------------------------------------------------------------------
Quiet == left = 0 /\ due = {}               \* nothing to be sent

(* select: clients that sent something or are seen to have left. *)
Poll ==
  /\ server = "select" /\ server' = "serving"
  /\ readfds' = {c \in active : up[c] > 0 \/ link[c] # "open"}
  /\ UNCHANGED <<active, doomed, outbox, client, down, up, link>>

Handle(c) ==
  /\ server = "serving" /\ Quiet /\ doomed = {} /\ c \in readfds /\ up[c] > 0
  /\ readfds' = readfds \ {c} /\ up' = [up EXCEPT ![c] = @ - 1]
  /\ left' \in 0..MaxMessages /\ doomed' \in {{}, {c}}
  /\ UNCHANGED <<server, active, due, parts, sent, client, down, link>>

BadDisconnect(c) ==                       \* the leaver is told that it left
  /\ server = "serving" /\ Quiet
  /\ c \in doomed \/ (doomed = {} /\ c \in readfds /\ up[c] = 0)
  /\ readfds' = readfds \ {c} /\ doomed' = {} /\ active' = active \ {c}
  /\ due' = active /\ parts' = 1 /\ sent' = 0
  /\ UNCHANGED <<server, left, client, down, up, link>>
(* server_disconnect_client, after a LEAVE, a message the handler does not *)
(* like or the end of the stream: the others get a LEAVE.                  *)
Disconnect(c) ==
  /\ server = "serving" /\ Quiet
  /\ c \in doomed \/ (doomed = {} /\ c \in readfds /\ up[c] = 0)
  /\ readfds' = readfds \ {c} /\ doomed' = {} /\ active' = active \ {c}
  /\ due' = active \ {c} /\ parts' = 1 /\ sent' = 0
  /\ UNCHANGED <<server, left, client, down, up, link>>

(* server_tick, when all the clients have been served. *)
Tick ==
  /\ server = "serving" /\ Quiet /\ doomed = {} /\ readfds = {}
  /\ left' \in 0..MaxMessages /\ server' = "ticking"
  /\ UNCHANGED <<readfds, active, doomed, due, parts, sent, client, down, up, link>>

TickEnds ==
  /\ server = "ticking" /\ Quiet /\ server' = "select"
  /\ UNCHANGED <<readfds, active, doomed, outbox, client, down, up, link>>

(* server_send_to_client to one, or server_broadcast. *)
Compose ==
  /\ left > 0 /\ due = {}
  /\ left' = left - 1
  /\ due' \in {active} \cup {{c} : c \in active} \cup {active \ {c} : c \in active}
  /\ parts' \in 1..2 /\ sent' = 0
  /\ UNCHANGED <<server, readfds, active, doomed, client, down, up, link>>

First(c) == c \in due /\ \A d \in due : c <= d
Done(c)  == due' = due \ {c} /\ sent' = 0
Sent(c)  == \/ sent + 1 < parts /\ sent' = sent + 1 /\ UNCHANGED due
            \/ sent + 1 >= parts /\ Done(c)

(* One send.  The kernel takes it for a reader that is there and for one   *)
(* that closed, whose kernel answers with a reset.  A reset that finds the *)
(* server is an error once, which gives up this message to this client and *)
(* nothing else, and from then on a SIGPIPE.                               *)
Send(c) ==
  /\ server # "dead" /\ First(c)
  /\ \/ link[c] = "open" /\ down[c] < DownCap /\ down' = [down EXCEPT ![c] = @ + 1]
          /\ Sent(c) /\ UNCHANGED <<server, link>>
     \/ link[c] \in {"closed", "poked"} /\ link' = [link EXCEPT ![c] = "poked"]
          /\ Sent(c) /\ UNCHANGED <<server, down>>
     \/ link[c] = "reset" /\ link' = [link EXCEPT ![c] = "broken"]
          /\ Done(c) /\ UNCHANGED <<server, down>>
     \/ link[c] = "broken" /\ server' = "dead" /\ UNCHANGED <<due, sent, link, down>>
  /\ UNCHANGED <<readfds, active, doomed, left, parts, client, up>>

ServerStep == \/ Poll \/ Tick \/ TickEnds \/ Compose
              \/ \E c \in Clients : Handle(c) \/ Disconnect(c) \/ Send(c)

(* The answer to a send to a reader that closed. *)
Reset(c) ==
  /\ link[c] = "poked" /\ link' = [link EXCEPT ![c] = "broken"]
  /\ UNCHANGED <<server, readfds, active, doomed, outbox, client, down, up>>
-----------------------------------------------------------------------------
(* A pass of a client's loop: what the server sent, then a key, if any. *)
BadPass(c) ==                             \* waits until its message is taken
  /\ client[c] = "run"
  /\ \E key \in BOOLEAN :
       /\ down[c] > 0 \/ key
       /\ down' = [down EXCEPT ![c] = IF @ > 0 THEN @ - 1 ELSE 0]
       /\ up' = [up EXCEPT ![c] = IF key /\ @ < UpCap THEN @ + 1 ELSE @]
       /\ client' = [client EXCEPT ![c] = IF key THEN "waiting" ELSE @]
  /\ UNCHANGED <<server, readfds, active, doomed, outbox, link>>
Pass(c) ==
  /\ client[c] = "run"
  /\ \E key \in BOOLEAN :
       /\ down[c] > 0 \/ key
       /\ down' = [down EXCEPT ![c] = IF @ > 0 THEN @ - 1 ELSE 0]
       /\ up' = [up EXCEPT ![c] = IF key /\ @ < UpCap THEN @ + 1 ELSE @]
       /\ client' = [client EXCEPT ![c] = IF key /\ up[c] = UpCap THEN "sending" ELSE @]
  /\ UNCHANGED <<server, readfds, active, doomed, outbox, link>>

SendGoesOn(c) ==
  /\ client[c] = "sending" /\ up[c] < UpCap
  /\ up' = [up EXCEPT ![c] = @ + 1] /\ client' = [client EXCEPT ![c] = "run"]
  /\ UNCHANGED <<server, readfds, active, doomed, outbox, down, link>>

(* ^Z, which the client leaves to the terminal; nothing brings it back. *)
Stop(c) ==
  /\ client[c] = "run" /\ client' = [client EXCEPT ![c] = "stopped"]
  /\ UNCHANGED <<server, readfds, active, doomed, outbox, down, up, link>>

(* A close with unread input resets the connection at once. *)
Quit(c) ==
  /\ client[c] \in {"run", "sending"} /\ client' = [client EXCEPT ![c] = "gone"]
  /\ link' = [link EXCEPT ![c] = IF down[c] > 0 THEN "reset" ELSE "closed"]
  /\ down' = [down EXCEPT ![c] = 0]
  /\ UNCHANGED <<server, readfds, active, doomed, outbox, up>>

ClientStep(c) == Pass(c) \/ SendGoesOn(c) \/ Stop(c) \/ Quit(c)
Next == ServerStep \/ \E c \in Clients : ClientStep(c) \/ Reset(c)
Spec == Init /\ [][Next]_vars

(* The server runs, and a client that runs reads what has come. *)
FairSpec == /\ Spec /\ WF_vars(ServerStep)
            /\ \A c \in Clients : WF_vars(Pass(c) /\ down[c] > 0) /\ WF_vars(SendGoesOn(c))
-----------------------------------------------------------------------------
TypeOK ==
  /\ server \in {"select", "serving", "ticking", "dead"}
  /\ active \subseteq Clients /\ readfds \subseteq active
  /\ due \subseteq active /\ doomed \subseteq active
  /\ client \in [Clients -> {"run", "sending", "stopped", "gone"}]
  /\ link \in [Clients -> {"open", "closed", "poked", "reset", "broken"}]

WaitsFor(c) == First(c) /\ link[c] = "open" /\ down[c] = DownCap

(* The loop comes back to select for ever, unless SIGPIPE ends the server  *)
(* or it waits for one client that is stopped, or is itself held in a send *)
(* to this server: reading clients, however busy, never hold it.           *)
HeldOnlyByClients ==
  \/ []<>(server = "select")
  \/ <>(server = "dead")
  \/ \E c \in Clients : <>[](WaitsFor(c) /\ client[c] \in {"stopped", "sending"})

(* What ends the server is a client that left and is not known to have:    *)
(* once a client's departure has been noticed, nothing more is sent to it. *)
DiesOnlyOfTheUnnoticed ==
  server = "dead" => \E c \in active : First(c) /\ client[c] = "gone"
=============================================================================

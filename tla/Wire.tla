-------------------------------- MODULE Wire --------------------------------
(***************************************************************************)
(* One direction of a connection, common/src/socket_io.c: a process that   *)
(* sends messages, a byte stream that takes and gives any number of bytes  *)
(* at a time, and a process that reads the header and the payload of one   *)
(* message once select reports the socket.  The server waits at most a     *)
(* second for each chunk, the client for ever; side tells who reads.       *)
(***************************************************************************)
EXTENDS Payload, FiniteSetsExt

CONSTANTS FromClient, FromServer,    \* messages the sending process may send
          Foreign,       \* runs of bytes another program might send in their place
          MaxSent,       \* bound: messages sent
          PipeCap        \* bytes the two kernels hold

(* A sender numbers itself and whom it addresses, and fills a message in.  *)
(* Foreign bytes have no type of this program, or announce too much.       *)
ASSUME PipeAssumption == PipeCap \in Nat
ASSUME MessagesAssumption ==
  \A m \in FromClient \cup FromServer :
    /\ Filled(m) /\ CountOK(m.type, Count(m.type, m.head)) /\ SentHead(m) = m.head
    /\ m.from \in Nat /\ m.to \in Nat
    /\ m = [from |-> m.from, to |-> m.to, type |-> m.type, head |-> m.head, items |-> m.items]
ASSUME ForeignAssumption ==
  \A b \in Foreign :
    /\ b \in Seq(Nat) /\ Len(b) >= HeaderSize
    /\ LET t == TypeOf(b[1])
       IN  \/ t = "UNKNOWN"
           \/ /\ t \in VariablePayload /\ Len(b) >= HeaderSize + BaseLen(t)
              /\ CASE t = "WELCOME"    -> b[HeaderSize + MaxIdLen + 2] > MaxPlayers
                   [] t = "SYNC_BOARD" -> b[HeaderSize + 2] > MaxPlayers
                   [] t = "ERROR"      -> b[HeaderSize + 1] * 256 + b[HeaderSize + 2] > MaxErrorLen
                   [] t = "MAP"        -> b[HeaderSize + 1] * b[HeaderSize + 2] \notin 1..MaxMapCells

VARIABLES side,                  \* the reading process: "server" or "client"
          sent, delivered,       \* histories
          sending,               \* bytes sock_send_all has not got rid of
          pipe,                  \* bytes in the kernels
          peer,                  \* the sending process: "up" or "gone"
          open,                  \* the reading process keeps the connection
          stage, got,            \* where the reader is, and this message's bytes so far
          refused                \* the reader did not take what it read
vars == <<side, sent, delivered, sending, pipe, peer, open, stage, got, refused>>
sender == <<side, sent, sending, peer>>
reader == <<delivered, open, stage, got, refused>>

Outgoing == IF side = "server" THEN FromClient ELSE FromServer
ForeignMessages == {[type |-> "UNKNOWN", bytes |-> b] : b \in Foreign}
Bytes(m) == IF m.type = "UNKNOWN" THEN m.bytes
            ELSE Frame([type |-> m.type, sender |-> m.from, target |-> m.to], m)

Init ==
  /\ side \in {"server", "client"}
  /\ sent = << >> /\ delivered = << >> /\ sending = << >> /\ pipe = << >>
  /\ peer = "up" /\ open = TRUE
  /\ stage = "idle" /\ got = << >> /\ refused = FALSE
-----------------------------------------------------------------------------
(* The sender.  send may take part of what it is given. *)
Send ==
  /\ peer = "up" /\ open /\ sending = << >> /\ Len(sent) < MaxSent
  /\ \E m \in Outgoing \cup (IF side = "server" THEN ForeignMessages ELSE {}) :
       sent' = Append(sent, m) /\ sending' = Bytes(m)
  /\ UNCHANGED <<side, pipe, peer>> /\ UNCHANGED reader

BadPush ==                                \* what send did not take is forgotten
  /\ open /\ sending # << >>
  /\ \E n \in 1..Min({Len(sending), PipeCap - Len(pipe)}) : pipe' = pipe \o SubSeq(sending, 1, n)
  /\ sending' = << >>
  /\ UNCHANGED <<side, sent, peer>> /\ UNCHANGED reader
Push ==
  /\ open /\ sending # << >>
  /\ \E n \in 1..Min({Len(sending), PipeCap - Len(pipe)}) :
       /\ pipe' = pipe \o SubSeq(sending, 1, n)
       /\ sending' = SubSeq(sending, n + 1, Len(sending))
  /\ UNCHANGED <<side, sent, peer>> /\ UNCHANGED reader

(* It closes, or dies in the middle of a message; a reset loses what was   *)
(* on its way.                                                             *)
Vanish ==
  /\ peer = "up" /\ peer' = "gone" /\ sending' = << >>
  /\ \E n \in 0..Len(pipe) : pipe' = SubSeq(pipe, 1, n)
  /\ UNCHANGED <<side, sent>> /\ UNCHANGED reader
-----------------------------------------------------------------------------
(* The reader. *)
Type == TypeOf(got[1])
Base(b) == SubSeq(b, HeaderSize + 1, Len(b))

(* The length of this message up to the end of the current recv_all. *)
Need ==
  CASE stage = "header"  -> HeaderSize
    [] stage = "payload" -> HeaderSize + FixedSize(Type)
    [] stage = "base"    -> HeaderSize + BaseLen(Type)
    [] stage = "rest"    -> HeaderSize + BaseLen(Type) + ExtraLen(Type, Base(got))

Select ==
  /\ open /\ stage = "idle" /\ (pipe # << >> \/ peer = "gone")
  /\ stage' = "header"
  /\ UNCHANGED <<pipe, delivered, open, got, refused>> /\ UNCHANGED sender

Read(s, b) == stage' = s /\ got' = b /\ UNCHANGED <<open, delivered, refused>>

Close == open' = FALSE /\ stage' = "idle" /\ got' = << >> /\ UNCHANGED delivered
Refuse == Close /\ refused' = TRUE
Reject(t) ==
  /\ open' = ~(\/ side = "server" /\ t = "HELLO"
               \/ side = "client" /\ t = "WELCOME")
  /\ stage' = "idle" /\ got' = << >> /\ refused' = TRUE /\ UNCHANGED delivered

(* The handler decodes what was read.  What it cannot decode it answers    *)
(* with an ERROR or passes over; only a HELLO or a WELCOME is the end.     *)
Received(from, to, d) ==
  [from |-> from, to |-> to, type |-> d.type, head |-> d.head, items |-> d.items]
Handle(b) ==
  LET h == ReadHeader(b)
      payload == SubSeq(b, HeaderSize + 1, Len(b))
  IN  \/ /\ Decodable(h.type, payload)
         /\ delivered' = Append(delivered, Received(h.sender, h.target, Decode(h.type, payload)))
         /\ stage' = "idle" /\ got' = << >> /\ UNCHANGED <<open, refused>>
      \/ ~Decodable(h.type, payload) /\ Reject(h.type)

HeaderRead(b) ==
  LET t == TypeOf(b[1])
  IN  \/ t \in VariablePayload /\ Read("base", b)
      \/ t \in KnownFixed /\ FixedSize(t) > MaxPayload /\ Refuse
      \/ t \in KnownFixed /\ FixedSize(t) = 0 /\ Handle(b)
      \/ t \in KnownFixed /\ FixedSize(t) \in 1..MaxPayload /\ Read("payload", b)
      \/ t = "UNKNOWN" /\ Refuse

BaseRead(b) ==
  \/ ~ExtraOK(Type, Base(b)) /\ Refuse
  \/ ExtraOK(Type, Base(b)) /\ ExtraLen(Type, Base(b)) = 0 /\ Handle(b)
  \/ ExtraOK(Type, Base(b)) /\ ExtraLen(Type, Base(b)) > 0 /\ Read("rest", b)

(* recv gives some of what has arrived, and never beyond what is asked. *)
BadRecv ==                                \* a short count is taken for the whole
  /\ stage # "idle" /\ pipe # << >>
  /\ \E n \in 1..Min({Len(pipe), Need - Len(got)}) :
       LET b == got \o SubSeq(pipe, 1, n) \o [i \in 1..(Need - Len(got) - n) |-> 0]
       IN  /\ pipe' = SubSeq(pipe, n + 1, Len(pipe))
           /\ \/ stage = "header" /\ HeaderRead(b)
              \/ stage = "base" /\ BaseRead(b)
              \/ stage \in {"payload", "rest"} /\ Handle(b)
  /\ UNCHANGED sender
Recv ==
  /\ stage # "idle" /\ pipe # << >>
  /\ \E n \in 1..Min({Len(pipe), Need - Len(got)}) :
       LET b == got \o SubSeq(pipe, 1, n)
       IN  /\ pipe' = SubSeq(pipe, n + 1, Len(pipe))
           /\ \/ Len(b) < Need /\ Read(stage, b)
              \/ Len(b) = Need /\ stage = "header" /\ HeaderRead(b)
              \/ Len(b) = Need /\ stage = "base" /\ BaseRead(b)
              \/ Len(b) = Need /\ stage \in {"payload", "rest"} /\ Handle(b)
  /\ UNCHANGED sender

EndOfStream ==
  /\ stage # "idle" /\ pipe = << >> /\ peer = "gone"
  /\ Close /\ UNCHANGED <<pipe, refused>> /\ UNCHANGED sender

BadTimeout ==                             \* only before the first byte
  /\ side = "server" /\ stage = "header" /\ got = << >> /\ pipe = << >> /\ peer = "up"
  /\ Close /\ UNCHANGED <<pipe, refused>> /\ UNCHANGED sender
Timeout ==
  /\ side = "server" /\ stage # "idle" /\ pipe = << >> /\ peer = "up"
  /\ Close /\ UNCHANGED <<pipe, refused>> /\ UNCHANGED sender

ReaderStep == Select \/ Recv \/ EndOfStream \/ Timeout
Next == Send \/ Push \/ Vanish \/ ReaderStep
Spec == Init /\ [][Next]_vars

(* A reader that is offered bytes takes them, and its poll expires. *)
ReaderFair == WF_vars(Select) /\ WF_vars(Recv) /\ WF_vars(EndOfStream) /\ WF_vars(Timeout)
(* Of the server, that it goes on inside send_all; it need not send again. *)
(* Nothing is asked of a client, which may stop anywhere.                  *)
ServerFair == WF_vars(side = "client" /\ Push)
FairSpec == Spec /\ ReaderFair /\ ServerFair
-----------------------------------------------------------------------------
(* Wherever the stream is cut into chunks, and wherever its sender dies, *)
(* what sock_recv_header and sock_recv_payload_by_type hand to the       *)
(* handlers is what was sent, in order and whole.                        *)
Abstract == INSTANCE Channel WITH Message <- FromClient \cup FromServer \cup ForeignMessages
RefinesChannel == Abstract!Spec

(* The reader never closes on, nor rejects, what a sender of this        *)
(* program wrote: the sizes of protocol.c and socket_io.c and the        *)
(* decoders agree with the encoders, so that only a run of foreign bytes *)
(* is refused, and what follows a refusal is never read as a message.    *)
RefusesOnlyForeign ==
  refused => Len(delivered) < Len(sent) /\ sent[Len(delivered) + 1].type = "UNKNOWN"

(* The server's loop, which polls with a timeout for every chunk, is not *)
(* held for ever by a client that stops in the middle of a message.      *)
ReadsEnd == (side = "server" /\ stage # "idle") ~> stage = "idle"

(* Whatever a connection is first used for, what a decoder makes of the    *)
(* payload is what its encoder was given: every field at its place, both   *)
(* bytes of an index in their order, strings that fill their field and     *)
(* empty ones, and no item lost.                                           *)
RoundTrip == sent = << >> => \A m \in Written : Same(m)

(* It has the length that the reading side computes from its type and its  *)
(* first bytes, that the size functions of serialization.h give, and that  *)
(* the decoder insists on: a byte less or more is refused.                 *)
SizesAgree ==
  sent = << >> =>
    \A m \in Written :
      LET b == Encode(m) IN Fits(m.type, b) /\ Exact(m.type, b) /\ AsSized(m, b)

(* A client, which waits for ever, gets every message the server sends.  *)
AllArrive ==
  \A k \in 1..MaxSent :
    (side = "client" /\ Len(sent) >= k) ~> (Len(delivered) >= k \/ peer = "gone")
=============================================================================

------------------------------ MODULE Payload ------------------------------
(***************************************************************************)
(* What the encoders, the decoders and the two tables of sizes promise     *)
(* each other about one message.                                           *)
(***************************************************************************)
EXTENDS Framing

CONSTANTS Messages,          \* as their senders fill them in
          Capacity           \* the bytes of the buffer encoded into

(* What a sender puts into a field, into the fields of a layout and into a *)
(* message: nothing wider than the field, and as many items as it says.    *)
Byte == 0..255
Char == 1..255
UINT16_MAX == 65535
Word == 0..UINT16_MAX
Value(k, v) ==
  CASE k = "u8"   -> v \in Byte
    [] k = "u16"  -> v \in Word
    [] k = "bool" -> v \in BOOLEAN
    [] OTHER      -> v \in Seq(Char) /\ Len(v) <= Width(k)
Carries(fields, rec) ==
  /\ rec = [f \in {fields[i].field : i \in DOMAIN fields} |-> rec[f]]
  /\ \A i \in DOMAIN fields : Value(fields[i].kind, rec[fields[i].field])
Filled(m) ==
  LET n == Count(m.type, SentHead(m))
  IN  /\ m.type \in MsgTypes
      /\ Carries(Layout(m.type).put, m.head)
      /\ n \in Nat /\ m.items = [i \in 1..n |-> m.items[i]]
      /\ \A i \in 1..n : Carries(ItemLayout(m.type).put, m.items[i])

(* The lengths of config.h fit their counters and the buffer of a reader.  *)
ASSUME LimitsAssumption ==
  /\ MaxIdLen \in Nat /\ MaxNameLen \in Nat /\ MaxErrorLen \in Word
  /\ MaxPlayers \in Nat /\ MaxMapCells \in Nat /\ MaxPayload \in Nat
  /\ 3 <= MaxPayload /\ MaxIdLen + MaxNameLen <= MaxPayload
  /\ MaxIdLen + 2 + MaxPlayers * (2 + MaxNameLen) <= MaxPayload
  /\ 2 + MaxPlayers * 12 <= MaxPayload
  /\ 2 + MaxErrorLen <= MaxPayload /\ 2 + MaxMapCells <= MaxPayload
ASSUME FilledAssumption == \A m \in Messages : Filled(m)

Written == {m \in Messages : Encodable(m, Capacity)}

Same(m) ==
  Decode(m.type, Encode(m)) = [type |-> m.type, head |-> SentHead(m), items |-> m.items]

SizeRead(t, b) ==
  IF t \in VariablePayload THEN BaseLen(t) + ExtraLen(t, b) ELSE FixedSize(t)

Fits(t, b) ==
  /\ Len(b) = SizeRead(t, b)
  /\ t \in VariablePayload => ExtraOK(t, b)
  /\ Decodable(t, b)

Exact(t, b) ==
  /\ b # << >> => ~Decodable(t, SubSeq(b, 1, Len(b) - 1))
  /\ ~Decodable(t, Append(b, 0))

AsSized(m, b) == m.type \in {"WELCOME", "MAP", "SYNC_BOARD"} => Len(b) = PayloadSize(m)
=============================================================================

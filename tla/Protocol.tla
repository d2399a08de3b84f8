------------------------------ MODULE Protocol -----------------------------
(***************************************************************************)
(* The wire protocol (protocol/codec.rs).  A message is one byte (type of  *)
(* a command or status of a response), the length of the payload in Width  *)
(* bytes, the highest first, and the payload.  A Result is a set: {} for   *)
(* an error, {x} for Ok(x); so is an Option.                               *)
(***************************************************************************)
EXTENDS Naturals, Sequences, SequencesExt

CONSTANTS Base,        \* values of a byte, 256
          Width,       \* bytes of a length, 4
          MaxPayload   \* MAX_PAYLOAD_SIZE

ASSUME ProtocolAssumption ==
  Base \in Nat /\ Width \in Nat \ {0} /\ MaxPayload < Base^Width

GET  == 1
PUT  == 2
DEL  == 3
PING == 4

Status == {0, 1, 2}    \* Ok, NotFound, Error

HeaderSize == 1 + Width

\* (n as u32).to_be_bytes() and u32::from_be_bytes
ToBytes(n)   == [i \in 1..Width |-> (n \div Base^(Width - i)) % Base]
FromBytes(b) == FoldLeft(LAMBDA n, x : n * Base + x, 0, b)

Message(tag, payload) == <<tag>> \o ToBytes(Len(payload)) \o payload

-----------------------------------------------------------------------------
(***************************************************************************)
(* Commands.                                                               *)
(***************************************************************************)
Cmd(t, k, v) == [type |-> t, key |-> k, value |-> v]

CommandPayload(c) ==
  IF c.type = PING THEN <<>> ELSE ToBytes(Len(c.key)) \o c.key \o c.value

EncodeCommand(c) == Message(c.type, CommandPayload(c))

KeyLen(payload) == FromBytes(SubSeq(payload, 1, Width))

HasKey(payload) == Len(payload) >= Width /\ Len(payload) >= Width + KeyLen(payload)

KeyOf(payload) == SubSeq(payload, Width + 1, Width + KeyLen(payload))

\* decode_get_command and decode_delete_command: what follows the key is
\* not looked at.
DecodeKey(t, payload) ==
  IF HasKey(payload) THEN {Cmd(t, KeyOf(payload), <<>>)} ELSE {}

\* Mutation of DecodePut: the length of the key is not compared with what
\* there is.
DecodePutUnchecked(payload) ==
  IF Len(payload) < Width THEN {}
  ELSE LET n == IF HasKey(payload) THEN KeyLen(payload) ELSE Len(payload) - Width
       IN  {Cmd(PUT, SubSeq(payload, Width + 1, Width + n),
                SubSeq(payload, Width + n + 1, Len(payload)))}

DecodePut(payload) ==
  IF HasKey(payload)
    THEN {Cmd(PUT, KeyOf(payload),
              SubSeq(payload, Width + KeyLen(payload) + 1, Len(payload)))}
    ELSE {}

DecodePing(payload) == IF payload = <<>> THEN {Cmd(PING, <<>>, <<>>)} ELSE {}

-----------------------------------------------------------------------------
(***************************************************************************)
(* Framing, the same for commands and responses: what the bytes w hold of  *)
(* the next message.                                                       *)
(***************************************************************************)
PayloadLen(w) == FromBytes(SubSeq(w, 2, HeaderSize))

\* Mutation of Oversized: the header counts as payload.
OversizedTotal(w) == PayloadLen(w) + HeaderSize > MaxPayload

Oversized(w) == PayloadLen(w) > MaxPayload

Complete(w) == Len(w) >= HeaderSize /\ Len(w) >= HeaderSize + PayloadLen(w)

PayloadOf(w) == SubSeq(w, HeaderSize + 1, HeaderSize + PayloadLen(w))

DecodeCommand(w) ==
  IF Len(w) < HeaderSize \/ Oversized(w) \/ ~Complete(w) THEN {}
  ELSE LET p == PayloadOf(w) IN
       CASE w[1] = GET  -> DecodeKey(GET, p)
         [] w[1] = PUT  -> DecodePut(p)
         [] w[1] = DEL  -> DecodeKey(DEL, p)
         [] w[1] = PING -> DecodePing(p)
         [] OTHER       -> {}

-----------------------------------------------------------------------------
(***************************************************************************)
(* Responses.                                                              *)
(***************************************************************************)
Resp(s, o) == [status |-> s, payload |-> o]

EncodeResponse(r) ==
  Message(r.status, IF r.payload = {} THEN <<>> ELSE CHOOSE p \in r.payload : TRUE)

\* Mutation of DecodeResponse: an empty payload is Some.
DecodeResponseSome(w) ==
  IF Len(w) < HeaderSize \/ Oversized(w) \/ ~Complete(w) \/ w[1] \notin Status THEN {}
  ELSE {Resp(w[1], {PayloadOf(w)})}

DecodeResponse(w) ==
  IF Len(w) < HeaderSize \/ Oversized(w) \/ ~Complete(w) \/ w[1] \notin Status THEN {}
  ELSE {Resp(w[1], IF PayloadLen(w) > 0 THEN {PayloadOf(w)} ELSE {})}

-----------------------------------------------------------------------------
(***************************************************************************)
(* read_command and read_response on the bytes w: read_exact of the header *)
(* and, if the length is allowed, of the payload.                          *)
(***************************************************************************)
\* read_exact wants more than there is.
Short(w) == ~(Len(w) >= HeaderSize /\ (Oversized(w) \/ Complete(w)))

FrameOf(w) == SubSeq(w, 1, HeaderSize + PayloadLen(w))

\* Mutation of AfterFrame: a new BufReader for every command loses what the
\* last one had buffered.
AfterFrameDrops(w) == <<>>

AfterFrame(w) == SubSeq(w, HeaderSize + PayloadLen(w) + 1, Len(w))

ReadCommand(w)  == IF Short(w) \/ Oversized(w) THEN {} ELSE DecodeCommand(FrameOf(w))
ReadResponse(w) == IF Short(w) \/ Oversized(w) THEN {} ELSE DecodeResponse(FrameOf(w))
=============================================================================

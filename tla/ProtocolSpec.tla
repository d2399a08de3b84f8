---------------------------- MODULE ProtocolSpec ---------------------------
(***************************************************************************)
(* A client and a server that talk over one connection: the client writes  *)
(* commands, one after the other without waiting, the server reads and     *)
(* answers them, and the connection may break after any byte, in both      *)
(* directions.  A client of another make may write any payload.            *)
(***************************************************************************)
EXTENDS Protocol

CONSTANTS KeyBytes,    \* keys that clients use
          ValueBytes,  \* values
          Raw,         \* messages of other clients: pairs of tag and payload
          MaxMessages  \* bound on the messages of the client

VARIABLES
  messages,   \* what was written: the command, if any, the tag and payload
  wire,       \* bytes on their way to the server
  cut,        \* how many of the client's bytes were lost with the connection
  open,       \* the client's side of the connection is up
  srv,        \* the server's loop: "reading", "eof", "refused" or "lost"
  got,        \* the commands it read
  replies,    \* the responses it wrote
  back,       \* bytes on their way to the client
  cli,        \* the client's reads: "reading", "eof" or "refused"
  seen        \* the responses the client read

pVars == <<messages, wire, cut, open, srv, got, replies, back, cli, seen>>

Commands ==
  {Cmd(t, k, <<>>) : t \in {GET, DEL}, k \in KeyBytes}
    \cup {Cmd(PUT, k, v) : k \in KeyBytes, v \in ValueBytes}
    \cup {Cmd(PING, <<>>, <<>>)}

Stored == {got[i].value : i \in {j \in DOMAIN got : got[j].type = PUT}}

PInit ==
  /\ messages = <<>> /\ wire = <<>> /\ cut = 0 /\ open = TRUE
  /\ srv = "reading" /\ got = <<>> /\ replies = <<>>
  /\ back = <<>> /\ cli = "reading" /\ seen = <<>>

Write(c, tag, payload) ==
  /\ open /\ Len(messages) < MaxMessages
  /\ messages' = Append(messages, [cmd |-> c, tag |-> tag, payload |-> payload])
  /\ wire' = wire \o Message(tag, payload)
  /\ UNCHANGED <<cut, open, srv, got, replies, back, cli, seen>>

\* write_command
WriteCommand(c) ==
  /\ \A i \in DOMAIN messages : messages[i].cmd # {}
  /\ Write({c}, c.type, CommandPayload(c))

\* A client of another make, bounded to one message.
WriteRaw(r) == messages = <<>> /\ Write({}, r[1], r[2])

\* The client's side ends, after any byte.
Break ==
  /\ open /\ open' = FALSE
  /\ \E n \in 0..Len(wire) : wire' = SubSeq(wire, 1, n) /\ cut' = Len(wire) - n
  /\ UNCHANGED <<messages, srv, got, replies, back, cli, seen>>

\* write_response
WriteResponse(r) ==
  /\ replies' = Append(replies, r)
  /\ back' = back \o EncodeResponse(r)

ErrorResp == Resp(2, {<<1>>})

\* read_command in the loop of the server, which ends with the first error;
\* a refusal is answered.
ServerRead ==
  /\ srv = "reading" /\ Len(replies) = Len(got)
  /\ \/ /\ ReadCommand(wire) # {}
        /\ \E c \in ReadCommand(wire) : got' = Append(got, c)
        /\ wire' = AfterFrame(wire)
        /\ UNCHANGED <<srv, replies, back>>
     \/ /\ ReadCommand(wire) = {} /\ ~Short(wire)
        /\ srv' = "refused" /\ WriteResponse(ErrorResp)
        /\ UNCHANGED <<wire, got>>
     \/ /\ Short(wire) /\ ~open
        /\ srv' = "eof"
        /\ UNCHANGED <<wire, got, replies, back>>
  /\ UNCHANGED <<messages, cut, open, cli, seen>>

\* Ok(Some(value)) with a value that was put, Ok(None), NOT_FOUND or ERROR.
Respond ==
  /\ srv = "reading" /\ Len(replies) < Len(got)
  /\ \E r \in {Resp(0, {v}) : v \in Stored} \cup {Resp(0, {}), Resp(1, {}), ErrorResp} :
       WriteResponse(r)
  /\ UNCHANGED <<messages, wire, cut, open, srv, got, cli, seen>>

\* The server's side ends, after any byte.
Lose ==
  /\ srv = "reading" /\ srv' = "lost"
  /\ \E m \in 0..Len(back) : back' = SubSeq(back, 1, m)
  /\ UNCHANGED <<messages, wire, cut, open, got, replies, cli, seen>>

\* read_response
ClientRead ==
  /\ cli = "reading"
  /\ \/ /\ ReadResponse(back) # {}
        /\ \E r \in ReadResponse(back) : seen' = Append(seen, r)
        /\ back' = AfterFrame(back)
        /\ UNCHANGED cli
     \/ /\ ReadResponse(back) = {} /\ ~Short(back)
        /\ cli' = "refused"
        /\ UNCHANGED <<back, seen>>
     \/ /\ Short(back) /\ srv # "reading"
        /\ cli' = "eof"
        /\ UNCHANGED <<back, seen>>
  /\ UNCHANGED <<messages, wire, cut, open, srv, got, replies>>

PNext ==
  \/ \E c \in Commands : WriteCommand(c)
  \/ \E r \in Raw : WriteRaw(r)
  \/ Break \/ Lose \/ ServerRead \/ Respond \/ ClientRead

PSpec == PInit /\ [][PNext]_pVars

-----------------------------------------------------------------------------
(***************************************************************************)
(* The commands the server reads are those the client wrote, in order; of  *)
(* another client's message it reads a command that the message begins     *)
(* with, and all of it if it is a PUT or a PING.                           *)
(***************************************************************************)
ReadsWhatWasWritten ==
  \A i \in DOMAIN got :
    LET m == messages[i]
        p == CommandPayload(got[i]) IN
    /\ m.cmd # {} => m.cmd = {got[i]}
    /\ got[i].type = m.tag
    /\ IsPrefix(p, m.payload)
    /\ got[i].type \in {PUT, PING} => p = m.payload

\* How many bytes the first n messages take.
Bytes(n) ==
  FoldLeft(LAMBDA s, m : s + HeaderSize + Len(m.payload), 0, SubSeq(messages, 1, n))

(***************************************************************************)
(* A connection that breaks after any byte loses just the commands that    *)
(* did not arrive whole: when the server sees the end of the stream it has *)
(* read every other one.                                                   *)
(***************************************************************************)
CutLosesTheRest ==
  srv = "eof" => \A n \in DOMAIN messages :
                   n <= Len(got) <=> Bytes(n) <= Bytes(Len(messages)) - cut

(***************************************************************************)
(* Of the project's own client the server refuses only a command over the  *)
(* limit.                                                                  *)
(***************************************************************************)
OnlyOversizedRefused ==
  srv = "refused" =>
    LET m == messages[Len(got) + 1] IN m.cmd = {} \/ Len(m.payload) > MaxPayload

(***************************************************************************)
(* Every value that was accepted in a PUT can be sent back: the client     *)
(* reads every response, although both directions have the same limit,     *)
(* writing does not check it, and a PUT carries its key as well.  An empty *)
(* payload comes back as none.                                             *)
(***************************************************************************)
RepliesFit ==
  /\ cli # "refused"
  /\ \A i \in DOMAIN seen :
       /\ seen[i].status = replies[i].status
       /\ seen[i].payload = replies[i].payload \ {<<>>}

-----------------------------------------------------------------------------
(***************************************************************************)
(* The documented request format: the payload of a GET is its key.         *)
(***************************************************************************)
DocumentedGet ==
  \A i \in DOMAIN got : messages[i].tag = GET => got[i].key = messages[i].payload
=============================================================================

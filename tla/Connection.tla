----------------------------- MODULE Connection ----------------------------
(***************************************************************************)
(* The connections of the server (network/connection.rs): the loop of      *)
(* Connection::handle, which reads a command, executes it and sends the    *)
(* response, and the client at the other end, who may send several         *)
(* commands at once, stop in the middle of one, shut down its side, reset  *)
(* the connection, or stay silent.  bin/cli.rs is the client that sends    *)
(* one command, waits for its response and shuts down.                     *)
(*                                                                         *)
(* A frame is a command, "bad" (read_command returns a protocol error) or  *)
(* "part" (not all of its bytes are there yet).  Of a response only the    *)
(* status, whether it has a payload, and the frame it answers are kept.    *)
(***************************************************************************)
EXTENDS Naturals, Sequences, FiniteSets

CONSTANTS Conn,         \* connections clients may make
          Command,      \* the commands they send, of "get", "put" and "ping"
          MaxFrames,    \* bound on the frames of a client
          MaxSenders,   \* bound on the clients that send any
          ReadTimeout,  \* read_timeout_ms > 0
          WriteTimeout  \* write_timeout_ms > 0

ASSUME ConnAssumption ==
  /\ Command \subseteq {"get", "put", "ping"} /\ MaxFrames \in Nat /\ MaxSenders \in Nat
  /\ ReadTimeout \in BOOLEAN /\ WriteTimeout \in BOOLEAN

VARIABLES
  client,     \* "none", "open", "shut" (sends no more) or "gone" (reset)
  sent,       \* the frames the client sent
  conn_pc,    \* the handler: "none", "read", "execute", "send", "refuse", "closed"
  nread,      \* how many frames it has read
  executed,   \* the frames it has executed, by position, in order
  response,   \* the response to send
  outbox      \* the responses the client received

connVars == <<client, sent, conn_pc, nread, executed, response, outbox>>

Response == [status : {"ok", "not_found", "error"}, payload : BOOLEAN, of : Nat]

ConnTypeOK ==
  /\ client \in [Conn -> {"none", "open", "shut", "gone"}]
  /\ sent \in [Conn -> Seq(Command \cup {"bad", "part"})]
  /\ conn_pc \in [Conn -> {"none", "read", "execute", "send", "refuse", "closed"}]
  /\ nread \in [Conn -> Nat]
  /\ executed \in [Conn -> Seq(Nat)]
  /\ response \in [Conn -> Response]
  /\ outbox \in [Conn -> Seq(Response)]

ErrorResponse(n) == [status |-> "error", payload |-> TRUE, of |-> n]

ConnInit ==
  /\ client = [c \in Conn |-> "none"]
  /\ sent = [c \in Conn |-> <<>>]
  /\ conn_pc = [c \in Conn |-> "none"]
  /\ nread = [c \in Conn |-> 0]
  /\ executed = [c \in Conn |-> <<>>]
  /\ response = [c \in Conn |-> ErrorResponse(0)]
  /\ outbox = [c \in Conn |-> <<>>]

Handler(c, l) == conn_pc' = [conn_pc EXCEPT ![c] = l]

-----------------------------------------------------------------------------
(***************************************************************************)
(* The client.                                                             *)
(***************************************************************************)
ClientConnect(c) ==
  /\ client[c] = "none" /\ client' = [client EXCEPT ![c] = "open"]
  /\ UNCHANGED <<sent, conn_pc, nread, executed, response, outbox>>

Unfinished(c) == sent[c] # <<>> /\ sent[c][Len(sent[c])] = "part"

\* A frame, a first part of one, or the rest of the last one.
ClientSend(c, f) ==
  /\ client[c] = "open" /\ conn_pc[c] # "closed"
  /\ Cardinality({c} \cup {d \in Conn : sent[d] # <<>>}) <= MaxSenders
  /\ \/ /\ ~Unfinished(c) /\ Len(sent[c]) < MaxFrames
        /\ sent' = [sent EXCEPT ![c] = Append(@, f)]
     \/ /\ Unfinished(c) /\ f # "part"
        /\ sent' = [sent EXCEPT ![c][Len(sent[c])] = f]
  /\ UNCHANGED <<client, conn_pc, nread, executed, response, outbox>>

\* shutdown(Write), or a reset.
ClientLeave(c) ==
  /\ \/ client[c] = "open" /\ client' = [client EXCEPT ![c] = "shut"]
     \/ client[c] \in {"open", "shut"} /\ client' = [client EXCEPT ![c] = "gone"]
  /\ UNCHANGED <<sent, conn_pc, nread, executed, response, outbox>>

ClientStep(c) ==
  ClientLeave(c) \/ \E f \in Command \cup {"bad", "part"} : ClientSend(c, f)

-----------------------------------------------------------------------------
(***************************************************************************)
(* Connection::handle.                                                     *)
(***************************************************************************)
Arrived(c) == nread[c] < Len(sent[c]) /\ sent[c][nread[c] + 1] # "part"

\* Mutation of ReadCommand: a refused frame does not end the connection.
ReadCommandSkips(c) ==
  /\ conn_pc[c] = "read" /\ Arrived(c)
  /\ nread' = [nread EXCEPT ![c] = @ + 1]
  /\ Handler(c, IF sent[c][nread'[c]] = "bad" THEN "read" ELSE "execute")
  /\ UNCHANGED <<client, sent, executed, response, outbox>>

ReadCommand(c) ==
  /\ conn_pc[c] = "read" /\ Arrived(c)
  /\ nread' = [nread EXCEPT ![c] = @ + 1]
  /\ \/ /\ sent[c][nread'[c]] = "bad"
        /\ response' = [response EXCEPT ![c] = ErrorResponse(nread'[c])]
        /\ Handler(c, "refuse")
     \/ /\ sent[c][nread'[c]] # "bad"
        /\ Handler(c, "execute")
        /\ UNCHANGED response
  /\ UNCHANGED <<client, sent, executed, outbox>>

\* Mutation of ReadEnds: a read never times out.
ReadEndsNoTimeout(c) ==
  /\ conn_pc[c] = "read"
  /\ client[c] = "gone" \/ (client[c] = "shut" /\ ~Arrived(c))
  /\ Handler(c, "closed")
  /\ UNCHANGED <<client, sent, nread, executed, response, outbox>>

\* End of file, also in the middle of a frame, a reset, or a timeout: handle
\* returns Ok and nothing is sent.
ReadEnds(c) ==
  /\ conn_pc[c] = "read"
  /\ \/ client[c] = "gone"
     \/ ~Arrived(c) /\ (client[c] = "shut" \/ ReadTimeout)
  /\ Handler(c, "closed")
  /\ UNCHANGED <<client, sent, nread, executed, response, outbox>>

\* Any other error of the socket.
ReadBreaks(c) ==
  /\ conn_pc[c] = "read"
  /\ response' = [response EXCEPT ![c] = ErrorResponse(0)]
  /\ Handler(c, "refuse")
  /\ UNCHANGED <<client, sent, nread, executed, outbox>>

\* The error response is sent if possible; handle returns Err.
Refuse(c) ==
  /\ conn_pc[c] = "refuse" /\ Handler(c, "closed")
  /\ \/ client[c] # "gone" /\ outbox' = [outbox EXCEPT ![c] = Append(@, response[c])]
     \/ UNCHANGED outbox
  /\ UNCHANGED <<client, sent, nread, executed, response>>

\* What Engine::execute returns: Ok(Some(_)), Ok(None) or Err.  No call of
\* the engine returns Err(KeyNotFound).
EngineResult(f) ==
  {r \in {"some", "none", "err"} :
     \/ r = "some" /\ f \in {"get", "ping"}
     \/ r # "some" /\ f \in {"get", "put"}}

\* execute_command.
ResponseTo(r, n) ==
  [status  |-> IF r \in {"some", "none"} THEN "ok"
               ELSE IF r = "key_not_found" THEN "not_found" ELSE "error",
   payload |-> r \in {"some", "err"},
   of      |-> n]

Execute(c) ==
  /\ conn_pc[c] = "execute" /\ Handler(c, "send")
  /\ \E r \in EngineResult(sent[c][nread[c]]) :
       response' = [response EXCEPT ![c] = ResponseTo(r, nread[c])]
  /\ executed' = [executed EXCEPT ![c] = Append(@, nread[c])]
  /\ UNCHANGED <<client, sent, nread, outbox>>

\* A response to a client that has reset the connection may be written to
\* the socket all the same, and is lost.
SendResponse(c) ==
  /\ conn_pc[c] = "send" /\ Handler(c, "read")
  /\ outbox' = IF client[c] = "gone" THEN outbox
               ELSE [outbox EXCEPT ![c] = Append(@, response[c])]
  /\ UNCHANGED <<client, sent, nread, executed, response>>

\* Mutations of SendFails: the command is executed again; the loop goes on.
SendFailsRetries(c) ==
  /\ conn_pc[c] = "send" /\ Handler(c, "execute")
  /\ client[c] = "gone" \/ WriteTimeout
  /\ UNCHANGED <<client, sent, nread, executed, response, outbox>>

SendFailsGoesOn(c) ==
  /\ conn_pc[c] = "send" /\ Handler(c, "read")
  /\ client[c] = "gone" \/ WriteTimeout
  /\ UNCHANGED <<client, sent, nread, executed, response, outbox>>

\* The client is gone, or does not take the response in time.
SendFails(c) ==
  /\ conn_pc[c] = "send" /\ Handler(c, "closed")
  /\ client[c] = "gone" \/ WriteTimeout
  /\ UNCHANGED <<client, sent, nread, executed, response, outbox>>

HandleStep(c) ==
  ReadCommand(c) \/ ReadEnds(c) \/ Refuse(c) \/ Execute(c) \/ SendResponse(c) \/ SendFails(c)
=============================================================================

--------------------------- MODULE ExchangeProofs ---------------------------
(***************************************************************************)
(* What passes over a connection: which commands the handler executes, and *)
(* which responses the client receives.  That a handler begins with an     *)
(* unused connection follows from the places connections are in.           *)
(***************************************************************************)
EXTENDS ServerProofs

\* What the handler has read and executed: the first frames, in order, all of
\* them whole, and none behind one that was refused.
Commands(c) ==
  /\ \A i \in 1..Len(executed[c]) : executed[c][i] = i /\ sent[c][i] # "bad"
  /\ \A i \in 1..nread[c] : sent[c][i] # "part"
  /\ nread[c] <= Len(sent[c]) /\ Len(executed[c]) <= nread[c]

\* How far it is with the last frame.
Progress(c) ==
  /\ conn_pc[c] = "none" => nread[c] = 0 /\ Len(outbox[c]) = 0
  /\ conn_pc[c] \in {"read", "send"} => Len(executed[c]) = nread[c]
  /\ conn_pc[c] = "execute" => Len(executed[c]) + 1 = nread[c] /\ sent[c][nread[c]] # "bad"
  /\ conn_pc[c] = "send" => response[c].of = nread[c]
  /\ conn_pc[c] = "refuse" => response[c].status = "error"

\* What the client has received, which is all that was sent unless it is gone.
Replies(c) ==
  /\ \A i \in 1..Len(outbox[c]) :
       /\ \/ outbox[c][i].of = i
          \/ outbox[c][i].of = 0 /\ i = Len(outbox[c]) /\ conn_pc[c] = "closed"
       /\ outbox[c][i].status # "error" => i <= Len(executed[c])
  /\ client[c] # "gone" =>
       /\ Len(executed[c]) <= Len(outbox[c]) + 1
       /\ conn_pc[c] \in {"none", "read", "execute"} => Len(outbox[c]) = Len(executed[c])
       /\ conn_pc[c] = "send" => Len(outbox[c]) + 1 = Len(executed[c])
       /\ conn_pc[c] = "refuse" => response[c].of \in {0, Len(outbox[c]) + 1}

Exchange(c) == Commands(c) /\ Progress(c) /\ Replies(c)

\* A connection that a handler has begun with is nowhere but with its worker.
Fresh ==
  \A c \in Conn : conn_pc[c] # "none" =>
    /\ Accepted(c) /\ c # stream /\ ~InChannel(c)
    /\ \A w \in Worker : w_conn[w] = c => w_pc[w] = "handle"

-----------------------------------------------------------------------------
(***************************************************************************)
(* The exchange on one connection.                                         *)
(***************************************************************************)
\* A connection that a step leaves alone.
LEMMA ExchangeSame ==
  ASSUME NEW c \in Conn, Exchange(c),
         /\ client'[c] = client[c] /\ sent'[c] = sent[c] /\ conn_pc'[c] = conn_pc[c]
         /\ nread'[c] = nread[c] /\ executed'[c] = executed[c]
         /\ response'[c] = response[c] /\ outbox'[c] = outbox[c]
  PROVE  Exchange(c)'
BY DEF Exchange, Commands, Progress, Replies

\* A step of connection c leaves the others alone.
LEMMA ExchangeOthers ==
  ASSUME ConnTypeOK, NEW c \in Conn,
         ClientConnect(c) \/ ClientStep(c) \/ HandleStep(c) \/ ReadBreaks(c) \/ CloseConn(c)
         \/ (Handler(c, "read") /\ UNCHANGED <<client, sent, nread, executed, response, outbox>>),
         NEW d \in Conn, d # c, Exchange(d)
  PROVE  Exchange(d)'
<1>1. /\ client'[d] = client[d] /\ sent'[d] = sent[d] /\ conn_pc'[d] = conn_pc[d]
      /\ nread'[d] = nread[d] /\ executed'[d] = executed[d]
      /\ response'[d] = response[d] /\ outbox'[d] = outbox[d]
  <2>1. CASE ClientConnect(c) \/ ClientStep(c)
    BY <2>1 DEF ClientConnect, ClientStep, ClientLeave, ClientSend, ConnTypeOK
  <2>2. CASE HandleStep(c) \/ ReadBreaks(c)
    BY <2>2 DEF HandleStep, ReadCommand, ReadEnds, ReadBreaks, Refuse, Execute, SendResponse,
                SendFails, Handler, ConnTypeOK
  <2>. QED  BY <2>1, <2>2 DEF CloseConn, Handler, ConnTypeOK
<1>. QED  BY <1>1, ExchangeSame

\* The lengths, and what is at the places the handler has passed.
LEMMA ConnTypes ==
  ASSUME ConnTypeOK, NEW c \in Conn
  PROVE  /\ nread[c] \in Nat /\ Len(sent[c]) \in Nat
         /\ Len(executed[c]) \in Nat /\ Len(outbox[c]) \in Nat
         /\ executed[c] \in Seq(Nat) /\ outbox[c] \in Seq(Response) /\ response[c] \in Response
         /\ sent[c] \in Seq(Command \cup {"bad", "part"})
BY DEF ConnTypeOK

\* connect(), frames, shutdown and reset by the client.
LEMMA ClientExchange ==
  ASSUME ConnTypeOK, NEW c \in Conn, Exchange(c), ClientConnect(c) \/ ClientStep(c)
  PROVE  Exchange(c)'
<1>0. UNCHANGED <<conn_pc, nread, executed, response, outbox>>
  BY DEF ClientConnect, ClientStep, ClientLeave, ClientSend
<1>1. CASE ClientConnect(c) \/ ClientLeave(c)
  <2>1. sent' = sent /\ client[c] # "gone"
    BY <1>1 DEF ClientConnect, ClientLeave
  <2>. QED  BY <1>0, <2>1 DEF Exchange, Commands, Progress, Replies
<1>2. ASSUME NEW f \in Command \cup {"bad", "part"}, ClientSend(c, f)
      PROVE  Exchange(c)'
  <2>0. UNCHANGED client
    BY <1>2 DEF ClientSend
  <2>1. Len(sent'[c]) \in Nat /\ Len(sent[c]) <= Len(sent'[c])
        /\ \A i \in 1..nread[c] : sent'[c][i] = sent[c][i]
    <3>. DEFINE F == Command \cup {"bad", "part"}
    <3>1. sent[c] \in Seq(F) /\ f \in F /\ nread[c] \in Nat
      BY ConnTypes
    <3>2. nread[c] <= Len(sent[c]) /\ \A i \in 1..nread[c] : sent[c][i] # "part"
      BY DEF Exchange, Commands
    <3>. HIDE DEF F
    <3>3. CASE sent' = [sent EXCEPT ![c] = Append(@, f)]
      <4>1. sent'[c] = Append(sent[c], f)
        BY <3>3 DEF ConnTypeOK
      <4>. QED  BY <3>1, <3>2, <4>1, AppendIs
    <3>4. CASE Unfinished(c) /\ sent' = [sent EXCEPT ![c][Len(sent[c])] = f]
      <4>1. sent'[c] = [sent[c] EXCEPT ![Len(sent[c])] = f]
        BY <3>4 DEF ConnTypeOK
      <4>2. sent[c][Len(sent[c])] = "part" /\ Len(sent[c]) \in Nat /\ Len(sent[c]) # 0
        BY <3>1, <3>4 DEF Unfinished
      <4>3. nread[c] < Len(sent[c])
        BY <3>1, <3>2, <4>2
      <4>. QED  BY <3>1, <4>1, <4>2, <4>3
    <3>. QED  BY <1>2, <3>3, <3>4 DEF ClientSend
  <2>2. nread[c] \in Nat /\ Len(executed[c]) \in Nat /\ Len(sent[c]) \in Nat
    BY ConnTypes
  <2>3. Commands(c)'
    BY <1>0, <2>1, <2>2, SMTT(30) DEF Exchange, Commands
  <2>4. Progress(c)'
    BY <1>0, <2>1, <2>2 DEF Exchange, Progress
  <2>. QED  BY <1>0, <2>0, <2>3, <2>4 DEF Exchange, Replies
<1>. QED  BY <1>1, <1>2 DEF ClientStep

\* The handler ends, however far it is.
LEMMA CloseExchange ==
  ASSUME ConnTypeOK, NEW c \in Conn, Exchange(c), CloseConn(c)
  PROVE  Exchange(c)'
<1>1. conn_pc'[c] = "closed" /\ UNCHANGED <<client, sent, nread, executed, response, outbox>>
  BY DEF CloseConn, Handler, ConnTypeOK
<1>. QED  BY <1>1 DEF Exchange, Commands, Progress, Replies

\* Connection::handle begins.
LEMMA BeginExchange ==
  ASSUME ConnTypeOK, NEW c \in Conn, Exchange(c), conn_pc[c] = "none", Handler(c, "read"),
         UNCHANGED <<client, sent, nread, executed, response, outbox>>
  PROVE  Exchange(c)'
<1>1. conn_pc'[c] = "read"
  BY DEF Handler, ConnTypeOK
<1>2. Len(executed[c]) = nread[c]
  BY ConnTypes DEF Exchange, Commands, Progress
<1>. QED  BY <1>1, <1>2 DEF Exchange, Commands, Progress, Replies

\* read_command: a command, or a frame that is refused.
LEMMA ReadExchange ==
  ASSUME ConnTypeOK, NEW c \in Conn, Exchange(c), ReadCommand(c)
  PROVE  Exchange(c)'
<1>1. /\ nread'[c] = nread[c] + 1 /\ conn_pc[c] = "read"
      /\ nread[c] < Len(sent[c]) /\ sent[c][nread[c] + 1] # "part"
      /\ UNCHANGED <<client, sent, executed, outbox>>
  BY DEF ReadCommand, Arrived, ConnTypeOK
<1>2. /\ nread[c] \in Nat /\ Len(sent[c]) \in Nat /\ Len(executed[c]) \in Nat
      /\ Len(outbox[c]) \in Nat
  BY ConnTypes
<1>3. \/ /\ conn_pc'[c] = "refuse" /\ response'[c] = ErrorResponse(nread[c] + 1)
      \/ /\ conn_pc'[c] = "execute" /\ sent[c][nread[c] + 1] # "bad" /\ UNCHANGED response
  BY <1>1 DEF ReadCommand, Handler, ConnTypeOK
<1>4. conn_pc'[c] = "refuse" => response'[c].status = "error" /\ response'[c].of = nread[c] + 1
  BY <1>3 DEF ErrorResponse
<1>5. Len(executed[c]) = nread[c] /\ (client[c] # "gone" => Len(outbox[c]) = nread[c])
  BY <1>1 DEF Exchange, Progress, Replies
<1>6. Commands(c)'
  BY <1>1, <1>2, <1>5 DEF Exchange, Commands
<1>7. Progress(c)'
  BY <1>1, <1>2, <1>3, <1>4, <1>5 DEF Exchange, Progress
<1>8. Replies(c)'
  BY <1>1, <1>2, <1>3, <1>4, <1>5 DEF Exchange, Replies
<1>. QED  BY <1>6, <1>7, <1>8 DEF Exchange

\* The socket breaks: an error that answers no command is to be sent.
LEMMA BreakExchange ==
  ASSUME ConnTypeOK, NEW c \in Conn, Exchange(c), ReadBreaks(c)
  PROVE  Exchange(c)'
<1>1. /\ conn_pc[c] = "read" /\ conn_pc'[c] = "refuse" /\ response'[c] = ErrorResponse(0)
      /\ UNCHANGED <<client, sent, nread, executed, outbox>>
  BY DEF ReadBreaks, Handler, ConnTypeOK
<1>2. response'[c].status = "error" /\ response'[c].of = 0
  BY <1>1 DEF ErrorResponse
<1>. QED  BY <1>1, <1>2 DEF Exchange, Commands, Progress, Replies

\* Engine::execute, once per command.
LEMMA ExecuteExchange ==
  ASSUME ConnTypeOK, NEW c \in Conn, Exchange(c), Execute(c)
  PROVE  Exchange(c)'
<1>1. /\ conn_pc[c] = "execute" /\ conn_pc'[c] = "send"
      /\ executed'[c] = Append(executed[c], nread[c])
      /\ UNCHANGED <<client, sent, nread, outbox>>
      /\ \E r : response'[c] = ResponseTo(r, nread[c])
  BY DEF Execute, Handler, ConnTypeOK
<1>2. response'[c].of = nread[c]
  BY <1>1 DEF ResponseTo
<1>3. /\ nread[c] \in Nat /\ Len(sent[c]) \in Nat /\ Len(executed[c]) \in Nat
      /\ Len(outbox[c]) \in Nat /\ executed[c] \in Seq(Nat)
  BY ConnTypes
<1>4. /\ Len(executed'[c]) = Len(executed[c]) + 1
      /\ executed'[c][Len(executed[c]) + 1] = nread[c]
      /\ \A i \in 1..Len(executed[c]) : executed'[c][i] = executed[c][i]
  BY <1>1, <1>3, AppendIs
<1>5. /\ Len(executed[c]) + 1 = nread[c] /\ sent[c][nread[c]] # "bad"
      /\ client[c] # "gone" => Len(outbox[c]) = Len(executed[c])
  BY <1>1 DEF Exchange, Progress, Replies
<1>6. Commands(c)'
  BY <1>1, <1>3, <1>4, <1>5 DEF Exchange, Commands
<1>7. Progress(c)'
  BY <1>1, <1>2, <1>3, <1>4, <1>5 DEF Exchange, Progress
<1>8. \A i \in 1..Len(outbox[c]) :
         /\ outbox[c][i].of = i
         /\ outbox[c][i].status # "error" => i <= Len(executed'[c])
  <2>1. \A i \in 1..Len(outbox[c]) :
           outbox[c][i].of = i /\ (outbox[c][i].status # "error" => i <= Len(executed[c]))
    BY <1>1 DEF Exchange, Replies
  <2>. QED  BY <1>3, <1>4, <2>1
<1>9. Replies(c)'
  BY <1>1, <1>3, <1>4, <1>5, <1>8 DEF Replies
<1>. QED  BY <1>6, <1>7, <1>9 DEF Exchange

\* A response, or the error that ends the connection, is sent or lost.
LEMMA SendExchange ==
  ASSUME ConnTypeOK, NEW c \in Conn, Exchange(c), SendResponse(c) \/ Refuse(c)
  PROVE  Exchange(c)'
<1>1. /\ UNCHANGED <<client, sent, nread, executed, response>>
      /\ \/ conn_pc[c] = "send" /\ conn_pc'[c] = "read"
         \/ conn_pc[c] = "refuse" /\ conn_pc'[c] = "closed"
  BY DEF SendResponse, Refuse, Handler, ConnTypeOK
<1>2. /\ nread[c] \in Nat /\ Len(executed[c]) \in Nat /\ Len(outbox[c]) \in Nat
      /\ outbox[c] \in Seq(Response) /\ response[c] \in Response
  BY ConnTypes
<1>3. Commands(c)'
  BY <1>1 DEF Exchange, Commands
<1>4. Progress(c)'
  BY <1>1 DEF Exchange, Progress
<1>5. CASE outbox' = outbox
  <2>1. conn_pc[c] = "send" => client[c] = "gone"
    <3>1. CASE SendResponse(c)
      <4>1. client[c] # "gone" => outbox'[c] = Append(outbox[c], response[c])
        BY <3>1 DEF SendResponse, ConnTypeOK
      <4>2. Append(outbox[c], response[c]) # outbox[c]
        <5>. HIDE DEF Response
        <5>1. Len(Append(outbox[c], response[c])) = Len(outbox[c]) + 1
          BY <1>2, AppendIs
        <5>. QED  BY <1>2, <5>1
      <4>. QED  BY <1>5, <4>1, <4>2
    <3>. QED  BY <3>1 DEF Refuse
  <2>. QED  BY <1>1, <1>3, <1>4, <1>5, <2>1 DEF Exchange, Replies
<1>6. CASE client[c] # "gone" /\ outbox' = [outbox EXCEPT ![c] = Append(@, response[c])]
  <2>1. outbox'[c] = Append(outbox[c], response[c])
    BY <1>6 DEF ConnTypeOK
  <2>2. /\ Len(outbox'[c]) = Len(outbox[c]) + 1
        /\ outbox'[c][Len(outbox[c]) + 1] = response[c]
        /\ \A i \in 1..Len(outbox[c]) : outbox'[c][i] = outbox[c][i]
    <3>. HIDE DEF Response
    <3>. QED  BY <1>2, <2>1, AppendIs
  <2>3. \A i \in 1..Len(outbox[c]) :
           outbox[c][i].of = i /\ (outbox[c][i].status # "error" => i <= Len(executed[c]))
    BY <1>1 DEF Exchange, Replies
  <2>4. \/ /\ conn_pc[c] = "send" /\ response[c].of = Len(outbox[c]) + 1
           /\ Len(executed[c]) = Len(outbox[c]) + 1
        \/ /\ conn_pc[c] = "refuse" /\ response[c].of \in {0, Len(outbox[c]) + 1}
           /\ response[c].status = "error" /\ Len(executed[c]) <= Len(outbox[c]) + 1
    BY <1>1, <1>2, <1>6 DEF Exchange, Progress, Replies
  <2>5. \A i \in 1..Len(outbox'[c]) :
           /\ \/ outbox'[c][i].of = i
              \/ outbox'[c][i].of = 0 /\ i = Len(outbox'[c]) /\ conn_pc'[c] = "closed"
           /\ outbox'[c][i].status # "error" => i <= Len(executed'[c])
    <3>1. \A i \in 1..Len(outbox'[c]) : i \in 1..Len(outbox[c]) \/ i = Len(outbox[c]) + 1
      BY <1>2, <2>2
    <3>2. executed' = executed /\ Len(outbox'[c]) = Len(outbox[c]) + 1
      BY <1>1, <2>2
    <3>3. ASSUME NEW i, i = Len(outbox[c]) + 1
          PROVE  /\ \/ response[c].of = i
                    \/ response[c].of = 0 /\ i = Len(outbox'[c]) /\ conn_pc'[c] = "closed"
                 /\ response[c].status # "error" => i <= Len(executed[c])
      BY <1>1, <1>2, <2>4, <3>2, <3>3
    <3>. QED  BY <2>2, <2>3, <3>1, <3>2, <3>3
  <2>6. client'[c] # "gone" =>
          /\ Len(executed'[c]) <= Len(outbox'[c]) + 1
          /\ conn_pc'[c] \in {"none", "read", "execute"} => Len(outbox'[c]) = Len(executed'[c])
    BY <1>1, <1>2, <2>2, <2>4
  <2>7. Replies(c)'
    BY <1>1, <2>5, <2>6 DEF Replies
  <2>. QED  BY <1>3, <1>4, <2>7 DEF Exchange
<1>. QED  BY <1>5, <1>6 DEF SendResponse, Refuse

\* Connection::handle.
LEMMA HandleExchange ==
  ASSUME ConnTypeOK, NEW c \in Conn, Exchange(c), HandleStep(c) \/ ReadBreaks(c)
  PROVE  Exchange(c)'
<1>1. CASE ReadEnds(c) \/ SendFails(c)
  BY <1>1, CloseExchange DEF ReadEnds, SendFails, CloseConn
<1>. QED  BY <1>1, ReadExchange, BreakExchange, ExecuteExchange, SendExchange DEF HandleStep

-----------------------------------------------------------------------------
(***************************************************************************)
(* A handler begins only with a connection that none has served.           *)
(***************************************************************************)
\* A step of the handler, the worker or the main thread that holds c: it may
\* change the place of c and its handler, and nothing of the others.
LEMMA FreshHeld ==
  ASSUME Fresh, NEW c \in Conn, Accepted(c)', c # stream', ~InChannel(c)',
         \A v \in Worker : w_conn'[v] = c => w_pc'[v] = "handle",
         \A d \in Conn \ {c} :
           /\ conn_pc'[d] = conn_pc[d] /\ (Accepted(d)' <=> Accepted(d))
           /\ d = stream' => d = stream
           /\ InChannel(d)' => InChannel(d)
           /\ \A v \in Worker : w_conn'[v] = d => w_conn[v] = d /\ w_pc'[v] = w_pc[v]
  PROVE  Fresh'
BY DEF Fresh

\* A step that changes no handler, and moves only connections without one.
LEMMA FreshMoved ==
  ASSUME Fresh, UNCHANGED conn_pc,
         \A d \in Conn : conn_pc[d] # "none" =>
           /\ Accepted(d) => Accepted(d)'
           /\ d = stream' => d = stream
           /\ InChannel(d)' => InChannel(d)
           /\ \A v \in Worker : w_conn'[v] = d => w_conn[v] = d /\ w_pc'[v] = w_pc[v]
  PROVE  Fresh'
BY DEF Fresh

LEMMA FreshInit == Init => Fresh
BY DEF Init, ConnInit, Fresh

\* The main thread.
LEMMA FreshMain ==
  ASSUME BaseInv, BaseInv', Places, Fresh, MainStep
  PROVE  Fresh'
<1>1. CASE Accept
  <2>0. UNCHANGED <<conn_pc, client, channel, w_conn, w_pc>>
    BY <1>1 DEF Accept, connVars, workerVars
  <2>1. \A d : InChannel(d)' <=> InChannel(d)
    BY <2>0 DEF InChannel
  <2>2. CASE UNCHANGED <<stream, backlog>>
    BY <2>0, <2>1, <2>2, FreshMoved DEF Accepted
  <2>3. CASE backlog # <<>> /\ stream' = Head(backlog) /\ backlog' = Tail(backlog)
    <3>1. /\ Head(backlog) \in Conn /\ Head(backlog) = backlog[1] /\ 1 \in DOMAIN backlog
          /\ DOMAIN backlog = 1..Len(backlog) /\ DOMAIN backlog' = 1..(Len(backlog) - 1)
          /\ \A i \in 1..(Len(backlog) - 1) : backlog'[i] = backlog[i + 1]
          /\ Len(backlog) \in Nat
      BY <2>3, TailIs DEF BaseInv, ServerTypeOK
    <3>2. \A i \in DOMAIN backlog' : i + 1 \in DOMAIN backlog /\ backlog'[i] = backlog[i + 1]
      BY <3>1
    <3>3. ~Accepted(stream') /\ stream' \in Conn
      BY <2>3, <3>1 DEF Accepted
    <3>4. conn_pc[stream'] = "none"
      BY <3>3 DEF Fresh
    <3>5. \A d \in Conn : Accepted(d) => Accepted(d)'
      BY <2>0, <3>2 DEF Accepted
    <3>. QED  BY <2>0, <2>1, <3>4, <3>5, FreshMoved
  <2>. QED  BY <1>1, <2>2, <2>3 DEF Accept
<1>2. CASE CheckLimit
  <2>0. UNCHANGED <<client, channel, w_conn, w_pc, backlog>>
    BY <1>2 DEF CheckLimit, CloseConn, connVars, workerVars
  <2>1. \A d : (InChannel(d)' <=> InChannel(d)) /\ (Accepted(d)' <=> Accepted(d))
    BY <2>0 DEF InChannel, Accepted
  <2>2. CASE UNCHANGED <<connVars, stream>>
    BY <2>0, <2>1, <2>2, FreshMoved DEF connVars
  <2>3. CASE CloseConn(stream) /\ stream' = NoConn
    <3>1. PICK c \in Conn : c = stream
      BY <1>2 DEF CheckLimit, BaseInv, Holding, ServerTypeOK
    <3>2. \A d \in Conn \ {c} : conn_pc'[d] = conn_pc[d]
      BY <2>3, <3>1 DEF CloseConn, Handler, BaseInv, ServerTypeOK, ConnTypeOK
    <3>3. Accepted(c) /\ ~InChannel(c) /\ c # NoConn /\ \A v \in Worker : w_conn[v] # c
      BY <3>1, ServerAssumption DEF Places, Taken, Apart
    <3>4. \A d \in Conn : d # stream'
      BY <2>3, ServerAssumption
    <3>. QED  BY <2>0, <2>1, <3>2, <3>3, <3>4, FreshHeld
  <2>. QED  BY <1>2, <2>2, <2>3 DEF CheckLimit
<1>3. CASE Dispatch \/ Signal
  <2>0. UNCHANGED <<conn_pc, client, w_conn, w_pc, backlog>> /\ \A d : Accepted(d)' <=> Accepted(d)
    BY <1>3 DEF Dispatch, Signal, connVars, workerVars, Accepted
  <2>1. stream' = stream \/ stream' = NoConn
    BY <1>3 DEF Dispatch, Signal
  <2>2. ASSUME NEW d \in Conn, conn_pc[d] # "none", InChannel(d)'
        PROVE  InChannel(d)
    <3>1. CASE Dispatch
      <4>1. PICK x \in Conn : x = stream
        BY <3>1 DEF Dispatch, BaseInv, Holding, ServerTypeOK
      <4>2. channel' = Append(channel, x)
        BY <3>1, <4>1 DEF Dispatch
      <4>3. InChannel(d)' <=> InChannel(d) \/ d = x
        BY <4>2, Sent DEF BaseInv
      <4>. QED  BY <2>2, <4>1, <4>3 DEF Fresh
    <3>2. CASE Signal
      <4>1. CASE channel' = channel
        BY <2>2, <4>1 DEF InChannel
      <4>2. CASE channel' = Append(channel, Shutdown)
        <5>1. InChannel(d)' <=> InChannel(d) \/ d = Shutdown
          BY <4>2, Sent DEF BaseInv
        <5>. QED  BY <2>2, <5>1, ServerAssumption
      <4>. QED  BY <3>2, <4>1, <4>2 DEF Signal
    <3>. QED  BY <1>3, <3>1, <3>2
  <2>. QED  BY <2>0, <2>1, <2>2, ServerAssumption, FreshMoved
<1>4. CASE Bind \/ SpawnDone \/ Loop \/ Join
  <2>1. UNCHANGED <<conn_pc, client, backlog, stream, channel, w_conn, w_pc>>
    BY <1>4 DEF Bind, SpawnDone, Loop, Join, connVars, workerVars
  <2>. QED  BY <2>1, FreshMoved DEF Accepted, InChannel
<1>5. ASSUME NEW w \in Worker, Spawn(w)
      PROVE  Fresh'
  <2>1. UNCHANGED <<conn_pc, client, backlog, stream, channel, w_conn>> /\ w_conn[w] = NoConn
    BY <1>5 DEF Spawn, connVars, mainVars, BaseInv, Holding
  <2>2. \A v \in Worker : v # w => w_pc'[v] = w_pc[v]
    BY <1>5 DEF Spawn, WorkerAt, BaseInv, ServerTypeOK
  <2>. QED  BY <2>1, <2>2, ServerAssumption, FreshMoved DEF Accepted, InChannel
<1>. QED  BY <1>1, <1>2, <1>3, <1>4, <1>5 DEF MainStep

\* A worker.
LEMMA FreshWorker ==
  ASSUME BaseInv, BaseInv', Places, Fresh, NEW w \in Worker, WorkerStep(w) \/ WorkerFault(w)
  PROVE  Fresh'
<1>0. UNCHANGED <<client, backlog, stream>> /\ \A d : Accepted(d)' <=> Accepted(d)
  <2>1. CASE Handle(w) \/ HandleBreaks(w)
    <3>1. w_conn[w] \in Conn
      BY <2>1 DEF Handle, HandleBreaks, BaseInv, Holding, ServerTypeOK
    <3>2. UNCHANGED client
      BY <2>1, <3>1, HandleKeepsClosed DEF Handle, HandleBreaks, BaseInv, ServerTypeOK
    <3>. QED  BY <2>1, <3>2 DEF Handle, HandleBreaks, serverVars, mainVars, Accepted
  <2>. QED  BY <2>1 DEF WorkerStep, WorkerFault, Recv, RecvClosed, Count, NewConnection, NewFails,
                        Uncount, Panic, CloseConn, connVars, mainVars, Accepted
<1>1. CASE Recv(w)
  <2>1. PICK h : h = Head(channel)
    OBVIOUS
  <2>2. /\ h \in Conn \cup {Shutdown} /\ InChannel(h)
        /\ \A d : InChannel(d)' => InChannel(d)
    BY <1>1, <2>1, Received DEF Recv, BaseInv, Places
  <2>3. /\ UNCHANGED conn_pc /\ \A v \in Worker : v # w => w_pc'[v] = w_pc[v] /\ w_conn'[v] = w_conn[v]
        /\ w_conn[w] = NoConn /\ (w_conn'[w] = NoConn \/ (w_conn'[w] = h /\ h # Shutdown))
    BY <1>1, <2>1 DEF Recv, WorkerAt, connVars, BaseInv, ServerTypeOK, Holding
  <2>4. h \in Conn => conn_pc[h] = "none"
    BY <2>2 DEF Fresh
  <2>. QED  BY <1>0, <2>2, <2>3, <2>4, ServerAssumption, FreshMoved
<1>2. CASE RecvClosed(w) \/ Count(w)
  <2>1. /\ UNCHANGED <<conn_pc, channel, w_conn>> /\ w_pc[w] # "handle"
        /\ \A v \in Worker : v # w => w_pc'[v] = w_pc[v]
    BY <1>2 DEF RecvClosed, Count, WorkerAt, connVars, BaseInv, ServerTypeOK
  <2>2. \A d \in Conn : w_conn[w] = d => conn_pc[d] = "none"
    BY <2>1 DEF Fresh
  <2>. QED  BY <1>0, <2>1, <2>2, FreshMoved DEF InChannel
<1>3. CASE \/ NewConnection(w) \/ NewFails(w) \/ Handle(w) \/ HandleBreaks(w)
           \/ Uncount(w) \/ Panic(w)
  <2>1. PICK c \in Conn : c = w_conn[w]
    BY <1>3 DEF NewConnection, NewFails, Handle, HandleBreaks, Uncount, Panic, BaseInv, Holding,
                ServerTypeOK
  <2>2. \A d \in Conn \ {c} : conn_pc'[d] = conn_pc[d]
    <3>1. CASE Handle(w) \/ HandleBreaks(w)
      <4>1. HandleStep(c) \/ ReadBreaks(c)
        BY <2>1, <3>1 DEF Handle, HandleBreaks
      <4>2. \E l : conn_pc' = [conn_pc EXCEPT ![c] = l]
        BY <4>1 DEF HandleStep, ReadCommand, ReadEnds, ReadBreaks, Refuse, Execute, SendResponse,
                    SendFails, Handler
      <4>. QED  BY <4>2 DEF BaseInv, ServerTypeOK, ConnTypeOK
    <3>2. CASE NewConnection(w) \/ NewFails(w) \/ Uncount(w) \/ Panic(w)
      <4>1. conn_pc' = conn_pc \/ \E l : conn_pc' = [conn_pc EXCEPT ![c] = l]
        BY <2>1, <3>2 DEF NewConnection, NewFails, Uncount, Panic, CloseConn, Handler, connVars
      <4>. QED  BY <4>1 DEF BaseInv, ServerTypeOK, ConnTypeOK
    <3>. QED  BY <1>3, <3>1, <3>2
  <2>3. /\ UNCHANGED channel
        /\ \A v \in Worker \ {w} : w_conn'[v] = w_conn[v] /\ w_pc'[v] = w_pc[v]
        /\ w_conn'[w] = NoConn \/ (w_conn'[w] = c /\ w_pc'[w] = "handle")
    BY <1>3, <2>1 DEF NewConnection, NewFails, Handle, HandleBreaks, Uncount, Panic, WorkerAt,
                      serverVars, workerVars, BaseInv, ServerTypeOK
  <2>4. \A d : InChannel(d)' <=> InChannel(d)
    BY <2>3 DEF InChannel
  <2>5. /\ c # NoConn /\ Accepted(c) /\ c # stream /\ ~InChannel(c)
        /\ \A v \in Worker \ {w} : w_conn[v] # c
    BY <2>1, ServerAssumption DEF Places, Taken, Apart
  <2>. QED  BY <1>0, <2>2, <2>3, <2>4, <2>5, ServerAssumption, FreshHeld
<1>. QED  BY <1>1, <1>2, <1>3 DEF WorkerStep, WorkerFault

LEMMA FreshNext ==
  ASSUME BaseInv, BaseInv', Places, Fresh, [Next]_vars
  PROVE  Fresh'
<1>1. CASE UNCHANGED <<conn_pc, client, backlog, stream, channel, w_conn, w_pc>>
  BY <1>1, FreshMoved DEF Accepted, InChannel
<1>2. CASE UNCHANGED vars \/ SignalShutdown \/ DropServer
  BY <1>1, <1>2 DEF SignalShutdown, DropServer, vars, connVars, serverVars, mainVars, workerVars
<1>3. ASSUME NEW c \in Conn, Connect(c) \/ Client(c)
      PROVE  Fresh'
  <2>1. UNCHANGED <<conn_pc, stream, channel, w_conn, w_pc>>
    BY <1>3 DEF Connect, Client, ClientConnect, ClientStep, ClientLeave, ClientSend, serverVars,
                mainVars, workerVars
  <2>2. ASSUME NEW d \in Conn, Accepted(d) PROVE Accepted(d)'
    <3>1. CASE Client(c)
      BY <2>2, <3>1 DEF Client, ClientStep, ClientLeave, ClientSend, serverVars, Accepted, BaseInv,
                        ServerTypeOK, ConnTypeOK
    <3>2. CASE Connect(c)
      <4>1. d # c /\ client'[d] = client[d] /\ backlog' = Append(backlog, c)
        BY <2>2, <3>2 DEF Connect, ClientConnect, Accepted, BaseInv, ServerTypeOK, ConnTypeOK
      <4>2. /\ DOMAIN backlog = 1..Len(backlog) /\ DOMAIN backlog' = 1..(Len(backlog) + 1)
            /\ backlog'[Len(backlog) + 1] = c /\ Len(backlog) \in Nat
            /\ \A i \in 1..Len(backlog) : backlog'[i] = backlog[i]
        <5>1. backlog \in Seq(Conn)
          BY DEF BaseInv, ServerTypeOK
        <5>. QED  BY <4>1, <5>1, AppendIs, SMTT(30)
      <4>. QED  BY <2>2, <4>1, <4>2 DEF Accepted
    <3>. QED  BY <1>3, <3>1, <3>2
  <2>. QED  BY <2>1, <2>2, FreshMoved DEF InChannel
<1>. QED  BY <1>2, <1>3, FreshMain, FreshWorker DEF Next

-----------------------------------------------------------------------------
LEMMA ExchangeInit == ASSUME Init, NEW c \in Conn PROVE Exchange(c)
BY DEF Init, ConnInit, Exchange, Commands, Progress, Replies

LEMMA ExchangeNext ==
  ASSUME BaseInv, Fresh, [Next]_vars, NEW c \in Conn, \A d \in Conn : Exchange(d)
  PROVE  Exchange(c)'
<1>0. ConnTypeOK
  BY DEF BaseInv, ServerTypeOK
<1>1. CASE UNCHANGED connVars
  BY <1>1, ExchangeSame DEF connVars
<1>2. ASSUME NEW d \in Conn, ClientConnect(d) \/ ClientStep(d) \/ HandleStep(d) \/ ReadBreaks(d)
                             \/ CloseConn(d)
      PROVE  Exchange(c)'
  <2>1. CASE c = d
    BY <1>0, <1>2, <2>1, ClientExchange, HandleExchange, CloseExchange
  <2>. QED  BY <1>0, <1>2, <2>1, ExchangeOthers
<1>3. ASSUME NEW w \in Worker, NewConnection(w)
      PROVE  Exchange(c)'
  <2>1. w_conn[w] \in Conn /\ conn_pc[w_conn[w]] = "none"
    BY <1>3 DEF NewConnection, BaseInv, Holding, ServerTypeOK, Fresh
  <2>2. /\ Handler(w_conn[w], "read")
        /\ UNCHANGED <<client, sent, nread, executed, response, outbox>>
    BY <1>3 DEF NewConnection
  <2>3. CASE c = w_conn[w]
    BY <1>0, <2>1, <2>2, <2>3, BeginExchange
  <2>. QED  BY <1>0, <2>1, <2>2, <2>3, ExchangeOthers
<1>4. ASSUME NEW w \in Worker, WorkerStep(w) \/ WorkerFault(w), ~NewConnection(w)
      PROVE  Exchange(c)'
  <2>1. CASE UNCHANGED connVars
    BY <1>1, <2>1
  <2>2. CASE Handle(w) \/ HandleBreaks(w) \/ NewFails(w) \/ Panic(w)
    <3>1. w_conn[w] \in Conn
      BY <2>2 DEF Handle, HandleBreaks, NewFails, Panic, BaseInv, Holding, ServerTypeOK
    <3>2. HandleStep(w_conn[w]) \/ ReadBreaks(w_conn[w]) \/ CloseConn(w_conn[w])
      BY <2>2 DEF Handle, HandleBreaks, NewFails, Panic
    <3>. QED  BY <1>2, <3>1, <3>2
  <2>. QED  BY <1>4, <2>1, <2>2 DEF WorkerStep, WorkerFault, Recv, RecvClosed, Count, Uncount
<1>5. CASE CheckLimit
  <2>1. stream \in Conn
    BY <1>5 DEF CheckLimit, BaseInv, Holding, ServerTypeOK
  <2>. QED  BY <1>1, <1>2, <1>5, <2>1 DEF CheckLimit
<1>6. CASE MainStep \/ SignalShutdown \/ DropServer \/ UNCHANGED vars
  BY <1>1, <1>5, <1>6 DEF MainStep, Bind, Spawn, SpawnDone, Loop, Accept, Dispatch, Signal, Join,
                          SignalShutdown, DropServer, vars
<1>7. CASE \E d \in Conn : Connect(d) \/ Client(d)
  BY <1>2, <1>7 DEF Connect, Client
<1>. QED  BY <1>3, <1>4, <1>6, <1>7 DEF Next

LEMMA ExchangeInvariant == Spec => [](ConnTypeOK /\ \A c \in Conn : Exchange(c))
<1>. DEFINE Inv == ServerInv /\ Fresh /\ \A c \in Conn : Exchange(c)
<1>1. Init => Inv
  BY BaseInit, PlacesInit, OrderInit, FreshInit, ExchangeInit DEF ServerInv
<1>2. Inv /\ [Next]_vars => Inv'
  BY BaseNext, PlacesNext, OrderNext, FreshNext, ExchangeNext DEF ServerInv
<1>3. Inv => ConnTypeOK /\ \A c \in Conn : Exchange(c)
  BY DEF ServerInv, BaseInv, ServerTypeOK
<1>. QED  BY <1>1, <1>2, <1>3, PTL DEF Spec

(***************************************************************************)
(* The loop of Connection::handle executes the commands of a connection in *)
(* the order they were sent and each once, and the n-th response is that   *)
(* of the n-th, through failed sends, resets, timeouts and panics.         *)
(***************************************************************************)
THEOREM CommandsInOrder == Spec => []InOrder
<1>1. ASSUME ConnTypeOK, \A c \in Conn : Exchange(c) PROVE InOrder
  <2>. SUFFICES ASSUME NEW c \in Conn
                PROVE  /\ \A i \in DOMAIN executed[c] : executed[c][i] = i
                       /\ \A i \in DOMAIN outbox[c] :
                            \/ outbox[c][i].of = i
                            \/ outbox[c][i].of = 0 /\ i = Len(outbox[c]) /\ conn_pc[c] = "closed"
                       /\ \A i \in DOMAIN outbox[c] :
                            outbox[c][i].status # "error" => i <= Len(executed[c])
    BY DEF InOrder
  <2>1. DOMAIN executed[c] = 1..Len(executed[c]) /\ DOMAIN outbox[c] = 1..Len(outbox[c])
    BY <1>1, ConnTypes
  <2>. QED  BY <1>1, <2>1 DEF Exchange, Commands, Replies
<1>. QED  BY <1>1, ExchangeInvariant, PTL

(***************************************************************************)
(* A client that has not reset its connection lacks the response to at     *)
(* most one command that was executed.                                     *)
(***************************************************************************)
THEOREM LastInDoubt == Spec => []OneInDoubt
<1>1. (\A c \in Conn : Exchange(c)) => OneInDoubt
  BY DEF OneInDoubt, Exchange, Replies
<1>. QED  BY <1>1, ExchangeInvariant, PTL

(***************************************************************************)
(* No command behind a frame that read_command refused, or of which a part *)
(* is missing, is ever executed.                                           *)
(***************************************************************************)
THEOREM RefusalIsFinal == Spec => []RefusalEnds
<1>1. ASSUME ConnTypeOK, \A c \in Conn : Exchange(c) PROVE RefusalEnds
  <2>. SUFFICES ASSUME NEW c \in Conn, NEW i \in DOMAIN sent[c], sent[c][i] \in {"bad", "part"}
                PROVE  Len(executed[c]) < i
    BY DEF RefusalEnds
  <2>1. /\ nread[c] \in Nat /\ Len(executed[c]) \in Nat /\ Len(sent[c]) \in Nat
        /\ DOMAIN sent[c] = 1..Len(sent[c])
    BY <1>1, ConnTypes
  <2>. QED  BY <1>1, <2>1 DEF Exchange, Commands
<1>. QED  BY <1>1, ExchangeInvariant, PTL
=============================================================================

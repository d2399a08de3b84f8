-------------------------- MODULE ServerTypeProofs --------------------------
(***************************************************************************)
(* The server for any number of workers, connections and frames: the types *)
(* of its state, the counter of active connections, and who holds a        *)
(* connection at which point.                                              *)
(***************************************************************************)
EXTENDS ServerProperties, FiniteSetTheorems, TLAPS

\* A worker holds a connection from recv() to the end of handle_connection,
\* the accept loop from accept() to send().
Holding ==
  /\ \A w \in Worker : w_conn[w] # NoConn <=> w_pc[w] \in {"count", "new", "handle"}
  /\ stream # NoConn <=> srv_pc \in {"check", "send"}

BaseInv == ServerTypeOK /\ ActiveExact /\ Holding

-----------------------------------------------------------------------------
(***************************************************************************)
(* Sequences.                                                              *)
(***************************************************************************)
LEMMA AppendIs ==
  ASSUME NEW S, NEW s \in Seq(S), NEW x \in S
  PROVE  /\ Append(s, x) \in Seq(S)
         /\ Len(s) \in Nat /\ Len(Append(s, x)) = Len(s) + 1
         /\ DOMAIN s = 1..Len(s) /\ DOMAIN Append(s, x) = 1..(Len(s) + 1)
         /\ Append(s, x)[Len(s) + 1] = x
         /\ \A i \in 1..Len(s) : Append(s, x)[i] = s[i]
OBVIOUS

LEMMA TailIs ==
  ASSUME NEW S, NEW s \in Seq(S), s # <<>>
  PROVE  /\ Head(s) \in S /\ Head(s) = s[1] /\ 1 \in DOMAIN s
         /\ Tail(s) \in Seq(S) /\ Len(s) \in Nat
         /\ DOMAIN s = 1..Len(s) /\ DOMAIN Tail(s) = 1..(Len(s) - 1)
         /\ Len(Tail(s)) = Len(s) - 1
         /\ \A i \in 1..(Len(s) - 1) : Tail(s)[i] = s[i + 1]
OBVIOUS

LEMMA ExceptIs ==
  ASSUME NEW S, NEW s \in Seq(S), s # <<>>, NEW x \in S
  PROVE  [s EXCEPT ![Len(s)] = x] \in Seq(S)
OBVIOUS

-----------------------------------------------------------------------------
(***************************************************************************)
(* Connections.                                                            *)
(***************************************************************************)
LEMMA ErrorIs == \A n \in Nat : ErrorResponse(n) \in Response
BY DEF ErrorResponse, Response

\* The clients keep the types of the connections.
LEMMA ClientTypes ==
  ASSUME ConnTypeOK, NEW c \in Conn, ClientConnect(c) \/ ClientStep(c)
  PROVE  ConnTypeOK'
<1>1. CASE ClientConnect(c)
  BY <1>1 DEF ConnTypeOK, ClientConnect
<1>2. CASE ClientLeave(c)
  BY <1>2 DEF ConnTypeOK, ClientLeave
<1>3. ASSUME NEW f \in Command \cup {"bad", "part"}, ClientSend(c, f)
      PROVE  ConnTypeOK'
  <2>. DEFINE F == Command \cup {"bad", "part"}
  <2>1. sent[c] \in Seq(F) /\ f \in F
    BY DEF ConnTypeOK
  <2>2. Unfinished(c) => sent[c] # <<>>
    BY DEF Unfinished
  <2>. HIDE DEF F
  <2>3. Append(sent[c], f) \in Seq(F)
    BY <2>1
  <2>4. Unfinished(c) => [sent[c] EXCEPT ![Len(sent[c])] = f] \in Seq(F)
    BY <2>1, <2>2, ExceptIs
  <2>5. sent \in [Conn -> Seq(F)]
    BY DEF ConnTypeOK, F
  <2>6. sent' \in [Conn -> Seq(F)]
    BY <1>3, <2>3, <2>4, <2>5 DEF ClientSend
  <2>. QED  BY <1>3, <2>6 DEF ConnTypeOK, ClientSend, F
<1>. QED  BY <1>1, <1>2, <1>3 DEF ClientStep

\* So does the loop of Connection::handle.
LEMMA HandleTypes ==
  ASSUME ConnTypeOK, NEW c \in Conn, HandleStep(c) \/ ReadBreaks(c)
  PROVE  ConnTypeOK'
<1>. USE ErrorIs
<1>1. CASE ReadCommand(c)
  <2>1. nread[c] + 1 \in Nat
    BY DEF ConnTypeOK
  <2>2. nread' \in [Conn -> Nat] /\ nread'[c] = nread[c] + 1
    BY <1>1, <2>1 DEF ConnTypeOK, ReadCommand
  <2>3. response' \in [Conn -> Response]
    BY <1>1, <2>1, <2>2 DEF ConnTypeOK, ReadCommand
  <2>4. conn_pc' \in [Conn -> {"none", "read", "execute", "send", "refuse", "closed"}]
    BY <1>1 DEF ConnTypeOK, ReadCommand, Handler
  <2>. QED  BY <1>1, <2>2, <2>3, <2>4 DEF ConnTypeOK, ReadCommand
<1>2. CASE ReadEnds(c) \/ SendFails(c)
  BY <1>2 DEF ConnTypeOK, ReadEnds, SendFails, Handler
<1>3. CASE ReadBreaks(c)
  BY <1>3 DEF ConnTypeOK, ReadBreaks, Handler
<1>4. CASE Refuse(c) \/ SendResponse(c)
  <2>1. Append(outbox[c], response[c]) \in Seq(Response)
    <3>. HIDE DEF Response
    <3>. QED  BY AppendIs DEF ConnTypeOK
  <2>2. outbox' \in [Conn -> Seq(Response)]
    BY <1>4, <2>1 DEF ConnTypeOK, Refuse, SendResponse
  <2>. QED  BY <1>4, <2>2 DEF ConnTypeOK, Refuse, SendResponse, Handler
<1>5. CASE Execute(c)
  <2>1. nread[c] \in Nat /\ Append(executed[c], nread[c]) \in Seq(Nat)
    BY DEF ConnTypeOK
  <2>2. PICK r : r \in EngineResult(sent[c][nread[c]])
                 /\ response' = [response EXCEPT ![c] = ResponseTo(r, nread[c])]
    BY <1>5 DEF Execute
  <2>3. ResponseTo(r, nread[c]) \in Response
    BY <2>1 DEF ResponseTo, Response
  <2>. QED  BY <1>5, <2>1, <2>2, <2>3 DEF ConnTypeOK, Execute, Handler
<1>. QED  BY <1>1, <1>2, <1>3, <1>4, <1>5 DEF HandleStep

-----------------------------------------------------------------------------
(***************************************************************************)
(* The counter.                                                            *)
(***************************************************************************)
\* The sets of workers that are counted.
LEMMA WorkerSets ==
  /\ IsFiniteSet(Counted) /\ IsFiniteSet(Panicked)
  /\ Cardinality(Counted) \in Nat /\ Cardinality(Panicked) \in Nat
<1>1. Counted \in SUBSET Worker /\ Panicked \in SUBSET Worker
  BY DEF Counted, Panicked
<1>. QED  BY <1>1, ServerAssumption, FS_Subset, FS_CardinalityType

\* A worker's move changes the sets at that worker only.
LEMMA WorkerMoves ==
  ASSUME ServerTypeOK, NEW w \in Worker, NEW l, WorkerAt(w, l)
  PROVE  /\ Counted' = IF l \in {"new", "handle"} THEN Counted \cup {w} ELSE Counted \ {w}
         /\ Panicked' = IF l = "panicked" THEN Panicked \cup {w} ELSE Panicked \ {w}
<1>1. w_pc' = [w_pc EXCEPT ![w] = l] /\ w_pc = [v \in Worker |-> w_pc[v]]
  BY DEF WorkerAt, ServerTypeOK
<1>2. \A v \in Worker : w_pc'[v] = IF v = w THEN l ELSE w_pc[v]
  BY <1>1
<1>. QED  BY <1>2 DEF Counted, Panicked

\* What a step does to the counter it does to the counted workers: the
\* counter is incremented when a worker comes in, decremented on both ways
\* out, and left when a worker panics.
LEMMA CountStep ==
  ASSUME ServerTypeOK, ActiveExact, Next
  PROVE  active_connections' \in Nat /\ ActiveExact'
<1>. USE WorkerSets
<1>1. CASE UNCHANGED <<w_pc, active_connections>>
  BY <1>1 DEF ActiveExact, Counted, Panicked, ServerTypeOK
<1>2. ASSUME NEW w \in Worker, NEW l \in {"recv", "count", "stopped", "handle"}, WorkerAt(w, l),
             UNCHANGED active_connections, w_pc[w] \notin {"handle", "panicked"},
             l = "handle" <=> w_pc[w] = "new"
      PROVE  active_connections' \in Nat /\ ActiveExact'
  <2>1. Counted' = Counted /\ Panicked' = Panicked
    BY <1>2, WorkerMoves DEF Counted, Panicked
  <2>. QED  BY <1>2, <2>1 DEF ActiveExact, ServerTypeOK
<1>3. ASSUME NEW w \in Worker, Count(w)
      PROVE  active_connections' \in Nat /\ ActiveExact'
  <2>1. Counted' = Counted \cup {w} /\ Panicked' = Panicked /\ w \notin Counted
    BY <1>3, WorkerMoves DEF Count, Counted, Panicked
  <2>2. Cardinality(Counted') = Cardinality(Counted) + 1
    BY <2>1, FS_AddElement
  <2>3. active_connections' = active_connections + 1
    BY <1>3 DEF Count
  <2>4. active_connections' = Cardinality(Counted') + Cardinality(Panicked')
    BY <2>1, <2>2, <2>3 DEF ActiveExact
  <2>. QED  BY <2>3, <2>4 DEF ActiveExact, ServerTypeOK
<1>4. ASSUME NEW w \in Worker, NewFails(w) \/ Uncount(w)
      PROVE  active_connections' \in Nat /\ ActiveExact'
  <2>1. Counted' = Counted \ {w} /\ Panicked' = Panicked /\ w \in Counted
    BY <1>4, WorkerMoves DEF NewFails, Uncount, Counted, Panicked
  <2>2. Cardinality(Counted') = Cardinality(Counted) - 1 /\ Cardinality(Counted') \in Nat
    BY <2>1, FS_RemoveElement, FS_CardinalityType
  <2>3. active_connections' = active_connections - 1
    BY <1>4 DEF NewFails, Uncount
  <2>. QED  BY <2>1, <2>2, <2>3 DEF ActiveExact, ServerTypeOK
<1>5. ASSUME NEW w \in Worker, Panic(w)
      PROVE  active_connections' \in Nat /\ ActiveExact'
  <2>1. /\ Counted' = Counted \ {w} /\ w \in Counted
        /\ Panicked' = Panicked \cup {w} /\ w \notin Panicked
    BY <1>5, WorkerMoves DEF Panic, Counted, Panicked
  <2>2. Cardinality(Counted') = Cardinality(Counted) - 1
    BY <2>1, FS_RemoveElement
  <2>3. Cardinality(Panicked') = Cardinality(Panicked) + 1
    BY <2>1, FS_AddElement
  <2>. QED  BY <1>5, <2>2, <2>3 DEF ActiveExact, ServerTypeOK, Panic
<1>6. ASSUME NEW w \in Worker, WorkerStep(w) \/ WorkerFault(w)
      PROVE  active_connections' \in Nat /\ ActiveExact'
  <2>1. CASE Recv(w)
    BY <1>2, <2>1 DEF Recv
  <2>2. CASE RecvClosed(w)
    BY <1>2, <2>2 DEF RecvClosed
  <2>3. CASE NewConnection(w)
    BY <1>2, <2>3 DEF NewConnection
  <2>4. CASE Handle(w) \/ HandleBreaks(w)
    BY <1>1, <2>4 DEF Handle, HandleBreaks, serverVars, workerVars
  <2>. QED  BY <1>3, <1>4, <1>5, <1>6, <2>1, <2>2, <2>3, <2>4 DEF WorkerStep, WorkerFault
<1>7. CASE \E w \in Worker : Spawn(w)
  BY <1>2, <1>7 DEF Spawn
<1>8. CASE Bind \/ SpawnDone \/ Loop \/ Accept \/ CheckLimit \/ Dispatch \/ Signal \/ Join
  BY <1>1, <1>8 DEF Bind, SpawnDone, Loop, Accept, CheckLimit, Dispatch, Signal, Join, workerVars
<1>9. CASE SignalShutdown \/ DropServer \/ \E c \in Conn : Connect(c) \/ Client(c)
  BY <1>1, <1>9 DEF SignalShutdown, DropServer, Connect, Client, serverVars, workerVars
<1>. QED  BY <1>6, <1>7, <1>8, <1>9 DEF Next, MainStep

-----------------------------------------------------------------------------
(***************************************************************************)
(* The types of the server and who holds what.                             *)
(***************************************************************************)
\* The main thread's steps.
LEMMA MainTypes ==
  ASSUME BaseInv, MainStep \/ SignalShutdown \/ DropServer, active_connections' \in Nat
  PROVE  ServerTypeOK' /\ Holding'
<1>. USE ServerAssumption
<1>1. CASE Bind \/ SpawnDone \/ Loop \/ Join \/ DropServer \/ SignalShutdown
  <2>1. /\ UNCHANGED <<connVars, workerVars, stream, signals, channel, backlog>>
        /\ shutdown' \in BOOLEAN
    BY <1>1 DEF BaseInv, ServerTypeOK, Bind, SpawnDone, Loop, Join, DropServer, SignalShutdown,
                mainVars
  <2>2. /\ srv_pc' \in {"bind", "spawn", "loop", "accept", "check", "send",
                        "signal", "join", "done", "failed", "dropped"}
        /\ srv_pc' \in {"check", "send"} <=> srv_pc \in {"check", "send"}
    BY <1>1 DEF BaseInv, ServerTypeOK, Bind, SpawnDone, Loop, Join, DropServer, SignalShutdown,
                mainVars, Main
  <2>. QED
    BY <2>1, <2>2 DEF BaseInv, ServerTypeOK, ConnTypeOK, Holding, connVars, workerVars
<1>2. CASE Accept
  <2>1. backlog # <<>> => Head(backlog) \in Conn /\ Tail(backlog) \in Seq(Conn)
    BY DEF BaseInv, ServerTypeOK
  <2>. QED
    BY <1>2, <2>1 DEF BaseInv, ServerTypeOK, ConnTypeOK, Holding, Accept, Main, connVars, workerVars
<1>3. CASE CheckLimit
  BY <1>3 DEF BaseInv, ServerTypeOK, ConnTypeOK, Holding, CheckLimit, Main, CloseConn, Handler,
              connVars, workerVars
<1>4. CASE Dispatch \/ Signal
  <2>. DEFINE M == Conn \cup {Shutdown}
  <2>1. channel \in Seq(M) /\ Shutdown \in M /\ (stream # NoConn => stream \in M)
    BY DEF BaseInv, ServerTypeOK
  <2>. HIDE DEF M
  <2>2. channel' \in Seq(M)
    BY <1>4, <2>1, AppendIs DEF Dispatch, Signal, BaseInv, Holding
  <2>3. channel' \in Seq(Conn \cup {Shutdown})
    BY <2>2 DEF M
  <2>4. /\ UNCHANGED <<connVars, workerVars, shutdown, backlog>>
        /\ srv_pc' \in {"loop", "signal", "join"}
        /\ stream' = NoConn /\ signals' \in Nat
    BY <1>4 DEF BaseInv, ServerTypeOK, Holding, Dispatch, Signal, Main
  <2>5. ConnTypeOK'
    BY <2>4 DEF BaseInv, ServerTypeOK, ConnTypeOK, connVars
  <2>6. ServerTypeOK'
    BY <2>3, <2>4, <2>5 DEF BaseInv, ServerTypeOK, workerVars
  <2>. QED  BY <2>4, <2>6 DEF BaseInv, Holding, workerVars
<1>5. CASE \E w \in Worker : Spawn(w)
  BY <1>5 DEF BaseInv, ServerTypeOK, ConnTypeOK, Holding, Spawn, WorkerAt, connVars, mainVars
<1>. QED  BY <1>1, <1>2, <1>3, <1>4, <1>5 DEF MainStep

\* The workers' steps.
LEMMA WorkerTypes ==
  ASSUME BaseInv, NEW w \in Worker, WorkerStep(w) \/ WorkerFault(w), active_connections' \in Nat
  PROVE  ServerTypeOK' /\ Holding'
<1>. USE ServerAssumption
<1>1. CASE Recv(w)
  <2>. DEFINE M == Conn \cup {Shutdown}
  <2>1. channel \in Seq(M) /\ channel # <<>>
    BY <1>1 DEF BaseInv, ServerTypeOK, Recv
  <2>. HIDE DEF M
  <2>2. channel' \in Seq(M) /\ Head(channel) \in M
    BY <1>1, <2>1, TailIs DEF Recv
  <2>3. channel' \in Seq(Conn \cup {Shutdown}) /\ Head(channel) \in Conn \cup {Shutdown}
    BY <2>2 DEF M
  <2>4. /\ w_pc' \in [Worker -> {"none", "recv", "count", "new", "handle", "stopped", "panicked"}]
        /\ w_conn' \in [Worker -> Conn \cup {NoConn}]
    BY <1>1, <2>3 DEF BaseInv, ServerTypeOK, Recv, WorkerAt
  <2>5. ServerTypeOK'
    BY <1>1, <2>3, <2>4 DEF BaseInv, ServerTypeOK, ConnTypeOK, Recv, connVars, mainVars
  <2>6. Holding'
    BY <1>1, <2>3 DEF BaseInv, ServerTypeOK, Holding, Recv, WorkerAt, mainVars
  <2>. QED  BY <2>5, <2>6
<1>2. CASE RecvClosed(w) \/ Count(w)
  BY <1>2, ZenonT(40)
           DEF BaseInv, ServerTypeOK, ConnTypeOK, Holding, RecvClosed, Count, WorkerAt, connVars,
              mainVars
<1>3. CASE NewConnection(w)
  BY <1>3 DEF BaseInv, ServerTypeOK, ConnTypeOK, Holding, NewConnection, WorkerAt, Handler, mainVars
<1>4. CASE Handle(w) \/ HandleBreaks(w)
  <2>1. w_conn[w] \in Conn
    BY <1>4 DEF Handle, HandleBreaks, BaseInv, Holding, ServerTypeOK
  <2>2. ConnTypeOK'
    BY <1>4, <2>1, HandleTypes DEF Handle, HandleBreaks, BaseInv, ServerTypeOK
  <2>3. UNCHANGED serverVars
    BY <1>4 DEF Handle, HandleBreaks
  <2>4. ServerTypeOK'
    BY <2>2, <2>3 DEF BaseInv, ServerTypeOK, serverVars, mainVars, workerVars
  <2>. QED  BY <2>3, <2>4 DEF BaseInv, Holding, serverVars, mainVars, workerVars
<1>5. CASE NewFails(w) \/ Uncount(w) \/ Panic(w)
  <2>1. ConnTypeOK'
    BY <1>5, ZenonT(40)
             DEF NewFails, Uncount, Panic, CloseConn, Handler, BaseInv, ServerTypeOK, ConnTypeOK,
                connVars
  <2>2. \E l \in {"recv", "panicked"} : WorkerAt(w, l)
    BY <1>5 DEF NewFails, Uncount, Panic
  <2>3. w_conn' = [w_conn EXCEPT ![w] = NoConn] /\ UNCHANGED <<mainVars, shutdown, channel, backlog>>
    BY <1>5 DEF NewFails, Uncount, Panic
  <2>. QED  BY <2>1, <2>2, <2>3 DEF BaseInv, ServerTypeOK, Holding, WorkerAt, mainVars
<1>. QED  BY <1>1, <1>2, <1>3, <1>4, <1>5 DEF WorkerStep, WorkerFault

LEMMA BaseInit == Init => BaseInv
<1>. SUFFICES ASSUME Init PROVE BaseInv
  OBVIOUS
<1>1. ServerTypeOK
  <2>1. ErrorResponse(0) \in Response
    BY ErrorIs
  <2>2. ConnTypeOK
    BY <2>1 DEF Init, ConnInit, ConnTypeOK
  <2>3. /\ w_pc \in [Worker -> {"none", "recv", "count", "new", "handle", "stopped", "panicked"}]
        /\ w_conn \in [Worker -> Conn \cup {NoConn}]
    BY DEF Init
  <2>4. channel \in Seq(Conn \cup {Shutdown}) /\ backlog \in Seq(Conn)
    BY DEF Init
  <2>. QED  BY <2>2, <2>3, <2>4 DEF Init, ServerTypeOK
<1>2. Counted = {} /\ Panicked = {}
  BY DEF Init, Counted, Panicked
<1>. QED  BY <1>1, <1>2, FS_EmptySet DEF BaseInv, ActiveExact, Holding, Init

LEMMA BaseNext == BaseInv /\ [Next]_vars => BaseInv'
<1>. SUFFICES ASSUME BaseInv, [Next]_vars PROVE BaseInv'
  OBVIOUS
<1>1. CASE UNCHANGED vars
  BY <1>1 DEF vars, connVars, serverVars, mainVars, workerVars, BaseInv, ServerTypeOK, ConnTypeOK,
              ActiveExact, Counted, Panicked, Holding
<1>2. CASE Next
  <2>1. active_connections' \in Nat /\ ActiveExact'
    BY <1>2, CountStep DEF BaseInv
  <2>2. CASE MainStep \/ SignalShutdown \/ DropServer
    BY <2>1, <2>2, MainTypes DEF BaseInv
  <2>3. CASE \E w \in Worker : WorkerStep(w) \/ WorkerFault(w)
    BY <2>1, <2>3, WorkerTypes DEF BaseInv
  <2>4. ASSUME NEW c \in Conn, Connect(c) PROVE BaseInv'
    <3>1. ConnTypeOK'
      BY <2>4, ClientTypes DEF Connect, BaseInv, ServerTypeOK
    <3>2. backlog' \in Seq(Conn)
      BY <2>4 DEF Connect, BaseInv, ServerTypeOK
    <3>. QED
      BY <2>1, <2>4, <3>1, <3>2 DEF Connect, BaseInv, ServerTypeOK, Holding, mainVars, workerVars
  <2>5. ASSUME NEW c \in Conn, Client(c) PROVE BaseInv'
    <3>1. ConnTypeOK'
      BY <2>5, ClientTypes DEF Client, BaseInv, ServerTypeOK
    <3>. QED
      BY <2>1, <2>5, <3>1 DEF Client, BaseInv, ServerTypeOK, Holding, serverVars, mainVars,
                              workerVars
  <2>. QED  BY <1>2, <2>2, <2>3, <2>4, <2>5 DEF Next
<1>. QED  BY <1>1, <1>2
=============================================================================

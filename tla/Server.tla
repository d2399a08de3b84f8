------------------------------- MODULE Server ------------------------------
(***************************************************************************)
(* The TCP server (network/server.rs): Server::run binds, spawns its       *)
(* workers, accepts connections and hands them over through a bounded      *)
(* channel; a worker serves one connection at a time.  After shutdown()    *)
(* the main thread sends one Shutdown message per worker and joins them.   *)
(*                                                                         *)
(* srv_pc is the main thread, w_pc[w] a worker.  The counter of active     *)
(* connections is incremented by the worker, not by the accept loop that   *)
(* compares it with the limit.                                             *)
(***************************************************************************)
EXTENDS Connection

CONSTANTS Worker,          \* the workers run() means to spawn, num_cpus()
          MaxConnections,  \* max_connections: the limit, and the channel's capacity
          MaxPanics,       \* bound on the connections that panic
          Shutdown,        \* WorkerMessage::Shutdown
          NoConn

ASSUME ServerAssumption ==
  /\ IsFiniteSet(Worker) /\ Worker # {}
  /\ MaxConnections \in Nat \ {0} /\ MaxPanics \in Nat
  /\ Shutdown \notin Conn /\ NoConn \notin Conn /\ NoConn # Shutdown

VARIABLES
  srv_pc,              \* "bind", "spawn", "loop", "accept", "check", "send",
                       \* "signal", "join", "done", "failed" or "dropped"
  shutdown,            \* the flag
  stream,              \* the connection the accept loop holds
  channel,             \* WorkerMessages, oldest first
  signals,             \* how many Shutdown messages it has sent
  active_connections,
  backlog,             \* connections the listener has not handed out
  w_pc,                \* "none", "recv", "count", "new", "handle", "stopped"
                       \* or "panicked"
  w_conn               \* the connection a worker has received

mainVars   == <<srv_pc, stream, signals>>
workerVars == <<w_pc, w_conn>>
serverVars == <<mainVars, workerVars, shutdown, channel, active_connections, backlog>>
vars       == <<connVars, serverVars>>

Workers == {w \in Worker : w_pc[w] # "none"}   \* self.workers

ServerTypeOK ==
  /\ ConnTypeOK
  /\ srv_pc \in {"bind", "spawn", "loop", "accept", "check", "send",
                 "signal", "join", "done", "failed", "dropped"}
  /\ shutdown \in BOOLEAN
  /\ stream \in Conn \cup {NoConn}
  /\ channel \in Seq(Conn \cup {Shutdown})
  /\ signals \in Nat
  /\ active_connections \in Nat
  /\ backlog \in Seq(Conn)
  /\ w_pc \in [Worker -> {"none", "recv", "count", "new", "handle", "stopped", "panicked"}]
  /\ w_conn \in [Worker -> Conn \cup {NoConn}]

Init ==
  /\ ConnInit
  /\ srv_pc = "bind" /\ shutdown = FALSE /\ stream = NoConn
  /\ channel = <<>> /\ signals = 0 /\ active_connections = 0 /\ backlog = <<>>
  /\ w_pc = [w \in Worker |-> "none"]
  /\ w_conn = [w \in Worker |-> NoConn]

Main(l)       == srv_pc' = l
WorkerAt(w, l) == w_pc' = [w_pc EXCEPT ![w] = l]
CloseConn(c)  == Handler(c, "closed") /\ UNCHANGED <<client, sent, nread, executed, response, outbox>>

-----------------------------------------------------------------------------
(***************************************************************************)
(* Server::run.                                                            *)
(***************************************************************************)
\* bind and set_nonblocking; either may fail.
Bind ==
  /\ srv_pc = "bind" /\ (Main("spawn") \/ Main("failed"))
  /\ UNCHANGED <<connVars, workerVars, stream, signals, shutdown, channel,
                 active_connections, backlog>>

Spawn(w) ==
  /\ srv_pc = "spawn" /\ w_pc[w] = "none"
  /\ WorkerAt(w, "recv")
  /\ UNCHANGED <<connVars, mainVars, w_conn, shutdown, channel, active_connections, backlog>>

SpawnDone ==
  /\ srv_pc = "spawn"
  /\ \/ Workers = Worker /\ Main("loop")
     \/ Workers # Worker /\ Main("failed")    \* spawn() fails
  /\ UNCHANGED <<connVars, workerVars, stream, signals, shutdown, channel,
                 active_connections, backlog>>

\* while !shutdown
Loop ==
  /\ srv_pc = "loop"
  /\ Main(IF shutdown THEN "signal" ELSE "accept")
  /\ UNCHANGED <<connVars, workerVars, stream, signals, shutdown, channel,
                 active_connections, backlog>>

\* accept(): a connection, or WouldBlock and a short sleep, or an error.
Accept ==
  /\ srv_pc = "accept"
  /\ \/ /\ backlog # <<>>
        /\ stream' = Head(backlog) /\ backlog' = Tail(backlog)
        /\ Main("check")
     \/ /\ Main("loop")
        /\ UNCHANGED <<stream, backlog>>
  /\ UNCHANGED <<connVars, workerVars, signals, shutdown, channel, active_connections>>

\* The counter is compared with the limit; a connection over it is dropped.
CheckLimit ==
  /\ srv_pc = "check"
  /\ \/ /\ active_connections >= MaxConnections
        /\ CloseConn(stream)
        /\ stream' = NoConn /\ Main("loop")
     \/ /\ active_connections < MaxConnections
        /\ Main("send")
        /\ UNCHANGED <<connVars, stream>>
  /\ UNCHANGED <<workerVars, signals, shutdown, channel, active_connections, backlog>>

\* Mutations of Dispatch: a channel without bound; try_send().
DispatchUnbounded ==
  /\ srv_pc = "send"
  /\ channel' = Append(channel, stream)
  /\ stream' = NoConn /\ Main("loop")
  /\ UNCHANGED <<connVars, workerVars, signals, shutdown, active_connections, backlog>>

DispatchTry ==
  /\ srv_pc = "send"
  /\ channel' = IF Len(channel) < MaxConnections THEN Append(channel, stream) ELSE channel
  /\ stream' = NoConn /\ Main("loop")
  /\ UNCHANGED <<connVars, workerVars, signals, shutdown, active_connections, backlog>>

\* send() blocks while the channel is full.  It cannot fail: run() itself
\* holds a receiver.
Dispatch ==
  /\ srv_pc = "send" /\ Len(channel) < MaxConnections
  /\ channel' = Append(channel, stream)
  /\ stream' = NoConn /\ Main("loop")
  /\ UNCHANGED <<connVars, workerVars, signals, shutdown, active_connections, backlog>>

\* cleanup: one Shutdown message for each worker.
Signal ==
  /\ srv_pc = "signal"
  /\ \/ /\ signals < Cardinality(Workers) /\ Len(channel) < MaxConnections
        /\ channel' = Append(channel, Shutdown)
        /\ signals' = signals + 1
        /\ UNCHANGED srv_pc
     \/ /\ signals = Cardinality(Workers)
        /\ Main("join")
        /\ UNCHANGED <<channel, signals>>
  /\ UNCHANGED <<connVars, workerVars, stream, shutdown, active_connections, backlog>>

\* Mutation of Join: the handles are dropped without join().
JoinNone ==
  /\ srv_pc = "join"
  /\ Main("done")
  /\ UNCHANGED <<connVars, workerVars, stream, signals, shutdown, channel,
                 active_connections, backlog>>

\* join() of every worker; that of a panicked one returns at once.
Join ==
  /\ srv_pc = "join"
  /\ \A w \in Workers : w_pc[w] \in {"stopped", "panicked"}
  /\ Main("done")
  /\ UNCHANGED <<connVars, workerVars, stream, signals, shutdown, channel,
                 active_connections, backlog>>

MainStep ==
  \/ Bind \/ SpawnDone \/ Loop \/ Accept \/ CheckLimit \/ Dispatch \/ Signal \/ Join
  \/ \E w \in Worker : Spawn(w)

\* Server::shutdown, from another thread.
SignalShutdown ==
  /\ ~shutdown /\ shutdown' = TRUE
  /\ UNCHANGED <<connVars, mainVars, workerVars, channel, active_connections, backlog>>

\* The Server is dropped after run() failed, and with it the sender.
DropServer ==
  /\ srv_pc = "failed" /\ Main("dropped")
  /\ UNCHANGED <<connVars, workerVars, stream, signals, shutdown, channel,
                 active_connections, backlog>>

-----------------------------------------------------------------------------
(***************************************************************************)
(* Worker::run and handle_connection.                                      *)
(***************************************************************************)
Recv(w) ==
  /\ w_pc[w] = "recv" /\ channel # <<>>
  /\ channel' = Tail(channel)
  /\ \/ /\ Head(channel) = Shutdown
        /\ WorkerAt(w, "stopped")
        /\ UNCHANGED w_conn
     \/ /\ Head(channel) # Shutdown
        /\ WorkerAt(w, "count")
        /\ w_conn' = [w_conn EXCEPT ![w] = Head(channel)]
  /\ UNCHANGED <<connVars, mainVars, shutdown, active_connections, backlog>>

\* recv() fails once the channel is empty and the sender gone.
RecvClosed(w) ==
  /\ w_pc[w] = "recv" /\ channel = <<>> /\ srv_pc = "dropped"
  /\ WorkerAt(w, "stopped")
  /\ UNCHANGED <<connVars, mainVars, w_conn, shutdown, channel, active_connections, backlog>>

\* fetch_add
Count(w) ==
  /\ w_pc[w] = "count" /\ WorkerAt(w, "new")
  /\ active_connections' = active_connections + 1
  /\ UNCHANGED <<connVars, mainVars, w_conn, shutdown, channel, backlog>>

\* Connection::new and set_timeouts.
NewConnection(w) ==
  /\ w_pc[w] = "new" /\ WorkerAt(w, "handle")
  /\ Handler(w_conn[w], "read")
  /\ UNCHANGED <<client, sent, nread, executed, response, outbox>>
  /\ UNCHANGED <<mainVars, w_conn, shutdown, channel, active_connections, backlog>>

\* Mutation of NewFails: no fetch_sub on this path.
NewFailsLeaks(w) ==
  /\ w_pc[w] = "new" /\ WorkerAt(w, "recv")
  /\ CloseConn(w_conn[w])
  /\ w_conn' = [w_conn EXCEPT ![w] = NoConn]
  /\ UNCHANGED <<mainVars, shutdown, channel, active_connections, backlog>>

\* Connection::new fails: the connection is dropped, fetch_sub.
NewFails(w) ==
  /\ w_pc[w] = "new" /\ WorkerAt(w, "recv")
  /\ CloseConn(w_conn[w])
  /\ w_conn' = [w_conn EXCEPT ![w] = NoConn]
  /\ active_connections' = active_connections - 1
  /\ UNCHANGED <<mainVars, shutdown, channel, backlog>>

Handle(w) ==
  /\ w_pc[w] = "handle"
  /\ HandleStep(w_conn[w])
  /\ UNCHANGED serverVars

HandleBreaks(w) ==
  /\ w_pc[w] = "handle"
  /\ ReadBreaks(w_conn[w])
  /\ UNCHANGED serverVars

\* Mutation of Uncount: fetch_sub comes twice.
UncountTwice(w) ==
  /\ w_pc[w] = "handle" /\ conn_pc[w_conn[w]] = "closed"
  /\ WorkerAt(w, "recv")
  /\ w_conn' = [w_conn EXCEPT ![w] = NoConn]
  /\ active_connections' = active_connections - 2
  /\ UNCHANGED <<connVars, mainVars, shutdown, channel, backlog>>

\* handle() has returned: fetch_sub.
Uncount(w) ==
  /\ w_pc[w] = "handle" /\ conn_pc[w_conn[w]] = "closed"
  /\ WorkerAt(w, "recv")
  /\ w_conn' = [w_conn EXCEPT ![w] = NoConn]
  /\ active_connections' = active_connections - 1
  /\ UNCHANGED <<connVars, mainVars, shutdown, channel, backlog>>

Panicked == {w \in Worker : w_pc[w] = "panicked"}

\* A panic in the engine ends the worker; the connection is dropped, the
\* counter is not decremented.
Panic(w) ==
  /\ w_pc[w] = "handle" /\ conn_pc[w_conn[w]] = "execute"
  /\ Cardinality(Panicked) < MaxPanics
  /\ WorkerAt(w, "panicked")
  /\ CloseConn(w_conn[w])
  /\ w_conn' = [w_conn EXCEPT ![w] = NoConn]
  /\ UNCHANGED <<mainVars, shutdown, channel, active_connections, backlog>>

WorkerStep(w) ==
  Recv(w) \/ RecvClosed(w) \/ Count(w) \/ NewConnection(w) \/ Handle(w) \/ Uncount(w)

WorkerFault(w) == NewFails(w) \/ HandleBreaks(w) \/ Panic(w)

-----------------------------------------------------------------------------
\* The listener takes connections from bind() on; the clients do not depend
\* on the server for the rest.
Connect(c) ==
  /\ srv_pc \notin {"bind", "failed", "dropped", "done"}
  /\ ClientConnect(c)
  /\ backlog' = Append(backlog, c)
  /\ UNCHANGED <<mainVars, workerVars, shutdown, channel, active_connections>>

Client(c) == ClientStep(c) /\ UNCHANGED serverVars

Next ==
  \/ MainStep \/ SignalShutdown \/ DropServer
  \/ \E w \in Worker : WorkerStep(w) \/ WorkerFault(w)
  \/ \E c \in Conn : Connect(c) \/ Client(c)

Spec == Init /\ [][Next]_vars

\* The threads run: the main thread and each worker take the steps they can.
Fairness == WF_vars(MainStep) /\ \A w \in Worker : WF_vars(WorkerStep(w))

FairSpec == Spec /\ Fairness
=============================================================================

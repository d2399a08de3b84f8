---------------------------- MODULE ServerProofs ----------------------------
(***************************************************************************)
(* The theorems about the server.  That a shutdown leaves no connection    *)
(* open rests on the order of the channel: the main thread sends its       *)
(* Shutdown messages after the last connection, so a worker that takes one *)
(* finds no connection behind it.                                          *)
(***************************************************************************)
EXTENDS PlaceProofs

Serving == {"loop", "accept", "check", "send"}
Ending  == {"signal", "join", "done"}

Bounded == Len(channel) <= MaxConnections

Spawned == srv_pc \in Serving \cup Ending => \A w \in Worker : w_pc[w] # "none"

\* Only after the accept loop has ended is there a Shutdown message, or a
\* worker that has stopped.
Late ==
  /\ (\E i \in DOMAIN channel : channel[i] = Shutdown) => srv_pc \in Ending
  /\ (\E w \in Worker : w_pc[w] = "stopped") => srv_pc \in Ending \cup {"dropped"}

\* Behind a Shutdown message there are only others, and in front of a
\* stopped worker too.
Last ==
  /\ \A i, j \in DOMAIN channel : i < j /\ channel[i] = Shutdown => channel[j] = Shutdown
  /\ srv_pc \in Ending /\ (\E w \in Worker : w_pc[w] = "stopped") =>
       \A i \in DOMAIN channel : channel[i] = Shutdown

Joined == srv_pc = "done" => \A w \in Worker : w_pc[w] \in {"stopped", "panicked"}

Order == Bounded /\ Spawned /\ Late /\ Last /\ Joined

ServerInv == BaseInv /\ Places /\ Order

-----------------------------------------------------------------------------
LEMMA OrderInit == Init => Order
<1>. SUFFICES ASSUME Init PROVE Order
  OBVIOUS
<1>1. /\ channel = <<>> /\ srv_pc = "bind" /\ \A w \in Worker : w_pc[w] = "none"
  BY DEF Init
<1>2. Len(channel) = 0 /\ DOMAIN channel = {}
  BY <1>1
<1>3. Bounded
  BY <1>2, ServerAssumption DEF Bounded
<1>. QED  BY <1>1, <1>2, <1>3 DEF Order, Spawned, Late, Last, Joined, Serving, Ending

\* send() of a connection, or of a Shutdown message in cleanup().
LEMMA SendOrder ==
  ASSUME BaseInv, Order, Dispatch \/ Signal
  PROVE  Order'
<1>0. UNCHANGED w_pc
  BY DEF Dispatch, Signal, workerVars
<1>1. CASE UNCHANGED channel
  BY <1>0, <1>1 DEF Signal, Dispatch, Main, Order, Bounded, Spawned, Late, Last, Joined, Serving,
                    Ending
<1>2. ASSUME NEW x \in Conn \cup {Shutdown}, channel' = Append(channel, x),
             Len(channel) < MaxConnections,
             \/ x # Shutdown /\ srv_pc = "send" /\ srv_pc' = "loop"
             \/ x = Shutdown /\ srv_pc = "signal" /\ srv_pc' = "signal"
      PROVE  Order'
  <2>. DEFINE M == Conn \cup {Shutdown}
  <2>1. channel \in Seq(M) /\ x \in M
    BY DEF BaseInv, ServerTypeOK
  <2>. HIDE DEF M
  <2>2. /\ Len(channel) \in Nat /\ Len(channel') = Len(channel) + 1
        /\ DOMAIN channel = 1..Len(channel) /\ DOMAIN channel' = 1..(Len(channel) + 1)
        /\ channel'[Len(channel) + 1] = x
        /\ \A i \in 1..Len(channel) : channel'[i] = channel[i]
    BY <1>2, <2>1, AppendIs
  <2>3. \A i \in DOMAIN channel' :
           (i = Len(channel) + 1 /\ channel'[i] = x) \/ (i \in DOMAIN channel /\ channel'[i] = channel[i])
    BY <2>2
  <2>4. \A i, j \in DOMAIN channel' : i < j => i \in DOMAIN channel
    BY <2>2
  <2>5. Bounded'
    BY <1>2, <2>2, ServerAssumption DEF Bounded
  <2>6. Spawned' /\ Joined'
    BY <1>0, <1>2 DEF Order, Spawned, Joined, Serving, Ending
  <2>7. Late'
    BY <1>0, <1>2, <2>3 DEF Order, Late, Ending
  <2>8. Last'
    <3>1. CASE x = Shutdown
      BY <1>0, <1>2, <2>3, <2>4, <3>1 DEF Order, Last, Ending
    <3>2. CASE x # Shutdown
      <4>1. \A i \in DOMAIN channel : channel[i] # Shutdown
        BY <1>2, <3>2 DEF Order, Late, Ending
      <4>2. srv_pc' \notin Ending
        BY <1>2, <3>2 DEF Ending
      <4>3. \A i, j \in DOMAIN channel' : i < j => channel'[i] # Shutdown
        BY <2>3, <2>4, <4>1, <3>2
      <4>. QED  BY <4>2, <4>3 DEF Last
    <3>. QED  BY <3>1, <3>2
  <2>. QED  BY <2>5, <2>6, <2>7, <2>8 DEF Order
<1>3. CASE Dispatch
  <2>1. stream \in Conn
    BY <1>3 DEF Dispatch, BaseInv, Holding, ServerTypeOK
  <2>. QED  BY <1>2, <1>3, <2>1, ServerAssumption DEF Dispatch, Main
<1>. QED  BY <1>1, <1>2, <1>3 DEF Signal

\* recv()
LEMMA RecvOrder ==
  ASSUME BaseInv, Order, NEW w \in Worker, Recv(w)
  PROVE  Order'
<1>0. /\ UNCHANGED srv_pc /\ channel # <<>> /\ channel' = Tail(channel) /\ w_pc[w] = "recv"
      /\ \E l \in {"stopped", "count"} : WorkerAt(w, l) /\ (l = "stopped" <=> Head(channel) = Shutdown)
  BY DEF Recv, mainVars
<1>1. PICK l \in {"stopped", "count"} :
         /\ \A v \in Worker : w_pc'[v] = IF v = w THEN l ELSE w_pc[v]
         /\ l = "stopped" <=> Head(channel) = Shutdown
  BY <1>0 DEF WorkerAt, BaseInv, ServerTypeOK
<1>. DEFINE M == Conn \cup {Shutdown}
<1>2. channel \in Seq(M)
  BY DEF BaseInv, ServerTypeOK
<1>. HIDE DEF M
<1>3. /\ Head(channel) = channel[1] /\ 1 \in DOMAIN channel
      /\ Len(channel) \in Nat /\ Len(channel') = Len(channel) - 1
      /\ DOMAIN channel = 1..Len(channel) /\ DOMAIN channel' = 1..(Len(channel) - 1)
      /\ \A i \in 1..(Len(channel) - 1) : channel'[i] = channel[i + 1]
  BY <1>0, <1>2, TailIs
<1>4. \A i \in DOMAIN channel' : i + 1 \in DOMAIN channel /\ channel'[i] = channel[i + 1] /\ 1 < i + 1
  BY <1>3
<1>5. \A i, j \in DOMAIN channel' : i < j => i + 1 < j + 1
  BY <1>3
<1>6. Bounded'
  BY <1>3, ServerAssumption DEF Order, Bounded
<1>7. Spawned' /\ Joined'
  <2>1. w_pc[w] = "recv" => srv_pc # "done"
    BY DEF Order, Joined
  <2>. QED  BY <1>0, <1>1, <2>1 DEF Order, Spawned, Joined
<1>8. Late'
  BY <1>0, <1>1, <1>3, <1>4 DEF Order, Late
<1>9. Last'
  <2>1. \A i, j \in DOMAIN channel' : i < j /\ channel'[i] = Shutdown => channel'[j] = Shutdown
    BY <1>4, <1>5 DEF Order, Last
  <2>2. Head(channel) = Shutdown => \A i \in DOMAIN channel' : channel'[i] = Shutdown
    BY <1>3, <1>4 DEF Order, Last
  <2>3. ASSUME srv_pc \in Ending, NEW v \in Worker, w_pc'[v] = "stopped"
        PROVE  \A i \in DOMAIN channel' : channel'[i] = Shutdown
    BY <1>1, <1>4, <2>2, <2>3 DEF Order, Last
  <2>. QED  BY <1>0, <2>1, <2>3 DEF Last
<1>. QED  BY <1>6, <1>7, <1>8, <1>9 DEF Order

\* The main thread's steps that send nothing.
LEMMA MainOrder ==
  ASSUME BaseInv, Order,
         \/ Bind \/ SpawnDone \/ Loop \/ Accept \/ CheckLimit \/ Join
         \/ SignalShutdown \/ DropServer
  PROVE  Order'
<1>1. UNCHANGED <<channel, w_pc>>
  BY DEF Bind, SpawnDone, Loop, Accept, CheckLimit, Join, SignalShutdown, DropServer, workerVars
<1>2. \/ srv_pc' = srv_pc
      \/ srv_pc = "bind" /\ srv_pc' \in {"spawn", "failed"}
      \/ srv_pc = "spawn" /\ srv_pc' = "failed"
      \/ srv_pc = "failed" /\ srv_pc' = "dropped"
      \/ srv_pc = "spawn" /\ srv_pc' = "loop" /\ Workers = Worker
      \/ srv_pc \in Serving /\ srv_pc' \in Serving \cup {"signal"}
      \/ /\ srv_pc = "join" /\ srv_pc' = "done"
         /\ \A w \in Workers : w_pc[w] \in {"stopped", "panicked"}
  BY DEF Bind, SpawnDone, Loop, Accept, CheckLimit, Join, SignalShutdown, DropServer, Main, mainVars,
         Serving
<1>3. Spawned' /\ Joined'
  BY <1>1, <1>2 DEF Order, Spawned, Joined, Serving, Ending, Workers
<1>4. Late' /\ Last'
  BY <1>1, <1>2 DEF Order, Late, Last, Serving, Ending
<1>. QED  BY <1>1, <1>3, <1>4 DEF Order, Bounded

\* A worker's step that takes no message and does not end it.
LEMMA WorkerOrder ==
  ASSUME BaseInv, Order, UNCHANGED <<srv_pc, channel>>, NEW w \in Worker, NEW l, WorkerAt(w, l),
         l \notin {"none", "stopped"}, w_pc[w] \notin {"stopped", "panicked"}
  PROVE  Order'
<1>1. \A v \in Worker : w_pc'[v] = IF v = w THEN l ELSE w_pc[v]
  BY DEF WorkerAt, BaseInv, ServerTypeOK
<1>. QED  BY <1>1 DEF Order, Bounded, Spawned, Late, Last, Joined

LEMMA OrderNext == BaseInv /\ Order /\ [Next]_vars => Order'
<1>. SUFFICES ASSUME BaseInv, Order, [Next]_vars PROVE Order'
  OBVIOUS
<1>1. CASE UNCHANGED <<srv_pc, channel, w_pc>>
  BY <1>1 DEF Order, Bounded, Spawned, Late, Last, Joined
<1>2. CASE UNCHANGED vars
  BY <1>1, <1>2 DEF vars, serverVars, mainVars, workerVars
<1>3. CASE MainStep \/ SignalShutdown \/ DropServer
  <2>1. ASSUME NEW w \in Worker, Spawn(w) PROVE Order'
    BY <2>1, WorkerOrder DEF Spawn, mainVars
  <2>. QED  BY <1>3, <2>1, SendOrder, MainOrder DEF MainStep
<1>4. ASSUME NEW w \in Worker, WorkerStep(w) \/ WorkerFault(w)
      PROVE  Order'
  <2>1. CASE Recv(w)
    BY <2>1, RecvOrder
  <2>2. CASE RecvClosed(w)
    <3>1. /\ UNCHANGED <<srv_pc, channel>> /\ srv_pc = "dropped"
          /\ \A v \in Worker : w_pc'[v] = IF v = w THEN "stopped" ELSE w_pc[v]
      BY <2>2 DEF RecvClosed, WorkerAt, mainVars, BaseInv, ServerTypeOK
    <3>. QED
      BY <3>1 DEF Order, Bounded, Spawned, Late, Last, Joined, Serving, Ending
  <2>3. CASE Count(w) \/ NewConnection(w) \/ NewFails(w) \/ Uncount(w) \/ Panic(w)
    <3>1. /\ UNCHANGED <<srv_pc, channel>> /\ w_pc[w] \notin {"stopped", "panicked"}
          /\ \E l \in {"new", "handle", "recv", "panicked"} : WorkerAt(w, l)
      BY <2>3 DEF Count, NewConnection, NewFails, Uncount, Panic, mainVars
    <3>. QED  BY <3>1, WorkerOrder
  <2>4. CASE Handle(w) \/ HandleBreaks(w)
    BY <1>1, <2>4 DEF Handle, HandleBreaks, serverVars, mainVars, workerVars
  <2>. QED  BY <1>4, <2>1, <2>2, <2>3, <2>4 DEF WorkerStep, WorkerFault
<1>5. CASE \E c \in Conn : Connect(c) \/ Client(c)
  BY <1>1, <1>5 DEF Connect, Client, serverVars, mainVars, workerVars
<1>. QED  BY <1>2, <1>3, <1>4, <1>5 DEF Next

-----------------------------------------------------------------------------
LEMMA ServerInvariant == Spec => []ServerInv
<1>1. Init => ServerInv
  BY BaseInit, PlacesInit, OrderInit DEF ServerInv
<1>2. ServerInv /\ [Next]_vars => ServerInv'
  BY BaseNext, PlacesNext, OrderNext DEF ServerInv
<1>. QED  BY <1>1, <1>2, PTL DEF Spec

(***************************************************************************)
(* The state of the server keeps its types; the counter, of an unsigned    *)
(* type in the code, is never decremented below zero.                      *)
(***************************************************************************)
THEOREM ServerTypeCorrect == Spec => []ServerTypeOK
<1>1. ServerInv => ServerTypeOK
  BY DEF ServerInv, BaseInv
<1>. QED  BY <1>1, ServerInvariant, PTL

(***************************************************************************)
(* The counter of active connections is, on every path through             *)
(* handle_connection, the number of workers inside one plus the number     *)
(* that panicked.                                                          *)
(***************************************************************************)
THEOREM CounterExact == Spec => []ActiveExact
<1>1. ServerInv => ActiveExact
  BY DEF ServerInv, BaseInv
<1>. QED  BY <1>1, ServerInvariant, PTL

(***************************************************************************)
(* No connection that accept() returned is lost before it is closed, and   *)
(* no two workers serve the same one, however many workers and connections *)
(* there are.                                                              *)
(***************************************************************************)
THEOREM ConnectionsKept == Spec => []NoneLost
<1>1. ServerInv => NoneLost
  BY DEF ServerInv, Places, Apart, Located, NoneLost
<1>. QED  BY <1>1, ServerInvariant, PTL

(***************************************************************************)
(* When run() returns every worker has ended, and unless all of them       *)
(* panicked every connection that was accepted is closed.                  *)
(***************************************************************************)
THEOREM ShutdownGraceful == Spec => []GracefulShutdown
<1>1. ASSUME ServerInv, srv_pc = "done"
      PROVE  /\ \A w \in Worker : w_pc[w] \in {"stopped", "panicked"}
             /\ active_connections = Cardinality(Panicked)
             /\ Panicked # Worker => Held = {}
  <2>1. \A w \in Worker : w_pc[w] \in {"stopped", "panicked"}
    BY <1>1 DEF ServerInv, Order, Joined
  <2>2. active_connections = Cardinality(Panicked)
    <3>1. Counted = {}
      BY <2>1 DEF Counted
    <3>. QED  BY <1>1, <3>1, FS_EmptySet, WorkerSets DEF ServerInv, BaseInv, ActiveExact
  <2>3. ASSUME Panicked # Worker PROVE Held = {}
    <3>1. PICK w \in Worker : w_pc[w] = "stopped"
      BY <2>1, <2>3 DEF Panicked
    <3>2. \A c \in Conn : ~InChannel(c)
      BY <1>1, <3>1, ServerAssumption DEF ServerInv, Order, Last, Ending, InChannel
    <3>3. stream = NoConn /\ \A v \in Worker : w_conn[v] = NoConn
      BY <1>1, <2>1 DEF ServerInv, BaseInv, Holding
    <3>. QED
      BY <1>1, <3>2, <3>3, ServerAssumption DEF ServerInv, Places, Located, Held
  <2>. QED  BY <2>1, <2>2, <2>3
<1>2. ServerInv => GracefulShutdown
  BY <1>1 DEF GracefulShutdown
<1>. QED  BY <1>2, ServerInvariant, PTL

(***************************************************************************)
(* The accept loop compares a counter that lags behind with the limit;     *)
(* even so the server holds at most max_connections connections and one    *)
(* per worker and one more.                                                *)
(***************************************************************************)
THEOREM ConnectionsBounded == Spec => []HeldBounded
<1>1. ASSUME ServerInv PROVE HeldBounded
  <2>. DEFINE Q == {channel[i] : i \in 1..Len(channel)}
              W == {w_conn[w] : w \in Worker}
  <2>0. Len(channel) \in Nat /\ DOMAIN channel = 1..Len(channel)
    BY <1>1 DEF ServerInv, BaseInv, ServerTypeOK
  <2>1. IsFiniteSet(Q) /\ Cardinality(Q) <= Len(channel)
    <3>1. [i \in 1..Len(channel) |-> channel[i]] \in Surjection(1..Len(channel), Q)
      BY DEF Surjection
    <3>2. IsFiniteSet(1..Len(channel)) /\ Cardinality(1..Len(channel)) = Len(channel)
      <4>1. 1 \in Int /\ Len(channel) \in Int
        BY <2>0
      <4>2. /\ IsFiniteSet(1..Len(channel))
            /\ Cardinality(1..Len(channel)) = IF 1 > Len(channel) THEN 0 ELSE Len(channel) - 1 + 1
        BY <4>1, FS_Interval, Zenon
      <4>. QED  BY <2>0, <4>2
    <3>. HIDE DEF Q
    <3>. QED  BY <3>1, <3>2, FS_Surjection
  <2>2. IsFiniteSet(W) /\ Cardinality(W) <= Cardinality(Worker)
    <3>1. [w \in Worker |-> w_conn[w]] \in Surjection(Worker, W)
      BY DEF Surjection
    <3>. HIDE DEF W
    <3>. QED  BY <3>1, ServerAssumption, FS_Surjection
  <2>3. Held \in SUBSET ((Q \cup W) \cup {stream})
    BY <1>1, <2>0 DEF ServerInv, Places, Located, InChannel, Held
  <2>. HIDE DEF Q, W
  <2>4. /\ Cardinality(Worker) \in Nat /\ Cardinality(Q) \in Nat /\ Cardinality(W) \in Nat
        /\ IsFiniteSet(Q \cap W) /\ Cardinality(Q \cap W) \in Nat
    BY <2>1, <2>2, ServerAssumption, FS_CardinalityType, FS_Intersection
  <2>5. IsFiniteSet(Q \cup W) /\ Cardinality(Q \cup W) <= Cardinality(Q) + Cardinality(W)
    <3>1. /\ IsFiniteSet(Q \cup W)
          /\ Cardinality(Q \cup W) = Cardinality(Q) + Cardinality(W) - Cardinality(Q \cap W)
      BY <2>1, <2>2, FS_Union, Zenon
    <3>. QED  BY <2>4, <3>1
  <2>6. /\ Cardinality(Q \cup W) \in Nat /\ IsFiniteSet((Q \cup W) \cup {stream})
        /\ Cardinality((Q \cup W) \cup {stream}) <= Cardinality(Q \cup W) + 1
    <3>1. Cardinality(Q \cup W) \in Nat
      BY <2>5, FS_CardinalityType, Zenon
    <3>2. /\ IsFiniteSet((Q \cup W) \cup {stream})
          /\ Cardinality((Q \cup W) \cup {stream}) =
               IF stream \in Q \cup W THEN Cardinality(Q \cup W) ELSE Cardinality(Q \cup W) + 1
      BY <2>5, FS_AddElement, Zenon
    <3>. QED  BY <3>1, <3>2
  <2>7. /\ Cardinality(Held) <= Cardinality((Q \cup W) \cup {stream})
        /\ Cardinality(Held) \in Nat /\ Cardinality((Q \cup W) \cup {stream}) \in Nat
    BY <2>3, <2>6, FS_Subset, FS_CardinalityType
  <2>8. Len(channel) <= MaxConnections /\ MaxConnections \in Nat
    BY <1>1, ServerAssumption DEF ServerInv, Order, Bounded
  <2>. QED
    BY <2>0, <2>1, <2>2, <2>4, <2>5, <2>6, <2>7, <2>8 DEF HeldBounded
<1>. QED  BY <1>1, ServerInvariant, PTL
=============================================================================

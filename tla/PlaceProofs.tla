----------------------------- MODULE PlaceProofs -----------------------------
(***************************************************************************)
(* Where a connection is: with the listener, the accept loop, the channel  *)
(* or a worker, and in one of these places only.  From that and the order  *)
(* of the messages in the channel: no connection is lost or served twice,  *)
(* the server holds a bounded number, and a shutdown leaves none open.     *)
(***************************************************************************)
EXTENDS ServerTypeProofs

Waiting == \A i \in DOMAIN backlog : client[backlog[i]] # "none"

WaitOnce == \A i, j \in DOMAIN backlog : backlog[i] = backlog[j] => i = j

\* Nothing in the server's hands is still with the listener.
Taken ==
  /\ stream # NoConn => Accepted(stream)
  /\ \A c \in Conn : InChannel(c) => Accepted(c)
  /\ \A w \in Worker : w_conn[w] # NoConn => Accepted(w_conn[w])

QueuedOnce ==
  \A i, j \in DOMAIN channel : channel[i] = channel[j] => i = j \/ channel[i] = Shutdown

\* No two hold the same connection.
Apart ==
  /\ ~InChannel(stream)
  /\ \A w \in Worker : w_conn[w] # NoConn => w_conn[w] # stream /\ ~InChannel(w_conn[w])
  /\ \A v, w \in Worker : v # w /\ w_conn[v] = w_conn[w] => w_conn[v] = NoConn

Located == \A c \in Held : c = stream \/ InChannel(c) \/ \E w \in Worker : w_conn[w] = c

Places == Waiting /\ WaitOnce /\ Taken /\ QueuedOnce /\ Apart /\ Located

-----------------------------------------------------------------------------
\* The channel after send() and after recv().
LEMMA Sent ==
  ASSUME ServerTypeOK, NEW x \in Conn \cup {Shutdown}, channel' = Append(channel, x)
  PROVE  /\ \A c : InChannel(c)' <=> InChannel(c) \/ c = x
         /\ QueuedOnce /\ (x = Shutdown \/ ~InChannel(x)) => QueuedOnce'
<1>. DEFINE M == Conn \cup {Shutdown}
<1>1. channel \in Seq(M) /\ x \in M
  BY DEF ServerTypeOK
<1>. HIDE DEF M
<1>2. /\ Len(channel) \in Nat
      /\ DOMAIN channel = 1..Len(channel) /\ DOMAIN channel' = 1..(Len(channel) + 1)
      /\ channel'[Len(channel) + 1] = x
      /\ \A i \in 1..Len(channel) : channel'[i] = channel[i]
  BY <1>1, AppendIs
<1>3. \A i \in DOMAIN channel' : i = Len(channel) + 1 \/ i \in DOMAIN channel
  BY <1>2
<1>4. \A i \in DOMAIN channel : i \in DOMAIN channel' /\ channel'[i] = channel[i]
  BY <1>2
<1>5. Len(channel) + 1 \in DOMAIN channel'
  BY <1>2
<1>. QED  BY <1>2, <1>3, <1>4, <1>5 DEF InChannel, QueuedOnce

LEMMA NoneQueued == ServerTypeOK => ~InChannel(NoConn)
<1>1. ServerTypeOK => \A i \in DOMAIN channel : channel[i] \in Conn \cup {Shutdown}
  BY DEF ServerTypeOK
<1>. QED  BY <1>1, ServerAssumption DEF InChannel

LEMMA Received ==
  ASSUME ServerTypeOK, channel # <<>>, channel' = Tail(channel), QueuedOnce,
         NEW h, h = Head(channel)
  PROVE  /\ h \in Conn \cup {Shutdown} /\ InChannel(h)
         /\ \A c : InChannel(c)' => InChannel(c)
         /\ \A c : InChannel(c) => InChannel(c)' \/ c = h
         /\ QueuedOnce'
         /\ h # Shutdown => ~InChannel(h)'
<1>. DEFINE M == Conn \cup {Shutdown}
<1>1. channel \in Seq(M)
  BY DEF ServerTypeOK
<1>. HIDE DEF M
<1>2. /\ h \in M /\ h = channel[1] /\ Len(channel) \in Nat
      /\ DOMAIN channel = 1..Len(channel) /\ DOMAIN channel' = 1..(Len(channel) - 1)
      /\ \A i \in 1..(Len(channel) - 1) : channel'[i] = channel[i + 1]
      /\ 1 \in DOMAIN channel
  BY <1>1, TailIs
<1>3. \A i \in DOMAIN channel' :
         i + 1 \in DOMAIN channel /\ channel'[i] = channel[i + 1] /\ i + 1 # 1
  BY <1>2
<1>4. \A i \in DOMAIN channel : i = 1 \/ (i - 1 \in DOMAIN channel' /\ channel'[i - 1] = channel[i])
  BY <1>2
<1>5. \A i, j \in DOMAIN channel' : i + 1 = j + 1 => i = j
  BY <1>2
<1>6. QueuedOnce'
  BY <1>3, <1>5 DEF QueuedOnce
<1>7. h # Shutdown => ~InChannel(h)'
  BY <1>2, <1>3 DEF InChannel, QueuedOnce
<1>8. h \in Conn \cup {Shutdown} /\ InChannel(h)
  BY <1>2 DEF InChannel, M
<1>9. \A c : InChannel(c)' => InChannel(c)
  BY <1>3 DEF InChannel
<1>10. \A c : InChannel(c) => InChannel(c)' \/ c = h
  BY <1>2, <1>4 DEF InChannel
<1>. QED  BY <1>6, <1>7, <1>8, <1>9, <1>10

\* A step that moves no connection, and opens none but one a worker holds.
LEMMA Unmoved ==
  ASSUME Places, UNCHANGED <<backlog, stream, channel, w_conn>>,
         \A c \in Conn : (client'[c] = "none") <=> (client[c] = "none"),
         ServerTypeOK, ServerTypeOK',
         \A c \in Conn : conn_pc[c] = "closed" /\ conn_pc'[c] # "closed" =>
                           \E w \in Worker : w_conn[w] = c
  PROVE  Places'
<1>1. \A c \in Conn : Accepted(c)' <=> Accepted(c)
  BY DEF Accepted
<1>2. \A c : InChannel(c)' <=> InChannel(c)
  BY DEF InChannel
<1>3. Located'
  BY <1>1, <1>2 DEF Places, Located, Held
<1>4. Taken'
  BY <1>1, <1>2 DEF Places, Taken, ServerTypeOK
<1>5. Waiting'
  <2>1. \A i \in DOMAIN backlog : backlog[i] \in Conn
    BY DEF ServerTypeOK
  <2>. QED  BY <2>1 DEF Places, Waiting
<1>. QED  BY <1>2, <1>3, <1>4, <1>5 DEF Places, WaitOnce, QueuedOnce, Apart

-----------------------------------------------------------------------------
(***************************************************************************)
(* Every step keeps a connection in one place.                             *)
(***************************************************************************)
\* connect(): the connection is new to the server.
LEMMA ConnectPlaces ==
  ASSUME BaseInv, BaseInv', Places, NEW c \in Conn, Connect(c)
  PROVE  Places'
<1>1. /\ client[c] = "none" /\ client' = [client EXCEPT ![c] = "open"]
      /\ backlog' = Append(backlog, c)
      /\ UNCHANGED <<conn_pc, stream, channel, w_conn>>
  BY DEF Connect, ClientConnect, mainVars, workerVars
<1>2. \A d \in Conn : client'[d] = IF d = c THEN "open" ELSE client[d]
  BY <1>1 DEF BaseInv, ServerTypeOK, ConnTypeOK
<1>3. /\ Len(backlog) \in Nat
      /\ DOMAIN backlog = 1..Len(backlog) /\ DOMAIN backlog' = 1..(Len(backlog) + 1)
      /\ backlog'[Len(backlog) + 1] = c
      /\ \A i \in 1..Len(backlog) : backlog'[i] = backlog[i] /\ backlog[i] \in Conn
  BY <1>1, AppendIs DEF BaseInv, ServerTypeOK
<1>4. \A i \in DOMAIN backlog : backlog[i] # c
  BY <1>1, <1>3 DEF Places, Waiting
<1>5. Waiting'
  BY <1>2, <1>3 DEF Places, Waiting
<1>6. WaitOnce'
  BY <1>3, <1>4 DEF Places, WaitOnce
<1>7. \A d \in Conn : Accepted(d)' <=> Accepted(d)
  <2>1. ASSUME NEW d \in Conn, d # c PROVE Accepted(d)' <=> Accepted(d)
    BY <1>2, <1>3, <2>1 DEF Accepted
  <2>2. ~Accepted(c) /\ ~Accepted(c)'
    BY <1>1, <1>3 DEF Accepted
  <2>. QED  BY <2>1, <2>2
<1>8. \A d : InChannel(d)' <=> InChannel(d)
  BY <1>1 DEF InChannel
<1>9. Taken'
  BY <1>1, <1>7, <1>8 DEF Places, Taken, BaseInv, ServerTypeOK
<1>10. Located'
  BY <1>1, <1>7, <1>8 DEF Places, Located, Held
<1>. QED  BY <1>1, <1>5, <1>6, <1>8, <1>9, <1>10 DEF Places, QueuedOnce, Apart

\* accept(): from the listener to the accept loop.
LEMMA AcceptPlaces ==
  ASSUME BaseInv, BaseInv', Places, Accept
  PROVE  Places'
<1>1. CASE UNCHANGED <<stream, backlog>>
  <2>1. UNCHANGED <<connVars, channel, w_conn>>
    BY DEF Accept, workerVars
  <2>. QED  BY <1>1, <2>1, Unmoved DEF BaseInv, connVars
<1>2. CASE backlog # <<>> /\ stream' = Head(backlog) /\ backlog' = Tail(backlog)
  <2>0. UNCHANGED <<client, conn_pc, channel, w_conn>> /\ stream = NoConn
    BY DEF Accept, connVars, workerVars, BaseInv, Holding
  <2>. DEFINE h == Head(backlog)
  <2>1. /\ h \in Conn /\ h = backlog[1] /\ 1 \in DOMAIN backlog /\ Len(backlog) \in Nat
        /\ DOMAIN backlog = 1..Len(backlog) /\ DOMAIN backlog' = 1..(Len(backlog) - 1)
        /\ \A i \in 1..(Len(backlog) - 1) : backlog'[i] = backlog[i + 1]
    BY <1>2, TailIs DEF BaseInv, ServerTypeOK
  <2>2. PICK g : g = h
    OBVIOUS
  <2>. HIDE DEF h
  <2>3. /\ \A i \in DOMAIN backlog' : i + 1 \in DOMAIN backlog /\ backlog'[i] = backlog[i + 1]
                                      /\ i + 1 # 1
        /\ \A i \in DOMAIN backlog : i = 1 \/ (i - 1 \in DOMAIN backlog'
                                                 /\ backlog'[i - 1] = backlog[i])
        /\ \A i, j \in DOMAIN backlog' : i + 1 = j + 1 => i = j
    BY <2>1
  <2>4. client[g] # "none" /\ ~Accepted(g) /\ g # NoConn
    BY <2>1, <2>2, ServerAssumption DEF Places, Waiting, Accepted
  <2>5. \A i \in DOMAIN backlog' : backlog'[i] # g
    BY <2>1, <2>2, <2>3 DEF Places, WaitOnce
  <2>6. \A d \in Conn : Accepted(d)' <=> Accepted(d) \/ d = g
    <3>1. Accepted(g)'
      BY <2>0, <2>4, <2>5 DEF Accepted
    <3>2. ASSUME NEW d \in Conn, d # g PROVE Accepted(d)' <=> Accepted(d)
      BY <2>0, <2>1, <2>2, <2>3, <3>2 DEF Accepted
    <3>. QED  BY <3>1, <3>2
  <2>7. \A d : InChannel(d)' <=> InChannel(d)
    BY <2>0 DEF InChannel
  <2>8. stream' = g /\ g \in Conn
    BY <1>2, <2>1, <2>2 DEF h
  <2>9. Waiting' /\ WaitOnce'
    BY <2>0, <2>3 DEF Places, Waiting, WaitOnce
  <2>10. Taken'
    BY <2>0, <2>6, <2>7, <2>8 DEF Places, Taken, BaseInv, ServerTypeOK
  <2>11. Apart'
    <3>1. ~InChannel(g)
      BY <2>4, <2>8 DEF Places, Taken
    <3>2. \A w \in Worker : w_conn[w] # g
      BY <2>4, <2>8 DEF Places, Taken
    <3>. QED  BY <2>0, <2>7, <2>8, <3>1, <3>2 DEF Places, Apart
  <2>12. Located'
    BY <2>0, <2>6, <2>7, <2>8, ServerAssumption DEF Places, Located, Held
  <2>. QED  BY <2>0, <2>9, <2>10, <2>11, <2>12 DEF Places, QueuedOnce
<1>. QED  BY <1>1, <1>2 DEF Accept

\* A connection over the limit is closed; send() hands one to the channel,
\* or a Shutdown message.
LEMMA MainPlaces ==
  ASSUME BaseInv, BaseInv', Places, CheckLimit \/ Dispatch \/ Signal
  PROVE  Places'
<1>0. /\ UNCHANGED <<client, backlog, w_conn>> /\ \A c : Accepted(c)' <=> Accepted(c)
      /\ Waiting' /\ WaitOnce'
  BY DEF CheckLimit, Dispatch, Signal, CloseConn, connVars, workerVars, Accepted, Waiting, WaitOnce,
         Places
<1>1. CASE CheckLimit
  <2>1. CASE UNCHANGED <<connVars, stream>>
    BY <1>0, <1>1, <2>1, Unmoved DEF CheckLimit, connVars, BaseInv
  <2>2. CASE CloseConn(stream) /\ stream' = NoConn
    <3>1. UNCHANGED channel /\ \A c : InChannel(c)' <=> InChannel(c)
      BY <1>1 DEF CheckLimit, InChannel
    <3>2. stream \in Conn
      BY <1>1 DEF CheckLimit, BaseInv, Holding, ServerTypeOK
    <3>3. \A c \in Conn : conn_pc'[c] = IF c = stream THEN "closed" ELSE conn_pc[c]
      BY <2>2, <3>2 DEF CloseConn, Handler, BaseInv, ServerTypeOK, ConnTypeOK
    <3>4. Located'
      BY <1>0, <3>1, <3>3 DEF Places, Located, Held
    <3>5. ~InChannel(NoConn)
      BY NoneQueued DEF BaseInv
    <3>6. Apart'
      BY <1>0, <2>2, <3>1, <3>5 DEF Places, Apart
    <3>7. Taken'
      BY <1>0, <2>2, <3>1 DEF Places, Taken
    <3>. QED  BY <1>0, <3>1, <3>4, <3>6, <3>7 DEF Places, QueuedOnce
  <2>. QED  BY <1>1, <2>1, <2>2 DEF CheckLimit
<1>2. CASE Dispatch
  <2>1. PICK x \in Conn : x = stream
    BY <1>2 DEF Dispatch, BaseInv, Holding, ServerTypeOK
  <2>2. channel' = Append(channel, x) /\ stream' = NoConn /\ UNCHANGED conn_pc
    BY <1>2, <2>1 DEF Dispatch, connVars
  <2>3. ~InChannel(x) /\ x # NoConn /\ Accepted(x) /\ \A w \in Worker : w_conn[w] # x
    BY <2>1, ServerAssumption DEF Places, Apart, Taken
  <2>4. QueuedOnce' /\ \A c : InChannel(c)' <=> InChannel(c) \/ c = x
    BY <2>2, <2>3, Sent DEF Places, BaseInv
  <2>5. ~InChannel(NoConn)
    BY NoneQueued DEF BaseInv
  <2>6. ~InChannel(stream)'
    BY <2>2, <2>3, <2>4, <2>5
  <2>7. Apart'
    BY <1>0, <2>2, <2>3, <2>4, <2>6 DEF Places, Apart
  <2>8. Taken'
    BY <1>0, <2>2, <2>3, <2>4 DEF Places, Taken
  <2>9. Located'
    BY <1>0, <2>1, <2>2, <2>4 DEF Places, Located, Held
  <2>. QED  BY <1>0, <2>4, <2>7, <2>8, <2>9 DEF Places
<1>3. CASE Signal
  <2>1. UNCHANGED <<conn_pc, stream>>
    BY <1>3 DEF Signal, connVars
  <2>2. CASE UNCHANGED channel
    BY <1>0, <2>1, <2>2, Unmoved DEF BaseInv
  <2>3. CASE channel' = Append(channel, Shutdown)
    <3>1. QueuedOnce' /\ \A c : InChannel(c)' <=> InChannel(c) \/ c = Shutdown
      BY <2>3, Sent DEF Places, BaseInv
    <3>2. \A c \in Conn : InChannel(c)' <=> InChannel(c)
      BY <3>1, ServerAssumption
    <3>3. Taken'
      BY <1>0, <2>1, <3>2 DEF Places, Taken
    <3>4. Located'
      BY <1>0, <2>1, <3>2 DEF Places, Located, Held
    <3>5. stream = NoConn /\ ~InChannel(stream)'
      <4>1. ~InChannel(NoConn)'
        BY <3>1, NoneQueued, ServerAssumption DEF BaseInv
      <4>. QED  BY <1>3, <2>1, <4>1 DEF Signal, BaseInv, Holding
    <3>6. Apart'
      BY <1>0, <2>1, <3>2, <3>5 DEF Places, Apart, BaseInv, ServerTypeOK
    <3>. QED  BY <1>0, <3>1, <3>3, <3>4, <3>6 DEF Places
  <2>. QED  BY <1>3, <2>2, <2>3 DEF Signal
<1>. QED  BY <1>1, <1>2, <1>3

\* recv(): from the channel to a worker.
LEMMA RecvPlaces ==
  ASSUME BaseInv, BaseInv', Places, NEW w \in Worker, Recv(w)
  PROVE  Places'
<1>1. PICK h : h = Head(channel)
  OBVIOUS
<1>2. /\ h \in Conn \cup {Shutdown} /\ InChannel(h)
      /\ \A c : InChannel(c)' => InChannel(c)
      /\ \A c : InChannel(c) => InChannel(c)' \/ c = h
      /\ QueuedOnce'
      /\ h # Shutdown => ~InChannel(h)'
  BY <1>1, Received DEF Recv, BaseInv, Places
<1>3. UNCHANGED <<client, conn_pc, stream, backlog>> /\ w_conn[w] = NoConn
  BY DEF Recv, connVars, mainVars, BaseInv, Holding
<1>4. Waiting' /\ WaitOnce' /\ \A c : Accepted(c)' <=> Accepted(c)
  BY <1>3 DEF Places, Waiting, WaitOnce, Accepted
<1>5. ~InChannel(stream)'
  <2>1. ~InChannel(stream)
    BY DEF Places, Apart
  <2>. QED  BY <1>2, <1>3, <2>1 DEF InChannel
<1>6. CASE h = Shutdown
  <2>1. UNCHANGED w_conn
    BY <1>1, <1>6 DEF Recv
  <2>2. \A c \in Conn : InChannel(c)' <=> InChannel(c)
    BY <1>2, <1>6, ServerAssumption
  <2>3. Apart'
    BY <1>3, <1>5, <2>1, <2>2 DEF Places, Apart, BaseInv, ServerTypeOK
  <2>4. Taken' /\ Located'
    BY <1>3, <1>4, <2>1, <2>2 DEF Places, Taken, Located, Held
  <2>. QED  BY <1>2, <1>4, <2>3, <2>4 DEF Places
<1>7. CASE h # Shutdown
  <2>1. h \in Conn /\ Accepted(h) /\ h # NoConn
    BY <1>2, <1>7, ServerAssumption DEF Places, Taken
  <2>2. \A v \in Worker : w_conn'[v] = IF v = w THEN h ELSE w_conn[v]
    BY <1>1, <1>7 DEF Recv, BaseInv, ServerTypeOK
  <2>3. h # stream /\ \A v \in Worker : w_conn[v] # h
    BY <1>2, <2>1 DEF Places, Apart
  <2>4. \A v \in Worker : w_conn'[v] # NoConn => w_conn'[v] # stream /\ ~InChannel(w_conn[v])'
    <3>1. ASSUME NEW v \in Worker, v # w, w_conn[v] # NoConn
          PROVE  w_conn[v] # stream /\ ~InChannel(w_conn'[v])
      BY <2>2, <3>1 DEF Places, Apart
    <3>. QED  BY <1>2, <1>7, <2>2, <2>3, <3>1 DEF InChannel
  <2>5. Apart'
    BY <1>3, <1>5, <2>2, <2>3, <2>4 DEF Places, Apart
  <2>6. Taken'
    BY <1>2, <1>3, <1>4, <2>1, <2>2 DEF Places, Taken
  <2>7. Located'
    <3>1. \A c \in Conn : (\E v \in Worker : w_conn[v] = c) => \E v \in Worker : w_conn'[v] = c
      BY <1>3, <2>2, ServerAssumption
    <3>2. w_conn'[w] = h
      BY <2>2
    <3>3. Held' = Held
      BY <1>3, <1>4 DEF Held
    <3>. QED  BY <1>2, <1>3, <3>1, <3>2, <3>3 DEF Places, Located, Held
  <2>. QED  BY <1>2, <1>4, <2>5, <2>6, <2>7 DEF Places
<1>. QED  BY <1>6, <1>7

\* A worker is done with a connection, which is closed.
LEMMA LeavePlaces ==
  ASSUME BaseInv, BaseInv', Places, NEW w \in Worker, NewFails(w) \/ Uncount(w) \/ Panic(w)
  PROVE  Places'
<1>1. UNCHANGED <<client, stream, backlog, channel>> /\ w_conn' = [w_conn EXCEPT ![w] = NoConn]
  BY DEF NewFails, Uncount, Panic, CloseConn, connVars, mainVars
<1>2. PICK d \in Conn : d = w_conn[w]
  BY DEF NewFails, Uncount, Panic, BaseInv, Holding, ServerTypeOK
<1>3. \A c \in Conn : conn_pc'[c] = IF c = d THEN "closed" ELSE conn_pc[c]
  <2>1. CASE Uncount(w)
    BY <1>2, <2>1 DEF Uncount, connVars
  <2>2. CASE CloseConn(w_conn[w])
    <3>1. conn_pc' = [conn_pc EXCEPT ![d] = "closed"]
      BY <1>2, <2>2 DEF CloseConn, Handler
    <3>. QED  BY <3>1 DEF BaseInv, ServerTypeOK, ConnTypeOK
  <2>. QED  BY <2>1, <2>2 DEF NewFails, Panic
<1>4. \A v \in Worker : w_conn'[v] = IF v = w THEN NoConn ELSE w_conn[v]
  BY <1>1 DEF BaseInv, ServerTypeOK
<1>5. /\ Waiting' /\ WaitOnce' /\ QueuedOnce'
      /\ \A c : Accepted(c)' <=> Accepted(c)
      /\ \A c : InChannel(c)' <=> InChannel(c)
  BY <1>1 DEF Places, Waiting, WaitOnce, QueuedOnce, Accepted, InChannel
<1>6. Taken'
  BY <1>1, <1>4, <1>5 DEF Places, Taken
<1>7. Apart'
  BY <1>1, <1>4, <1>5 DEF Places, Apart
<1>8. Located'
  BY <1>1, <1>2, <1>3, <1>4, <1>5 DEF Places, Located, Held
<1>. QED  BY <1>5, <1>6, <1>7, <1>8 DEF Places

LEMMA PlacesInit == Init => Places
<1>. SUFFICES ASSUME Init PROVE Places
  OBVIOUS
<1>1. backlog = <<>> /\ channel = <<>> /\ stream = NoConn /\ \A w \in Worker : w_conn[w] = NoConn
  BY DEF Init
<1>2. Held = {}
  BY DEF Init, ConnInit, Held, Accepted
<1>3. \A c : ~InChannel(c)
  BY <1>1 DEF InChannel
<1>4. Waiting /\ WaitOnce /\ QueuedOnce
  BY <1>1 DEF Waiting, WaitOnce, QueuedOnce
<1>. QED  BY <1>1, <1>2, <1>3, <1>4 DEF Places, Taken, Apart, Located

\* HandleStep moves no closed connection.
LEMMA HandleKeepsClosed ==
  ASSUME ConnTypeOK, NEW d \in Conn, HandleStep(d) \/ ReadBreaks(d)
  PROVE  UNCHANGED client /\ \A c \in Conn : conn_pc[c] = "closed" => conn_pc'[c] = "closed"
<1>1. /\ UNCHANGED client /\ conn_pc[d] # "closed"
      /\ \E l : conn_pc' = [conn_pc EXCEPT ![d] = l]
  BY DEF HandleStep, ReadCommand, ReadEnds, ReadBreaks, Refuse, Execute, SendResponse, SendFails,
         Handler
<1>. QED  BY <1>1 DEF ConnTypeOK

LEMMA PlacesNext ==
  ASSUME BaseInv, BaseInv', Places, [Next]_vars
  PROVE  Places'
<1>. USE DEF BaseInv
<1>1. CASE UNCHANGED <<backlog, stream, channel, w_conn, client, conn_pc>>
  BY <1>1, Unmoved
<1>2. CASE UNCHANGED vars
  BY <1>1, <1>2 DEF vars, connVars, serverVars, mainVars, workerVars
<1>3. CASE MainStep \/ SignalShutdown \/ DropServer
  <2>1. CASE Accept
    BY <2>1, AcceptPlaces
  <2>2. CASE CheckLimit \/ Dispatch \/ Signal
    BY <2>2, MainPlaces
  <2>3. CASE Bind \/ SpawnDone \/ Loop \/ Join \/ SignalShutdown \/ DropServer
    BY <1>1, <2>3 DEF Bind, SpawnDone, Loop, Join, SignalShutdown, DropServer, connVars, mainVars,
                      workerVars
  <2>4. CASE \E w \in Worker : Spawn(w)
    BY <1>1, <2>4 DEF Spawn, connVars, mainVars
  <2>. QED  BY <1>3, <2>1, <2>2, <2>3, <2>4 DEF MainStep
<1>4. ASSUME NEW w \in Worker, WorkerStep(w) \/ WorkerFault(w)
      PROVE  Places'
  <2>1. CASE Recv(w)
    BY <2>1, RecvPlaces
  <2>2. CASE NewFails(w) \/ Uncount(w) \/ Panic(w)
    BY <2>2, LeavePlaces
  <2>3. CASE RecvClosed(w) \/ Count(w)
    BY <1>1, <2>3 DEF RecvClosed, Count, connVars, mainVars
  <2>4. CASE NewConnection(w)
    <3>1. \A c \in Conn : c # w_conn[w] => conn_pc'[c] = conn_pc[c]
      BY <2>4 DEF NewConnection, Handler, ServerTypeOK, ConnTypeOK
    <3>2. UNCHANGED <<client, backlog, stream, channel, w_conn>>
      BY <2>4 DEF NewConnection, mainVars
    <3>. QED  BY <3>1, <3>2, Unmoved
  <2>5. CASE Handle(w) \/ HandleBreaks(w)
    <3>1. w_conn[w] \in Conn
      BY <2>5 DEF Handle, HandleBreaks, Holding, ServerTypeOK
    <3>2. UNCHANGED client /\ \A c \in Conn : conn_pc[c] = "closed" => conn_pc'[c] = "closed"
      BY <2>5, <3>1, HandleKeepsClosed DEF Handle, HandleBreaks, ServerTypeOK
    <3>3. UNCHANGED <<backlog, stream, channel, w_conn>>
      BY <2>5 DEF Handle, HandleBreaks, serverVars, mainVars, workerVars
    <3>. QED  BY <3>2, <3>3, Unmoved
  <2>. QED  BY <1>4, <2>1, <2>2, <2>3, <2>4, <2>5 DEF WorkerStep, WorkerFault
<1>5. ASSUME NEW c \in Conn, Client(c)
      PROVE  Places'
  <2>1. UNCHANGED <<backlog, stream, channel, w_conn, conn_pc>>
    BY <1>5 DEF Client, ClientStep, ClientLeave, ClientSend, serverVars, mainVars, workerVars
  <2>2. \A d \in Conn : (client'[d] = "none") <=> (client[d] = "none")
    BY <1>5, ZenonT(40) DEF Client, ClientStep, ClientLeave, ClientSend, ServerTypeOK, ConnTypeOK
  <2>. QED  BY <2>1, <2>2, Unmoved
<1>6. CASE \E c \in Conn : Connect(c)
  BY <1>6, ConnectPlaces
<1>. QED  BY <1>2, <1>3, <1>4, <1>5, <1>6 DEF Next
=============================================================================

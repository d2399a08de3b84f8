-------------------------- MODULE ServerProperties -------------------------
(***************************************************************************)
(* What the server and its connections guarantee.                          *)
(***************************************************************************)
EXTENDS Server, TLC

Symmetry == Permutations(Conn) \cup Permutations(Worker)

InChannel(c) == \E i \in DOMAIN channel : channel[i] = c

Accepted(c) == client[c] # "none" /\ \A i \in DOMAIN backlog : backlog[i] # c

\* Connections the server has accepted and not closed.
Held == {c \in Conn : Accepted(c) /\ conn_pc[c] # "closed"}

\* The workers that have incremented the counter and not yet decremented it.
Counted == {w \in Worker : w_pc[w] \in {"new", "handle"}}

(***************************************************************************)
(* A connection that was accepted is in the hands of the accept loop, in   *)
(* the channel or with a worker until it is closed, and no two workers     *)
(* serve the same one.                                                     *)
(***************************************************************************)
NoneLost ==
  /\ \A c \in Held : c = stream \/ InChannel(c) \/ \E w \in Worker : w_conn[w] = c
  /\ \A v, w \in Worker : v # w /\ w_conn[v] = w_conn[w] => w_conn[v] = NoConn

(***************************************************************************)
(* The limit, a stale counter notwithstanding: the server never holds more *)
(* connections than the channel and the workers take, and one more in the  *)
(* accept loop.                                                            *)
(***************************************************************************)
HeldBounded == Cardinality(Held) <= MaxConnections + Cardinality(Worker) + 1

(***************************************************************************)
(* The counter that the accept loop compares with the limit counts the     *)
(* workers inside a connection, on every path out of handle_connection,    *)
(* and for ever those that panicked.                                       *)
(***************************************************************************)
ActiveExact == active_connections = Cardinality(Counted) + Cardinality(Panicked)

(***************************************************************************)
(* A graceful shutdown: when run() returns every worker has ended, the     *)
(* counter is back at the number of panics, and unless all of the workers  *)
(* panicked every connection that was accepted before has been closed.     *)
(***************************************************************************)
GracefulShutdown ==
  srv_pc = "done" =>
    /\ \A w \in Worker : w_pc[w] \in {"stopped", "panicked"}
    /\ active_connections = Cardinality(Panicked)
    /\ Panicked # Worker => Held = {}

(***************************************************************************)
(* Commands of a connection are executed in the order they were sent, each *)
(* once, and the n-th response answers the n-th of them: a client that     *)
(* sends several at once can tell the responses apart.  The error that     *)
(* reports a broken socket comes last and answers none.                    *)
(***************************************************************************)
InOrder ==
  \A c \in Conn :
    /\ \A i \in DOMAIN executed[c] : executed[c][i] = i
    /\ \A i \in DOMAIN outbox[c] :
         \/ outbox[c][i].of = i
         \/ outbox[c][i].of = 0 /\ i = Len(outbox[c]) /\ conn_pc[c] = "closed"
    /\ \A i \in DOMAIN outbox[c] : outbox[c][i].status # "error" => i <= Len(executed[c])

(***************************************************************************)
(* Until the client resets the connection at most one command, the last,   *)
(* has been executed without its response having arrived, though sending a *)
(* response may fail and a read may time out in the middle of a frame.     *)
(***************************************************************************)
OneInDoubt ==
  \A c \in Conn : client[c] # "gone" => Len(executed[c]) <= Len(outbox[c]) + 1

(***************************************************************************)
(* Nothing that follows a frame that was refused, or one that was cut, is  *)
(* executed.                                                               *)
(***************************************************************************)
RefusalEnds ==
  \A c \in Conn : \A i \in DOMAIN sent[c] :
    sent[c][i] \in {"bad", "part"} => Len(executed[c]) < i

(***************************************************************************)
(* "Returns when shutdown is signaled": with a read timeout, run() returns *)
(* after shutdown(), whatever the accept loop is blocked on and the        *)
(* workers are busy with.                                                  *)
(***************************************************************************)
ShutdownReturns == shutdown ~> srv_pc \in {"done", "failed", "dropped"}

(***************************************************************************)
(* Every connection that was accepted is closed in the end: the client     *)
(* learns what became of it, even when it waits in the channel.            *)
(***************************************************************************)
AllClosed == \A c \in Conn : Accepted(c) ~> conn_pc[c] = "closed"

-----------------------------------------------------------------------------
(***************************************************************************)
(* The documented meaning of max_connections, the maximum of concurrent    *)
(* client connections.                                                     *)
(***************************************************************************)
LimitHolds == Cardinality(Held) <= MaxConnections

(***************************************************************************)
(* The documented read path: a GET that finds no value, or a tombstone, is *)
(* answered NOT_FOUND.                                                     *)
(***************************************************************************)
MissIsNotFound ==
  \A c \in Conn : \A i \in DOMAIN outbox[c] :
    LET r == outbox[c][i] IN
    (r.of # 0 /\ sent[c][r.of] = "get" /\ ~r.payload) => r.status = "not_found"
=============================================================================

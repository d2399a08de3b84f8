------------------------------ MODULE KVStore ------------------------------
(***************************************************************************)
(* What the engine promises its callers: one map from keys to values, each *)
(* write takes effect at one moment between call and return, each read     *)
(* returns a value the key had between call and return, and a restart      *)
(* finds every acknowledged write.                                         *)
(***************************************************************************)
EXTENDS KVTypes

CONSTANTS Client,
          Lasting     \* what a restart has found, every later one finds too

VARIABLES up,         \* the store accepts calls
          store,      \* its contents, as clients see them
          may,        \* per key, the values a restart may find
          st,         \* per client: "idle", "called", "applied" or "done"
          op,         \* the operation called
          res,        \* its result, when done
          seen        \* for a get, the values of its key since the call

kvVars == <<up, store, may, st, op, res, seen>>

Init ==
  /\ up = FALSE
  /\ store = [k \in Key |-> Absent]
  /\ may = [k \in Key |-> {Absent}]
  /\ st = [c \in Client |-> "idle"]
  /\ op = [c \in Client |-> [type |-> "none", key |-> Absent, val |-> Absent]]
  /\ res = [c \in Client |-> "ok"]
  /\ seen = [c \in Client |-> {}]

IsWrite(o) == o.type \in {"put", "delete"}

Call(c) ==
  /\ up /\ st[c] = "idle"
  /\ st' = [st EXCEPT ![c] = "called"]
  /\ \E t \in {"get", "put", "delete", "flush"}, k \in Key \cup {Absent}, e \in Slot :
       /\ op' = [op EXCEPT ![c] = [type |-> t, key |-> k, val |-> e]]
       /\ seen' = IF t = "get" THEN [seen EXCEPT ![c] = {store[k]}] ELSE seen
  /\ res' = [res EXCEPT ![c] = "ok"]
  /\ UNCHANGED <<up, store, may>>

\* A write becomes one a restart may find.
Log(c) ==
  /\ st[c] = "called" /\ IsWrite(op[c])
  /\ may' = [may EXCEPT ![op[c].key] = @ \cup {Visible(op[c].val)}]
  /\ UNCHANGED <<up, store, st, op, res, seen>>

\* A write takes effect, for every read under way as well.
TakeEffect(c) ==
  LET k == op[c].key
      v == Visible(op[c].val) IN
  /\ st[c] = "called" /\ IsWrite(op[c])
  /\ v \in may[k]
  /\ store' = [store EXCEPT ![k] = v]
  /\ seen' = [d \in Client |-> IF op[d].type = "get" /\ op[d].key = k
                                 THEN seen[d] \cup {v} ELSE seen[d]]
  /\ \E s \in {"applied", "done"} : st' = [st EXCEPT ![c] = s]
  /\ UNCHANGED <<up, may, op, res>>

\* The result is fixed: that of a read is a value it may have seen; a write
\* reports success only after it took effect.
Complete(c) ==
  /\ st[c] \in {"called", "applied"}
  /\ st' = [st EXCEPT ![c] = "done"]
  /\ \E r \in seen[c] \cup {"ok", "err"} :
       /\ op[c].type = "get" => r # "ok"
       /\ op[c].type # "get" => r \in {"ok", "err"}
       /\ IsWrite(op[c]) /\ st[c] = "called" => r = "err"
       /\ res' = [res EXCEPT ![c] = r]
  /\ UNCHANGED <<up, store, may, op, seen>>

\* The call returns.  An acknowledged write is what a restart finds.
Reply(c) ==
  /\ st[c] = "done"
  /\ st' = [st EXCEPT ![c] = "idle"]
  /\ op' = [op EXCEPT ![c] = [type |-> "none", key |-> Absent, val |-> Absent]]
  /\ res' = [res EXCEPT ![c] = "ok"]
  /\ seen' = [seen EXCEPT ![c] = {}]
  /\ may' = IF IsWrite(op[c]) /\ res[c] = "ok"
              THEN [may EXCEPT ![op[c].key] = {Visible(op[c].val)}] ELSE may
  /\ UNCHANGED <<up, store>>

\* The store stops, by a crash or by a shutdown.
Stop ==
  /\ up' = FALSE
  /\ st' = [c \in Client |-> "idle"]
  /\ op' = [c \in Client |-> [type |-> "none", key |-> Absent, val |-> Absent]]
  /\ res' = [c \in Client |-> "ok"]
  /\ seen' = [c \in Client |-> {}]
  /\ UNCHANGED <<store, may>>

Start ==
  /\ ~up /\ up' = TRUE
  /\ store' \in [Key -> Result]
  /\ \A k \in Key : store'[k] \in may[k]
  /\ may' = IF Lasting THEN [k \in Key |-> {store'[k]}] ELSE may
  /\ UNCHANGED <<st, op, res, seen>>

Next ==
  \/ \E c \in Client :
       Call(c) \/ Log(c) \/ TakeEffect(c) \/ Complete(c) \/ Reply(c)
  \/ Stop \/ Start

Spec == Init /\ [][Next]_kvVars
=============================================================================

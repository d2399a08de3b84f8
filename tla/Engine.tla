------------------------------- MODULE Engine ------------------------------
(***************************************************************************)
(* The storage engine (engine.rs), composed of the write-ahead log, the    *)
(* memtable and the storage manager.  Client threads call get, put, delete *)
(* and flush on one shared engine; the main thread opens it, closes or     *)
(* drops it.  The process may be killed and the machine may lose power     *)
(* between any two steps, and system calls may fail.                       *)
(*                                                                         *)
(* A thread is described by its pc, by the operation it executes (op) and  *)
(* by the Result it is about to return (res).  While it is inside a call   *)
(* of the log or of the storage manager, that component's own pc moves.    *)
(* The mutex around the WalWriter is not a variable: it is only ever taken *)
(* by the holder of write_lock, or by close(), which owns the engine.      *)
(***************************************************************************)
EXTENDS Wal, MemTable, Storage

CONSTANTS
  Client,       \* threads that call the engine
  Main,         \* the thread that opens and closes it
  Free,         \* nobody holds the lock
  SizeLimit,    \* config.memtable_size_limit
  PowerLoss,    \* whether the machine may lose power
  MaxWrites,    \* bound on the put and delete calls
  MaxCrashes,   \* bound on kills and power losses
  MaxFails      \* bound on failed system calls

ASSUME EngineAssumption ==
  /\ Main \notin Client
  /\ Free \notin Client \cup {Main}
  /\ SizeLimit \in Nat
  /\ PowerLoss \in BOOLEAN
  /\ MaxWrites \in Nat /\ MaxCrashes \in Nat /\ MaxFails \in Nat

Thread == Client \cup {Main}

VARIABLES
  pc, op, res,
  write_lock,
  cursor,       \* entries replayed so far by open()
  writes, crashes, fails,
  (*************************************************************************)
  (* History variables, which no step of the program depends on.           *)
  (*************************************************************************)
  store,        \* the contents of the store, as clients may observe them
  seen,         \* for a get: the values of its key since it was called
  may           \* for a key: the values a restart may find

ctlVars   == <<pc, op, res, write_lock, cursor>>
countVars == <<writes, crashes, fails>>
histVars  == <<store, seen, may>>
vars      == <<walVars, memVars, storageVars, ctlVars, countVars, histVars>>

NoOp  == [type |-> "none", key |-> Absent, val |-> Absent]

Operation ==
       {NoOp}
  \cup [type : {"get"}, key : Key, val : {Absent}]
  \cup [type : {"put"}, key : Key, val : Value]
  \cup [type : {"delete"}, key : Key, val : {Tombstone}]
  \cup [type : {"flush", "open", "close", "drop"}, key : {Absent}, val : {Absent}]

ClientPC == {"idle", "memget", "sstget", "lock", "append", "appending",
             "flush", "storage", "truncate", "truncating", "return"}
MainPC   == {"down", "load", "replay", "reset", "up", "flush", "storage",
             "truncate", "truncating", "return", "syncing", "dropping"}

CtlTypeOK ==
  /\ pc \in [Thread -> ClientPC \cup MainPC]
  /\ pc[Main] \in MainPC
  /\ op \in [Thread -> Operation]
  /\ op[Main].type \in {"none", "open", "close", "drop"}
  /\ \A c \in Client :
       /\ pc[c] \in ClientPC
       /\ op[c].type \in {"none", "get", "put", "delete", "flush"}
       /\ pc[c] \in {"memget", "sstget"} => op[c].type = "get"
       /\ pc[c] \in {"lock", "flush", "storage", "truncate", "truncating"} =>
            op[c].type \in {"put", "delete", "flush"}
       /\ pc[c] \in {"append", "appending"} => op[c].type \in {"put", "delete"}
  /\ res \in [Thread -> Result \cup {"ok", "err"}]
  /\ write_lock \in Thread \cup {Free}
  /\ cursor \in Nat

HistTypeOK ==
  /\ writes \in Nat /\ crashes \in Nat /\ fails \in Nat
  /\ store \in [Key -> Result]
  /\ seen \in [Client -> SUBSET Result]
  /\ may \in [Key -> SUBSET Result]

TypeOK == WalTypeOK /\ MemTypeOK /\ StorageTypeOK /\ CtlTypeOK /\ HistTypeOK

Init ==
  /\ WalInit /\ MemInit /\ StorageInit
  /\ pc = [t \in Thread |-> IF t = Main THEN "down" ELSE "idle"]
  /\ op = [t \in Thread |-> NoOp]
  /\ res = [t \in Thread |-> "ok"]
  /\ write_lock = Free
  /\ cursor = 0
  /\ writes = 0 /\ crashes = 0 /\ fails = 0
  /\ store = [k \in Key |-> Absent]
  /\ seen = [c \in Client |-> {}]
  /\ may = [k \in Key |-> {Absent}]

Goto(t, l) == pc' = [pc EXCEPT ![t] = l]
Answer(t, r) == res' = [res EXCEPT ![t] = r]

-----------------------------------------------------------------------------
(***************************************************************************)
(* A client calls the engine, which is up.                                 *)
(***************************************************************************)
Call(c, o, l) ==
  /\ pc[Main] = "up" /\ pc[c] = "idle"
  /\ op' = [op EXCEPT ![c] = o]
  /\ Goto(c, l)
  /\ Answer(c, "ok")
  /\ UNCHANGED <<walVars, memVars, storageVars, write_lock, cursor, crashes,
                 fails, store, may>>

CallGet(c, k) ==
  /\ Call(c, [type |-> "get", key |-> k, val |-> Absent], "memget")
  /\ seen' = [seen EXCEPT ![c] = {store[k]}]
  /\ UNCHANGED writes

CallWrite(c, o) ==
  /\ writes < MaxWrites
  /\ Call(c, o, "lock")
  /\ writes' = writes + 1
  /\ UNCHANGED seen

CallPut(c, k, v) == CallWrite(c, [type |-> "put", key |-> k, val |-> v])

CallDelete(c, k) ==
  CallWrite(c, [type |-> "delete", key |-> k, val |-> Tombstone])

CallFlush(c) ==
  /\ Call(c, [type |-> "flush", key |-> Absent, val |-> Absent], "lock")
  /\ UNCHANGED <<writes, seen>>

-----------------------------------------------------------------------------
(***************************************************************************)
(* get(): the memtable, and on a miss the SSTables.                        *)
(***************************************************************************)
MemGet(c) ==
  LET s == memtable[op[c].key] IN
  /\ pc[c] = "memget"
  /\ IF s # Absent THEN Goto(c, "return") /\ Answer(c, Visible(s))
                   ELSE Goto(c, "sstget") /\ UNCHANGED res
  /\ UNCHANGED <<walVars, memVars, storageVars, op, write_lock, cursor,
                 countVars, histVars>>

\* Mutation of SstGet: the search waits for the write lock.
SstGetLocked(c) ==
  /\ pc[c] = "sstget" /\ write_lock = Free
  /\ \E s \in Slot : StorageGet(op[c].key, s) /\ Answer(c, Visible(s))
  /\ Goto(c, "return")
  /\ UNCHANGED <<walVars, memVars, storageVars, op, write_lock, cursor,
                 countVars, histVars>>

SstGet(c) ==
  /\ pc[c] = "sstget"
  /\ \E s \in Slot : StorageGet(op[c].key, s) /\ Answer(c, Visible(s))
  /\ Goto(c, "return")
  /\ UNCHANGED <<walVars, memVars, storageVars, op, write_lock, cursor,
                 countVars, histVars>>

-----------------------------------------------------------------------------
\* Mutation of Lock: flush() goes the way of put().
LockToAppend(c) ==
  /\ pc[c] = "lock" /\ write_lock = Free
  /\ write_lock' = c
  /\ Goto(c, "append")
  /\ UNCHANGED <<walVars, memVars, storageVars, op, res, cursor, countVars,
                 histVars>>

\* Mutation of Lock: writers do not exclude each other.
LockShared(c) ==
  /\ pc[c] = "lock"
  /\ write_lock' = c
  /\ Goto(c, IF op[c].type = "flush" THEN "flush" ELSE "append")
  /\ UNCHANGED <<walVars, memVars, storageVars, op, res, cursor, countVars,
                 histVars>>

(***************************************************************************)
(* put() and delete(): lock, log, apply, and flush if the memtable has     *)
(* reached its limit.  flush() takes the same lock.                        *)
(***************************************************************************)
Lock(c) ==
  /\ pc[c] = "lock" /\ write_lock = Free
  /\ write_lock' = c
  /\ Goto(c, IF op[c].type = "flush" THEN "flush" ELSE "append")
  /\ UNCHANGED <<walVars, memVars, storageVars, op, res, cursor, countVars,
                 histVars>>

\* From here on the write may be found by a restart.
AppendWal(c) ==
  LET k == op[c].key IN
  /\ pc[c] = "append"
  /\ WalAppend(k, op[c].val)
  /\ Goto(c, "appending")
  /\ may' = [may EXCEPT ![k] = @ \cup {Visible(op[c].val)}]
  /\ UNCHANGED <<memVars, storageVars, op, res, write_lock, cursor, countVars,
                 store, seen>>

\* The record is logged: the write takes effect.
Apply(c) ==
  LET k == op[c].key
      v == Visible(op[c].val)
      gets == {d \in Client : op[d].type = "get" /\ op[d].key = k} IN
  /\ pc[c] = "appending" /\ wal_pc = "idle" /\ wal_res = "ok"
  /\ MemApply(k, op[c].val)
  /\ Goto(c, IF size' >= SizeLimit THEN "flush" ELSE "return")
  /\ store' = [store EXCEPT ![k] = v]
  /\ seen' = [d \in Client |-> IF d \in gets THEN seen[d] \cup {v} ELSE seen[d]]
  /\ UNCHANGED <<walVars, storageVars, op, res, write_lock, cursor, countVars,
                 may>>

AppendFailed(c) ==
  /\ pc[c] = "appending" /\ wal_pc = "idle" /\ wal_res = "err"
  /\ Goto(c, "return") /\ Answer(c, "err")
  /\ UNCHANGED <<walVars, memVars, storageVars, op, write_lock, cursor,
                 countVars, histVars>>

\* Mutation of FlushStart: an empty memtable is waited for, under the lock.
FlushStartSpins(t) ==
  /\ pc[t] = "flush"
  /\ IF IsEmpty(memtable)
       THEN UNCHANGED <<pc, storageVars>>
       ELSE Goto(t, "storage") /\ StorageFlush(memtable)
  /\ UNCHANGED <<walVars, memVars, op, res, write_lock, cursor, countVars,
                 histVars>>

(***************************************************************************)
(* flush_internal(), for a client, for close(), and its first two steps    *)
(* for open(), which then empties the log in its own way.                  *)
(***************************************************************************)
FlushStart(t) ==
  /\ pc[t] = "flush"
  /\ IF IsEmpty(memtable)
       THEN Goto(t, "return") /\ UNCHANGED storageVars
       ELSE Goto(t, "storage") /\ StorageFlush(memtable)
  /\ UNCHANGED <<walVars, memVars, op, res, write_lock, cursor, countVars,
                 histVars>>

\* Mutation of Clear: the memtable is cleared before the table is published.
ClearEarly(t) ==
  /\ pc[t] = "storage" /\ st_pc \in {"publish", "idle"} /\ st_res = "ok"
  /\ MemClear
  /\ Goto(t, IF op[t].type = "open" THEN "reset" ELSE "truncate")
  /\ UNCHANGED <<walVars, storageVars, op, res, write_lock, cursor, countVars,
                 histVars>>

\* The table is published: only now is the memtable cleared.
Clear(t) ==
  /\ pc[t] = "storage" /\ st_pc = "idle" /\ st_res = "ok"
  /\ MemClear
  /\ Goto(t, IF op[t].type = "open" THEN "reset" ELSE "truncate")
  /\ UNCHANGED <<walVars, storageVars, op, res, write_lock, cursor, countVars,
                 histVars>>

\* Mutation of FlushFailed: the memtable is cleared all the same.
FlushFailedClears(t) ==
  /\ pc[t] = "storage" /\ st_pc = "idle" /\ st_res = "err"
  /\ MemClear
  /\ Goto(t, "return") /\ Answer(t, "err")
  /\ UNCHANGED <<walVars, storageVars, op, write_lock, cursor, countVars, histVars>>

FlushFailed(t) ==
  /\ pc[t] = "storage" /\ st_pc = "idle" /\ st_res = "err"
  /\ Goto(t, "return") /\ Answer(t, "err")
  /\ UNCHANGED <<walVars, memVars, storageVars, op, write_lock, cursor,
                 countVars, histVars>>

TruncateWal(t) ==
  /\ pc[t] = "truncate"
  /\ WalTruncate
  /\ Goto(t, "truncating")
  /\ UNCHANGED <<memVars, storageVars, op, res, write_lock, cursor, countVars,
                 histVars>>

Truncated(t) ==
  /\ pc[t] = "truncating" /\ wal_pc = "idle"
  /\ Goto(t, "return")
  /\ Answer(t, wal_res)
  /\ UNCHANGED <<walVars, memVars, storageVars, op, write_lock, cursor,
                 countVars, histVars>>

\* The guard is dropped and the Result returned.  A write that succeeded
\* leaves one value for a restart to find.
ReturnClient(c) ==
  LET o == op[c] IN
  /\ pc[c] = "return"
  /\ write_lock' = IF write_lock = c THEN Free ELSE write_lock
  /\ Goto(c, "idle")
  /\ op' = [op EXCEPT ![c] = NoOp]
  /\ Answer(c, "ok")
  /\ may' = IF o.type \in {"put", "delete"} /\ res[c] = "ok"
              THEN [may EXCEPT ![o.key] = {Visible(o.val)}] ELSE may
  /\ seen' = [seen EXCEPT ![c] = {}]
  /\ UNCHANGED <<walVars, memVars, storageVars, cursor, countVars, store>>

-----------------------------------------------------------------------------
(***************************************************************************)
(* Engine::open.                                                           *)
(***************************************************************************)
MainCalls(o) == op' = [op EXCEPT ![Main] = [type |-> o, key |-> Absent, val |-> Absent]]

Open ==
  /\ pc[Main] = "down"
  /\ MainCalls("open") /\ Answer(Main, "ok")
  /\ OpenStart
  /\ Goto(Main, "load")
  /\ UNCHANGED <<walVars, memVars, write_lock, cursor, countVars, histVars>>

Load ==
  /\ pc[Main] = "load"
  /\ \E i \in DOMAIN sst_files : OpenReader(i)
  /\ UNCHANGED <<walVars, memVars, ctlVars, countVars, histVars>>

Loaded ==
  /\ pc[Main] = "load" /\ OpenDone
  /\ Goto(Main, "replay")
  /\ cursor' = 0
  /\ UNCHANGED <<walVars, memVars, storageVars, op, res, write_lock, countVars,
                 histVars>>

\* One entry that recover() returned, put or deleted in the memtable.
Replay ==
  LET r == wal_file[cursor + 1] IN
  /\ pc[Main] = "replay" /\ Readable(wal_file, cursor + 1)
  /\ MemApply(r.key, r.val)
  /\ cursor' = cursor + 1
  /\ UNCHANGED <<walVars, storageVars, pc, op, res, write_lock, countVars,
                 histVars>>

\* Mutation of Replayed: the recovered entries stay in the memtable only.
ReplayedUnflushed ==
  /\ pc[Main] = "replay" /\ ~Readable(wal_file, cursor + 1)
  /\ Goto(Main, "reset")
  /\ cursor' = 0
  /\ UNCHANGED <<walVars, memVars, storageVars, op, res, write_lock, countVars,
                 histVars>>

\* Mutation of Replayed: the loop reads a torn record again and again.
ReplayedSpins ==
  /\ pc[Main] = "replay" /\ ~Readable(wal_file, cursor + 1)
  /\ IF cursor < Len(wal_file)
       THEN UNCHANGED <<pc, storageVars, cursor>>
       ELSE /\ IF IsEmpty(memtable)
                 THEN Goto(Main, "reset") /\ UNCHANGED storageVars
                 ELSE Goto(Main, "storage") /\ StorageFlush(memtable)
            /\ cursor' = 0
  /\ UNCHANGED <<walVars, memVars, op, res, write_lock, countVars, histVars>>

\* The recovered entries go to an SSTable before the log is emptied.
Replayed ==
  /\ pc[Main] = "replay" /\ ~Readable(wal_file, cursor + 1)
  /\ IF IsEmpty(memtable)
       THEN Goto(Main, "reset") /\ UNCHANGED storageVars
       ELSE Goto(Main, "storage") /\ StorageFlush(memtable)
  /\ cursor' = 0
  /\ UNCHANGED <<walVars, memVars, op, res, write_lock, countVars, histVars>>

\* WalWriter::open; the engine is ready.  store becomes what it will serve.
\* Without power losses no later restart can find anything else.
Reset ==
  /\ pc[Main] = "reset"
  /\ WalOpen
  /\ Goto(Main, "up")
  /\ op' = [op EXCEPT ![Main] = NoOp]
  /\ store' \in [Key -> Result]
  /\ \A k \in Key : \E s \in Slot : StorageGet(k, s) /\ store'[k] = Visible(s)
  /\ may' = IF PowerLoss THEN may ELSE [k \in Key |-> {store'[k]}]
  /\ UNCHANGED <<memVars, storageVars, res, write_lock, cursor, countVars, seen>>

\* The memory of a process that ends; r is the outcome of open(), if it failed.
Memoryless(r) ==
  /\ MemClear
  /\ pc' = [t \in Thread |-> IF t = Main THEN "down" ELSE "idle"]
  /\ op' = [t \in Thread |-> NoOp]
  /\ res' = [t \in Thread |-> IF t = Main THEN r ELSE "ok"]
  /\ write_lock' = Free
  /\ cursor' = 0
  /\ seen' = [c \in Client |-> {}]
  /\ UNCHANGED <<store, may, writes>>

\* open() fails: a partial SSTable is rejected, or the flush returned an error.
OpenFailed ==
  /\ \/ pc[Main] = "load" /\ \E i \in DOMAIN sst_files : RejectReader(i)
     \/ pc[Main] = "return" /\ op[Main].type = "open"
  /\ Memoryless("err") /\ WalKilled /\ StorageKilled
  /\ UNCHANGED <<crashes, fails>>

-----------------------------------------------------------------------------
(***************************************************************************)
(* close(self) and drop: nobody else uses the engine any more.             *)
(***************************************************************************)
Alone == pc[Main] = "up" /\ \A c \in Client : pc[c] = "idle"

Close ==
  /\ Alone
  /\ MainCalls("close") /\ Answer(Main, "ok")
  /\ IF IsEmpty(memtable)
       THEN Goto(Main, "syncing") /\ WalSync /\ UNCHANGED write_lock
       ELSE Goto(Main, "flush") /\ write_lock' = Main /\ UNCHANGED walVars
  /\ UNCHANGED <<memVars, storageVars, cursor, countVars, histVars>>

\* The flush of close() is over; an error ends close() and drops the engine.
CloseFlushed ==
  /\ pc[Main] = "return" /\ op[Main].type = "close"
  /\ write_lock' = Free
  /\ IF res[Main] = "ok" THEN Goto(Main, "syncing") /\ WalSync
                         ELSE Goto(Main, "dropping") /\ WalDrop
  /\ UNCHANGED <<memVars, storageVars, op, res, cursor, countVars, histVars>>

CloseSynced ==
  /\ pc[Main] = "syncing" /\ wal_pc = "idle"
  /\ Goto(Main, "dropping") /\ WalDrop
  /\ Answer(Main, wal_res)
  /\ UNCHANGED <<memVars, storageVars, op, write_lock, cursor, countVars,
                 histVars>>

Drop ==
  /\ Alone
  /\ MainCalls("drop") /\ Answer(Main, "ok")
  /\ Goto(Main, "dropping") /\ WalDrop
  /\ UNCHANGED <<memVars, storageVars, write_lock, cursor, countVars, histVars>>

Dropped ==
  /\ pc[Main] = "dropping" /\ wal_pc = "idle"
  /\ Memoryless("ok") /\ WalKilled /\ StorageKilled
  /\ UNCHANGED <<crashes, fails>>

-----------------------------------------------------------------------------
(***************************************************************************)
(* Crashes and failed system calls.                                        *)
(***************************************************************************)
Kill ==
  /\ crashes < MaxCrashes /\ pc[Main] # "down"
  /\ Memoryless("ok") /\ WalKilled /\ StorageKilled
  /\ crashes' = crashes + 1
  /\ UNCHANGED fails

LosePower ==
  /\ PowerLoss /\ crashes < MaxCrashes
  /\ Memoryless("ok") /\ WalPowerLost /\ StoragePowerLost
  /\ crashes' = crashes + 1
  /\ UNCHANGED fails

Failing == fails < MaxFails /\ fails' = fails + 1

WalFails ==
  /\ Failing /\ WalFail
  /\ UNCHANGED <<memVars, storageVars, ctlVars, writes, crashes, histVars>>

StorageFlushFails ==
  /\ Failing /\ StorageFails
  /\ UNCHANGED <<walVars, memVars, ctlVars, writes, crashes, histVars>>

\* SSTableBuilder::new cannot create the file.
StorageCreateFails(t) ==
  /\ Failing
  /\ pc[t] = "flush" \/ (t = Main /\ pc[t] = "replay"
                         /\ ~Readable(wal_file, cursor + 1))
  /\ CreateFails(memtable)
  /\ Goto(t, "storage")
  /\ UNCHANGED <<walVars, memVars, op, res, write_lock, cursor, writes, crashes,
                 histVars>>

GetFails(c) ==
  /\ Failing
  /\ pc[c] = "sstget" /\ \E n \in DOMAIN sstables : Answers(n, op[c].key)
  /\ Goto(c, "return") /\ Answer(c, "err")
  /\ UNCHANGED <<walVars, memVars, storageVars, op, write_lock, cursor, writes,
                 crashes, histVars>>

\* Reading the directory, an SSTable or the log fails, or WalWriter::open does.
OpenFails ==
  /\ Failing
  /\ pc[Main] \in {"load", "replay", "reset"}
  /\ Memoryless("err") /\ WalKilled /\ StorageKilled
  /\ UNCHANGED crashes

-----------------------------------------------------------------------------
LogStep ==
  /\ WalStep
  /\ UNCHANGED <<memVars, storageVars, ctlVars, countVars, histVars>>

TableStep ==
  /\ StorageStep(memtable)
  /\ UNCHANGED <<walVars, memVars, ctlVars, countVars, histVars>>

\* The steps of a client that has called the engine.
ClientStep(c) ==
  \/ MemGet(c) \/ SstGet(c) \/ Lock(c) \/ AppendWal(c) \/ Apply(c)
  \/ AppendFailed(c) \/ ReturnClient(c)

FlushStep(t) ==
  FlushStart(t) \/ Clear(t) \/ FlushFailed(t) \/ TruncateWal(t) \/ Truncated(t)

MainStep ==
  \/ Load \/ Loaded \/ Replay \/ Replayed \/ Reset \/ OpenFailed
  \/ CloseFlushed \/ CloseSynced \/ Dropped

CallStep(c) ==
  \/ \E k \in Key : CallGet(c, k) \/ CallDelete(c, k)
  \/ \E k \in Key, v \in Value : CallPut(c, k, v)
  \/ CallFlush(c)

Fault ==
  \/ Kill \/ LosePower \/ WalFails \/ StorageFlushFails \/ OpenFails
  \/ \E t \in Thread : StorageCreateFails(t)
  \/ \E c \in Client : GetFails(c)

Next ==
  \/ \E c \in Client : CallStep(c) \/ ClientStep(c)
  \/ \E t \in Thread : FlushStep(t)
  \/ LogStep \/ TableStep
  \/ Open \/ Close \/ Drop \/ MainStep
  \/ Fault

Spec == Init /\ [][Next]_vars

\* Threads that can run do run, and system calls return.  No thread is
\* promised the lock while others keep taking it.
Fairness ==
  /\ \A c \in Client : WF_vars(ClientStep(c))
  /\ \A t \in Thread : WF_vars(FlushStep(t))
  /\ WF_vars(LogStep) /\ WF_vars(TableStep) /\ WF_vars(MainStep)

FairSpec == Spec /\ Fairness
=============================================================================

-------------------------- MODULE EngineProperties -------------------------
(***************************************************************************)
(* What the engine has to guarantee.                                       *)
(***************************************************************************)
EXTENDS Engine, FiniteSetsExt

(***************************************************************************)
(* What open() would rebuild from a log with contents f and the SSTables   *)
(* with ids S: the last readable record of the key, else the newest table  *)
(* that has it.                                                            *)
(***************************************************************************)
LogHas(f, k, i) == Readable(f, i) /\ f[i].key = k

LogLast(f, k, i) == LogHas(f, k, i) /\ \A j \in DOMAIN f : LogHas(f, k, j) => j <= i

DiskHas(S, k, i) == i \in S /\ sst_files[i].data[k] # Absent

DiskNewest(S, k, i) == DiskHas(S, k, i) /\ \A j \in S : DiskHas(S, k, j) => j <= i

Rebuilds(f, S, k, s) ==
  \/ \E i \in DOMAIN f : LogLast(f, k, i) /\ s = f[i].val
  \/ /\ \A i \in DOMAIN f : ~LogHas(f, k, i)
     /\ \/ \E i \in S : DiskNewest(S, k, i) /\ s = sst_files[i].data[k]
        \/ s = Absent /\ \A i \in S : ~DiskHas(S, k, i)

\* The logs and the SSTables a crash may leave at this moment.
Logs   == {AfterKill} \cup (IF PowerLoss THEN durable ELSE {})
Synced == {i \in DOMAIN sst_files : sst_files[i].state = "synced"}
Disks  == {DOMAIN sst_files} \cup
          (IF PowerLoss THEN {S \in SUBSET DOMAIN sst_files : Synced \subseteq S} ELSE {})

\* What a get that starts now and runs alone would find.
Serves(k, s) == IF memtable[k] # Absent THEN s = memtable[k] ELSE StorageGet(k, s)

-----------------------------------------------------------------------------
(***************************************************************************)
(* Reads are linearizable: the value a get is about to return was the      *)
(* value of its key at some moment since the call, although get() looks in *)
(* the memtable and in the SSTables at two different moments and a flush   *)
(* may move the entry from one to the other in between.                    *)
(***************************************************************************)
ReadsLinearizable ==
  \A c \in Client :
    (pc[c] = "return" /\ op[c].type = "get" /\ res[c] # "err") => res[c] \in seen[c]

(***************************************************************************)
(* At every moment of every flush the engine serves the current contents:  *)
(* the new SSTable is in the list before the memtable is cleared, and      *)
(* newer tables hide older ones.                                           *)
(***************************************************************************)
ServesCurrent ==
  pc[Main] = "up" => \A k \in Key, s \in Slot : Serves(k, s) => Visible(s) = store[k]

(***************************************************************************)
(* With EveryWrite, whatever crash happens next, a restart finds for every *)
(* key the value of its last acknowledged write, or that of a later write  *)
(* that has not been acknowledged.                                         *)
(***************************************************************************)
AckedSurvives ==
  \A f \in Logs, S \in Disks, k \in Key, s \in Slot :
    Rebuilds(f, S, k, s) => Visible(s) \in may[k]

(***************************************************************************)
(* When storage.flush() has returned, the entries of the new SSTable are   *)
(* durable (engine.rs: "entries are now durable in SSTable", "If we crash  *)
(* after this point, data is safe in SSTables"): a crash at any of the     *)
(* steps up to the end of the truncation leaves them in force.             *)
(***************************************************************************)
FlushedSurvives ==
  (\E t \in Thread : \/ pc[t] = "storage" /\ st_pc = "idle" /\ st_res = "ok"
                     \/ pc[t] \in {"truncate", "truncating", "reset"})
  => \A f \in Logs, S \in Disks, k \in Key, s \in Slot :
       (sstables # <<>> /\ InIndex(sstables[1], k) /\ Rebuilds(f, S, k, s))
         => s = sst_files[sstables[1]].data[k]

(***************************************************************************)
(* LSNs increase along the log and on into the buffer, however calls fail  *)
(* and truncations reset the counter.                                      *)
(***************************************************************************)
LsnIncreasing ==
  LET recs == SelectSeq(wal_file, LAMBDA r : r # Torn) \o buffer \o pending IN
  \A i, j \in DOMAIN recs : i < j => recs[i].lsn < recs[j].lsn

(***************************************************************************)
(* The size that triggers a flush, which put() and delete() maintain by    *)
(* differences, is the number of bytes of the entries in the memtable.     *)
(***************************************************************************)
SizeExact == size = MapThenSumSet(OldSize, Key)

(***************************************************************************)
(* The readers are ordered newest first, and the next id is above every id *)
(* on disk, so that no file is ever overwritten and the list found after a *)
(* restart is the list before it.                                          *)
(***************************************************************************)
NewestFirst ==
  /\ \A m, n \in DOMAIN sstables : m < n => sstables[m] > sstables[n]
  /\ pc[Main] \notin {"down", "load"} => \A i \in DOMAIN sst_files : i < next_sstable_id

(***************************************************************************)
(* The documentation's crash recovery: when no system call fails, open()   *)
(* does not fail, whatever the crashes before it.                          *)
(***************************************************************************)
OpenSucceeds == ~(pc[Main] = "down" /\ res[Main] = "err")

(***************************************************************************)
(* A shutdown loses nothing, whatever the sync strategy: when close() or   *)
(* the drop of the engine is over and no system call has failed, a restart *)
(* finds the current contents, after close() even if power is lost next.   *)
(***************************************************************************)
ShutdownKeepsAll ==
  (pc[Main] = "dropping" /\ wal_pc = "idle" /\ fails = 0)
  => \A f \in (IF op[Main].type = "close" THEN Logs ELSE {wal_file}),
        k \in Key, s \in Slot :
       Rebuilds(f, DOMAIN sst_files, k, s) => Visible(s) = store[k]

-----------------------------------------------------------------------------
(***************************************************************************)
(* Why reads are linearizable: the parts of an inductive invariant.        *)
(*                                                                         *)
(* Exclusion.  While open(), close() or drop run, no client is in a call;  *)
(* a client that logs, applies or flushes holds write_lock; and only a     *)
(* thread in flush_internal() has the storage manager build a table.       *)
(***************************************************************************)
Critical == {"append", "appending", "flush", "storage", "truncate", "truncating"}

Exclusion ==
  /\ pc[Main] # "up" => \A c \in Client : pc[c] = "idle"
  /\ \A c \in Client : pc[c] \in Critical => write_lock = c
  /\ st_pc # "idle" => \E t \in Thread : pc[t] = "storage"

(***************************************************************************)
(* Lists.  The readers are on disk files in strictly decreasing order, and *)
(* the table under construction has an id above theirs.  While open()      *)
(* loads the files, those loaded are newer than those still to come.       *)
(***************************************************************************)
Lists ==
  /\ Opened \subseteq DOMAIN sst_files
  /\ NewestFirst
  /\ st_pc # "idle" => \A n \in DOMAIN sstables : sstables[n] < Building
  /\ pc[Main] = "load" =>
       /\ sstables # <<>> => \A j \in DOMAIN sst_files : j < next_sstable_id
       /\ \A n \in DOMAIN sstables, j \in DOMAIN sst_files \ Opened : j < sstables[n]

(***************************************************************************)
(* Handover.  The new table holds the entries of the memtable, until the   *)
(* memtable is cleared; open() empties the log with the memtable empty.    *)
(***************************************************************************)
Handover ==
  /\ st_pc \in {"sync", "publish"} => sst_files[Building].data = memtable
  /\ \A t \in Thread : (pc[t] = "storage" /\ st_pc = "idle" /\ st_res = "ok") =>
       sstables # <<>> /\ sst_files[sstables[1]].data = memtable
  /\ pc[Main] = "reset" => IsEmpty(memtable)

(***************************************************************************)
(* GetsCovered.  A get that has not looked anywhere may return the current *)
(* value; one that missed in the memtable may return whatever the SSTables *)
(* hold now, and what the memtable holds by now, which a flush may move    *)
(* to an SSTable before the get looks there.                               *)
(***************************************************************************)
GetsCovered ==
  \A c \in Client :
    LET k == op[c].key IN
    /\ pc[c] = "memget" => store[k] \in seen[c]
    /\ pc[c] = "sstget" =>
         /\ \A s \in Slot : StorageGet(k, s) => Visible(s) \in seen[c]
         /\ memtable[k] # Absent => Visible(memtable[k]) \in seen[c]

ReadInv == /\ TypeOK /\ Exclusion /\ Lists /\ Handover
           /\ ServesCurrent /\ GetsCovered /\ ReadsLinearizable

-----------------------------------------------------------------------------
(***************************************************************************)
(* With EveryWrite the engine implements KVStore: linearizable operations  *)
(* on one map that restarts preserve, whatever the interleaving of threads *)
(* and flushes, the crashes, and the failed system calls.                  *)
(***************************************************************************)
Progress(c) ==
  CASE pc[c] = "idle"   -> "idle"
    [] pc[c] = "return" -> "done"
    [] pc[c] \in {"flush", "storage", "truncate", "truncating"}
       /\ op[c].type \in {"put", "delete"} -> "applied"
    [] OTHER            -> "called"

KV == INSTANCE KVStore WITH
        Lasting <- ~PowerLoss,
        up  <- pc[Main] = "up",
        st  <- [c \in Client |-> Progress(c)],
        op  <- [c \in Client |-> op[c]],
        res <- [c \in Client |-> res[c]]

ImplementsKVStore == KV!Spec

-----------------------------------------------------------------------------
(***************************************************************************)
(* Whoever holds the write lock releases it: no path through put(),        *)
(* delete(), flush() or close() keeps it.                                  *)
(***************************************************************************)
LockReleased == \A t \in Thread : []<>(write_lock # t)

(***************************************************************************)
(* A get returns, whatever writers and flushes do meanwhile.               *)
(***************************************************************************)
GetsReturn == \A c \in Client : []<>(op[c].type # "get")

(***************************************************************************)
(* open() comes to an end, also over a torn log and partial tables, and so *)
(* do close() and drop: the engine never stays between up and down.        *)
(***************************************************************************)
StartupEnds == []<>(pc[Main] \in {"up", "down"})
=============================================================================

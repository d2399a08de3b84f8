--------------------------- MODULE SearchProofs -----------------------------
(***************************************************************************)
(* What a search through memtable and readers finds, and which steps leave *)
(* it alone,                                                               *)
(* for every set of keys, values and clients, every sync strategy and size *)
(* limit, and any number of crashes and failed system calls.               *)
(***************************************************************************)
EXTENDS EngineProofs

-----------------------------------------------------------------------------
(***************************************************************************)
(* The search through the readers, as a function of the files f and of the *)
(* list l: the range filter of might_contain() makes no difference.        *)
(***************************************************************************)
Has(f, l, k, n) == f[l[n]].data[k] # Absent

Search(f, l, k, v) ==
  \/ \E n \in DOMAIN l : /\ Has(f, l, k, n) /\ v = f[l[n]].data[k]
                         /\ \A m \in 1..(n - 1) : ~Has(f, l, k, m)
  \/ v = Absent /\ \A n \in DOMAIN l : ~Has(f, l, k, n)

\* StorageManager::get is that search, before and after a step.
LEMMA SearchIs ==
  ASSUME NEW k \in Key, NEW v
  PROVE  /\ StorageGet(k, v) <=> Search(sst_files, sstables, k, v)
         /\ StorageGet(k, v)' <=> Search(sst_files', sstables', k, v)
<1>1. k \in Nat
  BY KVAssumption
<1>. QED  BY <1>1 DEF StorageGet, Answers, Finds, MightContain, InIndex, Search, Has

\* It has one outcome.
LEMMA SearchUnique ==
  ASSUME NEW f, NEW l \in Seq(Nat), NEW k, NEW a, NEW b,
         Search(f, l, k, a), Search(f, l, k, b)
  PROVE  a = b
<1>1. \A m, n \in DOMAIN l : m < n \/ n < m \/ m = n
  OBVIOUS
<1>2. \A m, n \in DOMAIN l : m < n => m \in 1..(n - 1)
  OBVIOUS
<1>. QED  BY <1>1, <1>2 DEF Search

\* The first reader decides if it has the key.
LEMMA SearchHead ==
  ASSUME NEW f, NEW l \in Seq(Nat), NEW k, NEW v, l # <<>>, f[l[1]].data[k] # Absent,
         Search(f, l, k, v)
  PROVE  v = f[l[1]].data[k]
<1>1. 1 \in DOMAIN l /\ \A n \in DOMAIN l : n # 1 => 1 \in 1..(n - 1)
  OBVIOUS
<1>. QED  BY <1>1 DEF Search, Has

\* A reader put in front answers for the keys it has, and for no other.
LEMMA SearchPublish ==
  ASSUME NEW f, NEW l \in Seq(Nat), NEW k, NEW v, NEW b \in Nat,
         Search(f, <<b>> \o l, k, v)
  PROVE  IF f[b].data[k] # Absent THEN v = f[b].data[k] ELSE Search(f, l, k, v)
<1>. DEFINE j == <<b>> \o l
<1>1. /\ j \in Seq(Nat) /\ j # <<>> /\ j[1] = b
      /\ \A n \in DOMAIN l : n + 1 \in DOMAIN j /\ j[n + 1] = l[n]
      /\ \A n \in DOMAIN j : n # 1 => n - 1 \in DOMAIN l /\ j[n] = l[n - 1]
  OBVIOUS
<1>. HIDE DEF j
<1>2. Search(f, j, k, v)
  BY DEF j
<1>3. CASE f[b].data[k] # Absent
  <2>1. f[j[1]].data[k] # Absent
    BY <1>1, <1>3
  <2>2. v = f[j[1]].data[k]
    <3>1. 1 \in DOMAIN j /\ \A n \in DOMAIN j : n # 1 => 1 \in 1..(n - 1)
      BY <1>1
    <3>. QED  BY <1>2, <2>1, <3>1, Zenon DEF Search, Has
  <2>. QED  BY <1>1, <1>3, <2>2
<1>4. CASE f[b].data[k] = Absent
  <2>1. CASE v = Absent /\ \A n \in DOMAIN j : ~Has(f, j, k, n)
    <3>1. ASSUME NEW m \in DOMAIN l
          PROVE  ~Has(f, l, k, m)
      <4>1. m + 1 \in DOMAIN j /\ j[m + 1] = l[m]
        BY <1>1
      <4>. QED  BY <2>1, <4>1 DEF Has
    <3>. QED  BY <1>4, <2>1, <3>1 DEF Search
  <2>2. ASSUME NEW n \in DOMAIN j, Has(f, j, k, n), v = f[j[n]].data[k],
               \A m \in 1..(n - 1) : ~Has(f, j, k, m)
        PROVE  Search(f, l, k, v)
    <3>1. n # 1 /\ n \in Nat /\ n - 1 \in DOMAIN l /\ j[n] = l[n - 1]
      BY <1>1, <1>4, <2>2 DEF Has
    <3>2. \A m \in 1..((n - 1) - 1) : ~Has(f, l, k, m)
      <4>. SUFFICES ASSUME NEW m \in 1..((n - 1) - 1)
                    PROVE  ~Has(f, l, k, m)
        OBVIOUS
      <4>1. m \in DOMAIN l /\ m + 1 \in 1..(n - 1)
        BY <3>1
      <4>. QED  BY <1>1, <2>2, <4>1, ZenonT(30) DEF Has
    <3>. QED  BY <2>2, <3>1, <3>2, Zenon DEF Search, Has
  <2>. QED  BY <1>2, <1>4, <2>1, <2>2, SMTT(30) DEF Search
<1>. QED  BY <1>3, <1>4

-----------------------------------------------------------------------------
(***************************************************************************)
(* Handover is preserved.  Only one thread at a time is in a flush, and    *)
(* while it is, nobody changes the memtable.                               *)
(***************************************************************************)
LEMMA FlushAlone ==
  ASSUME BaseInv, NEW t \in Thread, pc[t] = "storage"
  PROVE  /\ \A u \in Thread : pc[u] = "storage" => u = t
         /\ \A c \in Client : pc[c] \notin {"append", "appending", "flush"}
         /\ pc[Main] \notin {"down", "load", "replay", "reset"}
BY EngineAssumption DEF BaseInv, Exclusion, Critical, Thread

\* While a write is logged, or open() is under way before or after its flush,
\* no table is being built.
LEMMA Quiet ==
  ASSUME BaseInv, \/ \E c \in Client : pc[c] = "appending"
                  \/ pc[Main] \in {"down", "load", "replay", "reset"}
  PROVE  st_pc = "idle" /\ \A t \in Thread : pc[t] # "storage"
<1>1. \A t \in Thread : pc[t] # "storage"
  BY FlushAlone
<1>. QED  BY <1>1 DEF BaseInv, Exclusion

\* The steps of StorageManager::flush preserve Handover.
LEMMA BuildHandover ==
  ASSUME BaseInv, Handover, StorageStep(memtable), UNCHANGED <<memtable, pc>>
  PROVE  Handover'
<1>1. /\ StorageTypeOK /\ memtable \in Table /\ Building \in Nat
      /\ Building \in DOMAIN sst_files /\ st_pc # "idle"
      /\ {"complete", "synced"} \subseteq FileState
  BY DEF BaseInv, TypeOK, StorageTypeOK, MemTypeOK, Building, StorageStep, BuilderFinish,
         BuilderSync, Publish, FileState
<1>2. CASE BuilderFinish(memtable)
  <2>1. sst_files'[Building] = [state |-> "complete", data |-> memtable]
    BY <1>1, <1>2, SetFileTypes DEF BuilderFinish
  <2>2. Building' = Building /\ st_pc' = "sync"
    BY <1>2 DEF BuilderFinish, Building
  <2>. QED  BY <2>1, <2>2 DEF Handover, IsEmpty
<1>3. CASE BuilderSync
  <2>1. sst_files[Building].data = memtable
    BY <1>3 DEF Handover, BuilderSync
  <2>2. sst_files'[Building] = [state |-> "synced", data |-> memtable]
    BY <1>1, <1>3, <2>1, SetFileTypes DEF BuilderSync
  <2>3. Building' = Building /\ st_pc' = "publish"
    BY <1>3 DEF BuilderSync, Building
  <2>. QED  BY <2>2, <2>3 DEF Handover, IsEmpty
<1>4. CASE Publish
  <2>1. sst_files[Building].data = memtable
    BY <1>4 DEF Handover, Publish
  <2>2. sstables \in Seq(Nat)
    BY <1>1 DEF StorageTypeOK
  <2>3. sstables' # <<>> /\ sstables'[1] = Building
    BY <1>1, <1>4, <2>2 DEF Publish
  <2>. QED  BY <1>4, <2>1, <2>3 DEF Handover, Publish, StReturn, IsEmpty
<1>. QED  BY <1>2, <1>3, <1>4 DEF StorageStep

\* Every step of the engine preserves Handover.
LEMMA HandoverStep ==
  ASSUME BaseInv, Handover, [Next]_vars
  PROVE  Handover'
<1>. USE EngineAssumption
<1>0. /\ pc \in [Thread -> ClientPC \cup MainPC] /\ Main \in Thread /\ Client \subseteq Thread
      /\ memtable \in Table
  BY DEF BaseInv, TypeOK, CtlTypeOK, MemTypeOK, Thread
<1>1. ASSUME UNCHANGED <<memVars, storageVars>>,
             \A t \in Thread : pc'[t] = "storage" => pc[t] = "storage",
             pc'[Main] = "reset" => pc[Main] = "reset"
      PROVE  Handover'
  BY <1>1 DEF Handover, Building, IsEmpty, memVars, storageVars
<1>2. ASSUME st_pc' = "idle", \A t \in Thread : pc'[t] # "storage", pc'[Main] # "reset"
      PROVE  Handover'
  BY <1>2 DEF Handover
<1>3. ASSUME NEW c \in Client, CallStep(c) \/ GetFails(c)
      PROVE  Handover'
  <2>1. /\ UNCHANGED <<memVars, storageVars>>
        /\ \E l \in {"memget", "lock", "return"} : pc' = [pc EXCEPT ![c] = l]
    BY <1>3 DEF CallStep, CallGet, CallPut, CallDelete, CallFlush, CallWrite, Call, Goto,
                GetFails
  <2>. QED  BY <1>0, <1>1, <2>1
<1>4. ASSUME NEW c \in Client, ClientStep(c)
      PROVE  Handover'
  <2>1. CASE Apply(c)
    <3>1. st_pc = "idle" /\ \A t \in Thread : pc[t] # "storage"
      BY <2>1, Quiet DEF Apply
    <3>2. /\ UNCHANGED st_pc /\ pc[Main] = "up"
          /\ \E l \in {"flush", "return"} : pc' = [pc EXCEPT ![c] = l]
      BY <2>1, Zenon DEF Apply, Goto, storageVars, BaseInv, Exclusion
    <3>. QED  BY <1>0, <1>2, <3>1, <3>2
  <2>2. CASE ~Apply(c)
    <3>1. /\ UNCHANGED <<memVars, storageVars>>
          /\ \E l \in {"sstget", "return", "flush", "append", "appending", "idle"} :
               pc' = [pc EXCEPT ![c] = l]
      BY <1>4, <2>2 DEF ClientStep, MemGet, SstGet, Lock, AppendWal, AppendFailed,
                        ReturnClient, Goto
    <3>. QED  BY <1>0, <1>1, <3>1, SMTT(30)
  <2>. QED  BY <2>1, <2>2
<1>5. ASSUME NEW t \in Thread, FlushStep(t)
      PROVE  Handover'
  <2>1. CASE FlushStart(t) /\ ~IsEmpty(memtable)
    <3>1. /\ st_pc' = "finish" /\ UNCHANGED memtable
          /\ pc' = [pc EXCEPT ![t] = "storage"]
      BY <2>1 DEF FlushStart, StorageFlush, Goto, memVars
    <3>. QED  BY <1>0, <3>1 DEF Handover, IsEmpty
  <2>2. CASE Clear(t)
    <3>1. /\ \A u \in Thread : pc[u] = "storage" => u = t
          /\ pc[t] = "storage"
      BY <2>2, FlushAlone DEF Clear
    <3>2. /\ st_pc' = "idle" /\ memtable' = EmptyTable
          /\ \E l \in {"reset", "truncate"} : pc' = [pc EXCEPT ![t] = l]
      BY <2>2, Zenon DEF Clear, MemClear, Goto, storageVars
    <3>3. \A u \in Thread : pc'[u] # "storage"
      BY <1>0, <3>1, <3>2
    <3>. QED  BY <3>2, <3>3 DEF Handover, IsEmpty, EmptyTable
  <2>3. CASE ~Clear(t) /\ ~(FlushStart(t) /\ ~IsEmpty(memtable))
    <3>1. /\ UNCHANGED <<memVars, storageVars>>
          /\ \E l \in {"return", "truncating"} : pc' = [pc EXCEPT ![t] = l]
      BY <1>5, <2>3 DEF FlushStep, FlushStart, FlushFailed, TruncateWal, Truncated, Goto
    <3>. QED  BY <1>0, <1>1, <3>1
  <2>. QED  BY <2>1, <2>2, <2>3
<1>6. CASE LogStep \/ WalFails
  BY <1>1, <1>6 DEF LogStep, WalFails, ctlVars
<1>7. CASE TableStep
  BY <1>7, BuildHandover DEF TableStep, memVars, ctlVars
<1>8. CASE StorageFlushFails
  BY <1>8 DEF StorageFlushFails, StorageFails, StReturn, Handover, IsEmpty, memVars, ctlVars
<1>9. CASE Open \/ Load \/ Loaded \/ Replay
  <2>1. st_pc = "idle" /\ \A t \in Thread : pc[t] # "storage"
    BY <1>9, Quiet DEF Open, Load, Loaded, Replay
  <2>2. /\ UNCHANGED st_pc /\ pc[Main] # "reset"
        /\ pc' = pc \/ \E l \in {"load", "replay"} : pc' = [pc EXCEPT ![Main] = l]
    BY <1>9 DEF Open, Load, Loaded, Replay, OpenStart, OpenReader, Goto, storageVars, ctlVars
  <2>. QED  BY <1>0, <1>2, <2>1, <2>2
<1>10. CASE Replayed
  <2>1. \A t \in Thread : pc[t] # "storage"
    BY <1>10, Quiet DEF Replayed
  <2>2. CASE IsEmpty(memtable)
    <3>1. /\ UNCHANGED <<memtable, st_pc>> /\ pc' = [pc EXCEPT ![Main] = "reset"]
      BY <1>10, <2>2 DEF Replayed, Goto, memVars, storageVars
    <3>2. st_pc = "idle"
      BY <1>10, Quiet DEF Replayed
    <3>. QED  BY <1>0, <2>1, <2>2, <3>1, <3>2 DEF Handover, IsEmpty
  <2>3. CASE ~IsEmpty(memtable)
    <3>1. st_pc' = "finish" /\ pc' = [pc EXCEPT ![Main] = "storage"]
      BY <1>10, <2>3 DEF Replayed, StorageFlush, Goto
    <3>. QED  BY <1>0, <3>1 DEF Handover
  <2>. QED  BY <2>2, <2>3
<1>11. CASE Reset \/ Close \/ CloseFlushed \/ CloseSynced \/ Drop
  <2>1. /\ UNCHANGED <<memVars, storageVars>>
        /\ \E l \in {"up", "syncing", "flush", "dropping"} : pc' = [pc EXCEPT ![Main] = l]
    BY <1>11 DEF Reset, Close, CloseFlushed, CloseSynced, Drop, Goto
  <2>. QED  BY <1>0, <1>1, <2>1, SMTT(30)
<1>12. CASE OpenFailed \/ Dropped \/ Kill \/ LosePower \/ OpenFails
  <2>1. st_pc' = "idle" /\ \E r : Memoryless(r)
    BY <1>12 DEF OpenFailed, Dropped, Kill, LosePower, OpenFails, StorageKilled,
                 StoragePowerLost
  <2>. QED  BY <1>2, <2>1 DEF Memoryless, Thread
<1>13. ASSUME NEW t \in Thread, StorageCreateFails(t)
       PROVE  Handover'
  <2>1. /\ st_pc' = "idle" /\ st_res' = "err" /\ pc[t] \in {"flush", "replay"}
        /\ pc' = [pc EXCEPT ![t] = "storage"] /\ UNCHANGED memtable
    BY <1>13 DEF StorageCreateFails, CreateFails, StReturn, Goto, memVars
  <2>. QED  BY <1>0, <2>1 DEF Handover, IsEmpty
<1>14. CASE UNCHANGED vars
  BY <1>1, <1>14, SMTT(30) DEF vars, ctlVars
<1>. QED  BY <1>3, <1>4, <1>5, <1>6, <1>7, <1>8, <1>9, <1>10, <1>11, <1>12, <1>13, <1>14, SMTT(30)
          DEF Next, MainStep, Fault

-----------------------------------------------------------------------------
(***************************************************************************)
(* What a step does to the tables while the engine is up.                  *)
(***************************************************************************)
LEMMA UpStorage ==
  ASSUME BaseInv, [Next]_vars, pc[Main] = "up", pc'[Main] = "up"
  PROVE  \/ UNCHANGED storageVars
         \/ StorageFlush(memtable) \/ CreateFails(memtable)
         \/ StorageStep(memtable) \/ StorageFails
<1>. USE EngineAssumption
<1>0. pc \in [Thread -> ClientPC \cup MainPC] /\ Main \in Thread
  BY DEF BaseInv, TypeOK, CtlTypeOK, Thread
<1>1. CASE \E c \in Client : CallStep(c) \/ ClientStep(c) \/ GetFails(c)
  BY <1>1, ZenonT(30) DEF CallStep, CallGet, CallPut, CallDelete, CallFlush, CallWrite, Call, ClientStep,
              MemGet, SstGet, Lock, AppendWal, Apply, AppendFailed, ReturnClient, GetFails
<1>2. CASE \E t \in Thread : FlushStep(t) \/ StorageCreateFails(t)
  BY <1>2, Zenon DEF FlushStep, FlushStart, Clear, FlushFailed, TruncateWal, Truncated,
              StorageCreateFails
<1>3. CASE LogStep \/ TableStep \/ WalFails \/ StorageFlushFails
  BY <1>3 DEF LogStep, TableStep, WalFails, StorageFlushFails
<1>4. CASE Open \/ MainStep
  BY <1>4, Zenon DEF Open, MainStep, Load, Loaded, Replay, Replayed, Reset, OpenFailed,
              CloseFlushed, CloseSynced, Dropped
<1>5. CASE Close \/ Drop
  BY <1>5, Zenon DEF Close, Drop
<1>6. CASE Kill \/ LosePower \/ OpenFails
  BY <1>0, <1>6 DEF Kill, LosePower, OpenFails, Memoryless
<1>7. CASE UNCHANGED vars
  BY <1>7, ZenonT(40) DEF vars
<1>. QED  BY <1>1, <1>2, <1>3, <1>4, <1>5, <1>6, <1>7, ZenonT(40) DEF Next, Fault

\* While the engine is up, only a write that is applied and the clear of a
\* flush change the memtable or the contents.
LEMMA UpMemory ==
  ASSUME BaseInv, [Next]_vars, pc[Main] = "up", pc'[Main] = "up"
  PROVE  \/ \E c \in Client : Apply(c)
         \/ \E t \in Thread : Clear(t)
         \/ UNCHANGED <<memtable, store>>
<1>. USE EngineAssumption
<1>0. pc \in [Thread -> ClientPC \cup MainPC] /\ Main \in Thread
  BY DEF BaseInv, TypeOK, CtlTypeOK, Thread
<1>1. ASSUME NEW c \in Client, CallStep(c) \/ ClientStep(c) \/ GetFails(c), ~Apply(c)
      PROVE  UNCHANGED <<memtable, store>>
  BY <1>1, Zenon DEF CallStep, CallGet, CallPut, CallDelete, CallFlush, CallWrite, Call, ClientStep,
              MemGet, SstGet, Lock, AppendWal, AppendFailed, ReturnClient, GetFails, memVars,
              histVars
<1>2. ASSUME NEW t \in Thread, FlushStep(t) \/ StorageCreateFails(t), ~Clear(t)
      PROVE  UNCHANGED <<memtable, store>>
  BY <1>2, Zenon DEF FlushStep, FlushStart, FlushFailed, TruncateWal, Truncated,
              StorageCreateFails, memVars, histVars
<1>3. CASE LogStep \/ TableStep \/ WalFails \/ StorageFlushFails
  BY <1>3, Zenon DEF LogStep, TableStep, WalFails, StorageFlushFails, memVars, histVars
<1>4. CASE Open \/ MainStep
  BY <1>4, Zenon DEF Open, MainStep, Load, Loaded, Replay, Replayed, Reset, OpenFailed,
              CloseFlushed, CloseSynced, Dropped
<1>5. CASE Close \/ Drop
  BY <1>5, Zenon DEF Close, Drop, memVars, histVars
<1>6. CASE Kill \/ LosePower \/ OpenFails
  BY <1>0, <1>6, SMTT(30) DEF Kill, LosePower, OpenFails, Memoryless
<1>7. CASE UNCHANGED vars
  BY <1>7 DEF vars, memVars, histVars
<1>. QED  BY <1>1, <1>2, <1>3, <1>4, <1>5, <1>6, <1>7 DEF Next, Fault

\* A search after the step finds what one before it would have found, or the
\* entry of the memtable that a published table now holds.
LEMMA SearchStep ==
  ASSUME BaseInv, Handover, BaseInv', [Next]_vars, pc[Main] = "up", pc'[Main] = "up",
         NEW k \in Key, NEW s, StorageGet(k, s)'
  PROVE  StorageGet(k, s) \/ (memtable[k] # Absent /\ s = memtable[k])
<1>1. /\ sstables \in Seq(Nat) /\ next_sstable_id \in Nat \ {0} /\ Building \in Nat
      /\ StorageTypeOK /\ memtable \in Table
      /\ {"complete", "synced", "partial"} \subseteq FileState
      /\ EmptyTable \in Table
  BY DEF BaseInv, TypeOK, StorageTypeOK, MemTypeOK, Building, FileState, EmptyTable, Table,
         Slot
<1>2. \A n \in DOMAIN sstables : /\ sstables[n] \in DOMAIN sst_files
                                 /\ sstables[n] < next_sstable_id
                                 /\ st_pc # "idle" => sstables[n] < Building
  BY Zenon DEF BaseInv, Lists, NewestFirst, Opened
<1>3. ASSUME UNCHANGED sstables,
             \A n \in DOMAIN sstables : sst_files'[sstables[n]] = sst_files[sstables[n]]
      PROVE  StorageGet(k, s)
  <2>1. Search(sst_files', sstables, k, s)
    BY <1>3, SearchIs
  <2>2. Search(sst_files, sstables, k, s)
    <3>1. \A n \in DOMAIN sstables : \A m \in 1..(n - 1) : m \in DOMAIN sstables
      BY <1>1
    <3>2. \A n \in DOMAIN sstables : sst_files'[sstables[n]].data[k] = sst_files[sstables[n]].data[k]
      BY <1>3
    <3>3. \A n \in DOMAIN sstables :
            Has(sst_files', sstables, k, n) <=> Has(sst_files, sstables, k, n)
      BY <3>2 DEF Has
    <3>. QED  BY <2>1, <3>1, <3>2, <3>3 DEF Search
  <2>. QED  BY <2>2, SearchIs
<1>4. CASE UNCHANGED <<sst_files, sstables>>
  BY <1>3, <1>4
<1>5. ASSUME NEW i \in {Building, next_sstable_id}, NEW x \in FileState, NEW d \in Table,
             i = Building => st_pc # "idle",
             SetFile(i, x, d), UNCHANGED sstables
      PROVE  StorageGet(k, s)
  <2>1. \A n \in DOMAIN sstables : sstables[n] # i /\ sstables[n] \in DOMAIN sst_files
    BY <1>1, <1>2, <1>5
  <2>2. \A j \in DOMAIN sst_files \ {i} : sst_files'[j] = sst_files[j]
    BY <1>1, <1>5, SetFileTypes, Zenon
  <2>. QED  BY <1>3, <1>5, <2>1, <2>2
<1>6. CASE Publish
  <2>1. sst_files[Building].data = memtable
    BY <1>6 DEF Handover, Publish
  <2>2. Search(sst_files, <<Building>> \o sstables, k, s)
    BY <1>6, SearchIs DEF Publish
  <2>3. IF sst_files[Building].data[k] # Absent THEN s = sst_files[Building].data[k]
                                                 ELSE Search(sst_files, sstables, k, s)
    BY <1>1, <2>2, SearchPublish, SMTT(30)
  <2>. QED  BY <2>1, <2>3, SearchIs
<1>7. CASE StorageFlush(memtable) \/ CreateFails(memtable)
  <2>1. \/ UNCHANGED <<sst_files, sstables>>
        \/ SetFile(next_sstable_id, "partial", EmptyTable) /\ UNCHANGED sstables
    BY <1>7 DEF StorageFlush, CreateFails, BuilderNew
  <2>2. next_sstable_id # Building
    BY <1>1 DEF Building
  <2>. QED  BY <1>1, <1>4, <1>5, <2>1, <2>2
<1>8. CASE BuilderFinish(memtable)
  BY <1>1, <1>5, <1>8 DEF BuilderFinish
<1>9. CASE BuilderSync
  <2>1. sst_files[Building].data = memtable
    BY <1>9 DEF Handover, BuilderSync
  <2>. QED  BY <1>1, <1>5, <1>9, <2>1 DEF BuilderSync
<1>10. CASE StorageFails
  BY <1>4, <1>10 DEF StorageFails
<1>. QED  BY <1>4, <1>6, <1>7, <1>8, <1>9, <1>10, UpStorage DEF StorageStep, storageVars
=============================================================================

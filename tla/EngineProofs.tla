--------------------------- MODULE EngineProofs -----------------------------
(***************************************************************************)
(* The write lock excludes and the list of readers is in order,            *)
(* for every set of keys, values and clients, every sync strategy and size *)
(* limit, and any number of crashes and failed system calls.               *)
(***************************************************************************)
EXTENDS TypeProofs

-----------------------------------------------------------------------------
(***************************************************************************)
(* Exclusion is preserved.  A client outside the critical labels, and one  *)
(* that moves within them, leave it alone; Lock finds the lock free, so    *)
(* nobody else is critical; a thread at "storage" stays there while the    *)
(* storage manager is at work.                                             *)
(***************************************************************************)
LEMMA ExclusionStep ==
  ASSUME TypeOK, Exclusion, [Next]_vars
  PROVE  Exclusion'
<1>. USE EngineAssumption DEF TypeOK, CtlTypeOK, Exclusion, Critical, Thread
<1>1. ASSUME NEW c \in Client, CallStep(c)
      PROVE  Exclusion'
  <2>1. /\ pc[Main] = "up" /\ pc[c] = "idle" /\ UNCHANGED <<write_lock, st_pc>>
        /\ \E l \in {"memget", "lock"} : pc' = [pc EXCEPT ![c] = l]
    BY <1>1 DEF CallStep, CallGet, CallPut, CallDelete, CallFlush, CallWrite, Call, Goto,
                storageVars
  <2>. QED  BY <2>1
<1>2. ASSUME NEW c \in Client, ClientStep(c)
      PROVE  Exclusion'
  <2>1. CASE MemGet(c) \/ SstGet(c)
    <3>1. /\ pc[c] \in {"memget", "sstget"} /\ UNCHANGED <<write_lock, st_pc>>
          /\ \E l \in {"sstget", "return"} : pc' = [pc EXCEPT ![c] = l]
      BY <2>1 DEF MemGet, SstGet, Goto, storageVars
    <3>. QED  BY <3>1
  <2>2. CASE Lock(c)
    <3>1. /\ pc[c] = "lock" /\ write_lock = Free /\ write_lock' = c /\ UNCHANGED st_pc
          /\ \E l \in {"flush", "append"} : pc' = [pc EXCEPT ![c] = l]
      BY <2>2, Zenon DEF Lock, Goto, storageVars
    <3>. QED  BY <3>1
  <2>3. CASE AppendWal(c) \/ Apply(c) \/ AppendFailed(c)
    <3>1. /\ pc[c] \in {"append", "appending"} /\ UNCHANGED <<write_lock, st_pc>>
          /\ \E l \in {"appending", "flush", "return"} : pc' = [pc EXCEPT ![c] = l]
      BY <2>3 DEF AppendWal, Apply, AppendFailed, Goto, storageVars
    <3>. QED  BY <3>1
  <2>4. CASE ReturnClient(c)
    <3>1. /\ pc[c] = "return" /\ UNCHANGED st_pc
          /\ write_lock' = IF write_lock = c THEN Free ELSE write_lock
          /\ pc' = [pc EXCEPT ![c] = "idle"]
      BY <2>4 DEF ReturnClient, Goto, storageVars
    <3>. QED  BY <3>1
  <2>. QED  BY <1>2, <2>1, <2>2, <2>3, <2>4 DEF ClientStep
<1>3. ASSUME NEW t \in Thread, FlushStep(t)
      PROVE  Exclusion'
  <2>1. CASE FlushStart(t)
    <3>1. /\ pc[t] = "flush" /\ UNCHANGED write_lock
          /\ \/ pc' = [pc EXCEPT ![t] = "return"] /\ UNCHANGED st_pc
             \/ pc' = [pc EXCEPT ![t] = "storage"]
      BY <2>1 DEF FlushStart, Goto, storageVars
    <3>. QED  BY <3>1
  <2>2. CASE Clear(t) \/ FlushFailed(t)
    <3>1. /\ pc[t] = "storage" /\ st_pc = "idle" /\ UNCHANGED <<write_lock, st_pc>>
          /\ \E l \in {"reset", "truncate", "return"} : pc' = [pc EXCEPT ![t] = l]
      BY <2>2 DEF Clear, FlushFailed, Goto, storageVars
    <3>. QED  BY <3>1
  <2>3. CASE TruncateWal(t) \/ Truncated(t)
    <3>1. /\ pc[t] \in {"truncate", "truncating"} /\ UNCHANGED <<write_lock, st_pc>>
          /\ \E l \in {"truncating", "return"} : pc' = [pc EXCEPT ![t] = l]
      BY <2>3 DEF TruncateWal, Truncated, Goto, storageVars
    <3>. QED  BY <3>1
  <2>. QED  BY <1>3, <2>1, <2>2, <2>3 DEF FlushStep
<1>4. CASE LogStep \/ WalFails \/ Load
  BY <1>4 DEF LogStep, WalFails, Load, OpenReader, ctlVars, storageVars
<1>5. CASE TableStep \/ StorageFlushFails
  <2>1. UNCHANGED ctlVars /\ st_pc # "idle"
    BY <1>5 DEF TableStep, StorageFlushFails, StorageStep, BuilderFinish, BuilderSync,
                Publish, StorageFails
  <2>. QED  BY <2>1 DEF ctlVars
<1>6. CASE Open \/ Loaded \/ Replay \/ Reset
  <2>1. /\ pc[Main] \in {"down", "load", "replay", "reset"} /\ UNCHANGED <<write_lock, st_pc>>
        /\ pc' = pc \/ \E l \in MainPC : pc' = [pc EXCEPT ![Main] = l]
    BY <1>6 DEF Open, Loaded, Replay, Reset, OpenStart, Goto, storageVars, MainPC
  <2>. QED  BY <2>1
<1>7. CASE Replayed
  <2>1. /\ pc[Main] = "replay" /\ UNCHANGED write_lock
        /\ \/ pc' = [pc EXCEPT ![Main] = "reset"] /\ UNCHANGED st_pc
           \/ pc' = [pc EXCEPT ![Main] = "storage"]
    BY <1>7 DEF Replayed, Goto, storageVars
  <2>. QED  BY <2>1
<1>8. CASE Close \/ CloseFlushed \/ CloseSynced \/ Drop
  <2>1. /\ pc[Main] \in {"up", "return", "syncing"} /\ UNCHANGED st_pc
        /\ \A c \in Client : pc[c] = "idle"
        /\ \E l \in {"syncing", "flush", "dropping"} : pc' = [pc EXCEPT ![Main] = l]
    BY <1>8 DEF Close, CloseFlushed, CloseSynced, Drop, Alone, Goto, storageVars
  <2>. QED  BY <2>1
<1>9. CASE OpenFailed \/ Dropped \/ Kill \/ LosePower \/ OpenFails
  <2>1. \E r : Memoryless(r) /\ st_pc' = "idle"
    BY <1>9 DEF OpenFailed, Dropped, Kill, LosePower, OpenFails, StorageKilled,
                StoragePowerLost
  <2>. QED  BY <2>1 DEF Memoryless
<1>10. ASSUME NEW t \in Thread, StorageCreateFails(t)
       PROVE  Exclusion'
  <2>1. /\ pc[t] \in {"flush", "replay"} /\ UNCHANGED write_lock
        /\ pc[t] = "replay" => t = Main
        /\ pc' = [pc EXCEPT ![t] = "storage"]
    BY <1>10 DEF StorageCreateFails, Goto
  <2>. QED  BY <2>1
<1>11. ASSUME NEW c \in Client, GetFails(c)
       PROVE  Exclusion'
  <2>1. /\ pc[c] = "sstget" /\ UNCHANGED <<write_lock, st_pc>>
        /\ pc' = [pc EXCEPT ![c] = "return"]
    BY <1>11 DEF GetFails, Goto, storageVars
  <2>. QED  BY <2>1
<1>12. CASE UNCHANGED vars
  BY <1>12 DEF vars, ctlVars, storageVars
<1>. QED  BY <1>1, <1>2, <1>3, <1>4, <1>5, <1>6, <1>7, <1>8, <1>9, <1>10, <1>11, <1>12, ZenonT(40)
          DEF Next, MainStep, Fault

-----------------------------------------------------------------------------
(***************************************************************************)
(* Lists is preserved.                                                     *)
(***************************************************************************)
Loading == pc[Main] \in {"down", "load"}

\* A flush begins: the new id is above every id on disk.
LEMMA FlushLists ==
  ASSUME TypeOK, Lists, ~Loading, ~Loading', st_pc = "idle",
         StorageFlush(memtable) \/ CreateFails(memtable)
  PROVE  Lists'
<1>. USE DEF TypeOK, Loading
<1>1. next_sstable_id \in Nat /\ sstables \in Seq(Nat) /\ DOMAIN sst_files \subseteq Nat
  BY DEF StorageTypeOK
<1>2. /\ sstables' = sstables
      /\ next_sstable_id' \in {next_sstable_id, next_sstable_id + 1}
      /\ DOMAIN sst_files \subseteq DOMAIN sst_files'
      /\ \A i \in DOMAIN sst_files' : i < next_sstable_id'
      /\ st_pc' # "idle" => next_sstable_id' = next_sstable_id + 1
  BY <1>1 DEF Lists, NewestFirst, StorageFlush, CreateFails, BuilderNew, SetFile, StReturn
<1>3. \A n \in DOMAIN sstables : sstables[n] < next_sstable_id
  BY DEF Lists, NewestFirst, Opened
<1>4. Opened' \subseteq DOMAIN sst_files'
  BY <1>2 DEF Lists, Opened
<1>5. NewestFirst'
  BY <1>2 DEF Lists, NewestFirst
<1>6. st_pc' # "idle" => \A n \in DOMAIN sstables' : sstables'[n] < Building'
  BY <1>1, <1>2, <1>3 DEF Building
<1>. QED  BY <1>4, <1>5, <1>6 DEF Lists

\* The steps of a flush: the table that is published is the newest.
LEMMA BuildLists ==
  ASSUME TypeOK, Lists, ~Loading, ~Loading', StorageStep(memtable) \/ StorageFails
  PROVE  Lists'
<1>. USE DEF TypeOK, Loading
<1>1. /\ next_sstable_id \in Nat \ {0} /\ sstables \in Seq(Nat) /\ Building \in Nat
      /\ DOMAIN sst_files \subseteq Nat /\ st_pc # "idle" /\ Building \in DOMAIN sst_files
  BY DEF StorageTypeOK, StorageStep, BuilderFinish, BuilderSync, Publish, StorageFails,
         Building
<1>2. UNCHANGED next_sstable_id /\ DOMAIN sst_files' = DOMAIN sst_files
  BY <1>1, Zenon DEF StorageStep, BuilderFinish, BuilderSync, Publish, StorageFails, SetFile
<1>3. CASE UNCHANGED sstables
  BY <1>1, <1>2, <1>3 DEF Lists, NewestFirst, Opened, Building
<1>4. CASE Publish
  <2>1. /\ sstables' \in Seq(Nat) /\ Len(sstables') = Len(sstables) + 1
        /\ sstables'[1] = Building
        /\ \A n \in DOMAIN sstables' : n # 1 => /\ n - 1 \in DOMAIN sstables
                                                /\ sstables'[n] = sstables[n - 1]
    BY <1>1, <1>4 DEF Publish
  <2>2. Opened' \subseteq DOMAIN sst_files'
    BY <1>1, <1>2, <2>1, Zenon DEF Lists, Opened
  <2>3. \A m, n \in DOMAIN sstables' : m < n => sstables'[m] > sstables'[n]
    <3>. SUFFICES ASSUME NEW m \in DOMAIN sstables', NEW n \in DOMAIN sstables', m < n
                  PROVE  sstables'[m] > sstables'[n]
      OBVIOUS
    <3>1. n # 1 /\ m \in Nat /\ n \in Nat
      BY <2>1
    <3>2. CASE m = 1
      BY <1>1, <2>1, <3>1, <3>2 DEF Lists
    <3>3. CASE m # 1
      BY <1>1, <2>1, <3>1, <3>3 DEF Lists, NewestFirst
    <3>. QED  BY <3>2, <3>3
  <2>4. st_pc' = "idle"
    BY <1>4 DEF Publish, StReturn
  <2>. QED  BY <1>2, <2>2, <2>3, <2>4 DEF Lists, NewestFirst
<1>. QED  BY <1>3, <1>4 DEF StorageStep, BuilderFinish, BuilderSync, StorageFails

\* The loading of a file: the highest id that is left goes to the end.
LEMMA LoadLists ==
  ASSUME TypeOK, Lists, Load, st_pc = "idle"
  PROVE  Lists'
<1>. USE DEF TypeOK
<1>1. PICK i \in DOMAIN sst_files : OpenReader(i)
  BY DEF Load
<1>2. /\ next_sstable_id \in Nat \ {0} /\ sstables \in Seq(Nat) /\ i \in Nat
      /\ DOMAIN sst_files \subseteq Nat /\ pc[Main] = "load" /\ pc' = pc
  BY DEF StorageTypeOK, Load, ctlVars
<1>3. /\ i \in DOMAIN sst_files \ Opened
      /\ \A j \in DOMAIN sst_files \ Opened : j <= i
      /\ UNCHANGED <<sst_files, st_pc>>
      /\ next_sstable_id' = IF sstables = <<>> THEN i + 1 ELSE next_sstable_id
  BY <1>1 DEF OpenReader, OpensNext
<1>4. /\ sstables' \in Seq(Nat) /\ sstables' # <<>>
      /\ \A n \in DOMAIN sstables' :
           \/ n = Len(sstables') /\ sstables'[n] = i
           \/ n \in DOMAIN sstables /\ n < Len(sstables') /\ sstables'[n] = sstables[n]
      /\ \A n \in DOMAIN sstables : n \in DOMAIN sstables' /\ sstables'[n] = sstables[n]
      /\ Len(sstables') \in DOMAIN sstables' /\ sstables'[Len(sstables')] = i
  BY <1>1, <1>2 DEF OpenReader
<1>5. Opened' = Opened \cup {i}
  BY <1>4 DEF Opened
<1>6. /\ \A m, n \in DOMAIN sstables : m < n => sstables[m] > sstables[n]
      /\ \A n \in DOMAIN sstables, j \in DOMAIN sst_files \ Opened : j < sstables[n]
  BY <1>2 DEF Lists, NewestFirst
<1>7. \A m, n \in DOMAIN sstables' : m < n => sstables'[m] > sstables'[n]
  <2>. SUFFICES ASSUME NEW m \in DOMAIN sstables', NEW n \in DOMAIN sstables', m < n
                PROVE  sstables'[m] > sstables'[n]
    OBVIOUS
  <2>1. /\ m \in DOMAIN sstables /\ sstables'[m] = sstables[m] /\ sstables[m] \in Nat
    BY <1>2, <1>4
  <2>2. CASE n = Len(sstables') /\ sstables'[n] = i
    BY <1>2, <1>3, <1>6, <2>1, <2>2
  <2>3. CASE n \in DOMAIN sstables /\ sstables'[n] = sstables[n]
    BY <1>6, <2>1, <2>3
  <2>. QED  BY <1>4, <2>2, <2>3
<1>8. \A n \in DOMAIN sstables', j \in DOMAIN sst_files' \ Opened' : j < sstables'[n]
  <2>. SUFFICES ASSUME NEW n \in DOMAIN sstables', NEW j \in DOMAIN sst_files' \ Opened'
                PROVE  j < sstables'[n]
    OBVIOUS
  <2>1. j \in DOMAIN sst_files \ Opened /\ j # i /\ j <= i /\ j \in Nat
    BY <1>2, <1>3, <1>5
  <2>. QED  BY <1>2, <1>4, <1>6, <2>1, SMTT(30)
<1>9. \A j \in DOMAIN sst_files' : j < next_sstable_id'
  <2>1. CASE sstables = <<>>
    <3>1. Opened = {}
      BY <2>1 DEF Opened
    <3>. QED  BY <1>2, <1>3, <2>1, <3>1
  <2>2. CASE sstables # <<>>
    BY <1>2, <1>3, <2>2 DEF Lists
  <2>. QED  BY <2>1, <2>2
<1>. QED  BY <1>2, <1>3, <1>5, <1>7, <1>8, <1>9 DEF Lists, NewestFirst

\* Every step of the engine preserves Lists.
LEMMA ListsStep ==
  ASSUME TypeOK, Exclusion, Lists, [Next]_vars
  PROVE  Lists'
<1>. USE EngineAssumption DEF Loading
<1>0. /\ \A c \in Client : pc[c] # "idle" => pc[Main] = "up"
      /\ st_pc # "idle" => ~Loading
      /\ pc \in [Thread -> ClientPC \cup MainPC] /\ Main \in Thread /\ Main \notin Client
  <2>1. \A c \in Client : pc[c] # "idle" => pc[Main] = "up"
    BY DEF Exclusion
  <2>. QED  BY <2>1 DEF Exclusion, TypeOK, CtlTypeOK, Thread
<1>1. ASSUME UNCHANGED storageVars,
             pc'[Main] = pc[Main] \/ (~Loading /\ ~Loading')
      PROVE  Lists'
  BY <1>1 DEF Lists, NewestFirst, Opened, Building, storageVars
<1>2. ASSUME NEW c \in Client, CallStep(c) \/ ClientStep(c) \/ GetFails(c)
      PROVE  Lists'
  <2>1. UNCHANGED storageVars /\ \E l : pc' = [pc EXCEPT ![c] = l]
    BY <1>2, Zenon DEF CallStep, CallGet, CallPut, CallDelete, CallFlush, CallWrite, Call, Goto,
                ClientStep, MemGet, SstGet, Lock, AppendWal, Apply, AppendFailed,
                ReturnClient, GetFails
  <2>. QED  BY <1>0, <1>1, <2>1
<1>3. ASSUME NEW t \in Thread, FlushStep(t)
      PROVE  Lists'
  <2>1. /\ ~Loading
        /\ \E l \in FlushPC \cup {"reset"} : pc' = [pc EXCEPT ![t] = l]
    BY <1>0, <1>3 DEF FlushStep, FlushStart, Clear, FlushFailed, TruncateWal, Truncated,
                      Goto, FlushPC, Thread
  <2>2. ~Loading'
    BY <1>0, <2>1 DEF FlushPC
  <2>3. CASE UNCHANGED storageVars
    BY <1>1, <2>1, <2>2, <2>3
  <2>4. CASE StorageFlush(memtable)
    BY <2>1, <2>2, <2>4, FlushLists DEF StorageFlush
  <2>. QED  BY <1>3, <2>3, <2>4, ZenonT(30) DEF FlushStep, FlushStart, Clear, FlushFailed, TruncateWal,
                                    Truncated
<1>4. CASE LogStep \/ WalFails
  BY <1>1, <1>4 DEF LogStep, WalFails, ctlVars
<1>5. CASE TableStep \/ StorageFlushFails
  <2>1. /\ StorageStep(memtable) \/ StorageFails
        /\ st_pc # "idle" /\ pc' = pc
    BY <1>5, SMTT(30) DEF TableStep, StorageFlushFails, StorageStep, StorageFails, BuilderFinish,
                BuilderSync, Publish, ctlVars
  <2>. QED  BY <1>0, <2>1, BuildLists
<1>6. CASE Open
  <2>1. /\ sstables' = <<>> /\ UNCHANGED <<sst_files, st_pc>> /\ st_pc = "idle"
        /\ pc'[Main] = "load"
    BY <1>0, <1>6 DEF Open, OpenStart, Goto
  <2>2. DOMAIN sstables' = {}
    BY <2>1
  <2>3. Opened' = {}
    BY <2>2 DEF Opened
  <2>4. NewestFirst'
    BY <2>1, <2>2 DEF NewestFirst
  <2>. QED  BY <2>1, <2>2, <2>3, <2>4 DEF Lists
<1>7. CASE Load
  BY <1>0, <1>7, LoadLists DEF Load
<1>8. CASE Loaded
  <2>1. /\ UNCHANGED storageVars /\ DOMAIN sst_files \subseteq Opened /\ st_pc = "idle"
        /\ pc[Main] = "load" /\ pc'[Main] = "replay"
    BY <1>0, <1>8 DEF Loaded, OpenDone, Goto
  <2>2. CASE sstables = <<>>
    <3>0. Opened = {}
      BY <2>2 DEF Opened
    <3>1. DOMAIN sst_files = {}
      BY <2>1, <3>0
    <3>. QED  BY <2>1, <2>2, <3>1 DEF Lists, NewestFirst, Opened, storageVars
  <2>3. CASE sstables # <<>>
    BY <2>1, <2>3 DEF Lists, NewestFirst, Opened, storageVars
  <2>. QED  BY <2>2, <2>3
<1>9. CASE Replay \/ Reset \/ Close \/ CloseFlushed \/ CloseSynced \/ Drop
  <2>1. UNCHANGED storageVars /\ ~Loading
    BY <1>9, ZenonT(30) DEF Replay, Reset, Close, CloseFlushed, CloseSynced, Drop, Alone
  <2>2. \/ pc' = pc
        \/ \E l \in {"up", "syncing", "flush", "dropping"} : pc' = [pc EXCEPT ![Main] = l]
    BY <1>9 DEF Replay, Reset, Close, CloseFlushed, CloseSynced, Drop, Goto
  <2>. QED  BY <1>0, <1>1, <2>1, <2>2
<1>10. CASE Replayed
  <2>1. /\ ~Loading /\ \E l \in {"reset", "storage"} : pc' = [pc EXCEPT ![Main] = l]
        /\ UNCHANGED storageVars \/ StorageFlush(memtable)
    BY <1>10 DEF Replayed, Goto
  <2>2. ~Loading'
    BY <1>0, <2>1
  <2>3. CASE UNCHANGED storageVars
    BY <1>1, <2>1, <2>2, <2>3
  <2>4. CASE StorageFlush(memtable)
    BY <2>1, <2>2, <2>4, FlushLists DEF StorageFlush
  <2>. QED  BY <2>1, <2>3, <2>4
<1>11. CASE OpenFailed \/ Dropped \/ Kill \/ LosePower \/ OpenFails
  <2>1. sstables' = <<>> /\ st_pc' = "idle" /\ pc'[Main] = "down"
    BY <1>0, <1>11 DEF OpenFailed, Dropped, Kill, LosePower, OpenFails, Memoryless,
                       StorageKilled, StoragePowerLost
  <2>. QED  BY <2>1 DEF Lists, NewestFirst, Opened
<1>12. ASSUME NEW t \in Thread, StorageCreateFails(t)
       PROVE  Lists'
  <2>1. /\ ~Loading /\ pc' = [pc EXCEPT ![t] = "storage"]
        /\ CreateFails(memtable) /\ st_pc = "idle"
    BY <1>0, <1>12 DEF StorageCreateFails, CreateFails, Goto, Thread
  <2>2. ~Loading'
    BY <1>0, <2>1
  <2>. QED  BY <2>1, <2>2, FlushLists
<1>13. CASE UNCHANGED vars
  BY <1>1, <1>13 DEF vars, ctlVars
<1>. QED  BY <1>2, <1>3, <1>4, <1>5, <1>6, <1>7, <1>8, <1>9, <1>10, <1>11, <1>12, <1>13
          DEF Next, MainStep, Fault

-----------------------------------------------------------------------------
(***************************************************************************)
(* The inductive invariant of this module, and what follows from it.       *)
(***************************************************************************)
BaseInv == TypeOK /\ Exclusion /\ Lists

\* The engine starts with nothing loaded and nobody in a call.
LEMMA BaseInit == Init => BaseInv
<1>. SUFFICES ASSUME Init PROVE BaseInv
  OBVIOUS
<1>1. TypeOK
  BY InitTypes
<1>2. Exclusion
  BY EngineAssumption DEF Init, Exclusion, StorageInit, Thread, Critical
<1>3. Lists
  BY DEF Init, StorageInit, Lists, NewestFirst, Opened, Thread
<1>. QED  BY <1>1, <1>2, <1>3 DEF BaseInv

\* Every step preserves the three parts together.
LEMMA BaseStep ==
  ASSUME BaseInv, [Next]_vars
  PROVE  BaseInv'
<1>1. pc[Main] \in {"down", "load"} => st_pc = "idle"
  BY EngineAssumption DEF BaseInv, Exclusion, Thread
<1>. QED  BY <1>1, NextTypes, ExclusionStep, ListsStep DEF BaseInv

\* BaseInv holds in every reachable state of the engine.
THEOREM BaseInvariant == Spec => []BaseInv
BY BaseInit, BaseStep, PTL DEF Spec

(***************************************************************************)
(* Every variable keeps its type, for every set of keys, values, clients,  *)
(* every sync strategy, and any number of crashes and failed calls.        *)
(***************************************************************************)
THEOREM TypeCorrect == Spec => []TypeOK
<1>1. BaseInv => TypeOK
  BY DEF BaseInv
<1>. QED  BY <1>1, BaseInvariant, PTL

(***************************************************************************)
(* StorageManager keeps its readers newest first and never gives out the   *)
(* id of a file that is on disk: a flush overwrites no table, and get()    *)
(* meets the newest entry of a key first, also after failed flushes and    *)
(* crashes that leave files without a reader.                              *)
(***************************************************************************)
THEOREM TablesOrdered == Spec => []NewestFirst
<1>1. BaseInv => NewestFirst
  BY DEF BaseInv, Lists
<1>. QED  BY <1>1, BaseInvariant, PTL
=============================================================================

---------------------------- MODULE TypeProofs ------------------------------
(***************************************************************************)
(* The engine keeps the types of its variables and of its components, the  *)
(* log, the memtable and the storage manager, for every set of keys,       *)
(* values and clients, every sync strategy and size limit, and any number  *)
(* of crashes and failed system calls.                                     *)
(***************************************************************************)
EXTENDS EngineProperties, TLAPS

-----------------------------------------------------------------------------
(***************************************************************************)
(* The steps of the log keep its types.                                    *)
(***************************************************************************)
LEMMA LogFacts ==
  /\ <<>> \in Log
  /\ \A f \in Log : Append(f, Torn) \in Log
  /\ \A f \in Log, r \in Record : Append(f, r) \in Log
<1>. DEFINE R == Record \cup {Torn}
<1>1. <<>> \in Seq(R) /\ \A f \in Seq(R), r \in R : Append(f, r) \in Seq(R)
  <2>. HIDE DEF R
  <2>. QED  OBVIOUS
<1>. QED  BY <1>1 DEF Log

\* WalWriter::append keeps the types of the log.
LEMMA WalAppendTypes ==
  ASSUME WalTypeOK, NEW k \in Key, NEW e \in Entry, WalAppend(k, e)
  PROVE  WalTypeOK'
<1>. DEFINE r == NewEntry(k, e)
<1>1. r \in Record
  BY DEF WalTypeOK, Record, NewEntry
<1>2. CASE buffer' = Append(buffer, r) /\ Counted /\ UNCHANGED pending
  <2>. HIDE DEF r
  <2>. QED  BY <1>1, <1>2 DEF WalTypeOK, WalAppend, Counted, WalReturn
<1>3. CASE /\ pending' = <<r>> /\ wal_pc' = "spill"
           /\ UNCHANGED <<buffer, uncommitted_count, wal_res>>
  <2>. HIDE DEF r
  <2>. QED  BY <1>1, <1>3 DEF WalTypeOK, WalAppend
<1>. QED  BY <1>2, <1>3 DEF WalAppend

\* So does every step of a call of the writer.
LEMMA WalStepTypes ==
  ASSUME WalTypeOK, WalStep
  PROVE  WalTypeOK'
<1>1. CASE WalPlace
  <2>1. pending[1] \in Record
    BY <1>1 DEF WalTypeOK, WalPlace
  <2>2. (buffer \in Seq(Record) /\ wal_file \in Log /\ durable \in SUBSET Log)'
    <3>. DEFINE r == pending[1]
    <3>. HIDE DEF r
    <3>1. CASE buffer' = <<r>> /\ UNCHANGED <<parts, wal_file, durable>>
      BY <2>1, <3>1 DEF WalTypeOK, r
    <3>2. CASE /\ wal_file' = Append(wal_file, r) /\ UNCHANGED buffer
               /\ durable' = durable \cup {Append(wal_file, Torn), wal_file'}
      BY <2>1, <3>2, LogFacts, Zenon DEF WalTypeOK, r
    <3>. QED  BY <1>1, <3>1, <3>2 DEF WalPlace, r
  <2>. QED  BY <1>1, <2>2 DEF WalTypeOK, WalPlace, Counted, WalReturn
<1>2. CASE WalWriteOut
  <2>1. Head(buffer) \in Record /\ Tail(buffer) \in Seq(Record)
    BY <1>2 DEF WalTypeOK, WalWriteOut
  <2>. QED  BY <1>2, <2>1, LogFacts, Zenon DEF WalTypeOK, WalWriteOut
<1>3. CASE WalWritePart
  BY <1>3, LogFacts, Zenon DEF WalTypeOK, WalWritePart
<1>4. CASE WalFsync \/ WalSetLen \/ WalDropped
  BY <1>4, LogFacts DEF WalTypeOK, WalFsync, WalSetLen, WalDropped, WalReturn
<1>. QED  BY <1>1, <1>2, <1>3, <1>4 DEF WalStep

\* So does a failed system call.
LEMMA WalFailTypes ==
  ASSUME WalTypeOK, WalFail
  PROVE  WalTypeOK'
<1>1. CASE WalWriteFails
  <2>1. (wal_file \in Log /\ parts \in {0, 1})'
    BY <1>1, LogFacts, Zenon DEF WalTypeOK, WalWriteFails
  <2>2. buffer' \in Seq(Record)
    BY <1>1 DEF WalTypeOK, WalWriteFails
  <2>. QED  BY <1>1, <2>1, <2>2 DEF WalTypeOK, WalWriteFails, WalReturn
<1>2. CASE WalCallFails
  BY <1>2 DEF WalTypeOK, WalCallFails, WalReturn
<1>. QED  BY <1>1, <1>2 DEF WalFail

\* So do the other calls, WalWriter::open and the end of the process.
LEMMA WalOtherTypes ==
  ASSUME WalTypeOK,
         WalSync \/ WalTruncate \/ WalDrop \/ WalOpen \/ WalKilled \/ WalPowerLost
  PROVE  WalTypeOK'
<1>1. CASE WalSync \/ WalTruncate \/ WalDrop
  BY <1>1 DEF WalTypeOK, WalSync, WalTruncate, WalDrop, WalCall
<1>2. CASE WalOpen
  BY <1>2, LogFacts DEF WalTypeOK, WalOpen
<1>3. CASE WalKilled
  BY <1>3, LogFacts DEF WalTypeOK, WalKilled, WalLost, AfterKill
<1>4. CASE WalPowerLost
  BY <1>4 DEF WalTypeOK, WalPowerLost, WalLost
<1>. QED  BY <1>1, <1>2, <1>3, <1>4

-----------------------------------------------------------------------------
(***************************************************************************)
(* The steps of the memtable and of the storage manager keep their types.  *)
(***************************************************************************)
LEMMA MemApplyTypes ==
  ASSUME MemTypeOK, NEW k \in Key, NEW e \in Entry, MemApply(k, e)
  PROVE  MemTypeOK' /\ memtable' = [memtable EXCEPT ![k] = e]
<1>1. OldSize(k) \in Int
  BY LenAssumption DEF MemTypeOK, OldSize, Table, Slot, Entry
<1>2. size' \in Int
  BY <1>1, LenAssumption DEF MemTypeOK, MemApply, MemPut, MemDelete, Entry
<1>3. memtable' = [memtable EXCEPT ![k] = e]
  BY DEF MemApply, MemPut, MemDelete
<1>. QED  BY <1>2, <1>3 DEF MemTypeOK, Table, Slot

\* MemTable::clear leaves an empty table of the right type.
LEMMA MemClearTypes ==
  ASSUME MemClear
  PROVE  MemTypeOK'
BY DEF MemClear, MemTypeOK, EmptyTable, Table, Slot

\* Writing an SSTable file changes that file alone.
LEMMA SetFileTypes ==
  ASSUME StorageTypeOK, NEW i \in Nat, NEW s \in FileState, NEW d \in Table,
         SetFile(i, s, d)
  PROVE  /\ DOMAIN sst_files' = DOMAIN sst_files \cup {i}
         /\ sst_files'[i] = [state |-> s, data |-> d]
         /\ \A j \in DOMAIN sst_files \ {i} : sst_files'[j] = sst_files[j]
         /\ DOMAIN sst_files' \subseteq Nat
         /\ sst_files' \in [DOMAIN sst_files' -> SSTFile]
<1>. DEFINE r == [state |-> s, data |-> d]
<1>1. r \in SSTFile
  BY DEF SSTFile
<1>. HIDE DEF r
<1>2. sst_files' = [j \in DOMAIN sst_files \cup {i} |-> IF j = i THEN r ELSE sst_files[j]]
  BY DEF SetFile, r
<1>3. /\ DOMAIN sst_files' = DOMAIN sst_files \cup {i}
      /\ sst_files'[i] = r
      /\ \A j \in DOMAIN sst_files \ {i} : sst_files'[j] = sst_files[j]
  BY <1>2
<1>4. sst_files' \in [DOMAIN sst_files \cup {i} -> SSTFile]
  BY <1>1, <1>2 DEF StorageTypeOK
<1>. QED  BY <1>3, <1>4 DEF StorageTypeOK, r

\* The start of StorageManager::flush keeps the types of the storage.
LEMMA StorageFlushTypes ==
  ASSUME StorageTypeOK, NEW m \in Table, StorageFlush(m) \/ CreateFails(m)
  PROVE  StorageTypeOK'
<1>1. CASE st_res' = "err" /\ st_pc' = "idle" /\ UNCHANGED <<sst_files, sstables>>
  BY <1>1 DEF StorageTypeOK, StorageFlush, CreateFails, StReturn
<1>2. CASE /\ next_sstable_id' = next_sstable_id + 1 /\ st_pc' = "finish"
           /\ SetFile(next_sstable_id, "partial", EmptyTable)
           /\ UNCHANGED <<st_res, sstables>>
  <2>1. EmptyTable \in Table /\ next_sstable_id \in Nat /\ "partial" \in FileState
    BY DEF EmptyTable, Table, Slot, StorageTypeOK, FileState
  <2>2. /\ DOMAIN sst_files' = DOMAIN sst_files \cup {next_sstable_id}
        /\ DOMAIN sst_files' \subseteq Nat
        /\ sst_files' \in [DOMAIN sst_files' -> SSTFile]
    BY <1>2, <2>1, SetFileTypes, Zenon
  <2>3. next_sstable_id' \in Nat \ {0} /\ Building' = next_sstable_id
    BY <1>2, <2>1 DEF Building
  <2>. QED  BY <1>2, <2>2, <2>3 DEF StorageTypeOK
<1>. QED  BY <1>1, <1>2 DEF StorageFlush, CreateFails, StReturn, BuilderNew

\* So do the steps of the flush, and their failures.
LEMMA StorageStepTypes ==
  ASSUME StorageTypeOK, NEW m \in Table, StorageStep(m) \/ StorageFails
  PROVE  StorageTypeOK'
<1>1. Building \in Nat
  BY DEF Building, StorageTypeOK
<1>2. CASE BuilderFinish(m)
  <2>1. "complete" \in FileState
    BY DEF FileState
  <2>2. /\ DOMAIN sst_files' = DOMAIN sst_files \cup {Building}
        /\ DOMAIN sst_files' \subseteq Nat
        /\ sst_files' \in [DOMAIN sst_files' -> SSTFile]
    BY <1>1, <1>2, <2>1, SetFileTypes, Zenon DEF BuilderFinish
  <2>. QED  BY <1>2, <2>2 DEF StorageTypeOK, BuilderFinish, Building
<1>3. CASE BuilderSync
  <2>1. "synced" \in FileState /\ sst_files[Building].data \in Table
    BY <1>3 DEF FileState, BuilderSync, StorageTypeOK, SSTFile
  <2>2. /\ DOMAIN sst_files' = DOMAIN sst_files \cup {Building}
        /\ DOMAIN sst_files' \subseteq Nat
        /\ sst_files' \in [DOMAIN sst_files' -> SSTFile]
    BY <1>1, <1>3, <2>1, SetFileTypes, Zenon DEF BuilderSync
  <2>. QED  BY <1>3, <2>2 DEF StorageTypeOK, BuilderSync, Building
<1>4. CASE Publish
  <2>1. sstables' \in Seq(Nat)
    BY <1>1, <1>4 DEF Publish, StorageTypeOK
  <2>. QED  BY <1>4, <2>1 DEF Publish, StReturn, StorageTypeOK
<1>5. CASE StorageFails
  BY <1>5 DEF StorageFails, StReturn, StorageTypeOK
<1>. QED  BY <1>2, <1>3, <1>4, <1>5 DEF StorageStep

\* So do StorageManager::open and the end of the process.
LEMMA StorageOtherTypes ==
  ASSUME StorageTypeOK,
         \/ OpenStart \/ StorageKilled \/ StoragePowerLost
         \/ \E i \in DOMAIN sst_files : OpenReader(i),
         st_pc = "idle" \/ st_pc' = "idle"
  PROVE  StorageTypeOK'
<1>1. CASE OpenStart
  BY <1>1 DEF OpenStart, StorageTypeOK
<1>2. CASE StorageKilled
  BY <1>2 DEF StorageKilled, StorageTypeOK
<1>3. ASSUME NEW i \in DOMAIN sst_files, OpenReader(i)
      PROVE  StorageTypeOK'
  <2>1. i \in Nat
    BY DEF StorageTypeOK
  <2>. QED  BY <1>3, <2>1 DEF OpenReader, StorageTypeOK
<1>4. CASE StoragePowerLost
  <2>1. PICK S \in SUBSET DOMAIN sst_files, P \in SUBSET DOMAIN sst_files :
          sst_files' = [i \in S |->
              IF i \in P \/ sst_files[i].state = "partial"
                THEN [state |-> "partial", data |-> EmptyTable]
                ELSE [sst_files[i] EXCEPT !.state = "synced"]]
    BY <1>4, Zenon DEF StoragePowerLost
  <2>2. EmptyTable \in Table
    BY DEF EmptyTable, Table, Slot
  <2>3. \A i \in S : sst_files[i] \in SSTFile
    BY DEF StorageTypeOK
  <2>4. \A i \in S : /\ [state |-> "partial", data |-> EmptyTable] \in SSTFile
                     /\ [sst_files[i] EXCEPT !.state = "synced"] \in SSTFile
    BY <2>2, <2>3 DEF SSTFile, FileState
  <2>5. sst_files' \in [S -> SSTFile]
    BY <2>1, <2>4
  <2>6. DOMAIN sst_files' = S /\ S \subseteq Nat
    BY <2>5 DEF StorageTypeOK
  <2>7. sstables' = <<>> /\ next_sstable_id' = 1 /\ st_pc' = "idle" /\ st_res' = "ok"
    BY <1>4 DEF StoragePowerLost
  <2>8. sstables' \in Seq(Nat) /\ next_sstable_id' \in Nat \ {0}
    BY <2>7
  <2>. QED  BY <2>5, <2>6, <2>7, <2>8 DEF StorageTypeOK
<1>. QED  BY <1>1, <1>2, <1>3, <1>4

-----------------------------------------------------------------------------
(***************************************************************************)
(* Types of the engine.                                                    *)
(***************************************************************************)
LEMMA VisibleType ==
  ASSUME NEW s \in Slot
  PROVE  Visible(s) \in Result
BY DEF Slot, Entry, Visible, Result

\* A put or a delete has a key and an entry.
LEMMA OpTypes ==
  ASSUME TypeOK, NEW t \in Thread
  PROVE  /\ op[t].type = "get" => op[t].key \in Key
         /\ op[t].type \in {"put", "delete"} => /\ op[t].key \in Key
                                                /\ op[t].val \in Entry
BY DEF TypeOK, CtlTypeOK, Operation, NoOp, Entry

\* The initial state has the right types.
LEMMA InitTypes == Init => TypeOK
<1>. SUFFICES ASSUME Init PROVE TypeOK
  OBVIOUS
<1>1. WalTypeOK
  BY LogFacts DEF Init, WalInit, WalTypeOK
<1>2. MemTypeOK
  BY DEF Init, MemInit, MemTypeOK, EmptyTable, Table, Slot
<1>3. StorageTypeOK
  BY DEF Init, StorageInit, StorageTypeOK
<1>4. CtlTypeOK
  BY EngineAssumption DEF Init, CtlTypeOK, Thread, ClientPC, MainPC, Operation, NoOp
<1>5. HistTypeOK
  BY DEF Init, HistTypeOK, Result
<1>. QED  BY <1>1, <1>2, <1>3, <1>4, <1>5 DEF TypeOK

\* Calling the engine keeps the types.
LEMMA CallTypes ==
  ASSUME TypeOK, NEW c \in Client, CallStep(c)
  PROVE  TypeOK'
<1>1. UNCHANGED <<walVars, memVars, storageVars>>
  BY DEF CallStep, CallGet, CallWrite, CallPut, CallDelete, CallFlush, Call
<1>2. WalTypeOK' /\ MemTypeOK' /\ StorageTypeOK'
  BY <1>1 DEF TypeOK, WalTypeOK, MemTypeOK, StorageTypeOK, Building, walVars, memVars,
              storageVars
<1>3. ASSUME NEW o \in Operation, NEW l \in {"memget", "lock"}, Call(c, o, l),
             l = "memget" => o.type = "get",
             l = "lock" => o.type \in {"put", "delete", "flush"}
      PROVE  CtlTypeOK'
  BY <1>3, EngineAssumption DEF Call, Goto, Answer, TypeOK, CtlTypeOK, Thread, ClientPC,
                                NoOp
<1>4. CtlTypeOK'
  <2>1. ASSUME NEW k \in Key, CallGet(c, k)
        PROVE  CtlTypeOK'
    BY <2>1, <1>3 DEF CallGet, Operation
  <2>2. ASSUME NEW k \in Key, NEW v \in Value, CallPut(c, k, v)
        PROVE  CtlTypeOK'
    BY <2>2, <1>3 DEF CallPut, CallWrite, Operation
  <2>3. ASSUME NEW k \in Key, CallDelete(c, k)
        PROVE  CtlTypeOK'
    BY <2>3, <1>3 DEF CallDelete, CallWrite, Operation
  <2>4. CASE CallFlush(c)
    BY <2>4, <1>3 DEF CallFlush, Operation
  <2>. QED  BY <2>1, <2>2, <2>3, <2>4 DEF CallStep
<1>5. HistTypeOK'
  <2>1. /\ UNCHANGED <<crashes, fails, store, may>>
        /\ writes' = writes \/ writes' = writes + 1
        /\ seen' = seen \/ \E k \in Key : seen' = [seen EXCEPT ![c] = {store[k]}]
    BY DEF CallStep, CallGet, CallWrite, CallPut, CallDelete, CallFlush, Call
  <2>. QED  BY <2>1 DEF TypeOK, HistTypeOK
<1>. QED  BY <1>2, <1>4, <1>5 DEF TypeOK

\* So do the steps of get(), put() and delete().
LEMMA ClientTypes ==
  ASSUME TypeOK, NEW c \in Client, ClientStep(c)
  PROVE  TypeOK'
<1>. USE EngineAssumption DEF TypeOK
<1>0. c \in Thread /\ c # Main
  BY DEF Thread
<1>1. CASE MemGet(c) \/ SstGet(c)
  <2>1. WalTypeOK' /\ MemTypeOK' /\ StorageTypeOK' /\ HistTypeOK'
    BY <1>1, SMTT(30) DEF WalTypeOK, MemTypeOK, StorageTypeOK, HistTypeOK, Building, MemGet, SstGet,
                walVars, memVars, storageVars, countVars, histVars
  <2>2. op[c].key \in Key
    BY <1>0, <1>1, OpTypes DEF MemGet, SstGet, CtlTypeOK
  <2>3. memtable[op[c].key] \in Slot
    BY <2>2 DEF MemTypeOK, Table
  <2>4. res' \in [Thread -> Result \cup {"ok", "err"}]
    <3>1. CASE UNCHANGED res
      BY <3>1 DEF CtlTypeOK
    <3>2. ASSUME NEW s \in Slot, Answer(c, Visible(s))
          PROVE  res' \in [Thread -> Result \cup {"ok", "err"}]
      BY <3>2, VisibleType, Zenon DEF CtlTypeOK, Answer
    <3>. QED  BY <1>1, <2>3, <3>1, <3>2 DEF MemGet, SstGet
  <2>5. CtlTypeOK'
    <3>1. CASE Goto(c, "return") /\ UNCHANGED <<op, write_lock, cursor>>
      BY <1>0, <2>4, <3>1 DEF CtlTypeOK, Goto, ClientPC
    <3>2. CASE pc[c] = "memget" /\ Goto(c, "sstget") /\ UNCHANGED <<op, write_lock, cursor>>
      BY <1>0, <2>4, <3>2 DEF CtlTypeOK, Goto, ClientPC
    <3>. QED  BY <1>1, <3>1, <3>2 DEF MemGet, SstGet
  <2>. QED  BY <2>1, <2>5
<1>2. CASE Lock(c) \/ AppendFailed(c)
  <2>1. WalTypeOK' /\ MemTypeOK' /\ StorageTypeOK' /\ HistTypeOK'
    BY <1>2, SMTT(30) DEF WalTypeOK, MemTypeOK, StorageTypeOK, HistTypeOK, Building, Lock,
                AppendFailed, walVars, memVars, storageVars, countVars, histVars
  <2>2. CtlTypeOK'
    <3>1. CASE Lock(c)
      BY <1>0, <3>1 DEF CtlTypeOK, Lock, Goto, ClientPC
    <3>2. CASE AppendFailed(c)
      BY <1>0, <3>2 DEF CtlTypeOK, AppendFailed, Goto, Answer, ClientPC
    <3>. QED  BY <1>2, <3>1, <3>2
  <2>. QED  BY <2>1, <2>2
<1>3. CASE AppendWal(c)
  <2>1. op[c].key \in Key /\ op[c].val \in Entry
    BY <1>0, <1>3, OpTypes DEF AppendWal, CtlTypeOK
  <2>2. WalTypeOK'
    BY <1>3, <2>1, WalAppendTypes DEF AppendWal
  <2>3. MemTypeOK' /\ StorageTypeOK'
    BY <1>3 DEF MemTypeOK, StorageTypeOK, Building, AppendWal, memVars, storageVars
  <2>4. Visible(op[c].val) \in Result
    BY <2>1, VisibleType DEF Slot
  <2>5. HistTypeOK'
    BY <1>3, <2>1, <2>4 DEF HistTypeOK, AppendWal, countVars
  <2>6. CtlTypeOK'
    BY <1>0, <1>3 DEF CtlTypeOK, AppendWal, Goto, ClientPC
  <2>. QED  BY <2>2, <2>3, <2>5, <2>6
<1>4. CASE Apply(c)
  <2>1. op[c].key \in Key /\ op[c].val \in Entry
    BY <1>0, <1>4, OpTypes DEF Apply, CtlTypeOK
  <2>2. WalTypeOK' /\ StorageTypeOK'
    BY <1>4, SMTT(30) DEF WalTypeOK, StorageTypeOK, Building, Apply, walVars, storageVars
  <2>3. MemTypeOK'
    BY <1>4, <2>1, MemApplyTypes DEF Apply
  <2>4. Visible(op[c].val) \in Result
    BY <2>1, VisibleType DEF Slot
  <2>5. HistTypeOK'
    BY <1>4, <2>1, <2>4, ZenonT(40) DEF HistTypeOK, Apply, countVars
  <2>6. CtlTypeOK'
    <3>1. PICK l \in {"flush", "return"} : pc' = [pc EXCEPT ![c] = l]
      BY <1>4 DEF Apply, Goto
    <3>2. UNCHANGED <<op, res, write_lock, cursor>> /\ pc[c] = "appending"
      BY <1>4 DEF Apply
    <3>3. /\ pc' \in [Thread -> ClientPC \cup MainPC] /\ pc'[Main] = pc[Main]
          /\ pc'[c] = l /\ \A d \in Client : d # c => pc'[d] = pc[d]
      BY <1>0, <3>1 DEF CtlTypeOK, ClientPC, Thread
    <3>4. op[c].type \in {"put", "delete"}
      BY <3>2 DEF CtlTypeOK
    <3>5. ASSUME NEW d \in Client
          PROVE  /\ pc'[d] \in ClientPC
                 /\ pc'[d] \in {"memget", "sstget"} => op[d].type = "get"
                 /\ pc'[d] \in {"lock", "flush", "storage", "truncate", "truncating"} =>
                      op[d].type \in {"put", "delete", "flush"}
                 /\ pc'[d] \in {"append", "appending"} => op[d].type \in {"put", "delete"}
      <4>1. CASE d = c
        BY <3>1, <3>3, <3>4, <4>1 DEF ClientPC
      <4>2. CASE d # c
        BY <3>3, <4>2 DEF CtlTypeOK
      <4>. QED  BY <4>1, <4>2
    <3>. QED  BY <3>2, <3>3, <3>5 DEF CtlTypeOK
  <2>. QED  BY <2>2, <2>3, <2>5, <2>6, SMTT(30)
<1>5. CASE ReturnClient(c)
  <2>1. WalTypeOK' /\ MemTypeOK' /\ StorageTypeOK'
    BY <1>5 DEF WalTypeOK, MemTypeOK, StorageTypeOK, Building, ReturnClient, walVars, memVars,
                storageVars
  <2>2. may' \in [Key -> SUBSET Result]
    <3>1. op[c].type \in {"put", "delete"} => Visible(op[c].val) \in Result
      BY <1>0, OpTypes, VisibleType DEF Slot
    <3>. QED  BY <1>0, <1>5, <3>1, OpTypes DEF ReturnClient, HistTypeOK
  <2>3. HistTypeOK'
    BY <1>5, <2>2 DEF HistTypeOK, ReturnClient, countVars
  <2>4. CtlTypeOK'
    <3>1. NoOp \in Operation /\ NoOp.type = "none"
      BY DEF Operation, NoOp
    <3>2. /\ pc' = [pc EXCEPT ![c] = "idle"] /\ op' = [op EXCEPT ![c] = NoOp]
          /\ res' = [res EXCEPT ![c] = "ok"] /\ cursor' = cursor
          /\ write_lock' \in {write_lock, Free}
      BY <1>5 DEF ReturnClient, Goto, Answer
    <3>. QED  BY <1>0, <3>1, <3>2 DEF CtlTypeOK, ClientPC
  <2>. QED  BY <2>1, <2>3, <2>4
<1>. QED  BY <1>1, <1>2, <1>3, <1>4, <1>5 DEF ClientStep

\* Both threads that flush move between labels they share.
FlushPC == {"flush", "storage", "truncate", "truncating", "return"}

\* Moving a thread within flush_internal() keeps the control types.
LEMMA FlushCtl ==
  ASSUME CtlTypeOK, NEW t \in Thread, NEW l \in FlushPC \cup {"reset"},
         l = "reset" => t = Main,
         l = "return" \/ t = Main \/ pc[t] \in FlushPC \ {"return"},
         Goto(t, l), UNCHANGED <<op, write_lock>>, cursor' \in Nat,
         res' = res \/ Answer(t, "ok") \/ Answer(t, "err")
  PROVE  CtlTypeOK'
<1>1. res' \in [Thread -> Result \cup {"ok", "err"}]
  BY DEF CtlTypeOK, Answer
<1>2. CASE t = Main
  BY <1>1, <1>2, EngineAssumption DEF CtlTypeOK, Goto, FlushPC, MainPC, Thread
<1>3. CASE t \in Client
  BY <1>1, <1>3, EngineAssumption DEF CtlTypeOK, Goto, FlushPC, ClientPC, Thread
<1>. QED  BY <1>2, <1>3 DEF Thread

\* The steps of flush_internal() keep the types.
LEMMA FlushTypes ==
  ASSUME TypeOK, NEW t \in Thread, FlushStep(t)
  PROVE  TypeOK'
<1>. USE DEF TypeOK
<1>0. op[t].type = "open" => t = Main
  BY DEF CtlTypeOK, Thread
<1>1. CASE FlushStart(t)
  <2>1. WalTypeOK' /\ MemTypeOK' /\ HistTypeOK'
    BY <1>1 DEF WalTypeOK, MemTypeOK, HistTypeOK, FlushStart, walVars, memVars, countVars,
                histVars
  <2>2. StorageTypeOK'
    <3>1. CASE UNCHANGED storageVars
      BY <3>1 DEF StorageTypeOK, Building, storageVars
    <3>2. CASE StorageFlush(memtable)
      BY <3>2, StorageFlushTypes DEF MemTypeOK
    <3>. QED  BY <1>1, <3>1, <3>2 DEF FlushStart
  <2>3. CtlTypeOK'
    <3>1. CtlTypeOK /\ cursor' \in Nat
      BY <1>1 DEF FlushStart, CtlTypeOK
    <3>. QED  BY <1>1, <3>1, FlushCtl DEF FlushStart, FlushPC
  <2>. QED  BY <2>1, <2>2, <2>3
<1>2. CASE Clear(t)
  <2>1. WalTypeOK' /\ StorageTypeOK' /\ HistTypeOK'
    BY <1>2 DEF WalTypeOK, StorageTypeOK, Building, HistTypeOK, Clear, walVars, storageVars,
                countVars, histVars
  <2>2. MemTypeOK'
    BY <1>2, MemClearTypes DEF Clear
  <2>3. CtlTypeOK'
    <3>1. CtlTypeOK /\ cursor' \in Nat
      BY <1>2 DEF Clear, CtlTypeOK
    <3>. QED  BY <1>0, <1>2, <3>1, FlushCtl DEF Clear, FlushPC
  <2>. QED  BY <2>1, <2>2, <2>3
<1>3. CASE FlushFailed(t)
  <2>1. WalTypeOK' /\ MemTypeOK' /\ StorageTypeOK' /\ HistTypeOK'
    BY <1>3 DEF WalTypeOK, MemTypeOK, StorageTypeOK, Building, HistTypeOK, FlushFailed,
                walVars, memVars, storageVars, countVars, histVars
  <2>2. CtlTypeOK'
    <3>1. CtlTypeOK /\ cursor' \in Nat
      BY <1>3 DEF FlushFailed, CtlTypeOK
    <3>. QED  BY <1>3, <3>1, FlushCtl DEF FlushFailed, FlushPC
  <2>. QED  BY <2>1, <2>2
<1>4. CASE TruncateWal(t)
  <2>1. MemTypeOK' /\ StorageTypeOK' /\ HistTypeOK'
    BY <1>4 DEF MemTypeOK, StorageTypeOK, Building, HistTypeOK, TruncateWal, memVars,
                storageVars, countVars, histVars
  <2>2. WalTypeOK'
    BY <1>4, WalOtherTypes DEF TruncateWal
  <2>3. CtlTypeOK'
    <3>1. CtlTypeOK /\ cursor' \in Nat
      BY <1>4 DEF TruncateWal, CtlTypeOK
    <3>. QED  BY <1>4, <3>1, FlushCtl DEF TruncateWal, FlushPC
  <2>. QED  BY <2>1, <2>2, <2>3
<1>5. CASE Truncated(t)
  <2>1. WalTypeOK' /\ MemTypeOK' /\ StorageTypeOK' /\ HistTypeOK'
    BY <1>5 DEF WalTypeOK, MemTypeOK, StorageTypeOK, Building, HistTypeOK, Truncated,
                walVars, memVars, storageVars, countVars, histVars
  <2>2. CtlTypeOK'
    <3>1. CtlTypeOK /\ cursor' \in Nat /\ wal_res \in {"ok", "err"}
      BY <1>5 DEF Truncated, CtlTypeOK, WalTypeOK
    <3>. QED  BY <1>5, <3>1, FlushCtl DEF Truncated, FlushPC
  <2>. QED  BY <2>1, <2>2
<1>. QED  BY <1>1, <1>2, <1>3, <1>4, <1>5 DEF FlushStep

\* The end of the process, of whatever kind, keeps the types.
LEMMA EndTypes ==
  ASSUME TypeOK, NEW r \in {"ok", "err"}, Memoryless(r),
         \/ WalKilled /\ StorageKilled
         \/ WalPowerLost /\ StoragePowerLost,
         crashes' \in Nat, fails' \in Nat
  PROVE  TypeOK'
<1>. USE DEF TypeOK
<1>1. WalTypeOK'
  BY WalOtherTypes
<1>2. MemTypeOK'
  BY MemClearTypes DEF Memoryless
<1>3. StorageTypeOK'
  BY StorageOtherTypes, ZenonT(30) DEF StorageKilled, StoragePowerLost
<1>4. CtlTypeOK'
  BY EngineAssumption DEF Memoryless, CtlTypeOK, Thread, ClientPC, MainPC, Operation,
                          NoOp
<1>5. HistTypeOK'
  BY DEF Memoryless, HistTypeOK
<1>. QED  BY <1>1, <1>2, <1>3, <1>4, <1>5

\* Moving the main thread keeps the control types.
LEMMA MainCtl ==
  ASSUME CtlTypeOK, NEW l \in MainPC, Goto(Main, l),
         \/ op' = op
         \/ op' = [op EXCEPT ![Main] = NoOp]
         \/ MainCalls("open") \/ MainCalls("close") \/ MainCalls("drop"),
         res' = res \/ Answer(Main, "ok") \/ Answer(Main, "err"),
         write_lock' \in {write_lock, Main, Free}, cursor' \in Nat
  PROVE  CtlTypeOK'
<1>1. Main \in Thread
  BY DEF Thread
<1>2. res' \in [Thread -> Result \cup {"ok", "err"}]
  BY <1>1 DEF CtlTypeOK, Answer
<1>3. write_lock' \in Thread \cup {Free}
  BY <1>1, SMTT(30) DEF CtlTypeOK
<1>4. /\ op' \in [Thread -> Operation]
      /\ op'[Main].type \in {"none", "open", "close", "drop"}
      /\ \A c \in Client : op'[c] = op[c]
  <2>1. CASE op' = op
    BY <2>1 DEF CtlTypeOK
  <2>2. ASSUME NEW o \in Operation, op' = [op EXCEPT ![Main] = o],
               o.type \in {"none", "open", "close", "drop"}
        PROVE  <1>4!1 /\ <1>4!2 /\ <1>4!3
    BY <1>1, <2>2, EngineAssumption DEF CtlTypeOK, Thread
  <2>3. NoOp \in Operation /\ NoOp.type = "none"
    BY DEF Operation, NoOp
  <2>4. \A o \in {"open", "close", "drop"} :
          [type |-> o, key |-> Absent, val |-> Absent] \in Operation
    BY DEF Operation
  <2>. QED  BY <2>1, <2>2, <2>3, <2>4 DEF MainCalls
<1>5. /\ pc' \in [Thread -> ClientPC \cup MainPC] /\ pc'[Main] \in MainPC
      /\ \A c \in Client : pc'[c] = pc[c]
  BY <1>1, EngineAssumption DEF CtlTypeOK, Goto, Thread
<1>. QED  BY <1>2, <1>3, <1>4, <1>5 DEF CtlTypeOK

\* The steps of Engine::open keep the types.
LEMMA OpenTypes ==
  ASSUME TypeOK, Open \/ Load \/ Loaded \/ Replay \/ Replayed \/ Reset,
         pc[Main] \in {"down", "load"} => st_pc = "idle"
  PROVE  TypeOK'
<1>. USE DEF TypeOK
<1>1. CASE Open
  <2>1. WalTypeOK' /\ MemTypeOK' /\ HistTypeOK'
    BY <1>1 DEF WalTypeOK, MemTypeOK, HistTypeOK, Open, walVars, memVars, countVars, histVars
  <2>2. StorageTypeOK'
    BY <1>1, StorageOtherTypes DEF Open
  <2>3. CtlTypeOK /\ cursor' \in Nat /\ "load" \in MainPC
    BY <1>1 DEF Open, CtlTypeOK, MainPC
  <2>4. CtlTypeOK'
    BY <1>1, <2>3, MainCtl DEF Open
  <2>. QED  BY <2>1, <2>2, <2>4
<1>2. CASE Load
  <2>1. WalTypeOK' /\ MemTypeOK' /\ HistTypeOK' /\ CtlTypeOK'
    BY <1>2 DEF WalTypeOK, MemTypeOK, HistTypeOK, CtlTypeOK, Load, walVars, memVars, ctlVars,
                countVars, histVars
  <2>2. StorageTypeOK'
    BY <1>2, StorageOtherTypes DEF Load
  <2>. QED  BY <2>1, <2>2, SMTT(30)
<1>3. CASE Loaded
  <2>1. WalTypeOK' /\ MemTypeOK' /\ StorageTypeOK' /\ HistTypeOK'
    <3>1. UNCHANGED <<walVars, memVars, storageVars, countVars, histVars>>
      BY <1>3 DEF Loaded
    <3>2. WalTypeOK' /\ MemTypeOK' /\ HistTypeOK'
      BY <3>1 DEF WalTypeOK, MemTypeOK, HistTypeOK, walVars, memVars, countVars, histVars
    <3>3. StorageTypeOK'
      BY <3>1 DEF StorageTypeOK, Building, storageVars
    <3>. QED  BY <3>2, <3>3
  <2>2. CtlTypeOK /\ cursor' \in Nat /\ "replay" \in MainPC
    BY <1>3 DEF Loaded, CtlTypeOK, MainPC
  <2>3. CtlTypeOK'
    BY <1>3, <2>2, MainCtl DEF Loaded
  <2>. QED  BY <2>1, <2>3, SMTT(30)
<1>4. CASE Replay
  <2>1. WalTypeOK' /\ StorageTypeOK' /\ HistTypeOK'
    BY <1>4 DEF WalTypeOK, StorageTypeOK, Building, HistTypeOK, Replay, walVars, storageVars,
                countVars, histVars
  <2>2. wal_file[cursor + 1] \in Record
    <3>. DEFINE R == Record \cup {Torn}
    <3>1. cursor + 1 \in DOMAIN wal_file /\ wal_file[cursor + 1] # Torn
      BY <1>4 DEF Replay, Readable, Intact, CtlTypeOK
    <3>2. wal_file \in Seq(R)
      BY DEF WalTypeOK, Log
    <3>3. wal_file[cursor + 1] \in R
      <4>. HIDE DEF R
      <4>. QED  BY <3>1, <3>2
    <3>. QED  BY <3>1, <3>3
  <2>3. wal_file[cursor + 1].key \in Key /\ wal_file[cursor + 1].val \in Entry
    BY <2>2 DEF Record
  <2>4. MemTypeOK'
    BY <1>4, <2>3, MemApplyTypes, SMTT(30) DEF Replay
  <2>5. CtlTypeOK'
    <3>1. UNCHANGED <<pc, op, res, write_lock>> /\ cursor' = cursor + 1
      BY <1>4 DEF Replay
    <3>. QED  BY <3>1 DEF CtlTypeOK
  <2>. QED  BY <2>1, <2>4, <2>5, SMTT(30)
<1>5. CASE Replayed
  <2>1. WalTypeOK' /\ MemTypeOK' /\ HistTypeOK'
    BY <1>5 DEF WalTypeOK, MemTypeOK, HistTypeOK, Replayed, walVars, memVars, countVars,
                histVars
  <2>2. StorageTypeOK'
    <3>1. CASE UNCHANGED storageVars
      BY <3>1 DEF StorageTypeOK, Building, storageVars
    <3>2. CASE StorageFlush(memtable)
      BY <3>2, StorageFlushTypes, SMTT(30) DEF MemTypeOK
    <3>. QED  BY <1>5, <3>1, <3>2 DEF Replayed
  <2>3. CtlTypeOK /\ cursor' \in Nat /\ "reset" \in MainPC /\ "storage" \in MainPC
    BY <1>5 DEF Replayed, CtlTypeOK, MainPC
  <2>4. CtlTypeOK'
    BY <1>5, <2>3, MainCtl DEF Replayed
  <2>. QED  BY <2>1, <2>2, <2>4
<1>6. CASE Reset
  <2>1. MemTypeOK' /\ StorageTypeOK'
    BY <1>6 DEF MemTypeOK, StorageTypeOK, Building, Reset, memVars, storageVars
  <2>2. WalTypeOK'
    BY <1>6, WalOtherTypes, SMTT(30) DEF Reset
  <2>3. CtlTypeOK /\ cursor' \in Nat /\ "up" \in MainPC
    BY <1>6 DEF Reset, CtlTypeOK, MainPC
  <2>4. CtlTypeOK'
    BY <1>6, <2>3, MainCtl DEF Reset
  <2>5. HistTypeOK'
    BY <1>6 DEF Reset, HistTypeOK, countVars
  <2>. QED  BY <2>1, <2>2, <2>4, <2>5, SMTT(30)
<1>. QED  BY <1>1, <1>2, <1>3, <1>4, <1>5, <1>6

\* The steps of close() and drop keep the types.
LEMMA CloseTypes ==
  ASSUME TypeOK, Close \/ CloseFlushed \/ CloseSynced \/ Drop
  PROVE  TypeOK'
<1>. USE DEF TypeOK
<1>1. MemTypeOK' /\ StorageTypeOK' /\ HistTypeOK'
  BY DEF MemTypeOK, StorageTypeOK, Building, HistTypeOK, Close, CloseFlushed, CloseSynced,
         Drop, memVars, storageVars, countVars, histVars
<1>2. WalTypeOK'
  <2>1. CASE UNCHANGED walVars
    BY <2>1 DEF WalTypeOK, walVars
  <2>2. CASE WalSync \/ WalDrop
    BY <2>2, WalOtherTypes
  <2>. QED  BY <2>1, <2>2, Zenon DEF Close, CloseFlushed, CloseSynced, Drop
<1>3. CtlTypeOK'
  <2>1. CtlTypeOK /\ cursor' \in Nat /\ {"syncing", "flush", "dropping"} \subseteq MainPC
    BY DEF Close, CloseFlushed, CloseSynced, Drop, CtlTypeOK, MainPC
  <2>2. CASE Close
    BY <2>1, <2>2, MainCtl, SMTT(30) DEF Close
  <2>3. CASE CloseFlushed
    BY <2>1, <2>3, MainCtl DEF CloseFlushed
  <2>4. CASE CloseSynced
    <3>1. Answer(Main, "ok") \/ Answer(Main, "err")
      BY <2>4 DEF CloseSynced, WalTypeOK
    <3>. QED  BY <2>1, <2>4, <3>1, MainCtl DEF CloseSynced
  <2>5. CASE Drop
    BY <2>1, <2>5, MainCtl DEF Drop
  <2>. QED  BY <2>2, <2>3, <2>4, <2>5, SMTT(30)
<1>. QED  BY <1>1, <1>2, <1>3, SMTT(30)

\* The steps of the log and of the storage manager keep the types.
LEMMA ComponentTypes ==
  ASSUME TypeOK, LogStep \/ TableStep \/ WalFails \/ StorageFlushFails
  PROVE  TypeOK'
<1>. USE DEF TypeOK
<1>1. CtlTypeOK' /\ MemTypeOK' /\ HistTypeOK'
  <2>1. UNCHANGED memVars /\ UNCHANGED ctlVars /\ UNCHANGED histVars
    BY DEF LogStep, TableStep, WalFails, StorageFlushFails
  <2>2. writes' \in Nat /\ crashes' \in Nat /\ fails' \in Nat
    BY DEF LogStep, TableStep, WalFails, StorageFlushFails, Failing, HistTypeOK, countVars
  <2>3. CtlTypeOK'
    BY <2>1 DEF CtlTypeOK, ctlVars
  <2>4. MemTypeOK'
    BY <2>1 DEF MemTypeOK, memVars
  <2>5. HistTypeOK'
    BY <2>1, <2>2 DEF HistTypeOK, histVars
  <2>. QED  BY <2>3, <2>4, <2>5
<1>2. CASE LogStep \/ WalFails
  <2>1. WalTypeOK'
    BY <1>2, WalStepTypes, WalFailTypes DEF LogStep, WalFails
  <2>2. StorageTypeOK'
    BY <1>2 DEF LogStep, WalFails, StorageTypeOK, Building, storageVars
  <2>. QED  BY <1>1, <2>1, <2>2
<1>3. CASE TableStep \/ StorageFlushFails
  <2>1. StorageTypeOK'
    BY <1>3, StorageStepTypes DEF TableStep, StorageFlushFails, MemTypeOK
  <2>2. WalTypeOK'
    BY <1>3 DEF TableStep, StorageFlushFails, WalTypeOK, walVars
  <2>. QED  BY <1>1, <2>1, <2>2
<1>. QED  BY <1>2, <1>3

\* Crashes and failed system calls keep the types.
LEMMA FaultTypes ==
  ASSUME TypeOK, Fault
  PROVE  TypeOK'
<1>. USE DEF TypeOK
<1>1. CASE Kill \/ LosePower \/ OpenFails
  <2>1. crashes' \in Nat /\ fails' \in Nat
    BY <1>1 DEF Kill, LosePower, OpenFails, Failing, HistTypeOK
  <2>. QED  BY <1>1, <2>1, EndTypes DEF Kill, LosePower, OpenFails
<1>2. CASE WalFails \/ StorageFlushFails
  BY <1>2, ComponentTypes
<1>3. ASSUME NEW t \in Thread, StorageCreateFails(t)
      PROVE  TypeOK'
  <2>1. WalTypeOK' /\ MemTypeOK' /\ HistTypeOK'
    <3>1. /\ UNCHANGED <<walVars, memVars, histVars, writes, crashes>>
          /\ fails' = fails + 1
      BY <1>3 DEF StorageCreateFails, Failing
    <3>. QED  BY <3>1 DEF WalTypeOK, MemTypeOK, HistTypeOK, walVars, memVars, histVars
  <2>2. StorageTypeOK'
    BY <1>3, StorageFlushTypes, SMTT(30) DEF StorageCreateFails, MemTypeOK
  <2>3. CtlTypeOK /\ cursor' \in Nat
    BY <1>3 DEF StorageCreateFails, CtlTypeOK
  <2>4. CtlTypeOK'
    BY <1>3, <2>3, FlushCtl DEF StorageCreateFails, FlushPC
  <2>. QED  BY <2>1, <2>2, <2>4, SMTT(30)
<1>4. ASSUME NEW c \in Client, GetFails(c)
      PROVE  TypeOK'
  <2>1. WalTypeOK' /\ MemTypeOK' /\ StorageTypeOK' /\ HistTypeOK'
    <3>1. UNCHANGED <<walVars, memVars, storageVars, histVars>>
      BY <1>4 DEF GetFails
    <3>2. WalTypeOK' /\ MemTypeOK'
      BY <3>1 DEF WalTypeOK, MemTypeOK, walVars, memVars
    <3>3. StorageTypeOK'
      BY <3>1 DEF StorageTypeOK, Building, storageVars
    <3>4. HistTypeOK'
      <4>1. writes' = writes /\ crashes' = crashes /\ fails' = fails + 1
        BY <1>4 DEF GetFails, Failing
      <4>. QED  BY <3>1, <4>1 DEF HistTypeOK, histVars
    <3>. QED  BY <3>2, <3>3, <3>4
  <2>2. CtlTypeOK /\ cursor' \in Nat /\ c \in Thread
    BY <1>4 DEF GetFails, CtlTypeOK, Thread
  <2>3. CtlTypeOK'
    BY <1>4, <2>2, FlushCtl, Zenon DEF GetFails, FlushPC
  <2>. QED  BY <2>1, <2>3, SMTT(30)
<1>. QED  BY <1>1, <1>2, <1>3, <1>4 DEF Fault

\* Every step of the engine keeps the types.
LEMMA NextTypes ==
  ASSUME TypeOK, [Next]_vars,
         pc[Main] \in {"down", "load"} => st_pc = "idle"
  PROVE  TypeOK'
<1>1. CASE \E c \in Client : CallStep(c) \/ ClientStep(c)
  BY <1>1, CallTypes, ClientTypes
<1>2. CASE \E t \in Thread : FlushStep(t)
  BY <1>2, FlushTypes
<1>3. CASE LogStep \/ TableStep
  BY <1>3, ComponentTypes
<1>4. CASE Open \/ Load \/ Loaded \/ Replay \/ Replayed \/ Reset
  BY <1>4, OpenTypes
<1>5. CASE Close \/ Drop \/ CloseFlushed \/ CloseSynced
  BY <1>5, CloseTypes
<1>6. CASE OpenFailed \/ Dropped
  <2>1. crashes' \in Nat /\ fails' \in Nat
    BY <1>6, Zenon DEF OpenFailed, Dropped, TypeOK, HistTypeOK
  <2>. QED  BY <1>6, <2>1, EndTypes, ZenonT(30) DEF OpenFailed, Dropped
<1>7. CASE Fault
  BY <1>7, FaultTypes
<1>8. CASE UNCHANGED vars
  <2>1. /\ UNCHANGED walVars /\ UNCHANGED memVars /\ UNCHANGED storageVars
        /\ UNCHANGED ctlVars /\ UNCHANGED countVars /\ UNCHANGED histVars
    BY <1>8 DEF vars
  <2>2. WalTypeOK'
    BY <2>1 DEF TypeOK, WalTypeOK, walVars
  <2>3. MemTypeOK'
    BY <2>1 DEF TypeOK, MemTypeOK, memVars
  <2>4. StorageTypeOK'
    BY <2>1 DEF TypeOK, StorageTypeOK, Building, storageVars
  <2>5. CtlTypeOK'
    BY <2>1 DEF TypeOK, CtlTypeOK, ctlVars
  <2>6. HistTypeOK'
    BY <2>1 DEF TypeOK, HistTypeOK, countVars, histVars
  <2>. QED  BY <2>2, <2>3, <2>4, <2>5, <2>6 DEF TypeOK
<1>. QED  BY <1>1, <1>2, <1>3, <1>4, <1>5, <1>6, <1>7, <1>8 DEF Next, MainStep
=============================================================================

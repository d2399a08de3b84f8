---------------------------- MODULE ReadProofs ------------------------------
(***************************************************************************)
(* Reads are linearizable and the engine serves its current contents,      *)
(* for every set of keys, values and clients, every sync strategy and size *)
(* limit, and any number of crashes and failed system calls.               *)
(***************************************************************************)
EXTENDS SearchProofs

-----------------------------------------------------------------------------
(***************************************************************************)
(* The engine comes up by Reset only.                                      *)
(***************************************************************************)
LEMMA UpByReset ==
  ASSUME BaseInv, [Next]_vars, pc[Main] # "up", pc'[Main] = "up"
  PROVE  Reset
<1>. USE EngineAssumption
<1>0. pc \in [Thread -> ClientPC \cup MainPC] /\ Main \in Thread /\ Client \subseteq Thread
  BY DEF BaseInv, TypeOK, CtlTypeOK, Thread
<1>1. ASSUME NEW c \in Client, CallStep(c) \/ ClientStep(c) \/ GetFails(c)
      PROVE  FALSE
  <2>1. \E l : pc' = [pc EXCEPT ![c] = l]
    BY <1>1 DEF CallStep, CallGet, CallPut, CallDelete, CallFlush, CallWrite, Call, Goto,
                ClientStep, MemGet, SstGet, Lock, AppendWal, Apply, AppendFailed,
                ReturnClient, GetFails
  <2>. QED  BY <1>0, <2>1, SMTT(30)
<1>2. ASSUME NEW t \in Thread, FlushStep(t) \/ StorageCreateFails(t)
      PROVE  FALSE
  <2>1. \E l \in FlushPC \cup {"reset"} : pc' = [pc EXCEPT ![t] = l]
    BY <1>2 DEF FlushStep, FlushStart, Clear, FlushFailed, TruncateWal, Truncated, Goto,
                StorageCreateFails, FlushPC
  <2>. QED  BY <1>0, <2>1 DEF FlushPC
<1>3. ASSUME LogStep \/ TableStep \/ WalFails \/ StorageFlushFails \/ Load \/ Replay
             \/ UNCHANGED vars
      PROVE  FALSE
  BY <1>3 DEF LogStep, TableStep, WalFails, StorageFlushFails, Load, Replay, ctlVars, vars
<1>4. ASSUME Open \/ Loaded \/ Replayed \/ Close \/ CloseFlushed \/ CloseSynced \/ Drop
      PROVE  FALSE
  <2>1. \E l \in MainPC \ {"up"} : pc' = [pc EXCEPT ![Main] = l]
    BY <1>4 DEF Open, Loaded, Replayed, Close, CloseFlushed, CloseSynced, Drop, Goto, MainPC
  <2>. QED  BY <1>0, <2>1
<1>5. ASSUME OpenFailed \/ Dropped \/ Kill \/ LosePower \/ OpenFails
      PROVE  FALSE
  BY <1>0, <1>5 DEF OpenFailed, Dropped, Kill, LosePower, OpenFails, Memoryless
<1>. QED  BY <1>1, <1>2, <1>3, <1>4, <1>5 DEF Next, MainStep, Fault

\* What put() and delete() do to the memtable and to the contents.
LEMMA ApplyFacts ==
  ASSUME BaseInv, NEW c \in Client, Apply(c)
  PROVE  /\ op[c].key \in Key /\ op[c].val \in Entry /\ op[c].val # Absent
         /\ memtable' = [memtable EXCEPT ![op[c].key] = op[c].val]
         /\ store' = [store EXCEPT ![op[c].key] = Visible(op[c].val)]
         /\ UNCHANGED storageVars
<1>1. op[c].key \in Key /\ op[c].val \in Entry
  BY OpTypes DEF BaseInv, TypeOK, CtlTypeOK, Apply, Thread
<1>2. memtable' = [memtable EXCEPT ![op[c].key] = op[c].val]
  BY <1>1, MemApplyTypes DEF Apply, BaseInv, TypeOK
<1>. QED  BY <1>1, <1>2, KVAssumption DEF Apply, Entry

\* Every step preserves ServesCurrent: an applied write changes memtable and
\* contents alike, and Clear uncovers a table that holds the same entries.
LEMMA ServesStep ==
  ASSUME BaseInv, Handover, ServesCurrent, BaseInv', [Next]_vars
  PROVE  ServesCurrent'
<1>. SUFFICES ASSUME pc'[Main] = "up", NEW k \in Key, NEW s \in Slot, Serves(k, s)'
              PROVE  Visible(s) = store'[k]
  BY DEF ServesCurrent
<1>0. /\ memtable \in Table /\ sstables \in Seq(Nat) /\ store \in [Key -> Result]
      /\ memtable' \in Table
  BY DEF BaseInv, TypeOK, MemTypeOK, StorageTypeOK, HistTypeOK
<1>1. CASE pc[Main] # "up"
  <2>1. Reset
    BY <1>1, UpByReset
  <2>2. memtable' = memtable /\ IsEmpty(memtable) /\ UNCHANGED storageVars
    BY <2>1 DEF Reset, Handover, memVars
  <2>3. StorageGet(k, s)'
    BY <2>2 DEF Serves, IsEmpty
  <2>4. Search(sst_files, sstables, k, s)
    BY <2>2, <2>3, SearchIs DEF storageVars
  <2>5. PICK r \in Slot : StorageGet(k, r) /\ store'[k] = Visible(r)
    BY <2>1 DEF Reset
  <2>6. Search(sst_files, sstables, k, r)
    BY <2>5, SearchIs
  <2>7. r = s
    BY <1>0, <2>4, <2>6, SearchUnique
  <2>. QED  BY <2>5, <2>7
<1>2. ASSUME pc[Main] = "up", NEW c \in Client, Apply(c)
      PROVE  Visible(s) = store'[k]
  <2>1. CASE k = op[c].key
    <3>1. memtable'[k] = op[c].val /\ store'[k] = Visible(op[c].val) /\ op[c].val # Absent
      BY <1>0, <1>2, <2>1, ApplyFacts DEF Table
    <3>. QED  BY <3>1 DEF Serves
  <2>2. CASE k # op[c].key
    <3>1. memtable'[k] = memtable[k] /\ store'[k] = store[k] /\ UNCHANGED storageVars
      BY <1>0, <1>2, <2>2, ApplyFacts DEF Table
    <3>2. StorageGet(k, s)' => StorageGet(k, s)
      BY <3>1, SearchIs DEF storageVars
    <3>3. Serves(k, s)
      BY <3>1, <3>2 DEF Serves
    <3>. QED  BY <1>2, <3>1, <3>3 DEF ServesCurrent
  <2>. QED  BY <2>1, <2>2
<1>3. ASSUME pc[Main] = "up", NEW t \in Thread, Clear(t)
      PROVE  Visible(s) = store'[k]
  <2>1. /\ memtable' = EmptyTable /\ UNCHANGED storageVars /\ store' = store
        /\ sstables # <<>> /\ sst_files[sstables[1]].data = memtable
    BY <1>3 DEF Clear, MemClear, Handover, histVars
  <2>2. StorageGet(k, s)'
    BY <2>1 DEF Serves, EmptyTable
  <2>3. Search(sst_files, sstables, k, s)
    BY <2>1, <2>2, SearchIs DEF storageVars
  <2>4. memtable[k] # Absent => s = memtable[k]
    BY <1>0, <2>1, <2>3, SearchHead, Zenon
  <2>5. Serves(k, s)
    BY <2>3, <2>4, SearchIs DEF Serves
  <2>. QED  BY <1>3, <2>1, <2>5 DEF ServesCurrent
<1>4. CASE pc[Main] = "up" /\ UNCHANGED <<memtable, store>>
  <2>1. StorageGet(k, s)' => StorageGet(k, s) \/ (memtable[k] # Absent /\ s = memtable[k])
    BY <1>4, SearchStep
  <2>2. Serves(k, s)
    BY <1>4, <2>1 DEF Serves
  <2>. QED  BY <1>4, <2>2 DEF ServesCurrent
<1>. QED  BY <1>1, <1>2, <1>3, <1>4, UpMemory

-----------------------------------------------------------------------------
(***************************************************************************)
(* What a step does to a get that is under way.                            *)
(***************************************************************************)
LEMMA GetStep ==
  ASSUME BaseInv, [Next]_vars, pc[Main] = "up", pc'[Main] = "up", NEW c \in Client,
         pc'[c] \in {"memget", "sstget", "return"}, op'[c].type = "get"
  PROVE  \/ /\ pc'[c] = pc[c] /\ op'[c] = op[c] /\ res'[c] = res[c]
            /\ seen[c] \subseteq seen'[c]
         \/ \E k \in Key : CallGet(c, k)
         \/ MemGet(c) \/ SstGet(c) \/ GetFails(c)
<1>. USE EngineAssumption
<1>0. /\ pc \in [Thread -> ClientPC \cup MainPC] /\ op \in [Thread -> Operation]
      /\ res \in [Thread -> Result \cup {"ok", "err"}] /\ seen \in [Client -> SUBSET Result]
      /\ Client \subseteq Thread /\ Main \in Thread /\ c # Main
      /\ pc[c] \in {"lock", "flush", "storage", "truncate", "truncating", "append",
                    "appending"} => op[c].type # "get"
  BY DEF BaseInv, TypeOK, CtlTypeOK, HistTypeOK, Thread
<1>. DEFINE Same == /\ pc'[c] = pc[c] /\ op'[c] = op[c] /\ res'[c] = res[c]
                    /\ seen[c] \subseteq seen'[c]
<1>1. ASSUME NEW d \in Client, d # c, CallStep(d) \/ ClientStep(d) \/ GetFails(d)
      PROVE  Same
  <2>1. /\ \E l : pc' = [pc EXCEPT ![d] = l]
        /\ op' = op \/ \E o : op' = [op EXCEPT ![d] = o]
        /\ res' = res \/ \E r : res' = [res EXCEPT ![d] = r]
    BY <1>1, Zenon DEF CallStep, CallGet, CallPut, CallDelete, CallFlush, CallWrite, Call, Goto,
                Answer, ClientStep, MemGet, SstGet, Lock, AppendWal, Apply, AppendFailed,
                ReturnClient, GetFails
  <2>2. CASE Apply(d)
    BY <1>0, <1>1, <2>1, <2>2 DEF Apply
  <2>3. CASE ~Apply(d)
    <3>1. seen' = seen \/ \E x : seen' = [seen EXCEPT ![d] = x]
      BY <1>1, <2>3, Zenon DEF CallStep, CallGet, CallPut, CallDelete, CallFlush, CallWrite,
                        ClientStep, MemGet, SstGet, Lock, AppendWal, AppendFailed,
                        ReturnClient, GetFails, histVars
    <3>. QED  BY <1>0, <1>1, <2>1, <3>1
  <2>. QED  BY <2>2, <2>3
<1>2. ASSUME CallStep(c)
      PROVE  \E k \in Key : CallGet(c, k)
  <2>1. ASSUME NEW o, CallWrite(c, o) \/ CallFlush(c)
        PROVE  FALSE
    BY <1>0, <2>1, SMTT(30) DEF CallWrite, CallFlush, Call, Goto
  <2>. QED  BY <1>2, <2>1, Zenon DEF CallStep, CallPut, CallDelete
<1>3. ASSUME ClientStep(c)
      PROVE  MemGet(c) \/ SstGet(c)
  BY <1>0, <1>3 DEF ClientStep, Lock, AppendWal, Apply, AppendFailed, ReturnClient, Goto
<1>4. ASSUME NEW t \in Thread, FlushStep(t) \/ StorageCreateFails(t)
      PROVE  Same
  <2>1. /\ \E l : pc' = [pc EXCEPT ![t] = l]
        /\ pc[t] \in {"flush", "storage", "truncate", "truncating", "replay"}
        /\ pc[t] = "replay" => t = Main
        /\ UNCHANGED <<op, seen>>
        /\ res' = res \/ \E r : res' = [res EXCEPT ![t] = r]
    BY <1>4, Zenon DEF FlushStep, FlushStart, Clear, FlushFailed, TruncateWal, Truncated,
                StorageCreateFails, Goto, Answer, histVars
  <2>2. t # c
    BY <1>0, <2>1
  <2>. QED  BY <1>0, <2>1, <2>2
<1>5. CASE LogStep \/ TableStep \/ WalFails \/ StorageFlushFails \/ UNCHANGED vars
  BY <1>5, SMTT(60) DEF LogStep, TableStep, WalFails, StorageFlushFails, vars, ctlVars, histVars
<1>6. ASSUME Open \/ MainStep
      PROVE  FALSE
  BY <1>6 DEF Open, MainStep, Load, Loaded, Replay, Replayed, Reset, OpenFailed,
              CloseFlushed, CloseSynced, Dropped
<1>7. ASSUME Close \/ Drop \/ Kill \/ LosePower \/ OpenFails
      PROVE  FALSE
  BY <1>0, <1>7 DEF Close, Drop, Kill, LosePower, OpenFails, Memoryless, Goto
<1>. QED  BY <1>1, <1>2, <1>3, <1>4, <1>5, <1>6, <1>7 DEF Next, Fault

\* A get names a key.
LEMMA GetKey ==
  ASSUME NEW o \in Operation, o.type = "get"
  PROVE  o.key \in Key
<1>1. \/ o = NoOp
      \/ o \in [type : {"get"}, key : Key, val : {Absent}]
      \/ o.type \in {"put", "delete", "flush", "open", "close", "drop"}
  BY DEF Operation
<1>2. NoOp.type = "none"
  BY DEF NoOp
<1>3. o \in [type : {"get"}, key : Key, val : {Absent}]
  BY <1>1, <1>2
<1>. QED  BY <1>3

(***************************************************************************)
(* A client that is in a get before or after a step finds the engine up    *)
(* before and after it.                                                    *)
(***************************************************************************)
LEMMA GetUp ==
  ASSUME BaseInv, BaseInv', [Next]_vars, NEW c \in Client, pc'[c] # "idle"
  PROVE  pc[Main] = "up" /\ pc'[Main] = "up"
<1>1. pc'[Main] = "up"
  BY DEF BaseInv, Exclusion
<1>2. ASSUME pc[Main] # "up"
      PROVE  FALSE
  <2>1. Reset /\ pc[c] = "idle"
    BY <1>1, <1>2, UpByReset, ZenonT(40) DEF BaseInv, Exclusion
  <2>2. pc'[c] = pc[c]
    BY <2>1, EngineAssumption DEF Reset, Goto, BaseInv, TypeOK, CtlTypeOK, Thread
  <2>. QED  BY <2>1, <2>2
<1>. QED  BY <1>1, <1>2, SMTT(30)

\* Every step preserves GetsCovered: what moves into the SSTables under a get
\* was in the memtable, and was seen, before.
LEMMA GetsCoveredStep ==
  ASSUME BaseInv, Handover, ServesCurrent, GetsCovered, BaseInv', [Next]_vars
  PROVE  GetsCovered'
<1>. SUFFICES ASSUME NEW c \in Client, pc'[c] \in {"memget", "sstget"}
              PROVE  /\ pc'[c] = "memget" => store'[op'[c].key] \in seen'[c]
                     /\ pc'[c] = "sstget" =>
                          /\ \A s \in Slot : StorageGet(op[c].key, s)' => Visible(s) \in seen'[c]
                          /\ memtable'[op'[c].key] # Absent =>
                               Visible(memtable'[op'[c].key]) \in seen'[c]
  BY ZenonT(30) DEF GetsCovered
<1>0. /\ pc[Main] = "up" /\ pc'[Main] = "up"
      /\ op'[c].type = "get" /\ op'[c].key \in Key
      /\ memtable \in Table /\ store \in [Key -> Result]
      /\ pc \in [Thread -> ClientPC \cup MainPC] /\ op \in [Thread -> Operation]
      /\ seen \in [Client -> SUBSET Result] /\ c \in Thread
  <2>1. op'[c].type = "get"
    BY DEF BaseInv, TypeOK, CtlTypeOK
  <2>2. op'[c] \in Operation
    BY SMTT(30) DEF BaseInv, TypeOK, CtlTypeOK, Thread
  <2>3. op'[c].key \in Key
    BY <2>1, <2>2, GetKey
  <2>. QED  BY <2>1, <2>3, GetUp DEF BaseInv, TypeOK, CtlTypeOK, MemTypeOK, HistTypeOK, Thread
<1>k. PICK k \in Key : k = op'[c].key
  BY <1>0, SMTT(30)
<1>s. \A s : StorageGet(op[c].key, s)' <=> StorageGet(k, s)'
  BY <1>k DEF StorageGet, Answers, Finds, MightContain, InIndex
<1>1. CASE /\ pc'[c] = pc[c] /\ op'[c] = op[c] /\ seen[c] \subseteq seen'[c]
  <2>1. k = op[c].key /\ op[c].type = "get"
    BY <1>0, <1>1, <1>k
  <2>2. /\ store'[k] = store[k] \/ store'[k] \in seen'[c]
        /\ memtable'[k] \in {memtable[k], Absent} \/ Visible(memtable'[k]) \in seen'[c]
    <3>1. ASSUME NEW d \in Client, Apply(d)
          PROVE  <2>2
      <4>1. CASE k = op[d].key
        <5>1. /\ store'[k] = Visible(op[d].val) /\ memtable'[k] = op[d].val
              /\ Visible(op[d].val) \in seen'[c]
          BY <1>0, <2>1, <3>1, <4>1, ApplyFacts, ZenonT(30) DEF Apply, Table
        <5>. QED  BY <5>1
      <4>2. CASE k # op[d].key
        BY <1>0, <3>1, <4>2, ApplyFacts DEF Table
      <4>. QED  BY <4>1, <4>2
    <3>2. ASSUME NEW t \in Thread, Clear(t)
          PROVE  <2>2
      BY <1>0, <3>2 DEF Clear, MemClear, EmptyTable, histVars
    <3>. QED  BY <1>0, <3>1, <3>2, UpMemory, SMTT(60)
  <2>3. CASE pc'[c] = "memget"
    BY <1>1, <1>k, <2>1, <2>2, <2>3, Zenon DEF GetsCovered
  <2>4. CASE pc'[c] = "sstget"
    <3>1. /\ \A s \in Slot : StorageGet(k, s) => Visible(s) \in seen[c]
          /\ memtable[k] # Absent => Visible(memtable[k]) \in seen[c]
      BY <1>1, <2>1, <2>4, Zenon DEF GetsCovered
    <3>2. ASSUME NEW s \in Slot, StorageGet(op[c].key, s)'
          PROVE  Visible(s) \in seen'[c]
      <4>1. StorageGet(k, s)'
        BY <1>s, <3>2, SMTT(30)
      <4>2. StorageGet(k, s) \/ (memtable[k] # Absent /\ s = memtable[k])
        BY <1>0, <4>1, SearchStep, ZenonT(40)
      <4>. QED  BY <1>1, <3>1, <4>2
    <3>3. memtable'[k] # Absent => Visible(memtable'[k]) \in seen'[c]
      BY <1>1, <2>2, <3>1
    <3>. QED  BY <1>k, <2>4, <3>2, <3>3, Zenon
  <2>. QED  BY <2>3, <2>4, ZenonT(30)
<1>2. ASSUME NEW j \in Key, CallGet(c, j)
      PROVE  pc'[c] = "memget" /\ store'[k] \in seen'[c]
  BY <1>0, <1>2, <1>k, SMTT(30) DEF CallGet, Call, Goto
<1>3. CASE MemGet(c)
  <2>1. /\ pc'[c] = "sstget" /\ k = op[c].key /\ memtable[k] = Absent
        /\ UNCHANGED <<memtable, storageVars, seen>> /\ store[k] \in seen[c]
    BY <1>0, <1>3, <1>k, ZenonT(40) DEF MemGet, Goto, GetsCovered, memVars, histVars
  <2>2. ASSUME NEW s \in Slot, StorageGet(op[c].key, s)'
        PROVE  Visible(s) \in seen'[c]
    <3>1. StorageGet(k, s)'
      BY <1>s, <2>2, SMTT(30)
    <3>2. StorageGet(k, s)
      BY <1>0, <2>1, <3>1, SearchIs, ZenonT(40) DEF storageVars
    <3>3. Visible(s) = store[k]
      BY <1>0, <2>1, <3>2 DEF ServesCurrent, Serves
    <3>. QED  BY <2>1, <3>3, ZenonT(40)
  <2>. QED  BY <1>k, <2>1, <2>2, ZenonT(40)
<1>4. ASSUME SstGet(c) \/ GetFails(c)
      PROVE  FALSE
  BY <1>0, <1>4, SMTT(30) DEF SstGet, GetFails, Goto
<1>. QED  BY <1>0, <1>1, <1>2, <1>3, <1>4, <1>k, GetStep, Zenon


(***************************************************************************)
(* The answer of a get comes from a slot that GetsCovered speaks of.       *)
(***************************************************************************)
LEMMA LinearizableStep ==
  ASSUME ReadInv, BaseInv', [Next]_vars
  PROVE  ReadsLinearizable'
<1>. SUFFICES ASSUME NEW c \in Client, pc'[c] = "return", op'[c].type = "get",
                     res'[c] # "err"
              PROVE  res'[c] \in seen'[c]
  BY SMTT(30) DEF ReadsLinearizable
<1>0. /\ BaseInv /\ pc[Main] = "up" /\ pc'[Main] = "up"
      /\ memtable \in Table
      /\ pc \in [Thread -> ClientPC \cup MainPC] /\ op \in [Thread -> Operation]
      /\ res \in [Thread -> Result \cup {"ok", "err"}] /\ c \in Thread
  <2>1. BaseInv
    BY DEF ReadInv, BaseInv
  <2>. QED  BY <2>1, GetUp DEF BaseInv, TypeOK, CtlTypeOK, MemTypeOK, Thread
<1>1. CASE /\ pc'[c] = pc[c] /\ op'[c] = op[c] /\ res'[c] = res[c]
           /\ seen[c] \subseteq seen'[c]
  BY <1>1 DEF ReadInv, ReadsLinearizable
<1>2. ASSUME NEW j \in Key, CallGet(c, j)
      PROVE  FALSE
  BY <1>0, <1>2, SMTT(30) DEF CallGet, Call, Goto
<1>3. CASE MemGet(c)
  <2>1. /\ pc[c] = "memget" /\ op'[c] = op[c] /\ seen' = seen
        /\ memtable[op[c].key] # Absent
        /\ res'[c] = Visible(memtable[op[c].key])
    BY <1>0, <1>3 DEF MemGet, Goto, Answer, histVars
  <2>2. op[c].key \in Key
    <3>1. op[c] \in Operation
      BY <1>0
    <3>. QED  BY <2>1, <3>1, GetKey
  <2>3. memtable[op[c].key] \in Slot
    BY <1>0, <2>2, SMTT(30) DEF Table
  <2>4. Visible(memtable[op[c].key]) = store[op[c].key]
    BY <1>0, <2>1, <2>2, <2>3, ZenonT(40) DEF ReadInv, ServesCurrent, Serves
  <2>5. store[op[c].key] \in seen[c]
    BY <2>1 DEF ReadInv, GetsCovered
  <2>. QED  BY <2>1, <2>4, <2>5, ZenonT(40)
<1>4. CASE SstGet(c)
  <2>1. PICK s \in Slot : StorageGet(op[c].key, s) /\ res'[c] = Visible(s)
    BY <1>0, <1>4, SMTT(30) DEF SstGet, Answer
  <2>2. pc[c] = "sstget" /\ seen' = seen
    BY <1>4 DEF SstGet, histVars
  <2>. QED  BY <2>1, <2>2 DEF ReadInv, GetsCovered
<1>5. ASSUME GetFails(c)
      PROVE  FALSE
  BY <1>0, <1>5 DEF GetFails, Answer
<1>. QED  BY <1>0, <1>1, <1>2, <1>3, <1>4, <1>5, GetStep

(***************************************************************************)
(* At the start the engine is down and no client is in a call.             *)
(***************************************************************************)
LEMMA ReadInit ==
  ASSUME Init
  PROVE  ReadInv
<1>1. BaseInv
  BY BaseInit
<1>2. /\ pc[Main] = "down" /\ \A c \in Client : pc[c] = "idle"
      /\ \A t \in Thread : pc[t] # "storage"
      /\ st_pc = "idle"
  BY EngineAssumption DEF Init, StorageInit, Thread
<1>. QED  BY <1>1, <1>2, Zenon DEF ReadInv, BaseInv, Handover, ServesCurrent, GetsCovered,
                            ReadsLinearizable

\* Every step preserves ReadInv.
LEMMA ReadStep ==
  ASSUME ReadInv, [Next]_vars
  PROVE  ReadInv'
<1>1. BaseInv /\ Handover /\ ServesCurrent /\ GetsCovered
  BY DEF ReadInv, BaseInv
<1>2. BaseInv'
  BY <1>1, BaseStep
<1>3. Handover'
  BY <1>1, <1>2, HandoverStep
<1>4. ServesCurrent'
  BY <1>1, <1>2, ServesStep
<1>5. GetsCovered'
  BY <1>1, <1>2, GetsCoveredStep
<1>6. ReadsLinearizable'
  BY <1>2, LinearizableStep
<1>. QED  BY <1>2, <1>3, <1>4, <1>5, <1>6 DEF ReadInv, BaseInv

(***************************************************************************)
(* ReadInv is an inductive invariant of the engine, for any keys, values,  *)
(* clients, limits, sync strategy, crashes and failed system calls.        *)
(***************************************************************************)
THEOREM ReadInvariant == Spec => []ReadInv
<1>1. Init => ReadInv
  BY ReadInit
<1>2. ReadInv /\ [Next]_vars => ReadInv'
  BY ReadStep
<1>. QED  BY <1>1, <1>2, PTL DEF Spec

(***************************************************************************)
(* Reads are linearizable: get() in engine.rs returns a value its key had  *)
(* at some moment since the call.                                          *)
(***************************************************************************)
THEOREM Linearizable == Spec => []ReadsLinearizable
<1>1. ReadInv => ReadsLinearizable
  BY DEF ReadInv
<1>. QED  BY <1>1, ReadInvariant, PTL

(***************************************************************************)
(* While the engine is up, a get that runs alone finds the value of the    *)
(* last write applied, at every moment of every flush_internal().          *)
(***************************************************************************)
THEOREM CurrentServed == Spec => []ServesCurrent
<1>1. ReadInv => ServesCurrent
  BY DEF ReadInv
<1>. QED  BY <1>1, ReadInvariant, PTL
=============================================================================

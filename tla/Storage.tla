------------------------------ MODULE Storage ------------------------------
(***************************************************************************)
(* The storage manager (storage/manager.rs) and the SSTables it owns       *)
(* (storage/sstable/): files named by an increasing id, written once by    *)
(* SSTableBuilder and then only read, and the list of open readers that    *)
(* get() searches from the front.                                          *)
(*                                                                         *)
(* A flush is called when st_pc is "idle" and runs in steps until st_pc is *)
(* "idle" again; st_res then holds its Result. A file is "partial" from    *)
(* its creation until finish() has flushed index and footer, then          *)
(* "complete", and "synced" after sync_all().                              *)
(***************************************************************************)
EXTENDS KVTypes, Sequences

VARIABLES
  sst_files,          \* the directory: [ids -> [state, data]]
  sstables,           \* ids of the open readers, newest first
  next_sstable_id,
  st_pc,
  st_res

storageVars == <<sst_files, sstables, next_sstable_id, st_pc, st_res>>

\* The id of the table under construction.
Building == next_sstable_id - 1

FileState == {"partial", "complete", "synced"}
SSTFile   == [state : FileState, data : Table]

StorageTypeOK ==
  /\ DOMAIN sst_files \subseteq Nat
  /\ sst_files \in [DOMAIN sst_files -> SSTFile]
  /\ sstables \in Seq(Nat)
  /\ next_sstable_id \in Nat \ {0}
  /\ st_pc \in {"idle", "finish", "sync", "publish"}
  /\ st_res \in {"ok", "err"}
  /\ st_pc # "idle" => Building \in DOMAIN sst_files

StorageInit ==
  /\ sst_files = [i \in {} |-> 0]
  /\ sstables = <<>>
  /\ next_sstable_id = 1
  /\ st_pc = "idle" /\ st_res = "ok"

-----------------------------------------------------------------------------
(***************************************************************************)
(* Lookup.  might_contain() compares the key with the least and the        *)
(* greatest key of the reader's index; get() of a reader finds the key in  *)
(* that index or answers KeyNotFound.  The first reader with an entry for  *)
(* the key decides, tombstone or not.  The search holds the lock of the    *)
(* list from its first to its last step.                                   *)
(***************************************************************************)
InIndex(i, k) == sst_files[i].data[k] # Absent

MightContain(i, k) ==
  \E lo, hi \in Key : InIndex(i, lo) /\ InIndex(i, hi) /\ lo <= k /\ k <= hi

\* Mutation of Finds: a tombstone does not end the search.
FindsValue(i, k) ==
  MightContain(i, k) /\ InIndex(i, k) /\ sst_files[i].data[k] # Tombstone

Finds(i, k) == MightContain(i, k) /\ InIndex(i, k)

\* Position n of the list is the one that answers for k.
Answers(n, k) ==
  /\ n \in DOMAIN sstables
  /\ Finds(sstables[n], k)
  /\ \A m \in 1..(n - 1) : ~Finds(sstables[m], k)

\* StorageManager::get: v is the slot the search ends with.
StorageGet(k, v) ==
  \/ \E n \in DOMAIN sstables : Answers(n, k) /\ v = sst_files[sstables[n]].data[k]
  \/ v = Absent /\ \A n \in DOMAIN sstables : ~Finds(sstables[n], k)

-----------------------------------------------------------------------------
(***************************************************************************)
(* StorageManager::flush.                                                  *)
(***************************************************************************)
StReturn(r) == st_pc' = "idle" /\ st_res' = r

SetFile(i, s, d) ==
  sst_files' = [j \in DOMAIN sst_files \cup {i} |->
                  IF j = i THEN [state |-> s, data |-> d] ELSE sst_files[j]]

\* Mutation of StorageFlush: the file is not created.
StorageFlushLazy(mem) ==
  /\ st_pc = "idle" /\ ~IsEmpty(mem)
  /\ next_sstable_id' = next_sstable_id + 1
  /\ st_pc' = "finish"
  /\ UNCHANGED <<sst_files, sstables, st_res>>

\* SSTableBuilder::new: the file is created, or emptied.
BuilderNew(i) == SetFile(i, "partial", EmptyTable)

\* The id is taken and SSTableBuilder::new creates the file.  An empty
\* memtable is an error, before anything else.
StorageFlush(mem) ==
  /\ st_pc = "idle"
  /\ \/ /\ IsEmpty(mem)
        /\ StReturn("err")
        /\ UNCHANGED <<sst_files, next_sstable_id>>
     \/ /\ ~IsEmpty(mem)
        /\ next_sstable_id' = next_sstable_id + 1
        /\ BuilderNew(next_sstable_id)
        /\ st_pc' = "finish"
        /\ UNCHANGED st_res
  /\ UNCHANGED sstables

\* add() for every entry of the memtable, then the index, the footer and
\* the final flush of the BufWriter.
BuilderFinish(mem) ==
  /\ st_pc = "finish"
  /\ SetFile(Building, "complete", mem)
  /\ st_pc' = "sync"
  /\ UNCHANGED <<sstables, next_sstable_id, st_res>>

\* Mutation of BuilderSync: no sync_all().
BuilderNoSync ==
  /\ st_pc = "sync"
  /\ st_pc' = "publish"
  /\ UNCHANGED <<sst_files, sstables, next_sstable_id, st_res>>

BuilderSync ==
  /\ st_pc = "sync"
  /\ SetFile(Building, "synced", sst_files[Building].data)
  /\ st_pc' = "publish"
  /\ UNCHANGED <<sstables, next_sstable_id, st_res>>

\* Mutation of Publish: push(reader).
PublishLast ==
  /\ st_pc = "publish"
  /\ sstables' = Append(sstables, Building)
  /\ StReturn("ok")
  /\ UNCHANGED <<sst_files, next_sstable_id>>

\* SSTableReader::open on the new file, and insert(0, reader).
Publish ==
  /\ st_pc = "publish"
  /\ sstables' = <<Building>> \o sstables
  /\ StReturn("ok")
  /\ UNCHANGED <<sst_files, next_sstable_id>>

StorageStep(mem) == BuilderFinish(mem) \/ BuilderSync \/ Publish

\* The file cannot be created: the id is used up all the same.
CreateFails(mem) ==
  /\ st_pc = "idle" /\ ~IsEmpty(mem)
  /\ next_sstable_id' = next_sstable_id + 1
  /\ StReturn("err")
  /\ UNCHANGED <<sst_files, sstables>>

\* A write, sync_all() or SSTableReader::open fails.  The file stays as it is.
StorageFails ==
  /\ st_pc # "idle"
  /\ StReturn("err")
  /\ UNCHANGED <<sst_files, sstables, next_sstable_id>>

-----------------------------------------------------------------------------
(***************************************************************************)
(* StorageManager::open.  The ids found in the directory are taken from    *)
(* the highest to the lowest and a reader opened for each.  A partial file *)
(* usually makes the open fail, with an error or a panic; if its last      *)
(* bytes happen to pass for a footer it opens with an empty index.         *)
(***************************************************************************)
OpenStart ==
  /\ sstables' = <<>>
  /\ next_sstable_id' = 1
  /\ UNCHANGED <<sst_files, st_pc, st_res>>

Opened == {sstables[n] : n \in DOMAIN sstables}

\* The id that comes next in sstable_ids.
OpensNext(i) ==
  /\ i \in DOMAIN sst_files \ Opened
  /\ \A j \in DOMAIN sst_files \ Opened : j <= i

\* Mutation of OpenReader: the next id is the last one in use.
OpenReaderSameId(i) ==
  /\ OpensNext(i)
  /\ sstables' = Append(sstables, i)
  /\ next_sstable_id' = IF sstables = <<>> THEN i ELSE next_sstable_id
  /\ UNCHANGED <<sst_files, st_pc, st_res>>

OpenReader(i) ==
  /\ OpensNext(i)
  /\ sstables' = Append(sstables, i)
  /\ next_sstable_id' = IF sstables = <<>> THEN i + 1 ELSE next_sstable_id
  /\ UNCHANGED <<sst_files, st_pc, st_res>>

\* SSTableReader::open rejects the next file.
RejectReader(i) == OpensNext(i) /\ sst_files[i].state = "partial"

OpenDone == DOMAIN sst_files \subseteq Opened

-----------------------------------------------------------------------------
\* The process ends: the files stay, the readers are gone.
StorageKilled ==
  /\ sstables' = <<>> /\ next_sstable_id' = 1
  /\ st_pc' = "idle" /\ st_res' = "ok"
  /\ UNCHANGED sst_files

\* A power loss leaves every synced file (whose directory entry the sync is
\* taken to cover); any other may be gone, partial or, if it was complete,
\* on the disk after all.
StoragePowerLost ==
  /\ \E S \in SUBSET DOMAIN sst_files :
       /\ \A i \in DOMAIN sst_files \ S : sst_files[i].state # "synced"
       /\ \E P \in SUBSET {i \in S : sst_files[i].state # "synced"} :
            sst_files' = [i \in S |->
              IF i \in P \/ sst_files[i].state = "partial"
                THEN [state |-> "partial", data |-> EmptyTable]
                ELSE [sst_files[i] EXCEPT !.state = "synced"]]
  /\ sstables' = <<>> /\ next_sstable_id' = 1
  /\ st_pc' = "idle" /\ st_res' = "ok"
=============================================================================

---------------------------- MODULE StorageSpec ----------------------------
(***************************************************************************)
(* The storage manager on its own: flushes of arbitrary memtables, failing *)
(* at every step, kills and power losses, and restarts that load whatever  *)
(* files they left.                                                        *)
(***************************************************************************)
EXTENDS Storage, SequencesExt

CONSTANT MaxTables    \* bound on the ids in use

ASSUME MaxTablesAssumption == MaxTables \in Nat

VARIABLES phase,      \* "down", "loading" or "ready"
          mem         \* the memtable flush() was called with

ssVars == <<storageVars, phase, mem>>

SSTypeOK ==
  /\ StorageTypeOK
  /\ phase \in {"down", "loading", "ready"}
  /\ mem \in Table

SSInit == StorageInit /\ phase = "down" /\ mem = EmptyTable

SSOpen ==
  /\ phase = "down" /\ phase' = "loading"
  /\ OpenStart
  /\ UNCHANGED mem

SSLoad ==
  /\ phase = "loading"
  /\ \E i \in DOMAIN sst_files : OpenReader(i)
  /\ UNCHANGED <<phase, mem>>

SSReject ==
  /\ phase = "loading"
  /\ \E i \in DOMAIN sst_files : RejectReader(i)
  /\ phase' = "down"
  /\ StorageKilled
  /\ UNCHANGED mem

SSReady ==
  /\ phase = "loading" /\ OpenDone
  /\ phase' = "ready"
  /\ UNCHANGED <<storageVars, mem>>

SSFlush ==
  /\ phase = "ready" /\ st_pc = "idle" /\ next_sstable_id <= MaxTables
  /\ mem' \in Table
  /\ StorageFlush(mem') \/ CreateFails(mem')
  /\ UNCHANGED phase

SSStep == (StorageStep(mem) \/ StorageFails) /\ UNCHANGED <<phase, mem>>

SSCrash ==
  /\ phase' = "down"
  /\ StorageKilled \/ StoragePowerLost
  /\ mem' = EmptyTable

SSNext == SSOpen \/ SSLoad \/ SSReject \/ SSReady \/ SSFlush \/ SSStep \/ SSCrash

SSSpec == SSInit /\ [][SSNext]_ssVars

-----------------------------------------------------------------------------
(***************************************************************************)
(* get() finds what applying the open tables one after the other, oldest   *)
(* first, leaves for the key: the order of the list, the range filter, the *)
(* index lookup and the early exit at the first entry, tombstones          *)
(* included, together lose nothing and resurrect nothing.                  *)
(***************************************************************************)
Overlay(t, u) == [k \in Key |-> IF u[k] # Absent THEN u[k] ELSE t[k]]

Contents ==
  FoldLeft(LAMBDA t, i : Overlay(t, sst_files[i].data), EmptyTable,
           SetToSortSeq(Opened, <))

SearchIsOverlay ==
  phase = "ready" => \A k \in Key, s \in Slot : StorageGet(k, s) <=> s = Contents[k]

(***************************************************************************)
(* A table whose file is synced is never overwritten, emptied or lost,     *)
(* whatever crashes, failed flushes and restarts follow: an id that is on  *)
(* disk is never given out again.                                          *)
(***************************************************************************)
SyncedStays ==
  [][\A i \in DOMAIN sst_files : sst_files[i].state = "synced" =>
       i \in DOMAIN sst_files' /\ sst_files'[i] = sst_files[i]]_ssVars
=============================================================================

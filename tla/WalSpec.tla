------------------------------ MODULE WalSpec ------------------------------
(***************************************************************************)
(* The write-ahead log on its own, called in every order its interface     *)
(* allows: appends, syncs, truncations, drops, with failing system calls,  *)
(* kills and power losses at every step, and restarts.                     *)
(***************************************************************************)
EXTENDS Wal, FiniteSets

CONSTANT MaxLsn       \* bound on the appends between two truncations

ASSUME MaxLsnAssumption == MaxLsn \in Nat

VARIABLES running,    \* a writer is open
          appending,  \* the record of the append() under way, if any
          acked       \* records whose append() returned Ok, since the log
                      \* was last emptied

wsVars == <<walVars, running, appending, acked>>

WSInit == WalInit /\ running = FALSE /\ appending = {} /\ acked = {}

\* What recover() returned is in an SSTable; the log is emptied.
WSOpen ==
  /\ ~running /\ running' = TRUE
  /\ WalOpen
  /\ UNCHANGED <<appending, acked>>

WSAppend(k, e) ==
  /\ running /\ appending = {} /\ current_lsn <= MaxLsn
  /\ WalAppend(k, e)
  /\ appending' = {NewEntry(k, e)}
  /\ UNCHANGED <<running, acked>>

WSAppended ==
  /\ appending # {} /\ wal_pc = "idle"
  /\ acked' = IF wal_res = "ok" THEN acked \cup appending ELSE acked
  /\ appending' = {}
  /\ UNCHANGED <<walVars, running>>

WSCall ==
  /\ running /\ appending = {}
  /\ WalSync \/ WalTruncate
  /\ UNCHANGED <<running, appending, acked>>

WSStep ==
  /\ WalStep \/ WalFail
  /\ acked' = IF wal_pc = "truncate" /\ wal_pc' = "idle" /\ wal_res' = "ok" THEN {} ELSE acked
  /\ UNCHANGED <<running, appending>>

WSCrash ==
  /\ running /\ running' = FALSE
  /\ WalKilled \/ WalPowerLost
  /\ appending' = {} /\ acked' = {}

WSNext ==
  \/ \E k \in Key, e \in Value : WSAppend(k, e)
  \/ WSOpen \/ WSAppended \/ WSCall \/ WSStep \/ WSCrash

WSSpec == WSInit /\ [][WSNext]_wsVars

-----------------------------------------------------------------------------
Recovered(f) == {f[i] : i \in {j \in DOMAIN f : Readable(f, j)}}

(***************************************************************************)
(* The sync strategy bounds the loss: whatever a kill or a power loss      *)
(* leaves of the log, fewer than SyncCount acknowledged records are not    *)
(* recovered (none with EveryWrite), although append() fails and is        *)
(* retried and the BufWriter spills on its own.                            *)
(***************************************************************************)
LossBounded ==
  \A f \in durable \cup {AfterKill} : Cardinality(acked \ Recovered(f)) < SyncCount

(***************************************************************************)
(* What survives a kill has no holes: with a record, every record          *)
(* acknowledged before it is recovered.                                    *)
(***************************************************************************)
NoHoles ==
  \A r \in acked, q \in Recovered(AfterKill) : r.lsn < q.lsn => r \in Recovered(AfterKill)

(***************************************************************************)
(* After sync() has returned Ok and until the next call nothing that was   *)
(* acknowledged depends on memory or on the page cache.                    *)
(***************************************************************************)
SyncedIsDurable ==
  (running /\ uncommitted_count = 0 /\ buffer = <<>> /\ wal_pc = "idle")
    => \A f \in durable : acked \subseteq Recovered(f)


(***************************************************************************)
(* The documented treatment of corruption: recovery skips a corrupted      *)
(* entry, so every intact record that a kill leaves is recovered.          *)
(***************************************************************************)
CorruptedSkipped ==
  \A i \in DOMAIN AfterKill : AfterKill[i] # Torn => AfterKill[i] \in Recovered(AfterKill)
=============================================================================

-------------------------------- MODULE Wal --------------------------------
(***************************************************************************)
(* The write-ahead log (wal/writer.rs, wal/reader.rs, wal/entry.rs): a     *)
(* WalWriter over a BufWriter<File>, the file the operating system holds,  *)
(* and what of it a power loss may leave.                                  *)
(*                                                                         *)
(* A call of the writer (append, sync, truncate, drop) is made when wal_pc *)
(* is "idle" and runs as several steps, one per system call, until wal_pc  *)
(* is "idle" again; wal_res then holds its Result. A record is written as  *)
(* a whole or in two parts; a first part without its rest is Torn, which   *)
(* the reader recognises by length or CRC.                                 *)
(***************************************************************************)
EXTENDS KVTypes, Sequences

CONSTANTS SyncCount,  \* EveryNEntries{count}; EveryWrite is SyncCount = 1
          Large,      \* values whose record is too large for the BufWriter
          Torn        \* an incomplete record

ASSUME WalAssumption ==
  /\ SyncCount \in Nat \ {0}
  /\ Large \subseteq Value

VARIABLES
  buffer,             \* records in the BufWriter
  pending,            \* the record append() is writing, while buffer drains
  parts,              \* parts of the next record already in the file
  current_lsn,
  uncommitted_count,
  wal_pc,
  wal_res,
  wal_file,           \* wal.log as the operating system holds it
  durable             \* the contents of wal.log a power loss may leave

walVars == <<buffer, pending, parts, current_lsn, uncommitted_count,
             wal_pc, wal_res, wal_file, durable>>

Record == [lsn : Nat, key : Key, val : Entry]
Log    == Seq(Record \cup {Torn})

WalTypeOK ==
  /\ buffer \in Seq(Record)
  /\ pending \in Seq(Record)
  /\ parts \in {0, 1}
  /\ current_lsn \in Nat
  /\ uncommitted_count \in Nat
  /\ wal_pc \in {"idle", "spill", "sync", "truncate", "drop"}
  /\ wal_res \in {"ok", "err"}
  /\ wal_file \in Log
  /\ durable \in SUBSET Log
  /\ wal_pc = "spill" => pending # <<>>

\* No wal.log yet, and no writer.
WalInit ==
  /\ buffer = <<>> /\ pending = <<>> /\ parts = 0
  /\ current_lsn = 1 /\ uncommitted_count = 0
  /\ wal_pc = "idle" /\ wal_res = "ok"
  /\ wal_file = <<>> /\ durable = {<<>>}

\* WalEntry::deserialize accepts a record that is whole: length, CRC and LSN.
Intact(r) == r # Torn

(***************************************************************************)
(* The reader.  next_entry() stops for good at the first record that is    *)
(* incomplete or whose CRC fails, so the entries recover() returns are     *)
(* those with nothing Torn at or before them.                              *)
(***************************************************************************)
Readable(f, i) == i \in DOMAIN f /\ \A j \in 1..i : Intact(f[j])

-----------------------------------------------------------------------------
(***************************************************************************)
(* WalWriter::append.  The LSN is taken first, whatever happens next.  A   *)
(* record is copied into the BufWriter if there is room; otherwise the     *)
(* buffer is drained first, and a Large record then goes straight to the   *)
(* file.                                                                   *)
(***************************************************************************)
WalReturn(r) == wal_pc' = "idle" /\ wal_res' = r

\* Mutation of Counted: one record too late.
CountedLate ==
  /\ uncommitted_count' = uncommitted_count + 1
  /\ IF uncommitted_count + 1 > SyncCount
       THEN wal_pc' = "sync" /\ UNCHANGED wal_res
       ELSE WalReturn("ok")

\* Steps 5-7 of append(): count the record, and sync() if it is due.
Counted ==
  /\ uncommitted_count' = uncommitted_count + 1
  /\ IF uncommitted_count + 1 >= SyncCount
       THEN wal_pc' = "sync" /\ UNCHANGED wal_res
       ELSE WalReturn("ok")

\* WalEntry::new, serialized: what the reader will find if it is whole.
NewEntry(k, e) == [lsn |-> current_lsn, key |-> k, val |-> e]

WalAppend(k, e) ==
  LET r == NewEntry(k, e) IN
  /\ wal_pc = "idle"
  /\ current_lsn' = current_lsn + 1
  /\ \/ /\ e \notin Large
        /\ buffer' = Append(buffer, r)
        /\ Counted
        /\ UNCHANGED pending
     \/ /\ e \in Large \/ buffer # <<>>
        /\ pending' = <<r>>
        /\ wal_pc' = "spill"
        /\ UNCHANGED <<buffer, uncommitted_count, wal_res>>
  /\ UNCHANGED <<parts, wal_file, durable>>

\* The BufWriter is empty: place the pending record.
WalPlace ==
  LET r == pending[1] IN
  /\ wal_pc = "spill" /\ buffer = <<>>
  /\ \/ /\ r.val \notin Large
        /\ buffer' = <<r>>
        /\ UNCHANGED <<parts, wal_file, durable>>
     \/ /\ r.val \in Large
        /\ wal_file' = Append(wal_file, r)
        /\ durable' = durable \cup {Append(wal_file, Torn), wal_file'}
        /\ parts' = 0
        /\ UNCHANGED buffer
  /\ pending' = <<>>
  /\ Counted
  /\ UNCHANGED current_lsn

\* The record written next in a draining call.
Draining == \/ wal_pc # "idle" /\ buffer # <<>>
            \/ wal_pc = "spill" /\ pending[1].val \in Large

\* A write(2) of BufWriter::flush_buf that takes the whole first record.
WalWriteOut ==
  /\ wal_pc # "idle" /\ buffer # <<>>
  /\ wal_file' = Append(wal_file, Head(buffer))
  /\ durable' = durable \cup {Append(wal_file, Torn), wal_file'}
  /\ buffer' = Tail(buffer)
  /\ parts' = 0
  /\ UNCHANGED <<pending, current_lsn, uncommitted_count, wal_pc, wal_res>>

\* A write(2) that stops within the record.
WalWritePart ==
  /\ Draining /\ parts = 0
  /\ parts' = 1
  /\ durable' = durable \cup {Append(wal_file, Torn)}
  /\ UNCHANGED <<buffer, pending, current_lsn, uncommitted_count, wal_pc,
                 wal_res, wal_file>>

\* Mutation of WalFsync: flush() without sync_all().
WalFlushOnly ==
  /\ wal_pc = "sync" /\ buffer = <<>>
  /\ uncommitted_count' = 0
  /\ WalReturn("ok")
  /\ UNCHANGED <<buffer, pending, parts, current_lsn, wal_file, durable>>

\* sync(): the buffer is flushed; sync_all() and reset of the counter.
WalFsync ==
  /\ wal_pc = "sync" /\ buffer = <<>>
  /\ durable' = {wal_file}
  /\ uncommitted_count' = 0
  /\ WalReturn("ok")
  /\ UNCHANGED <<buffer, pending, parts, current_lsn, wal_file>>

\* truncate(): the buffer is flushed; set_len(0), seek and reset.  Nothing
\* here is synced.
WalSetLen ==
  /\ wal_pc = "truncate" /\ buffer = <<>>
  /\ wal_file' = <<>>
  /\ durable' = durable \cup {<<>>}
  /\ current_lsn' = 1 /\ uncommitted_count' = 0
  /\ WalReturn("ok")
  /\ UNCHANGED <<buffer, pending, parts>>

\* Mutation of WalDropped: the writer is forgotten, its buffer not flushed.
WalForgotten ==
  /\ wal_pc = "drop"
  /\ buffer' = <<>>
  /\ WalReturn("ok")
  /\ UNCHANGED <<pending, parts, current_lsn, uncommitted_count, wal_file, durable>>

\* The BufWriter is dropped: it has flushed what it held.
WalDropped ==
  /\ wal_pc = "drop" /\ buffer = <<>>
  /\ WalReturn("ok")
  /\ UNCHANGED <<buffer, pending, parts, current_lsn, uncommitted_count,
                 wal_file, durable>>

WalStep == \/ WalPlace \/ WalWriteOut \/ WalWritePart
           \/ WalFsync \/ WalSetLen \/ WalDropped

-----------------------------------------------------------------------------
\* Mutation of WalWriteFails: the buffer is dropped with the error.
WalWriteLoses ==
  /\ Draining
  /\ buffer' = <<>> /\ pending' = <<>> /\ parts' = 0
  /\ WalReturn("err")
  /\ UNCHANGED <<current_lsn, uncommitted_count, wal_file, durable>>

\* Mutation of WalCallFails: truncate() resets the LSN before set_len().
WalCallFailsReset ==
  /\ wal_pc \in {"sync", "truncate"} /\ buffer = <<>>
  /\ current_lsn' = IF wal_pc = "truncate" THEN 1 ELSE current_lsn
  /\ WalReturn("err")
  /\ UNCHANGED <<buffer, pending, parts, uncommitted_count, wal_file, durable>>

(***************************************************************************)
(* Errors.  A failed call returns at once (?).  BufWriter keeps what it    *)
(* could not write and continues there; the part of a Large record that    *)
(* was written stays in the file without its rest.  A failed drop is       *)
(* ignored, and the buffer is gone.                                        *)
(***************************************************************************)
WalWriteFails ==
  /\ Draining
  /\ IF parts = 1 /\ (buffer = <<>> \/ wal_pc = "drop")
       THEN /\ wal_file' = Append(wal_file, Torn)
            /\ parts' = 0
       ELSE UNCHANGED <<wal_file, parts>>
  /\ pending' = <<>>
  /\ buffer' = IF wal_pc = "drop" THEN <<>> ELSE buffer
  /\ WalReturn("err")
  /\ UNCHANGED <<current_lsn, uncommitted_count, durable>>

\* sync_all() or set_len() fails.
WalCallFails ==
  /\ wal_pc \in {"sync", "truncate"} /\ buffer = <<>>
  /\ WalReturn("err")
  /\ UNCHANGED <<buffer, pending, parts, current_lsn, uncommitted_count,
                 wal_file, durable>>

WalFail == WalWriteFails \/ WalCallFails

-----------------------------------------------------------------------------
\* The calls other than append().
WalCall(c) ==
  /\ wal_pc = "idle"
  /\ wal_pc' = c
  /\ UNCHANGED <<buffer, pending, parts, current_lsn, uncommitted_count,
                 wal_res, wal_file, durable>>

WalSync     == WalCall("sync")
WalTruncate == WalCall("truncate")
WalDrop     == WalCall("drop")

\* WalWriter::open: a new writer on an emptied file.  The truncation is not
\* synced.
WalOpen ==
  /\ wal_file' = <<>>
  /\ durable' = durable \cup {<<>>}
  /\ current_lsn' = 1 /\ uncommitted_count' = 0
  /\ UNCHANGED <<buffer, pending, parts, wal_pc, wal_res>>

\* The process ends and its memory with it; wal.log is left as file f.
WalLost(f) ==
  /\ wal_file' = f
  /\ buffer' = <<>> /\ pending' = <<>> /\ parts' = 0
  /\ current_lsn' = 1 /\ uncommitted_count' = 0
  /\ wal_pc' = "idle" /\ wal_res' = "ok"

\* A kill leaves what was written; a power loss any content of durable.
AfterKill == IF parts = 1 THEN Append(wal_file, Torn) ELSE wal_file

WalKilled == WalLost(AfterKill) /\ UNCHANGED durable

WalPowerLost == \E f \in durable : WalLost(f) /\ durable' = {f}
=============================================================================

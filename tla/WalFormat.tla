----------------------------- MODULE WalFormat -----------------------------
(***************************************************************************)
(* The log as bytes (wal/entry.rs, wal/reader.rs, wal/recovery.rs): what   *)
(* WalRecovery::recover and verify and the iterator of WalReader make of a *)
(* log that was cut anywhere and in which a cell was damaged.              *)
(*                                                                         *)
(* A file is a sequence of cells; a number of the header (LSN, CRC,        *)
(* length) takes one and so does each part of the data.  A cell is itself  *)
(* a sequence, <<n>> for a number; the CRC is an ideal one, the sequence   *)
(* of all it covers.  The data of an entry starts with its LSN.            *)
(***************************************************************************)
EXTENDS Naturals, Sequences, SequencesExt

CONSTANTS Logs,     \* the logs that were written: sequences of operations
          Damage,   \* what a damaged cell may hold
          MaxErrors \* bound: errors after which no more items are asked for

EntryHeader == 3

VARIABLES
  log,         \* the operations that were logged; the n-th has LSN n
  written,     \* the file before it was cut
  damaged,     \* the place of the damaged cell, or 0
  wal_bytes,   \* what is left of it
  wal_reader,  \* who reads: "recover", "verify" or "iterate"
  position,    \* WalReader's count of the cells it has passed
  cursor,      \* where the File reads
  entries,     \* the entries returned
  stats,       \* RecoveryResult
  errors,      \* items of the iterator that were errors
  r_pc         \* "reading", "done" or "failed"

wfVars == <<log, written, damaged, wal_bytes, wal_reader, position, cursor,
            entries, stats, errors, r_pc>>

-----------------------------------------------------------------------------
(***************************************************************************)
(* WalEntry.                                                               *)
(***************************************************************************)
\* The CRC of LSN, length and data.
Crc(lsn, len, data) == lsn \o len \o FlattenSeq(data)

EntryOf(lsn, operation) == <<lsn>> \o operation

Serialize(lsn, operation) ==
  LET data == [i \in 1..(1 + Len(operation)) |-> <<EntryOf(lsn, operation)[i]>>]
      len  == <<Len(data)>> IN
  << <<lsn>>, Crc(<<lsn>>, len, data), len>> \o data

\* Mutation of Deserialize: the CRC is computed but not compared.
DeserializeUnchecked(bytes) ==
  LET data == SubSeq(bytes, EntryHeader + 1, Len(bytes)) IN
  IF data = <<>> \/ data[1] # bytes[1] THEN {} ELSE {FlattenSeq(data)}

\* {} for WalCorruption.  bytes is as long as its header says; data that
\* passes the CRC is what was serialized.
Deserialize(bytes) ==
  LET data == SubSeq(bytes, EntryHeader + 1, Len(bytes)) IN
  IF \/ bytes[2] # Crc(bytes[1], bytes[3], data)
     \/ data = <<>> \/ data[1] # bytes[1]
    THEN {} ELSE {FlattenSeq(data)}

-----------------------------------------------------------------------------
(***************************************************************************)
(* WalReader::next_entry.  Only an entry that is returned advances         *)
(* position, while every read moves the cursor.                            *)
(***************************************************************************)
Outcome(res, e, pos, cur) == [res |-> res, entry |-> e, pos |-> pos, cur |-> cur]

\* Mutation of NextEntry: the header is not counted in the check for a
\* complete entry.
NextEntryShort(p, c) ==
  LET n == Len(wal_bytes)
      len == wal_bytes[c + 3][1]
      after == c + EntryHeader + len
      e == Deserialize(SubSeq(wal_bytes, c + 1, after)) IN
  IF p >= n \/ p + EntryHeader > n      THEN Outcome("none", <<>>, p, c)
  ELSE IF c + EntryHeader > n           THEN Outcome("io", <<>>, p, n)
  ELSE IF p + len > n                  THEN Outcome("none", <<>>, p, c + EntryHeader)
  ELSE IF after > n                    THEN Outcome("io", <<>>, p, n)
  ELSE IF e = {}                       THEN Outcome("corrupt", <<>>, p, after)
  ELSE Outcome("some", CHOOSE x \in e : TRUE, p + EntryHeader + len, after)

NextEntry(p, c) ==
  LET n == Len(wal_bytes)
      len == wal_bytes[c + 3][1]
      after == c + EntryHeader + len
      e == Deserialize(SubSeq(wal_bytes, c + 1, after)) IN
  IF p >= n \/ p + EntryHeader > n      THEN Outcome("none", <<>>, p, c)
  ELSE IF c + EntryHeader > n           THEN Outcome("io", <<>>, p, n)
  ELSE IF p + EntryHeader + len > n     THEN Outcome("none", <<>>, p, c + EntryHeader)
  ELSE IF after > n                    THEN Outcome("io", <<>>, p, n)
  ELSE IF e = {}                       THEN Outcome("corrupt", <<>>, p, after)
  ELSE Outcome("some", CHOOSE x \in e : TRUE, p + EntryHeader + len, after)

Written(l) == FlattenSeq([n \in DOMAIN l |-> Serialize(n, l[n])])

NoStats == [recovered |-> 0, corrupted |-> 0, last_lsn |-> 0, truncated |-> FALSE]

Readers == {"recover", "verify", "iterate"}

\* A log, cut anywhere, with at most one damaged cell.
WFInit ==
  /\ log \in Logs
  /\ written = Written(log)
  /\ \E n \in 0..Len(written) : \E d \in 0..n : \E x \in Damage :
       /\ damaged = d
       /\ wal_bytes = [i \in 1..n |-> IF i = d THEN <<x>> ELSE written[i]]
  /\ wal_reader \in Readers
  /\ position = 0 /\ cursor = 0
  /\ entries = <<>> /\ stats = NoStats /\ errors = 0
  /\ r_pc = "reading"

-----------------------------------------------------------------------------
Advance(o) == position' = o.pos /\ cursor' = o.cur

\* Mutation of Counted: stopping at a corrupted entry truncates nothing.
CountedQuiet(o) ==
  [recovered |-> stats.recovered + (IF o.res = "some" THEN 1 ELSE 0),
   corrupted |-> stats.corrupted + (IF o.res = "corrupt" THEN 1 ELSE 0),
   last_lsn  |-> IF o.res = "some" THEN o.entry[1] ELSE stats.last_lsn,
   truncated |-> o.res = "none" /\ o.pos < Len(wal_bytes)]

\* The RecoveryResult after one more call of next_entry.
Counted(o) ==
  [recovered |-> stats.recovered + (IF o.res = "some" THEN 1 ELSE 0),
   corrupted |-> stats.corrupted + (IF o.res = "corrupt" THEN 1 ELSE 0),
   last_lsn  |-> IF o.res = "some" THEN o.entry[1] ELSE stats.last_lsn,
   truncated |-> o.res = "corrupt" \/ (o.res = "none" /\ o.pos < Len(wal_bytes))]

\* One turn of the loop of recover() and of verify().
LoopTurn(o) ==
  /\ stats' = Counted(o)
  /\ r_pc' = CASE o.res = "some" -> "reading"
               [] o.res = "io"   -> "failed"
               [] OTHER          -> "done"

Recover ==
  LET o == NextEntry(position, cursor) IN
  /\ wal_reader = "recover" /\ r_pc = "reading"
  /\ Advance(o) /\ LoopTurn(o)
  /\ entries' = IF o.res = "some" THEN Append(entries, o.entry) ELSE entries
  /\ UNCHANGED <<log, written, damaged, wal_bytes, wal_reader, errors>>

Verify ==
  /\ wal_reader = "verify" /\ r_pc = "reading"
  /\ Advance(NextEntry(position, cursor)) /\ LoopTurn(NextEntry(position, cursor))
  /\ UNCHANGED <<log, written, damaged, wal_bytes, wal_reader, errors, entries>>

\* WalIterator::next, called until it returns None.
WalIterNext ==
  LET o == NextEntry(position, cursor) IN
  /\ wal_reader = "iterate" /\ r_pc = "reading" /\ errors < MaxErrors
  /\ Advance(o)
  /\ errors' = IF o.res \in {"corrupt", "io"} THEN errors + 1 ELSE errors
  /\ entries' = IF o.res = "some" THEN Append(entries, o.entry) ELSE entries
  /\ r_pc' = IF o.res = "none" THEN "done" ELSE "reading"
  /\ UNCHANGED <<log, written, damaged, wal_bytes, wal_reader, stats>>

WFNext == Recover \/ Verify \/ WalIterNext

WFSpec == WFInit /\ [][WFNext]_wfVars

-----------------------------------------------------------------------------
\* Where the n-th entry ends, and whether all of it is there and unharmed.
EndOf(n) == Len(Written(SubSeq(log, 1, n)))

Whole(n) ==
  /\ EndOf(n) <= Len(wal_bytes)
  /\ \A i \in (EndOf(n - 1) + 1)..EndOf(n) : wal_bytes[i] = written[i]

(***************************************************************************)
(* Whatever was cut or damaged, recover() returns the entries before the   *)
(* first that is not whole, as they were written, and no other, and it     *)
(* does not fail; verify() reports the same number and last LSN.           *)
(***************************************************************************)
RecoversPrefix ==
  wal_reader \in {"recover", "verify"} =>
    /\ r_pc # "failed"
    /\ wal_reader = "recover" => \A n \in DOMAIN entries : entries[n] = EntryOf(n, log[n])
    /\ r_pc = "done" =>
         /\ \A n \in DOMAIN log : n <= stats.recovered <=> \A m \in 1..n : Whole(m)
         /\ stats.last_lsn = stats.recovered
         /\ wal_reader = "recover" => stats.recovered = Len(entries)

(***************************************************************************)
(* was_truncated tells whether the file holds anything beyond the entries  *)
(* that were recovered; a file that is only cut is not called corrupted.   *)
(***************************************************************************)
TruncationKnown ==
  wal_reader \in {"recover", "verify"} /\ r_pc = "done" =>
    /\ stats.truncated <=> EndOf(stats.recovered) < Len(wal_bytes)
    /\ stats.corrupted > 0 => damaged # 0

(***************************************************************************)
(* The iterator, which reads on after a corrupted entry, returns entries   *)
(* that were written, in order and each at most once.                      *)
(***************************************************************************)
IteratesWritten ==
  wal_reader = "iterate" =>
    /\ \A i \in DOMAIN entries : \E n \in DOMAIN log : entries[i] = EntryOf(n, log[n])
    /\ \A i, j \in DOMAIN entries : i < j => entries[i][1] < entries[j][1]

-----------------------------------------------------------------------------
(***************************************************************************)
(* The documented iterator over all valid entries: it returns no more      *)
(* items, entries and errors together, than the file has room for headers. *)
(***************************************************************************)
IteratorEnds == (Len(entries) + errors) * EntryHeader <= Len(wal_bytes)
=============================================================================

--------------------------- MODULE SSTableFormat ---------------------------
(***************************************************************************)
(* The SSTable file (storage/sstable/): SSTableBuilder writes header, data *)
(* block, index block and footer, SSTableReader::open loads the index from *)
(* the end of the file, get() seeks to an entry, and SSTableIterator walks *)
(* the data block.                                                         *)
(*                                                                         *)
(* A file is a sequence of cells: a number of the format (magic, version,  *)
(* count, length, offset, checksum, padding) takes one, and so does each   *)
(* byte of a key or value.  Sizes and offsets count cells; an offset o is  *)
(* the cell o + 1.  An Option is a set, {} or {v}.                         *)
(***************************************************************************)
EXTENDS Naturals, Sequences, SequencesExt

CONSTANTS Tables,  \* the memtables to write: sequences of <<key, option>>,
                   \* in the order of their keys
          Probes   \* keys to look up

Magic           == 77
Version         == 1
TableHeader     == 3      \* magic, version, entry count
TableFooter     == 3      \* index offset, checksum, padding
TombstoneMarker == 99     \* no length of a value

VARIABLES
  table,           \* the table given to the builder
  added,           \* how many of its entries have been added
  b_pc,            \* the builder: "add", "count", "built" or "killed"
  sst_bytes,       \* the file, with what the BufWriter still holds
  index,           \* the builder's index: <<key, offset>>, in order
  current_offset,
  reader,          \* {} or the open reader
  iter,            \* {} or the iterator: its place in the file, its count
                   \* of the cells it has passed, and the items it returned
  visited

fmtVars == <<table, added, b_pc, sst_bytes, index, current_offset, reader, iter, visited>>

FInit ==
  /\ table \in Tables /\ added = 0 /\ b_pc = "add"
  /\ sst_bytes = <<Magic, Version, 0>>            \* the count comes last
  /\ index = <<>> /\ current_offset = TableHeader
  /\ reader = {} /\ iter = {} /\ visited = <<>>

ValLen(option) == IF option = {} THEN TombstoneMarker ELSE Len(CHOOSE v \in option : TRUE)
ValueCells(option) == IF option = {} THEN <<>> ELSE CHOOSE v \in option : TRUE

-----------------------------------------------------------------------------
(***************************************************************************)
(* SSTableBuilder.                                                         *)
(***************************************************************************)
\* write_entry
WriteEntry(key, option) ==
  /\ index' = Append(index, <<key, current_offset>>)
  /\ sst_bytes' = sst_bytes \o <<Len(key), ValLen(option)>> \o key \o ValueCells(option)
  /\ current_offset' = current_offset + 2 + Len(key) + Len(ValueCells(option))

AddEntry ==
  /\ b_pc = "add" /\ added < Len(table)
  /\ WriteEntry(table[added + 1][1], table[added + 1][2])
  /\ added' = added + 1
  /\ UNCHANGED <<table, b_pc, reader, iter, visited>>

IndexBlock == FlattenSeq([i \in DOMAIN index |-> <<Len(index[i][1]), index[i][2]>> \o index[i][1]])

\* finish, up to the flush: index block and footer.
Finish ==
  /\ b_pc = "add" /\ added = Len(table)
  /\ sst_bytes' = sst_bytes \o IndexBlock \o <<current_offset, 0, 0>>
  /\ b_pc' = "count"
  /\ UNCHANGED <<table, added, index, current_offset, reader, iter, visited>>

\* finish: seek to the header, write the count, sync.
PatchCount ==
  /\ b_pc = "count"
  /\ sst_bytes' = [sst_bytes EXCEPT ![3] = added]
  /\ b_pc' = "built"
  /\ UNCHANGED <<table, added, index, current_offset, reader, iter, visited>>

-----------------------------------------------------------------------------
(***************************************************************************)
(* SSTableReader.                                                          *)
(***************************************************************************)
\* The pairs <<key, offset>> of an index block, which ends where the next
\* entry does not fit.
RECURSIVE ParseIndex(_)
ParseIndex(d) ==
  IF Len(d) < 2 \/ Len(d) < 2 + d[1] THEN {}
  ELSE {<<SubSeq(d, 3, 2 + d[1]), d[2]>>} \cup ParseIndex(SubSeq(d, 3 + d[1], Len(d)))

IndexOffset(f) == f[Len(f) - TableFooter + 1]

\* Ok(reader) is {r}.  An index offset beyond the index block is the
\* subtraction that underflows.
OpenFile(f) ==
  IF \/ Len(f) < TableHeader \/ Len(f) < TableFooter
     \/ f[1] # Magic \/ f[2] # Version
     \/ IndexOffset(f) > Len(f) - TableFooter
  THEN {}
  ELSE {[index |-> ParseIndex(SubSeq(f, IndexOffset(f) + 1, Len(f) - TableFooter)),
         entry_count |-> f[3], index_offset |-> IndexOffset(f)]}

\* Mutation of ReadValue: the key is not skipped.
ReadValueAtKey(f, o) ==
  IF f[o + 2] = TombstoneMarker THEN {} ELSE {SubSeq(f, o + 3, o + 2 + f[o + 2])}

\* The option stored at offset o.
ReadValue(f, o) ==
  IF f[o + 2] = TombstoneMarker THEN {}
  ELSE {SubSeq(f, o + 3 + f[o + 1], o + 2 + f[o + 1] + f[o + 2])}

\* get(): {} for KeyNotFound, else {option}.
Get(r, f, key) == {ReadValue(f, e[2]) : e \in {x \in r.index : x[1] = key}}

\* The order of keys (slices of bytes).
KeyLeq(a, b) ==
  \/ IsPrefix(a, b)
  \/ \E i \in DOMAIN a \cap DOMAIN b : a[i] < b[i] /\ \A j \in 1..(i - 1) : a[j] = b[j]

\* Between min_key() and max_key(), the ends of the loaded index.
MightContain(r, key) ==
  \E lo, hi \in r.index : KeyLeq(lo[1], key) /\ KeyLeq(key, hi[1])

\* Opened when finish() has returned, or by the next start when the process
\* was killed after the footer was flushed and before the count was written.
Open ==
  /\ b_pc \in {"count", "built"} /\ reader = {}
  /\ reader' = OpenFile(sst_bytes) /\ reader' # {}
  /\ b_pc' = IF b_pc = "count" THEN "killed" ELSE b_pc
  /\ UNCHANGED <<table, added, sst_bytes, index, current_offset, iter, visited>>

-----------------------------------------------------------------------------
(***************************************************************************)
(* SSTableIterator, with the position of the BufReader it reads from.      *)
(***************************************************************************)
IterNew ==
  /\ reader # {} /\ iter = {}
  /\ \E r \in reader :
       iter' = {[at |-> TableHeader, current |-> TableHeader, end |-> r.index_offset]}
  /\ UNCHANGED <<table, added, b_pc, sst_bytes, index, current_offset, reader, visited>>

\* Mutation of EntrySize: the value is left out.
EntrySizeNoValue(f, o) == 2 + f[o + 1]

\* What next() adds to current_offset for the entry at o.
EntrySize(f, o) ==
  2 + f[o + 1] + (IF f[o + 2] = TombstoneMarker THEN 0 ELSE f[o + 2])

\* How far its read_exact calls move the file.
CellsRead(f, o) == 2 + f[o + 1] + Len(ValueCells(ReadValue(f, o)))

SstIterNext ==
  \E it \in iter :
    /\ it.current < it.end
    /\ LET key == SubSeq(sst_bytes, it.at + 3, it.at + 2 + sst_bytes[it.at + 1])
       IN  visited' = Append(visited, <<key, ReadValue(sst_bytes, it.at)>>)
    /\ iter' = {[it EXCEPT !.at = @ + CellsRead(sst_bytes, it.at),
                           !.current = @ + EntrySize(sst_bytes, it.at)]}
    /\ UNCHANGED <<table, added, b_pc, sst_bytes, index, current_offset, reader>>

FNext == AddEntry \/ Finish \/ PatchCount \/ Open \/ IterNew \/ SstIterNext

FSpec == FInit /\ [][FNext]_fmtVars

-----------------------------------------------------------------------------
(***************************************************************************)
(* From the moment the footer is written, before and after the count in    *)
(* the header is, a reader opens the file and finds for every key what the *)
(* table holds, and nothing for any other; might_contain() excludes no key *)
(* of the table.  Once finish() has returned the header has the count.     *)
(***************************************************************************)
LookupsRight ==
  b_pc # "add" =>
    \E r \in OpenFile(sst_bytes) :
      /\ \A k \in Probes :
           (IF MightContain(r, k) THEN Get(r, sst_bytes, k) ELSE {})
             = {e[2] : e \in {x \in ToSet(table) : x[1] = k}}
      /\ b_pc = "built" => r.entry_count = Len(table)

(***************************************************************************)
(* The iterator returns the entries of the table in order, none skipped or *)
(* made up, and stops at the index block: its own count of what it has     *)
(* passed agrees with the place it reads from.                             *)
(***************************************************************************)
ScanRight ==
  \A it \in iter :
    /\ it.at = it.current
    /\ IsPrefix(visited, table)
    /\ it.current >= it.end => visited = table
=============================================================================

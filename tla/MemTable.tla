------------------------------ MODULE MemTable -----------------------------
(***************************************************************************)
(* The in-memory table of recent writes (memtable/table.rs): a BTreeMap    *)
(* and an approximate size in bytes that triggers a flush.  Every method   *)
(* holds the RwLock of the map for all of its body, the size update        *)
(* included, so each is one step.                                          *)
(***************************************************************************)
EXTENDS KVTypes, Integers

CONSTANTS KeyLen,     \* [Key -> Nat]: length of a key in bytes
          ValueLen    \* [Value -> Nat]: length of a value in bytes

ASSUME LenAssumption == KeyLen \in [Key -> Nat] /\ ValueLen \in [Value -> Nat]

VARIABLES memtable,   \* data: the entries, a Table
          size        \* size: AtomicUsize, maintained by differences

memVars == <<memtable, size>>

MemTypeOK == memtable \in Table /\ size \in Int

MemInit == memtable = EmptyTable /\ size = 0

\* old_size of put() and delete(): the bytes the key occupies now.
OldSize(k) ==
  IF memtable[k] = Absent THEN 0
  ELSE KeyLen[k] + (IF memtable[k] = Tombstone THEN 0 ELSE ValueLen[memtable[k]])

MemPut(k, v) ==
  /\ memtable' = [memtable EXCEPT ![k] = v]
  /\ size' = size + (KeyLen[k] + ValueLen[v] - OldSize(k))

\* Mutation of MemDelete: the old entry is not subtracted.
MemDeleteAdds(k) ==
  /\ memtable' = [memtable EXCEPT ![k] = Tombstone]
  /\ size' = size + KeyLen[k]

MemDelete(k) ==
  /\ memtable' = [memtable EXCEPT ![k] = Tombstone]
  /\ size' = size + (KeyLen[k] - OldSize(k))

\* The engine's dispatch on the logged operation, shared by the write path
\* and by replay: an entry is a value to put or a tombstone.
MemApply(k, e) == IF e = Tombstone THEN MemDelete(k) ELSE MemPut(k, e)

MemClear == memtable' = EmptyTable /\ size' = 0
=============================================================================

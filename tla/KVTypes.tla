------------------------------ MODULE KVTypes ------------------------------
(***************************************************************************)
(* The data every component of AtlasKV handles.  A key is a byte string of *)
(* which only the order matters (BTreeMap order, min/max filters), so keys *)
(* are natural numbers.  A value is opaque.                                *)
(*                                                                         *)
(* A slot is what a table holds for a key: a value, the marker of a delete *)
(* (MemTableEntry::Tombstone, TOMBSTONE_MARKER in an SSTable), or nothing. *)
(***************************************************************************)
EXTENDS Naturals

CONSTANTS Key,        \* keys, ordered as the byte strings they stand for
          Value,      \* values
          Tombstone,  \* a deleted key
          Absent      \* no entry for the key

ASSUME KVAssumption ==
  /\ Key \subseteq Nat
  /\ Tombstone \notin Value
  /\ Absent \notin Value \cup {Tombstone}

Entry == Value \cup {Tombstone}
Slot  == Entry \cup {Absent}
Table == [Key -> Slot]

EmptyTable == [k \in Key |-> Absent]

\* MemTable::is_empty: no key has an entry.
IsEmpty(t) == \A k \in Key : t[k] = Absent

\* What a client sees of a slot: Option<Vec<u8>>, None for a tombstone.
Visible(s) == IF s = Tombstone THEN Absent ELSE s

Result == Value \cup {Absent}
=============================================================================

----------------------------- MODULE MCFormats -----------------------------
(***************************************************************************)
(* The three byte formats for model checking: messages on the wire, the    *)
(* write-ahead log and the SSTable.  A behaviour is about one of them, its *)
(* subject; the other two stay as they are initially.                      *)
(***************************************************************************)
EXTENDS ProtocolSpec, SSTableFormat, WalFormat

VARIABLE subject

Subjects == {"wire", "table", "log"}

FormatsInit ==
  /\ subject \in Subjects
  /\ table \in IF subject = "table" THEN Tables ELSE {<<>>}
  /\ log \in IF subject = "log" THEN Logs ELSE {<<>>}
  /\ wal_reader \in IF subject = "log" THEN Readers ELSE {"recover"}
  /\ PInit /\ FInit /\ WFInit

FormatsNext ==
  \/ subject = "wire" /\ PNext /\ UNCHANGED <<subject, fmtVars, wfVars>>
  \/ subject = "table" /\ FNext /\ UNCHANGED <<subject, pVars, wfVars>>
  \/ subject = "log" /\ WFNext /\ UNCHANGED <<subject, pVars, fmtVars>>

FormatsSpec == FormatsInit /\ [][FormatsNext]_<<subject, pVars, fmtVars, wfVars>>

-----------------------------------------------------------------------------
\* The wire: five values of a byte, lengths of two bytes, a limit of five;
\* values up to and over the limit; any message of up to four bytes.
Strings(S, n) == UNION {[1..m -> S] : m \in 0..n}

MCKeyBytes   == Strings({4}, 1)
MCValueBytes == UNION {[1..n -> {b}] : n \in 0..4, b \in {0, 4}}
MCRaw        == (0..4) \X Strings({0, 1, 2}, 4)

\* Tables of up to four keys, one of them empty and one the beginning of
\* another, with values that look like a magic number or a marker.
MCKeys    == << <<>>, <<0>>, <<0, 3>>, <<2>> >>
MCOptions == {{}, {<<>>}, {<<77>>}, {<<1, 99, 3>>}}

MCTables ==
  {SelectSeq([i \in 1..4 |-> IF i \in S THEN <<MCKeys[i], o[i]>> ELSE <<>>],
             LAMBDA e : e # <<>>) : S \in SUBSET (1..4), o \in [1..4 -> MCOptions]}

MCProbes == {MCKeys[i] : i \in 1..4} \cup {<<1>>, <<0, 0>>}

\* Logs of up to three operations of one to three cells; a damaged cell may
\* hold a length that is too short or too long.
MCOperations == {<<7>>, <<7, 2>>, <<1, 1, 8>>}
MCLogs       == UNION {[1..n -> MCOperations] : n \in 0..3}
MCDamage     == {0, 2, 9}
=============================================================================

------------------------------ MODULE MCEngine -----------------------------
(***************************************************************************)
(* Engine for model checking: two keys of one byte, a value of one byte    *)
(* and one of two.                                                         *)
(***************************************************************************)
EXTENDS EngineProperties, TLC

CONSTANTS v1, v2

MCKeyLen   == [k \in Key |-> 1]
MCValueLen == [v \in Value |-> IF v = v1 THEN 1 ELSE 2]

Symmetry == Permutations(Client)
=============================================================================

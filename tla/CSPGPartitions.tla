--------------------------- MODULE CSPGPartitions ---------------------------
(***************************************************************************)
(* The partitions of an IndexCSPG, numbered from 0.                        *)
(***************************************************************************)
EXTENDS Integers, Sequences, FiniteSets

CONSTANT NP  \* num_partitions

ASSUME NPAssumption == NP \in Nat \ {0}

Part == 0 .. NP - 1
=============================================================================

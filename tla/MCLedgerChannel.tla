--------------------------- MODULE MCLedgerChannel ---------------------------
(***************************************************************************)
(* Small instances of LedgerChannel for TLC.                               *)
(***************************************************************************)
EXTENDS LedgerChannel, TLC

CONSTANTS v1, v2    \* model values: two virtual channels

MCTargets == {v1, v2}
MCInitialBalance == [p \in Parties |-> IF p = Leader THEN 2 ELSE 1]

Symmetry == Permutations(MCTargets)
=============================================================================

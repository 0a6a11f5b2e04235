----------------------------- MODULE MCDirectFund -----------------------------
(***************************************************************************)
(* Small instances of DirectFund for TLC.                                  *)
(***************************************************************************)
EXTENDS DirectFund

CONSTANTS c1, c2    \* model values: two channels

OneChannel  == {c1}
TwoChannels == {c1, c2}

\* The first channel is asked for by node 0, the second by node 1.
OneInitiator  == [ch \in OneChannel |-> 0]
TwoInitiators == [ch \in TwoChannels |-> IF ch = c1 THEN 0 ELSE 1]
SameInitiator == [ch \in TwoChannels |-> 0]

MCShare == [n \in Nodes |-> n + 1]
=============================================================================

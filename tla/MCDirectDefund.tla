--------------------------- MODULE MCDirectDefund ---------------------------
(***************************************************************************)
(* Instances of DirectDefund: the nodes and their roles are its own.       *)
(***************************************************************************)
EXTENDS DirectDefund

Both == {0, 1}
LeaderOnly == {0}
FollowerOnly == {1}
Nobody == {}
=============================================================================

--------------------------- MODULE MCReplication ----------------------------
(* Small instances of Replication for TLC. *)
EXTENDS Replication, TLC

CONSTANTS k1, v1, v2

\* The AOF of a Replica's earlier life: none, or longer than a first snapshot's
\* checkpoint and unrelated to this Primary.
OldAofs == {<<>>, <<Hole, Hole, Hole>>}

NoOldAof == {<<>>}

Symmetry == Permutations(Replica)
=============================================================================

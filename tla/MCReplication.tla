--------------------------- MODULE MCReplication ---------------------------
(* Replication for TLC.                                                    *)
EXTENDS Replication

\* No definition distinguishes one node from another.
NodeSymmetry == Permutations(Node)
============================================================================

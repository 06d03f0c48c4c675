----------------------------- MODULE MCRailchain -----------------------------
(* Small instances of the replicated application for TLC.                  *)
EXTENDS Railchain, TLC

CONSTANTS t1, t2, t3, t4, t5

\* Transactions only; one log in which a block ends between two checkpoints.
MCLogs == {<<t1, t2, t3, t4>>, <<t1, Other, t2, t3, t4>>}

\* One request, one block, one checkpoint.
MCShort == {<<t1, t2, t3>>}

\* No definition depends on which replica is which.
ReplicaSymmetry == Permutations(Replica)
=============================================================================

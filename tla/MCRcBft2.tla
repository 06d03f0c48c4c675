------------------------------ MODULE MCRcBft2 ------------------------------
(* Small instances of the ordering layer for TLC.                          *)
EXTENDS RcBft2, TLC

\* Three of the four replicas run, so a quorum needs all of them.
MCRunning == 0 .. 2

MCPair == 0 .. 1

MCAll == 0 .. 3

\* Every replica hears each payload once, or twice.
MCOnce == [n \in Replica |-> 1]

MCTwice == [n \in Replica |-> 2]

\* The primary of view 0 misses what the backups hear.
MCBackups == [n \in Replica |-> IF n = 0 THEN 0 ELSE 1]

MCKeys == 1 .. 2

MCKeys3 == 1 .. 3

\* No definition depends on which payload is which.
PayloadSymmetry == Permutations(Payload)
=============================================================================

------------------------------- MODULE Ledger -------------------------------
(***************************************************************************)
(* What the replicated application promises its users, without requests,   *)
(* checkpoints, files or messages: one chain of blocks that only grows,    *)
(* and replicas that hold copies of it, each as far as it has got, and     *)
(* forget old blocks when they are told to.                                *)
(***************************************************************************)
EXTENDS Naturals, Sequences

CONSTANT Replica

VARIABLES
    chain,  \* the blocks, oldest first
    copy,   \* the prefix of the chain each replica has reached
    low     \* the number of the newest block each replica may have forgotten

Init ==
    /\ chain = <<>>
    /\ copy = [n \in Replica |-> <<>>]
    /\ low = [n \in Replica |-> 0]

\* A replica that has the whole chain makes the next block.
Extend(n) ==
    /\ copy[n] = chain
    /\ Len(chain') = Len(chain) + 1 /\ SubSeq(chain', 1, Len(chain)) = chain
    /\ copy' = [copy EXCEPT ![n] = chain']
    /\ UNCHANGED low

\* A replica catches up, block by block or over many at once, and then may
\* hold no more of the old blocks than the one it has them from.
CatchUp(n) ==
    /\ \E k \in Len(copy[n]) + 1 .. Len(chain) : copy' = [copy EXCEPT ![n] = SubSeq(chain, 1, k)]
    /\ low' = low \/ \E k \in low[n] + 1 .. Len(copy'[n]) : low' = [low EXCEPT ![n] = k]
    /\ UNCHANGED chain

\* Pruning: up to any block of the chain, even one the replica does not have yet.
Prune(n) ==
    /\ \E k \in low[n] + 1 .. Len(chain) : low' = [low EXCEPT ![n] = k]
    /\ UNCHANGED <<chain, copy>>

\* A replica that forgot the newest block it had comes back with the one before.
FallBack(n) ==
    /\ copy[n] # <<>> /\ Len(copy[n]) <= low[n]
    /\ copy' = [copy EXCEPT ![n] = SubSeq(chain, 1, Len(@) - 1)]
    /\ UNCHANGED <<chain, low>>

Next == \E n \in Replica : Extend(n) \/ CatchUp(n) \/ Prune(n) \/ FallBack(n)

Spec == Init /\ [][Next]_<<chain, copy, low>>
=============================================================================

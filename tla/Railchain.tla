------------------------------ MODULE Railchain ------------------------------
(***************************************************************************)
(* The replicated application, rc-application/src/app.rs with              *)
(* app/chain.rs: every replica cuts the ordered transactions into blocks,  *)
(* appends them to its chain on disk, takes checkpoints of its state and   *)
(* transfers them, and prunes the chain up to a header the exporter has    *)
(* signed.                                                                 *)
(*                                                                         *)
(* Requests, checkpoint calls and unordered (READ_ONLY) requests reach the *)
(* application one at a time, so each handler is an action.  Ordering is   *)
(* external: the replicas execute the same log, each at its own pace.  A   *)
(* Delete is READ_ONLY (rc-export/src/v2.rs:102): it is not ordered and    *)
(* each replica handles it when it arrives (rc-bft2/src/lib.rs:165-173).   *)
(***************************************************************************)
EXTENDS ChainStore, FiniteSets

CONSTANTS
    Replica,            \* the replicas
    Quorum,             \* how many equal checkpoints make one stable
    Tx,                 \* transactions
    Other,              \* an ordered request that is no transaction
    MaxBlockMessages,   \* railchain.max_block_messages
    Interval,           \* pbft.checkpoint_interval
    Logs,               \* bound: the logs that may be ordered
    MaxDeletes,         \* bound: Deletes the exporter signs
    MaxRepeats,         \* bound: how often it signs one for the same block again
    MaxRestarts         \* bound: restarts of replicas

ASSUME RailchainAssumption ==
    /\ Other \notin Tx
    /\ MaxBlockMessages \in Nat \ {0} /\ Interval \in Nat \ {0}
    /\ \A l \in Logs : l \in Seq(Tx \cup {Other})
    /\ Quorum \in Nat \ {0} /\ MaxDeletes \in Nat /\ MaxRepeats \in Nat
    /\ MaxRestarts \in Nat

VARIABLES
    log,        \* the ordered requests (external)
    executed,   \* how much of the log each replica has executed
    cutter,     \* block_cutter.buffer
    store,      \* blockchain.storage
    pruneBase,  \* prune_base: the set of the header of the Delete, or {}
    taken,      \* checkpoint handles PBFT holds: a map from sequence numbers
    stable,     \* the newest of them PBFT knows to be stable, 0 for none
    transfers,  \* FullCheckpoint messages under way
    deletes,    \* the headers of the Deletes signed so far, in order
    handled,    \* how many of them each replica has handled
    up,         \* replicas that have not panicked
    newest,     \* history: the header of the newest block ever made
    pruned,     \* history: the highest base a replica ever pruned to
    restarts    \* history: how often a replica restarted so far

vars == <<log, executed, cutter, store, pruneBase, taken, stable, transfers, deletes, handled, up,
          newest, pruned, restarts>>

Init ==
    /\ log \in Logs
    /\ executed = [n \in Replica |-> 0]
    /\ cutter = [n \in Replica |-> <<>>]
    /\ store = [n \in Replica |-> Bootstrapped]
    /\ pruneBase = [n \in Replica |-> {}]
    /\ taken = [n \in Replica |-> [c \in {} |-> 0]]
    /\ stable = [n \in Replica |-> 0]
    /\ transfers = {}
    /\ deletes = <<>>
    /\ handled = [n \in Replica |-> 0]
    /\ up = Replica
    /\ newest = Genesis
    /\ pruned = [n \in Replica |-> 0]
    /\ restarts = 0

-----------------------------------------------------------------------------
(* Execution                                                                *)

\* A fault: cut() leaves the buffer as it is.
KeepBuffer(n, tx) ==
    LET buffer == Append(cutter[n], tx)
    IN  /\ cutter' = [cutter EXCEPT ![n] = buffer]
        /\ store' = IF Len(buffer) >= MaxBlockMessages
                    THEN [store EXCEPT ![n] = StoreBlock(@, NextHeader(@.head, buffer))]
                    ELSE store

\* A fault: the buffer is cut one transaction late.
CutLate(n, tx) ==
    LET buffer == Append(cutter[n], tx)
    IN  IF Len(buffer) > MaxBlockMessages
        THEN /\ store' = [store EXCEPT ![n] = StoreBlock(@, NextHeader(@.head, cutter[n]))]
             /\ cutter' = [cutter EXCEPT ![n] = <<tx>>]
        ELSE /\ cutter' = [cutter EXCEPT ![n] = buffer]
             /\ UNCHANGED store

\* append_transaction: a full buffer becomes the next block.
AppendTransaction(n, tx) ==
    LET buffer == Append(cutter[n], tx)
    IN  IF Len(buffer) >= MaxBlockMessages
        THEN /\ store' = [store EXCEPT ![n] = StoreBlock(@, NextHeader(@.head, buffer))]
             /\ cutter' = [cutter EXCEPT ![n] = <<>>]
        ELSE /\ cutter' = [cutter EXCEPT ![n] = buffer]
             /\ UNCHANGED store

\* PBFT asks for a checkpoint after every Interval requests, before it
\* executes the next.
CheckpointDue(n) ==
    executed[n] > 0 /\ executed[n] % Interval = 0 /\ executed[n] \notin DOMAIN taken[n]

\* execute of the next ordered request.
Execute(n) ==
    /\ n \in up /\ executed[n] < Len(log) /\ ~CheckpointDue(n)
    /\ executed' = [executed EXCEPT ![n] = @ + 1]
    /\ LET request == log[executed[n] + 1]
       IN  IF request \in Tx THEN AppendTransaction(n, request) ELSE UNCHANGED <<cutter, store>>
    /\ newest' = IF Number(store'[n].head) > Number(newest) THEN store'[n].head ELSE newest
    /\ UNCHANGED <<log, pruneBase, taken, stable, transfers, deletes, handled, up, pruned, restarts>>

-----------------------------------------------------------------------------
(* Checkpoints                                                              *)

\* take_checkpoint: the state is the buffer and the head's header.
TakeCheckpoint(n) ==
    /\ n \in up /\ CheckpointDue(n)
    /\ taken' = [taken EXCEPT ![n] =
                    [c \in DOMAIN @ \cup {executed[n]} |->
                        IF c = executed[n] THEN [buffer |-> cutter[n], head |-> store[n].head] ELSE @[c]]]
    /\ UNCHANGED <<log, executed, cutter, store, pruneBase, stable, transfers, deletes,
                   handled, up, pruned, newest, restarts>>

\* checkpoint_stable: a quorum took the same checkpoint; its proof is stored
\* and PBFT lets the handles before it go.
CheckpointStable(n, c) ==
    /\ n \in up /\ c \in DOMAIN taken[n] /\ c > stable[n]
    /\ Cardinality({m \in Replica : c \in DOMAIN taken[m] /\ taken[m][c] = taken[n][c]}) >= Quorum
    /\ store' = [store EXCEPT ![n] = StoreProof(@, c)]
    /\ stable' = [stable EXCEPT ![n] = c]
    /\ taken' = [taken EXCEPT ![n] = Restrict(@, {d \in DOMAIN @ : d >= c})]
    /\ UNCHANGED <<log, executed, cutter, pruneBase, transfers, deletes, handled, up, pruned,
                   newest, restarts>>

\* A fault: blocks are resolved from the base on disk, and sent with prune_base.
FromStoredBase(n) == Number(store[n].base)

\* resolve_checkpoint: the numbers of the blocks that go with a checkpoint.
BaseNumber(n) == IF pruneBase[n] = {} THEN 0 ELSE Number(CHOOSE h \in pruneBase[n] : TRUE)

ResolvedNumbers(n, c) == BaseNumber(n) + 1 .. Number(taken[n][c].head)

\* A replica that is behind a stable checkpoint of another has it resolved
\* there; a block that is missing there is a panic ("missing blocks").
ResolveCheckpoint(n, m) ==
    LET c == stable[m]
        first == BaseNumber(m)
    IN  /\ m \in up /\ n \in up /\ c \in DOMAIN taken[m] /\ executed[n] < c
        /\ \A t \in transfers : t.to # n
        /\ IF \A i \in ResolvedNumbers(m, c) : Reads(store[m], i)
           THEN /\ transfers' = transfers \cup
                      {[to |-> n, sequence |-> c, handle |-> taken[m][c], base |-> pruneBase[m],
                        blocks |-> [j \in 1 .. Cardinality(ResolvedNumbers(m, c)) |->
                                       store[m].blocks[first + j]]]}
                /\ UNCHANGED up
           ELSE up' = up \ {m} /\ UNCHANGED transfers
        /\ UNCHANGED <<log, executed, cutter, store, pruneBase, taken, stable, deletes,
                       handled, pruned, newest, restarts>>

Highest(a, b) == IF a > b THEN a ELSE b

\* A fault: the buffer of the checkpoint is not applied.
ForgetBuffer(n, t) == UNCHANGED cutter

ApplyBuffer(n, t) == cutter' = [cutter EXCEPT ![n] = t.handle.buffer]

\* What apply_checkpoint verifies: the blocks follow the base, or genesis, and
\* end at the head of the checkpoint.
Base(t) == IF t.base = {} THEN Genesis ELSE CHOOSE h \in t.base : TRUE

Verified(t) == t.handle.head = t.blocks[Len(t.blocks)] /\ VerifyChain(Base(t), t.blocks)

\* apply_checkpoint.  PBFT drops a checkpoint it is no longer behind; one
\* without blocks is a panic; one that does not verify is refused.
ApplyCheckpoint(n, t) ==
    /\ n \in up /\ t \in transfers /\ t.to = n
    /\ transfers' = transfers \ {t}
    /\ \/ /\ executed[n] < t.sequence /\ t.blocks # <<>> /\ Verified(t)
          /\ pruneBase' = IF t.base = {} THEN pruneBase ELSE [pruneBase EXCEPT ![n] = t.base]
          /\ store' = [store EXCEPT ![n] = Rebase(@, Base(t), t.blocks)]
          /\ pruned' = [pruned EXCEPT ![n] = Highest(@, Number(Base(t)))]
          /\ ApplyBuffer(n, t)
          /\ executed' = [executed EXCEPT ![n] = t.sequence]
          /\ taken' = [taken EXCEPT ![n] = [c \in {t.sequence} |-> t.handle]]
          /\ UNCHANGED up
       \/ /\ executed[n] < t.sequence /\ t.blocks = <<>>
          /\ up' = up \ {n}
          /\ UNCHANGED <<pruneBase, store, pruned, cutter, executed, taken>>
       \/ /\ executed[n] >= t.sequence \/ (t.blocks # <<>> /\ ~Verified(t))
          /\ UNCHANGED <<pruneBase, store, pruned, cutter, executed, taken, up>>
    /\ UNCHANGED <<log, stable, deletes, handled, newest, restarts>>

-----------------------------------------------------------------------------
(* Pruning                                                                  *)

\* The chain and the buffer that the first k requests of the log amount to.
Transactions(k) == TransactionsIn(log, Tx)[k]

ChainAt(k) == ChainOf(Transactions(k), MaxBlockMessages)

BufferAt(k) == RestOf(Transactions(k), MaxBlockMessages)

\* Every checkpoint is of the block whose number is that of the checkpoint by
\* the interval, and of an empty buffer.
Aligned ==
    \A c \in 0 .. Len(log) :
        c % Interval = 0 => Number(ChainAt(c)) = c \div Interval /\ BufferAt(c) = <<>>

\* The exporter signs a Delete for the newest block it has exported.  It takes
\* the block whose number is that of the stable checkpoint by the interval,
\* and only if the checkpoint is of that block's header and an empty buffer.
\* It may sign one again, as it keeps no state; one of an older block only if
\* checkpoints are not aligned with blocks (see Exporter!SignsAsAssumed).
SignDelete(n) ==
    LET c == store[n].proof
        i == c \div Interval
    IN  /\ n \in up /\ Len(deletes) < MaxDeletes
        /\ i > 0 /\ Reads(store[n], i) /\ store[n].blocks[i] = ChainAt(c) /\ BufferAt(c) = <<>>
        /\ Aligned => \A j \in DOMAIN deletes : Number(deletes[j]) <= i
        /\ Cardinality({j \in DOMAIN deletes : deletes[j] = store[n].blocks[i]}) <= MaxRepeats
        /\ deletes' = Append(deletes, store[n].blocks[i])
        /\ UNCHANGED <<log, executed, cutter, store, pruneBase, taken, stable, transfers, handled, up,
                       newest, pruned, restarts>>

\* delete_blocks.  Deletes reach a replica in the order they were sent.
DeleteBlocks(n) ==
    /\ n \in up /\ handled[n] < Len(deletes)
    /\ LET delete == deletes[handled[n] + 1]
       IN  /\ store' = [store EXCEPT ![n] = PruneChain(@, delete)]
           /\ pruneBase' = [pruneBase EXCEPT ![n] = {delete}]
           /\ pruned' = [pruned EXCEPT ![n] = Highest(@, Number(delete))]
    /\ handled' = [handled EXCEPT ![n] = @ + 1]
    /\ UNCHANGED <<log, executed, cutter, taken, stable, transfers, deletes, up, newest, restarts>>

-----------------------------------------------------------------------------
(* Restart                                                                  *)

\* The process stops and starts again with --resume-chain and a sequence
\* number that its newest block ends at.  The buffer, prune_base and what PBFT
\* knew are gone; base, head and proof are read back.  No head is a panic.
Restart(n) ==
    /\ n \in up /\ restarts < MaxRestarts
    /\ restarts' = restarts + 1
    /\ \/ \E h \in FoundHead(store[n]), k \in 0 .. executed[n] :
             /\ ChainAt(k) = h /\ BufferAt(k) = <<>>
             /\ executed' = [executed EXCEPT ![n] = k]
             /\ store' = [store EXCEPT ![n].head = h]
             /\ cutter' = [cutter EXCEPT ![n] = <<>>]
             /\ pruneBase' = [pruneBase EXCEPT ![n] = {}]
             /\ taken' = [taken EXCEPT ![n] = [c \in {} |-> 0]]
             /\ stable' = [stable EXCEPT ![n] = 0]
             /\ UNCHANGED up
       \/ /\ FoundHead(store[n]) = {}
          /\ up' = up \ {n}
          /\ UNCHANGED <<executed, store, cutter, pruneBase, taken, stable>>
    /\ UNCHANGED <<log, transfers, deletes, handled, newest, pruned>>

-----------------------------------------------------------------------------
Next ==
    \/ \E n \in Replica :
          \/ Execute(n) \/ TakeCheckpoint(n)
          \/ \E c \in DOMAIN taken[n] : CheckpointStable(n, c)
          \/ \E m \in Replica \ {n} : ResolveCheckpoint(n, m)
          \/ \E t \in transfers : ApplyCheckpoint(n, t)
          \/ SignDelete(n) \/ DeleteBlocks(n)
          \/ Restart(n)

Spec == Init /\ [][Next]_vars

-----------------------------------------------------------------------------
(* Properties                                                               *)

Headers == Seq(Seq(Tx))

\* TypeOK: the state has its type, and the cutter never holds a full block
\* (chain.rs:50 cuts as soon as it does).
TypeOK ==
    /\ executed \in [Replica -> Nat] /\ stable \in [Replica -> Nat]
    /\ handled \in [Replica -> 0 .. MaxDeletes] /\ restarts \in 0 .. MaxRestarts
    /\ up \subseteq Replica /\ pruned \in [Replica -> Nat] /\ deletes \in Seq(Headers)
    /\ \A n \in Replica :
          /\ executed[n] <= Len(log)
          /\ cutter[n] \in Seq(Tx) /\ Len(cutter[n]) < MaxBlockMessages
          /\ store[n].head \in Headers /\ store[n].base \in Headers /\ store[n].proof \in Nat
          /\ \A i \in DOMAIN store[n].blocks : Number(store[n].blocks[i]) = i
          /\ pruneBase[n] \subseteq Headers /\ Cardinality(pruneBase[n]) <= 1
          /\ \A c \in DOMAIN taken[n] : c <= executed[n]

\* StateFollowsLog: the state of a replica is a function of the log and of how
\* much of it the replica has executed, whether it executed the requests,
\* took over a checkpoint, pruned (even to a block it did not have yet) or
\* restarted.  It is what makes the digests of checkpoints agree.
StateFollowsLog ==
    \A n \in up : store[n].head = ChainAt(executed[n]) /\ cutter[n] = BufferAt(executed[n])

\* StoredFromBase: every block above the highest header a replica ever pruned
\* to and up to its head is on its disk, and it is the block the head commits
\* to: pruning, transfers and stale Deletes together lose nothing newer.
StoredFromBase ==
    \A n \in up : \A i \in pruned[n] + 1 .. Number(store[n].head) :
        Reads(store[n], i) /\ store[n].blocks[i] = Upto(store[n].head, i)

\* TransfersVerify: what a replica sends one that lags is accepted, whatever
\* Deletes, restarts and transfers have done to its base since it took the
\* checkpoint; there are no blocks in it only if it was pruned up to the
\* checkpoint's head, and then the other panics (app.rs:378-396, 414-436).
TransfersVerify ==
    \A t \in transfers :
        IF t.blocks = <<>> THEN Number(t.handle.head) <= Number(Base(t)) ELSE Verified(t)

\* ImplementsLedger: the replicas together keep one chain.  It grows by one
\* block at a time and never changes, a replica's copy is always a prefix of it
\* and loses no more than one block it was told to forget, and nothing is
\* pruned that is not in the chain (see Ledger).
L == INSTANCE Ledger WITH chain <- newest, copy <- [n \in Replica |-> store[n].head], low <- pruned

ImplementsLedger == L!Spec

\* BlocksPresent: the blocks resolve_checkpoint reads for the stable checkpoint
\* are on disk, as its expect("missing blocks") says (app.rs:427).
BlocksPresent ==
    \A n \in up : stable[n] \in DOMAIN taken[n] =>
        \A i \in ResolvedNumbers(n, stable[n]) : Reads(store[n], i)
=============================================================================

---------------------------- MODULE StorageTwins ----------------------------
(***************************************************************************)
(* The other implementation of the Storage trait, InMemory                 *)
(* (rc-blockchain/src/storage/memory.rs), beside Files: the application's  *)
(* tests run on it (rc-application/src/app.rs:489-498), so what they show  *)
(* is true of a replica as far as the two agree.  The same calls are made  *)
(* on both until the process is killed, as InMemory does not survive that. *)
(***************************************************************************)
EXTENDS FilesOnDisk

VARIABLE memory     \* base and storage of InMemory; or what has become of it

-----------------------------------------------------------------------------
(* InMemory                                                                 *)

\* How it ends: drain() panics, or it is not followed any more.
Panicked == [base |-> 0, storage |-> <<>>, is |-> "panicked"]
Left == [base |-> 0, storage |-> <<>>, is |-> "left"]

New == [base |-> 0, storage |-> <<>>, is |-> "used"]

\* offset: the number of the block at the start of storage.
Offset(m) == m.base + 1

Pushed(m, k) == [m EXCEPT !.storage = Append(@, k)]

\* A fault: the block of the Delete itself is kept.
DrainExclusive(m, k) ==
    [m EXCEPT !.base = k, !.storage = SubSeq(@, k - Offset(m) + 1, Len(@))]

Drained(m, k) ==
    [m EXCEPT !.base = k, !.storage = SubSeq(@, k - Offset(m) + 2, Len(@))]

\* prune_chain: a Delete at or below the base underflows, one above the head is
\* out of range.
MemoryPrune(m, k) ==
    IF k < Offset(m) \/ k - Offset(m) >= Len(m.storage) THEN Panicked ELSE Drained(m, k)

\* read_block, the set of the block.
MemoryRead(m, i) ==
    IF i >= Offset(m) /\ i - Offset(m) < Len(m.storage) THEN {m.storage[i - Offset(m) + 1]} ELSE {}

\* head: the last block, or the base.
MemoryHead(m) == IF m.storage = <<>> THEN m.base ELSE m.storage[Len(m.storage)]

-----------------------------------------------------------------------------
TwinInit == Init /\ memory = New

Use(m) == IF memory.is = "used" THEN m ELSE memory

\* rebase prunes and stores block by block; what InMemory has above the base
\* stays before them, so it is not followed after one.
TwinNext ==
    \/ CreateBlock /\ memory' = Use(Pushed(memory, MemoryHead(memory) + 1))
    \/ \E k \in 1 .. MaxBlock : Prune(k) /\ memory' = Use(MemoryPrune(memory, k))
    \/ \E b \in 0 .. MaxBlock, k \in 1 .. MaxBlock : Rebase(b, k) /\ memory' = Use(Left)
    \/ (PruneWithoutBase \/ DoCall \/ Restart) /\ UNCHANGED memory
    \/ Crash /\ memory' = Use(Left)

TwinSpec == TwinInit /\ [][TwinNext]_<<vars, memory>>

-----------------------------------------------------------------------------
(* Properties                                                               *)

\* StoragesAgree: as long as no checkpoint is applied and InMemory has not
\* panicked, both storages have the same base and head and give the same
\* answer for every number but that of the genesis block, which Files alone
\* stores; a test on InMemory then tells what a replica does.
StoragesAgree ==
    memory.is = "used" /\ Idle =>
        /\ base = memory.base /\ head = MemoryHead(memory)
        /\ \A i \in 1 .. MaxBlock :
              MemoryRead(memory, i) = {n \in {i} : Whole(disk, i)}
=============================================================================

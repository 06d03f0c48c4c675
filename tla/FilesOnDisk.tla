----------------------------- MODULE FilesOnDisk -----------------------------
(***************************************************************************)
(* The directory struct Files keeps, one system call at a time, and a      *)
(* process that may be killed between any two: rc-blockchain/src/storage/  *)
(* files.rs.  fs::write truncates a file and then fills it, and nothing is *)
(* written to another name and renamed, so a kill in between leaves an     *)
(* empty file, which prost decodes as the default message.                 *)
(*                                                                         *)
(* What is read back is told apart by number only: a block file is whole   *)
(* or Torn, and two blocks of the same number are the same block (see      *)
(* Railchain for why).  The operating system keeps running, so what was    *)
(* written stays written.                                                  *)
(***************************************************************************)
EXTENDS Integers, Sequences, Functions

CONSTANTS
    Torn,       \* the content of a file that was truncated and not filled
    Absent,     \* the content of a file that was never written
    MaxBlock,   \* bound: number of the newest block
    MaxCrashes  \* bound: how often the process is killed

ASSUME FilesAssumption ==
    /\ Torn \notin Nat /\ Absent \notin Nat /\ Torn # Absent
    /\ MaxBlock \in Nat /\ MaxCrashes \in Nat

VARIABLES
    disk,       \* the directory: files block (a map), head, base
    head,       \* self.head.number
    base,       \* self.base.number(); Torn if it has no header
    todo,       \* system calls the operation under way has still to make
    job,        \* the operation under way, or the one the last kill cut short
    up,         \* whether the process runs
    asked,      \* history: the highest number ever pruned to
    settled,    \* history: self.head.number when the last operation ended
    gap,        \* history: whether a kill ever cut a transfer
    crashes     \* history: how often the process was killed

vars == <<disk, head, base, todo, job, up, asked, settled, gap, crashes>>

-----------------------------------------------------------------------------
(* System calls                                                             *)

Call(op, file, n) == [op |-> op, file |-> file, n |-> n]

\* fs::write
Write(file, n) == <<Call("truncate", file, n), Call("fill", file, n)>>

\* A fault: the file is named after the next block.
StoreUnderNextCalls(k) == Write("block", k + 1) \o Write("head", k)

\* store_block and write_head
StoreCalls(k) == Write("block", k) \o Write("head", k)

\* A fault: one file more is removed.
PruneOneMoreCalls(from, k) ==
    [i \in 1 .. k - from + 2 |-> Call("remove", "block", from + i - 1)] \o Write("base", k)

\* prune_chain and write_base: files are removed oldest first.
PruneCalls(from, k) ==
    [i \in 1 .. k - from + 1 |-> Call("remove", "block", from + i - 1)] \o Write("base", k)

\* A fault: the first block after the base is taken to be there.
RebaseSkippingCalls(from, b, k) ==
    PruneCalls(from, b) \o
    [j \in 1 .. 4 * (k - b - 1) |-> StoreCalls(b + 2 + (j - 1) \div 4)[1 + ((j - 1) % 4)]]

\* rebase: the blocks after b up to k, four calls each.
RebaseCalls(from, b, k) ==
    PruneCalls(from, b) \o
    [j \in 1 .. 4 * (k - b) |-> StoreCalls(b + 1 + (j - 1) \div 4)[1 + ((j - 1) % 4)]]

\* The directory after one call; removing a file that is not there does nothing.
Content(call) == IF call.op = "truncate" THEN Torn ELSE call.n

After(d, call) ==
    IF call.op = "remove" THEN [d EXCEPT !.block = Restrict(@, DOMAIN @ \ {call.n})]
    ELSE CASE call.file = "block" ->
                [d EXCEPT !.block = [i \in DOMAIN @ \cup {call.n} |-> IF i = call.n THEN Content(call) ELSE @[i]]]
           [] call.file = "head" -> [d EXCEPT !.head = Content(call)]
           [] call.file = "base" -> [d EXCEPT !.base = Content(call)]

\* Whole blocks are the ones read_header finds a header in.
Whole(d, i) == i \in DOMAIN d.block /\ d.block[i] # Torn

\* read_head: an empty file decodes to number 0.
HeadNumber(d) == IF d.head = Torn THEN 0 ELSE d.head

\* Files::new in Read mode: the block of the head file or the one before it.
\* None is a panic; so are a head or a base file that was never written.
FoundHead(d) ==
    IF d.head = Absent \/ d.base = Absent THEN {}
    ELSE LET k == HeadNumber(d)
         IN  IF Whole(d, k) THEN {k} ELSE {i \in {k - 1} : i >= 0 /\ Whole(d, i)}

-----------------------------------------------------------------------------
\* Files::new in Bootstrap mode with clean: an empty directory, to which base
\* and the genesis block are written.
Init ==
    /\ disk = [block |-> [i \in {} |-> 0], head |-> Absent, base |-> Absent]
    /\ head = 0 /\ base = 0
    /\ todo = Write("base", 0) \o StoreCalls(0) /\ job = "bootstrap"
    /\ up = TRUE
    /\ asked = 0 /\ settled = 0 /\ gap = FALSE /\ crashes = 0

Idle == up /\ todo = <<>>

Larger(a, b) == IF a > b THEN a ELSE b

\* create_block and store_block
CreateBlock ==
    /\ Idle /\ head < MaxBlock
    /\ head' = head + 1 /\ todo' = StoreCalls(head + 1) /\ job' = "create"
    /\ UNCHANGED <<disk, base, up, asked, settled, gap, crashes>>

\* prune_chain for a Delete, which may be ahead of the head.
Prune(k) ==
    /\ Idle /\ base # Torn
    /\ base' = k /\ todo' = PruneCalls(base, k) /\ job' = "prune" /\ asked' = Larger(asked, k)
    /\ UNCHANGED <<disk, head, up, settled, gap, crashes>>

\* rebase, when a checkpoint is applied.
Rebase(b, k) ==
    /\ Idle /\ base # Torn /\ b < k /\ head < k
    /\ base' = b /\ head' = k /\ todo' = RebaseCalls(base, b, k) /\ job' = "rebase"
    /\ asked' = Larger(asked, b)
    /\ UNCHANGED <<disk, up, settled, gap, crashes>>

\* prune_chain when the base read back has no header: number() panics.
PruneWithoutBase ==
    /\ Idle /\ base = Torn
    /\ up' = FALSE /\ job' = "prune"
    /\ UNCHANGED <<disk, head, base, todo, asked, settled, gap, crashes>>

\* One system call; the operation ends with its last.
DoCall ==
    /\ up /\ todo # <<>>
    /\ disk' = After(disk, Head(todo)) /\ todo' = Tail(todo)
    /\ IF Tail(todo) = <<>> THEN job' = "none" /\ settled' = head ELSE UNCHANGED <<job, settled>>
    /\ UNCHANGED <<head, base, up, asked, gap, crashes>>

\* The process is killed.
Crash ==
    /\ up /\ crashes < MaxCrashes
    /\ up' = FALSE /\ todo' = <<>> /\ crashes' = crashes + 1
    /\ gap' = (gap \/ job = "rebase")
    /\ UNCHANGED <<disk, head, base, job, asked, settled>>

\* The process starts again with --resume-chain; it writes nothing.
Restart ==
    /\ ~up
    /\ \E h \in FoundHead(disk) : head' = h /\ settled' = h
    /\ base' = disk.base /\ up' = TRUE /\ job' = "none"
    /\ UNCHANGED <<disk, todo, asked, gap, crashes>>

Next ==
    \/ CreateBlock
    \/ \E k \in 1 .. MaxBlock : Prune(k)
    \/ \E b \in 0 .. MaxBlock, k \in 1 .. MaxBlock : Rebase(b, k)
    \/ PruneWithoutBase \/ DoCall \/ Crash \/ Restart

Spec == Init /\ [][Next]_vars

-----------------------------------------------------------------------------
(* Properties                                                               *)

\* TypeOK: every variable has its type; the process runs an operation exactly
\* while it has calls to make.
TypeOK ==
    /\ \A i \in DOMAIN disk.block : i \in 0 .. MaxBlock /\ disk.block[i] \in {i, Torn}
    /\ disk.head \in 0 .. MaxBlock \cup {Torn, Absent} /\ disk.base \in 0 .. MaxBlock \cup {Torn, Absent}
    /\ head \in 0 .. MaxBlock /\ base \in 0 .. MaxBlock \cup {Torn}
    /\ job \in {"none", "bootstrap", "create", "prune", "rebase"}
    /\ asked \in 0 .. MaxBlock /\ settled \in 0 .. MaxBlock /\ gap \in BOOLEAN /\ crashes \in 0 .. MaxCrashes
    /\ (up => (job = "none" <=> todo = <<>>)) /\ (~up => todo = <<>>)

\* HeadRecovered: whenever the process is killed, the head it starts from is
\* the head of before the operation that was cut short or the block that
\* operation made: the block is written before the head file (files.rs:181,
\* 184), so head file and blocks never disagree.  Not if the head file itself
\* is torn, if the block of the head was pruned, or in a transfer, which
\* takes the head file back to the base before it takes it forward.
HeadRecovered ==
    disk.head \notin {Torn, Absent} /\ job # "rebase" /\ settled > asked =>
        \E h \in FoundHead(disk) : settled <= h /\ h <= settled + 1

\* ChainReadable: between operations every block above the highest number ever
\* pruned to, up to the head, can be read back, whatever was killed and
\* restarted before (even if the chain started over from block 0 because the
\* head file was torn).  A kill that cuts a transfer short can leave one block
\* that cannot: the first, if the transfer was rewriting blocks below the head
\* file's, which goes back only after that block.
ChainReadable == Idle => \A i \in asked + (IF gap THEN 2 ELSE 1) .. head : Whole(disk, i)

\* StopResumes: a process that is stopped between operations can be started
\* again on its chain ("use existing chain on disk", bin/railchain.rs:368).
StopResumes == Idle => FoundHead(disk) # {}
=============================================================================

------------------------------ MODULE Exporter ------------------------------
(***************************************************************************)
(* The export protocol: rc-export/src/v2.rs with bin/export2.rs, and the   *)
(* reads and Deletes the replicas answer, rc-application/src/app.rs.       *)
(*                                                                         *)
(* A timer starts export2 again and again.  It asks every replica for a    *)
(* proof of its stable checkpoint and one of them (Full) for the blocks,   *)
(* verifies what it gets, signs a Delete for the last block, waits for     *)
(* some answers and only then writes the blocks.                           *)
(*                                                                         *)
(* Of the replicas only what they answer is modelled: they execute the     *)
(* same log, and a step of theirs leads from one stable checkpoint to the  *)
(* next.  Their chains are those of ChainStore.                            *)
(***************************************************************************)
EXTENDS ChainStore, FiniteSets

CONSTANTS
    Replica,            \* the replicas
    Full,               \* the one that is asked for blocks (not_hashed)
    F,                  \* F: how many of them may fail
    Tx,                 \* transactions
    Other,              \* an ordered request that is no transaction
    MaxBlockMessages,   \* railchain.max_block_messages
    Interval,           \* pbft.checkpoint_interval
    Logs,               \* bound: the logs that may be ordered
    Bases,              \* values of --base
    Sinks,              \* the options given, of --output, --postgres and --vic-addr
    MaxPending,         \* bound: commands that wait at a replica when a run starts
    MaxFaults           \* bound: restarts of replicas and runs that are killed

ASSUME ExporterAssumption ==
    /\ Full \in Replica /\ F \in Nat /\ Other \notin Tx
    /\ MaxBlockMessages \in Nat \ {0} /\ Interval \in Nat \ {0}
    /\ \A l \in Logs : l \in Seq(Tx \cup {Other})
    /\ Bases \subseteq Nat /\ Sinks \subseteq {"output", "postgres", "victoria"}
    /\ MaxPending \in Nat /\ MaxFaults \in Nat

VARIABLES
    log,        \* the ordered requests (external)
    store,      \* blockchain.storage of each replica
    pruneBase,  \* prune_base: the set of the header of the Delete, or {}
    up,         \* replicas that have not panicked
    inbox,      \* commands on their way to each replica
    earliest,   \* --base
    exporter,   \* the state of the running export2
    deleted,    \* history: the header of the last Delete signed, or {}
    fetched,    \* history: the headers of all blocks of all segments
    written,    \* history: of the blocks that reached a sink
    lost,       \* history: of those of runs that were killed or panicked instead
    restarts, kills     \* history: how often so far

vars == <<log, store, pruneBase, up, inbox, earliest, exporter, deleted, fetched, written, lost, restarts, kills>>

\* No process.
Idle == [phase |-> "idle", conn |-> {}, received |-> 0, full |-> FALSE, proofs |-> {}, blocks |-> <<>>,
         source |-> Full, head |-> Genesis, base |-> Genesis, acks |-> 0]

Transactions(k) == TransactionsIn(log, Tx)[k]

\* The state after k requests is that of header h and an empty cutter.
StateIs(k, h) ==
    /\ h = ChainOf(Transactions(k), MaxBlockMessages)
    /\ RestOf(Transactions(k), MaxBlockMessages) = <<>>

\* blockgen: a chain up to h, and a proof signed by all that after Interval
\* requests for each block the state is that of h and an empty cutter.
GenerateProof(h) == Number(h) * Interval

Generated(h) ==
    StoreProof([Bootstrapped EXCEPT !.blocks = [i \in 0 .. Number(h) |-> Upto(h, i)], !.head = h],
               GenerateProof(h))

\* Replicas start with nothing, or all resume one chain that was generated.
Init ==
    /\ log \in Logs /\ earliest \in Bases
    /\ \E s \in {Bootstrapped} \cup
                 {Generated(ChainOf(Transactions(c), MaxBlockMessages)) : c \in 1 .. Len(log)} :
          /\ s.proof <= Len(log) /\ StateIs(s.proof, s.head)
          /\ store = [n \in Replica |-> s]
    /\ pruneBase = [n \in Replica |-> {}]
    /\ up = Replica
    /\ inbox = [n \in Replica |-> <<>>]
    /\ exporter = Idle
    /\ deleted = {} /\ fetched = {} /\ written = {} /\ lost = {}
    /\ restarts = 0 /\ kills = 0

Larger(a, b) == IF a > b THEN a ELSE b

-----------------------------------------------------------------------------
(* Replicas                                                                 *)

\* A store after the blocks up to head were created and proof c was stored.
Advanced(s, head, c) ==
    LET new == Number(s.head) + 1 .. Number(head)
    IN  [StoreProof(s, c) EXCEPT
            !.blocks = [i \in DOMAIN s.blocks \cup new |-> IF i \in new THEN Upto(head, i) ELSE s.blocks[i]],
            !.head = head]

\* A replica gets to its next stable checkpoint.
Advance(n) ==
    LET c == store[n].proof + Interval
    IN  /\ n \in up /\ c <= Len(log)
        /\ store' = [store EXCEPT ![n] = Advanced(@, ChainOf(Transactions(c), MaxBlockMessages), c)]
        /\ UNCHANGED <<log, pruneBase, up, inbox, earliest, exporter, deleted, fetched, written, lost,
                       restarts, kills>>

\* The number a read starts above, and the block number of the checkpoint.
PruneNumber(n) == IF pruneBase[n] = {} THEN 0 ELSE Number(CHOOSE h \in pruneBase[n] : TRUE)

ReadBase(n, command) == Larger(command.base, PruneNumber(n))

CheckpointHead(n) == store[n].proof \div Interval

\* export_v2 with HASH_REPLY: a proof, with the head's header if it is there.
HashedReply(n, command) ==
    LET newer == CheckpointHead(n) > ReadBase(n, command)
    IN  [op |-> "proof", full |-> FALSE, blocks |-> <<>>, sequence |-> store[n].proof,
         base |-> IF PruneNumber(n) > command.base THEN pruneBase[n] ELSE {},
         head |-> IF newer /\ Reads(store[n], CheckpointHead(n)) THEN {store[n].blocks[CheckpointHead(n)]} ELSE {}]

\* The blocks from base + 1 to head, and whether they are all on disk.
AllRead(n, base, head) == \A i \in base + 1 .. head : Reads(store[n], i)

ReadBlocks(n, base, head) ==
    [j \in 1 .. (IF head > base THEN head - base ELSE 0) |-> store[n].blocks[base + j]]

\* export_v2 without it: the blocks as well.
FullReply(n, command) ==
    LET blocks == ReadBlocks(n, ReadBase(n, command), CheckpointHead(n))
    IN  [HashedReply(n, command) EXCEPT
            !.full = TRUE, !.blocks = blocks,
            !.head = IF blocks = <<>> THEN {} ELSE {blocks[Len(blocks)]}]

\* export_blocks_only (ReadOp::Read): blocks without a proof.
ReadEnd(n, command) ==
    IF command.head < Number(store[n].head) THEN command.head ELSE Number(store[n].head)

\* handle_export_message: what a command is answered with.
ReplyTo(n, command) ==
    CASE command.op = "v2" /\ command.hashed -> HashedReply(n, command)
      [] command.op = "v2" /\ ~command.hashed -> FullReply(n, command)
      [] command.op = "read" ->
            [op |-> "blocks", blocks |-> ReadBlocks(n, ReadBase(n, command), ReadEnd(n, command))]
      [] command.op = "delete" -> [op |-> "ack"]

\* The blocks it reads are there; get_block_binary(i).unwrap() panics otherwise.
CanAnswer(n, command) ==
    CASE command.op = "v2" -> command.hashed \/ AllRead(n, ReadBase(n, command), CheckpointHead(n))
      [] command.op = "read" -> AllRead(n, ReadBase(n, command), ReadEnd(n, command))
      [] command.op = "delete" -> TRUE

\* A fault: the storage refuses the Delete and prune_base moves on.
OnlyPruneBase(n, delete) ==
    /\ pruneBase' = [pruneBase EXCEPT ![n] = {delete}]
    /\ UNCHANGED store

\* delete_blocks
DeleteBlocks(n, delete) ==
    /\ store' = [store EXCEPT ![n] = PruneChain(@, delete)]
    /\ pruneBase' = [pruneBase EXCEPT ![n] = {delete}]

\* A replica restarts: base, head and proof are read back, prune_base is not.
\* It panics if it finds no head.
Restart(n) ==
    /\ n \in up /\ restarts + kills < MaxFaults
    /\ restarts' = restarts + 1
    /\ \/ \E h \in FoundHead(store[n]) :
             /\ store' = [store EXCEPT ![n].head = h]
             /\ pruneBase' = [pruneBase EXCEPT ![n] = {}]
             /\ UNCHANGED up
       \/ FoundHead(store[n]) = {} /\ up' = up \ {n} /\ UNCHANGED <<store, pruneBase>>
    /\ inbox' = [inbox EXCEPT ![n] = <<>>]
    /\ UNCHANGED <<log, earliest, exporter, deleted, fetched, written, lost, kills>>

-----------------------------------------------------------------------------
(* The exporter                                                             *)

\* waiting, after the exporter has sent each replica that has one its command.
Sent(waiting, command) ==
    [n \in Replica |-> IF n \in DOMAIN command THEN Append(waiting[n], command[n]) ELSE waiting[n]]

\* Command::read2, Command::read0 and Command::delete.
Read2(n) == [op |-> "v2", base |-> earliest, hashed |-> n # Full]
Read0(base, head) == [op |-> "read", base |-> base, head |-> head]
Delete(header) == [op |-> "delete", header |-> header]

\* connect: 12 permits are Full and two others; slower connections are given up.
Connected(conn) == Full \in conn /\ Cardinality(conn) >= 3

\* A run of export2 starts, and fetch_blocks asks.
Start ==
    /\ exporter.phase = "idle"
    /\ \E conn \in SUBSET up :
          /\ Connected(conn) /\ \A n \in conn : Len(inbox[n]) < MaxPending
          /\ exporter' = [Idle EXCEPT !.phase = "step1", !.conn = conn]
          /\ inbox' = Sent(inbox, [n \in conn |-> Read2(n)])
    /\ UNCHANGED <<log, store, pruneBase, up, earliest, deleted, fetched, written, lost, restarts, kills>>

\* The process ends, in a panic or not.  Either all it sent has left, or what
\* has not been handled yet is lost with it; what one replica handles of it and
\* another does not is a matter of when the end comes.
Exit(waiting) ==
    /\ exporter' = Idle
    /\ \E dropped \in {{}, exporter.conn} :
          inbox' = [n \in Replica |-> IF n \in dropped THEN <<>> ELSE waiting[n]]

\* A fault: the proof is taken for granted.
AnyProof(proof) == proof.head # {}

\* verify_proof: the checkpoint is of this header and an empty cutter.
VerifyProof(proof) == \E h \in proof.head : StateIs(proof.sequence, h)

ProofNumber(proof) == Number(CHOOSE h \in proof.head : TRUE)

\* verify1: of the replies that verify, one with the lowest head.
Candidates(proofs) ==
    LET valid == {p \in proofs : VerifyProof(p)}
    IN  {p \in valid : \A q \in valid : ProofNumber(p) <= ProofNumber(q)}

\* verify_base: the highest header of a Delete any reply contains.
VerifyBase(proofs) ==
    LET bases == UNION {p.base : p \in proofs}
    IN  IF bases = {} THEN Genesis ELSE CHOOSE h \in bases : \A g \in bases : Number(g) <= Number(h)

\* highest_block
HighestBlock(e) == IF e.blocks = <<>> THEN Number(e.base) ELSE Number(e.blocks[Len(e.blocks)])

\* A fault: the blocks need not follow the base.
SegmentEndsAtHead(e) == e.blocks # <<>> /\ Number(e.head) = HighestBlock(e)

\* A fault: the segment ends before the head.
SegmentEndsBefore(e) == e.blocks # <<>> /\ Number(e.head) > HighestBlock(e)

\* The asserts at the end of fetch_blocks: the blocks from the first above the
\* base on (skip_while) follow the base and end at the proven head.
SegmentVerified(e) ==
    /\ \E first \in DOMAIN e.blocks :
          /\ Number(e.blocks[first]) > Number(e.base)
          /\ \A i \in 1 .. first - 1 : Number(e.blocks[i]) <= Number(e.base)
          /\ VerifyChain(e.base, SubSeq(e.blocks, first, Len(e.blocks)))
    /\ Number(e.head) = HighestBlock(e)

\* The rest of fetch_blocks, and the broadcast of delete_blocks.
FetchComplete(waiting, e) ==
    IF SegmentVerified(e)
    THEN LET last == e.blocks[Len(e.blocks)]
         IN  /\ exporter' = [Idle EXCEPT !.phase = "delete", !.conn = e.conn, !.blocks = e.blocks]
             /\ fetched' = fetched \cup Range(e.blocks)
             /\ deleted' = {last}
             /\ inbox' = Sent(waiting, [n \in e.conn |-> Delete(last)])
    ELSE Exit(waiting) /\ UNCHANGED <<fetched, deleted>>

\* fetch_blocks after fetch_step1; a reply without a head is a panic, and so is
\* none that verifies.
Verify1(waiting, e) ==
    \/ /\ (\E p \in e.proofs : p.head = {}) \/ Candidates(e.proofs) = {}
       /\ Exit(waiting) /\ UNCHANGED <<fetched, deleted>>
    \/ /\ \A p \in e.proofs : p.head # {}
       /\ \E p \in Candidates(e.proofs) :
             \E picked \in {[e EXCEPT !.source = p.source, !.head = CHOOSE h \in p.head : TRUE,
                                      !.base = VerifyBase(e.proofs)]} :
                LET highest == HighestBlock(picked)
                    base == Number(picked.base)
                IN  IF ProofNumber(p) > highest /\ ProofNumber(p) > base
                    THEN /\ exporter' = [picked EXCEPT !.phase = "step2"]
                         /\ inbox' = Sent(waiting, [n \in {p.source} |->
                                                     Read0(Larger(base, highest), ProofNumber(p))])
                         /\ UNCHANGED <<fetched, deleted>>
                    ELSE FetchComplete(waiting, picked)

\* fetch_step1: replies are counted as they come, until there are more than 2F
\* and one from Full.  Any other message cannot be decoded.
FetchStep1(waiting, n, reply) ==
    \/ /\ reply.op = "proof"
       /\ \E e \in {[exporter EXCEPT
                        !.received = @ + 1, !.full = @ \/ n = Full,
                        !.proofs = @ \cup {[source |-> n, sequence |-> reply.sequence,
                                            head |-> reply.head, base |-> reply.base]},
                        !.blocks = IF reply.full THEN reply.blocks ELSE @]} :
             IF e.received > 2 * F /\ e.full
             THEN Verify1(waiting, e)
             ELSE exporter' = e /\ inbox' = waiting /\ UNCHANGED <<fetched, deleted>>
    \/ /\ reply.op # "proof"
       /\ Exit(waiting) /\ UNCHANGED <<fetched, deleted>>

\* fetch_step2: the first message from the source counts, others are skipped.
FetchStep2(waiting, n, reply) ==
    IF n # exporter.source THEN inbox' = waiting /\ UNCHANGED <<exporter, fetched, deleted>>
    ELSE IF reply.op = "blocks" THEN FetchComplete(waiting, [exporter EXCEPT !.blocks = @ \o reply.blocks])
    ELSE Exit(waiting) /\ UNCHANGED <<fetched, deleted>>

\* delete_blocks: any F + 1 messages are taken for answers to the Delete.
AwaitDelete(waiting) ==
    /\ exporter' = [exporter EXCEPT !.acks = @ + 1, !.phase = IF exporter.acks + 1 > F THEN "write" ELSE @]
    /\ inbox' = waiting
    /\ UNCHANGED <<fetched, deleted>>

\* An answer gets to the process that is connected then, if it still listens.
Receive(waiting, n, reply) ==
    \/ n \in exporter.conn /\ exporter.phase = "step1" /\ FetchStep1(waiting, n, reply)
    \/ n \in exporter.conn /\ exporter.phase = "step2" /\ FetchStep2(waiting, n, reply)
    \/ n \in exporter.conn /\ exporter.phase = "delete" /\ AwaitDelete(waiting)
    \/ /\ n \notin exporter.conn \/ exporter.phase \in {"idle", "write"}
       /\ inbox' = waiting
       /\ UNCHANGED <<exporter, fetched, deleted>>

\* execute: commands are READ_ONLY, so a replica handles them as they come.
\* How long its answer takes is of no account: the exporter keeps answers in a
\* set, or counts them, and a later answer differs from a late one only in
\* what the others have answered before.
Execute(n) ==
    /\ n \in up /\ inbox[n] # <<>>
    /\ \E command \in {Head(inbox[n])}, waiting \in {[inbox EXCEPT ![n] = Tail(@)]} :
          \/ /\ CanAnswer(n, command)
             /\ \E reply \in {ReplyTo(n, command)} : Receive(waiting, n, reply)
             /\ IF command.op = "delete" THEN DeleteBlocks(n, command.header)
                ELSE UNCHANGED <<store, pruneBase>>
             /\ UNCHANGED up
          \/ /\ ~CanAnswer(n, command)
             /\ up' = up \ {n} /\ inbox' = waiting
             /\ UNCHANGED <<store, pruneBase, exporter, fetched, deleted>>
    /\ UNCHANGED <<log, earliest, written, lost, restarts, kills>>

\* The blocks of a process that has sent its Delete.
Held == IF exporter.phase \in {"delete", "write"} THEN Range(exporter.blocks) ELSE {}

\* A fault: an error of Victoria ends main.
StoredIfPushed(sinks, pushed, panics) == pushed

\* The blocks get somewhere: an error of Victoria is only logged, the file comes
\* last, and --postgres is not looked at.
Stored(sinks, pushed, panics) == ("victoria" \in sinks /\ pushed) \/ ("output" \in sinks /\ ~panics)

\* The rest of main.  It panics over blocks that Victoria's writer cannot decode,
\* before it has posted any (see Telemetry), or over the file.
Write ==
    /\ exporter.phase = "write"
    /\ \E pushed, panics \in BOOLEAN :
          /\ panics => Sinks \cap {"output", "victoria"} # {}
          /\ panics /\ pushed => "output" \in Sinks
          /\ \E stored \in {Stored(Sinks, pushed, panics)} :
                /\ written' = IF stored THEN written \cup Held ELSE written
                /\ lost' = IF panics /\ ~stored THEN lost \cup Held ELSE lost
    /\ Exit(inbox)
    /\ UNCHANGED <<log, store, pruneBase, up, earliest, deleted, fetched, restarts, kills>>

\* The process is stopped from outside.
Kill ==
    /\ exporter.phase # "idle" /\ restarts + kills < MaxFaults
    /\ kills' = kills + 1
    /\ lost' = lost \cup Held
    /\ Exit(inbox)
    /\ UNCHANGED <<log, store, pruneBase, up, earliest, deleted, fetched, written, restarts>>

-----------------------------------------------------------------------------
Next ==
    \/ Start \/ Write \/ Kill
    \/ \E n \in Replica : Advance(n) \/ Execute(n) \/ Restart(n)

Spec == Init /\ [][Next]_vars

\* The timer keeps firing, running processes keep running, links are not cut.
Fairness ==
    /\ WF_vars(Start) /\ WF_vars(Write)
    /\ \A n \in Replica : WF_vars(Advance(n)) /\ WF_vars(Execute(n))

LiveSpec == Spec /\ Fairness

-----------------------------------------------------------------------------
(* Properties                                                               *)

Headers == Seq(Seq(Tx))

\* TypeOK: the state has its type; a process holds blocks it may have to write
\* from the first full reply on, and a replica's base is a header of its chain
\* or of one it will get to.
TypeOK ==
    /\ up \subseteq Replica /\ restarts + kills \in 0 .. MaxFaults
    /\ Cardinality(deleted) <= 1 /\ deleted \subseteq fetched /\ written \cup lost \subseteq fetched
    /\ exporter.phase \in {"idle", "step1", "step2", "delete", "write"}
    /\ exporter.conn \subseteq Replica /\ exporter.acks \in 0 .. F + 1
    /\ exporter.blocks \in Seq(Headers) /\ exporter.source \in Replica
    /\ \A n \in Replica :
          /\ store[n].head \in Headers /\ store[n].base \in Headers
          /\ store[n].proof \in 0 .. Len(log)
          /\ \A i \in DOMAIN store[n].blocks : Number(store[n].blocks[i]) = i
          /\ pruneBase[n] \subseteq {store[n].base}

\* What a replica has pruned.
Pruned(n) == {Upto(store[n].base, i) : i \in 1 .. Number(store[n].base)}

\* DeletedWasFetched: no replica ever prunes a block that no run has held, in
\* whichever order replies, Deletes and restarts come, for any --base and
\* however far the replicas are apart.  The asserts of fetch_blocks
\* (v2.rs:154-155) have to see to that.
DeletedWasFetched == \A n \in Replica : Pruned(n) \subseteq fetched

\* DeletedWasExported: a block that is pruned has reached a sink, or a running
\* exporter still holds it, or a run has lost it: one that was killed, or that
\* panicked over Victoria's blocks or over the file, after it had sent its Delete
\* (it goes out before anything is written, export2.rs:113-147).  Runs that fail
\* over replies, and errors of Victoria that are only logged, lose nothing.
DeletedWasExported == \A n \in Replica : Pruned(n) \subseteq written \cup lost \cup Held

\* Every checkpoint is of the block its number says, as CheckpointHead has it.
Aligned ==
    \A c \in 0 .. Len(log) : c % Interval = 0 =>
        \E h \in {ChainOf(Transactions(c), MaxBlockMessages)} : StateIs(c, h) /\ Number(h) = c \div Interval

\* SignsAsAssumed: a Delete is of a block that is the whole state of a stable
\* checkpoint, as in Railchain!SignDelete.  It is never older than the one signed
\* before, which would take a base backward (files.rs:196), if the checkpoints
\* are aligned: otherwise the first block of Full whose checkpoint verifies may
\* be below one that another replica has proven.
SignsAsAssumed ==
    [][\A h \in deleted' \ deleted :
          /\ Aligned => \A g \in deleted : Number(h) >= Number(g) /\ Upto(h, Number(g)) = g
          /\ \E n \in Replica : \E c \in 1 .. store[n].proof :
                c % Interval = 0 /\ c \div Interval = Number(h) /\ StateIs(c, h)]_vars

\* EventuallyExported: if the timer runs export2 --base 0 again and again, the
\* newest checkpoint is exported in the end, unless a replica panics or
\* restarts: runs that fail, Deletes that get lost and replicas that lag do not
\* keep later runs from getting there.  (A run waits without a timeout for the
\* answers a restarted replica owes, v2.rs:182.)
EventuallyExported ==
    <>(earliest # 0 \/ up # Replica \/ restarts > 0 \/ \E h \in deleted : StateIs(Len(log), h))
=============================================================================

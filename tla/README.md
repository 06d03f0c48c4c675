# ZugChain in TLA+

ZugChain records the data of a train's vehicle bus in a blockchain that four
on-board replicas keep. Every replica reads the bus itself, the replicas agree
with PBFT on the order of what they read, cut it into blocks and store them as
files; an exporter outside the train fetches blocks with a proof, and then
allows the replicas to forget them.

This directory holds TLA+ models of that code, TLC configurations that check
them on small instances and proofs that TLAPS checks. `PROJECT.json` says for
every definition which lines it models.

## 1. Inventory

| Component | Source | State | Operations | Modules |
| --- | --- | --- | --- | --- |
| Request store | `rc-bft2/src/request_queue.rs` | slot map of entries, indexes by payload and by digest | insert, remove by payload / digest, drain | `RequestStore` |
| Assignments | `rc-bft2/src/assigned_reqs.rs` | payload to sequence, window of sequences | assign, checkpoint, is_assigned | `AssignedRequests` |
| Ordering layer | `rc-bft2/src/lib.rs` | the two above, soft timers, PBFT | request, soft timeout, forward, assign, pre-prepare, checkpoint, view change, new view | `RcBft2` |
| Themis PBFT | external | view, log, votes, reorder buffer | as used by `rc-bft2` | `Pbft` |
| Application | `rc-application/src/app.rs`, `app/chain.rs` | block cutter, chain, `prune_base` | execute, take / resolve / apply / stable checkpoint, Delete, export reads | `Railchain`, `Ledger`, reads in `Exporter` |
| Storage | `rc-blockchain/src/storage/files.rs`, `hashing.rs` | block files, `base`, `head`, `checkpoint` | store, prune, rebase, read, open | `ChainStore`, `FilesOnDisk` |
| OSF stream | `libosf/osf/src/datagram.rs`, `rc-application/src/osf.rs` | header being assembled, buffer | feed, send | `OsfStream` |
| InMemory storage | `rc-blockchain/src/storage/memory.rs` | base, vector of blocks | store, prune, read, head | `StorageTwins` |
| Exporter | `rc-export/src/v2.rs`, `bin/export2.rs` | collected replies | fetch in two steps, verify, delete, write | `Exporter` |
| Chain generator | `rc-application/src/bin/blockgen.rs` | - | a chain and its proof | `Exporter!Generated` |
| Telemetry | `rc-victoria`, `rc-chaintovictoria`, `libosf/osf/src/block.rs` | channel file, samples not yet posted | decode blocks, adopt headers, post | `Telemetry` |
| Load | `request_generator.rs`, `rc-broadcaster`, `rc-benchcontrol` | program, barrier, replies counted | start together, generate, send, count | `Workload` |
| Baseline programs, command line tools, deployment | see `PROJECT.json` | - | - | not modelled |

How they interact: the OSF loop (or a generator) sends a request to its own
replica's ordering layer. The layer either proposes it (primary) or stores it
with a soft timer (backup), waiting for the primary to assign the same payload.
PBFT calls the application with ordered requests and asks it for checkpoints.
Unordered (READ_ONLY) requests go from the layer straight to the application:
the exporter's reads and its Deletes. The application owns the storage. What
the exporter fetches goes to VictoriaMetrics and to files; `chaintovictoria`
does the first with a replica's directory. In benchmarks a program takes the
place of the bus, inside the replicas or in a test client.

What is hard in it, and the property that makes each part correct:

- *Duplicates.* Every replica hears every request, so four copies of each reach
  the layer, in any order with the messages that order one of them. A request
  must be ordered, once, and every copy must go. Copies are matched by payload
  in two indexes and a timer queue that have to agree.
- *View changes.* The new primary has to propose what it stored as a backup; a
  backup has to start waiting again.
- *Laggards.* A replica may take its state over from a checkpoint instead of
  executing, at a time of its choosing relative to Deletes.
- *Deletes are not ordered*, and the exporter waits for two of four answers,
  without asking what they are answers to. It deletes before it writes.
- *Restarts.* The directory is read back; what is only in memory is gone.
- *Kills* between two file operations, none of which is atomic.
- *UDP.* Packets get lost, repeated and reordered.
- *Headers explain data*, but far apart: in another transaction, block or run of
  the program that decodes them.

The full list with lines and properties is under `hazards` in `PROJECT.json`.

## 2. Modules

**Ordering layer.** `RequestStore` and `AssignedRequests` are operators on the
two data structures, one for each method. `Pbft` is what the external crate
does as far as the layer can tell: prepare and commit are one round, a message
is handled at most once, replicas crash (are not in `Running`) but do not lie.
`RcBft2` composes them; an action is a whole handler, followed by
`assigned.checkpoint(low_mark)` where `message()` ends with it (`AfterMessage`).

| Code | Model |
| --- | --- |
| `request_queue: RequestStore` | `queue[n]`, record of `requests`, `byPayload`, `byDigest` |
| `soft_timeouts: DelayQueue` | `timeouts[n]`, a map from timer keys to digests; any running timer may expire |
| `assigned: AssignedRequests` | `assigned[n]` |
| `pbft: PBFT` | `pbft[n]` |
| `replicas` sender | `msgs`, a set: any order |
| `RCBFT::on_request` ... `on_new_view` | `OnRequest`, `OnReorder`, `OnSoftTimeout`, `OnForward`, `OnAssign`, `OnPrePrepare`, `OnCommit`, `OnCheckpoint`, `OnPbftTimeout`, `OnViewChange`, `OnNewView` |

Batches hold one request, as in every configuration of the repository. The
digest of a request is that of its payload (`hash_request_to`), so requests with
the same payload have the same digest, whoever sent them (`Digest`). PBFT is
assumed to enter a view only while it handles a message: `on_event` looks at
nothing after `on_timeout` (`lib.rs:299`), so a primary that came to be there
would keep what it stored.

**Ledger.** `ChainStore` has headers, verification and the storage operations.
A header contains the hash of the one before, so with a hash without collisions
it *is* the sequence of block contents up to its own; that is how it is
modelled. `Railchain` has the handlers of the application on several replicas
that execute the same log, each at its own pace; a handler is one action,
because the application handles one call at a time. `Ledger` is the abstract
specification: one chain that only grows, copies that are prefixes of it, which
may lose their newest block only if it was pruned (`FallBack`). `newest`, the
newest block any replica has made, is kept by the model alone. `MaxRepeats`
bounds how often a Delete that was signed is signed again; it is 0 in the runs,
and any number in the proofs.

| Code | Model |
| --- | --- |
| `block_cutter.buffer`, `prune_base` | `cutter[n]`, `pruneBase[n]` (a set of at most one header) |
| `blockchain.storage: Files` | `store[n]` |
| checkpoint handles PBFT holds, `FullCheckpointData` under way | `taken[n]`, `transfers` |
| `panic!`, `unwrap`, `expect` | the replica leaves `up` |
| `--resume-chain <sequence>` | `Restart`, at a sequence the newest block ends at |

**Directory.** `FilesOnDisk` has the same storage at the grain of system calls:
an operation is a list `todo` of truncations, fills and removals that `DoCall`
makes one at a time, and `Crash` may come between any two. `Restart` is
`Files::new` in Read mode. The memory is updated with the start of an operation
since nothing else runs until it ends. The operating system does not crash:
what was written stays written, in order.

**Bus.** `OsfStream` has the reassembly of headers and the receive loop. Its
`TypeOK` also says that the header under way holds only its own fragments, each
at its place, and counts them correctly. The
network is the set of all packets sent: one can arrive at any later time, again
and again, or never.

**Exporter.** A run of `export2` is a state machine in `exporter.phase`:

| Code | Model |
| --- | --- |
| `railyexport.timer`, `connect`, the broadcast of `fetch_blocks` | `Start` |
| `fetch_step1`, `verify1`, `verify_base`, `fetch_step2`, the asserts | `FetchStep1`, `Verify1`, `FetchStep2`, `FetchComplete` |
| `delete_blocks` | the Delete in `FetchComplete`, `AwaitDelete` |
| the rest of `main` | `Write`; any panic or the end of `main` is `Exit` |
| `handle_export_message`, `export_v2`, `export_blocks_only`, `delete_blocks` | `Execute`, with `ReplyTo` and `CanAnswer` |

Of a replica only that remains which its answers depend on: a step `Advance`
leads to its next stable checkpoint. Commands wait in `inbox` and are handled
when the replica gets to it, in a later run of the exporter if need be; the
answer is then received by whatever process is connected. `lost` records the
blocks of runs that ended after their Delete without writing them: killed, or
with a panic of Victoria's writer or over the file. `SignsAsAssumed` is
what ties this module to `Railchain`, whose `SignDelete` lets an exporter sign
exactly such Deletes: of the whole state of a stable checkpoint, and none older
than one before where every checkpoint ends with a block (`Aligned`); where not,
they are not always in order (see section 4). Replicas start with an empty chain or resume one that
`blockgen` made. Replicas do not lie.

**Telemetry.** `Telemetry` goes on where `OsfStream` has stopped: the requests
it has recorded are the chain, which `export2` reads segment by segment, or
`chaintovictoria` again and again from its base. A channel has a name and a
type, a block of data has a channel, a kind and a count; decoding is modelled by
what is accepted and how many bytes it takes, since the decoder goes on where
the last value has ended. The recorder's header and the one the reader has in
its file are compared as `write_blocks_to_victoria` compares them.

**Load.** `Workload` runs one program either in the generators of four
replicas, behind the control port that `rc-benchcontrol` connects to, or in the
test client. The replicas behind it are external: what is heard is ordered once
for each payload and answered by all, in order.

**Twins.** `StorageTwins` extends `FilesOnDisk` and makes each call on
`InMemory` as well, until that panics, a checkpoint is applied or the process is
killed.

## 3. Runs

| Run | Question | Instance |
| --- | --- | --- |
| `rcbft2_stable` | Is a heard request ever lost, is it always ordered? | 3 of 4 replicas run, one payload, heard twice by each, started at sequence 1 |
| `rcbft2_window` | Is a payload ordered twice within the backlog? | 2 replicas of 3, two payloads heard twice, window of 3, checkpoint after each request |
| `rcbft2_view` | Do timers, indexes, assignments and the drained store agree through a view change? | 3 of 4 replicas, one view change, the old primary misses the payload |
| `rcbft2_lost` (violated) | Does a request that was heard survive a view change? | as above, heard by all |
| `railchain` | Does a replica's state follow the log, is nothing above the base lost, does a replica accept what another sends it, is there one ledger? | 3 replicas, blocks and checkpoints every 2, logs of 4 and 5 requests, two Deletes, one restart |
| `railchain_missing` (violated) | Are the blocks of a stable checkpoint on disk? | blocks and checkpoints every 1, 3 requests, two Deletes in order, no restart |
| `files` | What is left after a kill? Do tests on `InMemory` show what `Files` does? | 4 blocks, two kills, any mix of create, prune and transfer |
| `files_stop` (violated) | Can a stopped replica be started again? | the same, without `InMemory` |
| `osf` | Are headers whole, each once and in order, and before their data? Do samples keep their names on the way to VictoriaMetrics, is none missing, and what makes a reader panic? | streams of 3, 2 and 3 fragments, two data packets each; chains of four blocks of one transaction, three runs of a reader |
| `export` | Is what is deleted fetched and written, are Deletes proven and (where checkpoints end with a block) in order, is the newest checkpoint exported in the end? | 3 replicas, 2 checkpoints, `--base` 0 or 1, two commands waiting at a replica, one restart or kill |
| `export_lost` (violated) | Does `--postgres` write what is deleted? | one log, no faults |
| `workload` | Do generators start together, never repeat a payload, and is a test that ends well answered? | 4 replicas, four programs of three kinds, four rounds, one failed connection |

Why the bounds are enough. Three running replicas of four make every quorum
need all of them, so that each message matters; three keys hold two duplicates
and the request of the reorder buffer. The window run has two slots in the
window and one in the backlog, so that payloads leave it while copies are still
around. In `railchain` a log has one request that is no transaction in it, so
that a checkpoint finds a half-full cutter and one without blocks; two blocks
and two Deletes are the least with which a Delete can be stale. In `files`, four
blocks allow a transfer that rewrites two blocks above a base above zero, and
the second kill can come while the first is being recovered from. Three streams
in `osf` let packets of two old streams arrive late, with a longer and a
shorter header than the current one. Their channels differ in type with the
same width (the samples decode, under the wrong name, if the header is not
adopted), in width, and in number; there are locations, strings and multiple
values, and three runs are enough for one to leave a channel file, one to fail
and one to start from what both left. As the chain only grows, a run of a
reader sees a prefix of what is recorded in the end, so recording stops first
and runs choose how much they see. `export` has three replicas because the
exporter waits for three of four: the fourth is the one that may have failed, and
if it answers, it does in the place of another. Two commands can wait at a
replica: the Delete of one run and the read of the next. Answers are received
when a command is handled: the exporter keeps them in a set or counts them. What
is lost when a run ends is all that waits or nothing; what one replica handles
and another does not is a matter of when the run ends. One of the logs has all
transactions before the first checkpoint, so that the number of a block and that
of its checkpoint disagree. `workload` goes once through a program and begins it
again, so that a repeated payload would show; `Half` is as small as the number of
rounds allows. `MCProgramsAssumption` has TLC confirm that the programs are
`Numbered` and `Addressed`, as the theorems about payloads require.

Symmetry is used for payloads (`rcbft2_window`) and replicas (`railchain*`), in
runs without liveness. `CHECK_DEADLOCK FALSE`: all systems may come to rest,
when every request allowed by the bounds has been dealt with, or a process has
panicked.

Fairness is assumed in three runs. In `rcbft2_stable`, a running replica handles
messages it can handle and expired timers. Its event loop polls the links, the
soft timers and PBFT in turn (`lib.rs:315-336`), so none is passed over forever.
Nothing is assumed of requests or view changes, and there are none of the latter
in that run: it is the liveness of a view with a correct primary. In `export`,
the timer starts the exporter again (`railyexport.timer`), a replica handles
what waits for it and gets to its next checkpoint; nothing is assumed of faults.
In `workload`, every task of a running process goes on, and nothing is assumed of
the timeout of a test, which may come at any time. In all cases the fairness is
weak, and stated for each actor.

### What the violated runs show

- `rcbft2_lost`: assignments are kept across a view change
  (`rc-bft2/src/lib.rs:120`, a TODO). If the slot was not carried over, the new
  primary takes the payload for assigned and drops it.
- `railchain_missing`: a replica that was behind takes over a checkpoint with a
  newer base and then handles an older Delete, which moves the base back
  (`files.rs:196`); the next `resolve_checkpoint` panics over blocks that are
  gone. A restart does the same, because it forgets `prune_base` (`app.rs:86`).
- `files_stop`: after pruning to the newest block there is no block to read the
  head from, and `--resume-chain` panics (`files.rs:109`).
- `export_lost`: `--postgres` is parsed and never looked at (`export2.rs:83-94`),
  while the blocks are deleted on all replicas.

### What is excluded, and why

`HeadRecovered` does not speak of a torn head file (it decodes to 0: the chain
starts over, or panics if block 0 was pruned), of a head at or below the highest
pruned number (`files_stop`), or of a transfer that was cut short, which leaves
the head file between the base and the old head. `ChainReadable` speaks of torn
head files and of cut transfers: one that was rewriting blocks below the head
file's leaves at most its first block unreadable, because the head file goes
back right after that block. These are properties of the code, not of the model.

`DeletedWasExported` allows for blocks in `lost`: those of runs that were killed
or panicked between the Delete and the write. `EventuallyExported` speaks of
`--base 0`, as in `ansible/files/railyexport.service`, and of replicas that
neither panic nor restart: a run waits without a timeout for the answers a
restarted replica owes (`v2.rs:185`), and one with `--base` at the replicas' own
base fails to verify. `StoragesAgree` ends where `InMemory` panics on a Delete
that `Files` accepts, or would keep blocks in a rebase that `Files` overwrites.
`SamplesNamed` excludes data before the first header of a run of
`chaintovictoria`: when the chain was pruned, the channel file of a later stream
names it. `PanicHasCause` names the three things a reader of `export2` panics on:
strings, types that are not supported, and a header with more channels that was
not adopted, since channels are compared only as far as both headers go.
`EventuallyDone` has three exceptions. A test may fail because its timeout of ten
seconds comes before all is answered. It may fail although all is answered, if
its requests are not ordered in sequence (`InSequence`): `process_replies` moves
on by one number for each reply (`lib.rs:413`), so when a request that skips the
primary is ordered last, no reply is left to move past the numbers that were
complete before. And when a task of `rc-benchcontrol` gives up, the others wait
forever at the barrier for it, and `main` waits for the first of them
(`main.rs:31-46`). `SuccessMeansAnswered` says something of programs of `Normal`
and `Skip` only: one with `Corrupt` or `Additional`, where several requests have
one number, never ends well, since the sets of replies to its last numbers stay
empty.

## 4. Proofs

Every theorem is about the specification a run checks, for every value of the
constants that the named assumptions of the modules allow: any number of
replicas, any log, any block size and checkpoint interval, any bound. Where a
theorem assumes more, the table says so.

| Module | Theorem | States | Assumes |
| --- | --- | --- | --- |
| `RcBft2_proofs` | `TypeCorrect`, `WaitingTimed`, `PrimaryEmptyHanded`, `AssignedNotWaiting` | `TypeOK`, `WaitingHasItsTimer`, `PrimaryHoldsNothing`, `AssignedNeverWaits` | |
| | `NoEarlyRepeat`, `HeardNotLost` | `NoRepeatWithinBacklog`, `HeardIsHeld` | `MaxView = 0`: there are no view changes |
| `Railchain_proofs` | `TypeCorrect`, `ReplicasFollowLog`, `NothingNewerLost`, `TransfersAccepted` | `TypeOK`, `StateFollowsLog`, `StoredFromBase`, `TransfersVerify` | |
| | `Refinement` | `ImplementsLedger` | |
| `FilesOnDisk_proofs` | `TypeCorrect`, `HeadSurvives`, `ChainSurvives` | `TypeOK`, `HeadRecovered`, `ChainReadable` | |
| | `TwinsAreFiles`, `TwinsAgree` | the twins implement `FilesOnDisk`, `StoragesAgree` | |
| `OsfStream_proofs` | `HeaderConsistent`, `HeadersAreWhole`, `HeadersInOrder`, `DataHasHeader` | `TypeOK`, `HeaderWhole`, `HeadersNewer`, `DataExplained` | |
| `Telemetry_proofs` | `LinesAreNamed`, `NoneMissing`, `PanicsExplained` | `SamplesNamed`, `ExportComplete`, `PanicHasCause` | |
| `Exporter_proofs` | `TypeCorrect`, `PrunedWasFetched`, `SignsProvenBlocks` | `TypeOK`, `DeletedWasFetched`, `SignsAsAssumed` | |
| | `PrunedWasExported` | `DeletedWasExported`, which excepts `lost` blocks | `"output" \in Sinks` |
| `Workload_proofs` | `TypesAreOK`, `GoesAfterAll`, `SuccessIsAnswered` | `TypeOK`, `GoAfterAll`, `SuccessMeansAnswered` | |
| | `GeneratesDistinct` | `GeneratedDistinct` | the program is `Numbered` |
| | `ExpectedIsOrdered` | `ExpectedAreOrdered` | the program is `Addressed` |
| `ChainStore_proofs` | `TransactionsInUnfold`, `CutType`, `CutAppend` | what the operators of `ChainStore` compute, on logs and chains of every length | |

The assumptions are those of the code. A view change may lose what was
heard (run `rcbft2_lost`), and the window of the new primary is its own, so what
a stable view guarantees is stated of stable views. `--victoria` alone does not write what is deleted when
its post fails, and `--postgres` writes nothing (`export_lost`). Nothing in the
code asks for programs that are `Numbered` and `Addressed`, but those in
`rc-broadcaster/programs` are ("What the proofs have shown" says what becomes of others).

**Ordering layer** (`RcBft2_proofs`, the lemmas about the store first).
`WaitingHasItsTimer` and `AssignedNeverWaits` are not inductive alone: a removal
by payload is harmless only if both indexes and the timer agree. The inductive
invariant `LayerInv` has, for each replica, the type of its parts, `Timed`
(indexes and timers agree), the empty store of a primary, and the disjointness
of index and assignments; and for the messages, that a NewView never goes to the
primary it announces, without which a replica could become primary with a store
that was not drained. There is a lemma for each operation of the store and for
each action; `NextStep` collects them, and `Invariance` is the temporal step.

While the view is stable, `StableInv` goes with it. All that backups accept,
assign and release comes from the proposals of replica 0 (`FromProposal`,
`StableAt`), and `Window` says what replica 0 knows of its own proposals: a
payload is in at most one slot of `assigned`, that of its last proposal, and
one that is no longer assigned was proposed more than the backlog below the
low mark. The next proposal is above the low mark, hence far enough from it.

**Ledger** (`ChainStore_proofs`, `Railchain_proofs`). The chain after a log is a
function of the log: `CutAppend` shows that one more request adds to the buffer
or closes the next block and changes no block before, so that the chain only
grows (the lemma `ChainGrows`). `Inv` says that whatever a replica holds is cut from that
one chain: head and buffer are those after what it has executed, every block on
disk, base and Delete is the chain up to some number (`InLedger`), all blocks
above the highest base the replica was told of are there, and a transfer under
way has the blocks from its base to its head. Then `verify_chain` accepts every
transfer (the lemma `VerifyChainDef`), which is also why the guard of `ApplyCheckpoint`
never fails. The refinement maps each replica to its head: `Execute` is a
stutter or `Extend` or, behind others, `CatchUp`; `ApplyCheckpoint` is
`CatchUp`, a Delete `Prune`, a restart a stutter or `FallBack`.

**Directory** (`FilesOnDisk_proofs`). The invariant speaks of the calls that are
left (`TodoInv`): blocks that will be removed are not above the highest prune,
what is truncated is filled by the next call, the head file comes last. With it
`HeadInv`, `MemoryInv` and `DiskInv` say of each moment what a process that is
killed now leaves behind: the head file names the last head or the next, that
block is whole unless it was pruned, and so is everything below it but what
`First` excepts after a cut transfer. For that, `TransferInv` has the order of
the calls of a transfer: no block but the first is truncated before the head
file names the block before it, so whatever is torn later is above the head file.
`TwinInv` adds that `InMemory` holds exactly the blocks that `Files` has and
will not remove.

**Bus** (`OsfStream_proofs`). None of the last three properties is inductive
alone. `StreamInv` adds what connects the transactions sent to the header under
way: while a header is put together nothing is buffered and every header sent is
older; afterwards the last header sent is the newest one, and what is buffered
is of its stream. A header is whole when the count equals the number of places
because the count is the cardinality of the filled places (`FS_AddElement`,
`FS_Subset`).

**Telemetry** (`Telemetry_proofs`). A run is a recursion over transactions
(`ReadingsUnfold`), and `ReadOK` says what it has read after each: once there
was a header, the channels in use agree with the last one as far as both go
(`Fits`), so whatever is decoded was meant for the same channel; and if the
channels were right from the start (`Ready`), they also go as far as the header
(`Covers`), or there was a cause for a panic. That every item of the chain is of a
channel its header has comes from `StreamInv`, which holds while it is recorded.
Between runs, `Reading` says that the channel file of `export2` is `Ready`
for the next block as long as no run has panicked.

**Exporter** (`Exporter_proofs`). Nothing relates the answers to the Deletes, so
the invariant has to speak of all that is under way. Every Delete that waits in
some inbox, every `prune_base` and every base on disk is `Deletable`: a header of
the one chain, all blocks of which are `Covered`, that is, fetched and
written, lost, or held by the run that goes on (`Held`). A proof that was
received is of a checkpoint its replica has passed (`ProofOK`), and what is
picked is one of them (`PickedOK`). As the covered blocks only grow, even
when a run ends, which writes or loses what it held, all this survives
(`StoreGrows`, `CommandsGrow` and the like). `OrderOK` holds for aligned
checkpoints.

**Load** (`Workload_proofs`). `Started`: whoever has passed the barrier has seen
every other task there, and a gate agrees with the task at its other end.
`Typed` says whose messages there are: what a replica heard or ordered in a test
is of a set that was sent (`Sent`), so that the sequence number of an answer is
always one the client has a place for, as `TypeOK` says (`ProcessReplyDef`),
which is what keeps `process_replies` from indexing out of its vectors. `Answers` relates the counts
to the answers: there are no more replies to a sequence number than replicas
that have answered it (`Answered`), provided it stands for one request.
That is enough for every program, since `ExpectedSum` shows that a client that
expects more replies than it has sequence numbers never ends well. How many
requests are ordered is a count of payloads: `CountPayloadsUpTo` shows by
induction over the program that there are as many as are expected, `Complete` that
each was sent to somebody, and `Answers` that none is ordered twice. For the
generators, `Generating` says of which index each request is, and `WrittenDiffer`
that two indices share no payload, because their words differ (`WordsDiffer`).

Induction over data is done with sets, as the provers cannot instantiate an
induction theorem whose parameter is an operator: `SetInduction` says that a set
with 0 and the successors of its members has every natural number.

What the proofs have shown about the models. Some of the attempts failed for a
reason, and the models were changed:

- `Ledger` had no step for a replica that starts again with a shorter chain.
  After a Delete of its newest block it does (`FallBack`).
- Deletes were said to be in order always. With checkpoints that do not end with
  a block, they are not: the first block whose checkpoint verifies may be below
  one that another replica has proven (`v2.rs`, `verify1`). An instance is the
  log t1, t2, no transaction, no transaction, t3, no transaction, with blocks of
  one and checkpoints every two. `SignsAsAssumed` now states the order of aligned
  checkpoints.
- `PanicHasCause` blamed a header that is longer than the first channel file.
  One that is longer than the channels in use is enough, even if the first file
  was longer still and a shorter header has been adopted since. The property now
  says which headers may be in use.
- `GeneratedDistinct` and `ExpectedAreOrdered` are not true of every program that
  can be written. An `Additional` with as many extra requests as there are
  kinds before it, or more, repeats the payload of its own set:
  `make_apayload(i, size, i)` is `make_payload(i, size)`, so that the
  ordering layer drops one of the two. Two `Corrupt` kinds with one value, or a
  kind that names no replica, leave `count_replies_fm2` too high. `Numbered` and
  `Addressed` say which programs are free of this, for corrupt payloads
  also in terms of the rounds: an index of 2^32 is, turned round, another index.

Only model-checked:

- `EventuallyOrdered`, `EventuallyExported` and `EventuallyDone`: liveness under
  fairness is out of TLAPS's reach here.
- The violated runs: a counterexample is its own proof.

## 5. Plan

All components of section 2 are modelled, and every invariant and action property
a passing run checks is proved. What would be worth adding next, when the code calls for
it:

1. View changes in the theorems about the window (`NoEarlyRepeat`): which
   payloads a new primary may propose again, once the drained store keeps them.
2. `EventuallyDone` without `InSequence`, should `process_replies` come to pass
   over all sequence numbers that are complete and not only one more, and without
   tasks that gave up, should they leave the barrier.

## 6. Not modelled

- PBFT itself: an external crate. `Pbft` and the replicas of `Workload` are what
  the code here needs of it.
- `export_v1`, which nothing but tests asks for; the readers of whole OSF files,
  which no program uses; `StorageMode::Resume`, likewise.
- The baseline programs, the benchmark client, command line tools and
  deployment: load, I/O and process control without state to go wrong.
- Cryptography is ideal throughout: signatures cannot be forged and hashes do not
  collide. Formatting (JSON, CSV, protocol buffers) and HTTP are left out.
- Real time: any timer that runs may expire at any moment.

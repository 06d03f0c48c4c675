------------------------------ MODULE Telemetry ------------------------------
(***************************************************************************)
(* What becomes of the recorded OSF data: blocks of the chain are decoded  *)
(* and posted to VictoriaMetrics by write_blocks_to_victoria               *)
(* (rc-victoria/src/lib.rs), which is run                                  *)
(*                                                                         *)
(*   "export2"          on each segment the exporter has fetched           *)
(*                      (rc-export/src/bin/export2.rs);                    *)
(*   "chaintovictoria"  on a replica's directory, again and again          *)
(*                      (rc-chaintovictoria/src/main.rs).                  *)
(*                                                                         *)
(* OsfStream records; its requests, cut into blocks, are the chain.  As    *)
(* the chain only grows, a run sees a prefix of it: here recording ends    *)
(* first, and runs choose how long the chain was.  Indexes of channels     *)
(* start at 1 here, at 0 in the code.                                      *)
(***************************************************************************)
EXTENDS OsfStream, Functions

CONSTANTS
    BlockSize,      \* transactions in a block
    Header,         \* the channels in the header of each stream
    Content,        \* the OSF block in each data packet of each stream
    FirstFile,      \* the channel file before the first run
    MaxRead,        \* bound: transactions in a chain that is read
    MaxRuns         \* bound: runs

ASSUME TelemetryAssumption ==
    /\ BlockSize \in Nat \ {0} /\ MaxRead \in Nat /\ MaxRuns \in Nat
    /\ \A t \in Streams : \A b \in Blocks : Content[t][b].channel \in DOMAIN Header[t]

VARIABLES
    reader,     \* "none" while OsfStream records, then the program that reads
    base, head, \* of the blocks the reader has: pruned or exported up to, newest seen
    channel_file, \* the channels in the file --channel-file, --vic-header
    metrics,    \* the lines VictoriaMetrics has, with what they were made from
    panicked,   \* some run has
    failed,     \* some run has, or its post has
    runs

tvars == <<reader, base, head, channel_file, metrics, panicked, failed, runs>>

-----------------------------------------------------------------------------
(* OSF blocks                                                               *)

Width == [Bool |-> 1, Int8 |-> 1, Int16 |-> 2, Int32 |-> 4, Float |-> 4,
          Int64 |-> 8, Double |-> 8, GpsLocation |-> 24]

\* A block has a control character (GENERIC_SINGLE_VALUE, GENERIC_MULTI_VALUE
\* or STRING) and a count of values.
Osf(item) == Content[item[1]][item[2]]

\* A fault: the count of a multi value is not skipped.
ReadWithoutCount(datatype, osf) ==
    IF osf.control = "Single" THEN 8 + Width[datatype] ELSE osf.count * (8 + Width[datatype])

\* Bytes that read_value and read_multi_value take.
ReadSize(datatype, osf) ==
    IF osf.control = "Single" THEN 8 + Width[datatype] ELSE 4 + osf.count * (8 + Width[datatype])

\* Bytes the recorder has written (external): its own header's type.
DataSize(item) ==
    LET osf == Osf(item) datatype == Header[item[1]][osf.channel].datatype
    IN  IF osf.control = "Single" THEN 8 + Width[datatype] ELSE 4 + osf.count * (8 + Width[datatype])

\* OsfBlockDecoder goes on where reading one block has stopped, so a block is
\* read in full or what follows makes no sense.  A STRING takes all that is
\* left for its value but leaves twelve bytes, which are no block.  Types with
\* no width are not supported.
Decodable(channels, item) ==
    LET osf == Osf(item)
    IN  /\ osf.channel \in DOMAIN channels
        /\ osf.control # "String"
        /\ channels[osf.channel].datatype \in DOMAIN Width
        /\ ReadSize(channels[osf.channel].datatype, osf) = DataSize(item)

\* OsfBlockDecoder: all blocks of a transaction.
AllDecodable(channels, payload) == \A item \in Range(payload) : Decodable(channels, item)

\* A fault: of several values only single ones are written.
OnlySingle(datatype, osf) == osf.control = "Single"

\* osf_value_to_victoria has no value for a location.
HasValue(datatype, osf) == datatype # "GpsLocation"

\* block_to_victoria, for all blocks of a transaction.  "headed" tells whether
\* this run has read a header before.
Lines(channels, payload, headed) ==
    {[item |-> item, channel |-> channels[Osf(item).channel], headed |-> headed] :
        item \in {i \in Range(payload) : HasValue(channels[Osf(i).channel].datatype, Osf(i))}}

-----------------------------------------------------------------------------
(* write_blocks_to_victoria                                                 *)

\* The fragments of a header, put together, are its channels.
ReadHeader(payload) == Header[payload[1][1]]

\* A fault: only another number of channels counts.
CountChanged(channels, new) == Len(channels) # Len(new)

\* Channels are compared as far as both headers go.
Changed(channels, new) == \E i \in DOMAIN channels \cap DOMAIN new : channels[i] # new[i]

\* One transaction.  What cannot be decoded is unwrapped, and ends the run.
ReadTransaction(run, tx) ==
    CASE run.panicked -> run
      [] ~run.panicked /\ tx.tx_type = "Config" ->
            LET new == ReadHeader(tx.payload)
            IN  [run EXCEPT !.channels = IF Changed(@, new) THEN new ELSE @, !.headed = TRUE]
      [] ~run.panicked /\ tx.tx_type = "Data" ->
            IF AllDecodable(run.channels, tx.payload)
            THEN [run EXCEPT !.lines = @ \cup Lines(run.channels, tx.payload, run.headed)]
            ELSE [run EXCEPT !.panicked = TRUE]

\* The transactions of the blocks from first to last.
Transactions(first, last) == SubSeq(requests, (first - 1) * BlockSize + 1, last * BlockSize)

\* write_blocks_to_victoria after each of the transactions, and after the last.
Readings(channels, txs) ==
    LET run[k \in 0 .. Len(txs)] ==
            IF k = 0 THEN [channels |-> channels, headed |-> FALSE, lines |-> {}, panicked |-> FALSE]
            ELSE ReadTransaction(run[k - 1], txs[k])
    IN  run

Run(channels, first, last) ==
    LET txs == Transactions(first, last) IN Readings(channels, txs)[Len(txs)]

\* The channel file is written when a header is adopted, the lines are posted
\* at the end, if the run gets there and the post succeeds.
WriteBlocks(first, last) ==
    \E run \in {Run(channel_file, first, last)}, posted \in BOOLEAN :
        /\ posted => ~run.panicked
        /\ channel_file' = run.channels
        /\ metrics' = IF posted THEN metrics \cup run.lines ELSE metrics
        /\ panicked' = (panicked \/ run.panicked)
        /\ failed' = (failed \/ ~posted)
        /\ runs' = runs + 1

-----------------------------------------------------------------------------
TelemetryInit ==
    /\ Init
    /\ reader = "none" /\ base = 0 /\ head = 0 /\ runs = 0
    /\ channel_file = FirstFile
    /\ metrics = {} /\ panicked = FALSE /\ failed = FALSE

Record == reader = "none" /\ Next /\ UNCHANGED tvars

\* Recording ends: all that stays of it is the chain.  Runs choose how much of
\* it was there, so that shorter chains are read as well.
Stop ==
    /\ reader = "none" /\ Len(requests) = MaxRead
    /\ reader' \in {"export2", "chaintovictoria"}
    /\ sent' = {} /\ header_timestamp' = 0 /\ state' = "Header"
    /\ channel_data' = <<>> /\ current_header_packets' = 0 /\ block_buffer' = <<>>
    /\ UNCHANGED <<requests, base, head, channel_file, metrics, panicked, failed, runs>>

ChainLength == Len(requests) \div BlockSize

\* export2: the blocks from the last export to a newer checkpoint.
Export(h) ==
    /\ reader = "export2" /\ runs < MaxRuns /\ h > base
    /\ WriteBlocks(base + 1, h)
    /\ base' = h /\ head' = h
    /\ UNCHANGED vars /\ UNCHANGED reader

\* chaintovictoria: the blocks after the base, up to the one before the head.
ChainToVictoria(h) ==
    /\ reader = "chaintovictoria" /\ runs < MaxRuns /\ h >= head
    /\ WriteBlocks(base + 1, h - 1)
    /\ head' = h
    /\ UNCHANGED vars /\ UNCHANGED <<reader, base>>

\* An exporter has the replica's blocks deleted.
Prune(b) ==
    /\ reader = "chaintovictoria" /\ b > base /\ b <= head
    /\ base' = b
    /\ UNCHANGED vars /\ UNCHANGED <<reader, head, channel_file, metrics, panicked, failed, runs>>

TelemetryNext ==
    \/ Record \/ Stop
    \/ \E n \in 1 .. ChainLength : Export(n) \/ ChainToVictoria(n) \/ Prune(n)

TelemetrySpec == TelemetryInit /\ [][TelemetryNext]_<<vars, tvars>>

-----------------------------------------------------------------------------
(* Properties                                                               *)

\* The channel the recorder has meant.
Meant(item) == Header[item[1]][Osf(item).channel]

\* SamplesNamed: a line has the name and type of the channel its data was
\* recorded on.  Of data before the first header of a run this is so only if
\* the run goes on where a successful one has ended: export2's do as long as
\* none has panicked, chaintovictoria's do not once the chain has been pruned
\* (rc-victoria/src/lib.rs:129-151).
SamplesNamed ==
    \A line \in metrics :
        line.headed \/ (reader = "export2" /\ ~panicked) => line.channel = Meant(line.item)

\* ExportComplete: if no run of export2 has failed, all data of the blocks that
\* were deleted on the replicas, but for locations, is in VictoriaMetrics.
ExportComplete ==
    reader = "export2" /\ ~failed =>
        \A i \in 1 .. base * BlockSize : requests[i].tx_type = "Data" =>
            \A item \in Range(requests[i].payload) :
                Meant(item).datatype # "GpsLocation" => \E line \in metrics : line.item = item

\* PanicHasCause: a run that goes on where a successful one has ended does not
\* panic, unless there is a string, a type that is not supported, or a header
\* that was not adopted although it has more channels, because it begins like
\* the one in use.
Sound(item) == Osf(item).control # "String" /\ Meant(item).datatype \in DOMAIN Width

NotAdopted(channels, new) == ~Changed(channels, new) /\ ~(DOMAIN new \subseteq DOMAIN channels)

\* The channels that may be in use at transaction i.
InUse(i) == {FirstFile} \cup {ReadHeader(requests[j].payload) : j \in {j \in Headers : j < i}}

PanicHasCause ==
    reader = "export2" /\ panicked =>
        \E i \in 1 .. base * BlockSize :
            \/ requests[i].tx_type = "Data" /\ \E item \in Range(requests[i].payload) : ~Sound(item)
            \/ requests[i].tx_type = "Config" /\
                  \E channels \in InUse(i) : NotAdopted(channels, ReadHeader(requests[i].payload))
=============================================================================

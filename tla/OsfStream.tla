------------------------------ MODULE OsfStream ------------------------------
(***************************************************************************)
(* Recording from the vehicle bus: OSF packets arrive over UDP, are put    *)
(* together again by OsfDatagramStream (libosf/osf/src/datagram.rs) and    *)
(* turned into transactions by the receive loop of udposf_main             *)
(* (rc-application/src/osf.rs).                                            *)
(*                                                                         *)
(* The recorder starts a stream with a new timestamp: a packet with the    *)
(* number of header fragments, the fragments, then data packets that only  *)
(* this header explains.  UDP loses, reorders and duplicates packets: any  *)
(* packet sent so far may arrive next, any number of times, or never.      *)
(* A packet that feed() refuses changes nothing (osf.rs:80-83).  Indexes   *)
(* of fragments start at 1 here, at 0 in the code.                         *)
(***************************************************************************)
EXTENDS Naturals, Sequences, FiniteSets

CONSTANTS
    Fragments,      \* bound: the streams, and the number of header fragments of each
    Blocks,         \* the data packets of a stream
    MaxBuffer,      \* bound: data packets between two requests
    MaxRequests     \* bound: requests sent

ASSUME OsfAssumption ==
    /\ Fragments \in Seq(Nat \ {0})
    /\ MaxBuffer \in Nat /\ MaxRequests \in Nat

VARIABLES
    sent,               \* packets the recorder has sent (external)
    header_timestamp,   \* timestamp of the newest header packet
    state,              \* "Header" while a header is put together, or "Data"
    channel_data,       \* fragments received, Empty where none is
    current_header_packets, \* how many were received
    block_buffer,       \* data not sent yet
    requests            \* transactions sent to the ordering layer

vars == <<sent, header_timestamp, state, channel_data, current_header_packets, block_buffer, requests>>

Streams == DOMAIN Fragments

Empty == <<>>

Fragment(t, i) == <<t, i>>

Packets(t) ==
    {[id |-> "HeaderHeader", timestamp |-> t, count |-> Fragments[t]]}
    \cup {[id |-> "HeaderData", timestamp |-> t, index |-> i, chunk |-> Fragment(t, i)] : i \in 1 .. Fragments[t]}
    \cup {[id |-> "Data", timestamp |-> t, block |-> b] : b \in Blocks}

Init ==
    /\ sent = {}
    /\ header_timestamp = 0
    /\ state = "Header" /\ channel_data = <<>> /\ current_header_packets = 0
    /\ block_buffer = <<>>
    /\ requests = <<>>

\* The recorder starts its next stream.
StartStream(t) ==
    /\ \A p \in sent : p.timestamp < t
    /\ sent' = sent \cup Packets(t)
    /\ UNCHANGED <<header_timestamp, state, channel_data, current_header_packets, block_buffer, requests>>

-----------------------------------------------------------------------------
Config(header) == [tx_type |-> "Config", payload |-> header]

Data(blocks) == [tx_type |-> "Data", payload |-> blocks]

\* The end of the outer loop: what was buffered becomes one transaction.
Flush(sofar) ==
    /\ requests' = IF block_buffer = <<>> THEN sofar ELSE Append(sofar, Data(block_buffer))
    /\ block_buffer' = <<>>

\* A fault: a repeated header starts the header again.
NotOlder(p) == p.timestamp >= header_timestamp

\* header_header takes only a header newer than the one it has.
IsNewer(p) == p.timestamp > header_timestamp

\* A fault: fragments of any stream are taken.
AnyFragment(p) == TRUE

\* header_data refuses fragments of another stream.
OfThisHeader(p) == p.timestamp = header_timestamp

\* A fault: the inner loop goes on instead of ending at a new header.
HeaderHeaderKeepsBuffer(p) ==
    /\ p.id = "HeaderHeader" /\ IsNewer(p) /\ Len(requests) < MaxRequests
    /\ header_timestamp' = p.timestamp
    /\ state' = "Header" /\ current_header_packets' = 0
    /\ channel_data' = [i \in 1 .. p.count |-> Empty]
    /\ UNCHANGED <<sent, block_buffer, requests>>

\* A fault: the count of fragments goes on from the old header.
HeaderHeaderKeepsCount(p) ==
    /\ p.id = "HeaderHeader" /\ IsNewer(p) /\ Len(requests) < MaxRequests
    /\ header_timestamp' = p.timestamp
    /\ state' = "Header"
    /\ channel_data' = [i \in 1 .. p.count |-> Empty]
    /\ Flush(requests)
    /\ UNCHANGED <<sent, current_header_packets>>

\* A new header: what was buffered under the old one is sent.
HeaderHeader(p) ==
    /\ p.id = "HeaderHeader" /\ IsNewer(p) /\ Len(requests) < MaxRequests
    /\ header_timestamp' = p.timestamp
    /\ state' = "Header" /\ current_header_packets' = 0
    /\ channel_data' = [i \in 1 .. p.count |-> Empty]
    /\ Flush(requests)
    /\ UNCHANGED sent

\* A fragment: kept if it is the first at its place; the last one completes
\* the header, which is sent at once, then what is buffered.
HeaderData(p) ==
    /\ p.id = "HeaderData" /\ OfThisHeader(p) /\ state = "Header" /\ Len(requests) < MaxRequests
    /\ p.index \in DOMAIN channel_data /\ channel_data[p.index] = Empty
    /\ current_header_packets' = current_header_packets + 1
    /\ channel_data' = [channel_data EXCEPT ![p.index] = p.chunk]
    /\ IF current_header_packets' = Len(channel_data)
       THEN state' = "Data" /\ Flush(Append(requests, Config(channel_data')))
       ELSE UNCHANGED <<state, block_buffer, requests>>
    /\ UNCHANGED <<sent, header_timestamp>>

\* Data is taken only under the header of its own stream, once that is whole.
DataPacket(p) ==
    /\ p.id = "Data" /\ p.timestamp = header_timestamp /\ state = "Data"
    /\ Len(block_buffer) < MaxBuffer
    /\ block_buffer' = Append(block_buffer, <<p.timestamp, p.block>>)
    /\ UNCHANGED <<sent, header_timestamp, state, channel_data, current_header_packets, requests>>

\* No packet for five milliseconds.
Quiet ==
    /\ block_buffer # <<>> /\ Len(requests) < MaxRequests
    /\ Flush(requests)
    /\ UNCHANGED <<sent, header_timestamp, state, channel_data, current_header_packets>>

Next ==
    \/ \E t \in Streams : StartStream(t)
    \/ \E p \in sent : HeaderHeader(p) \/ HeaderData(p) \/ DataPacket(p)
    \/ Quiet

Spec == Init /\ [][Next]_vars

-----------------------------------------------------------------------------
(* Properties                                                               *)

\* A fragment or a data block, with the stream it belongs to.
Item == Nat \X (Nat \cup Blocks)

Request == [tx_type : {"Config", "Data"}, payload : Seq(Item) \ {<<>>}]

Filled == {i \in DOMAIN channel_data : channel_data[i] # Empty}

\* TypeOK: types, and the header under way: every place is empty or has its own
\* fragment of the newest header, and the count is that of the filled places.
TypeOK ==
    /\ \A p \in sent : \E t \in Streams : p \in Packets(t)
    /\ header_timestamp \in {0} \cup Streams
    /\ state \in {"Header", "Data"}
    /\ channel_data \in Seq({Empty} \cup Item)
    /\ header_timestamp # 0 => Len(channel_data) = Fragments[header_timestamp]
    /\ \A i \in Filled : channel_data[i] = Fragment(header_timestamp, i)
    /\ current_header_packets = Cardinality(Filled)
    /\ block_buffer \in Seq(Item)
    /\ requests \in Seq(Request)

Headers == {i \in DOMAIN requests : requests[i].tx_type = "Config"}

\* The stream the request with number i belongs to.
StreamOf(i) == requests[i].payload[1][1]

\* HeaderWhole: a Config transaction holds every fragment of one header, in
\* order, whatever was lost, repeated or late on the way.
HeaderWhole ==
    \A i \in Headers : \E t \in Streams :
        requests[i].payload = [k \in 1 .. Fragments[t] |-> Fragment(t, k)]

\* HeadersNewer: headers are recorded once and in the order of their streams;
\* an old stream's late packets never bring its header back.
HeadersNewer == \A i, j \in Headers : i < j => StreamOf(i) < StreamOf(j)

\* DataExplained: every Data transaction holds blocks of one stream, and the
\* last Config before it is that stream's header: whoever decodes the chain in
\* order always has the right header (rc-cli/src/osfchain.rs:10-21 does).
DataExplained ==
    \A i \in DOMAIN requests \ Headers : \E h \in Headers :
        /\ h < i /\ \A j \in Headers : j < i => j <= h
        /\ \A k \in DOMAIN requests[i].payload : requests[i].payload[k][1] = StreamOf(h)
=============================================================================

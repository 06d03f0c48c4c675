-------------------------- MODULE OsfStream_proofs --------------------------
(***************************************************************************)
(* What OsfStream records, for any number of streams, fragments and        *)
(* packets.  StreamInv adds to the properties what relates the requests    *)
(* sent to the header under way: while a header is put together nothing is *)
(* buffered and every header sent is older; afterwards the last header     *)
(* sent is the newest one, and what is buffered is of its stream.          *)
(***************************************************************************)
EXTENDS OsfStream, FiniteSetTheorems, TLAPS

LastHeader(h) == h \in Headers /\ \A j \in Headers : j <= h

Explained == \A i \in DOMAIN block_buffer : block_buffer[i][1] = header_timestamp

Recorded == HeaderWhole /\ HeadersNewer /\ DataExplained

StreamInv ==
    /\ TypeOK
    /\ Recorded
    /\ Explained
    /\ \A i \in Headers : StreamOf(i) \in Nat
    /\ state = "Header" => block_buffer = <<>> /\ \A i \in Headers : StreamOf(i) < header_timestamp
    /\ state = "Data" => \E h \in Headers : LastHeader(h) /\ StreamOf(h) = header_timestamp

-----------------------------------------------------------------------------
(* Helpers                                                                  *)

\* Appending a request leaves the others where they are.
LEMMA Appended ==
    ASSUME requests \in Seq(Request), NEW r \in Request, requests' = Append(requests, r)
    PROVE  /\ requests' \in Seq(Request)
           /\ Len(requests) \in Nat
           /\ DOMAIN requests = 1 .. Len(requests)
           /\ DOMAIN requests' = 1 .. Len(requests) + 1
           /\ \A i \in DOMAIN requests : requests'[i] = requests[i]
           /\ requests'[Len(requests) + 1] = r
  OBVIOUS

\* The assumptions on the streams.
LEMMA StreamsAreNats ==
    ASSUME NEW t \in Streams
    PROVE  t \in Nat \ {0} /\ Fragments[t] \in Nat \ {0}
  BY OsfAssumption DEF Streams

\* What a packet under way is.
LEMMA PacketShape ==
    ASSUME TypeOK, NEW p \in sent
    PROVE  /\ p.timestamp \in Streams
           /\ p.id = "HeaderHeader" => p.count = Fragments[p.timestamp]
           /\ p.id = "HeaderData" => /\ p.index \in 1 .. Fragments[p.timestamp]
                                     /\ p.chunk = Fragment(p.timestamp, p.index)
           /\ p.id = "Data" => p.block \in Blocks
<1>1. PICK t \in Streams : p \in Packets(t)
  BY DEF TypeOK
<1>2. CASE p = [id |-> "HeaderHeader", timestamp |-> t, count |-> Fragments[t]]
  BY <1>2
<1>3. CASE \E i \in 1 .. Fragments[t] :
             p = [id |-> "HeaderData", timestamp |-> t, index |-> i, chunk |-> Fragment(t, i)]
  BY <1>3
<1>4. CASE \E b \in Blocks : p = [id |-> "Data", timestamp |-> t, block |-> b]
  BY <1>4
<1>5. QED
  BY <1>1, <1>2, <1>3, <1>4 DEF Packets

-----------------------------------------------------------------------------
(* Sending                                                                  *)

\* Sending what is buffered keeps everything that was recorded, and the header
\* under which the buffer was filled explains it.
LEMMA FlushKeeps ==
    ASSUME StreamInv, Flush(requests)
    PROVE  /\ block_buffer' = <<>> /\ requests' \in Seq(Request)
           /\ Headers' = Headers /\ \A i \in Headers : StreamOf(i)' = StreamOf(i)
           /\ Recorded'
<1>1. /\ requests \in Seq(Request) /\ DOMAIN requests = 1 .. Len(requests) /\ Len(requests) \in Nat
      /\ block_buffer \in Seq(Item)
  BY DEF StreamInv, TypeOK
<1>2. CASE block_buffer = <<>>
  <2>1. requests' = requests /\ block_buffer' = <<>>
    BY <1>2 DEF Flush
  <2>2. QED
    BY <1>1, <2>1 DEF StreamInv, Recorded, HeaderWhole, HeadersNewer, DataExplained, Headers, StreamOf
<1>3. CASE block_buffer # <<>>
  <2>1. requests' = Append(requests, Data(block_buffer)) /\ block_buffer' = <<>>
    BY <1>3 DEF Flush
  <2>2. Data(block_buffer) \in Request
    BY <1>1, <1>3 DEF Data, Request
  <2>3. /\ requests' \in Seq(Request)
        /\ DOMAIN requests' = 1 .. Len(requests) + 1
        /\ \A i \in DOMAIN requests : requests'[i] = requests[i]
        /\ requests'[Len(requests) + 1] = Data(block_buffer)
    BY <1>1, <2>1, <2>2, Appended
  <2>4. Headers' = Headers
    BY <1>1, <2>3 DEF Headers, Data
  <2>5. \A i \in DOMAIN requests : StreamOf(i)' = StreamOf(i)
    BY <2>3 DEF StreamOf
  <2>6. PICK h \in Headers : LastHeader(h) /\ StreamOf(h) = header_timestamp
    BY <1>3 DEF StreamInv, TypeOK
  <2>7. HeaderWhole' /\ HeadersNewer'
    BY <2>3, <2>4, <2>5 DEF StreamInv, Recorded, HeaderWhole, HeadersNewer, Headers
  <2>8. ASSUME NEW i \in DOMAIN requests \ Headers
        PROVE  \E g \in Headers :
                  /\ g < i /\ \A j \in Headers : j < i => j <= g
                  /\ \A k \in DOMAIN requests'[i].payload : requests'[i].payload[k][1] = StreamOf(g)'
    BY <2>3, <2>5 DEF StreamInv, Recorded, DataExplained, Headers
  <2>9. /\ h < Len(requests) + 1 /\ \A j \in Headers : j < Len(requests) + 1 => j <= h
        /\ \A k \in DOMAIN block_buffer : block_buffer[k][1] = StreamOf(h)'
    BY <1>1, <2>5, <2>6 DEF LastHeader, Headers, StreamInv, Explained
  <2>10. DataExplained'
    <3>1. SUFFICES ASSUME NEW i \in DOMAIN requests' \ Headers'
                   PROVE  \E g \in Headers' :
                             /\ g < i /\ \A j \in Headers' : j < i => j <= g
                             /\ \A k \in DOMAIN requests'[i].payload :
                                   requests'[i].payload[k][1] = StreamOf(g)'
      BY DEF DataExplained
    <3>2. CASE i \in DOMAIN requests
      BY <2>4, <2>8, <3>2
    <3>3. CASE i = Len(requests) + 1
      <4>1. requests'[i].payload = block_buffer
        BY <2>3, <3>3 DEF Data
      <4>2. QED
        BY <2>4, <2>6, <2>9, <3>3, <4>1
    <3>4. QED
      BY <1>1, <2>3, <3>2, <3>3
  <2>11. QED
    BY <2>1, <2>3, <2>4, <2>5, <2>7, <2>10 DEF Recorded, Headers
<1>4. QED
  BY <1>2, <1>3

\* A header just completed is newer than those sent before it, and is recorded
\* as the last one.
LEMMA HeaderSent ==
    ASSUME StreamInv, NEW t \in Streams,
           \A i \in Headers : StreamOf(i) < t,
           requests' = Append(requests, Config([k \in 1 .. Fragments[t] |-> Fragment(t, k)]))
    PROVE  /\ requests' \in Seq(Request)
           /\ Recorded'
           /\ \A i \in Headers' : StreamOf(i)' \in Nat
           /\ \E h \in Headers' : LastHeader(h)' /\ StreamOf(h)' = t
<1> DEFINE header == [k \in 1 .. Fragments[t] |-> Fragment(t, k)]
<1> PICK n \in Nat : n = Len(requests) + 1
  BY DEF StreamInv, TypeOK
<1>1. t \in Nat \ {0} /\ Fragments[t] \in Nat \ {0}
  BY StreamsAreNats
<1>2. header \in Seq(Item) \ {<<>>} /\ header[1][1] = t
  <2>1. \A k \in 1 .. Fragments[t] : Fragment(t, k) \in Item
    BY <1>1 DEF Fragment, Item
  <2>2. header \in Seq(Item)
    BY <1>1, <2>1
  <2>3. 1 \in DOMAIN header /\ header[1] = Fragment(t, 1)
    BY <1>1
  <2>4. header # <<>>
    BY <2>3
  <2>5. QED
    BY <2>2, <2>3, <2>4 DEF Fragment
<1>3. Config(header) \in Request
  BY <1>2 DEF Config, Request
<1> HIDE DEF header
<1>4. requests' = Append(requests, Config(header)) /\ requests \in Seq(Request)
  BY DEF header, StreamInv, TypeOK
<1>5. /\ requests' \in Seq(Request)
      /\ DOMAIN requests = 1 .. n - 1 /\ DOMAIN requests' = 1 .. n
      /\ \A i \in DOMAIN requests : requests'[i] = requests[i]
      /\ requests'[n] = Config(header)
  BY <1>3, <1>4, Appended
<1>6. requests'[n].tx_type = "Config" /\ requests'[n].payload = header
  BY <1>5 DEF Config
<1>7. /\ Headers' = Headers \cup {n}
      /\ \A i \in Headers : i < n /\ i \in Nat
  <2>1. Headers' = {i \in 1 .. n : requests'[i].tx_type = "Config"}
    BY <1>5 DEF Headers
  <2>2. Headers = {i \in 1 .. n - 1 : requests[i].tx_type = "Config"}
    BY <1>5 DEF Headers
  <2>3. Headers' = Headers \cup {n}
    BY <1>5, <1>6, <2>1, <2>2
  <2>4. QED
    BY <2>2, <2>3
<1>8. StreamOf(n)' = t /\ \A i \in DOMAIN requests : StreamOf(i)' = StreamOf(i)
  BY <1>2, <1>5, <1>6 DEF StreamOf
<1>9. Headers \subseteq DOMAIN requests
  BY DEF Headers
<1>10. HeaderWhole'
  <2>1. \A i \in Headers : \E s \in Streams :
            requests'[i].payload = [k \in 1 .. Fragments[s] |-> Fragment(s, k)]
    BY <1>5, <1>9 DEF StreamInv, Recorded, HeaderWhole
  <2>2. requests'[n].payload = [k \in 1 .. Fragments[t] |-> Fragment(t, k)]
    BY <1>6 DEF header
  <2>3. QED
    BY <1>7, <2>1, <2>2 DEF HeaderWhole, Streams
<1>11. HeadersNewer'
  <2>1. \A i, j \in Headers : i < j => StreamOf(i)' < StreamOf(j)'
    BY <1>8, <1>9 DEF StreamInv, Recorded, HeadersNewer
  <2>2. \A i \in Headers : StreamOf(i)' < StreamOf(n)' /\ ~(n < i)
    BY <1>5, <1>7, <1>8, <1>9
  <2>3. ~(n < n)
    BY <1>5
  <2>4. QED
    BY <1>7, <2>1, <2>2, <2>3 DEF HeadersNewer
<1>12. DataExplained'
  <2>1. SUFFICES ASSUME NEW i \in DOMAIN requests' \ Headers'
                 PROVE  \E h \in Headers' :
                           /\ h < i /\ \A j \in Headers' : j < i => j <= h
                           /\ \A k \in DOMAIN requests'[i].payload :
                                 requests'[i].payload[k][1] = StreamOf(h)'
    BY DEF DataExplained
  <2>2. i \in DOMAIN requests \ Headers /\ i < n
    BY <1>5, <1>7
  <2>3. PICK h \in Headers :
           /\ h < i /\ \A j \in Headers : j < i => j <= h
           /\ \A k \in DOMAIN requests[i].payload : requests[i].payload[k][1] = StreamOf(h)
    BY <2>2 DEF StreamInv, Recorded, DataExplained
  <2>4. \A j \in Headers' : j < i => j <= h
    BY <1>5, <1>7, <2>2, <2>3
  <2>5. requests'[i] = requests[i] /\ StreamOf(h)' = StreamOf(h)
    BY <1>5, <1>8, <1>9, <2>2
  <2>6. QED
    BY <1>7, <2>3, <2>4, <2>5
<1>13. \A i \in Headers' : StreamOf(i)' \in Nat
  BY <1>1, <1>7, <1>8, <1>9 DEF StreamInv
<1>14. LastHeader(n)'
  BY <1>5, <1>7 DEF LastHeader
<1>15. QED
  BY <1>5, <1>7, <1>8, <1>10, <1>11, <1>12, <1>13, <1>14 DEF Recorded

-----------------------------------------------------------------------------
(* The actions                                                              *)

\* What was received in a new header's places is its own fragments.
LEMMA HeaderHeaderKeeps ==
    ASSUME StreamInv, NEW p \in sent, HeaderHeader(p)
    PROVE  StreamInv'
<1> DEFINE t == p.timestamp
<1>1. t \in Streams /\ p.count = Fragments[t] /\ t > header_timestamp
  BY PacketShape DEF StreamInv, HeaderHeader, IsNewer
<1>2. t \in Nat \ {0} /\ Fragments[t] \in Nat \ {0}
  BY <1>1, StreamsAreNats
<1>3. header_timestamp \in Nat
  BY StreamsAreNats DEF StreamInv, TypeOK
<1>4. /\ block_buffer' = <<>> /\ requests' \in Seq(Request)
      /\ Headers' = Headers /\ \A i \in Headers : StreamOf(i)' = StreamOf(i)
      /\ Recorded'
  BY FlushKeeps DEF HeaderHeader
<1>5. channel_data' = [i \in 1 .. Fragments[t] |-> Empty]
  BY <1>1 DEF HeaderHeader
<1>6. Filled' = {}
  BY <1>5 DEF Filled
<1>7. TypeOK'
  <2>1. channel_data' \in Seq({Empty} \cup Item) /\ Len(channel_data') = Fragments[t]
    BY <1>2, <1>5
  <2>2. current_header_packets' = Cardinality(Filled')
    BY <1>6, FS_EmptySet DEF HeaderHeader
  <2>3. block_buffer' \in Seq(Item)
    BY <1>4
  <2>4. QED
    BY <1>1, <1>4, <1>6, <2>1, <2>2, <2>3 DEF TypeOK, HeaderHeader, StreamInv, Filled, Streams, Packets
<1>8. \A i \in Headers' : StreamOf(i)' \in Nat /\ StreamOf(i)' < t
  <2>1. CASE state = "Header"
    BY <1>1, <1>2, <1>3, <1>4, <2>1 DEF StreamInv
  <2>2. CASE state = "Data"
    <3>1. PICK h \in Headers : LastHeader(h) /\ StreamOf(h) = header_timestamp
      BY <2>2 DEF StreamInv
    <3>2. \A i \in Headers : i \in Nat /\ i <= h
      BY <3>1 DEF LastHeader, Headers, StreamInv, TypeOK
    <3>3. \A i \in Headers : i = h \/ i < h
      BY <3>1, <3>2
    <3>4. \A i \in Headers : StreamOf(i) <= header_timestamp
      BY <1>3, <3>1, <3>3 DEF StreamInv, Recorded, HeadersNewer
    <3>5. QED
      BY <1>1, <1>2, <1>3, <1>4, <3>4 DEF StreamInv
  <2>3. QED
    BY <2>1, <2>2 DEF StreamInv, TypeOK
<1>9. Explained'
  BY <1>4 DEF Explained
<1>10. QED
  BY <1>4, <1>7, <1>8, <1>9 DEF StreamInv, HeaderHeader

\* A fragment that was kept: the header under way is still its own, and when it
\* is whole it is sent.
LEMMA HeaderDataKeeps ==
    ASSUME StreamInv, NEW p \in sent, HeaderData(p)
    PROVE  StreamInv'
<1> DEFINE t == header_timestamp
<1>1. /\ t \in Streams /\ p.index \in 1 .. Fragments[t] /\ p.chunk = Fragment(t, p.index)
  BY PacketShape DEF StreamInv, HeaderData, OfThisHeader
<1>2. t \in Nat \ {0} /\ Fragments[t] \in Nat \ {0}
  BY <1>1, StreamsAreNats
<1>3. /\ channel_data \in Seq({Empty} \cup Item) /\ Len(channel_data) = Fragments[t]
      /\ DOMAIN channel_data = 1 .. Fragments[t]
  BY <1>1, <1>2 DEF StreamInv, TypeOK
<1>4. p.chunk \in Item /\ p.chunk # Empty
  BY <1>1, <1>2 DEF Fragment, Item, Empty
<1>5. /\ channel_data' \in Seq({Empty} \cup Item) /\ Len(channel_data') = Len(channel_data)
      /\ DOMAIN channel_data' = DOMAIN channel_data
      /\ \A i \in DOMAIN channel_data : i # p.index => channel_data'[i] = channel_data[i]
      /\ channel_data'[p.index] = p.chunk
  BY <1>1, <1>3, <1>4 DEF HeaderData
<1>6. Filled' = Filled \cup {p.index} /\ p.index \notin Filled
  BY <1>1, <1>3, <1>4, <1>5 DEF Filled, HeaderData
<1>7. current_header_packets' = Cardinality(Filled')
  <2>1. IsFiniteSet(1 .. Fragments[t]) /\ Filled \subseteq 1 .. Fragments[t]
    BY <1>2, <1>3, FS_Interval DEF Filled
  <2>2. IsFiniteSet(Filled)
    BY <2>1, FS_Subset
  <2>3. Cardinality(Filled') = Cardinality(Filled) + 1
    BY <1>6, <2>2, FS_AddElement
  <2>4. QED
    BY <2>3 DEF StreamInv, TypeOK, HeaderData
<1>8. \A i \in Filled' : channel_data'[i] = Fragment(t, i)
  BY <1>1, <1>3, <1>5, <1>6 DEF StreamInv, TypeOK, Filled
<1>9. block_buffer = <<>> /\ \A i \in Headers : StreamOf(i) < t
  BY DEF StreamInv, HeaderData
<1>10. header_timestamp' = t /\ sent' = sent
  BY DEF HeaderData
<1>11. CASE current_header_packets' = Len(channel_data')
  <2>1. state' = "Data" /\ Flush(Append(requests, Config(channel_data')))
    BY <1>11 DEF HeaderData
  <2>2. block_buffer' = <<>> /\ requests' = Append(requests, Config(channel_data'))
    BY <1>9, <2>1 DEF Flush
  <2>3. channel_data' = [k \in 1 .. Fragments[t] |-> Fragment(t, k)]
    <3>1. IsFiniteSet(1 .. Fragments[t]) /\ Cardinality(1 .. Fragments[t]) = Fragments[t]
      <4>1. \A m \in Nat : IsFiniteSet(1 .. m) /\ Cardinality(1 .. m) = m
        BY FS_Interval
      <4>2. QED
        BY <1>2, <4>1
    <3> Filled' \subseteq 1 .. Fragments[t]
      BY <1>3, <1>5 DEF Filled
    <3>2. Filled' = 1 .. Fragments[t]
      BY <1>3, <1>5, <1>7, <1>11, <3>1, FS_Subset
    <3>3. QED
      BY <1>3, <1>5, <1>8, <3>2
  <2>4. /\ requests' \in Seq(Request)
        /\ Recorded'
        /\ \A i \in Headers' : StreamOf(i)' \in Nat
        /\ \E h \in Headers' : LastHeader(h)' /\ StreamOf(h)' = t
    BY <1>1, <1>9, <2>2, <2>3, HeaderSent
  <2>5. TypeOK'
    BY <1>1, <1>3, <1>5, <1>7, <1>8, <1>10, <2>1, <2>2, <2>4 DEF StreamInv, TypeOK, Packets, Streams
  <2>6. QED
    BY <1>10, <2>1, <2>2, <2>4, <2>5 DEF StreamInv, Explained
<1>12. CASE current_header_packets' # Len(channel_data')
  <2>1. UNCHANGED <<state, block_buffer, requests>>
    BY <1>5, <1>12 DEF HeaderData
  <2>2. TypeOK'
    BY <1>1, <1>3, <1>5, <1>7, <1>8, <1>10, <2>1 DEF StreamInv, TypeOK, Packets, Streams
  <2>3. Recorded' /\ Headers' = Headers /\ \A i \in Headers : StreamOf(i)' = StreamOf(i)
    BY <2>1 DEF StreamInv, Recorded, HeaderWhole, HeadersNewer, DataExplained, Headers, StreamOf
  <2>4. state' = "Header"
    BY <2>1 DEF HeaderData
  <2>5. QED
    BY <1>9, <1>10, <2>1, <2>2, <2>3, <2>4 DEF StreamInv, Explained
<1>13. QED
  BY <1>11, <1>12

\* A data packet is taken under the header of its stream, which is the last
\* one sent.
LEMMA DataPacketKeeps ==
    ASSUME StreamInv, NEW p \in sent, DataPacket(p)
    PROVE  StreamInv'
<1>1. p.timestamp = header_timestamp /\ header_timestamp \in Nat /\ p.block \in Blocks
  BY PacketShape, StreamsAreNats DEF StreamInv, DataPacket
<1>2. /\ block_buffer' = Append(block_buffer, <<header_timestamp, p.block>>)
      /\ UNCHANGED <<sent, header_timestamp, state, channel_data, current_header_packets, requests>>
  BY <1>1 DEF DataPacket
<1>3. <<header_timestamp, p.block>> \in Item
  BY <1>1 DEF Item
<1>4. block_buffer \in Seq(Item)
  BY DEF StreamInv, TypeOK
<1>5. block_buffer' \in Seq(Item)
  BY <1>2, <1>3, <1>4
<1>6. Explained'
  BY <1>2, <1>4 DEF StreamInv, Explained
<1>7. TypeOK'
  BY <1>2, <1>5 DEF StreamInv, TypeOK, Filled, Packets, Streams
<1>8. Recorded' /\ Headers' = Headers /\ \A i \in Headers : StreamOf(i)' = StreamOf(i)
  BY <1>2 DEF StreamInv, Recorded, HeaderWhole, HeadersNewer, DataExplained, Headers, StreamOf
<1>9. state' = "Data" /\ state = "Data"
  BY <1>2 DEF DataPacket
<1>10. QED
  BY <1>2, <1>6, <1>7, <1>8, <1>9 DEF StreamInv, LastHeader

\* Sending after five quiet milliseconds.
LEMMA QuietKeeps ==
    ASSUME StreamInv, Quiet
    PROVE  StreamInv'
<1>1. /\ Flush(requests) /\ block_buffer # <<>>
      /\ UNCHANGED <<sent, header_timestamp, state, channel_data, current_header_packets>>
  BY DEF Quiet
<1>2. /\ block_buffer' = <<>> /\ requests' \in Seq(Request)
      /\ Headers' = Headers /\ \A i \in Headers : StreamOf(i)' = StreamOf(i)
      /\ Recorded'
  BY <1>1, FlushKeeps
<1>3. TypeOK'
  <2>1. block_buffer' \in Seq(Item)
    BY <1>2
  <2>2. QED
    BY <1>1, <1>2, <2>1 DEF StreamInv, TypeOK, Filled, Packets, Streams
<1>4. Explained'
  BY <1>2 DEF Explained
<1>5. QED
  BY <1>1, <1>2, <1>3, <1>4 DEF StreamInv, LastHeader

\* The recorder starting a stream, and a step that changes nothing.
LEMMA OthersKeep ==
    ASSUME StreamInv, (\E t \in Streams : StartStream(t)) \/ UNCHANGED vars
    PROVE  StreamInv'
<1>1. UNCHANGED <<header_timestamp, state, channel_data, current_header_packets, block_buffer, requests>>
  BY DEF StartStream, vars
<1>2. \A p \in sent' : \E t \in Streams : p \in Packets(t)
  BY DEF StreamInv, TypeOK, StartStream, vars
<1>3. TypeOK'
  BY <1>1, <1>2 DEF StreamInv, TypeOK, Filled, Packets, Streams
<1>4. Recorded' /\ Headers' = Headers /\ \A i \in Headers : StreamOf(i)' = StreamOf(i)
  BY <1>1 DEF StreamInv, Recorded, HeaderWhole, HeadersNewer, DataExplained, Headers, StreamOf
<1>5. QED
  BY <1>1, <1>3, <1>4 DEF StreamInv, Explained, LastHeader

\* A fresh OsfDatagramStream, before any packet.
LEMMA InitStreamInv == Init => StreamInv
<1> SUFFICES ASSUME Init PROVE StreamInv
  OBVIOUS
<1>1. requests = <<>> /\ block_buffer = <<>> /\ channel_data = <<>>
  BY DEF Init
<1>2. Headers = {} /\ Filled = {}
  BY <1>1 DEF Headers, Filled
<1>3. TypeOK
  <2>1. <<>> \in Seq(Item) /\ <<>> \in Seq(Request) /\ <<>> \in Seq({Empty} \cup Item)
    OBVIOUS
  <2>2. QED
    BY <1>2, <2>1, FS_EmptySet DEF Init, TypeOK
<1>4. Recorded /\ Explained
  BY <1>1, <1>2 DEF Recorded, HeaderWhole, HeadersNewer, DataExplained, Explained
<1>5. QED
  BY <1>1, <1>2, <1>3, <1>4 DEF Init, StreamInv

LEMMA NextStreamInv == StreamInv /\ [Next]_vars => StreamInv'
BY HeaderHeaderKeeps, HeaderDataKeeps, DataPacketKeeps, QuietKeeps, OthersKeep DEF Next

-----------------------------------------------------------------------------
(* The theorems                                                             *)

\* The receive loop of udposf_main (rc-application/src/osf.rs:39-116) keeps
\* StreamInv whatever packets arrive, in whatever order.
THEOREM StreamInvariance == Spec => []StreamInv
  BY InitStreamInv, NextStreamInv, PTL DEF Spec

\* The header that OsfDatagramStream puts together (datagram.rs:96-151) holds at
\* each place nothing or its own fragment of the newest header, and its count is
\* that of the places filled: it can neither overrun nor end early.
THEOREM HeaderConsistent == Spec => []TypeOK
  BY StreamInvariance, PTL DEF StreamInv

\* A header transaction (send_header_block, osf.rs:135-149) is one whole header.
THEOREM HeadersAreWhole == Spec => []HeaderWhole
  BY StreamInvariance, PTL DEF StreamInv, Recorded

\* Header transactions come in the order of their streams, each once
\* (header_header, datagram.rs:97-112, takes only a newer header).
THEOREM HeadersInOrder == Spec => []HeadersNewer
  BY StreamInvariance, PTL DEF StreamInv, Recorded

\* Every data transaction (send_data_block, osf.rs:118-133) follows the header
\* that explains it, with no other header between.
THEOREM DataHasHeader == Spec => []DataExplained
  BY StreamInvariance, PTL DEF StreamInv, Recorded
=============================================================================

--------------------------- MODULE Telemetry_proofs ---------------------------
(***************************************************************************)
(* Proofs about the readers of recorded OSF data, for any streams, headers *)
(* and contents, any block size and any number of runs, of which some      *)
(* fail: lines have the name and type of the channel that was recorded,    *)
(* what is deleted on the replicas is exported, and readers panic only for *)
(* the reasons that are known.                                             *)
(***************************************************************************)
EXTENDS Telemetry, OsfStream_proofs

LOCAL Numbers == INSTANCE ChainStore_proofs

-----------------------------------------------------------------------------
(* A run, transaction by transaction                                        *)

AtStart(channels) == [channels |-> channels, headed |-> FALSE, lines |-> {}, panicked |-> FALSE]

\* f is a run over the first n of the transactions.
IsRun(channels, txs, n, f) ==
    f = [k \in 0 .. n |-> IF k = 0 THEN AtStart(channels) ELSE ReadTransaction(f[k - 1], txs[k])]

LEMMA RunsExist ==
    ASSUME NEW channels, NEW txs
    PROVE  \A n \in Nat : \E f : IsRun(channels, txs, n, f)
<1> DEFINE T == {n \in Nat : \E f : IsRun(channels, txs, n, f)}
<1>1. 0 \in T
  <2>1. IsRun(channels, txs, 0, [k \in 0 .. 0 |-> AtStart(channels)])
    BY DEF IsRun
  <2> QED
    BY <2>1
<1>2. ASSUME NEW n \in Nat, n \in T PROVE n + 1 \in T
  <2>1. PICK f : IsRun(channels, txs, n, f)
    BY <1>2
  <2> DEFINE g == [k \in 0 .. n + 1 |-> IF k = n + 1 THEN ReadTransaction(f[n], txs[n + 1]) ELSE f[k]]
  <2> DEFINE next(k) == IF k = 0 THEN AtStart(channels) ELSE ReadTransaction(g[k - 1], txs[k])
  <2>2. ASSUME NEW k \in 0 .. n + 1 PROVE g[k] = next(k)
    <3>1. CASE k = n + 1
      <4>1. k # 0 /\ k - 1 = n /\ n \in 0 .. n + 1 /\ n # n + 1
        BY <3>1
      <4> QED
        BY <4>1, <3>1
    <3>2. CASE k \in 0 .. n
      <4>1. g[k] = IF k = 0 THEN AtStart(channels) ELSE ReadTransaction(f[k - 1], txs[k])
        <5>1. k # n + 1
          BY <3>2
        <5> QED
          BY <2>1, <3>2, <5>1 DEF IsRun
      <4>2. k # 0 => k - 1 \in 0 .. n + 1 /\ k - 1 # n + 1
        BY <3>2
      <4> QED
        BY <4>1, <4>2
    <3> QED
      BY <3>1, <3>2
  <2>3. g = [k \in 0 .. n + 1 |-> next(k)]
    <3> HIDE DEF next
    <3> QED
      BY <2>2
  <2>4. IsRun(channels, txs, n + 1, g)
    BY <2>3, Zenon DEF IsRun
  <2> QED
    BY <2>4
<1>3. Nat \subseteq T
  <2> HIDE DEF T
  <2> QED
    BY <1>1, <1>2, Numbers!SetInduction
<1> QED
  BY <1>3

\* The recursion of Readings, unfolded once.
LEMMA ReadingsUnfold ==
    ASSUME NEW channels, NEW txs, Len(txs) \in Nat
    PROVE  /\ Readings(channels, txs)[0] = AtStart(channels)
           /\ \A k \in 1 .. Len(txs) :
                 Readings(channels, txs)[k] = ReadTransaction(Readings(channels, txs)[k - 1], txs[k])
<1> DEFINE n == Len(txs)
<1> DEFINE run == CHOOSE f : IsRun(channels, txs, n, f)
<1>1. \E f : IsRun(channels, txs, n, f)
  BY RunsExist
<1>2. IsRun(channels, txs, n, run)
  BY <1>1, Zenon
<1>3. Readings(channels, txs) = run
  BY DEF Readings, IsRun, AtStart
<1> HIDE DEF run
<1>4. run = [k \in 0 .. n |-> IF k = 0 THEN AtStart(channels) ELSE ReadTransaction(run[k - 1], txs[k])]
  BY <1>2 DEF IsRun
<1>5. run[0] = AtStart(channels)
  BY <1>4
<1>6. ASSUME NEW k \in 1 .. n PROVE run[k] = ReadTransaction(run[k - 1], txs[k])
  BY <1>4
<1> QED
  BY <1>3, <1>5, <1>6

-----------------------------------------------------------------------------
(* The chain that is read                                                   *)

\* Data is of the blocks of a stream.
DataIn(items) == \A i \in DOMAIN items : items[i][2] \in Blocks

Chained ==
    /\ requests \in Seq(Request) /\ Recorded
    /\ \A i \in DOMAIN requests \ Headers : DataIn(requests[i].payload)

\* Request h is the last header among the first n.
LastOf(h, n) == h \in Headers /\ h <= n /\ \A j \in Headers : j <= n => j <= h

HeaderAt(h) == ReadHeader(requests[h].payload)

LEMMA RequestDef ==
    ASSUME Chained, NEW i \in DOMAIN requests
    PROVE  /\ i \in Nat \ {0} /\ requests[i] \in Request
           /\ i \in Headers \/ (i \notin Headers /\ requests[i].tx_type = "Data")
           /\ requests[i].payload \in Seq(Item) /\ requests[i].payload # <<>>
<1>1. requests \in Seq(Request)
  BY DEF Chained
<1>2. i \in Nat \ {0} /\ requests[i] \in Request
  <2> HIDE DEF Request
  <2> QED
    BY <1>1
<1>3. requests[i].tx_type \in {"Config", "Data"} /\ requests[i].payload \in Seq(Item) \ {<<>>}
  BY <1>2 DEF Request
<1> QED
  BY <1>2, <1>3 DEF Headers

\* Data means what the last header before it says, which has its channel.
LEMMA DataMeant ==
    ASSUME Chained, NEW i \in DOMAIN requests, i \notin Headers
    PROVE  \E h \in Headers : /\ LastOf(h, i - 1)
                              /\ \A item \in Range(requests[i].payload) :
                                    /\ Osf(item).channel \in DOMAIN HeaderAt(h)
                                    /\ Meant(item) = HeaderAt(h)[Osf(item).channel]
<1>1. PICK h \in Headers :
          /\ h < i /\ \A j \in Headers : j < i => j <= h
          /\ \A k \in DOMAIN requests[i].payload : requests[i].payload[k][1] = StreamOf(h)
  BY DEF Chained, Recorded, DataExplained
<1>2. LastOf(h, i - 1)
  <2>1. i \in Nat /\ h \in Nat /\ \A j \in Headers : j \in Nat
    BY RequestDef DEF Headers
  <2> QED
    BY <1>1, <2>1 DEF LastOf
<1>3. PICK t \in Streams : requests[h].payload = [k \in 1 .. Fragments[t] |-> Fragment(t, k)]
  BY DEF Chained, Recorded, HeaderWhole
<1>4. StreamOf(h) = t
  <2>1. 1 \in 1 .. Fragments[t]
    BY StreamsAreNats
  <2>2. requests[h].payload[1] = <<t, 1>>
    BY <1>3, <2>1 DEF Fragment
  <2> QED
    BY <2>2 DEF StreamOf
<1>5. HeaderAt(h) = Header[t]
  BY <1>4 DEF HeaderAt, ReadHeader, StreamOf
<1>6. ASSUME NEW item \in Range(requests[i].payload)
      PROVE  Osf(item).channel \in DOMAIN HeaderAt(h) /\ Meant(item) = HeaderAt(h)[Osf(item).channel]
  <2>1. PICK k \in DOMAIN requests[i].payload : item = requests[i].payload[k]
    BY DEF Range
  <2>2. item[1] = t /\ item[2] \in Blocks
    BY <1>1, <1>4, <2>1 DEF Chained, DataIn
  <2>3. Content[t][item[2]].channel \in DOMAIN Header[t]
    BY <2>2, TelemetryAssumption
  <2> QED
    BY <2>2, <2>3, <1>5 DEF Osf, Meant
<1> QED
  BY <1>2, <1>6

-----------------------------------------------------------------------------
(* What a run has read                                                      *)

\* Channels c agree with the header in force after n requests, as far as both
\* go; they go at least as far as the header.
Fits(c, n) ==
    \A h \in Headers : LastOf(h, n) =>
        \A i \in DOMAIN c \cap DOMAIN HeaderAt(h) : c[i] = HeaderAt(h)[i]

Covers(c, n) == \A h \in Headers : LastOf(h, n) => DOMAIN HeaderAt(h) \subseteq DOMAIN c

\* What PanicHasCause blames is among the first n requests.
CauseAt(i) ==
    \/ requests[i].tx_type = "Data" /\ \E item \in Range(requests[i].payload) : ~Sound(item)
    \/ requests[i].tx_type = "Config" /\
          \E channels \in InUse(i) : NotAdopted(channels, ReadHeader(requests[i].payload))

Cause(n) == \E i \in 1 .. n : CauseAt(i)

\* Channels c are what a reader has left who has read n requests.
Ready(c, n) == Fits(c, n) /\ c \in InUse(n + 1) /\ (Cause(n) \/ Covers(c, n))

\* Lines made after a header, or with channels that were ready.
Named(ready, lines) == \A line \in lines : ready \/ line.headed => line.channel = Meant(line.item)

\* The data among requests from + 1 to n has its lines.
Exported(from, n, lines) ==
    \A i \in from + 1 .. n : requests[i].tx_type = "Data" =>
        \A item \in Range(requests[i].payload) :
            Meant(item).datatype # "GpsLocation" => \E line \in lines : line.item = item

\* A run r that has started after the request from and has got to n.
ReadOK(ready, from, n, r) ==
    /\ r = [channels |-> r.channels, headed |-> r.headed, lines |-> r.lines, panicked |-> r.panicked]
    /\ r.headed \in BOOLEAN /\ r.panicked \in BOOLEAN
    /\ ~r.panicked /\ r.headed => Fits(r.channels, n)
    /\ Named(ready, r.lines)
    /\ ready /\ ~r.panicked => Ready(r.channels, n) /\ Exported(from, n, r.lines)
    /\ ready /\ r.panicked => Cause(n)

LEMMA CauseGrows ==
    ASSUME NEW n \in Nat, Cause(n)
    PROVE  Cause(n + 1)
BY DEF Cause

\* A header: adopted, or much like the one in use.
LEMMA ReadConfig ==
    ASSUME Chained, NEW ready \in BOOLEAN, NEW from \in Nat, NEW n \in Nat, from <= n,
           n + 1 \in Headers, NEW r, ReadOK(ready, from, n, r), ~r.panicked
    PROVE  ReadOK(ready, from, n + 1, ReadTransaction(r, requests[n + 1]))
<1> DEFINE tx == requests[n + 1]
<1> DEFINE new == ReadHeader(tx.payload)
<1> DEFINE c == IF Changed(r.channels, new) THEN new ELSE r.channels
<1> DEFINE s == ReadTransaction(r, tx)
<1>1. tx.tx_type = "Config" /\ new = HeaderAt(n + 1)
  BY DEF Headers, HeaderAt
<1>2. s = [channels |-> c, headed |-> TRUE, lines |-> r.lines, panicked |-> FALSE]
  <2>1. s = [r EXCEPT !.channels = IF Changed(@, new) THEN new ELSE @, !.headed = TRUE]
    BY <1>1 DEF ReadTransaction
  <2>2. r = [channels |-> r.channels, headed |-> r.headed, lines |-> r.lines, panicked |-> r.panicked]
    BY DEF ReadOK
  <2>3. r.panicked = FALSE
    BY DEF ReadOK
  <2> HIDE DEF s, new, tx
  <2> QED
    BY <2>1, <2>2, <2>3
<1>3. \A h \in Headers : LastOf(h, n + 1) => h = n + 1
  <2>1. \A h \in Headers : h \in Nat
    BY RequestDef DEF Headers
  <2> QED
    BY <2>1 DEF LastOf
<1>4. Fits(c, n + 1)
  <2>1. \A i \in DOMAIN c \cap DOMAIN new : c[i] = new[i]
    BY DEF Changed
  <2> HIDE DEF c, new
  <2> QED
    BY <2>1, <1>1, <1>3 DEF Fits
<1>5. ASSUME ready PROVE Ready(c, n + 1) /\ Exported(from, n + 1, r.lines)
  <2>1. Ready(r.channels, n) /\ Exported(from, n, r.lines)
    BY <1>5 DEF ReadOK
  <2>2. r.channels \in InUse(n + 1)
    BY <2>1 DEF Ready
  <2>3. c \in InUse((n + 1) + 1)
    <3>1. InUse(n + 1) \subseteq InUse((n + 1) + 1)
      <4>1. \A j \in Headers : j \in Nat
        BY RequestDef DEF Headers
      <4> QED
        BY <4>1 DEF InUse
    <3>2. new \in InUse((n + 1) + 1)
      BY DEF InUse
    <3> QED
      BY <3>1, <3>2, <2>2
  <2>4. Cause(n + 1) \/ Covers(c, n + 1)
    <3>1. CASE DOMAIN new \subseteq DOMAIN c
      <4> HIDE DEF c, new
      <4> QED
        BY <3>1, <1>1, <1>3 DEF Covers
    <3>2. CASE ~(DOMAIN new \subseteq DOMAIN c)
      <4>1. NotAdopted(r.channels, new)
        BY <3>2 DEF NotAdopted
      <4>2. CauseAt(n + 1)
        BY <4>1, <2>2, <1>1 DEF CauseAt
      <4> QED
        BY <4>2 DEF Cause
    <3> QED
      BY <3>1, <3>2
  <2>5. Exported(from, n + 1, r.lines)
    <3>1. \A i \in from + 1 .. n + 1 : i # n + 1 => i \in from + 1 .. n
      OBVIOUS
    <3> QED
      BY <2>1, <3>1, <1>1 DEF Exported
  <2> QED
    BY <1>4, <2>3, <2>4, <2>5 DEF Ready
<1>6. Named(ready, r.lines)
  BY DEF ReadOK
<1> HIDE DEF s, c
<1>7. s.channels = c /\ s.headed = TRUE /\ s.lines = r.lines /\ s.panicked = FALSE
  BY <1>2
<1>8. ReadOK(ready, from, n + 1, s)
  BY <1>2, <1>4, <1>5, <1>6, <1>7 DEF ReadOK
<1> QED
  BY <1>8 DEF s

\* Between headers the header in force stays.
LEMMA DataKeeps ==
    ASSUME Chained, NEW n \in Nat, n + 1 \notin Headers, NEW c, NEW lines, NEW ready \in BOOLEAN
    PROVE  /\ \A h \in Headers : LastOf(h, n + 1) => LastOf(h, n)
           /\ Fits(c, n) => Fits(c, n + 1)
           /\ Ready(c, n) => Ready(c, n + 1)
<1>1. \A j \in Headers : j \in Nat
  BY RequestDef DEF Headers
<1>2. \A h \in Headers : LastOf(h, n + 1) => LastOf(h, n)
  BY <1>1 DEF LastOf
<1>3. Fits(c, n) => Fits(c, n + 1)
  BY <1>2 DEF Fits
<1>4. Covers(c, n) => Covers(c, n + 1)
  BY <1>2 DEF Covers
<1>5. c \in InUse(n + 1) => c \in InUse((n + 1) + 1)
  BY <1>1 DEF InUse
<1>6. Ready(c, n) => Ready(c, n + 1)
  BY <1>3, <1>4, <1>5, CauseGrows DEF Ready
<1> QED
  BY <1>2, <1>3, <1>6

\* Data that can be decoded has the channel that was meant, if the channels fit.
LEMMA ReadData ==
    ASSUME Chained, NEW ready \in BOOLEAN, NEW from \in Nat, NEW n \in Nat, from <= n,
           n + 1 \in DOMAIN requests \ Headers, NEW r, ReadOK(ready, from, n, r), ~r.panicked
    PROVE  ReadOK(ready, from, n + 1, ReadTransaction(r, requests[n + 1]))
<1> DEFINE tx == requests[n + 1]
<1> DEFINE c == r.channels
<1> DEFINE more == Lines(c, tx.payload, r.headed)
<1> DEFINE s == ReadTransaction(r, tx)
<1>1. tx.tx_type = "Data" /\ ~(tx.tx_type = "Config") /\ n + 1 \notin Headers
  BY RequestDef
<1>2. PICK h \in Headers :
          /\ LastOf(h, n)
          /\ \A item \in Range(tx.payload) :
                Osf(item).channel \in DOMAIN HeaderAt(h) /\ Meant(item) = HeaderAt(h)[Osf(item).channel]
  <2>1. (n + 1) - 1 = n
    OBVIOUS
  <2> QED
    BY <2>1, DataMeant
<1>3. r.panicked = FALSE /\ r.headed \in BOOLEAN
      /\ r = [channels |-> c, headed |-> r.headed, lines |-> r.lines, panicked |-> r.panicked]
  BY DEF ReadOK
<1>4. ASSUME ready \/ r.headed, NEW item \in Range(tx.payload), Osf(item).channel \in DOMAIN c
      PROVE  c[Osf(item).channel] = Meant(item)
  <2>1. Fits(c, n)
    BY <1>3, <1>4 DEF ReadOK, Ready
  <2> QED
    BY <2>1, <1>2, <1>4 DEF Fits
<1>5. ready => Ready(c, n) /\ Exported(from, n, r.lines)
  BY <1>3 DEF ReadOK
<1>6. CASE AllDecodable(c, tx.payload)
  <2>1. s = [channels |-> c, headed |-> r.headed, lines |-> r.lines \cup more, panicked |-> FALSE]
    <3>1. s = [r EXCEPT !.lines = @ \cup more]
      BY <1>1, <1>6 DEF ReadTransaction
    <3> HIDE DEF s, more
    <3> QED
      BY <3>1, <1>3
  <2>2. \A item \in Range(tx.payload) : Osf(item).channel \in DOMAIN c
    BY <1>6 DEF AllDecodable, Decodable
  <2>3. Named(ready, more)
    <3> SUFFICES ASSUME NEW line \in more, ready \/ line.headed PROVE line.channel = Meant(line.item)
      BY DEF Named
    <3>1. PICK item \in Range(tx.payload) :
              line = [item |-> item, channel |-> c[Osf(item).channel], headed |-> r.headed]
      BY DEF Lines
    <3>2. line.item = item /\ line.channel = c[Osf(item).channel] /\ line.headed = r.headed
      BY <3>1
    <3> QED
      BY <3>2, <2>2, <1>4
  <2>4. Named(ready, r.lines \cup more)
    BY <2>3 DEF Named, ReadOK
  <2>5. ASSUME ready PROVE Exported(from, n + 1, r.lines \cup more)
    <3>1. ASSUME NEW item \in Range(tx.payload), Meant(item).datatype # "GpsLocation"
          PROVE  \E line \in more : line.item = item
      <4>1. HasValue(c[Osf(item).channel].datatype, Osf(item))
        BY <2>5, <3>1, <2>2, <1>4 DEF HasValue
      <4>2. [item |-> item, channel |-> c[Osf(item).channel], headed |-> r.headed] \in more
        BY <4>1 DEF Lines
      <4> QED
        BY <4>2
    <3>2. \A i \in from + 1 .. n + 1 : i # n + 1 => i \in from + 1 .. n
      OBVIOUS
    <3> HIDE DEF more
    <3> QED
      BY <3>1, <3>2, <2>5, <1>5 DEF Exported
  <2>6. ready => Ready(c, n + 1)
    BY <1>1, <1>5, DataKeeps
  <2>7. r.headed => Fits(c, n + 1)
    BY <1>1, <1>3, DataKeeps DEF ReadOK
  <2> HIDE DEF s, more
  <2>8. s.channels = c /\ s.headed = r.headed /\ s.lines = r.lines \cup more /\ s.panicked = FALSE
    BY <2>1
  <2>9. ReadOK(ready, from, n + 1, s)
    BY <1>3, <2>1, <2>4, <2>5, <2>6, <2>7, <2>8 DEF ReadOK
  <2> QED
    BY <2>9 DEF s
<1>7. CASE ~AllDecodable(c, tx.payload)
  <2>1. s = [channels |-> c, headed |-> r.headed, lines |-> r.lines, panicked |-> TRUE]
    <3>1. s = [r EXCEPT !.panicked = TRUE]
      BY <1>1, <1>7 DEF ReadTransaction
    <3> HIDE DEF s
    <3> QED
      BY <3>1, <1>3
  <2>2. ASSUME ready PROVE Cause(n + 1)
    <3>1. CASE Cause(n)
      BY <3>1, CauseGrows
    <3>2. CASE Covers(c, n)
      <4>1. PICK item \in Range(tx.payload) : ~Decodable(c, item)
        BY <1>7 DEF AllDecodable
      <4>2. Osf(item).channel \in DOMAIN c
        BY <3>2, <1>2 DEF Covers
      <4>3. c[Osf(item).channel] = Meant(item)
        BY <2>2, <4>2, <1>4
      <4>4. ReadSize(Meant(item).datatype, Osf(item)) = DataSize(item)
        BY DEF ReadSize, DataSize, Meant
      <4>5. ~Sound(item)
        BY <4>1, <4>2, <4>3, <4>4 DEF Decodable, Sound
      <4>6. CauseAt(n + 1)
        BY <4>5, <1>1 DEF CauseAt
      <4> QED
        BY <4>6 DEF Cause
    <3> QED
      BY <3>1, <3>2, <2>2, <1>5 DEF Ready
  <2> HIDE DEF s
  <2>3. s.channels = c /\ s.headed = r.headed /\ s.lines = r.lines /\ s.panicked = TRUE
    BY <2>1
  <2>4. ReadOK(ready, from, n + 1, s)
    BY <1>3, <2>1, <2>2, <2>3 DEF ReadOK
  <2> QED
    BY <2>4 DEF s
<1> QED
  BY <1>6, <1>7

\* One transaction.
LEMMA ReadNext ==
    ASSUME Chained, NEW ready \in BOOLEAN, NEW from \in Nat, NEW n \in Nat, from <= n,
           n + 1 \in DOMAIN requests, NEW r, ReadOK(ready, from, n, r)
    PROVE  ReadOK(ready, from, n + 1, ReadTransaction(r, requests[n + 1]))
<1>1. CASE r.panicked
  <2>1. ReadTransaction(r, requests[n + 1]) = r
    BY <1>1 DEF ReadTransaction
  <2>2. ReadOK(ready, from, n + 1, r)
    BY <1>1, CauseGrows DEF ReadOK
  <2> QED
    BY <2>1, <2>2
<1>2. CASE ~r.panicked /\ n + 1 \in Headers
  BY <1>2, ReadConfig
<1>3. CASE ~r.panicked /\ n + 1 \notin Headers
  BY <1>3, ReadData
<1> QED
  BY <1>1, <1>2, <1>3

\* The transactions of the blocks after a up to b are requests; there are none
\* if b is below a.
LEMMA TransactionsDef ==
    ASSUME Chained, NEW a \in Nat, NEW b \in Nat, a <= b + 1, b * BlockSize <= Len(requests)
    PROVE  \E n \in Nat :
              /\ Len(Transactions(a + 1, b)) = n
              /\ n # 0 => a * BlockSize + n <= Len(requests)
              /\ \A k \in 1 .. n : Transactions(a + 1, b)[k] = requests[a * BlockSize + k]
              /\ a <= b => a * BlockSize + n = b * BlockSize
<1> DEFINE p == a * BlockSize
<1> DEFINE q == b * BlockSize
<1>1. BlockSize \in Nat /\ p \in Nat /\ q \in Nat /\ requests \in Seq(Request) /\ Len(requests) \in Nat
  BY TelemetryAssumption DEF Chained
<1>2. Transactions(a + 1, b) = SubSeq(requests, p + 1, q)
  <2>1. (a + 1) - 1 = a
    OBVIOUS
  <2> QED
    BY <2>1 DEF Transactions
<1>3. a <= b => p <= q
  <2> SUFFICES ASSUME a <= b PROVE p <= q
    OBVIOUS
  <2>1. b - a \in Nat /\ (b - a) * BlockSize \in Nat
    BY <1>1
  <2>2. q = p + (b - a) * BlockSize
    BY <1>1
  <2> HIDE DEF p, q
  <2> QED
    BY <2>1, <2>2, <1>1
<1> HIDE DEF p, q
<1>4. CASE p <= q
  <2>1. Len(SubSeq(requests, p + 1, q)) = q - p /\ q - p \in Nat
    BY <1>1, <1>4 DEF q
  <2>2. \A k \in 1 .. q - p : SubSeq(requests, p + 1, q)[k] = requests[p + k]
    BY <1>1, <1>4 DEF q
  <2>3. p + (q - p) = q /\ q <= Len(requests)
    BY <1>1 DEF q
  <2>4. WITNESS q - p \in Nat
  <2> QED
    BY <2>1, <2>2, <2>3, <1>2 DEF p, q
<1>5. CASE ~(p <= q)
  <2>1. Len(SubSeq(requests, p + 1, q)) = 0
    BY <1>1, <1>5
  <2>2. ~(a <= b) /\ 1 .. 0 = {}
    BY <1>3, <1>5
  <2> WITNESS 0 \in Nat
  <2> QED
    BY <2>1, <2>2, <1>2
<1> QED
  BY <1>4, <1>5

\* A run on the blocks after a up to b.
LEMMA RunOK ==
    ASSUME Chained, NEW a \in Nat, NEW b \in Nat, a <= b + 1, b * BlockSize <= Len(requests),
           NEW c, NEW ready \in BOOLEAN, ready => Ready(c, a * BlockSize)
    PROVE  \E n \in Nat : /\ ReadOK(ready, a * BlockSize, a * BlockSize + n, Run(c, a + 1, b))
                          /\ a <= b => a * BlockSize + n = b * BlockSize
<1> DEFINE p == a * BlockSize
<1> DEFINE txs == Transactions(a + 1, b)
<1> DEFINE r == Readings(c, txs)
<1>1. PICK n \in Nat :
          /\ Len(txs) = n
          /\ n # 0 => p + n <= Len(requests)
          /\ \A k \in 1 .. n : txs[k] = requests[p + k]
          /\ a <= b => p + n = b * BlockSize
  BY TransactionsDef
<1>2. p \in Nat /\ Len(requests) \in Nat /\ DOMAIN requests = 1 .. Len(requests)
  BY TelemetryAssumption DEF Chained
<1> HIDE DEF txs
<1>3. /\ r[0] = AtStart(c)
      /\ \A k \in 1 .. n : r[k] = ReadTransaction(r[k - 1], txs[k])
  BY <1>1, ReadingsUnfold
<1> HIDE DEF r
<1> DEFINE T == {k \in Nat : k <= n => ReadOK(ready, p, p + k, r[k])}
<1>4. 0 \in T
  <2>1. AtStart(c).channels = c /\ AtStart(c).headed = FALSE /\ AtStart(c).lines = {} /\ AtStart(c).panicked = FALSE
    BY DEF AtStart
  <2>2. Exported(p, p, {})
    BY <1>2 DEF Exported
  <2>3. Named(ready, {})
    BY DEF Named
  <2>4. ReadOK(ready, p, p, AtStart(c))
    BY <2>1, <2>2, <2>3 DEF ReadOK, AtStart
  <2>5. p + 0 = p
    BY <1>2
  <2> QED
    BY <2>4, <2>5, <1>3
<1>5. ASSUME NEW k \in Nat, k \in T PROVE k + 1 \in T
  <2> SUFFICES ASSUME k + 1 <= n PROVE ReadOK(ready, p, p + (k + 1), r[k + 1])
    OBVIOUS
  <2>1. ReadOK(ready, p, p + k, r[k]) /\ k + 1 \in 1 .. n /\ (k + 1) - 1 = k
    BY <1>5
  <2>2. r[k + 1] = ReadTransaction(r[k], requests[p + (k + 1)])
    BY <2>1, <1>1, <1>3
  <2>3. p + (k + 1) = (p + k) + 1 /\ (p + k) + 1 \in DOMAIN requests /\ p + k \in Nat /\ p <= p + k
    BY <1>1, <1>2
  <2> HIDE DEF p
  <2> QED
    BY <2>1, <2>2, <2>3, <1>2, ReadNext
<1>6. ReadOK(ready, p, p + n, r[n])
  <2> HIDE DEF T
  <2>1. n \in T
    BY <1>4, <1>5, Numbers!SetInduction
  <2> QED
    BY <2>1 DEF T
<1>7. Run(c, a + 1, b) = r[n]
  BY <1>1 DEF Run, r, txs
<1> QED
  BY <1>1, <1>6, <1>7

-----------------------------------------------------------------------------
(* The inductive invariant                                                  *)

\* While OsfStream records, and what it leaves.
Recording ==
    /\ StreamInv
    /\ DataIn(block_buffer)
    /\ \A i \in DOMAIN requests \ Headers : DataIn(requests[i].payload)
    /\ base = 0 /\ head = 0
    /\ channel_file = FirstFile /\ metrics = {} /\ panicked = FALSE /\ failed = FALSE

Reading ==
    /\ Chained
    /\ base \in Nat /\ head \in Nat /\ base <= head /\ head <= ChainLength
    /\ panicked \in BOOLEAN /\ failed \in BOOLEAN /\ (panicked => failed)
    /\ Named(reader = "export2" /\ ~panicked, metrics)
    /\ reader = "export2" /\ ~panicked => Ready(channel_file, base * BlockSize)
    /\ reader = "export2" /\ panicked => Cause(base * BlockSize)
    /\ reader = "export2" /\ ~failed => Exported(0, base * BlockSize, metrics)

TelemetryInv ==
    /\ reader \in {"none", "export2", "chaintovictoria"}
    /\ reader = "none" => Recording
    /\ reader # "none" => Reading

LEMMA TelemetryInvImplies ==
    ASSUME TelemetryInv
    PROVE  SamplesNamed /\ ExportComplete /\ PanicHasCause
<1>1. SamplesNamed
  BY DEF TelemetryInv, Recording, Reading, SamplesNamed, Named
<1>2. ExportComplete
  <2> SUFFICES ASSUME reader = "export2", ~failed, NEW i \in 1 .. base * BlockSize,
                      requests[i].tx_type = "Data", NEW item \in Range(requests[i].payload),
                      Meant(item).datatype # "GpsLocation"
               PROVE  \E line \in metrics : line.item = item
    BY DEF ExportComplete
  <2>1. Exported(0, base * BlockSize, metrics)
    BY DEF TelemetryInv, Reading
  <2>2. i \in 0 + 1 .. base * BlockSize
    OBVIOUS
  <2> QED
    BY <2>1, <2>2 DEF Exported
<1>3. PanicHasCause
  BY DEF TelemetryInv, Reading, PanicHasCause, Cause, CauseAt
<1> QED
  BY <1>1, <1>2, <1>3

\* Multiples of the block size.
LEMMA WholeBlocks ==
    ASSUME Chained
    PROVE  /\ ChainLength \in Nat /\ ChainLength * BlockSize <= Len(requests)
           /\ \A m \in Nat, n \in Nat : m <= n => m * BlockSize <= n * BlockSize
           /\ \A n \in Nat : n * BlockSize \in Nat
<1>1. BlockSize \in Nat \ {0} /\ Len(requests) \in Nat
  BY TelemetryAssumption DEF Chained
<1>2. ASSUME NEW m \in Nat, NEW n \in Nat, m <= n PROVE m * BlockSize <= n * BlockSize
  <2>1. n - m \in Nat /\ (n - m) * BlockSize \in Nat /\ m * BlockSize \in Nat
    BY <1>1, <1>2
  <2>2. n * BlockSize = m * BlockSize + (n - m) * BlockSize
    BY <1>1
  <2> QED
    BY <2>1, <2>2
<1>3. ChainLength \in Nat /\ ChainLength * BlockSize <= Len(requests)
  BY <1>1, Numbers!DivDef DEF ChainLength
<1> QED
  BY <1>1, <1>2, <1>3

\* The transactions of the first n blocks are there.
LEMMA BlocksAreRecorded ==
    ASSUME Chained, NEW n \in Nat, n <= ChainLength
    PROVE  n * BlockSize <= Len(requests)
<1> DEFINE whole == ChainLength * BlockSize
           some  == n * BlockSize
<1>1. whole <= Len(requests) /\ Len(requests) \in Nat
  BY WholeBlocks DEF Chained
<1>2. some <= whole
  BY WholeBlocks
<1>3. some \in Nat /\ whole \in Nat
  BY WholeBlocks
<1> HIDE DEF whole, some
<1>4. some <= Len(requests)
  BY <1>1, <1>2, <1>3
<1> QED
  BY <1>4 DEF some

LEMMA InitTelemetry == TelemetryInit => TelemetryInv
<1> SUFFICES ASSUME TelemetryInit PROVE TelemetryInv
  OBVIOUS
<1>1. StreamInv
  BY InitStreamInv DEF TelemetryInit
<1>2. DOMAIN requests = {} /\ DOMAIN block_buffer = {}
  BY DEF TelemetryInit, Init
<1> QED
  BY <1>1, <1>2 DEF TelemetryInit, TelemetryInv, Recording, DataIn

\* What is buffered and sent has its own second components only.
LEMMA RecordKeeps ==
    ASSUME TelemetryInv, Record
    PROVE  TelemetryInv'
<1>1. reader = "none" /\ reader' = "none" /\ Recording /\ Next
      /\ UNCHANGED <<base, head, channel_file, metrics, panicked, failed>>
  BY DEF Record, TelemetryInv, tvars
<1>2. StreamInv' /\ TypeOK
  BY <1>1, NextStreamInv DEF Recording, StreamInv
<1>3. block_buffer \in Seq(Item) /\ requests \in Seq(Request)
  BY <1>2 DEF TypeOK
<1>4. DataIn(block_buffer')
  <2>1. CASE block_buffer' = <<>>
    BY <2>1 DEF DataIn
  <2>2. CASE block_buffer' = block_buffer
    BY <2>2, <1>1 DEF Recording
  <2>3. ASSUME NEW p \in sent, DataPacket(p) PROVE DataIn(block_buffer')
    <3>1. p.block \in Blocks
      BY <2>3, <1>2, PacketShape DEF DataPacket
    <3>2. block_buffer' = Append(block_buffer, <<p.timestamp, p.block>>)
      BY <2>3 DEF DataPacket
    <3> QED
      BY <3>1, <3>2, <1>1, <1>3 DEF Recording, DataIn
  <2> QED
    BY <2>1, <2>2, <2>3, <1>1 DEF Next, StartStream, HeaderHeader, HeaderData, Quiet, Flush
<1>5. ASSUME NEW S, NEW sofar \in Seq(S), Flush(sofar),
             \A i \in DOMAIN sofar : sofar[i].tx_type # "Config" => DataIn(sofar[i].payload)
      PROVE  \A i \in DOMAIN requests' : requests'[i].tx_type # "Config" => DataIn(requests'[i].payload)
  <2>1. CASE requests' = sofar
    BY <2>1, <1>5
  <2>2. CASE requests' = Append(sofar, Data(block_buffer))
    <3>1. DataIn(Data(block_buffer).payload)
      BY <1>1 DEF Recording, Data
    <3>2. ASSUME NEW i \in DOMAIN requests'
          PROVE  requests'[i] = Data(block_buffer) \/ (i \in DOMAIN sofar /\ requests'[i] = sofar[i])
      BY <2>2
    <3> QED
      BY <3>1, <3>2, <1>5
  <2> QED
    BY <2>1, <2>2, <1>5 DEF Flush
<1>6. \A i \in DOMAIN requests : requests[i].tx_type # "Config" => DataIn(requests[i].payload)
  BY <1>1 DEF Recording, Headers
<1>7. \A i \in DOMAIN requests' : requests'[i].tx_type # "Config" => DataIn(requests'[i].payload)
  <2>1. CASE requests' = requests
    BY <2>1, <1>6
  <2>2. CASE Flush(requests)
    BY <2>2, <1>3, <1>5, <1>6
  <2>3. ASSUME NEW p \in sent, HeaderData(p), Flush(Append(requests, Config(channel_data')))
        PROVE  \A i \in DOMAIN requests' : requests'[i].tx_type # "Config" => DataIn(requests'[i].payload)
    <3> DEFINE new == Append(requests, Config(channel_data'))
    <3>1. DOMAIN new = 1 .. Len(requests) + 1 /\ new[Len(requests) + 1].tx_type = "Config"
          /\ \A i \in DOMAIN requests : new[i] = requests[i]
      BY <1>3 DEF Config
    <3>2. new \in Seq(Request \cup {Config(channel_data')})
      <4> DEFINE S == Request \cup {Config(channel_data')}
      <4>1. requests \in Seq(S) /\ Config(channel_data') \in S
        <5> HIDE DEF Request
        <5> QED
          BY <1>3
      <4> HIDE DEF S
      <4>2. new \in Seq(S)
        BY <4>1
      <4> QED
        BY <4>2 DEF S
    <3>3. \A i \in DOMAIN new : new[i].tx_type # "Config" => DataIn(new[i].payload)
      <4>1. \A i \in DOMAIN new : i = Len(requests) + 1 \/ i \in DOMAIN requests
        BY <3>1, <1>3
      <4> HIDE DEF new
      <4> QED
        BY <3>1, <4>1, <1>6
    <3> HIDE DEF new
    <3> QED
      BY <2>3, <3>2, <3>3, <1>5 DEF new
  <2> QED
    BY <2>1, <2>2, <2>3, <1>1 DEF Next, StartStream, HeaderHeader, HeaderData, DataPacket, Quiet
<1> QED
  BY <1>1, <1>2, <1>4, <1>7 DEF TelemetryInv, Recording, Headers, DataIn

\* What is recorded is the chain; nothing of it has been read.
LEMMA StopKeeps ==
    ASSUME TelemetryInv, Stop
    PROVE  TelemetryInv'
<1>1. /\ Recording /\ reader' \in {"export2", "chaintovictoria"}
      /\ UNCHANGED <<requests, base, head, channel_file, metrics, panicked, failed>>
  BY DEF TelemetryInv, Stop
<1>2. Chained
  BY <1>1 DEF Recording, Chained, StreamInv, TypeOK
<1>3. Chained'
  BY <1>1, <1>2 DEF Chained, Recorded, HeaderWhole, HeadersNewer, DataExplained, Headers, StreamOf, DataIn
<1>4. base' = 0 /\ head' = 0 /\ base' * BlockSize = 0
  BY <1>1, TelemetryAssumption DEF Recording
<1>5. Ready(channel_file, 0)'
  <2>1. \A h \in Headers' : h \in Nat \ {0}
    BY <1>3, RequestDef DEF Headers, Chained
  <2>2. \A h \in Headers' : ~LastOf(h, 0)'
    BY <2>1 DEF LastOf
  <2>3. (channel_file \in InUse(0 + 1))'
    BY <1>1 DEF Recording, InUse
  <2> QED
    BY <2>2, <2>3 DEF Ready, Fits, Covers
<1>6. Exported(0, 0, metrics)' /\ Named(reader = "export2" /\ ~panicked, metrics)'
  BY <1>1 DEF Recording, Exported, Named
<1>7. (head <= ChainLength)' /\ (base <= head)'
  BY <1>3, <1>4, TelemetryAssumption, Numbers!DivDef DEF ChainLength, Chained
<1>8. Reading'
  <2>1. (base * BlockSize)' = 0 /\ base' \in Nat /\ head' \in Nat
    BY <1>4
  <2>2. panicked' = FALSE /\ failed' = FALSE
    BY <1>1 DEF Recording
  <2> QED
    BY <2>1, <2>2, <1>3, <1>5, <1>6, <1>7 DEF Reading
<1> QED
  BY <1>1, <1>8 DEF TelemetryInv

\* The chain stays as it is while it is read, and what is said of it.
LEMMA ChainStays ==
    ASSUME UNCHANGED vars
    PROVE  /\ Chained => Chained'
           /\ \A c, n : Ready(c, n)' <=> Ready(c, n)
           /\ \A n : Cause(n)' <=> Cause(n)
           /\ \A m, n, lines : Exported(m, n, lines)' <=> Exported(m, n, lines)
           /\ ChainLength' = ChainLength
BY DEF vars, Chained, Recorded, HeaderWhole, HeadersNewer, DataExplained, Headers, StreamOf, DataIn,
       Ready, Fits, Covers, LastOf, HeaderAt, InUse, Cause, CauseAt, Exported, ChainLength

\* The lines of a run, and those that were there.
LEMMA NamedUnion ==
    ASSUME NEW a, NEW b, NEW old, NEW new, Named(a, old), Named(b, new)
    PROVE  Named(a /\ b, old \cup new)
BY DEF Named

LEMMA NamedLess ==
    ASSUME NEW a \in BOOLEAN, NEW b \in BOOLEAN, b => a, NEW lines, Named(a, lines)
    PROVE  Named(b, lines)
BY DEF Named

\* export2, once: the blocks after the last export, up to h.
LEMMA ExportKeeps ==
    ASSUME TelemetryInv, NEW h \in 1 .. ChainLength, Export(h)
    PROVE  TelemetryInv'
<1> DEFINE ready == ~panicked
<1> DEFINE p == base * BlockSize
<1> DEFINE q == h * BlockSize
<1>1. /\ reader = "export2" /\ reader' = "export2" /\ Reading /\ h > base /\ WriteBlocks(base + 1, h)
      /\ base' = h /\ head' = h /\ UNCHANGED vars
  BY DEF Export, TelemetryInv
<1>2. Chained /\ base \in Nat /\ h \in Nat /\ base <= h /\ base <= h + 1 /\ h <= ChainLength
      /\ panicked \in BOOLEAN /\ failed \in BOOLEAN /\ (panicked => failed) /\ ready \in BOOLEAN
  BY <1>1 DEF Reading
<1>3. q <= Len(requests) /\ p \in Nat /\ q \in Nat /\ p <= q
  <2>1. q <= Len(requests)
    BY <1>2, BlocksAreRecorded
  <2>2. p <= q
    BY <1>2, WholeBlocks
  <2>3. p \in Nat /\ q \in Nat
    BY <1>2, WholeBlocks
  <2> QED
    BY <2>1, <2>2, <2>3
<1>4. ready => Ready(channel_file, p) /\ Named(TRUE, metrics)
  BY <1>1 DEF Reading, Named
<1>5. PICK run \in {Run(channel_file, base + 1, h)}, posted \in BOOLEAN :
          /\ posted => ~run.panicked
          /\ channel_file' = run.channels
          /\ metrics' = IF posted THEN metrics \cup run.lines ELSE metrics
          /\ panicked' = (panicked \/ run.panicked)
          /\ failed' = (failed \/ ~posted)
  BY <1>1 DEF WriteBlocks
<1>6. ReadOK(ready, p, q, run)
  <2> HIDE DEF ready
  <2>1. run = Run(channel_file, base + 1, h)
    OBVIOUS
  <2>2. ready => Ready(channel_file, base * BlockSize)
    BY <1>4
  <2>3. PICK n \in Nat : /\ ReadOK(ready, base * BlockSize, base * BlockSize + n, Run(channel_file, base + 1, h))
                         /\ base <= h => base * BlockSize + n = h * BlockSize
    BY <1>2, <1>3, <2>2, RunOK
  <2> QED
    BY <2>1, <2>3, <1>2
<1> HIDE DEF p, q, ready
<1>7. run.panicked \in BOOLEAN /\ Named(ready, run.lines)
      /\ (ready /\ ~run.panicked => Ready(run.channels, q) /\ Exported(p, q, run.lines))
      /\ (ready /\ run.panicked => Cause(q))
  BY <1>6 DEF ReadOK
<1>8. Named(reader = "export2" /\ ~panicked, metrics)'
  <2>1. Named(ready, metrics)
    BY <1>1 DEF Reading, ready
  <2>2. Named(ready, metrics')
    BY <2>1, <1>5, <1>7 DEF Named
  <2> QED
    BY <2>2, <1>5, <1>7, <1>1 DEF Named, ready
<1>9. ~panicked' => Ready(channel_file', q)
  BY <1>5, <1>7 DEF ready
<1>10. panicked' => Cause(q)
  <2>1. CASE panicked
    <3>1. Cause(p)
      BY <2>1, <1>1 DEF Reading, p
    <3> QED
      BY <3>1, <1>3 DEF Cause
  <2>2. CASE ~panicked
    BY <2>2, <1>5, <1>7 DEF ready
  <2> QED
    BY <2>1, <2>2
<1>11. ~failed' => Exported(0, q, metrics')
  <2> SUFFICES ASSUME ~failed' PROVE Exported(0, q, metrics')
    OBVIOUS
  <2>1. ~failed /\ posted /\ ~run.panicked /\ ready /\ metrics' = metrics \cup run.lines
    BY <1>2, <1>5 DEF ready
  <2>2. Exported(0, p, metrics) /\ Exported(p, q, run.lines)
    BY <2>1, <1>1, <1>7 DEF Reading, p
  <2>3. \A i \in 0 + 1 .. q : i \in 0 + 1 .. p \/ i \in p + 1 .. q
    BY <1>3
  <2> QED
    BY <2>1, <2>2, <2>3 DEF Exported
<1>12. Chained' /\ (panicked' => failed') /\ panicked' \in BOOLEAN /\ failed' \in BOOLEAN
  BY <1>1, <1>2, <1>5, <1>7, ChainStays
<1>13. (base \in Nat /\ head \in Nat /\ base <= head /\ head <= ChainLength)'
  BY <1>1, <1>2, ChainStays
<1>14. Reading'
  <2>1. (base * BlockSize)' = q
    BY <1>1 DEF q
  <2>2. Ready(channel_file', q) => Ready(channel_file, base * BlockSize)'
    BY <2>1, <1>1, ChainStays
  <2>3. Cause(q) => Cause(base * BlockSize)'
    BY <2>1, <1>1, ChainStays
  <2>4. Exported(0, q, metrics') => Exported(0, base * BlockSize, metrics)'
    BY <2>1, <1>1, ChainStays
  <2> QED
    BY <2>2, <2>3, <2>4, <1>8, <1>9, <1>10, <1>11, <1>12, <1>13 DEF Reading
<1> QED
  BY <1>1, <1>14 DEF TelemetryInv

\* chaintovictoria, once: its lines are right after a header.
LEMMA ChainToVictoriaKeeps ==
    ASSUME TelemetryInv, NEW h \in 1 .. ChainLength, ChainToVictoria(h)
    PROVE  TelemetryInv'
<1>1. /\ reader = "chaintovictoria" /\ reader' = "chaintovictoria" /\ Reading /\ h >= head
      /\ WriteBlocks(base + 1, h - 1)
      /\ base' = base /\ head' = h /\ UNCHANGED vars
  BY DEF ChainToVictoria, TelemetryInv
<1>2. Chained /\ base \in Nat /\ head \in Nat /\ base <= head /\ h - 1 \in Nat /\ base <= (h - 1) + 1
      /\ panicked \in BOOLEAN /\ failed \in BOOLEAN /\ (panicked => failed) /\ h <= ChainLength /\ h \in Nat
  BY <1>1 DEF Reading
<1>3. (h - 1) * BlockSize <= Len(requests)
  <2>1. h - 1 \in Nat /\ h - 1 <= ChainLength
    BY <1>2, WholeBlocks
  <2> QED
    BY <1>2, <2>1, BlocksAreRecorded
<1>4. PICK run \in {Run(channel_file, base + 1, h - 1)}, posted \in BOOLEAN :
          /\ posted => ~run.panicked
          /\ channel_file' = run.channels
          /\ metrics' = IF posted THEN metrics \cup run.lines ELSE metrics
          /\ panicked' = (panicked \/ run.panicked)
          /\ failed' = (failed \/ ~posted)
  BY <1>1 DEF WriteBlocks
<1>5. \E n \in Nat : ReadOK(FALSE, base * BlockSize, base * BlockSize + n, run)
  <2>1. run = Run(channel_file, base + 1, h - 1)
    OBVIOUS
  <2>2. PICK ready \in BOOLEAN : ready = FALSE
    OBVIOUS
  <2>3. PICK n \in Nat :
            ReadOK(ready, base * BlockSize, base * BlockSize + n, Run(channel_file, base + 1, h - 1))
    BY <1>2, <1>3, <2>2, RunOK
  <2> QED
    BY <2>1, <2>2, <2>3
<1>6. run.panicked \in BOOLEAN /\ Named(FALSE, run.lines)
  BY <1>5 DEF ReadOK
<1>7. Named(reader = "export2" /\ ~panicked, metrics)'
  BY <1>1, <1>4, <1>6 DEF Reading, Named
<1>8. Chained' /\ (panicked' => failed') /\ panicked' \in BOOLEAN /\ failed' \in BOOLEAN
      /\ (base \in Nat /\ head \in Nat /\ base <= head /\ head <= ChainLength)'
  BY <1>1, <1>2, <1>4, <1>6, ChainStays
<1> QED
  BY <1>1, <1>7, <1>8 DEF TelemetryInv, Reading

LEMMA PruneKeeps ==
    ASSUME TelemetryInv, NEW b \in 1 .. ChainLength, Prune(b)
    PROVE  TelemetryInv'
<1>1. /\ reader = "chaintovictoria" /\ Reading /\ b > base /\ b <= head /\ base' = b
      /\ UNCHANGED vars /\ UNCHANGED <<reader, head, channel_file, metrics, panicked, failed>>
  BY DEF Prune, TelemetryInv
<1>2. Chained' /\ (base \in Nat /\ head \in Nat /\ base <= head /\ head <= ChainLength)'
  BY <1>1, ChainStays DEF Reading
<1>3. Named(reader = "export2" /\ ~panicked, metrics)'
  BY <1>1 DEF Reading, Named
<1> QED
  BY <1>1, <1>2, <1>3 DEF TelemetryInv, Reading

LEMMA StutterKeeps ==
    ASSUME TelemetryInv, UNCHANGED <<vars, tvars>>
    PROVE  TelemetryInv'
<1>1. UNCHANGED vars /\ UNCHANGED <<reader, base, head, channel_file, metrics, panicked, failed>>
  BY DEF tvars
<1>2. CASE reader = "none"
  <2>1. Recording /\ StreamInv'
    BY <1>1, <1>2, NextStreamInv DEF TelemetryInv, Recording
  <2> QED
    BY <1>1, <1>2, <2>1 DEF TelemetryInv, Recording, vars, DataIn, Headers
<1>3. CASE reader # "none"
  <2>1. Reading
    BY <1>3 DEF TelemetryInv
  <2>2. Named(reader = "export2" /\ ~panicked, metrics)'
    BY <2>1, <1>1 DEF Reading, Named
  <2>3. (base * BlockSize)' = base * BlockSize
    BY <1>1
  <2> QED
    BY <1>1, <1>3, <2>1, <2>2, <2>3, ChainStays DEF TelemetryInv, Reading
<1> QED
  BY <1>2, <1>3

LEMMA TelemetryStep == TelemetryInv /\ [TelemetryNext]_<<vars, tvars>> => TelemetryInv'
BY RecordKeeps, StopKeeps, ExportKeeps, ChainToVictoriaKeeps, PruneKeeps, StutterKeeps DEF TelemetryNext

-----------------------------------------------------------------------------
(* The theorems                                                             *)

THEOREM TelemetryInvariance == TelemetrySpec => []TelemetryInv
BY InitTelemetry, TelemetryStep, PTL DEF TelemetrySpec

\* A line of write_blocks_to_victoria (rc-victoria/src/lib.rs:108-166) has the
\* name and type of the channel its data was recorded on, if a header came
\* before it in the same run, or if export2 goes on where it has stopped.
THEOREM LinesAreNamed == TelemetrySpec => []SamplesNamed
BY TelemetryInvariance, TelemetryInvImplies, PTL

\* All data of the blocks that export2 had deleted is in VictoriaMetrics, but for
\* locations, if no run has failed (export2.rs:105-132): none is skipped between
\* two runs, at a new header or in a block of several values.
THEOREM NoneMissing == TelemetrySpec => []ExportComplete
BY TelemetryInvariance, TelemetryInvImplies, PTL

\* The unwraps of block_to_victoria and of the decoder (lib.rs:141,
\* block.rs:70-94) can fail in export2 only over a string, a type that is not
\* supported, or a header with more channels that was not adopted.
THEOREM PanicsExplained == TelemetrySpec => []PanicHasCause
BY TelemetryInvariance, TelemetryInvImplies, PTL
=============================================================================

--------------------------- MODULE RcBft2_proofs ---------------------------
(***************************************************************************)
(* Safety of the ordering layer for every number of replicas, set of       *)
(* payloads, window and bound, view changes included.                      *)
(*                                                                         *)
(* The invariants of RcBft2 are about one replica at a time, except for    *)
(* what the messages carry.  LayerInv is their inductive form: it adds that *)
(* a NewView never reaches the primary of the view it announces, without   *)
(* which a replica could become primary with a store that was not drained. *)
(***************************************************************************)
EXTENDS RcBft2, TLAPS

-----------------------------------------------------------------------------
(* The request store: it stays well-typed, and its indexes stay consistent *)
(* with each other and with the queue of soft timers (Timed).              *)

\* A map over S with values in T, spelled out.
LEMMA MapsOverDef ==
    ASSUME NEW S, NEW T, NEW f
    PROVE  f \in MapsOver(S, T) <=>
              /\ f \in [DOMAIN f -> T]
              /\ DOMAIN f \subseteq S
BY DEF MapsOver

\* Binding a key to a value of the right type keeps the type of a map.
LEMMA PutType ==
    ASSUME NEW S, NEW T, NEW f \in MapsOver(S, T), NEW k \in S, NEW v \in T
    PROVE  Put(f, k, v) \in MapsOver(S, T)
BY MapsOverDef DEF Put

\* So does dropping keys.
LEMMA DropType ==
    ASSUME NEW S, NEW T, NEW f \in MapsOver(S, T), NEW D
    PROVE  Drop(f, D) \in MapsOver(S, T)
BY MapsOverDef DEF Drop, Restrict

\* SHA-256 is taken to be free of collisions.
LEMMA DigestInjective ==
    ASSUME NEW p, NEW q, Digest(p) = Digest(q)
    PROVE  p = q
<1>1. Digest(p).sha256 = Digest(q).sha256
  OBVIOUS
<1>2. QED
  BY <1>1 DEF Digest

\* A waiting payload's entry, and the payloads of two indexed keys.
LEMMA TimedKeys ==
    ASSUME NEW s \in Store, NEW T, Timed(s, T),
           NEW p \in DOMAIN s.byPayload, NEW q \in DOMAIN s.byPayload, p # q
    PROVE  /\ s.byPayload[p] # s.byPayload[q]
           /\ Digest(p) # Digest(q)
           /\ s.requests[s.byPayload[p]].timeout # s.requests[s.byPayload[q]].timeout
BY DigestInjective DEF Timed, WaitsWithTimer

\* insert_with_digest with a fresh timer: the new entry is indexed and has its
\* timer; what an earlier entry of the same payload held is left unindexed.
LEMMA InsertTimed ==
    ASSUME NEW s \in Store, NEW T \in MapsOver(Key, Digests), Timed(s, T),
           NEW p \in Payload, NEW t \in Key, t \notin DOMAIN T,
           \E k \in Key : k \notin KeysInUse(s),
           NEW s2, s2 = InsertWithDigest(s, p, Digest(p), t),
           NEW T2, T2 = Put(T, t, Digest(p))
    PROVE  /\ s2 \in Store /\ T2 \in MapsOver(Key, Digests)
           /\ DOMAIN s2.byPayload = DOMAIN s.byPayload \cup {p}
           /\ Timed(s2, T2)
<1>1. PICK key \in Key : /\ key \notin KeysInUse(s)
                         /\ key = CHOOSE k \in Key : k \notin KeysInUse(s)
  OBVIOUS
<1> DEFINE e == [proposal |-> p, digest |-> Digest(p), timeout |-> t]
<1>2. Digest(p) \in Digests /\ e \in Entry
  BY DEF Digests, Entry
<1>3. /\ s.requests \in MapsOver(Key, Entry)
      /\ s.byPayload \in MapsOver(Payload, Key)
      /\ s.byDigest \in MapsOver(Digests, Key)
  BY DEF Store
<1>4. s2 = [requests  |-> Put(s.requests, key, e),
            byPayload |-> Put(s.byPayload, p, key),
            byDigest  |-> Put(s.byDigest, Digest(p), key)]
  BY <1>1 DEF InsertWithDigest
<1>5. /\ Put(s.requests, key, e) \in MapsOver(Key, Entry)
      /\ Put(s.byPayload, p, key) \in MapsOver(Payload, Key)
      /\ Put(s.byDigest, Digest(p), key) \in MapsOver(Digests, Key)
      /\ Put(T, t, Digest(p)) \in MapsOver(Key, Digests)
  BY <1>2, <1>3, PutType
<1>6. s2 \in Store /\ T2 \in MapsOver(Key, Digests)
  BY <1>4, <1>5 DEF Store
<1>7. /\ DOMAIN s2.byPayload = DOMAIN s.byPayload \cup {p}
      /\ DOMAIN s2.byDigest = DOMAIN s.byDigest \cup {Digest(p)}
  BY <1>4 DEF Put
<1>8. ASSUME NEW q \in DOMAIN s2.byPayload PROVE WaitsWithTimer(s2, T2, q)
  <2>1. CASE q = p
    <3>1. /\ s2.byPayload[p] = key /\ s2.byDigest[Digest(p)] = key
          /\ key \in DOMAIN s2.requests /\ s2.requests[key] = e
          /\ t \in DOMAIN T2 /\ T2[t] = Digest(p)
      BY <1>4 DEF Put
    <3>2. QED
      BY <2>1, <3>1 DEF WaitsWithTimer
  <2>2. CASE q # p
    <3>1. q \in DOMAIN s.byPayload /\ WaitsWithTimer(s, T, q) /\ Digest(q) \in DOMAIN s.byDigest
      BY <1>7, <2>2 DEF Timed
    <3>2. s.byPayload[q] # key /\ Digest(q) # Digest(p)
      BY <1>1, <2>2, <3>1, DigestInjective DEF KeysInUse, Range
    <3>3. s2.byPayload[q] = s.byPayload[q] /\ s2.byDigest[Digest(q)] = s.byDigest[Digest(q)]
      BY <1>4, <2>2, <3>1, <3>2 DEF Put
    <3>4. /\ s.byPayload[q] \in DOMAIN s2.requests
          /\ s2.requests[s.byPayload[q]] = s.requests[s.byPayload[q]]
      BY <1>4, <3>1, <3>2 DEF WaitsWithTimer, Put
    <3>5. \A x \in DOMAIN T : x \in DOMAIN T2 /\ T2[x] = T[x]
      BY DEF Put
    <3>6. QED
      BY <3>1, <3>3, <3>4, <3>5 DEF WaitsWithTimer
  <2>3. QED
    BY <2>1, <2>2
<1>9. DOMAIN s2.byDigest = {Digest(q) : q \in DOMAIN s2.byPayload}
  BY <1>7 DEF Timed
<1>10. QED
  BY <1>6, <1>7, <1>8, <1>9 DEF Timed

\* remove_by_payload of a batch, each entry found taking its timer with it:
\* the timers are running ones, and what stays in the store keeps its own.
LEMMA RemoveTimed ==
    ASSUME NEW s \in Store, NEW T \in MapsOver(Key, Digests), Timed(s, T),
           NEW batch \in SUBSET Payload,
           NEW s2, s2 = RemoveByPayload(s, batch),
           NEW T2, T2 = Drop(T, {s.requests[k].timeout : k \in FoundByPayload(s, batch)})
    PROVE  /\ s2 \in Store /\ T2 \in MapsOver(Key, Digests)
           /\ DOMAIN s2.byPayload = DOMAIN s.byPayload \ batch
           /\ DOMAIN s2.requests \subseteq DOMAIN s.requests /\ DOMAIN T2 \subseteq DOMAIN T
           /\ Timed(s2, T2)
<1> DEFINE found == FoundByPayload(s, batch)
<1>1. /\ s.requests \in MapsOver(Key, Entry)
      /\ s.byPayload \in MapsOver(Payload, Key)
      /\ s.byDigest \in MapsOver(Digests, Key)
  BY DEF Store
<1>2. found = {s.byPayload[p] : p \in batch \cap DOMAIN s.byPayload}
  BY DEF FoundByPayload, Timed, WaitsWithTimer
<1>3. {s.requests[k].digest : k \in found} = {Digest(p) : p \in batch \cap DOMAIN s.byPayload}
  <2>1. \A p \in DOMAIN s.byPayload : s.requests[s.byPayload[p]].digest = Digest(p)
    BY DEF Timed, WaitsWithTimer
  <2>2. \A k \in found : \E p \in batch \cap DOMAIN s.byPayload : s.requests[k].digest = Digest(p)
    BY <1>2, <2>1
  <2>3. \A p \in batch \cap DOMAIN s.byPayload :
           s.byPayload[p] \in found /\ s.requests[s.byPayload[p]].digest = Digest(p)
    BY <1>2, <2>1
  <2> HIDE DEF found
  <2>4. \A p \in batch \cap DOMAIN s.byPayload : Digest(p) \in {s.requests[k].digest : k \in found}
    BY <2>3
  <2>5. ASSUME NEW d PROVE d \in {s.requests[k].digest : k \in found}
                          <=> d \in {Digest(p) : p \in batch \cap DOMAIN s.byPayload}
    BY <2>2, <2>4
  <2>6. QED
    BY <2>5
<1>4. s2 = [requests  |-> Drop(s.requests, found),
            byPayload |-> Drop(s.byPayload, batch),
            byDigest  |-> Drop(s.byDigest, {s.requests[k].digest : k \in found})]
  BY DEF RemoveByPayload
<1>5. /\ Drop(s.requests, found) \in MapsOver(Key, Entry)
      /\ Drop(s.byPayload, batch) \in MapsOver(Payload, Key)
      /\ Drop(s.byDigest, {s.requests[k].digest : k \in found}) \in MapsOver(Digests, Key)
      /\ T2 \in MapsOver(Key, Digests)
  BY <1>1, DropType
<1>6. s2 \in Store /\ T2 \in MapsOver(Key, Digests)
  BY <1>4, <1>5 DEF Store
<1>7. /\ DOMAIN s2.byPayload = DOMAIN s.byPayload \ batch
      /\ DOMAIN s2.requests \subseteq DOMAIN s.requests /\ DOMAIN T2 \subseteq DOMAIN T
      /\ DOMAIN s2.byDigest = DOMAIN s.byDigest \ {Digest(p) : p \in batch \cap DOMAIN s.byPayload}
  <2> DEFINE digests == {s.requests[k].digest : k \in found}
  <2>1. s2.byDigest = Drop(s.byDigest, digests)
    BY <1>4
  <2>2. digests = {Digest(p) : p \in batch \cap DOMAIN s.byPayload}
    BY <1>3
  <2> HIDE DEF digests
  <2>3. DOMAIN s2.byDigest = DOMAIN s.byDigest \ digests
    BY <2>1 DEF Drop, Restrict
  <2>4. /\ DOMAIN s2.byPayload = DOMAIN s.byPayload \ batch
        /\ DOMAIN s2.requests \subseteq DOMAIN s.requests /\ DOMAIN T2 \subseteq DOMAIN T
    BY <1>4 DEF Drop, Restrict
  <2>5. QED
    BY <2>2, <2>3, <2>4
<1>8. DOMAIN s2.byDigest = {Digest(q) : q \in DOMAIN s2.byPayload}
  BY <1>7, DigestInjective DEF Timed
<1>9. ASSUME NEW q \in DOMAIN s2.byPayload PROVE WaitsWithTimer(s2, T2, q)
  <2>1. q \in DOMAIN s.byPayload /\ q \notin batch /\ WaitsWithTimer(s, T, q)
    BY <1>7 DEF Timed
  <2>2. \A p \in batch \cap DOMAIN s.byPayload :
           /\ s.byPayload[p] # s.byPayload[q]
           /\ Digest(p) # Digest(q)
           /\ s.requests[s.byPayload[p]].timeout # s.requests[s.byPayload[q]].timeout
    BY <2>1, TimedKeys
  <2>3. /\ s.byPayload[q] \notin found
        /\ Digest(q) \notin {s.requests[k].digest : k \in found}
        /\ s.requests[s.byPayload[q]].timeout \notin {s.requests[k].timeout : k \in found}
    BY <1>2, <1>3, <2>2
  <2>4. Digest(q) \in DOMAIN s.byDigest
    BY <2>1 DEF Timed
  <2>5. /\ s2.byPayload[q] = s.byPayload[q]
        /\ s2.byDigest[Digest(q)] = s.byDigest[Digest(q)]
        /\ s.byPayload[q] \in DOMAIN s2.requests
        /\ s2.requests[s.byPayload[q]] = s.requests[s.byPayload[q]]
    <3> DEFINE digests == {s.requests[k].digest : k \in found}
    <3>1. /\ s2.requests = Drop(s.requests, found)
          /\ s2.byPayload = Drop(s.byPayload, batch)
          /\ s2.byDigest = Drop(s.byDigest, digests)
      BY <1>4
    <3>2. s.byPayload[q] \in DOMAIN s.requests
      BY <2>1 DEF WaitsWithTimer
    <3>3. s.byPayload[q] \notin found /\ Digest(q) \notin digests
      BY <2>3
    <3> HIDE DEF found, digests
    <3>4. s2.byPayload[q] = s.byPayload[q]
      BY <2>1, <3>1 DEF Drop, Restrict
    <3>5. s2.byDigest[Digest(q)] = s.byDigest[Digest(q)]
      BY <2>4, <3>1, <3>3 DEF Drop, Restrict
    <3>6. s.byPayload[q] \in DOMAIN s2.requests /\ s2.requests[s.byPayload[q]] = s.requests[s.byPayload[q]]
      BY <3>1, <3>2, <3>3 DEF Drop, Restrict
    <3> QED
      BY <3>4, <3>5, <3>6
  <2>6. LET t == s.requests[s.byPayload[q]].timeout
        IN  t \in DOMAIN T2 /\ T2[t] = T[t]
    BY <2>1, <2>3 DEF Drop, Restrict, WaitsWithTimer
  <2>7. QED
    BY <2>1, <2>5, <2>6 DEF WaitsWithTimer
<1>10. QED
  BY <1>6, <1>7, <1>8, <1>9 DEF Timed

\* The expiry of timer t, which has left the queue: remove_by_digest of its
\* digest removes at most one payload, and the others keep their timers.
LEMMA ExpireTimed ==
    ASSUME NEW s \in Store, NEW T \in MapsOver(Key, Digests), Timed(s, T),
           NEW t \in DOMAIN T,
           NEW s2, s2 = RemoveByDigest(s, T[t]),
           NEW T2, T2 = Drop(T, {t})
    PROVE  /\ s2 \in Store /\ T2 \in MapsOver(Key, Digests)
           /\ DOMAIN s2.byPayload \subseteq DOMAIN s.byPayload
           /\ FoundByDigest(s, T[t]) => EntryByDigest(s, T[t]).proposal \in DOMAIN s.byPayload
           /\ DOMAIN s2.requests \subseteq DOMAIN s.requests /\ DOMAIN T2 \subseteq DOMAIN T
           /\ Timed(s2, T2)
<1>1. /\ s.requests \in MapsOver(Key, Entry)
      /\ s.byPayload \in MapsOver(Payload, Key)
      /\ s.byDigest \in MapsOver(Digests, Key)
  BY DEF Store
<1>2. CASE T[t] \notin DOMAIN s.byDigest
  <2>1. ~FoundByDigest(s, T[t])
    BY <1>2 DEF FoundByDigest
  <2>2. s2 = [requests |-> s.requests, byPayload |-> s.byPayload, byDigest |-> Drop(s.byDigest, {T[t]})]
    BY <2>1 DEF RemoveByDigest
  <2>3. Drop(s.byDigest, {T[t]}) = s.byDigest
    BY <1>1, <1>2, MapsOverDef DEF Drop, Restrict
  <2>4. s2 = s
    BY <2>2, <2>3 DEF Store
  <2>5. T2 \in MapsOver(Key, Digests) /\ DOMAIN T2 = DOMAIN T \ {t} /\ \A x \in DOMAIN T \ {t} : T2[x] = T[x]
    BY DropType DEF Drop, Restrict
  <2>6. ASSUME NEW q \in DOMAIN s.byPayload PROVE WaitsWithTimer(s, T2, q)
    <3>1. WaitsWithTimer(s, T, q) /\ Digest(q) # T[t]
      BY <1>2 DEF Timed
    <3>2. QED
      BY <2>5, <3>1 DEF WaitsWithTimer
  <2>7. QED
    BY <2>1, <2>4, <2>5, <2>6 DEF Timed
<1>3. CASE T[t] \in DOMAIN s.byDigest
  <2>1. PICK p \in DOMAIN s.byPayload : T[t] = Digest(p)
    BY <1>3 DEF Timed
  <2>2. WaitsWithTimer(s, T, p)
    BY DEF Timed
  <2>3. FoundByDigest(s, T[t]) /\ EntryByDigest(s, T[t]).proposal = p
    BY <1>3, <2>1, <2>2 DEF FoundByDigest, EntryByDigest, WaitsWithTimer
  <2>4. s2 = [requests  |-> Drop(s.requests, {s.byPayload[p]}),
              byPayload |-> Drop(s.byPayload, {p}),
              byDigest  |-> Drop(s.byDigest, {Digest(p)})]
    BY <2>1, <2>2, <2>3 DEF RemoveByDigest, WaitsWithTimer
  <2>5. /\ Drop(s.requests, {s.byPayload[p]}) \in MapsOver(Key, Entry)
        /\ Drop(s.byPayload, {p}) \in MapsOver(Payload, Key)
        /\ Drop(s.byDigest, {Digest(p)}) \in MapsOver(Digests, Key)
        /\ T2 \in MapsOver(Key, Digests)
    BY <1>1, DropType
  <2>6. s2 \in Store
    BY <2>4, <2>5 DEF Store
  <2>7. /\ DOMAIN s2.byPayload = DOMAIN s.byPayload \ {p}
        /\ DOMAIN s2.byDigest = DOMAIN s.byDigest \ {Digest(p)}
        /\ DOMAIN s2.requests \subseteq DOMAIN s.requests /\ DOMAIN T2 \subseteq DOMAIN T
    BY <2>4 DEF Drop, Restrict
  <2>8. DOMAIN s2.byDigest = {Digest(q) : q \in DOMAIN s2.byPayload}
    BY <2>7, DigestInjective DEF Timed
  <2>9. ASSUME NEW q \in DOMAIN s2.byPayload PROVE WaitsWithTimer(s2, T2, q)
    <3>1. q \in DOMAIN s.byPayload /\ q # p /\ WaitsWithTimer(s, T, q) /\ Digest(q) \in DOMAIN s.byDigest
      BY <2>7 DEF Timed
    <3>2. s.byPayload[q] # s.byPayload[p] /\ Digest(q) # Digest(p)
      BY <3>1, TimedKeys
    <3>3. s.requests[s.byPayload[q]].timeout # t
      BY <2>1, <3>1, <3>2 DEF WaitsWithTimer
    <3>4. /\ s2.byPayload[q] = s.byPayload[q]
          /\ s2.byDigest[Digest(q)] = s.byDigest[Digest(q)]
          /\ s.byPayload[q] \in DOMAIN s2.requests
          /\ s2.requests[s.byPayload[q]] = s.requests[s.byPayload[q]]
      BY <2>4, <3>1, <3>2 DEF Drop, Restrict, WaitsWithTimer
    <3>5. LET u == s.requests[s.byPayload[q]].timeout
          IN  u \in DOMAIN T2 /\ T2[u] = T[u]
      BY <3>1, <3>3 DEF Drop, Restrict, WaitsWithTimer
    <3>6. QED
      BY <3>1, <3>4, <3>5 DEF WaitsWithTimer
  <2>10. QED
    BY <2>3, <2>5, <2>6, <2>7, <2>8, <2>9 DEF Timed
<1>4. QED
  BY <1>2, <1>3

\* drain empties the slot map and, the indexes being consistent, both indexes.
LEMMA DrainTimed ==
    ASSUME NEW s \in Store, NEW T, Timed(s, T), NEW s2, s2 = Drain(s)
    PROVE  /\ s2 \in Store /\ DOMAIN s2.requests = {} /\ DOMAIN s2.byPayload = {}
           /\ Timed(s2, NoMap)
<1>1. /\ s.requests \in MapsOver(Key, Entry)
      /\ s.byPayload \in MapsOver(Payload, Key)
      /\ s.byDigest \in MapsOver(Digests, Key)
  BY DEF Store
<1> DEFINE ps == {e.proposal : e \in Range(s.requests)}
           ds == {e.digest : e \in Range(s.requests)}
<1>2. s2 = [requests |-> NoMap, byPayload |-> Drop(s.byPayload, ps), byDigest |-> Drop(s.byDigest, ds)]
  BY DEF Drain
<1>3. Drop(s.byPayload, ps) \in MapsOver(Payload, Key) /\ Drop(s.byDigest, ds) \in MapsOver(Digests, Key)
  BY <1>1, DropType
<1>4. NoMap \in MapsOver(Key, Entry)
  BY MapsOverDef DEF NoMap
<1>5. s2 \in Store /\ DOMAIN s2.requests = {}
  BY <1>2, <1>3, <1>4 DEF Store, NoMap
<1>6. \A p \in DOMAIN s.byPayload : p \in ps /\ Digest(p) \in ds
  BY DEF Timed, WaitsWithTimer, Range
<1>7. DOMAIN s2.byPayload = {}
  BY <1>2, <1>6 DEF Drop, Restrict
<1>8. DOMAIN s2.byDigest = {}
  BY <1>2, <1>6 DEF Drop, Restrict, Timed
<1>9. QED
  BY <1>5, <1>7, <1>8 DEF Timed

\* on_new_view: with the slot keys as timer keys, every entry, indexed or not,
\* has a new timer of its own.
LEMMA RearmTimed ==
    ASSUME NEW s \in Store, NEW T, Timed(s, T),
           NEW s2, s2 = RearmEntries(s, [k \in DOMAIN s.requests |-> k]),
           NEW T2, T2 = [k \in DOMAIN s.requests |-> s.requests[k].digest]
    PROVE  /\ s2 \in Store /\ T2 \in MapsOver(Key, Digests)
           /\ DOMAIN s2.byPayload = DOMAIN s.byPayload
           /\ DOMAIN s2.requests = DOMAIN s.requests /\ DOMAIN T2 = DOMAIN s.requests
           /\ Timed(s2, T2)
<1>1. /\ s.requests \in [DOMAIN s.requests -> Entry] /\ DOMAIN s.requests \subseteq Key
  BY MapsOverDef DEF Store
<1> DEFINE r2 == [k \in DOMAIN s.requests |-> [s.requests[k] EXCEPT !.timeout = k]]
<1>2. s2 = [s EXCEPT !.requests = r2]
  BY DEF RearmEntries
<1>3. s2 = [requests |-> r2, byPayload |-> s.byPayload, byDigest |-> s.byDigest]
  BY <1>2 DEF Store
<1>4. \A k \in DOMAIN s.requests : r2[k] \in Entry
  BY <1>1 DEF Entry
<1>5. r2 \in MapsOver(Key, Entry)
  BY <1>1, <1>4, MapsOverDef
<1>6. T2 \in MapsOver(Key, Digests)
  BY <1>1, MapsOverDef DEF Entry
<1>7. s2 \in Store
  BY <1>3, <1>5 DEF Store
<1>8. ASSUME NEW q \in DOMAIN s2.byPayload PROVE WaitsWithTimer(s2, T2, q)
  <2>1. WaitsWithTimer(s, T, q) /\ s2.byPayload[q] = s.byPayload[q]
        /\ s2.byDigest[Digest(q)] = s.byDigest[Digest(q)]
    BY <1>3 DEF Timed
  <2> DEFINE k == s.byPayload[q]
  <2>2. k \in DOMAIN s.requests /\ s.requests[k].proposal = q /\ s.requests[k].digest = Digest(q)
    BY <2>1 DEF WaitsWithTimer
  <2>3. s2.requests[k] = [s.requests[k] EXCEPT !.timeout = k] /\ k \in DOMAIN s2.requests
    BY <1>3, <2>2
  <2>4. s.requests[k] \in Entry
    BY <1>1, <2>2
  <2>5. s2.requests[k].proposal = q /\ s2.requests[k].digest = Digest(q) /\ s2.requests[k].timeout = k
    BY <2>2, <2>3, <2>4 DEF Entry
  <2>6. QED
    BY <2>1, <2>2, <2>3, <2>5 DEF WaitsWithTimer
<1>9. QED
  BY <1>3, <1>6, <1>7, <1>8 DEF Timed

-----------------------------------------------------------------------------
(* The inductive invariant                                                  *)

\* What holds of one replica n with store q, timers T, assignments a and PBFT
\* state pb.
Local(n, q, T, a, pb) ==
    /\ q \in Store
    /\ T \in MapsOver(Key, Digests)
    /\ AssignedOK(a)
    /\ pb \in PbftState
    /\ Timed(q, T)
    /\ IsPrimary(n, pb) => DOMAIN q.requests = {} /\ DOMAIN T = {}
    /\ DOMAIN a.byPayload \cap DOMAIN q.byPayload = {}

MessagesOK(S) ==
    \A m \in S : MessageOK(m) /\ (m.type = "NewView" => Primary(m.view) # m.to)

\* The variables are functions on the replicas.
OnReplicas ==
    /\ queue = [n \in Replica |-> queue[n]]
    /\ timeouts = [n \in Replica |-> timeouts[n]]
    /\ assigned = [n \in Replica |-> assigned[n]]
    /\ pbft = [n \in Replica |-> pbft[n]]
    /\ heard \in [Replica -> [Payload -> Nat]]

LayerInv ==
    /\ OnReplicas
    /\ \A n \in Replica : Local(n, queue[n], timeouts[n], assigned[n], pbft[n])
    /\ MessagesOK(msgs)

\* The inductive invariant gives the invariants the runs check.
LEMMA LayerInvImplies ==
    LayerInv => TypeOK /\ WaitingHasItsTimer /\ PrimaryHoldsNothing /\ AssignedNeverWaits
<1> SUFFICES ASSUME LayerInv
             PROVE  TypeOK /\ WaitingHasItsTimer /\ PrimaryHoldsNothing /\ AssignedNeverWaits
  OBVIOUS
<1>1. /\ queue \in [Replica -> Store]
      /\ timeouts \in [Replica -> MapsOver(Key, Digests)]
      /\ assigned = [n \in Replica |-> assigned[n]] /\ \A n \in Replica : AssignedOK(assigned[n])
      /\ pbft \in [Replica -> PbftState]
  BY DEF LayerInv, OnReplicas, Local
<1>2. TypeOK
  BY <1>1 DEF TypeOK, LayerInv, OnReplicas, MessagesOK
<1>3. WaitingHasItsTimer /\ PrimaryHoldsNothing /\ AssignedNeverWaits
  BY DEF LayerInv, Local, WaitingHasItsTimer, PrimaryHoldsNothing, AssignedNeverWaits
<1>4. QED
  BY <1>2, <1>3

-----------------------------------------------------------------------------
(* The operators                                                            *)

\* Primary is a function of the view alone.
LEMMA SamePrimary ==
    ASSUME NEW n, NEW pb, NEW pb2, pb2.view = pb.view
    PROVE  IsPrimary(n, pb2) <=> IsPrimary(n, pb)
BY DEF IsPrimary

\* assign adds the batch, and only the batch, to what is assigned.
LEMMA AssignAdds ==
    ASSUME NEW a, AssignedOK(a), NEW batch \in SUBSET Payload, NEW seq \in Nat
    PROVE  /\ AssignedOK(Assign(a, batch, seq))
           /\ DOMAIN Assign(a, batch, seq).byPayload = DOMAIN a.byPayload \cup batch
<1> DEFINE byP == [p \in DOMAIN a.byPayload \cup batch |-> IF p \in batch THEN seq ELSE a.byPayload[p]]
           byS == IF InSlots(a, seq)
                  THEN [s \in DOMAIN a.bySequence \cup {seq} |->
                           IF s = seq THEN batch ELSE a.bySequence[s]]
                  ELSE a.bySequence
<1>1. Assign(a, batch, seq) = [byPayload |-> byP, bySequence |-> byS, first |-> a.first]
  BY DEF Assign
<1>2. byP \in [DOMAIN a.byPayload \cup batch -> Nat] /\ DOMAIN a.byPayload \cup batch \subseteq Payload
  BY DEF AssignedOK
<1>3. byS \in [DOMAIN byS -> SUBSET Payload] /\ DOMAIN byS \subseteq Nat
  BY DEF AssignedOK
<1> HIDE DEF byP, byS
<1>4. a.first \in Nat \ {0} /\ DOMAIN byP = DOMAIN a.byPayload \cup batch
  BY <1>2 DEF AssignedOK
<1>5. QED
  BY <1>1, <1>2, <1>3, <1>4 DEF AssignedOK

\* checkpoint only takes payloads away.
LEMMA CheckpointRemoves ==
    ASSUME NEW a, AssignedOK(a), NEW low \in Nat
    PROVE  /\ AssignedOK(CheckpointAssigned(a, low))
           /\ DOMAIN CheckpointAssigned(a, low).byPayload \subseteq DOMAIN a.byPayload
<1>1. NewLow(low) + 1 \in Nat \ {0}
  BY WindowAssumption DEF NewLow
<1>2. QED
  BY <1>1 DEF CheckpointAssigned, AssignedOK, Restrict

\* The PBFT operations keep the type of PBFT's state; these keep the view too.
LEMMA ProposedType ==
    ASSUME NEW pb \in PbftState, NEW batch \in SUBSET Payload
    PROVE  Proposed(pb, batch) \in PbftState /\ Proposed(pb, batch).view = pb.view
<1> DEFINE acc == pb.accepted \cup {[view |-> pb.view, seq |-> pb.next, batch |-> batch]}
           bod == pb.bodies \cup {[seq |-> pb.next, batch |-> batch]}
<1>1. acc \in SUBSET [view : Nat, seq : Nat, batch : SUBSET Payload]
  BY DEF PbftState
<1>2. bod \in SUBSET [seq : Nat, batch : SUBSET Payload]
  BY DEF PbftState
<1>3. Proposed(pb, batch) = [pb EXCEPT !.next = pb.next + 1, !.accepted = acc, !.bodies = bod]
  BY DEF Proposed
<1>4. pb.next + 1 \in Nat
  BY DEF PbftState
<1> HIDE DEF acc, bod
<1>5. Proposed(pb, batch) =
        [view |-> pb.view, target |-> pb.target, low |-> pb.low, next |-> pb.next + 1,
         executed |-> pb.executed, accepted |-> acc, bodies |-> bod, known |-> pb.known,
         votes |-> pb.votes, reorder |-> pb.reorder]
  BY <1>3 DEF PbftState
<1>6. QED
  BY <1>1, <1>2, <1>4, <1>5 DEF PbftState

LEMMA AwaitedType ==
    ASSUME NEW pb \in PbftState, NEW batch \in SUBSET Payload
    PROVE  Awaited(pb, batch) \in PbftState /\ Awaited(pb, batch).view = pb.view
BY DEF PbftState, Awaited

\* A proposal is announced in well-formed messages.
LEMMA ProposalMsgsOK ==
    ASSUME NEW n \in Replica, NEW pb \in PbftState, NEW batch \in SUBSET Payload
    PROVE  MessagesOK(ProposalMsgs(n, pb, batch))
BY DEF MessagesOK, MessageOK, ProposalMsgs, PbftState

\* What an accepted message leaves of PBFT's state.
LEMMA AcceptedType ==
    ASSUME NEW pb \in PbftState, NEW m, m.view \in Nat, m.seq \in Nat, m.batch \in SUBSET Payload
    PROVE  PrePrepared(pb, m) \in PbftState /\ PrePrepared(pb, m).view = pb.view
<1> DEFINE acc == pb.accepted \cup {[view |-> m.view, seq |-> m.seq, batch |-> m.batch]}
<1>1. acc \in SUBSET [view : Nat, seq : Nat, batch : SUBSET Payload]
  BY DEF PbftState
<1>2. PrePrepared(pb, m) = [pb EXCEPT !.accepted = acc] \/ PrePrepared(pb, m) = pb
  BY DEF PrePrepared
<1> HIDE DEF acc
<1>3. QED
  BY <1>1, <1>2 DEF PbftState

LEMMA WithBodyType ==
    ASSUME NEW pb \in PbftState, NEW m, m.seq \in Nat, m.batch \in SUBSET Payload
    PROVE  WithBody(pb, m) \in PbftState /\ WithBody(pb, m).view = pb.view
<1> DEFINE bod == pb.bodies \cup {[seq |-> m.seq, batch |-> m.batch]}
<1>1. bod \in SUBSET [seq : Nat, batch : SUBSET Payload]
  BY DEF PbftState
<1>2. WithBody(pb, m) = [pb EXCEPT !.bodies = bod]
  BY DEF WithBody
<1> HIDE DEF bod
<1>3. QED
  BY <1>1, <1>2 DEF PbftState

LEMMA ExecutedType ==
    ASSUME NEW pb \in PbftState, NEW a \in pb.accepted
    PROVE  Executed(pb, a) \in PbftState /\ Executed(pb, a).view = pb.view
<1>1. a.seq \in Nat
  BY DEF PbftState
<1>2. QED
  BY <1>1 DEF Executed, PbftState

LEMMA CheckpointAtType ==
    ASSUME NEW pb \in PbftState, NEW c \in Nat
    PROVE  /\ CheckpointAt(pb, c) \in PbftState /\ CheckpointAt(pb, c).view = pb.view
           /\ CheckpointAt(pb, c).low = c
<1> DEFINE ex == IF pb.executed < c THEN c ELSE pb.executed
           nx == IF pb.next =< c THEN c + 1 ELSE pb.next
<1>1. ex \in Nat /\ nx \in Nat
  BY DEF PbftState
<1>2. CheckpointAt(pb, c) = [pb EXCEPT !.low = c, !.executed = ex, !.next = nx]
  BY DEF CheckpointAt, PbftState
<1> HIDE DEF ex, nx
<1>3. CheckpointAt(pb, c) =
        [view |-> pb.view, target |-> pb.target, low |-> c, next |-> nx,
         executed |-> ex, accepted |-> pb.accepted, bodies |-> pb.bodies, known |-> pb.known,
         votes |-> pb.votes, reorder |-> pb.reorder]
  BY <1>2 DEF PbftState
<1>4. QED
  BY <1>1, <1>3 DEF PbftState

\* A carry hands over batches for sequence numbers.
CarryOK(carry) == DOMAIN carry \subseteq Nat /\ \A s \in DOMAIN carry : carry[s] \in SUBSET Payload

LEMMA EntersViewType ==
    ASSUME NEW pb \in PbftState, NEW view \in Nat, NEW carry, CarryOK(carry)
    PROVE  EntersView(pb, view, carry) \in PbftState /\ EntersView(pb, view, carry).view = view
<1> DEFINE acc == pb.accepted \cup {[view |-> view, seq |-> s, batch |-> carry[s]] : s \in DOMAIN carry}
           tg == IF pb.target < view THEN view ELSE pb.target
<1>1. acc \in SUBSET [view : Nat, seq : Nat, batch : SUBSET Payload]
  BY DEF PbftState, CarryOK
<1>2. tg \in Nat
  BY DEF PbftState
<1>3. EntersView(pb, view, carry) = [pb EXCEPT !.view = view, !.target = tg, !.accepted = acc]
  BY DEF EntersView, PbftState
<1> HIDE DEF acc, tg
<1>4. EntersView(pb, view, carry) =
        [view |-> view, target |-> tg, low |-> pb.low, next |-> pb.next,
         executed |-> pb.executed, accepted |-> acc, bodies |-> pb.bodies, known |-> pb.known,
         votes |-> pb.votes, reorder |-> pb.reorder]
  BY <1>3 DEF PbftState
<1>5. QED
  BY <1>1, <1>2, <1>4 DEF PbftState

\* The state of a new primary.
LEMMA BecomesPrimaryType ==
    ASSUME NEW pb \in PbftState, NEW view, view \in Nat, NEW last, last \in Nat,
           NEW carry, CarryOK(carry)
    PROVE  /\ BecomesPrimary(pb, view, carry, last) \in PbftState
           /\ BecomesPrimary(pb, view, carry, last).view = view
<1> DEFINE ev == EntersView(pb, view, carry)
           own == {<<{}, p>> : p \in
                     (pb.known \cup UNION {b.batch : b \in {b \in pb.bodies : b.seq > pb.executed}})
                        \ UNION {carry[s] : s \in DOMAIN carry}}
<1>1. ev \in PbftState /\ ev.view = view
  BY EntersViewType
<1>2. own \in SUBSET ((SUBSET Key) \X Payload)
  BY DEF PbftState
<1>3. BecomesPrimary(pb, view, carry, last) = [ev EXCEPT !.next = last + 1, !.reorder = own]
  BY DEF BecomesPrimary
<1> HIDE DEF ev, own
<1>4. BecomesPrimary(pb, view, carry, last) =
        [view |-> view, target |-> ev.target, low |-> ev.low, next |-> last + 1,
         executed |-> ev.executed, accepted |-> ev.accepted, bodies |-> ev.bodies,
         known |-> ev.known, votes |-> ev.votes, reorder |-> own]
  BY <1>1, <1>3 DEF PbftState
<1>5. BecomesPrimary(pb, view, carry, last) \in PbftState
  BY <1>1, <1>2, <1>4 DEF PbftState
<1>6. QED
  BY <1>4, <1>5 DEF PbftState

LEMMA ReorderType ==
    ASSUME NEW pb \in PbftState, NEW more \in SUBSET ((SUBSET Key) \X Payload)
    PROVE  LET pb2 == [pb EXCEPT !.reorder = @ \cup more]
           IN  pb2 \in PbftState /\ pb2.view = pb.view
<1> DEFINE rs == pb.reorder \cup more
<1>1. rs \in SUBSET ((SUBSET Key) \X Payload)
  BY DEF PbftState
<1> HIDE DEF rs
<1>2. [pb EXCEPT !.reorder = rs] \in PbftState /\ [pb EXCEPT !.reorder = rs].view = pb.view
  BY <1>1 DEF PbftState
<1>3. QED
  BY <1>2 DEF rs

-----------------------------------------------------------------------------
(* One replica's step                                                       *)

\* A step that leaves the other replicas alone preserves the invariant if it
\* does so at its own replica and sends well-formed messages.
LEMMA LocalStep ==
    ASSUME LayerInv, NEW n \in Replica, NEW q, NEW T, NEW a, NEW pb,
           queue' = [queue EXCEPT ![n] = q],
           timeouts' = [timeouts EXCEPT ![n] = T],
           assigned' = [assigned EXCEPT ![n] = a],
           pbft' = [pbft EXCEPT ![n] = pb],
           Local(n, q, T, a, pb),
           MessagesOK(msgs'),
           heard' \in [Replica -> [Payload -> Nat]]
    PROVE  LayerInv'
<1>1. OnReplicas'
  BY DEF LayerInv, OnReplicas
<1>2. ASSUME NEW m \in Replica
      PROVE  Local(m, queue'[m], timeouts'[m], assigned'[m], pbft'[m])
  <2>1. CASE m = n
    BY <2>1 DEF LayerInv, OnReplicas
  <2>2. CASE m # n
    <3>1. /\ queue'[m] = queue[m] /\ timeouts'[m] = timeouts[m]
          /\ assigned'[m] = assigned[m] /\ pbft'[m] = pbft[m]
      BY <2>2 DEF LayerInv, OnReplicas
    <3>2. QED
      BY <3>1 DEF LayerInv
  <2>3. QED
    BY <2>1, <2>2
<1>3. QED
  BY <1>1, <1>2 DEF LayerInv

\* An unchanged variable is its own update.
LEMMA SameAt ==
    ASSUME OnReplicas, NEW n \in Replica
    PROVE  /\ queue = [queue EXCEPT ![n] = queue[n]]
           /\ timeouts = [timeouts EXCEPT ![n] = timeouts[n]]
           /\ assigned = [assigned EXCEPT ![n] = assigned[n]]
           /\ pbft = [pbft EXCEPT ![n] = pbft[n]]
BY DEF OnReplicas

\* A primary's store is empty, its indexes included.
LEMMA PrimaryEmpty ==
    ASSUME NEW n, NEW q, NEW T, NEW a, NEW pb, Local(n, q, T, a, pb), IsPrimary(n, pb)
    PROVE  DOMAIN q.byPayload = {}
BY DEF Local, Timed, WaitsWithTimer

LEMMA HandleNewProposalStep ==
    ASSUME LayerInv, NEW n \in Replica, NEW pb \in PbftState, pb.view = pbft[n].view,
           NEW p \in Payload, HandleNewProposal(n, pb, p),
           heard' \in [Replica -> [Payload -> Nat]]
    PROVE  LayerInv'
<1>1. Local(n, queue[n], timeouts[n], assigned[n], pbft[n]) /\ MessagesOK(msgs) /\ OnReplicas
  BY DEF LayerInv
<1>2. /\ queue = [queue EXCEPT ![n] = queue[n]]
      /\ timeouts = [timeouts EXCEPT ![n] = timeouts[n]]
      /\ assigned = [assigned EXCEPT ![n] = assigned[n]]
  BY <1>1, SameAt
<1>3. IsPrimary(n, pb) <=> IsPrimary(n, pbft[n])
  BY SamePrimary
<1>4. Local(n, queue[n], timeouts[n], assigned[n], pb)
  BY <1>1, <1>3 DEF Local
<1>5. CASE /\ IsPrimary(n, pb)
           /\ ProposeAndAssign(n, pb, FilterProposal(n, {p}), msgs)
           /\ UNCHANGED <<queue, timeouts>>
  <2> DEFINE batch == FilterProposal(n, {p})
             pb2 == Proposed(pb, batch)
             a2 == Assign(assigned[n], batch, pb.next)
  <2>1. batch \in SUBSET Payload /\ pb.next \in Nat
    BY DEF FilterProposal, PbftState
  <2>2. pb2 \in PbftState /\ pb2.view = pb.view
    BY <2>1, ProposedType
  <2>3. AssignedOK(a2)
    BY <1>4, <2>1, AssignAdds DEF Local
  <2>4. IsPrimary(n, pb2) <=> IsPrimary(n, pb)
    BY <2>2, SamePrimary
  <2>5. DOMAIN queue[n].byPayload = {}
    BY <1>4, <1>5, PrimaryEmpty
  <2>6. /\ pbft' = [pbft EXCEPT ![n] = pb2]
        /\ assigned' = [assigned EXCEPT ![n] = a2]
        /\ msgs' = msgs \cup ProposalMsgs(n, pb, batch)
    BY <1>5 DEF ProposeAndAssign
  <2> HIDE DEF batch, pb2, a2
  <2>7. Local(n, queue[n], timeouts[n], a2, pb2)
    BY <1>4, <2>2, <2>3, <2>4, <2>5 DEF Local
  <2>8. MessagesOK(ProposalMsgs(n, pb, batch))
    BY <2>1, ProposalMsgsOK
  <2>9. MessagesOK(msgs')
    BY <1>1, <2>6, <2>8 DEF MessagesOK
  <2>10. queue' = [queue EXCEPT ![n] = queue[n]] /\ timeouts' = [timeouts EXCEPT ![n] = timeouts[n]]
    BY <1>2, <1>5
  <2>11. QED
    BY <2>6, <2>7, <2>9, <2>10, LocalStep
<1>6. CASE /\ ~IsPrimary(n, pb)
           /\ ~IsAssigned(assigned[n], p)
           /\ WaitForAssign(n, p)
           /\ pbft' = [pbft EXCEPT ![n] = pb]
           /\ UNCHANGED <<assigned, msgs>>
  <2> DEFINE t == FreeTimer(n)
             q2 == InsertWithDigest(queue[n], p, Digest(p), t)
             T2 == Put(timeouts[n], t, Digest(p))
  <2>1. t \in Key /\ t \notin DOMAIN timeouts[n]
    BY <1>6 DEF WaitForAssign, HasRoom, FreeTimer
  <2>2. \E k \in Key : k \notin KeysInUse(queue[n])
    BY <1>6 DEF WaitForAssign, HasRoom
  <2>3. queue' = [queue EXCEPT ![n] = q2] /\ timeouts' = [timeouts EXCEPT ![n] = T2]
    BY <1>6 DEF WaitForAssign
  <2>4. /\ q2 \in Store /\ T2 \in MapsOver(Key, Digests) /\ Timed(q2, T2)
        /\ DOMAIN q2.byPayload = DOMAIN queue[n].byPayload \cup {p}
    BY <1>4, <2>1, <2>2, InsertTimed DEF Local
  <2> HIDE DEF q2, T2, t
  <2>5. Local(n, q2, T2, assigned[n], pb)
    BY <1>4, <1>6, <2>4 DEF Local, IsAssigned
  <2>6. assigned' = [assigned EXCEPT ![n] = assigned[n]] /\ MessagesOK(msgs')
    BY <1>1, <1>2, <1>6
  <2>7. QED
    BY <1>6, <2>3, <2>5, <2>6, LocalStep
<1>7. CASE pbft' = [pbft EXCEPT ![n] = pb] /\ UNCHANGED <<queue, timeouts, assigned, msgs>>
  BY <1>1, <1>2, <1>4, <1>7, LocalStep
<1>8. QED
  BY <1>5, <1>6, <1>7 DEF HandleNewProposal

LEMMA OnRequestStep ==
    ASSUME LayerInv, NEW n \in Replica, NEW p \in Payload, OnRequest(n, p)
    PROVE  LayerInv'
<1>1. pbft[n] \in PbftState
  BY DEF LayerInv, Local
<1>2. heard' \in [Replica -> [Payload -> Nat]]
  BY DEF LayerInv, OnReplicas, OnRequest
<1>3. HandleNewProposal(n, pbft[n], p)
  BY DEF OnRequest
<1>4. QED
  BY <1>1, <1>2, <1>3, HandleNewProposalStep

LEMMA OnReorderStep ==
    ASSUME LayerInv, NEW n \in Replica, NEW r \in pbft[n].reorder, OnReorder(n, r)
    PROVE  LayerInv'
<1> DEFINE pb == [pbft[n] EXCEPT !.reorder = @ \ {r}]
<1>1. pbft[n] \in PbftState
  BY DEF LayerInv, Local
<1>2. pb \in PbftState /\ pb.view = pbft[n].view
  BY <1>1 DEF PbftState
<1>3. r[2] \in Payload
  BY <1>1 DEF PbftState
<1>4. heard' \in [Replica -> [Payload -> Nat]]
  BY DEF LayerInv, OnReplicas, OnReorder
<1>5. HandleNewProposal(n, pb, r[2])
  BY DEF OnReorder
<1> HIDE DEF pb
<1>6. QED
  BY <1>2, <1>3, <1>4, <1>5, HandleNewProposalStep

\* A soft timer fires on a backup only, or finds nothing.
LEMMA OnSoftTimeoutStep ==
    ASSUME LayerInv, NEW n \in Replica, NEW t \in Key, OnSoftTimeout(n, t)
    PROVE  LayerInv'
<1> DEFINE d == timeouts[n][t]
           p == EntryByDigest(queue[n], d).proposal
           q2 == RemoveByDigest(queue[n], d)
           T2 == Drop(timeouts[n], {t})
<1>1. Local(n, queue[n], timeouts[n], assigned[n], pbft[n]) /\ MessagesOK(msgs) /\ OnReplicas
  BY DEF LayerInv
<1>2. /\ assigned = [assigned EXCEPT ![n] = assigned[n]]
      /\ pbft = [pbft EXCEPT ![n] = pbft[n]]
  BY <1>1, SameAt
<1>3. t \in DOMAIN timeouts[n]
  BY DEF OnSoftTimeout
<1>4. /\ queue' = [queue EXCEPT ![n] = q2]
      /\ timeouts' = [timeouts EXCEPT ![n] = T2]
      /\ assigned' = [assigned EXCEPT ![n] = assigned[n]]
      /\ heard' \in [Replica -> [Payload -> Nat]]
  BY <1>1, <1>2 DEF OnSoftTimeout, OnReplicas
<1>5. ~IsPrimary(n, pbft[n])
  BY <1>1, <1>3 DEF Local
<1>6. /\ q2 \in Store /\ T2 \in MapsOver(Key, Digests)
      /\ DOMAIN q2.byPayload \subseteq DOMAIN queue[n].byPayload
      /\ FoundByDigest(queue[n], d) => p \in DOMAIN queue[n].byPayload
      /\ Timed(q2, T2)
  <2>1. /\ queue[n] \in Store /\ timeouts[n] \in MapsOver(Key, Digests)
        /\ Timed(queue[n], timeouts[n])
    BY <1>1 DEF Local
  <2>2. q2 = RemoveByDigest(queue[n], timeouts[n][t]) /\ T2 = Drop(timeouts[n], {t})
    OBVIOUS
  <2> HIDE DEF q2, T2
  <2>3. QED
    BY <1>3, <2>1, <2>2, ExpireTimed
<1>7. ASSUME NEW pb \in PbftState, pb.view = pbft[n].view
      PROVE  Local(n, q2, T2, assigned[n], pb)
  <2>1. ~IsPrimary(n, pb)
    BY <1>5, <1>7, SamePrimary
  <2> HIDE DEF q2, T2
  <2>2. QED
    BY <1>1, <1>6, <1>7, <2>1 DEF Local
<1>8. CASE FoundByDigest(queue[n], d)
  <2>1. p \in Payload
    <3>1. queue[n].byPayload \in MapsOver(Payload, Key)
      BY <1>1 DEF Local, Store
    <3>2. p \in DOMAIN queue[n].byPayload
      BY <1>6, <1>8
    <3> HIDE DEF p
    <3>3. QED
      BY <3>1, <3>2, MapsOverDef
  <2>2. /\ pbft' = [pbft EXCEPT ![n] = Awaited(pbft[n], {p})]
        /\ msgs' = msgs \cup ForwardToAll(n, {p})
    BY <1>1, <1>5, <1>8 DEF OnSoftTimeout, OnReplicas
  <2>3. Awaited(pbft[n], {p}) \in PbftState /\ Awaited(pbft[n], {p}).view = pbft[n].view
    BY <1>1, <2>1, AwaitedType DEF Local
  <2>4. Local(n, q2, T2, assigned[n], Awaited(pbft[n], {p}))
    BY <1>7, <2>3
  <2>5. MessagesOK(msgs')
    BY <1>1, <2>1, <2>2 DEF MessagesOK, MessageOK, ForwardToAll
  <2>6. QED
    BY <1>4, <2>2, <2>4, <2>5, LocalStep
<1>9. CASE ~FoundByDigest(queue[n], d)
  <2>1. pbft' = [pbft EXCEPT ![n] = pbft[n]] /\ msgs' = msgs
    BY <1>2, <1>9 DEF OnSoftTimeout
  <2>2. Local(n, q2, T2, assigned[n], pbft[n])
    BY <1>1, <1>7 DEF Local
  <2>3. QED
    BY <1>1, <1>4, <2>1, <2>2, LocalStep
<1>10. QED
  BY <1>8, <1>9

-----------------------------------------------------------------------------
(* Messages                                                                 *)

\* The end of `message`: the pruning keeps what Local says of assignments.
LEMMA AfterMessageOK ==
    ASSUME NEW n, NEW q, NEW T, NEW a, NEW pb, Local(n, q, T, a, pb),
           NEW pb2 \in PbftState
    PROVE  Local(n, q, T, AfterMessage(a, pb2), pb)
<1>1. pb2.low \in Nat
  BY DEF PbftState
<1>2. /\ AssignedOK(AfterMessage(a, pb2))
      /\ DOMAIN AfterMessage(a, pb2).byPayload \subseteq DOMAIN a.byPayload
  BY <1>1, CheckpointRemoves DEF AfterMessage, Local
<1>3. QED
  BY <1>2 DEF Local

\* A change of PBFT's state that keeps the view keeps what Local says.
LEMMA SameViewOK ==
    ASSUME NEW n, NEW q, NEW T, NEW a, NEW pb, Local(n, q, T, a, pb),
           NEW pb2 \in PbftState, pb2.view = pb.view
    PROVE  Local(n, q, T, a, pb2)
BY SamePrimary DEF Local

\* A message handler that only changes PBFT's state, in the same view.
LEMMA PbftOnlyStep ==
    ASSUME LayerInv, NEW n \in Replica, NEW pb2 \in PbftState, pb2.view = pbft[n].view,
           NEW pb3 \in PbftState,
           pbft' = [pbft EXCEPT ![n] = pb2],
           assigned' = [assigned EXCEPT ![n] = AfterMessage(assigned[n], pb3)],
           UNCHANGED <<queue, timeouts, heard>>,
           MessagesOK(msgs')
    PROVE  LayerInv'
<1>1. Local(n, queue[n], timeouts[n], assigned[n], pbft[n]) /\ OnReplicas
  BY DEF LayerInv
<1>2. Local(n, queue[n], timeouts[n], AfterMessage(assigned[n], pb3), pbft[n])
  BY <1>1, AfterMessageOK
<1>3. Local(n, queue[n], timeouts[n], AfterMessage(assigned[n], pb3), pb2)
  BY <1>2, SameViewOK
<1>4. queue' = [queue EXCEPT ![n] = queue[n]] /\ timeouts' = [timeouts EXCEPT ![n] = timeouts[n]]
  BY <1>1, SameAt
<1>5. heard' \in [Replica -> [Payload -> Nat]]
  BY <1>1 DEF OnReplicas
<1>6. QED
  BY <1>3, <1>4, <1>5, LocalStep

LEMMA OnForwardStep ==
    ASSUME LayerInv, NEW n \in Replica, NEW m \in msgs, OnForward(n, m)
    PROVE  LayerInv'
<1> DEFINE pb == pbft[n]
           fresh == FilterProposal(n, m.batch)
           rest == msgs \ {m}
<1>1. Local(n, queue[n], timeouts[n], assigned[n], pb) /\ MessagesOK(msgs) /\ OnReplicas
  BY DEF LayerInv
<1>2. m.type = "Forward" /\ m.batch \in SUBSET Payload /\ pb \in PbftState
  BY <1>1 DEF OnForward, MessagesOK, MessageOK, Local
<1>3. fresh \in SUBSET Payload /\ pb.next \in Nat /\ pb.view \in Nat
  BY <1>2 DEF FilterProposal, PbftState
<1>4. MessagesOK(rest)
  BY <1>1 DEF MessagesOK
<1>5. UNCHANGED <<queue, timeouts, heard>>
  BY DEF OnForward
<1>6. CASE /\ IsPrimary(n, pb)
           /\ pbft' = [pbft EXCEPT ![n] = Proposed(pb, fresh)]
           /\ msgs' = rest \cup ProposalMsgs(n, pb, fresh)
           /\ assigned' = [assigned EXCEPT ![n] = AfterMessage(Assign(assigned[n], fresh, pb.next), pb)]
  <2> DEFINE a2 == Assign(assigned[n], fresh, pb.next)
  <2>1. Proposed(pb, fresh) \in PbftState /\ Proposed(pb, fresh).view = pb.view
    BY <1>2, <1>3, ProposedType
  <2>2. AssignedOK(a2)
    BY <1>1, <1>3, AssignAdds DEF Local
  <2>3. DOMAIN queue[n].byPayload = {}
    BY <1>1, <1>6, PrimaryEmpty
  <2> HIDE DEF a2, fresh
  <2>4. Local(n, queue[n], timeouts[n], a2, pb)
    BY <1>1, <2>2, <2>3 DEF Local
  <2>5. Local(n, queue[n], timeouts[n], AfterMessage(a2, pb), Proposed(pb, fresh))
    BY <1>2, <2>1, <2>4, AfterMessageOK, SameViewOK
  <2>6. MessagesOK(ProposalMsgs(n, pb, fresh))
    BY <1>2, <1>3, ProposalMsgsOK
  <2>7. MessagesOK(msgs')
    BY <1>4, <1>6, <2>6 DEF MessagesOK
  <2>8. /\ queue' = [queue EXCEPT ![n] = queue[n]]
        /\ timeouts' = [timeouts EXCEPT ![n] = timeouts[n]]
        /\ heard' \in [Replica -> [Payload -> Nat]]
    BY <1>1, <1>5, SameAt DEF OnReplicas
  <2>9. assigned' = [assigned EXCEPT ![n] = AfterMessage(a2, pb)]
    BY <1>6 DEF a2
  <2>10. QED
    BY <1>6, <2>5, <2>7, <2>8, <2>9, LocalStep
<1>7. CASE /\ pbft' = [pbft EXCEPT ![n] = Awaited(pb, fresh)]
           /\ msgs' = rest \cup {[type |-> "Forward", from |-> n,
                                  to |-> Primary(pb.view), batch |-> fresh]}
           /\ assigned' = [assigned EXCEPT ![n] = AfterMessage(assigned[n], pb)]
  <2>1. Awaited(pb, fresh) \in PbftState /\ Awaited(pb, fresh).view = pb.view
    BY <1>2, <1>3, AwaitedType
  <2>2. Primary(pb.view) \in Replica
    BY <1>3, PbftAssumption DEF Primary, Replica
  <2> HIDE DEF fresh, rest
  <2>3. MessagesOK(msgs')
    BY <1>3, <1>4, <1>7, <2>2 DEF MessagesOK, MessageOK
  <2>4. QED
    BY <1>2, <1>5, <1>7, <2>1, <2>3, PbftOnlyStep
<1>8. CASE /\ msgs' = rest
           /\ assigned' = [assigned EXCEPT ![n] = AfterMessage(assigned[n], pb)]
           /\ UNCHANGED pbft
  <2>1. pbft' = [pbft EXCEPT ![n] = pb]
    BY <1>1, <1>8, SameAt
  <2>2. QED
    BY <1>2, <1>4, <1>5, <1>8, <2>1, PbftOnlyStep
<1>9. QED
  BY <1>6, <1>7, <1>8 DEF OnForward

LEMMA OnAssignStep ==
    ASSUME LayerInv, NEW n \in Replica, NEW m \in msgs, OnAssign(n, m)
    PROVE  LayerInv'
<1>1. Local(n, queue[n], timeouts[n], assigned[n], pbft[n]) /\ MessagesOK(msgs) /\ OnReplicas
  BY DEF LayerInv
<1>2. m.type = "Assign" /\ m.batch \in SUBSET Payload /\ m.seq \in Nat
  BY <1>1 DEF OnAssign, MessagesOK, MessageOK
<1>3. MessagesOK(msgs') /\ heard' \in [Replica -> [Payload -> Nat]]
  BY <1>1 DEF MessagesOK, OnAssign, OnReplicas
<1> DEFINE q2 == RemoveByPayload(queue[n], m.batch)
           T2 == Drop(timeouts[n], {queue[n].requests[k].timeout : k \in FoundByPayload(queue[n], m.batch)})
           a2 == Assign(assigned[n], m.batch, m.seq)
           pb2 == WithBody(pbft[n], m)
<1>4. CASE /\ queue' = [queue EXCEPT ![n] = q2]
           /\ timeouts' = [timeouts EXCEPT ![n] = T2]
           /\ pbft' = [pbft EXCEPT ![n] = pb2]
           /\ assigned' = [assigned EXCEPT ![n] = AfterMessage(a2, pbft[n])]
  <2>1. /\ q2 \in Store /\ T2 \in MapsOver(Key, Digests)
        /\ DOMAIN q2.byPayload = DOMAIN queue[n].byPayload \ m.batch
        /\ DOMAIN q2.requests \subseteq DOMAIN queue[n].requests /\ DOMAIN T2 \subseteq DOMAIN timeouts[n]
        /\ Timed(q2, T2)
    BY <1>1, <1>2, RemoveTimed DEF Local
  <2>2. AssignedOK(a2) /\ DOMAIN a2.byPayload = DOMAIN assigned[n].byPayload \cup m.batch
    BY <1>1, <1>2, AssignAdds DEF Local
  <2>3. pb2 \in PbftState /\ pb2.view = pbft[n].view /\ pbft[n] \in PbftState
    BY <1>1, <1>2, WithBodyType DEF Local
  <2> HIDE DEF q2, T2, a2, pb2
  <2>4. Local(n, q2, T2, a2, pbft[n])
    BY <1>1, <2>1, <2>2 DEF Local
  <2>5. Local(n, q2, T2, AfterMessage(a2, pbft[n]), pb2)
    BY <2>3, <2>4, AfterMessageOK, SameViewOK
  <2>6. QED
    BY <1>3, <1>4, <2>5, LocalStep
<1>5. CASE UNCHANGED <<queue, timeouts, pbft, assigned>>
  BY <1>1, <1>3, <1>5, SameAt, LocalStep
<1>6. QED
  BY <1>4, <1>5 DEF OnAssign

LEMMA OnPrePrepareStep ==
    ASSUME LayerInv, NEW n \in Replica, NEW m \in msgs, OnPrePrepare(n, m)
    PROVE  LayerInv'
<1>1. pbft[n] \in PbftState /\ MessagesOK(msgs)
  BY DEF LayerInv, Local
<1>2. m.view \in Nat /\ m.seq \in Nat /\ m.batch \in SUBSET Payload
  BY <1>1 DEF OnPrePrepare, MessagesOK, MessageOK
<1>3. PrePrepared(pbft[n], m) \in PbftState /\ PrePrepared(pbft[n], m).view = pbft[n].view
  BY <1>1, <1>2, AcceptedType
<1>4. /\ pbft' = [pbft EXCEPT ![n] = PrePrepared(pbft[n], m)]
      /\ assigned' = [assigned EXCEPT ![n] = AfterMessage(assigned[n], pbft[n])]
      /\ UNCHANGED <<queue, timeouts, heard>>
      /\ msgs' = msgs \ {m}
  BY DEF OnPrePrepare
<1>5. MessagesOK(msgs')
  BY <1>1, <1>4 DEF MessagesOK
<1>6. QED
  BY <1>1, <1>3, <1>4, <1>5, PbftOnlyStep

LEMMA OnCommitStep ==
    ASSUME LayerInv, NEW n \in Replica, OnCommit(n)
    PROVE  LayerInv'
<1>1. pbft[n] \in PbftState /\ MessagesOK(msgs)
  BY DEF LayerInv, Local
<1>2. PICK a \in pbft[n].accepted : pbft' = [pbft EXCEPT ![n] = Executed(pbft[n], a)]
  BY DEF OnCommit
<1>3. Executed(pbft[n], a) \in PbftState /\ Executed(pbft[n], a).view = pbft[n].view
  BY <1>1, ExecutedType
<1>4. /\ assigned' = [assigned EXCEPT ![n] = AfterMessage(assigned[n], pbft[n])]
      /\ UNCHANGED <<queue, timeouts, heard, msgs>>
  BY DEF OnCommit
<1>5. QED
  BY <1>1, <1>2, <1>3, <1>4, PbftOnlyStep

LEMMA OnCheckpointStep ==
    ASSUME LayerInv, NEW n \in Replica, NEW c \in Nat, OnCheckpoint(n, c)
    PROVE  LayerInv'
<1>1. pbft[n] \in PbftState /\ MessagesOK(msgs)
  BY DEF LayerInv, Local
<1>2. CheckpointAt(pbft[n], c) \in PbftState /\ CheckpointAt(pbft[n], c).view = pbft[n].view
  BY <1>1, CheckpointAtType
<1>3. /\ pbft' = [pbft EXCEPT ![n] = CheckpointAt(pbft[n], c)]
      /\ assigned' = [assigned EXCEPT ![n] = AfterMessage(assigned[n], CheckpointAt(pbft[n], c))]
      /\ UNCHANGED <<queue, timeouts, heard, msgs>>
  BY DEF OnCheckpoint
<1>4. QED
  BY <1>1, <1>2, <1>3, PbftOnlyStep

-----------------------------------------------------------------------------
(* View changes                                                             *)

LEMMA OnPbftTimeoutStep ==
    ASSUME LayerInv, NEW n \in Replica, OnPbftTimeout(n)
    PROVE  LayerInv'
<1> DEFINE view == pbft[n].view + 1
           pb2 == VotesForNextView(n, pbft[n])
           votes == {[type |-> "ViewChange", from |-> n, to |-> m, view |-> view] :
                     m \in {Primary(view)} \ {n}}
<1>1. Local(n, queue[n], timeouts[n], assigned[n], pbft[n]) /\ MessagesOK(msgs) /\ OnReplicas
  BY DEF LayerInv
<1>2. pbft[n] \in PbftState /\ view \in Nat
  BY <1>1 DEF Local, PbftState
<1>3. pb2 \in PbftState /\ pb2.view = pbft[n].view
  <2> DEFINE vs == pbft[n].votes \cup {[from |-> n, view |-> view]}
  <2>1. vs \in SUBSET [from : Replica, view : Nat]
    BY <1>2 DEF PbftState
  <2>2. pb2 = [pbft[n] EXCEPT !.target = view, !.votes = vs]
    BY DEF VotesForNextView
  <2> HIDE DEF vs, view, pb2
  <2>3. QED
    BY <1>2, <2>1, <2>2 DEF PbftState
<1>4. Primary(view) \in Replica
  BY <1>2, PbftAssumption DEF Primary, Replica
<1>5. /\ pbft' = [pbft EXCEPT ![n] = pb2]
      /\ msgs' = msgs \cup votes
      /\ UNCHANGED <<queue, timeouts, assigned, heard>>
  BY DEF OnPbftTimeout
<1> HIDE DEF view, pb2
<1>6. MessagesOK(votes)
  BY <1>2, <1>4 DEF MessagesOK, MessageOK
<1>7. MessagesOK(msgs')
  BY <1>1, <1>5, <1>6 DEF MessagesOK
<1>8. Local(n, queue[n], timeouts[n], assigned[n], pb2)
  BY <1>1, <1>3, SameViewOK
<1>9. /\ queue' = [queue EXCEPT ![n] = queue[n]]
      /\ timeouts' = [timeouts EXCEPT ![n] = timeouts[n]]
      /\ assigned' = [assigned EXCEPT ![n] = assigned[n]]
      /\ heard' \in [Replica -> [Payload -> Nat]]
  BY <1>1, <1>5, SameAt DEF OnReplicas
<1>10. QED
  BY <1>5, <1>7, <1>8, <1>9, LocalStep

\* What may be carried over is well formed.
LEMMA CarriesOK ==
    ASSUME LayerInv, NEW low \in Nat, NEW last \in Nat, NEW carry \in Carries(pbft, low, last)
    PROVE  CarryOK(carry)
<1>1. DOMAIN carry = low + 1 .. last
  BY DEF Carries
<1>2. ASSUME NEW s \in low + 1 .. last
      PROVE  carry[s] \in SUBSET Payload
  <2>1. carry[s] \in Candidates(pbft, s)
    BY <1>2 DEF Carries
  <2>2. ASSUME NEW m \in Replica, NEW a \in pbft[m].accepted
        PROVE  a.batch \in SUBSET Payload
    BY DEF LayerInv, Local, PbftState
  <2>3. QED
    BY <2>1, <2>2 DEF Candidates
<1>3. QED
  BY <1>1, <1>2 DEF CarryOK

\* The replica that enters a view as its primary has drained its store; a
\* vote that does not complete a quorum changes nothing but the votes.
LEMMA OnViewChangeStep ==
    ASSUME LayerInv, NEW n \in Replica, NEW m \in msgs, OnViewChange(n, m)
    PROVE  LayerInv'
<1> DEFINE pb == [pbft[n] EXCEPT !.votes = @ \cup {[from |-> m.from, view |-> m.view]}]
           q2 == Drain(queue[n])
           a2 == AfterMessage(assigned[n], pbft[n])
<1>1. Local(n, queue[n], timeouts[n], assigned[n], pbft[n]) /\ MessagesOK(msgs) /\ OnReplicas
  BY DEF LayerInv
<1>2. m.view \in Nat /\ m.from \in Replica /\ pbft[n] \in PbftState
  BY <1>1 DEF OnViewChange, MessagesOK, MessageOK, Local
<1>3. pb \in PbftState /\ pb.view = pbft[n].view
  <2> DEFINE vs == pbft[n].votes \cup {[from |-> m.from, view |-> m.view]}
  <2>1. vs \in SUBSET [from : Replica, view : Nat]
    BY <1>2 DEF PbftState
  <2> HIDE DEF vs
  <2>2. [pbft[n] EXCEPT !.votes = vs] \in PbftState /\ [pbft[n] EXCEPT !.votes = vs].view = pbft[n].view
    BY <1>2, <2>1 DEF PbftState
  <2>3. QED
    BY <2>2 DEF vs
<1>4. assigned' = [assigned EXCEPT ![n] = a2] /\ heard' = heard
  BY DEF OnViewChange
<1>5. Local(n, queue[n], timeouts[n], a2, pbft[n])
  BY <1>1, <1>2, AfterMessageOK
<1> HIDE DEF pb, q2, a2
<1>6. CASE /\ pbft' = [pbft EXCEPT ![n] = pb]
           /\ msgs' = msgs \ {m}
           /\ UNCHANGED <<queue, timeouts>>
  <2>1. Local(n, queue[n], timeouts[n], a2, pb)
    BY <1>3, <1>5, SameViewOK
  <2>2. MessagesOK(msgs')
    BY <1>1, <1>6 DEF MessagesOK
  <2>3. /\ queue' = [queue EXCEPT ![n] = queue[n]]
        /\ timeouts' = [timeouts EXCEPT ![n] = timeouts[n]]
        /\ heard' \in [Replica -> [Payload -> Nat]]
    BY <1>1, <1>4, <1>6, SameAt DEF OnReplicas
  <2>4. QED
    BY <1>4, <1>6, <2>1, <2>2, <2>3, LocalStep
<1>7. ASSUME Primary(m.view) = n,
             NEW last \in pb.low .. pb.low + HighMark, NEW carry \in Carries(pbft, pb.low, last),
             pbft' = [pbft EXCEPT ![n] =
                         [BecomesPrimary(pb, m.view, carry, last) EXCEPT
                            !.reorder = @ \cup Drained(queue[n])]],
             msgs' = (msgs \ {m}) \cup
                        {[type |-> "NewView", to |-> r, view |-> m.view, carry |-> carry] :
                         r \in Replica \ {n}},
             timeouts' = [timeouts EXCEPT ![n] = NoMap],
             queue' = [queue EXCEPT ![n] = q2]
      PROVE  LayerInv'
  <2> DEFINE drained == Drained(queue[n])
             pb2 == [BecomesPrimary(pb, m.view, carry, last) EXCEPT !.reorder = @ \cup drained]
             announced == {[type |-> "NewView", to |-> r, view |-> m.view, carry |-> carry] :
                           r \in Replica \ {n}}
  <2>1. pb.low \in Nat /\ last \in Nat
    BY <1>3, <1>7, WindowAssumption DEF PbftState
  <2>2. CarryOK(carry)
    BY <1>7, <2>1, CarriesOK
  <2>3. drained \in SUBSET ((SUBSET Key) \X Payload)
    <3>1. queue[n].requests \in MapsOver(Key, Entry)
      BY <1>1 DEF Local, Store
    <3>2. \A k \in DOMAIN queue[n].requests : k \in Key /\ queue[n].requests[k].proposal \in Payload
      <4> DEFINE R == queue[n].requests
      <4> HIDE DEF R
      <4>1. R \in [DOMAIN R -> Entry] /\ DOMAIN R \subseteq Key
        BY <3>1, MapsOverDef DEF R
      <4>2. \A k \in DOMAIN R : k \in Key /\ R[k].proposal \in Payload
        BY <4>1 DEF Entry
      <4>3. QED
        BY <4>2 DEF R
    <3>3. QED
      BY <3>2 DEF Drained
  <2> HIDE DEF drained
  <2>4. pb2 \in PbftState /\ pb2.view = m.view
    <3> DEFINE bp == BecomesPrimary(pb, m.view, carry, last)
    <3>1. bp \in PbftState /\ bp.view = m.view
      BY <1>2, <1>3, <2>1, <2>2, BecomesPrimaryType
    <3>2. pb2 = [bp EXCEPT !.reorder = @ \cup drained]
      OBVIOUS
    <3> HIDE DEF bp, pb2
    <3>3. QED
      BY <2>3, <3>1, <3>2, ReorderType
  <2>5. /\ q2 \in Store /\ DOMAIN q2.requests = {} /\ DOMAIN q2.byPayload = {}
        /\ Timed(q2, NoMap)
    BY <1>1, DrainTimed DEF Local, q2
  <2>6. NoMap \in MapsOver(Key, Digests) /\ DOMAIN NoMap = {}
    BY MapsOverDef DEF NoMap
  <2>7. Local(n, q2, NoMap, a2, pb2)
    <3> HIDE DEF pb2
    <3>1. QED
      BY <1>5, <2>4, <2>5, <2>6 DEF Local
  <2>8. MessagesOK(announced)
    BY <1>2, <1>7, <2>2 DEF MessagesOK, MessageOK, CarryOK
  <2>9. MessagesOK(msgs')
    <3> HIDE DEF announced
    <3>1. msgs' = (msgs \ {m}) \cup announced
      BY <1>7 DEF announced
    <3>2. QED
      BY <1>1, <2>8, <3>1 DEF MessagesOK
  <2>10. pbft' = [pbft EXCEPT ![n] = pb2]
    BY <1>7 DEF drained
  <2>11. heard' \in [Replica -> [Payload -> Nat]]
    BY <1>1, <1>4 DEF OnReplicas
  <2> HIDE DEF pb2
  <2>12. QED
    BY <1>4, <1>7, <2>7, <2>9, <2>10, <2>11, LocalStep
<1>8. QED
  BY <1>6, <1>7 DEF OnViewChange, pb, q2

\* A NewView reaches backups only, whose requests all get a new timer.
LEMMA OnNewViewStep ==
    ASSUME LayerInv, NEW n \in Replica, NEW m \in msgs, OnNewView(n, m)
    PROVE  LayerInv'
<1> DEFINE q2 == RearmEntries(queue[n], [k \in DOMAIN queue[n].requests |-> k])
           T2 == [k \in DOMAIN queue[n].requests |-> queue[n].requests[k].digest]
           a2 == AfterMessage(assigned[n], pbft[n])
           pb2 == IF m.view > pbft[n].view THEN EntersView(pbft[n], m.view, m.carry) ELSE pbft[n]
<1>1. Local(n, queue[n], timeouts[n], assigned[n], pbft[n]) /\ MessagesOK(msgs) /\ OnReplicas
  BY DEF LayerInv
<1>2. m.view \in Nat /\ CarryOK(m.carry) /\ Primary(m.view) # n /\ pbft[n] \in PbftState
  BY <1>1 DEF OnNewView, MessagesOK, MessageOK, Local, CarryOK
<1>3. /\ queue' = [queue EXCEPT ![n] = q2]
      /\ timeouts' = [timeouts EXCEPT ![n] = T2]
      /\ assigned' = [assigned EXCEPT ![n] = a2]
      /\ pbft' = [pbft EXCEPT ![n] = pb2]
      /\ msgs' = msgs \ {m} /\ heard' = heard
  BY DEF OnNewView
<1>4. Local(n, queue[n], timeouts[n], a2, pbft[n])
  BY <1>1, <1>2, AfterMessageOK
<1>5. /\ q2 \in Store /\ T2 \in MapsOver(Key, Digests)
      /\ DOMAIN q2.byPayload = DOMAIN queue[n].byPayload
      /\ DOMAIN q2.requests = DOMAIN queue[n].requests /\ DOMAIN T2 = DOMAIN queue[n].requests
      /\ Timed(q2, T2)
  BY <1>1, RearmTimed DEF Local
<1>6. pb2 \in PbftState /\ (IsPrimary(n, pb2) => IsPrimary(n, pbft[n]))
  BY <1>2, EntersViewType DEF IsPrimary
<1> HIDE DEF q2, T2, a2, pb2
<1>7. Local(n, q2, T2, a2, pb2)
  BY <1>4, <1>5, <1>6 DEF Local
<1>8. MessagesOK(msgs') /\ heard' \in [Replica -> [Payload -> Nat]]
  BY <1>1, <1>3 DEF MessagesOK, OnReplicas
<1>9. QED
  BY <1>3, <1>7, <1>8, LocalStep

-----------------------------------------------------------------------------
(* The theorems                                                             *)

LEMMA InitLemma ==
    Init => LayerInv
<1> SUFFICES ASSUME Init PROVE LayerInv
  OBVIOUS
<1>1. OnReplicas /\ MessagesOK(msgs)
  BY DEF Init, OnReplicas, MessagesOK
<1>2. ASSUME NEW n \in Replica
      PROVE  Local(n, queue[n], timeouts[n], assigned[n], pbft[n])
  <2>1. /\ queue[n] = EmptyStore /\ timeouts[n] = NoMap
        /\ assigned[n] = NothingAssigned /\ pbft[n] = InitPbft
    BY <1>2 DEF Init
  <2>2. /\ NoMap \in MapsOver(Key, Digests) /\ NoMap \in MapsOver(Key, Entry)
        /\ NoMap \in MapsOver(Payload, Key) /\ NoMap \in MapsOver(Digests, Key)
        /\ DOMAIN NoMap = {}
    BY MapsOverDef DEF NoMap
  <2>3. EmptyStore \in Store /\ Timed(EmptyStore, NoMap)
    BY <2>2 DEF EmptyStore, Store, Timed
  <2>4. AssignedOK(NothingAssigned)
    BY DEF AssignedOK, NothingAssigned
  <2>5. InitPbft \in PbftState
    BY PbftAssumption DEF InitPbft, PbftState
  <2>6. QED
    BY <2>1, <2>2, <2>3, <2>4, <2>5 DEF Local, EmptyStore, NothingAssigned
<1>3. QED
  BY <1>1, <1>2 DEF LayerInv

LEMMA NextStep ==
    LayerInv /\ [Next]_vars => LayerInv'
<1> SUFFICES ASSUME LayerInv, [Next]_vars PROVE LayerInv'
  OBVIOUS
<1>1. CASE UNCHANGED vars
  BY <1>1 DEF vars, LayerInv, OnReplicas, MessagesOK
<1>2. CASE Next
  <2>1. PICK n \in Running :
           \/ \E p \in Payload : OnRequest(n, p)
           \/ \E r \in pbft[n].reorder : OnReorder(n, r)
           \/ \E t \in Key : OnSoftTimeout(n, t)
           \/ OnMessage(n)
           \/ ViewChanges(n)
    BY <1>2 DEF Next
  <2>2. n \in Replica
    BY LayerAssumption
  <2>3. CASE \E p \in Payload : OnRequest(n, p)
    BY <2>2, <2>3, OnRequestStep
  <2>4. CASE \E r \in pbft[n].reorder : OnReorder(n, r)
    BY <2>2, <2>4, OnReorderStep
  <2>5. CASE \E t \in Key : OnSoftTimeout(n, t)
    BY <2>2, <2>5, OnSoftTimeoutStep
  <2>6. CASE OnMessage(n)
    <3>1. CASE \E m \in msgs : OnForward(n, m) \/ OnAssign(n, m) \/ OnPrePrepare(n, m)
      BY <2>2, <3>1, OnForwardStep, OnAssignStep, OnPrePrepareStep
    <3>2. CASE OnCommit(n)
      BY <2>2, <3>2, OnCommitStep
    <3>3. CASE \E m \in Replica : \E c \in 1 .. pbft[m].executed : OnCheckpoint(n, c)
      BY <2>2, <3>3, OnCheckpointStep
    <3>4. QED
      BY <2>6, <3>1, <3>2, <3>3 DEF OnMessage
  <2>7. CASE ViewChanges(n)
    BY <2>2, <2>7, OnPbftTimeoutStep, OnViewChangeStep, OnNewViewStep DEF ViewChanges
  <2>8. QED
    BY <2>1, <2>3, <2>4, <2>5, <2>6, <2>7
<1>3. QED
  BY <1>1, <1>2

\* LayerInv holds in every reachable state.
THEOREM Invariance ==
    Spec => []LayerInv
<1>1. QED
  BY InitLemma, NextStep, PTL DEF Spec

\* Every variable keeps its type (rc-bft2/src/lib.rs:39-49, the fields of
\* RCBFT and of the structures it holds).
THEOREM TypeCorrect ==
    Spec => []TypeOK
<1>1. LayerInv => TypeOK
  BY LayerInvImplies
<1>2. QED
  BY <1>1, Invariance, PTL

\* The timer key of every indexed request is a running timer for its digest,
\* whatever duplicates, expiries, assignments and view changes came before:
\* soft_timeouts.remove in on_assign (lib.rs:109) cannot panic.
THEOREM WaitingTimed ==
    Spec => []WaitingHasItsTimer
<1>1. LayerInv => WaitingHasItsTimer
  BY LayerInvImplies
<1>2. QED
  BY <1>1, Invariance, PTL

\* A primary has no stored request and no soft timer that could fire past the
\* filter (lib.rs:128-149), in any view.
THEOREM PrimaryEmptyHanded ==
    Spec => []PrimaryHoldsNothing
<1>1. LayerInv => PrimaryHoldsNothing
  BY LayerInvImplies
<1>2. QED
  BY <1>1, Invariance, PTL

\* No indexed request has an assigned payload, so no timer forwards what is
\* known to be ordered (lib.rs:92-126, 163-198).
THEOREM AssignedNotWaiting ==
    Spec => []AssignedNeverWaits
<1>1. LayerInv => AssignedNeverWaits
  BY LayerInvImplies
<1>2. QED
  BY <1>1, Invariance, PTL

-----------------------------------------------------------------------------
(* While the view is stable                                                 *)

(* Replica 0 is the primary of view 0; P stands for the set of its         *)
(* proposals.  Every other replica accepts, assigns and releases only what *)
(* is among them, and the primary proposes only what its own window shows  *)
(* it has not proposed within the backlog.                                 *)

\* A payload is ordered: some proposal has it.
Proposes(P, p) == \E a \in P : p \in a.batch

\* What the links carry comes from a proposal; none of it goes to the primary
\* but Forwards.
FromProposal(P, m) ==
    /\ m.type \in {"PrePrepare", "Assign", "Forward"}
    /\ m.type \in {"PrePrepare", "Assign"} => m.to # 0
    /\ m.type = "Assign" => \A p \in m.batch : Proposes(P, p)
    /\ m.type = "PrePrepare" => [view |-> m.view, seq |-> m.seq, batch |-> m.batch] \in P

\* Replica n with store q, assignments a, PBFT state pb and bus history h: what
\* it took as assigned is proposed, and what it heard is held.
StableAt(P, n, q, a, pb, h) ==
    /\ pb.view = 0 /\ pb.reorder = {} /\ pb.accepted \subseteq P
    /\ \A p \in DOMAIN a.byPayload : Proposes(P, p)
    /\ n \in Running => \A p \in Payload : h[p] > 0 =>
           p \in DOMAIN q.byPayload \/ p \in pb.known \/ Proposes(P, p)

\* The window of the primary: each payload is in one slot at most and is
\* assigned as long as it is in one, that of its last proposal; what is no
\* longer assigned was proposed more than the backlog before the low mark.
Window(a, pb) ==
    /\ pb.low < pb.next
    /\ \A x \in pb.accepted : 1 <= x.seq /\ x.seq < pb.next
    /\ \A s \in DOMAIN a.bySequence : s < pb.next
    /\ \A s \in DOMAIN a.bySequence : \A p \in a.bySequence[s] :
          /\ p \in DOMAIN a.byPayload
          /\ \A x \in pb.accepted : p \in x.batch => x.seq <= s
          /\ \A t \in DOMAIN a.bySequence : p \in a.bySequence[t] => t = s
    /\ \A x \in pb.accepted : \A p \in x.batch : p \in DOMAIN a.byPayload \/ x.seq + Backlog <= pb.low
    /\ \A x \in pb.accepted, y \in pb.accepted :
          x.seq < y.seq /\ x.batch \cap y.batch # {} => y.seq > x.seq + Backlog

StableInv ==
    /\ \A m \in msgs : FromProposal(pbft[0].accepted, m)
    /\ \A n \in Replica : StableAt(pbft[0].accepted, n, queue[n], assigned[n], pbft[n], heard[n])
    /\ Window(assigned[0], pbft[0])

LEMMA StableImplies == LayerInv /\ StableInv => NoRepeatWithinBacklog /\ HeardIsHeld
<1> SUFFICES ASSUME LayerInv, StableInv PROVE NoRepeatWithinBacklog /\ HeardIsHeld
  OBVIOUS
<1>1. \A n \in Replica : pbft[n].accepted \subseteq pbft[0].accepted
  BY DEF StableInv, StableAt
<1>2. NoRepeatWithinBacklog
  BY <1>1 DEF NoRepeatWithinBacklog, StableInv, Window
<1>3. ASSUME NEW n \in Running, NEW p \in Payload, heard[n][p] > 0
      PROVE  Held(n, p)
  <2>1. n \in Replica /\ 0 \in Replica
    BY LayerAssumption, PbftAssumption DEF Replica
  <2>2. p \in DOMAIN queue[n].byPayload \/ p \in pbft[n].known \/ Proposes(pbft[0].accepted, p)
    BY <1>3, <2>1 DEF StableInv, StableAt
  <2>3. ASSUME NEW a \in pbft[0].accepted, p \in a.batch PROVE Held(n, p)
    <3>1. a.view \in Nat /\ pbft[n].view = 0
      BY <2>1 DEF LayerInv, Local, PbftState, StableInv, StableAt
    <3>2. a.view >= pbft[n].view
      BY <3>1
    <3> QED
      BY <2>1, <2>3, <3>2 DEF Held
  <2> QED
    BY <2>2, <2>3 DEF Held, Proposes
<1> QED
  BY <1>2, <1>3 DEF HeardIsHeld

\* More proposals do no harm.
LEMMA FromProposalGrows ==
    ASSUME NEW P, NEW Q, P \subseteq Q, NEW m, FromProposal(P, m)
    PROVE  FromProposal(Q, m)
BY DEF FromProposal, Proposes

LEMMA StableAtGrows ==
    ASSUME NEW P, NEW Q, P \subseteq Q, NEW n, NEW q, NEW a, NEW pb, NEW h, StableAt(P, n, q, a, pb, h)
    PROVE  StableAt(Q, n, q, a, pb, h)
BY DEF StableAt, Proposes

\* checkpoint(low) keeps the window, be the low mark that of before or a new one.
LEMMA WindowPruned ==
    ASSUME NEW a, AssignedOK(a), NEW pb \in PbftState, Window(a, pb),
           NEW pb2 \in PbftState, pb.low <= pb2.low, pb2.low < pb2.next, pb.next <= pb2.next,
           pb2.accepted = pb.accepted
    PROVE  Window(CheckpointAssigned(a, pb2.low), pb2)
<1> DEFINE low == pb2.low
<1> DEFINE c == CheckpointAssigned(a, low)
<1>1. /\ low \in Nat /\ pb.low \in Nat /\ pb.next \in Nat /\ pb2.next \in Nat /\ Backlog \in Nat
      /\ \A x \in pb.accepted : x.seq \in Nat
      /\ DOMAIN a.bySequence \subseteq Nat
  BY WindowAssumption DEF PbftState, AssignedOK
<1>2. /\ DOMAIN c.byPayload = DOMAIN a.byPayload \ PrunedPayloads(a, low)
      /\ DOMAIN c.bySequence = DOMAIN a.bySequence \ Pruned(a, low)
      /\ \A s \in DOMAIN c.bySequence : c.bySequence[s] = a.bySequence[s]
  BY DEF CheckpointAssigned, Restrict
<1> HIDE DEF c
<1>3. ASSUME NEW p \in PrunedPayloads(a, low)
      PROVE  \E t \in DOMAIN a.bySequence : t <= NewLow(low) /\ p \in a.bySequence[t]
  BY DEF PrunedPayloads, Pruned
<1>4. \A s \in DOMAIN c.bySequence : \A p \in c.bySequence[s] :
          /\ p \in DOMAIN c.byPayload
          /\ \A x \in pb2.accepted : p \in x.batch => x.seq <= s
          /\ \A t \in DOMAIN c.bySequence : p \in c.bySequence[t] => t = s
  <2> SUFFICES ASSUME NEW s \in DOMAIN c.bySequence, NEW p \in c.bySequence[s]
               PROVE  /\ p \in DOMAIN c.byPayload
                      /\ \A x \in pb2.accepted : p \in x.batch => x.seq <= s
                      /\ \A t \in DOMAIN c.bySequence : p \in c.bySequence[t] => t = s
    OBVIOUS
  <2>1. s \in DOMAIN a.bySequence /\ s \notin Pruned(a, low) /\ p \in a.bySequence[s]
    BY <1>2
  <2>2. p \notin PrunedPayloads(a, low)
    BY <2>1 DEF PrunedPayloads, Pruned, Window
  <2> QED
    BY <1>2, <2>1, <2>2 DEF Window
<1>5. ASSUME NEW x \in pb2.accepted, NEW p \in x.batch, p \notin DOMAIN c.byPayload
      PROVE  x.seq + Backlog <= low
  <2>1. CASE p \notin DOMAIN a.byPayload
    <3>1. x.seq + Backlog <= pb.low /\ x.seq \in Nat
      BY <1>1, <2>1 DEF Window
    <3> QED
      BY <1>1, <3>1
  <2>2. CASE p \in DOMAIN a.byPayload
    <3>1. PICK t \in DOMAIN a.bySequence : t <= NewLow(low) /\ p \in a.bySequence[t]
      BY <1>2, <1>3, <1>5, <2>2
    <3>2. 1 <= x.seq /\ x.seq <= t /\ x.seq \in Nat /\ t \in Nat
      BY <1>1, <3>1 DEF Window
    <3> QED
      BY <1>1, <3>1, <3>2 DEF NewLow
  <2> QED
    BY <2>1, <2>2
<1>6. \A x \in pb2.accepted : 1 <= x.seq /\ x.seq < pb2.next
  BY <1>1 DEF Window
<1>7. \A s \in DOMAIN c.bySequence : s < pb2.next
  <2>1. ASSUME NEW s \in DOMAIN c.bySequence PROVE s < pb2.next
    <3>1. s \in Nat /\ s < pb.next
      BY <1>1, <1>2 DEF Window
    <3> QED
      BY <1>1, <3>1
  <2> QED
    BY <2>1
<1>8. \A x \in pb2.accepted, y \in pb2.accepted :
          x.seq < y.seq /\ x.batch \cap y.batch # {} => y.seq > x.seq + Backlog
  BY DEF Window
<1>9. \A x \in pb2.accepted : \A p \in x.batch : p \in DOMAIN c.byPayload \/ x.seq + Backlog <= pb2.low
  BY <1>5
<1> QED
  BY <1>4, <1>6, <1>7, <1>8, <1>9 DEF Window, c

\* What Proposed changes.
LEMMA ProposedDef ==
    ASSUME NEW pb \in PbftState, NEW batch
    PROVE  /\ Proposed(pb, batch).low = pb.low /\ Proposed(pb, batch).next = pb.next + 1
           /\ Proposed(pb, batch).known = pb.known /\ Proposed(pb, batch).reorder = pb.reorder
           /\ Proposed(pb, batch).view = pb.view
           /\ Proposed(pb, batch).accepted =
                 pb.accepted \cup {[view |-> pb.view, seq |-> pb.next, batch |-> batch]}
BY DEF Proposed, PbftState

\* The primary proposes and assigns payloads that are not assigned.
LEMMA WindowProposed ==
    ASSUME NEW a, AssignedOK(a), NEW pb \in PbftState, Window(a, pb),
           NEW batch \in SUBSET Payload, batch \cap DOMAIN a.byPayload = {}
    PROVE  Window(Assign(a, batch, pb.next), Proposed(pb, batch))
<1> DEFINE z == [view |-> pb.view, seq |-> pb.next, batch |-> batch]
<1> DEFINE c == Assign(a, batch, pb.next)
<1> DEFINE pb2 == Proposed(pb, batch)
<1>1. /\ pb.low \in Nat /\ pb.next \in Nat /\ Backlog \in Nat
      /\ \A x \in pb.accepted : x.seq \in Nat
      /\ DOMAIN a.bySequence \subseteq Nat
  BY WindowAssumption DEF PbftState, AssignedOK
<1>2. pb2.low = pb.low /\ pb2.next = pb.next + 1 /\ pb2.accepted = pb.accepted \cup {z}
  BY ProposedDef
<1>3. z.seq = pb.next /\ z.batch = batch
  OBVIOUS
<1>4. /\ DOMAIN c.byPayload = DOMAIN a.byPayload \cup batch
      /\ DOMAIN c.bySequence \subseteq DOMAIN a.bySequence \cup {pb.next}
      /\ \A s \in DOMAIN c.bySequence : s # pb.next => s \in DOMAIN a.bySequence /\ c.bySequence[s] = a.bySequence[s]
      /\ pb.next \in DOMAIN c.bySequence => c.bySequence[pb.next] = batch
  <2>1. pb.next \notin DOMAIN a.bySequence
    BY <1>1 DEF Window
  <2> QED
    BY <2>1 DEF Assign
<1> HIDE DEF z, c, pb2
<1>5. \A x \in pb2.accepted : 1 <= x.seq /\ x.seq < pb2.next
  BY <1>1, <1>2, <1>3 DEF Window
<1>6. \A s \in DOMAIN c.bySequence : s < pb2.next
  BY <1>1, <1>2, <1>4 DEF Window
<1>7. ASSUME NEW s \in DOMAIN c.bySequence, NEW p \in c.bySequence[s]
      PROVE  /\ p \in DOMAIN c.byPayload
             /\ \A x \in pb2.accepted : p \in x.batch => x.seq <= s
             /\ \A t \in DOMAIN c.bySequence : p \in c.bySequence[t] => t = s
  <2>1. CASE s = pb.next
    <3>1. p \in batch /\ p \notin DOMAIN a.byPayload
      BY <1>4, <2>1
    <3>2. \A x \in pb2.accepted : x.seq <= s
      BY <1>1, <1>2, <1>3, <2>1 DEF Window
    <3>3. \A t \in DOMAIN c.bySequence : p \in c.bySequence[t] => t = s
      BY <1>4, <2>1, <3>1 DEF Window
    <3> QED
      BY <1>4, <3>1, <3>2, <3>3
  <2>2. CASE s # pb.next
    <3>1. s \in DOMAIN a.bySequence /\ p \in a.bySequence[s] /\ p \in DOMAIN a.byPayload /\ p \notin batch
      BY <1>4, <2>2 DEF Window
    <3>2. \A x \in pb2.accepted : p \in x.batch => x.seq <= s
      BY <1>2, <1>3, <3>1 DEF Window
    <3>3. \A t \in DOMAIN c.bySequence : p \in c.bySequence[t] => t = s
      BY <1>4, <3>1 DEF Window
    <3> QED
      BY <1>4, <3>1, <3>2, <3>3
  <2> QED
    BY <2>1, <2>2
<1>8. \A x \in pb2.accepted : \A p \in x.batch : p \in DOMAIN c.byPayload \/ x.seq + Backlog <= pb2.low
  BY <1>2, <1>3, <1>4 DEF Window
<1>9. ASSUME NEW x \in pb2.accepted, NEW y \in pb2.accepted, x.seq < y.seq, x.batch \cap y.batch # {}
      PROVE  y.seq > x.seq + Backlog
  <2>1. x \in pb.accepted
    BY <1>1, <1>2, <1>3, <1>5, <1>9 DEF Window
  <2>2. CASE y \in pb.accepted
    BY <1>9, <2>1, <2>2 DEF Window
  <2>3. CASE y = z
    <3>1. PICK p \in x.batch : p \in batch
      BY <1>3, <1>9, <2>3
    <3>2. x.seq + Backlog <= pb.low /\ pb.low < pb.next /\ x.seq \in Nat
      BY <1>1, <2>1, <3>1 DEF Window
    <3> QED
      BY <1>1, <1>3, <2>3, <3>2
  <2> QED
    BY <1>2, <2>2, <2>3
<1>10. pb2.low < pb2.next
  BY <1>1, <1>2 DEF Window
<1>11. /\ \A s \in DOMAIN c.bySequence : \A p \in c.bySequence[s] :
             /\ p \in DOMAIN c.byPayload
             /\ \A x \in pb2.accepted : p \in x.batch => x.seq <= s
             /\ \A t \in DOMAIN c.bySequence : p \in c.bySequence[t] => t = s
       /\ \A x \in pb2.accepted, y \in pb2.accepted :
             x.seq < y.seq /\ x.batch \cap y.batch # {} => y.seq > x.seq + Backlog
  BY <1>7, <1>9
<1> QED
  BY <1>5, <1>6, <1>8, <1>10, <1>11 DEF Window, c, pb2

\* Replica 0 is the primary of view 0, and a step of n leaves the others alone.
LEMMA FirstPrimary ==
    /\ 0 \in Replica
    /\ \A n \in Replica, pb \in PbftState : pb.view = 0 => (IsPrimary(n, pb) <=> n = 0)
BY PbftAssumption DEF Replica, IsPrimary, Primary

OthersAlone(n) ==
    \A m \in Replica : m # n =>
        /\ queue'[m] = queue[m] /\ assigned'[m] = assigned[m]
        /\ pbft'[m] = pbft[m] /\ heard'[m] = heard[m]

\* A step of n keeps the invariant if it does so at n, proposals only get more
\* and the messages come from them.
LEMMA StableStep ==
    ASSUME StableInv, NEW n \in Replica, OthersAlone(n),
           pbft[0].accepted \subseteq pbft'[0].accepted,
           StableAt(pbft'[0].accepted, n, queue'[n], assigned'[n], pbft'[n], heard'[n]),
           n = 0 => Window(assigned'[n], pbft'[n]),
           \A m \in msgs' : m \in msgs \/ FromProposal(pbft'[0].accepted, m)
    PROVE  StableInv'
<1>1. \A m \in msgs' : FromProposal(pbft'[0].accepted, m)
  BY FromProposalGrows DEF StableInv
<1>2. ASSUME NEW m \in Replica
      PROVE  StableAt(pbft'[0].accepted, m, queue'[m], assigned'[m], pbft'[m], heard'[m])
  <2>1. CASE m # n
    <3>1. StableAt(pbft[0].accepted, m, queue[m], assigned[m], pbft[m], heard[m])
      BY DEF StableInv
    <3>2. StableAt(pbft'[0].accepted, m, queue[m], assigned[m], pbft[m], heard[m])
      BY <3>1, StableAtGrows
    <3> QED
      BY <2>1, <3>2 DEF OthersAlone
  <2> QED
    BY <2>1
<1>3. Window(assigned'[0], pbft'[0])
  <2>1. 0 \in Replica
    BY FirstPrimary
  <2>2. CASE n # 0
    BY <2>1, <2>2 DEF OthersAlone, StableInv
  <2> QED
    BY <2>2
<1> QED
  BY <1>1, <1>2, <1>3 DEF StableInv

\* What the operations of PBFT leave alone.
LEMMA AwaitedDef ==
    ASSUME NEW pb \in PbftState, NEW batch
    PROVE  /\ Awaited(pb, batch).low = pb.low /\ Awaited(pb, batch).next = pb.next
           /\ Awaited(pb, batch).view = pb.view /\ Awaited(pb, batch).reorder = pb.reorder
           /\ Awaited(pb, batch).accepted = pb.accepted
           /\ Awaited(pb, batch).known = pb.known \cup batch
BY DEF Awaited, PbftState

LEMMA WithBodyDef ==
    ASSUME NEW pb \in PbftState, NEW m
    PROVE  /\ WithBody(pb, m).low = pb.low /\ WithBody(pb, m).next = pb.next
           /\ WithBody(pb, m).view = pb.view /\ WithBody(pb, m).reorder = pb.reorder
           /\ WithBody(pb, m).accepted = pb.accepted
           /\ WithBody(pb, m).known = pb.known
BY DEF WithBody, PbftState

LEMMA PrePreparedDef ==
    ASSUME NEW pb \in PbftState, NEW m
    PROVE  /\ PrePrepared(pb, m).view = pb.view /\ PrePrepared(pb, m).reorder = pb.reorder
           /\ PrePrepared(pb, m).accepted \subseteq
                 pb.accepted \cup {[view |-> m.view, seq |-> m.seq, batch |-> m.batch]}
           /\ PrePrepared(pb, m).known = pb.known
<1> DEFINE acc == pb.accepted \cup {[view |-> m.view, seq |-> m.seq, batch |-> m.batch]}
<1>1. PrePrepared(pb, m) = [pb EXCEPT !.accepted = acc] \/ PrePrepared(pb, m) = pb
  BY DEF PrePrepared
<1>2. pb.accepted \subseteq acc
  OBVIOUS
<1> HIDE DEF acc
<1>3. /\ PrePrepared(pb, m).view = pb.view /\ PrePrepared(pb, m).reorder = pb.reorder
      /\ PrePrepared(pb, m).accepted \subseteq acc
      /\ PrePrepared(pb, m).known = pb.known
  BY <1>1, <1>2 DEF PbftState
<1> QED
  BY <1>3 DEF acc

LEMMA ExecutedDef ==
    ASSUME NEW pb \in PbftState, NEW a
    PROVE  /\ Executed(pb, a).low = pb.low /\ Executed(pb, a).next = pb.next
           /\ Executed(pb, a).view = pb.view /\ Executed(pb, a).reorder = pb.reorder
           /\ Executed(pb, a).accepted = pb.accepted
           /\ Executed(pb, a).known = pb.known \ a.batch
BY DEF Executed, PbftState

LEMMA CheckpointAtDef ==
    ASSUME NEW pb \in PbftState, NEW c \in Nat
    PROVE  /\ CheckpointAt(pb, c).low = c
           /\ CheckpointAt(pb, c).view = pb.view /\ CheckpointAt(pb, c).reorder = pb.reorder
           /\ CheckpointAt(pb, c).accepted = pb.accepted
           /\ CheckpointAt(pb, c).known = pb.known
           /\ c < CheckpointAt(pb, c).next /\ pb.next <= CheckpointAt(pb, c).next
<1> DEFINE ex == IF pb.executed < c THEN c ELSE pb.executed
           nx == IF pb.next =< c THEN c + 1 ELSE pb.next
<1>1. nx \in Nat /\ c < nx /\ pb.next <= nx
  BY DEF PbftState
<1>2. CheckpointAt(pb, c) = [pb EXCEPT !.low = c, !.executed = ex, !.next = nx]
  BY DEF CheckpointAt, PbftState
<1> HIDE DEF ex, nx
<1> QED
  BY <1>1, <1>2 DEF PbftState

\* A replica's state stays stable when PBFT waits for no less in the same view,
\* accepts only proposals, and assignments are only taken away.
LEMMA StableAtKept ==
    ASSUME NEW P, NEW n, NEW q, NEW a, NEW pb, NEW h, StableAt(P, n, q, a, pb, h),
           NEW a2, NEW pb2, pb2.view = pb.view, pb2.reorder = pb.reorder,
           pb2.accepted \subseteq P, pb.known \subseteq pb2.known,
           DOMAIN a2.byPayload \subseteq DOMAIN a.byPayload
    PROVE  StableAt(P, n, q, a2, pb2, h)
BY DEF StableAt

\* The pruning that ends every message handler takes assignments away only.
LEMMA AfterMessageRemoves ==
    ASSUME NEW a, AssignedOK(a), NEW pb \in PbftState
    PROVE  /\ AssignedOK(AfterMessage(a, pb))
           /\ DOMAIN AfterMessage(a, pb).byPayload \subseteq DOMAIN a.byPayload
<1>1. pb.low \in Nat
  BY DEF PbftState
<1> QED
  BY <1>1, CheckpointRemoves DEF AfterMessage

\* The variables at n after an update at n.
LEMMA OnlyAt ==
    ASSUME OnReplicas, NEW n \in Replica, NEW q, NEW a, NEW pb, NEW h,
           queue' = [queue EXCEPT ![n] = q], assigned' = [assigned EXCEPT ![n] = a],
           pbft' = [pbft EXCEPT ![n] = pb], heard' = [heard EXCEPT ![n] = h]
    PROVE  /\ OthersAlone(n)
           /\ queue'[n] = q /\ assigned'[n] = a /\ pbft'[n] = pb /\ heard'[n] = h
           /\ n # 0 => pbft'[0] = pbft[0]
BY FirstPrimary DEF OnReplicas, OthersAlone

\* A message handler changes neither the store nor what was heard at n.
LEMMA OnlyPbftAt ==
    ASSUME OnReplicas, NEW n \in Replica, NEW a, NEW pb,
           UNCHANGED <<queue, heard>>, assigned' = [assigned EXCEPT ![n] = a],
           pbft' = [pbft EXCEPT ![n] = pb]
    PROVE  /\ OthersAlone(n)
           /\ queue'[n] = queue[n] /\ assigned'[n] = a /\ pbft'[n] = pb /\ heard'[n] = heard[n]
           /\ n # 0 => pbft'[0] = pbft[0]
BY FirstPrimary DEF OnReplicas, OthersAlone

\* What is heard once more is still held.
LEMMA StableAtHeard ==
    ASSUME NEW P, NEW n, NEW q, NEW a, NEW pb, NEW h \in [Payload -> Nat],
           StableAt(P, n, q, a, pb, h), NEW p \in Payload,
           p \in DOMAIN q.byPayload \/ p \in pb.known \/ Proposes(P, p)
    PROVE  StableAt(P, n, q, a, pb, [h EXCEPT ![p] = @ + 1])
BY DEF StableAt

\* The primary proposes what it has not assigned.
LEMMA PrimaryProposes ==
    ASSUME LayerInv, StableInv, NEW batch \in SUBSET Payload,
           batch \cap DOMAIN assigned[0].byPayload = {},
           NEW P, P = Proposed(pbft[0], batch).accepted,
           NEW a, a = Assign(assigned[0], batch, pbft[0].next)
    PROVE  /\ pbft[0].accepted \subseteq P
           /\ \A p \in batch : Proposes(P, p)
           /\ AssignedOK(a) /\ Proposed(pbft[0], batch) \in PbftState
           /\ StableAt(P, 0, queue[0], a, Proposed(pbft[0], batch), heard[0])
           /\ Window(a, Proposed(pbft[0], batch))
           /\ \A m \in ProposalMsgs(0, pbft[0], batch) : FromProposal(P, m)
<1> DEFINE z == [view |-> pbft[0].view, seq |-> pbft[0].next, batch |-> batch]
           pb2 == Proposed(pbft[0], batch)
<1>1. /\ pbft[0] \in PbftState /\ AssignedOK(assigned[0])
      /\ StableAt(pbft[0].accepted, 0, queue[0], assigned[0], pbft[0], heard[0])
      /\ Window(assigned[0], pbft[0])
  BY FirstPrimary DEF LayerInv, Local, StableInv
<1>2. /\ pb2.known = pbft[0].known /\ pb2.reorder = pbft[0].reorder
      /\ pb2.view = pbft[0].view /\ pb2.accepted = pbft[0].accepted \cup {z}
  BY <1>1, ProposedDef
<1>3. z.batch = batch
  OBVIOUS
<1>4. pb2 \in PbftState
  BY <1>1, ProposedType
<1>5. pbft[0].next \in Nat
  BY <1>1 DEF PbftState
<1>6. AssignedOK(a) /\ DOMAIN a.byPayload = DOMAIN assigned[0].byPayload \cup batch
  BY <1>1, <1>5, AssignAdds
<1>7. Window(a, pb2)
  BY <1>1, WindowProposed
<1>8. \A m \in ProposalMsgs(0, pbft[0], batch) :
         \/ m.type = "PrePrepare" /\ m.to # 0 /\ [view |-> m.view, seq |-> m.seq, batch |-> m.batch] = z
         \/ m.type = "Assign" /\ m.to # 0 /\ m.batch = batch
  BY DEF ProposalMsgs
<1> HIDE DEF z, pb2
<1>9. pbft[0].accepted \subseteq P /\ z \in P /\ \A p \in batch : Proposes(P, p)
  BY <1>2, <1>3 DEF Proposes, pb2
<1>10. StableAt(P, 0, queue[0], assigned[0], pbft[0], heard[0])
  BY <1>1, <1>9, StableAtGrows
<1>11. StableAt(P, 0, queue[0], a, pb2, heard[0])
  BY <1>2, <1>6, <1>9, <1>10 DEF StableAt, pb2
<1>12. \A m \in ProposalMsgs(0, pbft[0], batch) : FromProposal(P, m)
  BY <1>8, <1>9 DEF FromProposal
<1> QED
  BY <1>4, <1>6, <1>7, <1>9, <1>11, <1>12 DEF pb2

\* A request: the primary proposes it, a backup stores it, or it is assigned
\* and so proposed.
LEMMA StableRequest ==
    ASSUME LayerInv, StableInv, NEW n \in Replica, NEW p \in Payload, OnRequest(n, p)
    PROVE  StableInv'
<1> DEFINE P == pbft[0].accepted
           h2 == [heard[n] EXCEPT ![p] = @ + 1]
<1>1. /\ OnReplicas /\ Local(n, queue[n], timeouts[n], assigned[n], pbft[n])
      /\ StableAt(P, n, queue[n], assigned[n], pbft[n], heard[n])
      /\ Window(assigned[0], pbft[0])
  BY DEF LayerInv, StableInv
<1>2. pbft[n] \in PbftState /\ (IsPrimary(n, pbft[n]) <=> n = 0)
  BY <1>1, FirstPrimary DEF Local, StableAt
<1>3. heard[n] \in [Payload -> Nat] /\ heard' = [heard EXCEPT ![n] = h2]
  BY <1>1 DEF OnRequest, OnReplicas
<1>4. /\ queue = [queue EXCEPT ![n] = queue[n]] /\ assigned = [assigned EXCEPT ![n] = assigned[n]]
      /\ pbft = [pbft EXCEPT ![n] = pbft[n]]
  BY <1>1, SameAt
<1> HIDE DEF h2
<1>5. CASE /\ n = 0 /\ FilterProposal(n, {p}) # {}
           /\ ProposeAndAssign(n, pbft[n], FilterProposal(n, {p}), msgs)
           /\ UNCHANGED <<queue, timeouts>>
  <2> DEFINE pb2 == Proposed(pbft[0], {p})
             a2 == Assign(assigned[0], {p}, pbft[0].next)
  <2>1. FilterProposal(n, {p}) = {p} /\ {p} \cap DOMAIN assigned[0].byPayload = {}
    BY <1>5 DEF FilterProposal, IsAssigned
  <2>2. /\ pbft' = [pbft EXCEPT ![n] = pb2] /\ assigned' = [assigned EXCEPT ![n] = a2]
        /\ msgs' = msgs \cup ProposalMsgs(0, pbft[0], {p})
        /\ queue' = [queue EXCEPT ![n] = queue[n]]
    BY <1>1, <1>4, <1>5, <2>1 DEF ProposeAndAssign, OnReplicas
  <2>3. /\ P \subseteq pb2.accepted /\ Proposes(pb2.accepted, p)
        /\ StableAt(pb2.accepted, 0, queue[0], a2, pb2, heard[0])
        /\ Window(a2, pb2)
        /\ \A m \in ProposalMsgs(0, pbft[0], {p}) : FromProposal(pb2.accepted, m)
    BY <2>1, PrimaryProposes
  <2> HIDE DEF pb2, a2
  <2>4. StableAt(pb2.accepted, n, queue[n], a2, pb2, h2)
    BY <1>3, <1>5, <2>3, StableAtHeard DEF h2
  <2>5. /\ OthersAlone(n)
        /\ queue'[n] = queue[n] /\ assigned'[n] = a2 /\ pbft'[n] = pb2 /\ heard'[n] = h2
    BY <1>1, <1>3, <2>2, OnlyAt
  <2>6. pbft'[0] = pb2
    BY <1>5, <2>5
  <2> QED
    BY <2>2, <2>3, <2>4, <2>5, <2>6, StableStep
<1>6. CASE /\ n # 0 /\ WaitForAssign(n, p)
           /\ pbft' = [pbft EXCEPT ![n] = pbft[n]]
           /\ UNCHANGED <<assigned, msgs>>
  <2> DEFINE q2 == InsertWithDigest(queue[n], p, Digest(p), FreeTimer(n))
  <2>1. DOMAIN q2.byPayload = DOMAIN queue[n].byPayload \cup {p}
    BY DEF InsertWithDigest, Put
  <2>2. queue' = [queue EXCEPT ![n] = q2] /\ assigned' = [assigned EXCEPT ![n] = assigned[n]]
    BY <1>1, <1>4, <1>6 DEF WaitForAssign, OnReplicas
  <2> HIDE DEF q2
  <2>3. StableAt(P, n, q2, assigned[n], pbft[n], heard[n]) /\ p \in DOMAIN q2.byPayload
    BY <1>1, <2>1 DEF StableAt
  <2>4. StableAt(P, n, q2, assigned[n], pbft[n], h2)
    BY <1>3, <2>3, StableAtHeard DEF h2
  <2>5. /\ OthersAlone(n)
        /\ queue'[n] = q2 /\ assigned'[n] = assigned[n] /\ pbft'[n] = pbft[n] /\ heard'[n] = h2
        /\ n # 0 => pbft'[0] = pbft[0]
    BY <1>1, <1>3, <1>6, <2>2, OnlyAt
  <2>6. pbft'[0] = pbft[0]
    BY <1>6, <2>5
  <2> QED
    BY <1>6, <2>4, <2>5, <2>6, StableStep
<1>7. CASE /\ IsAssigned(assigned[n], p)
           /\ pbft' = [pbft EXCEPT ![n] = pbft[n]]
           /\ UNCHANGED <<queue, timeouts, assigned, msgs>>
  <2>1. Proposes(P, p)
    BY <1>1, <1>7 DEF StableAt, IsAssigned
  <2>2. StableAt(P, n, queue[n], assigned[n], pbft[n], h2)
    BY <1>1, <1>3, <2>1, StableAtHeard DEF h2
  <2>3. queue' = [queue EXCEPT ![n] = queue[n]] /\ assigned' = [assigned EXCEPT ![n] = assigned[n]]
    BY <1>4, <1>7
  <2>4. /\ OthersAlone(n)
        /\ queue'[n] = queue[n] /\ assigned'[n] = assigned[n] /\ pbft'[n] = pbft[n] /\ heard'[n] = h2
        /\ n # 0 => pbft'[0] = pbft[0]
    BY <1>1, <1>3, <1>7, <2>3, OnlyAt
  <2>5. pbft'[0] = pbft[0]
    BY <2>4
  <2> QED
    BY <1>1, <1>7, <2>2, <2>4, <2>5, StableStep
<1>8. FilterProposal(n, {p}) = {} => IsAssigned(assigned[n], p)
  BY DEF FilterProposal
<1>9. HandleNewProposal(n, pbft[n], p)
  BY DEF OnRequest
<1> QED
  BY <1>2, <1>5, <1>6, <1>7, <1>8, <1>9 DEF HandleNewProposal

\* A soft timeout on a backup hands the request from the store to PBFT; the
\* primary has no timer.
LEMMA StableSoftTimeout ==
    ASSUME LayerInv, StableInv, NEW n \in Replica, NEW t \in Key, OnSoftTimeout(n, t)
    PROVE  StableInv'
<1> DEFINE P == pbft[0].accepted
           d == timeouts[n][t]
           p == EntryByDigest(queue[n], d).proposal
           q2 == RemoveByDigest(queue[n], d)
<1>1. /\ OnReplicas /\ Local(n, queue[n], timeouts[n], assigned[n], pbft[n])
      /\ StableAt(P, n, queue[n], assigned[n], pbft[n], heard[n])
  BY DEF LayerInv, StableInv
<1>2. pbft[n] \in PbftState /\ (IsPrimary(n, pbft[n]) <=> n = 0)
  BY <1>1, FirstPrimary DEF Local, StableAt
<1>3. n # 0 /\ ~IsPrimary(n, pbft[n])
  BY <1>1, <1>2 DEF OnSoftTimeout, Local
<1>4. /\ queue' = [queue EXCEPT ![n] = q2]
      /\ assigned' = [assigned EXCEPT ![n] = assigned[n]]
      /\ heard' = [heard EXCEPT ![n] = heard[n]]
  BY <1>1, SameAt DEF OnSoftTimeout, OnReplicas
<1>5. CASE FoundByDigest(queue[n], d)
  <2> DEFINE pb2 == Awaited(pbft[n], {p})
  <2>1. /\ pbft' = [pbft EXCEPT ![n] = pb2]
        /\ msgs' = msgs \cup ForwardToAll(n, {p})
    BY <1>1, <1>3, <1>5 DEF OnSoftTimeout, OnReplicas
  <2>2. DOMAIN q2.byPayload = DOMAIN queue[n].byPayload \ {p}
    BY <1>5 DEF RemoveByDigest, Drop, Restrict
  <2>3. /\ pb2.view = pbft[n].view /\ pb2.reorder = pbft[n].reorder
        /\ pb2.accepted = pbft[n].accepted /\ pb2.known = pbft[n].known \cup {p}
    BY <1>2, AwaitedDef
  <2>4. \A m \in ForwardToAll(n, {p}) : m.type = "Forward"
    BY DEF ForwardToAll
  <2> HIDE DEF pb2, q2, p, P
  <2>5. StableAt(P, n, q2, assigned[n], pb2, heard[n])
    BY <1>1, <2>2, <2>3 DEF StableAt
  <2>6. /\ OthersAlone(n)
        /\ queue'[n] = q2 /\ assigned'[n] = assigned[n] /\ pbft'[n] = pb2 /\ heard'[n] = heard[n]
        /\ n # 0 => pbft'[0] = pbft[0]
    BY <1>1, <1>4, <2>1, OnlyAt
  <2>7. pbft'[0] = pbft[0]
    BY <1>3, <2>6
  <2>8. \A m \in msgs' : m \in msgs \/ FromProposal(P, m)
    BY <2>1, <2>4 DEF FromProposal
  <2> QED
    BY <1>3, <2>5, <2>6, <2>7, <2>8, StableStep DEF P
<1>6. CASE ~FoundByDigest(queue[n], d)
  <2>1. pbft' = [pbft EXCEPT ![n] = pbft[n]] /\ msgs' = msgs
    BY <1>1, <1>6, SameAt DEF OnSoftTimeout
  <2>2. q2.byPayload = queue[n].byPayload
    BY <1>6 DEF RemoveByDigest
  <2> HIDE DEF q2, P
  <2>3. StableAt(P, n, q2, assigned[n], pbft[n], heard[n])
    BY <1>1, <2>2 DEF StableAt
  <2>4. /\ OthersAlone(n)
        /\ queue'[n] = q2 /\ assigned'[n] = assigned[n] /\ pbft'[n] = pbft[n] /\ heard'[n] = heard[n]
        /\ n # 0 => pbft'[0] = pbft[0]
    BY <1>1, <1>4, <2>1, OnlyAt
  <2>5. pbft'[0] = pbft[0]
    BY <1>3, <2>4
  <2> QED
    BY <1>3, <2>1, <2>3, <2>4, <2>5, StableStep DEF P
<1> QED
  BY <1>5, <1>6

\* A Forward: the primary proposes what is not assigned, a backup has PBFT wait
\* for it.
LEMMA StableForward ==
    ASSUME LayerInv, StableInv, NEW n \in Replica, NEW m \in msgs, OnForward(n, m)
    PROVE  StableInv'
<1> DEFINE P == pbft[0].accepted
           pb == pbft[n]
           fresh == FilterProposal(n, m.batch)
           rest == msgs \ {m}
           kept == AfterMessage(assigned[n], pb)
<1>1. /\ OnReplicas /\ Local(n, queue[n], timeouts[n], assigned[n], pb)
      /\ StableAt(P, n, queue[n], assigned[n], pb, heard[n])
      /\ Window(assigned[0], pbft[0]) /\ MessagesOK(msgs)
  BY DEF LayerInv, StableInv
<1>2. /\ pb \in PbftState /\ AssignedOK(assigned[n]) /\ (IsPrimary(n, pb) <=> n = 0)
      /\ pb.low \in Nat /\ pb.next \in Nat
  BY <1>1, FirstPrimary DEF Local, StableAt, PbftState
<1>3. m.type = "Forward" /\ m.batch \in SUBSET Payload
  BY <1>1 DEF OnForward, MessagesOK, MessageOK
<1>4. fresh \in SUBSET Payload /\ fresh \cap DOMAIN assigned[n].byPayload = {}
  BY <1>3 DEF FilterProposal, IsAssigned
<1>5. UNCHANGED <<queue, heard>>
  BY DEF OnForward
<1>6. DOMAIN kept.byPayload \subseteq DOMAIN assigned[n].byPayload
  BY <1>2, AfterMessageRemoves
<1>7. n = 0 => Window(kept, pb)
  <2>1. n = 0 => pb.low < pb.next
    BY <1>1 DEF Window
  <2>2. pb.low <= pb.low /\ pb.next <= pb.next
    BY <1>2
  <2> QED
    BY <1>1, <1>2, <2>1, <2>2, WindowPruned DEF AfterMessage
<1> HIDE DEF fresh, rest, kept
<1>8. CASE /\ n = 0
           /\ pbft' = [pbft EXCEPT ![n] = Proposed(pb, fresh)]
           /\ msgs' = rest \cup ProposalMsgs(n, pb, fresh)
           /\ assigned' = [assigned EXCEPT ![n] = AfterMessage(Assign(assigned[n], fresh, pb.next), pb)]
  <2> DEFINE pb2 == Proposed(pbft[0], fresh)
             a2 == Assign(assigned[0], fresh, pbft[0].next)
             a3 == AfterMessage(a2, pbft[0])
  <2>1. /\ P \subseteq pb2.accepted /\ AssignedOK(a2) /\ pb2 \in PbftState
        /\ StableAt(pb2.accepted, 0, queue[0], a2, pb2, heard[0])
        /\ Window(a2, pb2)
        /\ \A x \in ProposalMsgs(0, pbft[0], fresh) : FromProposal(pb2.accepted, x)
    BY <1>4, <1>8, PrimaryProposes
  <2>2. pb2.low = pbft[0].low /\ pb2.low \in Nat /\ pb2.next \in Nat
    BY <1>2, <1>8, <2>1, ProposedDef DEF PbftState
  <2>3. pbft' = [pbft EXCEPT ![n] = pb2] /\ assigned' = [assigned EXCEPT ![n] = a3]
    BY <1>8
  <2> HIDE DEF pb2, a2
  <2>4. pb2.low < pb2.next /\ pb2.low <= pb2.low /\ pb2.next <= pb2.next
    BY <2>1, <2>2 DEF Window
  <2>5. Window(a3, pb2)
    BY <2>1, <2>2, <2>4, WindowPruned DEF AfterMessage
  <2>6. DOMAIN a3.byPayload \subseteq DOMAIN a2.byPayload
    BY <1>2, <1>8, <2>1, AfterMessageRemoves
  <2> HIDE DEF a3
  <2>7. StableAt(pb2.accepted, n, queue[n], a3, pb2, heard[n])
    BY <1>8, <2>1, <2>6, StableAtKept
  <2>8. /\ OthersAlone(n)
        /\ queue'[n] = queue[n] /\ assigned'[n] = a3 /\ pbft'[n] = pb2 /\ heard'[n] = heard[n]
    BY <1>1, <1>5, <2>3, OnlyPbftAt
  <2>9. pbft'[0] = pb2
    BY <1>8, <2>8
  <2>10. \A x \in msgs' : x \in msgs \/ FromProposal(pb2.accepted, x)
    BY <1>8, <2>1 DEF rest
  <2> QED
    BY <2>1, <2>5, <2>7, <2>8, <2>9, <2>10, StableStep
<1>9. CASE /\ n # 0
           /\ pbft' = [pbft EXCEPT ![n] = Awaited(pb, fresh)]
           /\ msgs' = rest \cup {[type |-> "Forward", from |-> n,
                                  to |-> Primary(pb.view), batch |-> fresh]}
           /\ assigned' = [assigned EXCEPT ![n] = kept]
  <2> DEFINE pb2 == Awaited(pb, fresh)
  <2>1. /\ pb2.view = pb.view /\ pb2.reorder = pb.reorder
        /\ pb2.accepted = pb.accepted /\ pb2.known = pb.known \cup fresh
    BY <1>2, AwaitedDef
  <2>2. pb2.accepted \subseteq P /\ pb.known \subseteq pb2.known
    BY <1>1, <2>1 DEF StableAt
  <2> HIDE DEF pb2
  <2>3. StableAt(P, n, queue[n], kept, pb2, heard[n])
    BY <1>1, <1>6, <2>1, <2>2, StableAtKept
  <2>4. pbft' = [pbft EXCEPT ![n] = pb2]
    BY <1>9 DEF pb2
  <2>5. /\ OthersAlone(n)
        /\ queue'[n] = queue[n] /\ assigned'[n] = kept /\ pbft'[n] = pb2 /\ heard'[n] = heard[n]
        /\ n # 0 => pbft'[0] = pbft[0]
    BY <1>1, <1>5, <1>9, <2>4, OnlyPbftAt
  <2>6. pbft'[0] = pbft[0]
    BY <1>9, <2>5
  <2>7. \A x \in msgs' : x \in msgs \/ x.type = "Forward"
    BY <1>9 DEF rest
  <2>8. \A x \in msgs' : x \in msgs \/ FromProposal(P, x)
    BY <2>7 DEF FromProposal
  <2> QED
    BY <1>9, <2>3, <2>5, <2>6, <2>8, StableStep
<1>10. CASE msgs' = rest /\ assigned' = [assigned EXCEPT ![n] = kept] /\ UNCHANGED pbft
  <2>1. pbft' = [pbft EXCEPT ![n] = pb]
    BY <1>1, <1>10, SameAt
  <2>2. StableAt(P, n, queue[n], kept, pb, heard[n])
    <3>1. pb.accepted \subseteq P
      BY <1>1 DEF StableAt
    <3> QED
      BY <1>1, <1>6, <3>1, StableAtKept
  <2>3. /\ OthersAlone(n)
        /\ queue'[n] = queue[n] /\ assigned'[n] = kept /\ pbft'[n] = pb /\ heard'[n] = heard[n]
    BY <1>1, <1>5, <1>10, <2>1, OnlyPbftAt
  <2>4. \A x \in msgs' : x \in msgs
    BY <1>10 DEF rest
  <2> QED
    BY <1>7, <1>10, <2>2, <2>3, <2>4, StableStep
<1> QED
  BY <1>2, <1>8, <1>9, <1>10 DEF OnForward, fresh, rest, kept

\* An Assign: what leaves the store of a backup, and what it takes as assigned,
\* is proposed.
LEMMA StableAssign ==
    ASSUME LayerInv, StableInv, NEW n \in Replica, NEW m \in msgs, OnAssign(n, m)
    PROVE  StableInv'
<1> DEFINE P == pbft[0].accepted
           q2 == RemoveByPayload(queue[n], m.batch)
           a2 == Assign(assigned[n], m.batch, m.seq)
           a3 == AfterMessage(a2, pbft[n])
           pb2 == WithBody(pbft[n], m)
<1>1. /\ OnReplicas /\ Local(n, queue[n], timeouts[n], assigned[n], pbft[n])
      /\ StableAt(P, n, queue[n], assigned[n], pbft[n], heard[n])
      /\ MessagesOK(msgs) /\ FromProposal(P, m)
  BY DEF LayerInv, StableInv
<1>2. /\ m.type = "Assign" /\ m.to = n /\ m.batch \in SUBSET Payload /\ m.seq \in Nat
      /\ pbft[n] \in PbftState /\ AssignedOK(assigned[n])
  BY <1>1 DEF OnAssign, MessagesOK, MessageOK, Local
<1>3. n # 0 /\ \A p \in m.batch : Proposes(P, p)
  BY <1>1, <1>2 DEF FromProposal
<1>4. heard' = [heard EXCEPT ![n] = heard[n]] /\ \A x \in msgs' : x \in msgs
  BY <1>1 DEF OnAssign, OnReplicas
<1>5. CASE /\ queue' = [queue EXCEPT ![n] = q2]
           /\ pbft' = [pbft EXCEPT ![n] = pb2]
           /\ assigned' = [assigned EXCEPT ![n] = a3]
  <2>1. DOMAIN q2.byPayload = DOMAIN queue[n].byPayload \ m.batch
    BY DEF RemoveByPayload, Drop, Restrict
  <2>2. AssignedOK(a2) /\ DOMAIN a2.byPayload = DOMAIN assigned[n].byPayload \cup m.batch
    BY <1>2, AssignAdds
  <2>3. DOMAIN a3.byPayload \subseteq DOMAIN assigned[n].byPayload \cup m.batch
    BY <1>2, <2>2, AfterMessageRemoves
  <2>4. /\ pb2.view = pbft[n].view /\ pb2.reorder = pbft[n].reorder
        /\ pb2.accepted = pbft[n].accepted /\ pb2.known = pbft[n].known
    BY <1>2, WithBodyDef
  <2> HIDE DEF q2, a2, a3, pb2, P
  <2>5. StableAt(P, n, q2, a3, pb2, heard[n])
    BY <1>1, <1>3, <2>1, <2>3, <2>4 DEF StableAt
  <2>6. /\ OthersAlone(n)
        /\ queue'[n] = q2 /\ assigned'[n] = a3 /\ pbft'[n] = pb2 /\ heard'[n] = heard[n]
        /\ n # 0 => pbft'[0] = pbft[0]
    BY <1>1, <1>4, <1>5, OnlyAt
  <2>7. pbft'[0] = pbft[0]
    BY <1>3, <2>6
  <2> QED
    BY <1>3, <1>4, <2>5, <2>6, <2>7, StableStep DEF P
<1>6. CASE UNCHANGED <<queue, pbft, assigned>>
  <2>1. /\ OthersAlone(n) /\ heard'[n] = heard[n]
        /\ queue'[n] = queue[n] /\ assigned'[n] = assigned[n] /\ pbft'[n] = pbft[n]
    <3>1. heard' = heard
      BY DEF OnAssign
    <3> QED
      BY <1>6, <3>1 DEF OthersAlone
  <2> QED
    BY <1>1, <1>3, <1>4, <1>6, <2>1, StableStep
<1> QED
  BY <1>5, <1>6 DEF OnAssign

\* A PrePrepare: a backup accepts a proposal.
LEMMA StablePrePrepare ==
    ASSUME LayerInv, StableInv, NEW n \in Replica, NEW m \in msgs, OnPrePrepare(n, m)
    PROVE  StableInv'
<1> DEFINE P == pbft[0].accepted
           pb2 == PrePrepared(pbft[n], m)
           kept == AfterMessage(assigned[n], pbft[n])
<1>1. /\ OnReplicas /\ pbft[n] \in PbftState /\ AssignedOK(assigned[n])
      /\ StableAt(P, n, queue[n], assigned[n], pbft[n], heard[n])
      /\ FromProposal(P, m)
  BY DEF LayerInv, StableInv, Local
<1>2. n # 0 /\ [view |-> m.view, seq |-> m.seq, batch |-> m.batch] \in P
  BY <1>1 DEF OnPrePrepare, FromProposal
<1>3. /\ pb2.view = pbft[n].view /\ pb2.reorder = pbft[n].reorder /\ pb2.known = pbft[n].known
      /\ pb2.accepted \subseteq pbft[n].accepted \cup {[view |-> m.view, seq |-> m.seq, batch |-> m.batch]}
  BY <1>1, PrePreparedDef
<1>4. pb2.accepted \subseteq P
  BY <1>1, <1>2, <1>3 DEF StableAt
<1>5. DOMAIN kept.byPayload \subseteq DOMAIN assigned[n].byPayload
  BY <1>1, AfterMessageRemoves
<1>6. /\ pbft' = [pbft EXCEPT ![n] = pb2] /\ assigned' = [assigned EXCEPT ![n] = kept]
      /\ UNCHANGED <<queue, heard>> /\ \A x \in msgs' : x \in msgs
  BY DEF OnPrePrepare
<1> HIDE DEF pb2, kept
<1>7. StableAt(P, n, queue[n], kept, pb2, heard[n])
  BY <1>1, <1>3, <1>4, <1>5, StableAtKept
<1>8. /\ OthersAlone(n)
      /\ queue'[n] = queue[n] /\ assigned'[n] = kept /\ pbft'[n] = pb2 /\ heard'[n] = heard[n]
      /\ n # 0 => pbft'[0] = pbft[0]
  BY <1>1, <1>6, OnlyPbftAt
<1>9. pbft'[0] = pbft[0]
  BY <1>2, <1>8
<1> QED
  BY <1>2, <1>6, <1>7, <1>8, <1>9, StableStep

\* A commit: what PBFT stops waiting for is in the executed proposal.
LEMMA StableCommit ==
    ASSUME LayerInv, StableInv, NEW n \in Replica, OnCommit(n)
    PROVE  StableInv'
<1> DEFINE P == pbft[0].accepted
           kept == AfterMessage(assigned[n], pbft[n])
<1>1. /\ OnReplicas /\ pbft[n] \in PbftState /\ AssignedOK(assigned[n])
      /\ StableAt(P, n, queue[n], assigned[n], pbft[n], heard[n])
      /\ Window(assigned[0], pbft[0])
  BY DEF LayerInv, StableInv, Local
<1>2. PICK a \in pbft[n].accepted : pbft' = [pbft EXCEPT ![n] = Executed(pbft[n], a)]
  BY DEF OnCommit
<1> DEFINE pb2 == Executed(pbft[n], a)
<1>3. /\ pb2.view = pbft[n].view /\ pb2.reorder = pbft[n].reorder
      /\ pb2.low = pbft[n].low /\ pb2.next = pbft[n].next
      /\ pb2.accepted = pbft[n].accepted /\ pb2.known = pbft[n].known \ a.batch
  BY <1>1, ExecutedDef
<1>4. pb2 \in PbftState /\ pb2.low \in Nat /\ pb2.next \in Nat
  BY <1>1, <1>3, ExecutedType DEF PbftState
<1>5. DOMAIN kept.byPayload \subseteq DOMAIN assigned[n].byPayload
  BY <1>1, AfterMessageRemoves
<1>6. /\ pbft' = [pbft EXCEPT ![n] = pb2] /\ assigned' = [assigned EXCEPT ![n] = kept]
      /\ UNCHANGED <<queue, heard>> /\ \A x \in msgs' : x \in msgs
  BY <1>2 DEF OnCommit
<1> HIDE DEF pb2
<1>7. n = 0 => Window(kept, pb2)
  <2>1. n = 0 => pb2.low < pb2.next
    BY <1>1, <1>3 DEF Window
  <2>2. pbft[n].low <= pb2.low /\ pbft[n].next <= pb2.next
    BY <1>3, <1>4
  <2> QED
    BY <1>1, <1>3, <1>4, <2>1, <2>2, WindowPruned DEF AfterMessage
<1> HIDE DEF kept, P
<1>8. \A p \in a.batch : Proposes(P, p)
  BY <1>1, <1>2 DEF StableAt, Proposes
<1>9. StableAt(P, n, queue[n], kept, pb2, heard[n])
  BY <1>1, <1>3, <1>5, <1>8 DEF StableAt
<1>10. /\ OthersAlone(n)
       /\ queue'[n] = queue[n] /\ assigned'[n] = kept /\ pbft'[n] = pb2 /\ heard'[n] = heard[n]
       /\ n # 0 => pbft'[0] = pbft[0]
  BY <1>1, <1>6, OnlyPbftAt
<1>11. pbft'[0].accepted = P
  BY <1>3, <1>10 DEF P
<1>12. pbft[0].accepted \subseteq pbft'[0].accepted
  BY <1>11 DEF P
<1> QED
  BY <1>6, <1>7, <1>9, <1>10, <1>11, <1>12, StableStep

\* A checkpoint moves the window on.
LEMMA StableCheckpoint ==
    ASSUME LayerInv, StableInv, NEW n \in Replica, NEW c \in Nat, OnCheckpoint(n, c)
    PROVE  StableInv'
<1> DEFINE P == pbft[0].accepted
           pb2 == CheckpointAt(pbft[n], c)
           kept == AfterMessage(assigned[n], pb2)
<1>1. /\ OnReplicas /\ pbft[n] \in PbftState /\ AssignedOK(assigned[n])
      /\ StableAt(P, n, queue[n], assigned[n], pbft[n], heard[n])
      /\ Window(assigned[0], pbft[0])
  BY DEF LayerInv, StableInv, Local
<1>2. /\ pb2.low = c /\ pb2.view = pbft[n].view /\ pb2.reorder = pbft[n].reorder
      /\ pb2.accepted = pbft[n].accepted /\ pb2.known = pbft[n].known
      /\ c < pb2.next /\ pbft[n].next <= pb2.next
  BY <1>1, CheckpointAtDef
<1>3. pb2 \in PbftState /\ pbft[n].low \in Nat
  BY <1>1, CheckpointAtType DEF PbftState
<1>4. pbft[n].low <= pb2.low /\ pb2.low < pb2.next
  BY <1>2, <1>3 DEF OnCheckpoint
<1>5. /\ pbft' = [pbft EXCEPT ![n] = pb2] /\ assigned' = [assigned EXCEPT ![n] = kept]
      /\ UNCHANGED <<queue, heard>> /\ \A x \in msgs' : x \in msgs
  BY DEF OnCheckpoint
<1> HIDE DEF pb2
<1>6. DOMAIN kept.byPayload \subseteq DOMAIN assigned[n].byPayload
  BY <1>1, <1>3, AfterMessageRemoves
<1>7. n = 0 => Window(kept, pb2)
  BY <1>1, <1>2, <1>3, <1>4, WindowPruned DEF AfterMessage
<1> HIDE DEF kept
<1>8. pb2.accepted \subseteq P /\ pbft[n].known \subseteq pb2.known
  BY <1>1, <1>2 DEF StableAt
<1>9. StableAt(P, n, queue[n], kept, pb2, heard[n])
  BY <1>1, <1>2, <1>6, <1>8, StableAtKept
<1>10. /\ OthersAlone(n)
       /\ queue'[n] = queue[n] /\ assigned'[n] = kept /\ pbft'[n] = pb2 /\ heard'[n] = heard[n]
       /\ n # 0 => pbft'[0] = pbft[0]
  BY <1>1, <1>5, OnlyPbftAt
<1>11. pbft'[0].accepted = pbft[0].accepted
  BY <1>2, <1>10
<1> QED
  BY <1>5, <1>7, <1>9, <1>10, <1>11, StableStep

-----------------------------------------------------------------------------
(* The theorems about a stable view                                         *)

LEMMA StableInit ==
    Init => StableInv
<1> SUFFICES ASSUME Init PROVE StableInv
  OBVIOUS
<1>1. 0 \in Replica /\ Start \in Nat
  BY FirstPrimary, PbftAssumption
<1>2. ASSUME NEW n \in Replica
      PROVE  StableAt(pbft[0].accepted, n, queue[n], assigned[n], pbft[n], heard[n])
  <2>1. /\ pbft[n].view = 0 /\ pbft[n].reorder = {} /\ pbft[n].accepted = {}
        /\ DOMAIN assigned[n].byPayload = {}
    BY DEF Init, InitPbft, NothingAssigned
  <2>2. \A p \in Payload : ~(heard[n][p] > 0)
    BY DEF Init
  <2> QED
    BY <2>1, <2>2 DEF StableAt
<1>3. Window(assigned[0], pbft[0])
  <2>1. /\ pbft[0].low < pbft[0].next /\ pbft[0].accepted = {}
        /\ DOMAIN assigned[0].bySequence = {}
    BY <1>1 DEF Init, InitPbft, NothingAssigned
  <2> QED
    BY <2>1 DEF Window
<1>4. msgs = {}
  BY DEF Init
<1> QED
  BY <1>2, <1>3, <1>4 DEF StableInv

\* No view but the first: no replica votes, no vote or new view is under way
\* and no reorder buffer is filled.
LEMMA StableNext ==
    ASSUME MaxView = 0, LayerInv, StableInv, [Next]_vars
    PROVE  StableInv'
<1>1. CASE UNCHANGED vars
  BY <1>1 DEF vars, StableInv
<1>2. CASE Next
  <2>1. PICK n \in Running :
           \/ \E p \in Payload : OnRequest(n, p)
           \/ \E r \in pbft[n].reorder : OnReorder(n, r)
           \/ \E t \in Key : OnSoftTimeout(n, t)
           \/ OnMessage(n)
           \/ ViewChanges(n)
    BY <1>2 DEF Next
  <2>2. n \in Replica
    BY LayerAssumption
  <2>3. CASE \E p \in Payload : OnRequest(n, p)
    BY <2>2, <2>3, StableRequest
  <2>4. CASE \E r \in pbft[n].reorder : OnReorder(n, r)
    BY <2>2, <2>4 DEF StableInv, StableAt
  <2>5. CASE \E t \in Key : OnSoftTimeout(n, t)
    BY <2>2, <2>5, StableSoftTimeout
  <2>6. CASE OnMessage(n)
    <3>1. CASE \E m \in msgs : OnForward(n, m) \/ OnAssign(n, m) \/ OnPrePrepare(n, m)
      BY <2>2, <3>1, StableForward, StableAssign, StablePrePrepare
    <3>2. CASE OnCommit(n)
      BY <2>2, <3>2, StableCommit
    <3>3. CASE \E m \in Replica : \E c \in 1 .. pbft[m].executed : OnCheckpoint(n, c)
      BY <2>2, <3>3, StableCheckpoint
    <3>4. QED
      BY <2>6, <3>1, <3>2, <3>3 DEF OnMessage
  <2>7. CASE ViewChanges(n)
    <3>1. ~OnPbftTimeout(n)
      BY <2>2 DEF OnPbftTimeout, StableInv, StableAt
    <3>2. \A m \in msgs : ~OnViewChange(n, m) /\ ~OnNewView(n, m)
      BY DEF OnViewChange, OnNewView, StableInv, FromProposal
    <3> QED
      BY <2>7, <3>1, <3>2 DEF ViewChanges
  <2> QED
    BY <2>1, <2>3, <2>4, <2>5, <2>6, <2>7
<1> QED
  BY <1>1, <1>2

\* StableInv holds in every reachable state of a system in its first view.
LEMMA StableInvariance ==
    ASSUME MaxView = 0
    PROVE  Spec => []StableInv
<1>1. LayerInv /\ StableInv /\ [Next]_vars => StableInv'
  BY StableNext
<1> QED
  BY <1>1, StableInit, Invariance, PTL DEF Spec

\* Without a view change, a payload that the primary has ordered is not ordered
\* again within Backlog sequence numbers, however many replicas hear it, time
\* out and forward it and whatever checkpoints prune the window between
\* (filter_proposal, lib.rs:151-160, and assigned_reqs.rs:21-53).
THEOREM NoEarlyRepeat ==
    ASSUME MaxView = 0
    PROVE  Spec => []NoRepeatWithinBacklog
<1>1. LayerInv /\ StableInv => NoRepeatWithinBacklog
  BY StableImplies
<1> QED
  BY <1>1, Invariance, StableInvariance, PTL

\* Without a view change, what a running replica heard is stored with a timer,
\* waited for by PBFT or in a proposal: neither a drop as assigned (lib.rs:185)
\* nor a removal on Assign (lib.rs:102-112) or on a soft timeout (lib.rs:129)
\* loses it.
THEOREM HeardNotLost ==
    ASSUME MaxView = 0
    PROVE  Spec => []HeardIsHeld
<1>1. LayerInv /\ StableInv => HeardIsHeld
  BY StableImplies
<1> QED
  BY <1>1, Invariance, StableInvariance, PTL
=============================================================================

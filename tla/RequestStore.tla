---------------------------- MODULE RequestStore ----------------------------
(***************************************************************************)
(* The store of requests that a backup has heard on its own bus but has    *)
(* not seen ordered yet: rc-bft2/src/request_queue.rs.  A store is a       *)
(* record of three maps, as in the code:                                   *)
(*                                                                         *)
(*   requests    the SlotMap of entries, a function from slot keys;        *)
(*   byPayload   the index from payloads to slot keys;                     *)
(*   byDigest    the index from proposal digests to slot keys.             *)
(*                                                                         *)
(* The layer never looks at a request's source or client sequence, so a    *)
(* request is its payload.  The module has no variables: the operators are *)
(* used by RcBft2, and by the lemmas of RcBft2_proofs.                     *)
(***************************************************************************)
EXTENDS Naturals, FiniteSets, Functions

CONSTANTS
    Payload,   \* the payloads the bus can carry
    Key        \* slot keys and timer keys; a bound on how many are in use

-----------------------------------------------------------------------------
(* Maps *)

NoMap == [x \in {} |-> x]

\* The map f with k bound to v, whether or not k was bound (HashMap::insert).
Put(f, k, v) == [x \in DOMAIN f \cup {k} |-> IF x = k THEN v ELSE f[x]]

\* The map f without the keys S (HashMap::remove of each).
Drop(f, S) == Restrict(f, DOMAIN f \ S)

\* Maps from a subset of S to values in T.
MapsOver(S, T) == UNION {[D -> T] : D \in SUBSET S}

-----------------------------------------------------------------------------

\* SHA-256 over the payload of a single-request proposal.  Two payloads have
\* the same digest only if they are equal, and a digest is no payload.
Digest(p) == [sha256 |-> p]

Digests == {Digest(p) : p \in Payload}

\* struct Entry: the request, its digest and the key of its soft timer.
Entry == [proposal : Payload, digest : Digests, timeout : Key]

Store == [requests  : MapsOver(Key, Entry),
          byPayload : MapsOver(Payload, Key),
          byDigest  : MapsOver(Digests, Key)]

EmptyStore == [requests |-> NoMap, byPayload |-> NoMap, byDigest |-> NoMap]

\* A SlotMap key is versioned: a new one is neither in use nor held by an
\* index as a stale key.
KeysInUse(s) == DOMAIN s.requests \cup Range(s.byPayload) \cup Range(s.byDigest)

\* A fault: the payload index keyed by the digest.
InsertUnderDigest(s, p, d, timeout) ==
    LET key == CHOOSE k \in Key : k \notin KeysInUse(s)
    IN  [requests  |-> Put(s.requests, key,
                           [proposal |-> p, digest |-> d, timeout |-> timeout]),
         byPayload |-> Put(s.byPayload, d, key),
         byDigest  |-> Put(s.byDigest, d, key)]

\* insert_with_digest: when the payload is already indexed, both indexes are
\* overwritten and the earlier entry stays in the slot map, unindexed.
InsertWithDigest(s, p, d, timeout) ==
    LET key == CHOOSE k \in Key : k \notin KeysInUse(s)
    IN  [requests  |-> Put(s.requests, key,
                           [proposal |-> p, digest |-> d, timeout |-> timeout]),
         byPayload |-> Put(s.byPayload, p, key),
         byDigest  |-> Put(s.byDigest, d, key)]

\* The slot keys remove_by_payload finds for the payloads of a batch.
FoundByPayload(s, batch) ==
    {s.byPayload[p] : p \in batch \cap DOMAIN s.byPayload} \cap DOMAIN s.requests

\* Faults: the digest index is left behind; the lookup result is not removed.
RemoveKeepingDigest(s, batch) ==
    [s EXCEPT !.requests = Drop(@, FoundByPayload(s, batch)),
              !.byPayload = Drop(@, batch)]

PeekByPayload(s, batch) == s

\* remove_by_payload of every payload of a batch.
RemoveByPayload(s, batch) ==
    LET found == FoundByPayload(s, batch)
    IN  [requests  |-> Drop(s.requests, found),
         byPayload |-> Drop(s.byPayload, batch),
         byDigest  |-> Drop(s.byDigest, {s.requests[k].digest : k \in found})]

\* Whether remove_by_digest returns an entry, the entry, and what is left.
FoundByDigest(s, d) == d \in DOMAIN s.byDigest /\ s.byDigest[d] \in DOMAIN s.requests

EntryByDigest(s, d) == s.requests[s.byDigest[d]]

RemoveByDigest(s, d) ==
    [requests  |-> IF FoundByDigest(s, d)
                   THEN Drop(s.requests, {s.byDigest[d]}) ELSE s.requests,
     byPayload |-> IF FoundByDigest(s, d)
                   THEN Drop(s.byPayload, {EntryByDigest(s, d).proposal}) ELSE s.byPayload,
     byDigest  |-> Drop(s.byDigest, {d})]

\* drain: every entry of the slot map, the unindexed ones included, leaves
\* the store, and takes its index entries with it.
Drained(s) == {<<{k}, s.requests[k].proposal>> : k \in DOMAIN s.requests}

\* A fault: the entries are copied, not drained.
CopyEntries(s) == s

Drain(s) ==
    LET entries == Range(s.requests)
    IN  [requests  |-> NoMap,
         byPayload |-> Drop(s.byPayload, {e.proposal : e \in entries}),
         byDigest  |-> Drop(s.byDigest, {e.digest : e \in entries})]

\* iter_mut as on_new_view uses it: every entry gets the timer key timeout[k].
RearmEntries(s, timeout) ==
    [s EXCEPT !.requests =
        [k \in DOMAIN s.requests |-> [s.requests[k] EXCEPT !.timeout = timeout[k]]]]
-----------------------------------------------------------------------------
\* Both indexes name the same entry for p, and the timer key of that entry is
\* a timer of the queue T that runs for it.
WaitsWithTimer(s, T, p) ==
    /\ s.byPayload[p] \in DOMAIN s.requests
    /\ s.byDigest[Digest(p)] = s.byPayload[p]
    /\ LET e == s.requests[s.byPayload[p]]
       IN  /\ e.proposal = p /\ e.digest = Digest(p)
           /\ e.timeout \in DOMAIN T /\ T[e.timeout] = Digest(p)

Timed(s, T) ==
    /\ DOMAIN s.byDigest = {Digest(p) : p \in DOMAIN s.byPayload}
    /\ \A p \in DOMAIN s.byPayload : WaitsWithTimer(s, T, p)
=============================================================================

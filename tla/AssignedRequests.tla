-------------------------- MODULE AssignedRequests --------------------------
(***************************************************************************)
(* The payloads a replica knows to be assigned to a sequence number:       *)
(* rc-bft2/src/assigned_reqs.rs.  The structure is a record of             *)
(*                                                                         *)
(*   byPayload    the map from payloads to the sequence number last        *)
(*                assigned to each, what is_assigned looks at;             *)
(*   bySequence   the slots: the batch assigned to each sequence number;   *)
(*   first        first_idx of the slots.                                  *)
(*                                                                         *)
(* A batch is the set of its payloads.  themis_core::protocol::Slots is    *)
(* external: a ring of HighMark + Backlog slots starting at first, in      *)
(* which an insert outside the ring is refused.                            *)
(***************************************************************************)
EXTENDS Naturals, Functions

CONSTANTS
    HighMark,   \* high_mark_delta: how far PBFT proposes past its low mark
    Backlog     \* railchain.bft.backlog: sequence numbers kept below the low mark

ASSUME WindowAssumption == HighMark \in Nat \ {0} /\ Backlog \in Nat

NothingAssigned == [byPayload |-> [p \in {} |-> 0], bySequence |-> [s \in {} |-> {}], first |-> 1]

IsAssigned(a, p) == p \in DOMAIN a.byPayload

InSlots(a, seq) == seq \in a.first .. (a.first + HighMark + Backlog - 1)

\* assign: both maps are overwritten; what the slot held before stays in
\* byPayload.
Assign(a, batch, seq) ==
    [byPayload  |-> [p \in DOMAIN a.byPayload \cup batch |->
                        IF p \in batch THEN seq ELSE a.byPayload[p]],
     bySequence |-> IF InSlots(a, seq)
                    THEN [s \in DOMAIN a.bySequence \cup {seq} |->
                             IF s = seq THEN batch ELSE a.bySequence[s]]
                    ELSE a.bySequence,
     first      |-> a.first]

\* A fault: the backlog is not kept.
NewLowNoBacklog(lowMark) == lowMark

\* low_mark.saturating_sub(backlog)
NewLow(lowMark) == IF lowMark > Backlog THEN lowMark - Backlog ELSE 0

\* The slots that checkpoint(lowMark) prunes, and the payloads in them.
Pruned(a, lowMark) == {s \in DOMAIN a.bySequence : s =< NewLow(lowMark)}

PrunedPayloads(a, lowMark) == UNION {a.bySequence[s] : s \in Pruned(a, lowMark)}

\* checkpoint: the payloads of the pruned slots are no longer assigned, at
\* whatever sequence number byPayload holds for them now.
CheckpointAssigned(a, lowMark) ==
    [byPayload  |-> Restrict(a.byPayload, DOMAIN a.byPayload \ PrunedPayloads(a, lowMark)),
     bySequence |-> Restrict(a.bySequence, DOMAIN a.bySequence \ Pruned(a, lowMark)),
     first      |-> NewLow(lowMark) + 1]
=============================================================================

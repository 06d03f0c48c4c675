-------------------------------- MODULE Pbft --------------------------------
(***************************************************************************)
(* themis_pbft::PBFT as the layer of rc-bft2 sees it.  The crate is an     *)
(* external dependency: every operator here is modelled from how           *)
(* rc-bft2/src/lib.rs and rc-bft2/src/test.rs use it.  A replica's PBFT is *)
(* a record of                                                             *)
(*                                                                         *)
(*   view       the view it is in; target the view it last voted for;      *)
(*   low        low_mark(): the last stable checkpoint;                    *)
(*   next       next_sequence(): what a primary assigns next;              *)
(*   executed   the last sequence number handed to the application;        *)
(*   accepted   the pre-prepares accepted, [view, seq, batch];             *)
(*   bodies     the assignments received, [seq, batch];                    *)
(*   known      requests it waits for (is_known), payloads;                *)
(*   votes      the view-change votes received, [from, view];              *)
(*   reorder    reorder_buffer: payloads tagged with the slot key they     *)
(*              were drained from ({} for PBFT's own), so that two requests *)
(*              with the same payload stay two.                            *)
(*                                                                         *)
(* The prepare and commit rounds are one: a replica votes for a            *)
(* pre-prepare it accepted once it has its body, and a quorum of votes     *)
(* chooses the batch.                                                      *)
(***************************************************************************)
EXTENDS Naturals, FiniteSets

CONSTANTS
    N,          \* number of replicas
    Interval,   \* checkpoint_interval
    Start       \* pbft.start_sequence: what a resumed chain already holds

ASSUME PbftAssumption == N \in Nat \ {0} /\ Interval \in Nat \ {0} /\ Start \in Nat

Replica == 0 .. N - 1

Primary(view) == view % N

\* N = 3f + 1 replicas, 2f + 1 of them a quorum.
IsQuorum(S) == 3 * Cardinality(S) > 2 * (N - 1)

InitPbft == [view |-> 0, target |-> 0, low |-> Start, next |-> Start + 1,
             executed |-> Start, accepted |-> {}, bodies |-> {}, known |-> {},
             votes |-> {}, reorder |-> {}]

IsPrimary(n, pb) == Primary(pb.view) = n

\* handle_new_proposal on the primary, and what it sends to the other replicas.
Proposed(pb, batch) ==
    [pb EXCEPT !.next = @ + 1,
               !.accepted = @ \cup {[view |-> pb.view, seq |-> pb.next, batch |-> batch]},
               !.bodies = @ \cup {[seq |-> pb.next, batch |-> batch]}]

ProposalMsgs(n, pb, batch) ==
    UNION {{[type |-> "PrePrepare", to |-> m, view |-> pb.view, seq |-> pb.next, batch |-> batch],
            [type |-> "Assign", to |-> m, seq |-> pb.next, batch |-> batch]} :
           m \in Replica \ {n}}

\* handle_new_proposal on a backup: PBFT now waits for the request.
Awaited(pb, batch) == [pb EXCEPT !.known = @ \cup batch]

\* handle_pre_prepare and handle_assign.
Accepts(pb, m) == m.view = pb.view /\ pb.target =< pb.view /\ m.seq > pb.low

PrePrepared(pb, m) ==
    IF Accepts(pb, m)
    THEN [pb EXCEPT !.accepted = @ \cup {[view |-> m.view, seq |-> m.seq, batch |-> m.batch]}]
    ELSE pb

WithBody(pb, m) == [pb EXCEPT !.bodies = @ \cup {[seq |-> m.seq, batch |-> m.batch]}]

\* A null request, batch {}, needs no body.
VotedFor(pb, a) ==
    a \in pb.accepted /\ (a.batch = {} \/ [seq |-> a.seq, batch |-> a.batch] \in pb.bodies)

Chosen(pbs, a) == IsQuorum({n \in Replica : VotedFor(pbs[n], a)})

\* Execution of the next sequence number; PBFT stops waiting for the batch.
Executes(pbs, n, a) ==
    a.seq = pbs[n].executed + 1 /\ VotedFor(pbs[n], a) /\ Chosen(pbs, a)

Executed(pb, a) == [pb EXCEPT !.executed = a.seq, !.known = @ \ a.batch]

\* A checkpoint at c is stable once a quorum executed up to c; a replica that
\* is behind takes the application's state over (FullCheckpoint).
Stable(pbs, c) == c % Interval = 0 /\ IsQuorum({n \in Replica : pbs[n].executed >= c})

CheckpointAt(pb, c) ==
    [pb EXCEPT !.low = c, !.executed = IF @ < c THEN c ELSE @,
               !.next = IF @ =< c THEN c + 1 ELSE @]

\* The request timer: a replica that waits for something votes for the next view.
Waits(pb) == pb.known # {} \/ \E b \in pb.bodies : b.seq > pb.executed

VotesForNextView(n, pb) ==
    [pb EXCEPT !.target = pb.view + 1,
               !.votes = @ \cup {[from |-> n, view |-> pb.view + 1]}]

\* The batches a new primary may carry over: one for each sequence number up
\* to the last, what is chosen among them, null requests in the gaps before it.
Candidates(pbs, s) == {{}} \cup {a.batch : a \in {a \in UNION {pbs[n].accepted : n \in Replica} : a.seq = s}}

Carries(pbs, low, last) ==
    {c \in [low + 1 .. last -> UNION {Candidates(pbs, s) : s \in low + 1 .. last}] :
        \A s \in low + 1 .. last :
            /\ c[s] \in Candidates(pbs, s)
            /\ s = last => c[s] # {}
            /\ \A a \in UNION {pbs[n].accepted : n \in Replica} :
                  a.seq = s /\ Chosen(pbs, a) => c[s] = a.batch}

\* Everything chosen lies below the last carried sequence number.
CarriesAllChosen(pbs, last) ==
    \A a \in UNION {pbs[n].accepted : n \in Replica} : Chosen(pbs, a) => a.seq =< last

\* A replica enters a view with the carried batches accepted in it.
EntersView(pb, view, carry) ==
    [pb EXCEPT !.view = view,
               !.target = IF @ < view THEN view ELSE @,
               !.accepted = @ \cup {[view |-> view, seq |-> s, batch |-> carry[s]] : s \in DOMAIN carry}]

\* The new primary re-orders every request it waits for or got assigned that
\* is neither executed nor carried over, and proposes after the carried ones.
BecomesPrimary(pb, view, carry, last) ==
    [EntersView(pb, view, carry) EXCEPT
        !.next = last + 1,
        !.reorder = {<<{}, p>> : p \in
            (pb.known \cup UNION {b.batch : b \in {b \in pb.bodies : b.seq > pb.executed}})
               \ UNION {carry[s] : s \in DOMAIN carry}}]
=============================================================================

------------------------------- MODULE RcBft2 -------------------------------
(***************************************************************************)
(* The duplicate-filtering layer every ZugChain replica runs around PBFT:  *)
(* rc-bft2/src/lib.rs.  All replicas hear the same bus.  The primary has   *)
(* PBFT order what it hears, unless the payload is already assigned; a     *)
(* backup keeps what it hears in a store with a soft timer per entry, until *)
(* the primary's Assign message shows that the payload is being ordered or *)
(* the timer expires and the request is forwarded.                         *)
(*                                                                         *)
(* Every handler holds &mut self across its awaits, so a handler is one    *)
(* action.  `message` ends every message handler with                      *)
(* assigned.checkpoint(low_mark()), which is part of each of those actions. *)
(* Requests reach the layer one at a time (the batch size is 1 in every    *)
(* configuration of the repository), so a proposal is a batch of one.      *)
(***************************************************************************)
EXTENDS RequestStore, AssignedRequests, Pbft

CONSTANTS
    Running,    \* the replicas that take steps; the others have crashed
    MaxCopies,  \* bound: how often each replica hears the same payload
    MaxView     \* bound: the last view; 0 for a system without view changes

ASSUME LayerAssumption == Running \subseteq Replica /\ MaxCopies \in [Replica -> Nat] /\ MaxView \in Nat

VARIABLES
    queue,      \* request_queue of each replica
    timeouts,   \* soft_timeouts of each replica: a map from timer keys to digests
    assigned,   \* assigned of each replica
    pbft,       \* pbft of each replica (external)
    msgs,       \* messages sent and not yet handled; links neither lose nor order
    heard       \* history: how often each replica heard each payload on its bus

vars == <<queue, timeouts, assigned, pbft, msgs, heard>>

Init ==
    /\ queue = [n \in Replica |-> EmptyStore]
    /\ timeouts = [n \in Replica |-> NoMap]
    /\ assigned = [n \in Replica |-> NothingAssigned]
    /\ pbft = [n \in Replica |-> InitPbft]
    /\ msgs = {}
    /\ heard = [n \in Replica |-> [p \in Payload |-> 0]]

-----------------------------------------------------------------------------
(* Steps shared by the handlers.  pb is the state of n's PBFT the handler   *)
(* starts from, sent the messages it leaves in the network.                 *)

\* A fault: the filter's condition inverted.
KeepAssigned(n, batch) == {p \in batch : IsAssigned(assigned[n], p)}

\* filter_proposal: what is left of the batch.
FilterProposal(n, batch) == {p \in batch : ~IsAssigned(assigned[n], p)}

\* The primary hands the batch to PBFT and assigns it the sequence number it
\* read before the call.
ProposeAndAssign(n, pb, batch, sent) ==
    /\ pb.next =< pb.low + HighMark
    /\ pbft' = [pbft EXCEPT ![n] = Proposed(pb, batch)]
    /\ msgs' = sent \cup ProposalMsgs(n, pb, batch)
    /\ assigned' = [assigned EXCEPT ![n] = Assign(@, batch, pb.next)]

\* A free key of the timer queue. tokio's DelayQueue reuses the keys of
\* timers that fired or were removed.
FreeTimer(n) == CHOOSE t \in Key : t \notin DOMAIN timeouts[n]

HasRoom(n) == (\E t \in Key : t \notin DOMAIN timeouts[n]) /\ (\E k \in Key : k \notin KeysInUse(queue[n]))

\* A backup starts a soft timer for the request and stores it.
WaitForAssign(n, p) ==
    /\ HasRoom(n)
    /\ timeouts' = [timeouts EXCEPT ![n] = Put(@, FreeTimer(n), Digest(p))]
    /\ queue' = [queue EXCEPT ![n] = InsertWithDigest(@, p, Digest(p), FreeTimer(n))]

\* handle_new_proposal of a request that is not READ_ONLY.
HandleNewProposal(n, pb, p) ==
    \/ /\ IsPrimary(n, pb)
       /\ FilterProposal(n, {p}) # {}
       /\ ProposeAndAssign(n, pb, FilterProposal(n, {p}), msgs)
       /\ UNCHANGED <<queue, timeouts>>
    \/ /\ ~IsPrimary(n, pb)
       /\ ~IsAssigned(assigned[n], p)
       /\ WaitForAssign(n, p)
       /\ pbft' = [pbft EXCEPT ![n] = pb]
       /\ UNCHANGED <<assigned, msgs>>
    \/ /\ IF IsPrimary(n, pb) THEN FilterProposal(n, {p}) = {} ELSE IsAssigned(assigned[n], p)
       /\ pbft' = [pbft EXCEPT ![n] = pb]
       /\ UNCHANGED <<queue, timeouts, assigned, msgs>>

\* The trailing assigned.checkpoint(low_mark()) of `message`.
AfterMessage(a, pb) == CheckpointAssigned(a, pb.low)

-----------------------------------------------------------------------------
(* Requests                                                                 *)

\* on_request: n hears p on its own bus.
OnRequest(n, p) ==
    /\ heard[n][p] < MaxCopies[n]
    /\ heard' = [heard EXCEPT ![n][p] = @ + 1]
    /\ HandleNewProposal(n, pbft[n], p)

\* poll_next returns Event::Reorder, which comes back through on_request.
OnReorder(n, r) ==
    /\ r \in pbft[n].reorder
    /\ HandleNewProposal(n, [pbft[n] EXCEPT !.reorder = @ \ {r}], r[2])
    /\ UNCHANGED heard

\* A fault: the Forward goes to the next replica only.
ForwardToNext(n, batch) ==
    {[type |-> "Forward", from |-> n, to |-> (n + 1) % N, batch |-> batch]}

\* The Forward a soft timeout broadcasts.
ForwardToAll(n, batch) ==
    {[type |-> "Forward", from |-> n, to |-> m, batch |-> batch] : m \in Replica \ {n}}

\* on_soft_timeout: the timer has left the queue; when its digest is still
\* indexed the request leaves the store, is broadcast as a Forward and goes to
\* PBFT.
OnSoftTimeout(n, t) ==
    /\ t \in DOMAIN timeouts[n]
    /\ timeouts' = [timeouts EXCEPT ![n] = Drop(@, {t})]
    /\ LET d == timeouts[n][t]
           p == EntryByDigest(queue[n], d).proposal
       IN  /\ queue' = [queue EXCEPT ![n] = RemoveByDigest(@, d)]
           /\ IF FoundByDigest(queue[n], d)
              THEN /\ pbft' = [pbft EXCEPT ![n] =
                                  IF IsPrimary(n, @) THEN Proposed(@, {p}) ELSE Awaited(@, {p})]
                   /\ msgs' = msgs \cup ForwardToAll(n, {p})
                        \cup (IF IsPrimary(n, pbft[n])
                              THEN ProposalMsgs(n, pbft[n], {p}) ELSE {})
              ELSE UNCHANGED <<pbft, msgs>>
    /\ UNCHANGED <<assigned, heard>>

-----------------------------------------------------------------------------
(* Messages                                                                 *)

\* on_forward: the primary proposes what is not assigned; a backup has PBFT
\* wait for it and passes it on to the primary.
OnForward(n, m) ==
    /\ m \in msgs /\ m.type = "Forward" /\ m.to = n
    /\ LET pb == pbft[n]
           fresh == FilterProposal(n, m.batch)
           rest == msgs \ {m}
       IN  \/ /\ IsPrimary(n, pb) /\ fresh # {}
              /\ pb.next =< pb.low + HighMark
              /\ pbft' = [pbft EXCEPT ![n] = Proposed(pb, fresh)]
              /\ msgs' = rest \cup ProposalMsgs(n, pb, fresh)
              /\ assigned' = [assigned EXCEPT ![n] =
                                 AfterMessage(Assign(@, fresh, pb.next), pb)]
           \/ /\ ~IsPrimary(n, pb) /\ fresh # {}
              /\ pbft' = [pbft EXCEPT ![n] = Awaited(pb, fresh)]
              /\ msgs' = rest \cup {[type |-> "Forward", from |-> n,
                                     to |-> Primary(pb.view), batch |-> fresh]}
              /\ assigned' = [assigned EXCEPT ![n] = AfterMessage(@, pb)]
           \/ /\ fresh = {}
              /\ msgs' = rest
              /\ assigned' = [assigned EXCEPT ![n] = AfterMessage(@, pb)]
              /\ UNCHANGED pbft
    /\ UNCHANGED <<queue, timeouts, heard>>

\* on_assign: every payload of the batch leaves the store with its timer, and
\* the batch is assigned.  PBFT either refuses an assignment below its low
\* mark, which ends the handler, or takes no notice of it.
OnAssign(n, m) ==
    /\ m \in msgs /\ m.type = "Assign" /\ m.to = n
    /\ msgs' = msgs \ {m}
    /\ \/ /\ LET found == FoundByPayload(queue[n], m.batch)
             IN  timeouts' = [timeouts EXCEPT ![n] =
                                 Drop(@, {queue[n].requests[k].timeout : k \in found})]
          /\ queue' = [queue EXCEPT ![n] = RemoveByPayload(@, m.batch)]
          /\ pbft' = [pbft EXCEPT ![n] = WithBody(@, m)]
          /\ assigned' = [assigned EXCEPT ![n] =
                             AfterMessage(Assign(@, m.batch, m.seq), pbft[n])]
       \/ /\ m.seq =< pbft[n].low
          /\ UNCHANGED <<queue, timeouts, pbft, assigned>>
    /\ UNCHANGED heard

\* on_pre_prepare: PBFT alone.
OnPrePrepare(n, m) ==
    /\ m \in msgs /\ m.type = "PrePrepare" /\ m.to = n
    /\ msgs' = msgs \ {m}
    /\ pbft' = [pbft EXCEPT ![n] = PrePrepared(@, m)]
    /\ assigned' = [assigned EXCEPT ![n] = AfterMessage(@, pbft[n])]
    /\ UNCHANGED <<queue, timeouts, heard>>

\* Any other message of PBFT: one completes the commit of the next sequence
\* number, one makes a checkpoint stable.
OnCommit(n) ==
    /\ \E a \in pbft[n].accepted :
          /\ Executes(pbft, n, a)
          /\ pbft' = [pbft EXCEPT ![n] = Executed(@, a)]
    /\ assigned' = [assigned EXCEPT ![n] = AfterMessage(@, pbft[n])]
    /\ UNCHANGED <<queue, timeouts, msgs, heard>>

OnCheckpoint(n, c) ==
    /\ c > pbft[n].low
    /\ Stable(pbft, c)
    /\ pbft' = [pbft EXCEPT ![n] = CheckpointAt(@, c)]
    /\ assigned' = [assigned EXCEPT ![n] = AfterMessage(@, CheckpointAt(pbft[n], c))]
    /\ UNCHANGED <<queue, timeouts, msgs, heard>>

-----------------------------------------------------------------------------
(* View changes                                                             *)

\* on_event(Pbft): PBFT's request timer; the layer does nothing of its own.
\* Only the vote to the next primary is kept: the others have no effect here.
\* That PBFT enters no view in on_timeout is assumed of it (the next primary's
\* own vote is never the last of a quorum): nothing would drain the store here.
OnPbftTimeout(n) ==
    /\ Waits(pbft[n])
    /\ pbft[n].target = pbft[n].view /\ pbft[n].view < MaxView
    /\ pbft' = [pbft EXCEPT ![n] = VotesForNextView(n, @)]
    /\ msgs' = msgs \cup {[type |-> "ViewChange", from |-> n, to |-> m, view |-> pbft[n].view + 1] :
                          m \in {Primary(pbft[n].view + 1)} \ {n}}
    /\ UNCHANGED <<queue, timeouts, assigned, heard>>

\* on_view_change: the vote is counted; the one that completes a quorum at the
\* next primary makes it enter the view, clear its timers and hand its whole
\* store to the reorder buffer.
OnViewChange(n, m) ==
    /\ m \in msgs /\ m.type = "ViewChange" /\ m.to = n
    /\ LET pb == [pbft[n] EXCEPT !.votes = @ \cup {[from |-> m.from, view |-> m.view]}]
           enters == /\ m.view > pb.view /\ Primary(m.view) = n
                     /\ IsQuorum({v.from : v \in {v \in pb.votes : v.view = m.view}})
       IN  \/ /\ ~enters
              /\ pbft' = [pbft EXCEPT ![n] = pb]
              /\ msgs' = msgs \ {m}
              /\ UNCHANGED <<queue, timeouts>>
           \/ /\ enters
              /\ \E last \in pb.low .. pb.low + HighMark :
                    /\ CarriesAllChosen(pbft, last)
                    /\ \E carry \in Carries(pbft, pb.low, last) :
                          /\ pbft' = [pbft EXCEPT ![n] =
                                        [BecomesPrimary(pb, m.view, carry, last) EXCEPT
                                           !.reorder = @ \cup Drained(queue[n])]]
                          /\ msgs' = (msgs \ {m}) \cup
                                {[type |-> "NewView", to |-> r, view |-> m.view, carry |-> carry] :
                                 r \in Replica \ {n}}
              /\ timeouts' = [timeouts EXCEPT ![n] = NoMap]
              /\ queue' = [queue EXCEPT ![n] = Drain(@)]
    /\ assigned' = [assigned EXCEPT ![n] = AfterMessage(@, pbft[n])]
    /\ UNCHANGED heard

\* on_new_view: PBFT enters the view; every stored request gets a new timer.
\* clear() has freed every timer key, so the slot keys serve as timer keys.
OnNewView(n, m) ==
    /\ m \in msgs /\ m.type = "NewView" /\ m.to = n
    /\ msgs' = msgs \ {m}
    /\ pbft' = [pbft EXCEPT ![n] = IF m.view > @.view THEN EntersView(@, m.view, m.carry) ELSE @]
    /\ timeouts' = [timeouts EXCEPT ![n] =
                       [k \in DOMAIN queue[n].requests |-> queue[n].requests[k].digest]]
    /\ queue' = [queue EXCEPT ![n] =
                    RearmEntries(@, [k \in DOMAIN @.requests |-> k])]
    /\ assigned' = [assigned EXCEPT ![n] = AfterMessage(@, pbft[n])]
    /\ UNCHANGED heard

-----------------------------------------------------------------------------

OnMessage(n) ==
    \/ \E m \in msgs : OnForward(n, m) \/ OnAssign(n, m) \/ OnPrePrepare(n, m)
    \/ OnCommit(n)
    \/ \E m \in Replica : \E c \in 1 .. pbft[m].executed : OnCheckpoint(n, c)

ViewChanges(n) ==
    \/ OnPbftTimeout(n)
    \/ \E m \in msgs : OnViewChange(n, m) \/ OnNewView(n, m)

Next ==
    \E n \in Running :
        \/ \E p \in Payload : OnRequest(n, p)
        \/ \E r \in pbft[n].reorder : OnReorder(n, r)
        \/ \E t \in Key : OnSoftTimeout(n, t)
        \/ OnMessage(n)
        \/ ViewChanges(n)

Spec == Init /\ [][Next]_vars

\* The event loop of a running replica polls its links and its timer queue:
\* a message that can be handled and a timer that runs are not ignored forever.
Fairness ==
    \A n \in Running : WF_vars(OnMessage(n)) /\ WF_vars(\E t \in Key : OnSoftTimeout(n, t))

FairSpec == Spec /\ Fairness
-----------------------------------------------------------------------------
(* Properties                                                               *)

\* What the links carry.
MessageOK(m) ==
    /\ m.to \in Replica
    /\ m.type \in {"PrePrepare", "Assign", "Forward"} => m.batch \in SUBSET Payload
    /\ m.type \in {"PrePrepare", "Assign"} => m.seq \in Nat
    /\ m.type \in {"PrePrepare", "ViewChange", "NewView"} => m.view \in Nat
    /\ m.type = "ViewChange" => m.from \in Replica
    /\ m.type = "NewView" =>
          /\ DOMAIN m.carry \subseteq Nat
          /\ \A s \in DOMAIN m.carry : m.carry[s] \in SUBSET Payload

PbftState ==
    [view : Nat, target : Nat, low : Nat, next : Nat, executed : Nat,
     accepted : SUBSET [view : Nat, seq : Nat, batch : SUBSET Payload],
     bodies : SUBSET [seq : Nat, batch : SUBSET Payload],
     known : SUBSET Payload,
     votes : SUBSET [from : Replica, view : Nat],
     reorder : SUBSET ((SUBSET Key) \X Payload)]

\* Sequence numbers are unbounded, so the slots are described by their values.
AssignedOK(a) ==
    /\ a = [byPayload |-> a.byPayload, bySequence |-> a.bySequence, first |-> a.first]
    /\ a.byPayload \in [DOMAIN a.byPayload -> Nat] /\ DOMAIN a.byPayload \subseteq Payload
    /\ a.bySequence \in [DOMAIN a.bySequence -> SUBSET Payload] /\ DOMAIN a.bySequence \subseteq Nat
    /\ a.first \in Nat \ {0}

\* Every variable has its type.
TypeOK ==
    /\ queue \in [Replica -> Store]
    /\ timeouts \in [Replica -> MapsOver(Key, Digests)]
    /\ assigned = [n \in Replica |-> assigned[n]] /\ \A n \in Replica : AssignedOK(assigned[n])
    /\ pbft \in [Replica -> PbftState]
    /\ \A m \in msgs : MessageOK(m)
    /\ heard \in [Replica -> [Payload -> Nat]]

\* Whatever the order of duplicates, expiries, assignments and view changes,
\* the two indexes of the store agree and the timer key an indexed entry holds
\* is a running timer with that entry's digest: soft_timeouts.remove
\* (lib.rs:109) neither panics nor cancels another request's timer.
WaitingHasItsTimer == \A n \in Replica : Timed(queue[n], timeouts[n])

\* A primary holds no stored request and no running soft timer, in every view:
\* a soft timeout on a primary would propose past filter_proposal and past
\* assigned.assign (lib.rs:128-149).
PrimaryHoldsNothing ==
    \A n \in Replica : IsPrimary(n, pbft[n]) =>
        DOMAIN queue[n].requests = {} /\ DOMAIN timeouts[n] = {}

\* No replica both considers a payload assigned and keeps it waiting in its
\* index, where its timer would forward an ordered payload again.
AssignedNeverWaits ==
    \A n \in Replica : DOMAIN assigned[n].byPayload \cap DOMAIN queue[n].byPayload = {}

\* While the view is stable, a payload that is ordered twice is ordered more
\* than Backlog sequence numbers apart: however many replicas hear, forward and
\* re-forward it, the filter only forgets it with the pruning of its slot.
NoRepeatWithinBacklog ==
    \A n \in Replica : \A a, b \in pbft[n].accepted :
        a.seq < b.seq /\ a.batch \cap b.batch # {} => b.seq > a.seq + Backlog

\* Where a request that n heard can be: stored with a timer, with PBFT, in the
\* reorder buffer, or in a proposal that is chosen or not older than n's view.
Held(n, p) ==
    \/ p \in DOMAIN queue[n].byPayload
    \/ p \in pbft[n].known
    \/ \E r \in pbft[n].reorder : r[2] = p
    \/ \E m \in Replica : \E a \in pbft[m].accepted :
          p \in a.batch /\ (a.view >= pbft[n].view \/ Chosen(pbft, a))

\* A running replica never loses a request: what it heard is held somewhere.
\* Dropping a request as assigned, and taking it out of the store on Assign or
\* on a soft timeout, are safe because the request is held elsewhere.
HeardIsHeld == \A n \in Running, p \in Payload : heard[n][p] > 0 => Held(n, p)

\* A request that a running replica heard and that is not ordered is always
\* held by some running replica, view changes included: a backup that finds it
\* assigned releases it to PBFT, which has it ordered (the trace of lib.rs:186).
NeverLost ==
    \A n \in Running, p \in Payload : heard[n][p] > 0 =>
        \E m \in Running :
            \/ Held(m, p)
            \/ \E f \in msgs : f.type = "Forward" /\ f.to = m /\ p \in f.batch

\* The payload is in a batch that is chosen and that n has executed.
Ordered(n, p) ==
    \E m \in Replica : \E a \in pbft[m].accepted :
        a.seq =< pbft[n].executed /\ p \in a.batch /\ Chosen(pbft, a)

\* While the primary is correct, what any running replica hears is executed by
\* every running replica, be it that the primary missed it (soft timeout and
\* Forward) or that several replicas forward it at once.
EventuallyOrdered ==
    \A n \in Running, p \in Payload :
        heard[n][p] > 0 ~> \A m \in Running : Ordered(m, p)
=============================================================================

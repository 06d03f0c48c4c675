------------------------------ MODULE Workload ------------------------------
(***************************************************************************)
(* Where requests come from when no train is there: a program, a list of   *)
(* kinds of requests, is run                                               *)
(*                                                                         *)
(*   "program"  by a generator in each replica (Mode::Program of           *)
(*              rc-application/src/bin/railchain.rs, request_generator.rs);*)
(*              rc-benchcontrol starts the generators together;            *)
(*   "tcp"      by the test client of rc-broadcaster (program.rs, lib.rs), *)
(*              which counts the replies.                                  *)
(*                                                                         *)
(* The replicas are external: they order each payload that one of them     *)
(* hears once, in the order replica 0, the primary, hears them, or after a *)
(* soft timeout of another one if it does not, and all answer in that      *)
(* order.                                                                  *)
(***************************************************************************)
EXTENDS Integers, Sequences, FiniteSets, SequencesExt

CONSTANTS
    Replicas,       \* number of replicas
    Programs,       \* programs that may be run
    Limit,          \* benchmark.request_limit
    Half,           \* numbers that fit into half a sequence number, 2^32 in the code
    MaxFailures     \* failed attempts to connect after which benchcontrol panics

\* Programs have some kind in them: without one, nothing is generated and a test
\* times out.
Kinds ==
    [kind : {"Normal"}] \cup [kind : {"Skip"}, to : Nat]
        \cup [kind : {"Corrupt"}, value : STRING, to : Nat] \cup [kind : {"Additional"}, to : Nat, n : Nat]

ASSUME WorkloadAssumption ==
    /\ Replicas \in Nat \ {0} /\ Limit \in Nat \ {0} /\ MaxFailures \in Nat /\ Half \in Nat \ {0}
    /\ \A p \in Programs : p \in Seq(Kinds) /\ p # <<>>

Replica == 0 .. Replicas - 1
Primary == 0

VARIABLES
    mode, program,
    gate,       \* how far each generator is: "boot", "port", "connected", "go"
    task,       \* benchcontrol's task for each: "trying", "barrier", "passed", "done", "panicked"
    failures,   \* and how often it failed to connect
    next,       \* how many kinds each generator has dealt with
    heard,      \* the requests each replica was sent, in order
    ordered,    \* the requests that were ordered (external)
    answered,   \* how many of them each replica has answered (external)
    sent,       \* how many request sets the client has sent
    replies,    \* its replies: how many for each sequence number
    completed, status   \* of process_replies

vars == <<mode, program, gate, task, failures, next, heard, ordered, answered, sent, replies, completed, status>>
startup == <<gate, task, failures>>
client == <<ordered, answered, sent, replies, completed, status>>

Request(sequence, payload) == [sequence |-> sequence, payload |-> payload]

-----------------------------------------------------------------------------
(* Programs                                                                 *)

Normal == [kind |-> "Normal"]
Skip(to) == [kind |-> "Skip", to |-> to]
Corrupt(value, to) == [kind |-> "Corrupt", value |-> value, to |-> to]
Additional(to, n) == [kind |-> "Additional", to |-> to, n |-> n]

\* Faults: no reply is expected to a skipped request; the extra requests only.
ExpectedUnskipped(k) ==
    CASE k.kind = "Skip" -> 0 [] k.kind = "Corrupt" -> 2 [] k.kind = "Additional" -> k.n + 1 [] OTHER -> 1

ExpectedExtras(k) == CASE k.kind = "Corrupt" -> 2 [] k.kind = "Additional" -> k.n [] OTHER -> 1

\* expected_fm2 and count_replies_fm2
Expected(k) == CASE k.kind = "Corrupt" -> 2 [] k.kind = "Additional" -> k.n + 1 [] OTHER -> 1

ExpectedUpTo(p) ==
    LET sum[i \in 0 .. Len(p)] == IF i = 0 THEN 0 ELSE sum[i - 1] + Expected(p[i]) IN sum

CountReplies == ExpectedUpTo(program)[Len(program)]

\* create_messages_fm2: what replica r is sent of the set at index i.
CreateMessages(k, i, r) ==
    LET payload == Request(i, <<"payload", i>>)
        extras == [j \in 1 .. k.n |-> Request(i, <<"extra", i, j>>)]
    IN  CASE k.kind = "Skip" -> IF r = k.to THEN <<>> ELSE <<payload>>
          [] k.kind = "Corrupt" -> IF r = k.to THEN <<Request(i, <<"value", k.value>>)>> ELSE <<payload>>
          [] k.kind = "Additional" -> IF r = k.to THEN extras \o <<payload>> ELSE <<payload>>
          [] OTHER -> <<payload>>

\* make_payload, make_apayload and make_cpayload: two words of eight bytes, here
\* two halves, both the sequence number; the second may be the number of an
\* extra request; corrupt ones have the bytes turned round, here the halves.
BigEndian(i) == <<i \div Half, i % Half>>
LittleEndian(i) == <<i % Half, i \div Half>>
MakePayload(i) == <<BigEndian(i), BigEndian(i)>>
MakeCPayload(i) == <<LittleEndian(i), LittleEndian(i)>>

\* A fault: the number of the extra request is not written into it.
SamePayload(i, j) == <<BigEndian(i), BigEndian(i)>>

MakeAPayload(i, j) == <<BigEndian(i), BigEndian(j)>>

\* generate_requests: what the generator of r sends at index i.  Extra requests
\* have a timestamp for a sequence number (-1 here).
Generated(k, i, r) ==
    LET payload == Request(i, MakePayload(i))
        extras == [j \in 1 .. k.n |-> Request(-1, MakeAPayload(i, j - 1))]
    IN  CASE k.kind = "Skip" -> IF r = k.to THEN <<>> ELSE <<payload>>
          [] k.kind = "Corrupt" -> IF r = k.to THEN <<Request(i, MakeCPayload(i))>> ELSE <<>>
          [] k.kind = "Additional" -> IF r = k.to THEN extras \o <<payload>> ELSE <<payload>>
          [] OTHER -> <<payload>>

-----------------------------------------------------------------------------
Init ==
    /\ mode \in {"program", "tcp"} /\ program \in Programs
    /\ gate = [r \in Replica |-> "boot"]
    /\ task = [r \in Replica |-> "trying"]
    /\ failures = [r \in Replica |-> 0]
    /\ next = [r \in Replica |-> 0]
    /\ heard = [r \in Replica |-> <<>>]
    /\ ordered = <<>>
    /\ answered = [r \in Replica |-> 0]
    /\ sent = 0 /\ completed = 0 /\ status = "running"
    /\ replies = [i \in 0 .. CountReplies - 1 |-> 0]

-----------------------------------------------------------------------------
(* Starting the generators together                                         *)

\* The replica has connected to its peers and opens the control port.
ControlPort(r) ==
    /\ mode = "program" /\ gate[r] = "boot"
    /\ gate' = [gate EXCEPT ![r] = "port"]
    /\ UNCHANGED <<mode, program, task, failures, next, heard>> /\ UNCHANGED client

\* A fault: a task does not wait for the others.
PassAlone(r) == task[r] = "barrier"

\* Barrier: the last of all tasks to get there lets them all go on.
Pass(r) == task[r] = "barrier" /\ \A q \in Replica : task[q] \in {"barrier", "passed", "done"}

\* A task of benchcontrol: connect, try again up to the limit, wait at the
\* barrier, write "go".
Control(r) ==
    /\ mode = "program"
    /\ \/ /\ task[r] = "trying" /\ gate[r] = "port"
          /\ task' = [task EXCEPT ![r] = "barrier"]
          /\ gate' = [gate EXCEPT ![r] = "connected"]
          /\ UNCHANGED failures
       \/ /\ task[r] = "trying" /\ gate[r] = "boot"
          /\ failures' = [failures EXCEPT ![r] = @ + 1]
          /\ task' = [task EXCEPT ![r] = IF failures[r] + 1 > MaxFailures THEN "panicked" ELSE @]
          /\ UNCHANGED gate
       \/ /\ Pass(r)
          /\ task' = [task EXCEPT ![r] = "passed"]
          /\ UNCHANGED <<gate, failures>>
       \/ /\ task[r] = "passed"
          /\ task' = [task EXCEPT ![r] = "done"]
          /\ gate' = [gate EXCEPT ![r] = "go"]
          /\ UNCHANGED failures
    /\ UNCHANGED <<mode, program, next, heard>> /\ UNCHANGED client

\* generate_requests: the program is cycled through up to the limit.
Generate(r) ==
    /\ gate[r] = "go" /\ next[r] < Limit
    /\ heard' = [heard EXCEPT ![r] = @ \o Generated(program[(next[r] % Len(program)) + 1], next[r], r)]
    /\ next' = [next EXCEPT ![r] = @ + 1]
    /\ UNCHANGED <<mode, program>> /\ UNCHANGED startup /\ UNCHANGED client

-----------------------------------------------------------------------------
(* The test client                                                          *)

\* write_task of test_main: the next request set.
SendSet ==
    /\ mode = "tcp" /\ status = "running" /\ sent < Len(program)
    /\ heard' = [r \in Replica |-> heard[r] \o CreateMessages(program[sent + 1], sent, r)]
    /\ sent' = sent + 1
    /\ UNCHANGED <<mode, program, next, ordered, answered, replies, completed, status>> /\ UNCHANGED startup

\* Where replica r heard what has not been ordered.
Unordered(r) == {i \in DOMAIN heard[r] : \A j \in DOMAIN ordered : ordered[j].payload # heard[r][i].payload}

\* The replicas order a payload: the first one the primary has heard, or one
\* that only others were sent.
Order ==
    /\ mode = "tcp"
    /\ \/ \E i \in Unordered(Primary) :
             /\ \A j \in Unordered(Primary) : i <= j
             /\ ordered' = Append(ordered, heard[Primary][i])
       \/ \E r \in Replica \ {Primary} : \E i \in Unordered(r) :
             /\ \A p \in ToSet(heard[Primary]) : p.payload # heard[r][i].payload
             /\ ordered' = Append(ordered, heard[r][i])
    /\ UNCHANGED <<mode, program, next, heard, answered, sent, replies, completed, status>> /\ UNCHANGED startup

\* Faults: one reply too few or too many.
MostReplies(n) == n >= Replicas - 1
MoreReplies(n) == n > Replicas

AllReplies(n) == n >= Replicas

\* process_replies takes the next answer of a replica.  The answers to a
\* transaction are empty, so those to one sequence number always match.
\* completed moves on by at most one, and only past its own sequence number.
ProcessReply(r) ==
    /\ mode = "tcp" /\ status = "running" /\ answered[r] < Len(ordered)
    /\ answered' = [answered EXCEPT ![r] = @ + 1]
    /\ replies' = [replies EXCEPT ![ordered[answered[r] + 1].sequence] = @ + 1]
    /\ completed' = IF AllReplies(replies'[completed]) THEN completed + 1 ELSE completed
    /\ status' = IF completed' = CountReplies THEN "ok" ELSE status
    /\ UNCHANGED <<mode, program, next, heard, ordered, sent>> /\ UNCHANGED startup

\* Everything was sent, ordered and answered.
Quiet ==
    /\ sent = Len(program)
    /\ \A r \in Replica : Unordered(r) = {} /\ answered[r] = Len(ordered)

\* The timeout of ten seconds around process_replies, which also runs while
\* requests are still being sent.
Timeout ==
    /\ mode = "tcp" /\ status = "running"
    /\ status' = "timeout"
    /\ UNCHANGED <<mode, program, next, heard, ordered, answered, sent, replies, completed>> /\ UNCHANGED startup

-----------------------------------------------------------------------------
Next ==
    \/ SendSet \/ Order \/ Timeout
    \/ \E r \in Replica : ControlPort(r) \/ Control(r) \/ Generate(r) \/ ProcessReply(r)

\* Of everything but the timeout, which may come late.
Fairness ==
    /\ WF_vars(SendSet) /\ WF_vars(Order)
    /\ \A r \in Replica :
          WF_vars(ControlPort(r)) /\ WF_vars(Control(r)) /\ WF_vars(Generate(r)) /\ WF_vars(ProcessReply(r))

Spec == Init /\ [][Next]_vars /\ Fairness

-----------------------------------------------------------------------------
(* Properties                                                               *)

\* TypeOK: the state has its type; a replica's control connection and the task
\* at its other end agree.  Every reply still to come has a place: the vector
\* of replies is as long as the count of program.rs:138, and is indexed with the
\* sequence number of the reply and with completed (lib.rs:411,413).
TypeOK ==
    /\ \A r \in Replica :
          /\ gate[r] \in {"boot", "port"} <=> task[r] \in {"trying", "panicked"}
          /\ gate[r] = "connected" <=> task[r] \in {"barrier", "passed"}
          /\ gate[r] = "go" <=> task[r] = "done"
          /\ next[r] \in 0 .. Limit /\ answered[r] \in 0 .. Len(ordered)
    /\ sent \in 0 .. Len(program) /\ completed \in 0 .. CountReplies
    /\ status \in {"running", "ok", "timeout"}
    /\ DOMAIN replies = 0 .. CountReplies - 1 /\ \A i \in DOMAIN replies : replies[i] \in Nat
    /\ \A i \in DOMAIN ordered : ordered[i].sequence \in DOMAIN replies
    /\ status = "running" => completed \in DOMAIN replies

\* GoAfterAll: no generator runs before every replica has connected to its
\* peers and opened its control port; requests of one that is early would be
\* duplicates none of the others knows (benchcontrol main.rs:17,39).
GoAfterAll == \A r \in Replica : next[r] > 0 => \A q \in Replica : gate[q] \in {"connected", "go"}

\* GeneratedDistinct: in however many rounds through a program, a generator
\* never produces a payload twice; the ordering layer would take the second
\* for a duplicate and drop it.  Generators agree on what has one sequence
\* number, but for the requests that are meant to be corrupt.
GeneratedDistinct ==
    mode = "program" =>
        /\ \A r \in Replica : \A i, j \in DOMAIN heard[r] :
              i # j => heard[r][i].payload # heard[r][j].payload
        /\ \A r, q \in Replica : \A a \in ToSet(heard[r]), b \in ToSet(heard[q]) :
              /\ a.sequence = b.sequence /\ a.sequence >= 0
              /\ program[(a.sequence % Len(program)) + 1].kind # "Corrupt"
              => a.payload = b.payload

\* ExpectedAreOrdered: once all is ordered, as many requests were as the client
\* expects replies to from each replica (program.rs:43-50).
ExpectedAreOrdered ==
    mode = "tcp" /\ sent = Len(program) /\ (\A r \in Replica : Unordered(r) = {})
        => Len(ordered) = CountReplies

\* SuccessMeansAnswered: when the test ends well, every request that was sent
\* was ordered and every replica has answered it, although the client counts
\* replies for one sequence number at a time and none of the senders.
SuccessMeansAnswered ==
    status = "ok" => Quiet

\* Programs of which the two properties of payloads hold.  The number of an
\* extra request must not be its sequence number, in the first round, and
\* numbers turned round must not be others.  (An extra request at index 0 has
\* the payload of the normal one.)
Numbered(p) ==
    \A i \in DOMAIN p : /\ p[i].kind = "Additional" => p[i].n < i
                        /\ p[i].kind = "Corrupt" => Limit <= Half

\* Each request must go to some replica, and corrupt values must differ.
Addressed(p) ==
    /\ \A i \in DOMAIN p : /\ p[i].kind \in {"Corrupt", "Additional"} => p[i].to \in Replica
                           /\ p[i].kind \in {"Corrupt", "Skip"} => Replicas > 1
    /\ \A i, j \in DOMAIN p : i # j /\ p[i].kind = "Corrupt" /\ p[j].kind = "Corrupt" => p[i].value # p[j].value

\* EventuallyDone: generators that benchcontrol has got hold of all generate
\* all their requests.  A test whose requests are ordered in the sequence they
\* were sent in, one for each number, ends well unless the timeout comes before
\* all were answered: only then is there always a reply left to move completed
\* on with (lib.rs:413).
InSequence == \A i \in DOMAIN ordered : ordered[i].sequence = i - 1

EventuallyDone ==
    <>( \/ mode = "program" /\ \E r \in Replica : task[r] = "panicked"
        \/ mode = "program" /\ \A r \in Replica : next[r] = Limit
        \/ mode = "tcp" /\ (status = "ok" \/ (status = "timeout" /\ ~Quiet) \/ ~InSequence))
=============================================================================

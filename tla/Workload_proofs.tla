--------------------------- MODULE Workload_proofs ---------------------------
(***************************************************************************)
(* Proofs about the start of the generators, for any number of replicas,   *)
(* programs and failed attempts: no generator runs before all replicas are *)
(* connected.                                                              *)
(*                                                                         *)
(* GoAfterAll is about generators and gates, which the tasks of            *)
(* rc-benchcontrol open; Started adds what the tasks know: who has passed  *)
(* the barrier has seen every other task there.                            *)
(***************************************************************************)
EXTENDS Workload, FiniteSetTheorems, FunctionTheorems, TLAPS

LOCAL Numbers == INSTANCE ChainStore_proofs

Gates == {"boot", "port", "connected", "go"}

Tasks == {"trying", "barrier", "passed", "done", "panicked"}

\* A gate and the task at its other end agree.
Agree(g, t) ==
    /\ g \in {"boot", "port"} <=> t \in {"trying", "panicked"}
    /\ g = "connected" <=> t \in {"barrier", "passed"}
    /\ g = "go" <=> t = "done"

Started ==
    /\ gate \in [Replica -> Gates] /\ task \in [Replica -> Tasks] /\ next \in [Replica -> Nat]
    /\ \A r \in Replica : Agree(gate[r], task[r])
    /\ \A r \in Replica : next[r] > 0 => gate[r] = "go"
    /\ \A r, q \in Replica : task[r] \in {"passed", "done"} => task[q] \in {"barrier", "passed", "done"}

LEMMA InitStarted == Init => Started
BY DEF Init, Started, Gates, Tasks, Agree

LEMMA ControlPortStarted ==
    ASSUME Started, NEW r \in Replica, ControlPort(r)
    PROVE  Started'
BY DEF Started, ControlPort, Gates, Tasks, Agree

\* One case for each step of a task.
LEMMA ControlStarted ==
    ASSUME Started, NEW r \in Replica, Control(r)
    PROVE  Started'
<1>1. next' = next
  BY DEF Control
<1>2. CASE /\ task[r] = "trying" /\ gate[r] = "port"
           /\ task' = [task EXCEPT ![r] = "barrier"]
           /\ gate' = [gate EXCEPT ![r] = "connected"]
  BY <1>1, <1>2 DEF Started, Gates, Tasks, Agree
<1>3. CASE /\ task[r] = "trying" /\ gate[r] = "boot"
           /\ task' = [task EXCEPT ![r] = IF failures[r] + 1 > MaxFailures THEN "panicked" ELSE @]
           /\ UNCHANGED gate
  BY <1>1, <1>3 DEF Started, Gates, Tasks, Agree
<1>4. CASE Pass(r) /\ task' = [task EXCEPT ![r] = "passed"] /\ UNCHANGED gate
  BY <1>1, <1>4 DEF Started, Gates, Tasks, Agree, Pass
<1>5. CASE /\ task[r] = "passed"
           /\ task' = [task EXCEPT ![r] = "done"]
           /\ gate' = [gate EXCEPT ![r] = "go"]
  BY <1>1, <1>5 DEF Started, Gates, Tasks, Agree
<1> QED
  BY <1>2, <1>3, <1>4, <1>5 DEF Control

LEMMA GenerateStarted ==
    ASSUME Started, NEW r \in Replica, Generate(r)
    PROVE  Started'
<1>1. next' = [next EXCEPT ![r] = @ + 1] /\ gate[r] = "go" /\ UNCHANGED <<gate, task>>
  BY DEF Generate, startup
<1> QED
  BY <1>1 DEF Started

LEMMA NextStarted == Started /\ [Next]_vars => Started'
<1> SUFFICES ASSUME Started, [Next]_vars PROVE Started'
  OBVIOUS
<1>1. CASE UNCHANGED <<gate, task, next>>
  BY <1>1 DEF Started
<1>2. CASE SendSet \/ Order \/ Timeout
  BY <1>1, <1>2 DEF SendSet, Order, Timeout, startup
<1>3. CASE UNCHANGED vars
  BY <1>1, <1>3 DEF vars
<1>4. ASSUME NEW r \in Replica, ControlPort(r) \/ Control(r) \/ Generate(r) PROVE Started'
  BY <1>4, ControlPortStarted, ControlStarted, GenerateStarted
<1>5. ASSUME NEW r \in Replica, ProcessReply(r) PROVE Started'
  BY <1>1, <1>5 DEF ProcessReply, startup
<1> QED
  BY <1>2, <1>3, <1>4, <1>5 DEF Next

\* The invariant holds in every reachable state.
THEOREM SpecStarted == Spec => []Started
BY InitStarted, NextStarted, PTL DEF Spec

\* GoAfterAll: no generator runs before every replica has connected to its
\* peers and opened its control port, for any number of replicas.
THEOREM GoesAfterAll == Spec => []GoAfterAll
<1>1. Started => GoAfterAll
  BY DEF Started, GoAfterAll, Agree, Tasks
<1> QED
  BY <1>1, SpecStarted, PTL

-----------------------------------------------------------------------------
(* What a program is expected to yield                                      *)

\* f counts what is expected of the first n kinds of p.
IsCount(p, n, f) ==
    f = [i \in 0 .. n |-> IF i = 0 THEN 0 ELSE f[i - 1] + Expected(p[i])]

LEMMA CountsExist ==
    ASSUME NEW p
    PROVE  \A n \in Nat : \E f : IsCount(p, n, f)
<1> DEFINE T == {n \in Nat : \E f : IsCount(p, n, f)}
<1>1. 0 \in T
  <2>1. IsCount(p, 0, [i \in 0 .. 0 |-> 0])
    BY DEF IsCount
  <2> QED
    BY <2>1
<1>2. ASSUME NEW n \in Nat, n \in T PROVE n + 1 \in T
  <2>1. PICK f : IsCount(p, n, f)
    BY <1>2
  <2> DEFINE g == [i \in 0 .. n + 1 |-> IF i = n + 1 THEN f[n] + Expected(p[n + 1]) ELSE f[i]]
  <2> DEFINE value(i) == IF i = 0 THEN 0 ELSE g[i - 1] + Expected(p[i])
  <2>2. ASSUME NEW i \in 0 .. n + 1 PROVE g[i] = value(i)
    <3>1. CASE i = n + 1
      <4>1. i # 0 /\ i - 1 = n /\ n \in 0 .. n + 1 /\ n # n + 1
        BY <3>1
      <4> QED
        BY <4>1, <3>1
    <3>2. CASE i \in 0 .. n
      <4>1. i # n + 1
        BY <3>2
      <4>2. g[i] = IF i = 0 THEN 0 ELSE f[i - 1] + Expected(p[i])
        BY <2>1, <3>2, <4>1 DEF IsCount
      <4>3. i # 0 => i - 1 \in 0 .. n + 1 /\ i - 1 # n + 1
        BY <3>2
      <4> QED
        BY <4>2, <4>3
    <3> QED
      BY <3>1, <3>2
  <2>3. g = [i \in 0 .. n + 1 |-> value(i)]
    <3> HIDE DEF value
    <3> QED
      BY <2>2
  <2>4. IsCount(p, n + 1, g)
    BY <2>3, Zenon DEF IsCount
  <2> QED
    BY <2>4
<1>3. Nat \subseteq T
  <2> HIDE DEF T
  <2> QED
    BY <1>1, <1>2, Numbers!SetInduction
<1> QED
  BY <1>3

\* The recursion of ExpectedUpTo, unfolded once.
LEMMA ExpectedUnfold ==
    ASSUME NEW p, Len(p) \in Nat
    PROVE  /\ ExpectedUpTo(p)[0] = 0
           /\ \A i \in 1 .. Len(p) : ExpectedUpTo(p)[i] = ExpectedUpTo(p)[i - 1] + Expected(p[i])
<1> DEFINE n == Len(p)
<1> DEFINE count == CHOOSE f : IsCount(p, n, f)
<1>1. IsCount(p, n, count)
  BY CountsExist, Zenon
<1>2. ExpectedUpTo(p) = count
  BY DEF ExpectedUpTo, IsCount
<1> HIDE DEF count
<1>3. count = [i \in 0 .. n |-> IF i = 0 THEN 0 ELSE count[i - 1] + Expected(p[i])]
  BY <1>1 DEF IsCount
<1>4. count[0] = 0
  BY <1>3
<1>5. ASSUME NEW i \in 1 .. n PROVE count[i] = count[i - 1] + Expected(p[i])
  BY <1>3
<1> QED
  BY <1>2, <1>4, <1>5

LEMMA ExpectedDef ==
    ASSUME NEW k \in Kinds
    PROVE  Expected(k) \in Nat \ {0}
BY DEF Kinds, Expected

Program == {p \in Seq(Kinds) : p # <<>>}

LEMMA ProgramDef ==
    ASSUME NEW p \in Program
    PROVE  /\ Len(p) \in Nat \ {0} /\ DOMAIN p = 1 .. Len(p)
           /\ \A i \in 1 .. Len(p) : p[i] \in Kinds
BY DEF Program

\* As many requests are expected as there are kinds, or more; if not more, then
\* one of each.
LEMMA ExpectedSum ==
    ASSUME NEW p \in Program, NEW n \in 0 .. Len(p)
    PROVE  /\ ExpectedUpTo(p)[n] \in Nat /\ ExpectedUpTo(p)[n] >= n
           /\ ExpectedUpTo(p)[n] = n => \A i \in 1 .. n : Expected(p[i]) = 1
<1> DEFINE c == ExpectedUpTo(p)
<1> DEFINE ok(m) == /\ c[m] \in Nat /\ c[m] >= m
                    /\ c[m] = m => \A i \in 1 .. m : Expected(p[i]) = 1
<1> DEFINE T == {m \in Nat : m <= Len(p) => ok(m)}
<1>1. /\ c[0] = 0
      /\ \A i \in 1 .. Len(p) : c[i] = c[i - 1] + Expected(p[i]) /\ Expected(p[i]) \in Nat \ {0}
  BY ExpectedUnfold, ProgramDef, ExpectedDef
<1>2. Len(p) \in Nat
  BY ProgramDef
<1> HIDE DEF c
<1>3. 0 \in T
  BY <1>1
<1>4. ASSUME NEW m \in Nat, m \in T PROVE m + 1 \in T
  <2> SUFFICES ASSUME m + 1 <= Len(p) PROVE ok(m + 1)
    OBVIOUS
  <2>1. ok(m) /\ m + 1 \in 1 .. Len(p) /\ (m + 1) - 1 = m
    BY <1>2, <1>4
  <2>2. c[m + 1] = c[m] + Expected(p[m + 1]) /\ Expected(p[m + 1]) \in Nat \ {0}
    BY <1>1, <2>1
  <2>3. ASSUME c[m + 1] = m + 1, NEW i \in 1 .. m + 1 PROVE Expected(p[i]) = 1
    <3>1. c[m] = m /\ Expected(p[m + 1]) = 1
      BY <2>1, <2>2, <2>3
    <3>2. i = m + 1 \/ i \in 1 .. m
      OBVIOUS
    <3> QED
      BY <2>1, <3>1, <3>2
  <2> QED
    BY <2>1, <2>2, <2>3
<1>5. n \in T
  <2> HIDE DEF T
  <2>1. Nat \subseteq T
    BY <1>3, <1>4, Numbers!SetInduction
  <2> QED
    BY <1>2, <2>1
<1> QED
  BY <1>2, <1>5 DEF c

-----------------------------------------------------------------------------
(* Types                                                                    *)

Word == Nat \X Nat

Payload ==
    ({"payload"} \X Nat) \cup ({"value"} \X STRING) \cup ({"extra"} \X Nat \X Nat) \cup (Word \X Word)

Message == [sequence : Int, payload : Payload]

\* The payloads of the set at index i.
Payloads(k, i) ==
    {<<"payload", i>>} \cup (IF k.kind = "Corrupt" THEN {<<"value", k.value>>} ELSE {})
        \cup (IF k.kind = "Additional" THEN {<<"extra", i, j>> : j \in 1 .. k.n} ELSE {})

\* A set has its index for a sequence number, and payloads of its own.
LEMMA CreateType ==
    ASSUME NEW k \in Kinds, NEW i \in Nat, NEW r \in Replica
    PROVE  CreateMessages(k, i, r) \in Seq({q \in Message : q.sequence = i /\ q.payload \in Payloads(k, i)})
<1> DEFINE payload == Request(i, <<"payload", i>>)
<1> DEFINE value == Request(i, <<"value", k.value>>)
<1> DEFINE extras == [j \in 1 .. k.n |-> Request(i, <<"extra", i, j>>)]
<1> DEFINE S == {q \in Message : q.sequence = i /\ q.payload \in Payloads(k, i)}
<1>1. payload \in S
  BY DEF Message, Payload, Payloads, Request
<1>2. CASE k.kind = "Additional"
  <2>1. k.n \in Nat
    BY <1>2 DEF Kinds
  <2>2. ASSUME NEW j \in 1 .. k.n PROVE Request(i, <<"extra", i, j>>) \in S
    <3>1. <<"extra", i, j>> \in Payload /\ <<"extra", i, j>> \in Payloads(k, i)
      BY <1>2 DEF Payload, Payloads
    <3> QED
      BY <3>1 DEF Message, Request
  <2>3. extras \in Seq(S)
    <3> HIDE DEF S
    <3>1. extras \in [1 .. k.n -> S]
      BY <2>2
    <3> HIDE DEF extras
    <3> QED
      BY <2>1, <3>1
  <2>4. CreateMessages(k, i, r) = IF r = k.to THEN extras \o <<payload>> ELSE <<payload>>
    BY <1>2 DEF CreateMessages
  <2> HIDE DEF extras, payload, S
  <2>5. <<payload>> \in Seq(S) /\ extras \o <<payload>> \in Seq(S)
    BY <1>1, <2>3
  <2> QED
    BY <2>4, <2>5 DEF S
<1>3. CASE k.kind = "Corrupt"
  <2>1. value \in S
    BY <1>3 DEF Message, Payload, Payloads, Request, Kinds
  <2>2. CreateMessages(k, i, r) = IF r = k.to THEN <<value>> ELSE <<payload>>
    BY <1>3 DEF CreateMessages
  <2> HIDE DEF value, payload, S
  <2>3. <<payload>> \in Seq(S) /\ <<value>> \in Seq(S)
    BY <1>1, <2>1
  <2> QED
    BY <2>2, <2>3 DEF S
<1>4. CASE k.kind \in {"Normal", "Skip"}
  <2>1. CreateMessages(k, i, r) \in {<<>>, <<payload>>}
    BY <1>4 DEF CreateMessages
  <2> HIDE DEF payload, S
  <2>2. <<payload>> \in Seq(S) /\ <<>> \in Seq(S)
    BY <1>1
  <2> QED
    BY <2>1, <2>2 DEF S
<1> QED
  BY <1>2, <1>3, <1>4 DEF Kinds

LEMMA EndianType ==
    ASSUME NEW i \in Nat
    PROVE  /\ BigEndian(i) \in Word /\ LittleEndian(i) \in Word
           /\ MakePayload(i) \in Payload /\ MakeCPayload(i) \in Payload
           /\ \A j \in Nat : MakeAPayload(i, j) \in Payload
<1>1. \A j \in Nat : j \div Half \in Nat /\ j % Half \in Nat
  BY WorkloadAssumption
<1>2. \A j \in Nat : BigEndian(j) \in Word /\ LittleEndian(j) \in Word
  BY <1>1 DEF BigEndian, LittleEndian, Word
<1>3. Word \X Word \subseteq Payload
  BY DEF Payload
<1> QED
  BY <1>2, <1>3 DEF MakePayload, MakeCPayload, MakeAPayload

LEMMA GeneratedType ==
    ASSUME NEW k \in Kinds, NEW i \in Nat, NEW r \in Replica
    PROVE  Generated(k, i, r) \in Seq(Message)
<1> DEFINE payload == Request(i, MakePayload(i))
<1> DEFINE value == Request(i, MakeCPayload(i))
<1> DEFINE extras == [j \in 1 .. k.n |-> Request(-1, MakeAPayload(i, j - 1))]
<1>1. payload \in Message /\ value \in Message
  BY EndianType DEF Message, Request
<1>2. CASE k.kind = "Additional"
  <2>1. k.n \in Nat
    BY <1>2 DEF Kinds
  <2>2. ASSUME NEW j \in 1 .. k.n PROVE Request(-1, MakeAPayload(i, j - 1)) \in Message
    <3>1. j - 1 \in Nat
      OBVIOUS
    <3>2. MakeAPayload(i, j - 1) \in Payload
      BY <3>1, EndianType
    <3> QED
      BY <3>2 DEF Message, Request
  <2>3. extras \in Seq(Message)
    BY <2>1, <2>2
  <2>4. Generated(k, i, r) = IF r = k.to THEN extras \o <<payload>> ELSE <<payload>>
    BY <1>2 DEF Generated
  <2> HIDE DEF extras, payload
  <2>5. <<payload>> \in Seq(Message) /\ extras \o <<payload>> \in Seq(Message)
    BY <1>1, <2>3
  <2> QED
    BY <2>4, <2>5
<1>3. CASE k.kind # "Additional"
  <2>1. Generated(k, i, r) \in {<<>>, <<payload>>, <<value>>}
    BY <1>3 DEF Generated, Kinds
  <2> HIDE DEF payload, value
  <2>2. <<>> \in Seq(Message) /\ <<payload>> \in Seq(Message) /\ <<value>> \in Seq(Message)
    BY <1>1
  <2> QED
    BY <2>1, <2>2
<1> QED
  BY <1>2, <1>3

-----------------------------------------------------------------------------
(* The types of the messages and the counts                                 *)

\* How far the client has counted; it looks at the replies to one more sequence
\* number while it runs.
Counting ==
    /\ program \in Program
    /\ sent \in 0 .. Len(program)
    /\ completed \in 0 .. CountReplies
    /\ status \in {"running", "ok", "timeout"}
    /\ status = "running" => completed < CountReplies
    /\ status = "ok" => completed = CountReplies
    /\ replies \in [0 .. CountReplies - 1 -> Nat]

\* The messages that the client may have sent: of the sets up to now.
Sent ==
    {q \in Message : q.sequence \in 0 .. sent - 1 /\ q.payload \in Payloads(program[q.sequence + 1], q.sequence)}

Sending ==
    /\ next \in [Replica -> 0 .. Limit]
    /\ mode \in {"program", "tcp"}
    /\ mode = "tcp" => \A r \in Replica : gate[r] = "boot"
    /\ heard \in [Replica -> Seq(Message)]
    /\ mode = "tcp" => heard \in [Replica -> Seq(Sent)]
    /\ ordered \in Seq(Sent)
    /\ mode = "program" => ordered = <<>> /\ status = "running"
    /\ answered \in [Replica -> Nat] /\ \A r \in Replica : answered[r] <= Len(ordered)

Typed == Counting /\ Sending

LEMMA CountDef ==
    ASSUME program \in Program
    PROVE  /\ Len(program) \in Nat \ {0} /\ CountReplies \in Nat /\ CountReplies >= Len(program)
           /\ CountReplies = Len(program) => \A i \in 1 .. Len(program) : Expected(program[i]) = 1
<1>1. Len(program) \in Nat \ {0} /\ Len(program) \in 0 .. Len(program)
  BY ProgramDef
<1> QED
  BY <1>1, ExpectedSum DEF CountReplies

LEMMA InitTyped == Init => Typed
<1> SUFFICES ASSUME Init PROVE Typed
  OBVIOUS
<1>1. program \in Program
  BY WorkloadAssumption DEF Init, Program
<1>2. Counting
  BY <1>1, CountDef DEF Init, Counting
<1>3. Sending
  BY WorkloadAssumption DEF Init, Sending
<1> QED
  BY <1>2, <1>3 DEF Typed

LEMMA SendSetTyped ==
    ASSUME Typed, SendSet
    PROVE  Typed'
<1> DEFINE set(r) == CreateMessages(program[sent + 1], sent, r)
<1>1. /\ mode = "tcp" /\ sent \in Nat /\ sent + 1 \in 1 .. Len(program) /\ sent' = sent + 1
      /\ heard' = [r \in Replica |-> heard[r] \o set(r)]
      /\ UNCHANGED <<mode, program, gate, next, ordered, answered, replies, completed, status>>
  BY CountDef DEF SendSet, startup, Typed, Counting
<1>2. program[sent + 1] \in Kinds /\ Len(program) \in Nat
  BY <1>1, ProgramDef DEF Typed, Counting
<1>3. Counting'
  BY <1>1, <1>2 DEF Typed, Counting, CountReplies
<1>4. Sent \subseteq Sent' /\ Sent' \subseteq Message
  <2>1. \A x : x \in 0 .. sent - 1 => x \in 0 .. sent' - 1
    BY <1>1
  <2> QED
    BY <1>1, <2>1 DEF Sent
<1>5. ASSUME NEW r \in Replica PROVE heard'[r] \in Seq(Sent')
  <2> DEFINE S == {q \in Message : q.sequence = sent /\ q.payload \in Payloads(program[sent + 1], sent)}
  <2>1. heard[r] \in Seq(Sent)
    BY <1>1 DEF Typed, Sending
  <2>2. set(r) \in Seq(S)
    BY <1>1, <1>2, CreateType
  <2>3. S \subseteq Sent'
    <3>1. sent \in 0 .. sent' - 1
      BY <1>1
    <3> QED
      BY <1>1, <3>1 DEF Sent
  <2>4. heard'[r] = heard[r] \o set(r)
    BY <1>1
  <2> HIDE DEF S, set
  <2>5. heard[r] \in Seq(Sent') /\ set(r) \in Seq(Sent')
    BY <1>4, <2>1, <2>2, <2>3
  <2> QED
    BY <2>4, <2>5
<1>6. heard' \in [Replica -> Seq(Sent')]
  <2>1. heard' = [r \in Replica |-> heard'[r]]
    BY <1>1
  <2> QED
    BY <1>5, <2>1
<1>7. heard' \in [Replica -> Seq(Message)] /\ ordered' \in Seq(Sent')
  <2>1. ordered' \in Seq(Sent)
    BY <1>1 DEF Typed, Sending
  <2>2. Seq(Sent) \subseteq Seq(Sent') /\ Seq(Sent') \subseteq Seq(Message)
    BY <1>4
  <2> QED
    BY <1>6, <2>1, <2>2
<1>8. Sending'
  BY <1>1, <1>6, <1>7 DEF Typed, Sending
<1> QED
  BY <1>3, <1>8 DEF Typed

LEMMA GenerateTyped ==
    ASSUME Typed, NEW r \in Replica, Generate(r)
    PROVE  Typed'
<1> DEFINE n == (next[r] % Len(program)) + 1
<1> DEFINE set == Generated(program[n], next[r], r)
<1>1. /\ gate[r] = "go" /\ next[r] \in Nat /\ next[r] < Limit
      /\ heard' = [heard EXCEPT ![r] = @ \o set]
      /\ next' = [next EXCEPT ![r] = @ + 1]
      /\ UNCHANGED <<mode, program, gate, ordered, answered, sent, replies, completed, status>>
  BY DEF Generate, startup, client, Typed, Sending
<1>2. mode = "program"
  BY <1>1 DEF Typed, Sending
<1>3. Counting'
  BY <1>1 DEF Typed, Counting, CountReplies
<1>4. program[n] \in Kinds
  <2>1. Len(program) \in Nat \ {0} /\ \A i \in 1 .. Len(program) : program[i] \in Kinds
    BY ProgramDef DEF Typed, Counting
  <2>2. next[r] % Len(program) \in 0 .. Len(program) - 1
    BY <1>1, <2>1
  <2> QED
    BY <2>1, <2>2
<1>5. set \in Seq(Message)
  BY <1>1, <1>4, GeneratedType
<1> HIDE DEF set
<1>6. heard' \in [Replica -> Seq(Message)]
  BY <1>1, <1>5 DEF Typed, Sending
<1>7. next' \in [Replica -> 0 .. Limit]
  BY <1>1, WorkloadAssumption DEF Typed, Sending
<1>8. Sent' = Sent
  BY <1>1 DEF Sent
<1>9. Sending'
  BY <1>1, <1>2, <1>6, <1>7, <1>8 DEF Typed, Sending
<1> QED
  BY <1>3, <1>9 DEF Typed

LEMMA OrderDef ==
    ASSUME Order
    PROVE  /\ mode = "tcp"
           /\ \E r \in Replica : \E i \in Unordered(r) : ordered' = Append(ordered, heard[r][i])
           /\ UNCHANGED <<mode, program, gate, next, heard, answered, sent, replies, completed, status>>
<1>1. Primary \in Replica
  BY WorkloadAssumption DEF Primary, Replica
<1> QED
  BY <1>1, Zenon DEF Order, startup

LEMMA OrderTyped ==
    ASSUME Typed, Order
    PROVE  Typed'
<1>1. PICK r \in Replica : \E i \in Unordered(r) : ordered' = Append(ordered, heard[r][i])
  BY OrderDef
<1>2. PICK i \in Unordered(r) : ordered' = Append(ordered, heard[r][i])
  BY <1>1
<1> DEFINE q == heard[r][i]
<1>3. heard[r] \in Seq(Sent) /\ i \in 1 .. Len(heard[r])
  BY OrderDef DEF Typed, Sending, Unordered
<1>4. q \in Sent
  BY <1>3
<1>5. ordered \in Seq(Sent) /\ ordered' = Append(ordered, q)
  BY <1>2 DEF Typed, Sending
<1> HIDE DEF q
<1>6. ordered' \in Seq(Sent) /\ Len(ordered') = Len(ordered) + 1 /\ Len(ordered) \in Nat
  BY <1>4, <1>5
<1>7. Counting'
  BY OrderDef DEF Typed, Counting, CountReplies
<1>8. Sent' = Sent
  BY OrderDef DEF Sent
<1>9. \A p \in Replica : answered[p] <= Len(ordered')
  BY <1>6 DEF Typed, Sending
<1> QED
  BY <1>6, <1>7, <1>8, <1>9, OrderDef DEF Typed, Sending

\* The sequence number of an answer is one that the client has a place for.
LEMMA ProcessReplyDef ==
    ASSUME Typed, NEW r \in Replica, ProcessReply(r)
    PROVE  LET i == ordered[answered[r] + 1].sequence
           IN  /\ mode = "tcp" /\ status = "running" /\ completed \in 0 .. CountReplies - 1
               /\ answered[r] + 1 \in 1 .. Len(ordered) /\ i \in 0 .. Len(program) - 1
               /\ i \in 0 .. CountReplies - 1 /\ CountReplies \in Nat
               /\ answered' = [answered EXCEPT ![r] = @ + 1]
               /\ replies' = [replies EXCEPT ![i] = @ + 1]
               /\ completed' \in {completed, completed + 1}
               /\ completed' # completed => replies'[completed] >= Replicas
               /\ status' = IF completed' = CountReplies THEN "ok" ELSE status
               /\ UNCHANGED <<mode, program, gate, next, heard, ordered, sent>>
<1> DEFINE i == ordered[answered[r] + 1].sequence
<1>1. /\ program \in Program /\ CountReplies \in Nat /\ CountReplies >= Len(program) /\ Len(program) \in Nat
  BY CountDef DEF Typed, Counting
<1>2. /\ mode = "tcp" /\ status = "running" /\ answered[r] < Len(ordered) /\ answered[r] \in Nat
      /\ ordered \in Seq(Sent)
  BY DEF ProcessReply, Typed, Sending
<1>3. answered[r] + 1 \in 1 .. Len(ordered)
  BY <1>2
<1>4. i \in 0 .. sent - 1 /\ sent \in 0 .. Len(program)
  <2>1. ordered[answered[r] + 1] \in Sent
    BY <1>2, <1>3
  <2> QED
    BY <2>1 DEF Sent, Typed, Counting
<1>5. i \in 0 .. Len(program) - 1 /\ i \in 0 .. CountReplies - 1
  <2> HIDE DEF i
  <2> QED
    BY <1>1, <1>4
<1>6. completed \in 0 .. CountReplies - 1
  BY <1>1, <1>2 DEF Typed, Counting
<1>7. /\ completed' = IF AllReplies(replies'[completed]) THEN completed + 1 ELSE completed
      /\ answered' = [answered EXCEPT ![r] = @ + 1]
      /\ replies' = [replies EXCEPT ![i] = @ + 1]
      /\ status' = IF completed' = CountReplies THEN "ok" ELSE status
      /\ UNCHANGED <<mode, program, gate, next, heard, ordered, sent>>
  BY DEF ProcessReply, startup
<1> QED
  BY <1>1, <1>2, <1>3, <1>5, <1>6, <1>7 DEF AllReplies

LEMMA ProcessReplyTyped ==
    ASSUME Typed, NEW r \in Replica, ProcessReply(r)
    PROVE  Typed'
<1> DEFINE i == ordered[answered[r] + 1].sequence
<1>1. /\ mode = "tcp" /\ status = "running" /\ completed \in 0 .. CountReplies - 1
      /\ answered[r] + 1 \in 1 .. Len(ordered)
      /\ i \in 0 .. CountReplies - 1 /\ CountReplies \in Nat
      /\ answered' = [answered EXCEPT ![r] = @ + 1]
      /\ replies' = [replies EXCEPT ![i] = @ + 1]
      /\ completed' \in {completed, completed + 1}
      /\ status' = IF completed' = CountReplies THEN "ok" ELSE status
      /\ UNCHANGED <<mode, program, gate, next, heard, ordered, sent>>
  BY ProcessReplyDef
<1> HIDE DEF i
<1>2. CountReplies' = CountReplies
  BY <1>1 DEF CountReplies
<1>3. replies' \in [0 .. CountReplies - 1 -> Nat]
  <2>1. replies \in [0 .. CountReplies - 1 -> Nat]
    BY DEF Typed, Counting
  <2> HIDE DEF CountReplies
  <2> QED
    BY <1>1, <2>1
<1>4. Counting'
  <2>1. completed' \in 0 .. CountReplies /\ (completed' # CountReplies => completed' < CountReplies)
    <3> HIDE DEF CountReplies
    <3> QED
      BY <1>1
  <2> QED
    BY <1>1, <1>2, <1>3, <2>1 DEF Typed, Counting
<1>5. answered' \in [Replica -> Nat] /\ \A q \in Replica : answered'[q] <= Len(ordered)
  BY <1>1 DEF Typed, Sending
<1>6. Sent' = Sent
  BY <1>1 DEF Sent
<1> QED
  BY <1>1, <1>4, <1>5, <1>6 DEF Typed, Sending

LEMMA NextTyped == Typed /\ [Next]_vars => Typed'
<1> SUFFICES ASSUME Typed, [Next]_vars PROVE Typed'
  OBVIOUS
<1>1. CASE SendSet \/ Order
  BY <1>1, SendSetTyped, OrderTyped
<1>2. CASE Timeout
  <2>1. /\ status' = "timeout" /\ mode = "tcp"
        /\ UNCHANGED <<mode, program, gate, next, heard, ordered, answered, sent, replies, completed>>
    BY <1>2 DEF Timeout, startup
  <2>2. Counting'
    BY <2>1 DEF Typed, Counting, CountReplies
  <2>3. Sent' = Sent
    BY <2>1 DEF Sent
  <2> QED
    BY <2>1, <2>2, <2>3 DEF Typed, Sending
<1>3. ASSUME NEW r \in Replica, ControlPort(r) \/ Control(r) PROVE Typed'
  <2>1. mode = "program" /\ UNCHANGED <<mode, program, next, heard, ordered, answered, sent, replies, completed, status>>
    BY <1>3 DEF ControlPort, Control, client
  <2>2. Counting'
    BY <2>1 DEF Typed, Counting, CountReplies
  <2>3. Sent' = Sent
    BY <2>1 DEF Sent
  <2> QED
    BY <2>1, <2>2, <2>3 DEF Typed, Sending
<1>4. ASSUME NEW r \in Replica, Generate(r) \/ ProcessReply(r) PROVE Typed'
  BY <1>4, GenerateTyped, ProcessReplyTyped
<1>5. CASE UNCHANGED vars
  <2>1. Counting'
    BY <1>5 DEF vars, Typed, Counting, CountReplies
  <2>2. Sent' = Sent
    BY <1>5 DEF vars, Sent
  <2> QED
    BY <1>5, <2>1, <2>2 DEF vars, Typed, Sending
<1> QED
  BY <1>1, <1>2, <1>3, <1>4, <1>5 DEF Next

THEOREM SpecTyped == Spec => []Typed
BY InitTyped, NextTyped, PTL DEF Spec

\* TypeOK: the counts of the client stay in their ranges, every reply has a
\* place in the vector that is indexed with its sequence number, and a control
\* connection and its task agree, for any programs and number of replicas.
THEOREM TypesAreOK == Spec => []TypeOK
<1>1. Started /\ Typed => TypeOK
  <2> SUFFICES ASSUME Started, Typed PROVE TypeOK
    OBVIOUS
  <2>1. /\ sent \in Nat /\ sent <= Len(program) /\ Len(program) \in Nat
        /\ CountReplies \in Nat /\ Len(program) <= CountReplies
    BY CountDef DEF Typed, Counting
  <2>2. /\ DOMAIN replies = 0 .. CountReplies - 1
        /\ \A i \in DOMAIN replies : replies[i] \in Nat
    BY DEF Typed, Counting
  <2>3. ASSUME NEW i \in DOMAIN ordered PROVE ordered[i].sequence \in DOMAIN replies
    <3>1. ordered[i] \in Sent
      BY DEF Typed, Sending
    <3> QED
      BY <2>1, <2>2, <3>1 DEF Sent
  <2>4. status = "running" => completed \in DOMAIN replies
    BY <2>1, <2>2 DEF Typed, Counting
  <2> QED
    BY <2>2, <2>3, <2>4 DEF Started, Agree, Typed, Counting, Sending, TypeOK
<1> QED
  BY <1>1, SpecStarted, SpecTyped, PTL

-----------------------------------------------------------------------------
(* What is answered when the test ends well                                 *)

\* One request of each kind is expected.
Single == \A i \in 1 .. Len(program) : Expected(program[i]) = 1

\* The replicas that have answered a request with sequence number i.
Answered(i) == {r \in Replica : \E j \in 1 .. answered[r] : ordered[j].sequence = i}

\* Payloads are ordered once.  There are no more replies to a sequence number
\* than replicas have answered it, if it stands for one request only, and all
\* those that the client has passed are enough.
Answers ==
    /\ \A i, j \in 1 .. Len(ordered) : i # j => ordered[i].payload # ordered[j].payload
    /\ \A i \in 0 .. CountReplies - 1 :
          /\ i >= Len(program) => replies[i] = 0
          /\ Single => replies[i] <= Cardinality(Answered(i))
          /\ i < completed => replies[i] >= Replicas

LEMMA SinglePayload ==
    ASSUME Typed, Single, NEW q \in Sent
    PROVE  q.payload = <<"payload", q.sequence>>
<1> DEFINE i == q.sequence
<1>1. i \in 0 .. sent - 1 /\ sent \in 0 .. Len(program) /\ Len(program) \in Nat
  BY CountDef DEF Typed, Counting, Sent
<1>2. i + 1 \in 1 .. Len(program)
  <2> HIDE DEF i
  <2> QED
    BY <1>1
<1> DEFINE k == program[i + 1]
<1>3. k \in Kinds /\ Expected(k) = 1
  BY <1>2, ProgramDef DEF Typed, Counting, Single
<1>4. q.payload \in Payloads(k, i)
  BY DEF Sent
<1> HIDE DEF k, i
<1>5. k.kind # "Corrupt"
  BY <1>3 DEF Expected
<1>6. k.kind = "Additional" => k.n = 0
  BY <1>3 DEF Expected, Kinds
<1>7. Payloads(k, i) = {<<"payload", i>>}
  <2>1. CASE k.kind = "Additional"
    <3>1. 1 .. k.n = {}
      BY <1>6, <2>1
    <3> QED
      BY <1>5, <3>1 DEF Payloads
  <2>2. CASE k.kind # "Additional"
    BY <1>5, <2>2 DEF Payloads
  <2> QED
    BY <2>1, <2>2
<1> QED
  BY <1>4, <1>7 DEF i

LEMMA ReplicasFinite ==
    /\ IsFiniteSet(Replica) /\ Cardinality(Replica) = Replicas
    /\ \A S \in SUBSET Replica : IsFiniteSet(S) /\ Cardinality(S) \in Nat /\ Cardinality(S) <= Replicas
<1>1. Replicas \in Nat \ {0}
  BY WorkloadAssumption
<1>2. IsFiniteSet(Replica) /\ Cardinality(Replica) = Replicas
  BY <1>1, FS_Interval DEF Replica
<1> QED
  BY <1>2, FS_Subset, FS_CardinalityType

LEMMA InitAnswers == Init => Answers
<1> SUFFICES ASSUME Init PROVE Answers
  OBVIOUS
<1>1. program \in Program
  BY WorkloadAssumption DEF Init, Program
<1>2. CountReplies \in Nat
  BY <1>1, CountDef
<1>3. ordered = <<>> /\ completed = 0 /\ \A i \in 0 .. CountReplies - 1 : replies[i] = 0
  BY DEF Init
<1>4. \A i : Cardinality(Answered(i)) \in Nat
  BY ReplicasFinite DEF Answered
<1> QED
  BY <1>2, <1>3, <1>4 DEF Answers

\* The first answers of each replica stay what they were.
LEMMA OrderAnswers ==
    ASSUME Typed, Answers, Order
    PROVE  Answers'
<1>1. PICK r \in Replica : \E i \in Unordered(r) : ordered' = Append(ordered, heard[r][i])
  BY OrderDef
<1>2. PICK i \in Unordered(r) : ordered' = Append(ordered, heard[r][i])
  BY <1>1
<1> DEFINE q == heard[r][i]
<1>3. \A j \in 1 .. Len(ordered) : ordered[j].payload # q.payload
  BY DEF Unordered, Typed, Sending
<1> HIDE DEF q
<1>4. /\ Len(ordered') = Len(ordered) + 1 /\ Len(ordered) \in Nat
      /\ ordered'[Len(ordered) + 1] = q
      /\ \A j \in 1 .. Len(ordered) : ordered'[j] = ordered[j]
  BY <1>2 DEF q, Typed, Sending
<1>5. ASSUME NEW j \in 1 .. Len(ordered'), NEW k \in 1 .. Len(ordered'), j # k
      PROVE  ordered'[j].payload # ordered'[k].payload
  <2>1. (j \in 1 .. Len(ordered) \/ j = Len(ordered) + 1) /\ (k \in 1 .. Len(ordered) \/ k = Len(ordered) + 1)
    BY <1>4
  <2> QED
    BY <1>3, <1>4, <1>5, <2>1 DEF Answers
<1>6. \A j : Answered(j)' = Answered(j)
  <2>1. \A p \in Replica : \A j \in 1 .. answered[p] : j \in 1 .. Len(ordered)
    BY <1>4 DEF Typed, Sending
  <2>2. answered' = answered
    BY OrderDef
  <2> QED
    BY <1>4, <2>1, <2>2 DEF Answered
<1>7. CountReplies' = CountReplies /\ Single' = Single
  BY OrderDef DEF CountReplies, Single
<1> QED
  BY <1>5, <1>6, <1>7, OrderDef DEF Answers

\* A reply comes from a replica that had not answered its sequence number.
LEMMA ProcessReplyAnswers ==
    ASSUME Typed, Answers, NEW r \in Replica, ProcessReply(r)
    PROVE  Answers'
<1> DEFINE i == ordered[answered[r] + 1].sequence
<1>1. /\ completed \in 0 .. CountReplies - 1
      /\ answered[r] + 1 \in 1 .. Len(ordered) /\ i \in 0 .. Len(program) - 1
      /\ i \in 0 .. CountReplies - 1 /\ CountReplies \in Nat
      /\ answered' = [answered EXCEPT ![r] = @ + 1]
      /\ replies' = [replies EXCEPT ![i] = @ + 1]
      /\ completed' \in {completed, completed + 1}
      /\ completed' # completed => replies'[completed] >= Replicas
      /\ UNCHANGED <<program, ordered>>
  BY ProcessReplyDef
<1>2. CountReplies' = CountReplies /\ Single' = Single
  BY <1>1 DEF CountReplies, Single
<1>3. Replicas \in Nat /\ \A j : Answered(j) \subseteq Replica
  BY WorkloadAssumption DEF Answered
<1>4. answered'[r] = answered[r] + 1 /\ answered[r] \in Nat /\ \A p \in Replica \ {r} : answered'[p] = answered[p]
  BY <1>1 DEF Typed, Sending
<1>5. ASSUME NEW j PROVE Answered(j)' = IF j = i THEN Answered(j) \cup {r} ELSE Answered(j)
  <2>1. ASSUME NEW p \in Replica \ {r} PROVE p \in Answered(j)' <=> p \in Answered(j)
    BY <1>1, <1>4 DEF Answered
  <2>2. \A m : m \in 1 .. answered'[r] <=> m \in 1 .. answered[r] \/ m = answered[r] + 1
    BY <1>4
  <2>3. r \in Answered(j)' <=> r \in Answered(j) \/ j = i
    BY <1>1, <2>2 DEF Answered
  <2>4. Answered(j)' \subseteq Replica
    BY DEF Answered
  <2> HIDE DEF i
  <2> QED
    BY <1>3, <2>1, <2>3, <2>4
<1>6. ASSUME Single PROVE r \notin Answered(i)
  <2> SUFFICES ASSUME NEW j \in 1 .. answered[r], ordered[j].sequence = i PROVE FALSE
    BY DEF Answered
  <2>1. j \in 1 .. Len(ordered) /\ j # answered[r] + 1
    BY <1>1, <1>4
  <2>2. ordered[j] \in Sent /\ ordered[answered[r] + 1] \in Sent
    BY <1>1, <2>1 DEF Typed, Sending
  <2>3. ordered[j].payload = ordered[answered[r] + 1].payload
    BY <1>6, <2>2, SinglePayload
  <2> QED
    BY <1>1, <2>1, <2>3 DEF Answers
<1>7. replies \in [0 .. CountReplies - 1 -> Nat]
  BY DEF Typed, Counting
<1> HIDE DEF i
<1>8. ASSUME NEW j \in 0 .. CountReplies - 1
      PROVE  /\ replies[j] \in Nat
             /\ replies'[j] = IF j = i THEN replies[j] + 1 ELSE replies[j]
             /\ j >= Len(program) => replies'[j] = 0
             /\ Single => replies'[j] <= Cardinality(Answered(j)')
             /\ j < completed' => replies'[j] >= Replicas
  <2>1. /\ j >= Len(program) => replies[j] = 0
        /\ Single => replies[j] <= Cardinality(Answered(j))
        /\ j < completed => replies[j] >= Replicas
    BY DEF Answers
  <2>2. replies[j] \in Nat
    <3> HIDE DEF CountReplies
    <3> QED
      BY <1>7
  <2>3. replies'[j] = IF j = i THEN replies[j] + 1 ELSE replies[j]
    <3> HIDE DEF CountReplies
    <3> QED
      BY <1>1, <1>7
  <2>4. j >= Len(program) => replies'[j] = 0
    <3>1. Len(program) \in Nat
      BY CountDef DEF Typed, Counting
    <3> QED
      BY <1>1, <2>1, <2>3, <3>1
  <2>5. ASSUME Single PROVE replies'[j] <= Cardinality(Answered(j)')
    <3>1. IsFiniteSet(Answered(j)) /\ Cardinality(Answered(j)) \in Nat
      BY <1>3, ReplicasFinite
    <3>2. CASE j = i
      <4>1. Cardinality(Answered(j) \cup {r}) = Cardinality(Answered(j)) + 1
        BY <1>6, <2>5, <3>1, <3>2, FS_AddElement
      <4>2. Cardinality(Answered(j)') = Cardinality(Answered(j)) + 1
        BY <1>5, <3>2, <4>1
      <4> QED
        BY <2>1, <2>2, <2>3, <2>5, <3>1, <3>2, <4>2
    <3>3. CASE j # i
      <4>1. Cardinality(Answered(j)') = Cardinality(Answered(j))
        BY <1>5, <3>3
      <4> QED
        BY <2>1, <2>3, <2>5, <3>3, <4>1
    <3> QED
      BY <3>2, <3>3
  <2>6. ASSUME j < completed' PROVE replies'[j] >= Replicas
    <3>1. j < completed \/ (j = completed /\ completed' # completed)
      <4> HIDE DEF CountReplies
      <4> QED
        BY <1>1, <2>6
    <3> QED
      BY <1>1, <1>3, <2>1, <2>2, <2>3, <3>1
  <2> QED
    BY <2>2, <2>3, <2>4, <2>5, <2>6
<1>9. \A j, m \in 1 .. Len(ordered') : j # m => ordered'[j].payload # ordered'[m].payload
  BY <1>1 DEF Answers
<1> QED
  BY <1>1, <1>2, <1>8, <1>9 DEF Answers

LEMMA NextAnswers == Typed /\ Answers /\ [Next]_vars => Answers'
<1> SUFFICES ASSUME Typed, Answers, [Next]_vars PROVE Answers'
  OBVIOUS
<1>1. CASE UNCHANGED <<program, ordered, answered, replies, completed>>
  <2>1. CountReplies' = CountReplies /\ Single' = Single /\ \A i : Answered(i)' = Answered(i)
    BY <1>1 DEF CountReplies, Single, Answered
  <2> QED
    BY <1>1, <2>1 DEF Answers
<1>2. CASE SendSet \/ Timeout
  BY <1>1, <1>2 DEF SendSet, Timeout
<1>3. CASE Order
  BY <1>3, OrderAnswers
<1>4. ASSUME NEW r \in Replica, ControlPort(r) \/ Control(r) \/ Generate(r) PROVE Answers'
  BY <1>1, <1>4 DEF ControlPort, Control, Generate, client
<1>5. ASSUME NEW r \in Replica, ProcessReply(r) PROVE Answers'
  BY <1>5, ProcessReplyAnswers
<1>6. CASE UNCHANGED vars
  BY <1>1, <1>6 DEF vars
<1> QED
  BY <1>2, <1>3, <1>4, <1>5, <1>6 DEF Next

THEOREM SpecAnswers == Spec => []Answers
BY InitAnswers, InitTyped, NextTyped, NextAnswers, PTL DEF Spec

\* SuccessMeansAnswered: a test ends well only when all that was sent is
\* ordered and answered by every replica, for any program and any number of
\* replicas.
THEOREM SuccessIsAnswered == Spec => []SuccessMeansAnswered
<1>1. ASSUME Typed, Answers PROVE SuccessMeansAnswered
  <2> SUFFICES ASSUME status = "ok" PROVE Quiet
    BY DEF SuccessMeansAnswered
  <2>1. /\ completed = CountReplies /\ sent \in 0 .. Len(program) /\ Len(program) \in Nat \ {0}
        /\ CountReplies \in Nat /\ CountReplies >= Len(program) /\ Replicas \in Nat \ {0}
    BY <1>1, CountDef, WorkloadAssumption DEF Typed, Counting
  <2>2. ASSUME NEW i \in 0 .. CountReplies - 1 PROVE replies[i] >= Replicas
    <3>1. i < completed
      BY <2>1
    <3> QED
      BY <1>1, <3>1 DEF Answers
  <2>3. CountReplies = Len(program)
    <3> SUFFICES ASSUME CountReplies > Len(program) PROVE FALSE
      BY <2>1
    <3>1. Len(program) \in 0 .. CountReplies - 1
      BY <2>1
    <3>2. replies[Len(program)] = 0
      BY <1>1, <2>1, <3>1 DEF Answers
    <3> QED
      BY <2>1, <2>2, <3>1, <3>2
  <2>4. Single
    BY <1>1, <2>3, CountDef DEF Typed, Counting, Single
  <2>5. ASSUME NEW i \in 0 .. Len(program) - 1, NEW r \in Replica
        PROVE  \E j \in 1 .. answered[r] : ordered[j].sequence = i
    <3>1. i \in 0 .. CountReplies - 1
      BY <2>3
    <3>2. replies[i] <= Cardinality(Answered(i)) /\ replies[i] >= Replicas /\ replies[i] \in Nat
      BY <1>1, <2>2, <2>4, <3>1 DEF Answers, Typed, Counting
    <3>3. Answered(i) \in SUBSET Replica
      BY DEF Answered
    <3>4. Cardinality(Answered(i)) = Cardinality(Replica) /\ IsFiniteSet(Replica)
      BY <2>1, <3>2, <3>3, ReplicasFinite
    <3>5. r \in Answered(i)
      BY <3>3, <3>4, FS_Subset
    <3> QED
      BY <3>5 DEF Answered
  <2>6. /\ mode = "tcp" /\ ordered \in Seq(Sent) /\ heard \in [Replica -> Seq(Sent)]
        /\ \A r \in Replica : answered[r] \in Nat /\ answered[r] <= Len(ordered)
    BY <1>1 DEF Typed, Sending
  <2>7. Primary \in Replica
    BY <2>1 DEF Replica, Primary
  <2>8. sent = Len(program)
    <3>1. PICK j \in 1 .. answered[Primary] : ordered[j].sequence = Len(program) - 1
      <4>1. Len(program) - 1 \in 0 .. Len(program) - 1
        BY <2>1
      <4> QED
        BY <2>5, <2>7, <4>1
    <3>2. ordered[j] \in Sent
      BY <2>6, <2>7, <3>1
    <3> QED
      BY <2>1, <3>1, <3>2 DEF Sent
  <2>9. ASSUME NEW q \in Sent PROVE q.sequence \in 0 .. Len(program) - 1 /\ q.payload = <<"payload", q.sequence>>
    BY <1>1, <2>4, <2>8, SinglePayload DEF Sent
  <2>10. ASSUME NEW r \in Replica, NEW m \in Unordered(r) PROVE FALSE
    <3>1. heard[r][m] \in Sent /\ \A j \in 1 .. Len(ordered) : ordered[j].payload # heard[r][m].payload
      BY <2>6 DEF Unordered
    <3>2. PICK j \in 1 .. answered[r] : ordered[j].sequence = heard[r][m].sequence
      BY <2>5, <2>9, <3>1
    <3>3. j \in 1 .. Len(ordered) /\ ordered[j] \in Sent
      BY <2>6, <3>2
    <3> QED
      BY <2>9, <3>1, <3>2, <3>3
  <2>11. ASSUME NEW r \in Replica PROVE answered[r] = Len(ordered)
    <3> SUFFICES ASSUME answered[r] < Len(ordered) PROVE FALSE
      BY <2>6
    <3> DEFINE n == Len(ordered)
    <3>1. n \in 1 .. n /\ ordered[n] \in Sent
      BY <2>6
    <3>2. PICK j \in 1 .. answered[r] : ordered[j].sequence = ordered[n].sequence
      BY <2>5, <2>9, <3>1
    <3>3. j \in 1 .. n /\ j # n /\ ordered[j] \in Sent
      BY <2>6, <3>2
    <3>4. ordered[j].payload = ordered[n].payload
      BY <2>9, <3>1, <3>2, <3>3
    <3> QED
      BY <1>1, <3>1, <3>3, <3>4 DEF Answers
  <2> QED
    BY <2>8, <2>10, <2>11 DEF Quiet
<1> QED
  BY <1>1, SpecTyped, SpecAnswers, PTL

-----------------------------------------------------------------------------
(* How many requests are ordered                                            *)

\* As many values as places, if no two are the same.
LEMMA CountValues ==
    ASSUME NEW n \in Nat, NEW f, f = [j \in 1 .. n |-> f[j]],
           \A i, j \in 1 .. n : i # j => f[i] # f[j]
    PROVE  IsFiniteSet({f[j] : j \in 1 .. n}) /\ Cardinality({f[j] : j \in 1 .. n}) = n
<1> DEFINE T == {f[j] : j \in 1 .. n}
<1>1. f \in Bijection(1 .. n, T)
  <2>1. f \in [1 .. n -> T]
    BY Zenon
  <2>2. \A y \in T : \E j \in 1 .. n : f[j] = y
    BY Zenon
  <2> HIDE DEF T
  <2> QED
    BY <2>1, <2>2, Fun_IsBij
<1>2. ExistsBijection(1 .. n, T)
  BY <1>1, Zenon DEF ExistsBijection
<1>3. IsFiniteSet(1 .. n) /\ Cardinality(1 .. n) = n
  BY FS_Interval
<1> HIDE DEF T
<1>4. IsFiniteSet(T) /\ Cardinality(T) = n
  BY <1>2, <1>3, FS_Bijection
<1> QED
  BY <1>4 DEF T

\* There are as many payloads in a set as are expected to be ordered.
LEMMA CountPayloads ==
    ASSUME NEW k \in Kinds, NEW i \in Nat
    PROVE  IsFiniteSet(Payloads(k, i)) /\ Cardinality(Payloads(k, i)) = Expected(k)
<1> DEFINE p == <<"payload", i>>
<1> DEFINE v == <<"value", k.value>>
<1>1. IsFiniteSet({p}) /\ Cardinality({p}) = 1
  BY FS_Singleton
<1>2. CASE k.kind = "Corrupt"
  <2>1. Payloads(k, i) = {p} \cup {v} /\ v # p
    BY <1>2 DEF Payloads
  <2>2. Expected(k) = 2
    BY <1>2 DEF Expected
  <2> HIDE DEF p, v
  <2> QED
    BY <1>1, <2>1, <2>2, FS_AddElement
<1>3. CASE k.kind = "Additional"
  <2> DEFINE f == [j \in 1 .. k.n |-> <<"extra", i, j>>]
  <2> DEFINE E == {f[j] : j \in 1 .. k.n}
  <2>1. k.n \in Nat /\ Expected(k) = k.n + 1
    BY <1>3 DEF Kinds, Expected
  <2>2. IsFiniteSet(E) /\ Cardinality(E) = k.n
    <3>1. f = [j \in 1 .. k.n |-> f[j]]
      OBVIOUS
    <3>2. \A a, b \in 1 .. k.n : a # b => f[a] # f[b]
      OBVIOUS
    <3> HIDE DEF f
    <3> QED
      BY <2>1, <3>1, <3>2, CountValues
  <2>3. Payloads(k, i) = E \cup {p}
    BY <1>3 DEF Payloads
  <2>4. p \notin E
    OBVIOUS
  <2> HIDE DEF p, E
  <2> QED
    BY <2>1, <2>2, <2>3, <2>4, FS_AddElement
<1>4. CASE k.kind \in {"Normal", "Skip"}
  <2>1. Payloads(k, i) = {p} /\ Expected(k) = 1
    BY <1>4 DEF Payloads, Expected
  <2> QED
    BY <1>1, <2>1
<1> QED
  BY <1>2, <1>3, <1>4 DEF Kinds

\* The payloads of the first n sets of p.
PayloadsUpTo(p, n) == UNION {Payloads(p[i], i - 1) : i \in 1 .. n}

LEMMA PayloadsDiffer ==
    ASSUME NEW p \in Program, Addressed(p), NEW i \in 1 .. Len(p), NEW j \in 1 .. Len(p), i # j
    PROVE  Payloads(p[i], i - 1) \cap Payloads(p[j], j - 1) = {}
<1>1. p[i].kind = "Corrupt" /\ p[j].kind = "Corrupt" => p[i].value # p[j].value
  BY ProgramDef DEF Addressed
<1>2. i - 1 # j - 1
  BY ProgramDef
<1> QED
  BY <1>1, <1>2 DEF Payloads

LEMMA CountPayloadsUpTo ==
    ASSUME NEW p \in Program, Addressed(p), NEW n \in 0 .. Len(p)
    PROVE  /\ IsFiniteSet(PayloadsUpTo(p, n))
           /\ Cardinality(PayloadsUpTo(p, n)) = ExpectedUpTo(p)[n]
<1> DEFINE ok(m) == IsFiniteSet(PayloadsUpTo(p, m)) /\ Cardinality(PayloadsUpTo(p, m)) = ExpectedUpTo(p)[m]
<1> DEFINE T == {m \in Nat : m <= Len(p) => ok(m)}
<1>1. Len(p) \in Nat /\ \A i \in 1 .. Len(p) : p[i] \in Kinds
  BY ProgramDef
<1>2. 0 \in T
  <2>1. PayloadsUpTo(p, 0) = {}
    BY DEF PayloadsUpTo
  <2> QED
    BY <1>1, <2>1, FS_EmptySet, ExpectedUnfold
<1>3. ASSUME NEW m \in Nat, m \in T PROVE m + 1 \in T
  <2> SUFFICES ASSUME m + 1 <= Len(p) PROVE ok(m + 1)
    OBVIOUS
  <2> DEFINE A == PayloadsUpTo(p, m)
  <2> DEFINE B == Payloads(p[m + 1], m)
  <2>1. ok(m) /\ m + 1 \in 1 .. Len(p) /\ (m + 1) - 1 = m /\ m \in 0 .. Len(p)
    BY <1>1, <1>3
  <2>2. IsFiniteSet(B) /\ Cardinality(B) = Expected(p[m + 1]) /\ Expected(p[m + 1]) \in Nat
    BY <1>1, <2>1, CountPayloads, ExpectedDef
  <2>3. PayloadsUpTo(p, m + 1) = A \cup B
    <3>1. 1 .. m + 1 = (1 .. m) \cup {m + 1}
      OBVIOUS
    <3>2. (m + 1) - 1 = m
      OBVIOUS
    <3> QED
      BY <3>1, <3>2, Zenon DEF PayloadsUpTo
  <2>4. A \cap B = {}
    <3> SUFFICES ASSUME NEW x \in A, x \in B PROVE FALSE
      OBVIOUS
    <3>1. PICK i \in 1 .. m : x \in Payloads(p[i], i - 1)
      BY Zenon DEF PayloadsUpTo
    <3>2. i \in 1 .. Len(p) /\ i # m + 1
      BY <1>1, <2>1
    <3>3. Payloads(p[i], i - 1) \cap Payloads(p[m + 1], (m + 1) - 1) = {}
      BY <2>1, <3>2, PayloadsDiffer
    <3> QED
      BY <2>1, <3>1, <3>3
  <2>5. ExpectedUpTo(p)[m + 1] = ExpectedUpTo(p)[m] + Expected(p[m + 1]) /\ ExpectedUpTo(p)[m] \in Nat
    BY <1>1, <2>1, ExpectedUnfold, ExpectedSum
  <2> HIDE DEF A, B
  <2>6. IsFiniteSet(A) /\ Cardinality(A) = ExpectedUpTo(p)[m]
    BY <2>1 DEF A
  <2>7. IsFiniteSet(A \cup B) /\ Cardinality(A \cup B) = Cardinality(A) + Cardinality(B)
    <3>1. Cardinality(A \cap B) = 0
      BY <2>4, FS_EmptySet
    <3>2. /\ IsFiniteSet(A \cup B)
          /\ Cardinality(A \cup B) = Cardinality(A) + Cardinality(B) - Cardinality(A \cap B)
      BY <2>2, <2>6, FS_Union
    <3> QED
      BY <2>2, <2>5, <2>6, <3>1, <3>2
  <2> QED
    BY <2>2, <2>3, <2>5, <2>6, <2>7
<1>4. n \in T
  <2> HIDE DEF T
  <2>1. Nat \subseteq T
    BY <1>2, <1>3, Numbers!SetInduction
  <2> QED
    BY <1>1, <2>1
<1> QED
  BY <1>1, <1>4

\* Each payload of the sets that were sent was sent to some replica.
Complete ==
    mode = "tcp" =>
        \A i \in 1 .. sent : \A x \in Payloads(program[i], i - 1) :
            \E r \in Replica : \E m \in 1 .. Len(heard[r]) : heard[r][m].payload = x

LEMMA CreateComplete ==
    ASSUME NEW k \in Kinds, NEW i \in Nat, NEW x \in Payloads(k, i),
           k.kind \in {"Corrupt", "Additional"} => k.to \in Replica,
           k.kind \in {"Corrupt", "Skip"} => Replicas > 1
    PROVE  \E r \in Replica : \E m \in 1 .. Len(CreateMessages(k, i, r)) : CreateMessages(k, i, r)[m].payload = x
<1> DEFINE payload == Request(i, <<"payload", i>>)
<1> DEFINE value == Request(i, <<"value", k.value>>)
<1> DEFINE extras == [j \in 1 .. k.n |-> Request(i, <<"extra", i, j>>)]
<1>1. Primary \in Replica
  BY WorkloadAssumption DEF Replica, Primary
<1>2. ASSUME Replicas > 1 PROVE \E r \in Replica : r # k.to
  <2>1. 0 \in Replica /\ 1 \in Replica
    BY <1>2, WorkloadAssumption DEF Replica
  <2> QED
    BY <2>1
<1>3. Len(<<payload>>) = 1 /\ <<payload>>[1] = payload /\ payload.payload = <<"payload", i>>
  BY DEF Request
<1>4. CASE k.kind = "Normal"
  <2>1. x = <<"payload", i>>
    BY <1>4 DEF Payloads
  <2>2. CreateMessages(k, i, Primary) = <<payload>>
    BY <1>4 DEF CreateMessages
  <2> HIDE DEF payload
  <2> QED
    BY <1>1, <1>3, <2>1, <2>2
<1>5. CASE k.kind = "Skip"
  <2>1. x = <<"payload", i>>
    BY <1>5 DEF Payloads
  <2>2. PICK r \in Replica : r # k.to
    BY <1>2, <1>5
  <2>3. CreateMessages(k, i, r) = <<payload>>
    BY <1>5, <2>2 DEF CreateMessages
  <2> HIDE DEF payload
  <2> QED
    BY <1>3, <2>1, <2>3
<1>6. CASE k.kind = "Corrupt"
  <2>1. x = <<"payload", i>> \/ x = <<"value", k.value>>
    BY <1>6 DEF Payloads
  <2>2. PICK r \in Replica : r # k.to
    BY <1>2, <1>6
  <2>3. CreateMessages(k, i, r) = <<payload>>
    BY <1>6, <2>2 DEF CreateMessages
  <2>4. CreateMessages(k, i, k.to) = <<value>> /\ k.to \in Replica
    BY <1>6 DEF CreateMessages
  <2>5. Len(<<value>>) = 1 /\ <<value>>[1] = value /\ value.payload = <<"value", k.value>>
    BY DEF Request
  <2> HIDE DEF payload, value
  <2> QED
    BY <1>3, <2>1, <2>3, <2>4, <2>5
<1>7. CASE k.kind = "Additional"
  <2>1. CreateMessages(k, i, k.to) = extras \o <<payload>> /\ k.to \in Replica
    BY <1>7 DEF CreateMessages
  <2>2. k.n \in Nat
    BY <1>7 DEF Kinds
  <2>3. \A j \in 1 .. k.n : extras[j] = Request(i, <<"extra", i, j>>) /\ extras[j].payload = <<"extra", i, j>>
    BY DEF Request
  <2>4. extras = [j \in 1 .. k.n |-> extras[j]]
    OBVIOUS
  <2> HIDE DEF extras, payload
  <2>5. /\ Len(extras \o <<payload>>) = k.n + 1
        /\ (extras \o <<payload>>)[k.n + 1] = payload
        /\ \A j \in 1 .. k.n : (extras \o <<payload>>)[j] = extras[j]
    <3>1. extras \in Seq({extras[j] : j \in 1 .. k.n}) /\ Len(extras) = k.n
      <4> DEFINE R == {extras[j] : j \in 1 .. k.n}
      <4>1. \A j \in 1 .. k.n : extras[j] \in R
        OBVIOUS
      <4> HIDE DEF R
      <4>2. extras \in [1 .. k.n -> R]
        BY <2>4, <4>1
      <4> QED
        BY <2>2, <4>2 DEF R
    <3> QED
      BY <2>2, <3>1
  <2>6. CASE x = <<"payload", i>>
    <3>1. k.n + 1 \in 1 .. k.n + 1
      BY <2>2
    <3> QED
      BY <1>3, <2>1, <2>5, <2>6, <3>1
  <2>7. CASE x # <<"payload", i>>
    <3>1. PICK j \in 1 .. k.n : x = <<"extra", i, j>>
      BY <1>7, <2>7 DEF Payloads
    <3>2. j \in 1 .. k.n + 1
      BY <2>2
    <3> QED
      BY <2>1, <2>3, <2>5, <3>1, <3>2
  <2> QED
    BY <2>6, <2>7
<1> QED
  BY <1>4, <1>5, <1>6, <1>7 DEF Kinds

LEMMA SendSetComplete ==
    ASSUME Typed, Addressed(program), Complete, SendSet
    PROVE  Complete'
<1> DEFINE set(r) == CreateMessages(program[sent + 1], sent, r)
<1>1. /\ mode = "tcp" /\ sent \in Nat /\ sent + 1 \in 1 .. Len(program) /\ sent' = sent + 1
      /\ heard' = [r \in Replica |-> heard[r] \o set(r)] /\ program' = program
  BY CountDef DEF SendSet, Typed, Counting
<1>2. program[sent + 1] \in Kinds /\ DOMAIN program = 1 .. Len(program)
  BY <1>1, ProgramDef DEF Typed, Counting
<1>3. ASSUME NEW r \in Replica
      PROVE  /\ Len(heard[r]) \in Nat /\ Len(set(r)) \in Nat /\ Len(heard'[r]) = Len(heard[r]) + Len(set(r))
             /\ \A m \in 1 .. Len(heard[r]) : heard'[r][m] = heard[r][m]
             /\ \A m \in 1 .. Len(set(r)) : heard'[r][Len(heard[r]) + m] = set(r)[m]
  <2> DEFINE S == {q \in Message : q.sequence = sent /\ q.payload \in Payloads(program[sent + 1], sent)}
  <2>1. heard[r] \in Seq(Message) /\ heard'[r] = heard[r] \o set(r)
    BY <1>1 DEF Typed, Sending
  <2>2. set(r) \in Seq(S)
    BY <1>1, <1>2, CreateType
  <2>3. set(r) \in Seq(Message)
    <3>1. S \subseteq Message
      OBVIOUS
    <3> HIDE DEF S, set
    <3> QED
      BY <2>2, <3>1
  <2> HIDE DEF set
  <2> QED
    BY <2>1, <2>3
<1>4. ASSUME NEW i \in 1 .. sent + 1, NEW x \in Payloads(program[i], i - 1)
      PROVE  \E r \in Replica : \E m \in 1 .. Len(heard'[r]) : heard'[r][m].payload = x
  <2>1. CASE i \in 1 .. sent
    <3>1. PICK r \in Replica : \E m \in 1 .. Len(heard[r]) : heard[r][m].payload = x
      BY <1>1, <2>1 DEF Complete
    <3>2. PICK m \in 1 .. Len(heard[r]) : heard[r][m].payload = x
      BY <3>1
    <3> HIDE DEF set
    <3>3. m \in 1 .. Len(heard'[r]) /\ heard'[r][m].payload = x
      BY <1>3, <3>2
    <3> QED
      BY <3>3
  <2>2. CASE i = sent + 1
    <3> DEFINE k == program[sent + 1]
    <3>1. k.kind \in {"Corrupt", "Additional"} => k.to \in Replica
      BY <1>1, <1>2 DEF Addressed
    <3>2. k.kind \in {"Corrupt", "Skip"} => Replicas > 1
      BY <1>1, <1>2 DEF Addressed
    <3>3. x \in Payloads(k, sent)
      <4>1. i - 1 = sent
        BY <1>1, <2>2
      <4> QED
        BY <2>2, <4>1
    <3>4. \E r \in Replica : \E m \in 1 .. Len(set(r)) : set(r)[m].payload = x
      <4> HIDE DEF k
      <4>1. k \in Kinds
        BY <1>2 DEF k
      <4>2. \E r \in Replica : \E m \in 1 .. Len(CreateMessages(k, sent, r)) : CreateMessages(k, sent, r)[m].payload = x
        BY <1>1, <3>1, <3>2, <3>3, <4>1, CreateComplete
      <4> QED
        BY <4>2 DEF k
    <3> HIDE DEF set
    <3>5. PICK r \in Replica : \E m \in 1 .. Len(set(r)) : set(r)[m].payload = x
      BY <3>4
    <3>6. PICK m \in 1 .. Len(set(r)) : set(r)[m].payload = x
      BY <3>5
    <3>7. Len(heard[r]) + m \in 1 .. Len(heard'[r]) /\ heard'[r][Len(heard[r]) + m].payload = x
      BY <1>3, <3>6
    <3> QED
      BY <3>7
  <2>3. i \in 1 .. sent \/ i = sent + 1
    BY <1>1
  <2> HIDE DEF set
  <2> QED
    BY <2>1, <2>2, <2>3
<1> QED
  BY <1>1, <1>4 DEF Complete

LEMMA NextComplete ==
    ASSUME Typed, Addressed(program) => Complete, [Next]_vars
    PROVE  (Addressed(program) => Complete)'
<1>1. CASE SendSet
  <2>1. program' = program
    BY <1>1 DEF SendSet
  <2> QED
    BY <1>1, <2>1, SendSetComplete DEF Addressed
<1>2. CASE UNCHANGED <<mode, program, sent, heard>>
  BY <1>2 DEF Complete, Addressed
<1>3. CASE Order \/ Timeout
  BY <1>2, <1>3 DEF Order, Timeout
<1>4. ASSUME NEW r \in Replica, ControlPort(r) \/ Control(r) \/ ProcessReply(r)
      PROVE  (Addressed(program) => Complete)'
  BY <1>2, <1>4 DEF ControlPort, Control, ProcessReply, client
<1>5. ASSUME NEW r \in Replica, Generate(r) PROVE (Addressed(program) => Complete)'
  <2>1. gate[r] = "go" /\ mode' = mode
    BY <1>5 DEF Generate
  <2>2. mode # "tcp"
    BY <2>1 DEF Typed, Sending
  <2> QED
    BY <2>1, <2>2 DEF Complete
<1>6. CASE UNCHANGED vars
  BY <1>2, <1>6 DEF vars
<1> QED
  BY <1>1, <1>3, <1>4, <1>5, <1>6 DEF Next

THEOREM SpecComplete == Spec => [](Addressed(program) => Complete)
<1>1. Init => (Addressed(program) => Complete)
  BY DEF Init, Complete
<1> QED
  BY <1>1, InitTyped, NextTyped, NextComplete, PTL DEF Spec

\* ExpectedAreOrdered: of a program whose requests all go to some replica and
\* whose corrupt values differ, as many requests are ordered as the client
\* expects replies to, for any such program and any number of replicas.
THEOREM ExpectedIsOrdered == Spec => [](Addressed(program) => ExpectedAreOrdered)
<1>1. ASSUME Typed, Answers, Addressed(program) => Complete
      PROVE  Addressed(program) => ExpectedAreOrdered
  <2> SUFFICES ASSUME Addressed(program), mode = "tcp", sent = Len(program),
                      \A r \in Replica : Unordered(r) = {}
               PROVE  Len(ordered) = CountReplies
    BY DEF ExpectedAreOrdered
  <2> DEFINE n == Len(ordered)
  <2> DEFINE f == [j \in 1 .. n |-> ordered[j].payload]
  <2> DEFINE P == PayloadsUpTo(program, Len(program))
  <2>1. program \in Program /\ Len(program) \in Nat /\ n \in Nat /\ ordered \in Seq(Sent)
    BY <1>1, CountDef DEF Typed, Counting, Sending
  <2>2. Cardinality({f[j] : j \in 1 .. n}) = n
    <3>1. \A i, j \in 1 .. n : i # j => f[i] # f[j]
      BY <1>1 DEF Answers
    <3>2. f = [j \in 1 .. n |-> f[j]]
      OBVIOUS
    <3> HIDE DEF f, n
    <3> QED
      BY <2>1, <3>1, <3>2, CountValues
  <2>3. Cardinality(P) = CountReplies
    <3>1. Len(program) \in 0 .. Len(program)
      BY <2>1
    <3> QED
      BY <2>1, <3>1, CountPayloadsUpTo DEF CountReplies
  <2>4. ASSUME NEW j \in 1 .. n PROVE f[j] \in P
    <3>1. ordered[j] \in Sent
      BY <2>1
    <3>2. ordered[j].sequence \in 0 .. Len(program) - 1
      BY <3>1 DEF Sent
    <3> DEFINE i == ordered[j].sequence + 1
    <3>3. i \in 1 .. Len(program) /\ i - 1 = ordered[j].sequence
      BY <2>1, <3>2
    <3>4. f[j] \in Payloads(program[i], i - 1)
      BY <3>1, <3>3 DEF Sent
    <3> HIDE DEF i, f
    <3> QED
      BY <3>3, <3>4, Zenon DEF PayloadsUpTo
  <2>5. ASSUME NEW x \in P PROVE \E j \in 1 .. n : f[j] = x
    <3>1. PICK i \in 1 .. Len(program) : x \in Payloads(program[i], i - 1)
      BY Zenon DEF PayloadsUpTo
    <3>2. PICK r \in Replica : \E m \in 1 .. Len(heard[r]) : heard[r][m].payload = x
      BY <1>1, <3>1 DEF Complete
    <3>3. PICK m \in 1 .. Len(heard[r]) : heard[r][m].payload = x
      BY <3>2
    <3>4. m \in DOMAIN heard[r] /\ DOMAIN ordered = 1 .. n
      BY <1>1, <2>1 DEF Typed, Sending
    <3>5. \E j \in 1 .. n : ordered[j].payload = x
      BY <3>3, <3>4 DEF Unordered
    <3> QED
      BY <3>5
  <2>6. {f[j] : j \in 1 .. n} = P
    <3> HIDE DEF f, n, P
    <3> QED
      BY <2>4, <2>5
  <2> QED
    BY <2>2, <2>3, <2>6
<1> QED
  BY <1>1, SpecTyped, SpecAnswers, SpecComplete, PTL

-----------------------------------------------------------------------------
(* What the generators write                                                *)

LEMMA ModDef ==
    ASSUME NEW n \in Nat, NEW m \in Nat \ {0}
    PROVE  /\ n \div m \in Nat /\ n % m \in 0 .. m - 1 /\ (n \div m) * m \in Nat
           /\ n = ((n \div m) * m) + (n % m) /\ n % m <= n
<1>1. n \div m \in Nat /\ n % m \in 0 .. m - 1 /\ n = ((n \div m) * m) + (n % m) /\ (n \div m) * m \in Nat
  OBVIOUS
<1> QED
  BY <1>1

\* Different numbers have different words; turned round, one that fits into a
\* half is no other that does.
LEMMA WordsDiffer ==
    ASSUME NEW i \in Nat, NEW j \in Nat, i # j
    PROVE  /\ BigEndian(i) # BigEndian(j) /\ LittleEndian(i) # LittleEndian(j)
           /\ i < Half /\ j < Half => BigEndian(i) # LittleEndian(j)
<1>1. /\ i = ((i \div Half) * Half) + (i % Half) /\ j = ((j \div Half) * Half) + (j % Half)
      /\ Half \in Nat \ {0}
  BY WorkloadAssumption, ModDef
<1>2. ~ (i \div Half = j \div Half /\ i % Half = j % Half)
  <2> SUFFICES ASSUME i \div Half = j \div Half, i % Half = j % Half PROVE FALSE
    OBVIOUS
  <2>1. ((i \div Half) * Half) + (i % Half) = ((j \div Half) * Half) + (j % Half)
    BY Zenon
  <2>2. i = j
    BY <1>1, <2>1, Zenon
  <2> QED
    BY <2>2
<1>3. ASSUME i < Half, j < Half PROVE BigEndian(i) # LittleEndian(j)
  <2>1. i \div Half = 0 /\ j \div Half = 0
    BY <1>1, <1>3, Numbers!DivUnique
  <2>2. i % Half = i /\ j % Half = j
    BY <1>1, <2>1
  <2>3. BigEndian(i) = <<0, i>> /\ LittleEndian(j) = <<j, 0>>
    BY <2>1, <2>2, Zenon DEF BigEndian, LittleEndian
  <2> QED
    BY <2>3
<1>4. BigEndian(i) # BigEndian(j) /\ LittleEndian(i) # LittleEndian(j)
  <2> DEFINE a == i \div Half
  <2> DEFINE b == i % Half
  <2> DEFINE c == j \div Half
  <2> DEFINE d == j % Half
  <2>1. ~ (a = c /\ b = d)
    BY <1>2
  <2>2. /\ BigEndian(i) = <<a, b>> /\ BigEndian(j) = <<c, d>>
        /\ LittleEndian(i) = <<b, a>> /\ LittleEndian(j) = <<d, c>>
    BY DEF BigEndian, LittleEndian
  <2> HIDE DEF a, b, c, d
  <2> QED
    BY <2>1, <2>2
<1> QED
  BY <1>3, <1>4

\* The payloads that are generated of kind k at index i.
Written(k, i) ==
    IF k.kind = "Corrupt" THEN {MakeCPayload(i)}
    ELSE {MakePayload(i)} \cup (IF k.kind = "Additional" THEN {MakeAPayload(i, j - 1) : j \in 1 .. k.n} ELSE {})

\* The requests that carry them: with the index of the kind, or an extra one.
WrittenRequests(k, i) ==
    {q \in Message : /\ q.payload \in Written(k, i)
                     /\ q.sequence \in {-1, i}
                     /\ q.sequence = i /\ k.kind # "Corrupt" => q.payload = MakePayload(i)}

LEMMA WrittenDiffer ==
    ASSUME NEW i \in Nat, NEW j \in Nat, i # j, NEW k, NEW l,
           k.kind = "Corrupt" \/ l.kind = "Corrupt" => i < Half /\ j < Half
    PROVE  Written(k, i) \cap Written(l, j) = {}
<1> SUFFICES ASSUME NEW x \in Written(k, i), x \in Written(l, j) PROVE FALSE
  OBVIOUS
<1>1. x[1] = IF k.kind = "Corrupt" THEN LittleEndian(i) ELSE BigEndian(i)
  BY DEF Written, MakeCPayload, MakePayload, MakeAPayload
<1>2. x[1] = IF l.kind = "Corrupt" THEN LittleEndian(j) ELSE BigEndian(j)
  BY DEF Written, MakeCPayload, MakePayload, MakeAPayload
<1>3. CASE k.kind = "Corrupt" \/ l.kind = "Corrupt"
  BY <1>1, <1>2, <1>3, WordsDiffer
<1>4. CASE k.kind # "Corrupt" /\ l.kind # "Corrupt"
  BY <1>1, <1>2, <1>4, WordsDiffer
<1> QED
  BY <1>3, <1>4

LEMMA GeneratedDef ==
    ASSUME NEW k \in Kinds, NEW i \in Nat, NEW r \in Replica
    PROVE  /\ Generated(k, i, r) \in Seq(WrittenRequests(k, i))
           /\ (k.kind = "Additional" => k.n <= i) =>
                 \A a, b \in 1 .. Len(Generated(k, i, r)) :
                    a # b => Generated(k, i, r)[a].payload # Generated(k, i, r)[b].payload
<1> DEFINE payload == Request(i, MakePayload(i))
<1> DEFINE value == Request(i, MakeCPayload(i))
<1> DEFINE extra(j) == Request(-1, MakeAPayload(i, j - 1))
<1> DEFINE extras == [j \in 1 .. k.n |-> extra(j)]
<1> DEFINE S == WrittenRequests(k, i)
<1>1. ASSUME k.kind # "Corrupt" PROVE payload \in S
  BY <1>1, EndianType DEF Message, Request, WrittenRequests, Written
<1>2. CASE k.kind = "Additional" /\ r = k.to
  <2>1. k.n \in Nat
    BY <1>2 DEF Kinds
  <2>2. ASSUME NEW j \in 1 .. k.n PROVE extra(j) \in S /\ extra(j).payload = <<BigEndian(i), BigEndian(j - 1)>>
    <3>1. j - 1 \in Nat /\ -1 # i
      BY <2>1
    <3>2. MakeAPayload(i, j - 1) \in Payload
      BY <3>1, EndianType
    <3>3. MakeAPayload(i, j - 1) \in Written(k, i)
      BY <1>2 DEF Written
    <3> QED
      BY <3>1, <3>2, <3>3 DEF Message, Request, WrittenRequests, MakeAPayload
  <2>3. payload.payload = <<BigEndian(i), BigEndian(i)>> /\ payload \in S
    BY <1>1, <1>2 DEF Request, MakePayload
  <2>4. Generated(k, i, r) = extras \o <<payload>>
    BY <1>2 DEF Generated
  <2>5. extras \in Seq(S) /\ Len(extras) = k.n /\ \A j \in 1 .. k.n : extras[j] = extra(j)
    <3>1. \A j \in 1 .. k.n : extra(j) \in S
      BY <2>2
    <3> HIDE DEF S, extra
    <3> QED
      BY <2>1, <3>1
  <2> DEFINE s == extras \o <<payload>>
  <2>6. /\ s \in Seq(S) /\ Len(s) = k.n + 1 /\ s[k.n + 1] = payload
        /\ \A j \in 1 .. k.n : s[j] = extra(j)
    <3> HIDE DEF S, extras, extra, payload
    <3> QED
      BY <2>1, <2>3, <2>5
  <2> DEFINE number(a) == IF a = k.n + 1 THEN i ELSE a - 1
  <2>7. ASSUME NEW a \in 1 .. Len(s) PROVE s[a].payload = <<BigEndian(i), BigEndian(number(a))>> /\ number(a) \in Nat
    <3>1. a = k.n + 1 \/ (a \in 1 .. k.n /\ a # k.n + 1)
      BY <2>1, <2>6
    <3> HIDE DEF s, extra, payload
    <3> QED
      BY <2>1, <2>2, <2>3, <2>6, <3>1
  <2>8. ASSUME k.n <= i, NEW a \in 1 .. Len(s), NEW b \in 1 .. Len(s), a # b PROVE s[a].payload # s[b].payload
    <3>1. number(a) # number(b)
      <4> HIDE DEF s
      <4> QED
        BY <2>1, <2>6, <2>8
    <3>2. number(a) \in Nat /\ number(b) \in Nat
      BY <2>7
    <3> HIDE DEF s, number
    <3>3. BigEndian(number(a)) # BigEndian(number(b))
      BY <3>1, <3>2, WordsDiffer
    <3> QED
      BY <2>7, <3>3
  <2> HIDE DEF S, extra, extras, payload
  <2> QED
    BY <1>2, <2>4, <2>6, <2>8 DEF S
<1>3. CASE k.kind = "Corrupt"
  <2> DEFINE g == Generated(k, i, r)
  <2>1. value \in S
    BY <1>3, EndianType DEF Message, Request, WrittenRequests, Written
  <2>2. g = <<>> \/ g = <<value>>
    BY <1>3 DEF Generated
  <2> HIDE DEF value, extra, extras, payload, S, g
  <2>3. g \in Seq(S) /\ Len(g) <= 1
    <3>1. <<value>> \in Seq(S) /\ <<>> \in Seq(S) /\ Len(<<value>>) = 1 /\ Len(<<>>) = 0
      BY <2>1
    <3>2. CASE g = <<>>
      BY <3>1, <3>2
    <3>3. CASE g = <<value>>
      BY <3>1, <3>3
    <3> QED
      BY <2>2, <3>2, <3>3
  <2>4. \A a, b \in 1 .. Len(g) : a = b
    BY <2>3
  <2> QED
    BY <2>3, <2>4 DEF g, S
<1>4. CASE k.kind # "Corrupt" /\ ~ (k.kind = "Additional" /\ r = k.to)
  <2> DEFINE g == Generated(k, i, r)
  <2>1. payload \in S
    BY <1>1, <1>4
  <2>2. g = <<>> \/ g = <<payload>>
    BY <1>4 DEF Generated, Kinds
  <2> HIDE DEF value, extra, extras, payload, S, g
  <2>3. g \in Seq(S) /\ Len(g) <= 1
    <3>1. <<payload>> \in Seq(S) /\ <<>> \in Seq(S) /\ Len(<<payload>>) = 1 /\ Len(<<>>) = 0
      BY <2>1
    <3>2. CASE g = <<>>
      BY <3>1, <3>2
    <3>3. CASE g = <<payload>>
      BY <3>1, <3>3
    <3> QED
      BY <2>2, <3>2, <3>3
  <2>4. \A a, b \in 1 .. Len(g) : a = b
    BY <2>3
  <2> QED
    BY <2>3, <2>4 DEF g, S
<1> QED
  BY <1>2, <1>3, <1>4

\* The kind at index i, in any round.
At(i) == program[(i % Len(program)) + 1]

LEMMA AtDef ==
    ASSUME program \in Program, NEW i \in Nat
    PROVE  /\ At(i) \in Kinds
           /\ Numbered(program) => /\ At(i).kind = "Additional" => At(i).n <= i
                                   /\ At(i).kind = "Corrupt" => Limit <= Half
<1>1. /\ Len(program) \in Nat \ {0} /\ DOMAIN program = 1 .. Len(program)
      /\ \A j \in 1 .. Len(program) : program[j] \in Kinds
  BY ProgramDef
<1> DEFINE j == (i % Len(program)) + 1
<1>2. i % Len(program) \in 0 .. Len(program) - 1 /\ i % Len(program) <= i
  BY <1>1, ModDef
<1>3. j \in 1 .. Len(program) /\ j <= i + 1
  BY <1>1, <1>2
<1>4. At(i) = program[j]
  BY DEF At
<1> HIDE DEF j
<1>5. At(i) \in Kinds
  BY <1>1, <1>3, <1>4
<1>6. ASSUME Numbered(program), At(i).kind = "Additional" PROVE At(i).n <= i
  <2>1. At(i).n < j /\ At(i).n \in Nat
    BY <1>1, <1>3, <1>4, <1>5, <1>6 DEF Numbered, Kinds
  <2> QED
    BY <1>3, <2>1
<1>7. ASSUME Numbered(program), At(i).kind = "Corrupt" PROVE Limit <= Half
  BY <1>1, <1>3, <1>4, <1>7 DEF Numbered
<1> QED
  BY <1>5, <1>6, <1>7

\* What a generator has sent is of the kinds it has dealt with, each payload
\* once.
Generating ==
    mode = "program" => \A r \in Replica :
        /\ \A m \in 1 .. Len(heard[r]) : \E i \in 0 .. next[r] - 1 : heard[r][m] \in WrittenRequests(At(i), i)
        /\ Numbered(program) => \A m, n \in 1 .. Len(heard[r]) : m # n => heard[r][m].payload # heard[r][n].payload

LEMMA GenerateGenerating ==
    ASSUME Typed, Generating, NEW r \in Replica, Generate(r)
    PROVE  Generating'
<1> DEFINE k == At(next[r])
<1> DEFINE set == Generated(k, next[r], r)
<1> DEFINE old == heard[r]
<1>1. /\ next[r] \in Nat /\ next[r] < Limit
      /\ heard' = [heard EXCEPT ![r] = @ \o set] /\ next' = [next EXCEPT ![r] = @ + 1]
      /\ UNCHANGED <<mode, program>>
  BY DEF Generate, At, Typed, Sending
<1>2. program \in Program /\ k \in Kinds
  BY <1>1, AtDef DEF Typed, Counting
<1>3. mode = "program"
  BY DEF Generate, Typed, Sending
<1>4. set \in Seq(WrittenRequests(k, next[r])) /\ old \in Seq(Message)
  BY <1>1, <1>2, GeneratedDef DEF Typed, Sending
<1>5. /\ heard'[r] = old \o set /\ next'[r] = next[r] + 1
      /\ \A q \in Replica \ {r} : heard'[q] = heard[q] /\ next'[q] = next[q]
  <2>1. heard \in [Replica -> Seq(Message)] /\ next \in [Replica -> 0 .. Limit]
    BY DEF Typed, Sending
  <2> HIDE DEF set
  <2> QED
    BY <1>1, <2>1
<1>6. /\ Len(old) \in Nat /\ Len(set) \in Nat /\ Len(old \o set) = Len(old) + Len(set)
      /\ \A m \in 1 .. Len(old) : (old \o set)[m] = old[m]
      /\ \A m \in 1 .. Len(set) : (old \o set)[Len(old) + m] = set[m] /\ set[m] \in WrittenRequests(k, next[r])
  <2> HIDE DEF k, set, old
  <2>1. WrittenRequests(k, next[r]) \subseteq Message
    BY DEF WrittenRequests
  <2>2. set \in Seq(Message)
    BY <1>4, <2>1
  <2> QED
    BY <1>4, <2>2
<1>7. \A i : At(i)' = At(i)
  BY <1>1 DEF At
<1>8. ASSUME NEW m \in 1 .. Len(old \o set)
      PROVE  \/ /\ m \in 1 .. Len(old) /\ (old \o set)[m] = old[m]
                /\ \E i \in 0 .. next[r] - 1 : old[m] \in WrittenRequests(At(i), i)
             \/ \E n \in 1 .. Len(set) : /\ m = Len(old) + n /\ (old \o set)[m] = set[n]
                                         /\ set[n] \in WrittenRequests(k, next[r])
  <2>1. CASE m \in 1 .. Len(old)
    <3>1. \E i \in 0 .. next[r] - 1 : old[m] \in WrittenRequests(At(i), i)
      BY <1>3, <2>1 DEF Generating
    <3> HIDE DEF old, set, k
    <3> QED
      BY <1>6, <2>1, <3>1
  <2>2. CASE m \notin 1 .. Len(old)
    <3> HIDE DEF old, set, k
    <3>1. m - Len(old) \in 1 .. Len(set) /\ m = Len(old) + (m - Len(old))
      BY <1>6, <2>2
    <3> QED
      BY <1>6, <3>1
  <2> QED
    BY <2>1, <2>2
<1>9. ASSUME NEW m \in 1 .. Len(heard'[r])
      PROVE  \E i \in 0 .. next'[r] - 1 : heard'[r][m] \in WrittenRequests(At(i)', i)
  <2>1. \A i \in 0 .. next[r] - 1 : i \in 0 .. next'[r] - 1
    BY <1>1, <1>5
  <2>2. next[r] \in 0 .. next'[r] - 1
    BY <1>1, <1>5
  <2>3. k = At(next[r])
    OBVIOUS
  <2>4. \E i \in 0 .. next'[r] - 1 : heard'[r][m] \in WrittenRequests(At(i), i)
    <3> HIDE DEF old, set, k
    <3> QED
      BY <1>5, <1>8, <2>1, <2>2, <2>3
  <2> QED
    BY <1>7, <2>4
<1>10. ASSUME Numbered(program) PROVE \A m, n \in 1 .. Len(old \o set) : m # n => (old \o set)[m].payload # (old \o set)[n].payload
  <2>1. \A m, n \in 1 .. Len(old) : m # n => old[m].payload # old[n].payload
    BY <1>3, <1>10 DEF Generating
  <2>2. \A m, n \in 1 .. Len(set) : m # n => set[m].payload # set[n].payload
    BY <1>1, <1>2, <1>10, AtDef, GeneratedDef
  <2>3. ASSUME NEW m \in 1 .. Len(old), NEW n \in 1 .. Len(set) PROVE old[m].payload # set[n].payload
    <3>1. PICK i \in 0 .. next[r] - 1 : old[m] \in WrittenRequests(At(i), i)
      BY <1>3 DEF Generating
    <3>2. i \in Nat /\ i < next[r] /\ i # next[r] /\ i < Limit
      BY <1>1, <3>1, WorkloadAssumption
    <3>3. At(i).kind = "Corrupt" \/ k.kind = "Corrupt" => i < Half /\ next[r] < Half
      <4>1. At(i).kind = "Corrupt" \/ k.kind = "Corrupt" => Limit <= Half
        BY <1>1, <1>2, <1>10, <3>2, AtDef
      <4> QED
        BY <1>1, <3>2, <4>1, WorkloadAssumption
    <3>4. Written(At(i), i) \cap Written(k, next[r]) = {}
      <4> HIDE DEF k
      <4> QED
        BY <1>1, <3>2, <3>3, WrittenDiffer
    <3>5. old[m].payload \in Written(At(i), i) /\ set[n].payload \in Written(k, next[r])
      <4> HIDE DEF old, set, k
      <4> QED
        BY <1>6, <3>1 DEF WrittenRequests
    <3> HIDE DEF old, set, k
    <3> QED
      BY <3>4, <3>5
  <2>4. ASSUME NEW m \in 1 .. Len(old \o set), NEW n \in 1 .. Len(old \o set), m # n
        PROVE  (old \o set)[m].payload # (old \o set)[n].payload
    <3>1. \/ m \in 1 .. Len(old) /\ (old \o set)[m] = old[m]
          \/ \E a \in 1 .. Len(set) : m = Len(old) + a /\ (old \o set)[m] = set[a]
      BY <1>8
    <3>2. \/ n \in 1 .. Len(old) /\ (old \o set)[n] = old[n]
          \/ \E a \in 1 .. Len(set) : n = Len(old) + a /\ (old \o set)[n] = set[a]
      BY <1>8
    <3> HIDE DEF old, set, k
    <3> QED
      BY <2>1, <2>2, <2>3, <2>4, <3>1, <3>2
  <2> QED
    BY <2>4
<1>11. Numbered(program)' <=> Numbered(program)
  BY <1>1 DEF Numbered
<1>12. ASSUME NEW q \in Replica \ {r}, NEW m \in 1 .. Len(heard'[q])
       PROVE  \E i \in 0 .. next'[q] - 1 : heard'[q][m] \in WrittenRequests(At(i)', i)
  BY <1>3, <1>5, <1>7 DEF Generating
<1>13. ASSUME Numbered(program), NEW q \in Replica \ {r}
       PROVE  \A m, n \in 1 .. Len(heard'[q]) : m # n => heard'[q][m].payload # heard'[q][n].payload
  BY <1>3, <1>5, <1>13 DEF Generating
<1>14. ASSUME Numbered(program) PROVE \A m, n \in 1 .. Len(heard'[r]) : m # n => heard'[r][m].payload # heard'[r][n].payload
  <2> HIDE DEF old, set
  <2> QED
    BY <1>5, <1>10, <1>14
<1> HIDE DEF old, set, k
<1> QED
  BY <1>9, <1>11, <1>12, <1>13, <1>14 DEF Generating

LEMMA NextGenerating == Typed /\ Generating /\ [Next]_vars => Generating'
<1> SUFFICES ASSUME Typed, Generating, [Next]_vars PROVE Generating'
  OBVIOUS
<1>1. CASE UNCHANGED <<mode, program, next, heard>>
  <2>1. \A i : At(i)' = At(i)
    BY <1>1 DEF At
  <2> QED
    BY <1>1, <2>1 DEF Generating, Numbered
<1>2. CASE SendSet
  BY <1>2 DEF SendSet, Generating
<1>3. CASE Order \/ Timeout
  BY <1>1, <1>3 DEF Order, Timeout
<1>4. ASSUME NEW r \in Replica, ControlPort(r) \/ Control(r) \/ ProcessReply(r) PROVE Generating'
  BY <1>1, <1>4 DEF ControlPort, Control, ProcessReply
<1>5. ASSUME NEW r \in Replica, Generate(r) PROVE Generating'
  BY <1>5, GenerateGenerating
<1>6. CASE UNCHANGED vars
  BY <1>1, <1>6 DEF vars
<1> QED
  BY <1>2, <1>3, <1>4, <1>5, <1>6 DEF Next

THEOREM SpecGenerating == Spec => []Generating
<1>1. Init => Generating
  BY DEF Init, Generating
<1> QED
  BY <1>1, InitTyped, NextTyped, NextGenerating, PTL DEF Spec

\* GeneratedDistinct: a generator produces no payload twice, in however many
\* rounds through a program whose extra requests are numbered below their index
\* and, if it has corrupt ones, with indices that fit into half the bytes; and
\* generators agree on what has one sequence number.
THEOREM GeneratesDistinct == Spec => [](Numbered(program) => GeneratedDistinct)
<1>1. ASSUME Typed, Generating, Numbered(program) PROVE GeneratedDistinct
  <2> SUFFICES ASSUME mode = "program" PROVE GeneratedDistinct
    BY DEF GeneratedDistinct
  <2>1. ASSUME NEW r \in Replica PROVE heard[r] \in Seq(Message) /\ DOMAIN heard[r] = 1 .. Len(heard[r])
    BY <1>1 DEF Typed, Sending
  <2>2. ASSUME NEW r \in Replica, NEW i \in DOMAIN heard[r], NEW j \in DOMAIN heard[r], i # j
        PROVE  heard[r][i].payload # heard[r][j].payload
    BY <1>1, <2>1, <2>2 DEF Generating
  <2>3. ASSUME NEW r \in Replica, NEW a \in ToSet(heard[r]), a.sequence >= 0,
               program[(a.sequence % Len(program)) + 1].kind # "Corrupt"
        PROVE  a.payload = MakePayload(a.sequence)
    <3>1. PICK m \in 1 .. Len(heard[r]) : a = heard[r][m]
      BY <2>1 DEF ToSet
    <3>2. PICK i \in 0 .. next[r] - 1 : a \in WrittenRequests(At(i), i)
      BY <1>1, <3>1 DEF Generating
    <3>3. a.sequence = i
      BY <2>3, <3>2 DEF WrittenRequests
    <3>4. At(i).kind # "Corrupt"
      BY <2>3, <3>3 DEF At
    <3> QED
      BY <3>2, <3>3, <3>4 DEF WrittenRequests
  <2> QED
    BY <2>2, <2>3 DEF GeneratedDistinct
<1> QED
  BY <1>1, SpecTyped, SpecGenerating, PTL
=============================================================================

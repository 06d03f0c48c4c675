--------------------------- MODULE Railchain_proofs ---------------------------
(***************************************************************************)
(* Proofs about the replicated application, for any number of replicas,    *)
(* any log, block size and checkpoint interval, and any number of Deletes  *)
(* and restarts: its state follows the log, nothing above the pruned base  *)
(* is lost, transfers verify, and it implements Ledger.                    *)
(***************************************************************************)
EXTENDS Railchain, ChainStore_proofs, FiniteSetTheorems

\* The facts about the constants that the proofs use.
LEMMA Constants ==
    /\ MaxBlockMessages \in Nat \ {0}
    /\ \A l \in Logs : l \in Seq(Tx \cup {Other}) /\ Len(l) \in Nat
    /\ MaxDeletes \in Nat /\ MaxRestarts \in Nat
BY RailchainAssumption

-----------------------------------------------------------------------------
(* The inductive invariant                                                  *)

\* ChainAt and BufferAt for a log l, and the handle of a checkpoint.
Chain(l, k) == ChainOf(TransactionsIn(l, Tx)[k], MaxBlockMessages)

Buffer(l, k) == RestOf(TransactionsIn(l, Tx)[k], MaxBlockMessages)

Handle(l, k) == [buffer |-> Buffer(l, k), head |-> Chain(l, k)]

\* The chain of the whole log, and the headers of its blocks.
Full(l) == Chain(l, Len(l))

InLedger(l, h) == h \in HeadersOf(Tx) /\ Number(h) <= Number(Full(l)) /\ h = Upto(Full(l), Number(h))

\* prune_base is empty or a header of the chain.
BaseOK(l, b) == b = {} \/ \E h : InLedger(l, h) /\ b = {h}

\* What is on disk: blocks of the chain, up to the head; everything above low.
StoreOK(l, s, low) ==
    /\ s \in Stores(HeadersOf(Tx))
    /\ InLedger(l, s.base) /\ Number(s.base) <= low
    /\ \A i \in DOMAIN s.blocks : i <= Number(s.head) /\ s.blocks[i] = Upto(Full(l), i)
    /\ \A i \in low + 1 .. Number(s.head) : i \in DOMAIN s.blocks

\* A checkpoint under way: its blocks are those from its base to its head.
TransferOK(l, t) ==
    /\ t.to \in Replica /\ t.sequence \in 0 .. Len(l) /\ t.handle = Handle(l, t.sequence)
    /\ BaseOK(l, t.base)
    /\ t.blocks \in Seq(HeadersOf(Tx))
    /\ Len(t.blocks) = IF Number(t.handle.head) > Number(Base(t))
                       THEN Number(t.handle.head) - Number(Base(t)) ELSE 0
    /\ \A j \in 1 .. Len(t.blocks) : t.blocks[j] = Upto(Full(l), Number(Base(t)) + j)

GlobalInv ==
    /\ log \in Logs /\ up \subseteq Replica /\ restarts \in 0 .. MaxRestarts
    /\ executed \in [Replica -> Nat] /\ stable \in [Replica -> Nat]
    /\ handled \in [Replica -> Nat] /\ pruned \in [Replica -> Nat]
    /\ DOMAIN cutter = Replica /\ cutter = [n \in Replica |-> cutter[n]]
    /\ store = [n \in Replica |-> store[n]]
    /\ pruneBase = [n \in Replica |-> pruneBase[n]]
    /\ taken = [n \in Replica |-> taken[n]]
    /\ InLedger(log, newest)
    /\ deletes \in Seq(HeadersOf(Tx)) /\ Len(deletes) <= MaxDeletes
    /\ \A i \in 1 .. Len(deletes) : InLedger(log, deletes[i]) /\ Number(deletes[i]) <= Number(newest)

\* The state of a replica, whether it is up or not.
ReplicaInv(n) ==
    /\ executed[n] <= Len(log) /\ handled[n] <= Len(deletes) /\ pruned[n] <= Number(newest)
    /\ store[n].head = Chain(log, executed[n]) /\ Number(store[n].head) <= Number(newest)
    /\ cutter[n] = Buffer(log, executed[n])
    /\ StoreOK(log, store[n], pruned[n])
    /\ BaseOK(log, pruneBase[n])
    /\ DOMAIN taken[n] \subseteq 0 .. executed[n]
    /\ taken[n] = [c \in DOMAIN taken[n] |-> Handle(log, c)]

TransferInv(t) == TransferOK(log, t) /\ Number(t.handle.head) <= Number(newest)

Inv ==
    /\ GlobalInv
    /\ \A n \in Replica : ReplicaInv(n)
    /\ \A t \in transfers : TransferInv(t)

-----------------------------------------------------------------------------
(* The chain of a log                                                       *)

LEMMA ChainDef ==
    ASSUME NEW l, NEW k \in Nat
    PROVE  /\ Chain(l, k) \in HeadersOf(Tx) /\ Number(Chain(l, k)) \in Nat
           /\ Buffer(l, k) \in Seq(Tx) /\ Len(Buffer(l, k)) < MaxBlockMessages
<1>1. TransactionsIn(l, Tx)[k] \in Seq(Tx)
  BY TransactionsInUnfold
<1> QED
  BY <1>1, Constants, CutType DEF Chain, Buffer, HeadersOf, Number

\* Nothing is executed yet.
LEMMA ChainAtZero ==
    ASSUME NEW l
    PROVE  Chain(l, 0) = Genesis /\ Buffer(l, 0) = <<>>
<1> DEFINE s == TransactionsIn(l, Tx)[0]
<1>1. s = <<>>
  BY TransactionsInUnfold
<1>2. 0 \div MaxBlockMessages = 0 /\ MaxBlockMessages \in Nat \ {0}
  <2>1. 0 * MaxBlockMessages = 0 /\ MaxBlockMessages \in Nat \ {0}
    BY Constants
  <2> QED
    BY <2>1, DivUnique
<1>3. s \in Seq(Tx) /\ Len(s) = 0
  BY <1>1
<1> HIDE DEF s
<1>4. /\ ChainOf(s, MaxBlockMessages) \in Seq(Seq(Tx)) /\ Len(ChainOf(s, MaxBlockMessages)) = 0
      /\ RestOf(s, MaxBlockMessages) \in Seq(Tx)
      /\ Len(RestOf(s, MaxBlockMessages)) = 0
  <2>1. /\ ChainOf(s, MaxBlockMessages) \in Seq(Seq(Tx))
        /\ Len(ChainOf(s, MaxBlockMessages)) = Len(s) \div MaxBlockMessages
        /\ RestOf(s, MaxBlockMessages) \in Seq(Tx)
        /\ Len(RestOf(s, MaxBlockMessages)) = Len(s) - (Len(s) \div MaxBlockMessages) * MaxBlockMessages
    BY <1>2, <1>3, CutType
  <2> QED
    BY <2>1, <1>2, <1>3
<1> QED
  BY <1>4 DEF Chain, Buffer, Genesis, s

\* What one more request does, as append_transaction has it.
LEMMA ChainStep ==
    ASSUME NEW l, NEW k \in Nat
    PROVE  /\ l[k + 1] \notin Tx => Chain(l, k + 1) = Chain(l, k) /\ Buffer(l, k + 1) = Buffer(l, k)
           /\ l[k + 1] \in Tx =>
                 LET buffer == Append(Buffer(l, k), l[k + 1])
                 IN  IF Len(buffer) >= MaxBlockMessages
                     THEN /\ Chain(l, k + 1) = NextHeader(Chain(l, k), buffer)
                          /\ Buffer(l, k + 1) = <<>>
                     ELSE Chain(l, k + 1) = Chain(l, k) /\ Buffer(l, k + 1) = buffer
<1> DEFINE s == TransactionsIn(l, Tx)[k]
<1> DEFINE t == TransactionsIn(l, Tx)[k + 1]
<1> DEFINE e == l[k + 1]
<1>1. s \in Seq(Tx) /\ MaxBlockMessages \in Nat \ {0}
  BY TransactionsInUnfold, Constants
<1>2. e \in Tx => t = Append(s, e)
  BY TransactionsInTx
<1>3. e \notin Tx => t = s
  BY TransactionsInOther
<1> HIDE DEF s, t, e
<1>4. RestOf(s, MaxBlockMessages) \in Seq(Tx) /\ Len(RestOf(s, MaxBlockMessages)) < MaxBlockMessages
  BY <1>1, CutType
<1> DEFINE r == RestOf(s, MaxBlockMessages)
<1>5. e \in Tx => Len(Append(r, e)) = Len(r) + 1 /\ Len(r) \in Nat
  BY <1>4
<1>6. ASSUME e \in Tx, Len(r) + 1 = MaxBlockMessages
      PROVE  /\ ChainOf(t, MaxBlockMessages) = Append(ChainOf(s, MaxBlockMessages), Append(r, e))
             /\ RestOf(t, MaxBlockMessages) = <<>>
  <2>1. t = Append(s, e)
    BY <1>2, <1>6
  <2> QED
    BY <2>1, <1>1, <1>6, CutAppend
<1>7. ASSUME e \in Tx, Len(r) + 1 # MaxBlockMessages
      PROVE  /\ ChainOf(t, MaxBlockMessages) = ChainOf(s, MaxBlockMessages)
             /\ RestOf(t, MaxBlockMessages) = Append(r, e)
  <2>1. t = Append(s, e)
    BY <1>2, <1>7
  <2> QED
    BY <2>1, <1>1, <1>7, CutAppend
<1>8. e \in Tx => (Len(Append(r, e)) >= MaxBlockMessages <=> Len(r) + 1 = MaxBlockMessages)
  BY <1>1, <1>4, <1>5
<1> QED
  BY <1>3, <1>6, <1>7, <1>8 DEF Chain, Buffer, NextHeader, s, t, e

LEMMA ChainMonotone ==
    ASSUME NEW l, NEW j \in Nat, NEW k \in Nat, j <= k
    PROVE  /\ Number(Chain(l, j)) <= Number(Chain(l, k))
           /\ Chain(l, j) = Upto(Chain(l, k), Number(Chain(l, j)))
<1> DEFINE chain == [i \in Nat |-> ChainOf(TransactionsIn(l, Tx)[i], MaxBlockMessages)]
<1>1. Number(chain[j]) <= Number(chain[k]) /\ chain[j] = Upto(chain[k], Number(chain[j]))
  BY Constants, ChainGrows
<1>2. chain[j] = Chain(l, j) /\ chain[k] = Chain(l, k)
  BY DEF Chain
<1> QED
  BY <1>1, <1>2

\* The blocks of the chain, and the chain as far as it has got, are its headers.
LEMMA LedgerBlock ==
    ASSUME NEW l \in Logs, NEW i \in 0 .. Number(Full(l))
    PROVE  InLedger(l, Upto(Full(l), i)) /\ Number(Upto(Full(l), i)) = i
<1>1. Full(l) \in Seq(Seq(Tx)) /\ i \in 0 .. Len(Full(l))
  BY Constants, ChainDef DEF Full, HeadersOf, Number
<1> QED
  BY <1>1, UptoDef DEF InLedger, HeadersOf, Number

LEMMA LedgerChain ==
    ASSUME NEW l \in Logs, NEW k \in 0 .. Len(l)
    PROVE  InLedger(l, Chain(l, k))
<1>1. k \in Nat /\ Len(l) \in Nat /\ k <= Len(l)
  BY Constants
<1> QED
  BY <1>1, ChainDef, ChainMonotone DEF InLedger, Full

LEMMA LedgerGenesis ==
    ASSUME NEW l \in Logs
    PROVE  InLedger(l, Genesis) /\ Number(Genesis) = 0
<1>1. Len(l) \in Nat /\ 0 \in 0 .. Len(l)
  BY Constants
<1>2. InLedger(l, Genesis)
  BY <1>1, ChainAtZero, LedgerChain
<1> QED
  BY <1>2 DEF Genesis, Number

\* A header of the chain commits to the same blocks as the chain.
LEMMA LedgerUpto ==
    ASSUME NEW l \in Logs, NEW h, InLedger(l, h), NEW i \in 0 .. Number(h)
    PROVE  Upto(h, i) = Upto(Full(l), i)
<1>1. Full(l) \in Seq(Seq(Tx)) /\ Len(Full(l)) \in Nat
  BY Constants, ChainDef DEF Full, HeadersOf, Number
<1>2. Number(h) \in 0 .. Len(Full(l))
  BY <1>1 DEF InLedger, Number, HeadersOf
<1>3. Upto(Upto(Full(l), Number(h)), i) = Upto(Full(l), i)
  BY <1>1, <1>2, UptoUpto
<1> QED
  BY <1>3 DEF InLedger

\* The base of a transfer.
LEMMA BaseLedger ==
    ASSUME NEW l \in Logs, NEW t, BaseOK(l, t.base)
    PROVE  InLedger(l, Base(t)) /\ (t.base # {} => t.base = {Base(t)})
<1>1. CASE t.base = {}
  BY <1>1, LedgerGenesis DEF Base
<1>2. CASE t.base # {}
  <2>1. PICK h : InLedger(l, h) /\ t.base = {h}
    BY <1>2 DEF BaseOK
  <2>2. Base(t) = h
    BY <2>1 DEF Base
  <2> QED
    BY <2>1, <2>2
<1> QED
  BY <1>1, <1>2

-----------------------------------------------------------------------------
(* The invariant holds initially, and no step disturbs what it leaves alone  *)

LEMMA InitInv == Init => Inv
<1> SUFFICES ASSUME Init PROVE Inv
  OBVIOUS
<1> USE DEF Init
<1>1. log \in Logs /\ Len(log) \in Nat /\ InLedger(log, Genesis) /\ Number(Genesis) = 0
  BY Constants, LedgerGenesis
<1>2. GlobalInv
  BY <1>1, Constants DEF GlobalInv
<1>3. ASSUME NEW n \in Replica PROVE ReplicaInv(n)
  <2>1. Chain(log, 0) = Genesis /\ Buffer(log, 0) = <<>>
    BY ChainAtZero
  <2>2. /\ Bootstrapped \in Stores(HeadersOf(Tx))
        /\ DOMAIN Bootstrapped.blocks = {0} /\ Bootstrapped.blocks[0] = Genesis
        /\ Bootstrapped.base = Genesis /\ Bootstrapped.head = Genesis
    BY BootstrappedDef
  <2>3. Genesis = Upto(Full(log), 0)
    BY <1>1 DEF InLedger
  <2>4. StoreOK(log, Bootstrapped, 0)
    BY <1>1, <2>2, <2>3 DEF StoreOK
  <2>5. taken[n] = [c \in DOMAIN taken[n] |-> Handle(log, c)] /\ DOMAIN taken[n] = {}
    OBVIOUS
  <2> QED
    BY <1>1, <2>1, <2>2, <2>4, <2>5 DEF ReplicaInv, BaseOK
<1> QED
  BY <1>2, <1>3 DEF Inv

\* The chain never shrinks, and Deletes are never taken back.
Grows == log' = log /\ Number(newest) <= Number(newest') /\ Len(deletes) <= Len(deletes')

\* A replica that takes no part in a step.
LEMMA ReplicaUnchanged ==
    ASSUME Inv, Grows, InLedger(log', newest'), Len(deletes') \in Nat,
           NEW n \in Replica, executed'[n] = executed[n], cutter'[n] = cutter[n], store'[n] = store[n],
           pruneBase'[n] = pruneBase[n], taken'[n] = taken[n], handled'[n] = handled[n],
           pruned'[n] = pruned[n]
    PROVE  ReplicaInv(n)'
<1>1. Number(newest) \in Nat /\ Number(newest') \in Nat /\ Len(deletes) \in Nat /\ pruned[n] \in Nat
  BY DEF Inv, GlobalInv, InLedger, HeadersOf, Number
<1>2. ReplicaInv(n) /\ handled[n] \in Nat /\ Number(store[n].head) \in Nat
  BY DEF Inv, GlobalInv, ReplicaInv, StoreOK, Stores, HeadersOf, Number
<1> QED
  BY <1>1, <1>2 DEF Grows, ReplicaInv

\* A checkpoint under way.
LEMMA TransferUnchanged ==
    ASSUME Inv, Grows, InLedger(log', newest'), NEW t \in transfers
    PROVE  TransferInv(t)'
<1>1. Number(newest) \in Nat /\ Number(newest') \in Nat
  BY DEF Inv, GlobalInv, InLedger, HeadersOf, Number
<1>2. Number(t.handle.head) \in Nat
  <2>1. t.sequence \in Nat /\ t.handle = Handle(log, t.sequence)
    BY Constants DEF Inv, GlobalInv, TransferInv, TransferOK
  <2> QED
    BY <2>1, ChainDef DEF Handle
<1> QED
  BY <1>1, <1>2 DEF Inv, Grows, TransferInv

\* The Deletes signed so far.
LEMMA DeletesUnchanged ==
    ASSUME Inv, Grows, InLedger(log', newest'), deletes' = deletes
    PROVE  \A i \in 1 .. Len(deletes') :
              InLedger(log', deletes'[i]) /\ Number(deletes'[i]) <= Number(newest')
<1>1. Number(newest) \in Nat /\ Number(newest') \in Nat
  BY DEF Inv, GlobalInv, InLedger, HeadersOf, Number
<1>2. ASSUME NEW i \in 1 .. Len(deletes)
      PROVE  /\ InLedger(log, deletes[i]) /\ Number(deletes[i]) <= Number(newest)
             /\ Number(deletes[i]) \in Nat
  BY DEF Inv, GlobalInv, InLedger, HeadersOf, Number
<1> QED
  BY <1>1, <1>2 DEF Grows

-----------------------------------------------------------------------------
(* Every action preserves the invariant                                     *)

\* A step that changes one replica.
LEMMA ExceptOne ==
    ASSUME NEW f, f = [m \in Replica |-> f[m]], NEW n \in Replica, NEW v, NEW g, g = [f EXCEPT ![n] = v]
    PROVE  /\ g = [m \in Replica |-> g[m]] /\ g[n] = v
           /\ \A m \in Replica \ {n} : g[m] = f[m]
OBVIOUS

LEMMA ExceptHighest ==
    ASSUME NEW f \in [Replica -> Nat], NEW n \in Replica, NEW b \in Nat,
           NEW g \in [Replica -> Nat], g[n] = Highest(f[n], b), \A m \in Replica \ {n} : g[m] = f[m]
    PROVE  /\ b > f[n] => g = [f EXCEPT ![n] = b]
           /\ ~ (b > f[n]) => g = f
<1>1. f[n] \in Nat
  OBVIOUS
<1>2. g \in [Replica -> Nat] /\ g[n] = Highest(f[n], b) /\ \A m \in Replica \ {n} : g[m] = f[m]
  OBVIOUS
<1>3. CASE b > f[n]
  <2>1. Highest(f[n], b) = b
    BY <1>3 DEF Highest
  <2> QED
    BY <1>2, <1>3, <2>1
<1>4. CASE ~ (b > f[n])
  <2>1. Highest(f[n], b) = f[n]
    BY <1>4 DEF Highest
  <2>2. \A m \in Replica : g[m] = f[m]
    BY <1>2, <2>1
  <2> QED
    BY <1>2, <1>4, <2>2
<1> QED
  BY <1>2, <1>3, <1>4

\* What a step that only appends a block does to the disk.
LEMMA StoreBlockOK ==
    ASSUME NEW l \in Logs, NEW s, NEW low \in Nat, StoreOK(l, s, low),
           NEW h, InLedger(l, h), Number(h) = Number(s.head) + 1
    PROVE  StoreOK(l, StoreBlock(s, h), low) /\ StoreBlock(s, h).head = h
<1> DEFINE t == StoreBlock(s, h)
<1>1. /\ s \in Stores(HeadersOf(Tx)) /\ h \in HeadersOf(Tx) /\ Number(s.head) \in Nat
      /\ h = Upto(Full(l), Number(h))
  BY DEF StoreOK, InLedger, Stores, HeadersOf, Number
<1>2. /\ t \in Stores(HeadersOf(Tx)) /\ t.head = h /\ t.base = s.base
      /\ DOMAIN t.blocks = DOMAIN s.blocks \cup {Number(h)} /\ t.blocks[Number(h)] = h
      /\ \A i \in DOMAIN s.blocks : i # Number(h) => t.blocks[i] = s.blocks[i]
  BY <1>1, StoreBlockDef
<1>3. DOMAIN s.blocks \subseteq Nat
  BY <1>1, BlockMapsDef DEF Stores
<1> HIDE DEF t
<1>4. ASSUME NEW i \in DOMAIN t.blocks PROVE i <= Number(h) /\ t.blocks[i] = Upto(Full(l), i)
  BY <1>1, <1>2, <1>3 DEF StoreOK
<1>5. ASSUME NEW i \in low + 1 .. Number(h) PROVE i \in DOMAIN t.blocks
  BY <1>1, <1>2 DEF StoreOK
<1>6. InLedger(l, t.base) /\ Number(t.base) <= low
  BY <1>2 DEF StoreOK
<1>7. StoreOK(l, t, low)
  BY <1>2, <1>4, <1>5, <1>6 DEF StoreOK
<1> QED
  BY <1>2, <1>7 DEF t

LEMMA ExecuteInv ==
    ASSUME Inv, NEW n \in Replica, Execute(n)
    PROVE  Inv' /\ (newest' = newest \/ Number(newest') = Number(newest) + 1)
<1> DEFINE k == executed[n]
<1> DEFINE buffer == Append(cutter[n], log[k + 1])
<1>1. /\ log \in Logs /\ Len(log) \in Nat /\ k \in Nat /\ k < Len(log) /\ k + 1 \in 0 .. Len(log)
      /\ ReplicaInv(n) /\ InLedger(log, newest)
      /\ store = [m \in Replica |-> store[m]] /\ cutter = [m \in Replica |-> cutter[m]]
  BY Constants DEF Inv, GlobalInv, Execute
<1>2. /\ store[n].head = Chain(log, k) /\ cutter[n] = Buffer(log, k)
      /\ Number(newest) \in Nat /\ Number(store[n].head) \in Nat /\ Number(store[n].head) <= Number(newest)
      /\ StoreOK(log, store[n], pruned[n]) /\ pruned[n] \in Nat
  BY <1>1, ChainDef DEF ReplicaInv, InLedger, HeadersOf, Number, Inv, GlobalInv
<1>3. /\ executed' = [executed EXCEPT ![n] = k + 1]
      /\ UNCHANGED <<log, pruneBase, taken, stable, transfers, deletes, handled, up, pruned, restarts>>
      /\ newest' = IF Number(store'[n].head) > Number(newest) THEN store'[n].head ELSE newest
  BY DEF Execute
<1>4. executed'[n] = k + 1
  BY <1>1, <1>3 DEF Inv, GlobalInv
<1> HIDE DEF k
\* The cutter, the head and the disk.
<1>5. /\ store' = [m \in Replica |-> store'[m]] /\ cutter' = [m \in Replica |-> cutter'[m]]
      /\ \A m \in Replica \ {n} : store'[m] = store[m] /\ cutter'[m] = cutter[m]
      /\ store'[n].head = Chain(log, k + 1) /\ cutter'[n] = Buffer(log, k + 1)
      /\ StoreOK(log, store'[n], pruned[n])
      /\ \/ store'[n].head = store[n].head
         \/ Number(store'[n].head) = Number(store[n].head) + 1
  <2>1. CASE log[k + 1] \notin Tx
    <3>1. store' = store /\ cutter' = cutter
      BY <2>1 DEF Execute, k
    <3>2. Chain(log, k + 1) = Chain(log, k) /\ Buffer(log, k + 1) = Buffer(log, k)
      BY <1>1, <2>1, ChainStep
    <3> QED
      BY <1>1, <1>2, <3>1, <3>2
  <2>2. CASE log[k + 1] \in Tx /\ Len(buffer) >= MaxBlockMessages
    <3> DEFINE h == NextHeader(store[n].head, buffer)
    <3>1. /\ store' = [store EXCEPT ![n] = StoreBlock(store[n], h)]
          /\ cutter' = [cutter EXCEPT ![n] = <<>>]
      BY <2>2 DEF Execute, AppendTransaction, k
    <3>2. Chain(log, k + 1) = h /\ Buffer(log, k + 1) = <<>>
      BY <1>1, <1>2, <2>2, ChainStep
    <3>3. InLedger(log, h)
      BY <1>1, <3>2, LedgerChain
    <3>4. Number(h) = Number(store[n].head) + 1
      <4>1. store[n].head \in Seq(Seq(Tx)) /\ buffer \in Seq(Tx)
        BY <1>1, <1>2, <2>2, ChainDef DEF HeadersOf
      <4> HIDE DEF buffer
      <4> QED
        BY <4>1, NextHeaderDef
    <3> HIDE DEF h
    <3>5. StoreOK(log, StoreBlock(store[n], h), pruned[n]) /\ StoreBlock(store[n], h).head = h
      BY <1>1, <1>2, <3>3, <3>4, StoreBlockOK
    <3> QED
      BY <1>1, <3>1, <3>2, <3>4, <3>5
  <2>3. CASE log[k + 1] \in Tx /\ ~ (Len(buffer) >= MaxBlockMessages)
    <3>1. store' = store /\ cutter' = [cutter EXCEPT ![n] = buffer]
      BY <2>3 DEF Execute, AppendTransaction, k
    <3>2. Chain(log, k + 1) = Chain(log, k) /\ Buffer(log, k + 1) = buffer
      BY <1>1, <1>2, <2>3, ChainStep
    <3> QED
      BY <1>1, <1>2, <3>1, <3>2
  <2> QED
    BY <2>1, <2>2, <2>3
<1>6. InLedger(log, Chain(log, k + 1)) /\ Number(Chain(log, k + 1)) \in Nat
  BY <1>1, LedgerChain, ChainDef
<1>7. /\ InLedger(log, newest') /\ Number(newest) <= Number(newest')
      /\ Number(store'[n].head) <= Number(newest') /\ Number(newest') \in Nat
      /\ newest' = newest \/ Number(newest') = Number(newest) + 1
  BY <1>1, <1>2, <1>3, <1>5, <1>6
<1>8. Grows /\ InLedger(log', newest') /\ Len(deletes') \in Nat
  BY <1>3, <1>7 DEF Grows, Inv, GlobalInv
<1>9. GlobalInv'
  <2>1. executed' \in [Replica -> Nat]
    BY <1>1, <1>3 DEF Inv, GlobalInv
  <2>2. DOMAIN cutter' = Replica
    BY <1>5
  <2>3. \A i \in 1 .. Len(deletes') : InLedger(log', deletes'[i]) /\ Number(deletes'[i]) <= Number(newest')
    BY <1>3, <1>8, DeletesUnchanged
  <2> QED
    BY <1>3, <1>5, <1>8, <2>1, <2>2, <2>3 DEF Inv, GlobalInv
<1>10. ASSUME NEW m \in Replica PROVE ReplicaInv(m)'
  <2>1. CASE m = n
    <3>1. DOMAIN taken[n] \subseteq 0 .. k + 1
      BY <1>1 DEF ReplicaInv, k
    <3> QED
      BY <1>1, <1>2, <1>3, <1>4, <1>5, <1>7, <2>1, <3>1 DEF ReplicaInv
  <2>2. CASE m # n
    BY <1>3, <1>5, <1>8, <2>2, ReplicaUnchanged
  <2> QED
    BY <2>1, <2>2
<1>11. \A t \in transfers' : TransferInv(t)'
  BY <1>3, <1>8, TransferUnchanged
<1> QED
  BY <1>7, <1>9, <1>10, <1>11 DEF Inv

LEMMA TakeCheckpointInv ==
    ASSUME Inv, NEW n \in Replica, TakeCheckpoint(n)
    PROVE  Inv'
<1> DEFINE k == executed[n]
<1>1. /\ k \in Nat /\ ReplicaInv(n) /\ taken = [m \in Replica |-> taken[m]]
      /\ InLedger(log, newest) /\ Number(newest) \in Nat /\ Len(deletes) \in Nat
  BY DEF Inv, GlobalInv, InLedger, HeadersOf, Number
<1>2. /\ taken' = [taken EXCEPT ![n] = [c \in DOMAIN taken[n] \cup {k} |->
                        IF c = k THEN [buffer |-> cutter[n], head |-> store[n].head] ELSE taken[n][c]]]
      /\ UNCHANGED <<log, executed, cutter, store, pruneBase, stable, transfers, deletes,
                     handled, up, pruned, newest, restarts>>
  BY DEF TakeCheckpoint
<1> HIDE DEF k
<1>3. /\ taken' = [m \in Replica |-> taken'[m]]
      /\ \A m \in Replica \ {n} : taken'[m] = taken[m]
      /\ taken'[n] = [c \in DOMAIN taken[n] \cup {k} |->
                        IF c = k THEN [buffer |-> cutter[n], head |-> store[n].head] ELSE taken[n][c]]
  BY <1>1, <1>2
<1>4. Grows /\ InLedger(log', newest') /\ Len(deletes') \in Nat
  BY <1>1, <1>2 DEF Grows
<1>5. GlobalInv'
  BY <1>2, <1>3 DEF Inv, GlobalInv
<1>6. ASSUME NEW m \in Replica PROVE ReplicaInv(m)'
  <2>1. CASE m = n
    <3>1. [buffer |-> cutter[n], head |-> store[n].head] = Handle(log, k)
      BY <1>1 DEF ReplicaInv, Handle, k
    <3>2. taken[n] = [c \in DOMAIN taken[n] |-> Handle(log, c)] /\ DOMAIN taken[n] \subseteq 0 .. k
      BY <1>1 DEF ReplicaInv, k
    <3>3. taken'[n] = [c \in DOMAIN taken'[n] |-> Handle(log, c)] /\ DOMAIN taken'[n] \subseteq 0 .. k
      <4>1. \A c \in DOMAIN taken[n] : taken[n][c] = Handle(log, c)
        BY <3>2
      <4> QED
        BY <1>1, <1>3, <3>1, <3>2, <4>1
    <3> QED
      BY <1>1, <1>2, <2>1, <3>3 DEF ReplicaInv, k
  <2>2. CASE m # n
    BY <1>2, <1>3, <1>4, <2>2, ReplicaUnchanged
  <2> QED
    BY <2>1, <2>2
<1>7. \A t \in transfers' : TransferInv(t)'
  BY <1>2, <1>4, TransferUnchanged
<1> QED
  BY <1>5, <1>6, <1>7 DEF Inv

LEMMA CheckpointStableInv ==
    ASSUME Inv, NEW n \in Replica, NEW c \in DOMAIN taken[n], CheckpointStable(n, c)
    PROVE  Inv'
<1>1. /\ ReplicaInv(n) /\ taken = [m \in Replica |-> taken[m]] /\ store = [m \in Replica |-> store[m]]
      /\ InLedger(log, newest) /\ Number(newest) \in Nat /\ Len(deletes) \in Nat /\ c \in Nat
  BY DEF Inv, GlobalInv, InLedger, HeadersOf, Number, ReplicaInv
<1>2. /\ store' = [store EXCEPT ![n] = StoreProof(store[n], c)]
      /\ stable' = [stable EXCEPT ![n] = c]
      /\ taken' = [taken EXCEPT ![n] = Restrict(taken[n], {d \in DOMAIN taken[n] : d >= c})]
      /\ UNCHANGED <<log, executed, cutter, pruneBase, transfers, deletes, handled, up, pruned,
                     newest, restarts>>
  BY DEF CheckpointStable
<1>3. /\ taken' = [m \in Replica |-> taken'[m]] /\ store' = [m \in Replica |-> store'[m]]
      /\ \A m \in Replica \ {n} : taken'[m] = taken[m] /\ store'[m] = store[m]
      /\ taken'[n] = [d \in {e \in DOMAIN taken[n] : e >= c} |-> taken[n][d]]
      /\ store'[n] = StoreProof(store[n], c)
  BY <1>1, <1>2 DEF Restrict
<1>4. Grows /\ InLedger(log', newest') /\ Len(deletes') \in Nat
  BY <1>1, <1>2 DEF Grows
<1>5. GlobalInv'
  <2>1. stable' \in [Replica -> Nat]
    BY <1>1, <1>2 DEF Inv, GlobalInv
  <2> QED
    BY <1>2, <1>3, <2>1 DEF Inv, GlobalInv
<1>6. ASSUME NEW m \in Replica PROVE ReplicaInv(m)'
  <2>1. CASE m = n
    <3>1. taken[n] = [d \in DOMAIN taken[n] |-> Handle(log, d)]
      BY <1>1 DEF ReplicaInv
    <3>2. /\ taken'[n] = [d \in DOMAIN taken'[n] |-> Handle(log, d)]
          /\ DOMAIN taken'[n] \subseteq DOMAIN taken[n]
      BY <1>3, <3>1
    <3>3. /\ store'[n] \in Stores(HeadersOf(Tx)) /\ store'[n].head = store[n].head
          /\ store'[n].base = store[n].base /\ store'[n].blocks = store[n].blocks
      BY <1>1, <1>3, StoreProofDef DEF ReplicaInv, StoreOK
    <3>4. StoreOK(log, store'[n], pruned[n])
      BY <1>1, <3>3 DEF ReplicaInv, StoreOK
    <3> QED
      BY <1>1, <1>2, <2>1, <3>2, <3>3, <3>4 DEF ReplicaInv
  <2>2. CASE m # n
    BY <1>2, <1>3, <1>4, <2>2, ReplicaUnchanged
  <2> QED
    BY <2>1, <2>2
<1>7. \A t \in transfers' : TransferInv(t)'
  BY <1>2, <1>4, TransferUnchanged
<1> QED
  BY <1>5, <1>6, <1>7 DEF Inv

\* What resolve_checkpoint reads: the blocks from prune_base to the head of the
\* checkpoint, as many as there are.
LEMMA ResolvedTransfer ==
    ASSUME NEW l \in Logs, NEW t, t.to \in Replica, t.sequence \in 0 .. Len(l),
           t.handle = Handle(l, t.sequence), BaseOK(l, t.base),
           NEW files, \A i \in DOMAIN files : files[i] = Upto(Full(l), i),
           Number(Base(t)) + 1 .. Number(t.handle.head) \subseteq DOMAIN files,
           t.blocks = [j \in 1 .. Cardinality(Number(Base(t)) + 1 .. Number(t.handle.head)) |->
                          files[Number(Base(t)) + j]]
    PROVE  TransferOK(l, t)
<1> DEFINE first == Number(Base(t))
<1> DEFINE e == Number(t.handle.head)
<1> DEFINE numbers == first + 1 .. e
<1>1. InLedger(l, Base(t)) /\ first \in Nat /\ first <= Number(Full(l))
  BY BaseLedger DEF InLedger, HeadersOf, Number
<1>2. InLedger(l, t.handle.head) /\ e \in Nat /\ e <= Number(Full(l)) /\ Number(Full(l)) \in Nat
  <2>1. Len(l) \in Nat /\ t.sequence \in Nat
    BY Constants
  <2>2. t.handle.head = Chain(l, t.sequence)
    BY DEF Handle
  <2> QED
    BY <2>1, <2>2, LedgerChain, ChainDef DEF InLedger, Full
<1> DEFINE n == Cardinality(numbers)
<1>3. n = IF e > first THEN e - first ELSE 0
  <2>1. Cardinality(first + 1 .. e) = IF first + 1 > e THEN 0 ELSE e - (first + 1) + 1
    <3>1. first + 1 \in Int /\ e \in Int
      BY <1>1, <1>2
    <3> HIDE DEF e, first
    <3> QED
      BY <3>1, FS_Interval
  <2> QED
    BY <1>1, <1>2, <2>1
<1>a. t.blocks = [j \in 1 .. n |-> files[first + j]] /\ first + 1 .. e \subseteq DOMAIN files
  OBVIOUS
<1> HIDE DEF n, e, first
<1>4. n \in Nat
  BY <1>1, <1>2, <1>3
<1>5. ASSUME NEW j \in 1 .. n
      PROVE  files[first + j] = Upto(Full(l), first + j) /\ files[first + j] \in HeadersOf(Tx)
  <2>1. first + j \in first + 1 .. e /\ first + j \in 0 .. Number(Full(l))
    BY <1>1, <1>2, <1>3
  <2>2. first + j \in DOMAIN files
    BY <2>1, <1>a
  <2>3. files[first + j] = Upto(Full(l), first + j)
    BY <2>2
  <2> QED
    BY <2>1, <2>3, LedgerBlock DEF InLedger
<1>6. t.blocks \in [1 .. n -> HeadersOf(Tx)] /\ \A j \in 1 .. n : t.blocks[j] = Upto(Full(l), first + j)
  BY <1>5, <1>a
<1>7. t.blocks \in Seq(HeadersOf(Tx)) /\ Len(t.blocks) = n
  BY <1>4, <1>6, SeqFromFunction
<1> QED
  BY <1>3, <1>6, <1>7 DEF TransferOK, e, first

LEMMA ResolveCheckpointInv ==
    ASSUME Inv, NEW n \in Replica, NEW m \in Replica \ {n}, ResolveCheckpoint(n, m)
    PROVE  Inv'
<1> DEFINE c == stable[m]
<1> DEFINE first == BaseNumber(m)
<1> DEFINE t == [to |-> n, sequence |-> c, handle |-> taken[m][c], base |-> pruneBase[m],
                 blocks |-> [j \in 1 .. Cardinality(ResolvedNumbers(m, c)) |-> store[m].blocks[first + j]]]
<1>1. /\ ReplicaInv(m) /\ log \in Logs /\ InLedger(log, newest) /\ Number(newest) \in Nat
      /\ Len(deletes) \in Nat /\ c \in DOMAIN taken[m] /\ executed[m] \in Nat
  BY DEF Inv, GlobalInv, InLedger, HeadersOf, Number, ResolveCheckpoint
<1>2. /\ UNCHANGED <<log, executed, cutter, store, pruneBase, taken, stable, deletes, handled,
                     pruned, newest, restarts>>
      /\ \/ /\ \A i \in ResolvedNumbers(m, c) : Reads(store[m], i)
            /\ transfers' = transfers \cup {t} /\ up' = up
         \/ up' = up \ {m} /\ transfers' = transfers
  BY DEF ResolveCheckpoint
<1>3. Grows /\ InLedger(log', newest') /\ Len(deletes') \in Nat
  BY <1>1, <1>2 DEF Grows
<1>4. GlobalInv'
  BY <1>2 DEF Inv, GlobalInv
<1>5. \A r \in Replica : ReplicaInv(r)'
  BY <1>2, <1>3, ReplicaUnchanged
<1>6. ASSUME \A i \in ResolvedNumbers(m, c) : Reads(store[m], i)
      PROVE  TransferInv(t)
  <2>1. /\ c \in 0 .. executed[m] /\ taken[m][c] = Handle(log, c) /\ executed[m] <= Len(log)
        /\ BaseOK(log, pruneBase[m]) /\ StoreOK(log, store[m], pruned[m])
        /\ store[m].head = Chain(log, executed[m]) /\ Number(store[m].head) <= Number(newest)
    BY <1>1 DEF ReplicaInv
  <2>2. c \in 0 .. Len(log) /\ Len(log) \in Nat
    BY <1>1, <2>1, Constants
  <2>3. first = Number(Base(t))
    BY LedgerGenesis, <1>1 DEF BaseNumber, Base
  <2>4. ResolvedNumbers(m, c) = first + 1 .. Number(t.handle.head)
    BY DEF ResolvedNumbers
  <2>5. ResolvedNumbers(m, c) \subseteq DOMAIN store[m].blocks
    BY <1>6 DEF Reads
  <2>6. /\ t.to \in Replica /\ t.sequence = c /\ t.handle = Handle(log, c) /\ t.base = pruneBase[m]
        /\ t.blocks = [j \in 1 .. Cardinality(ResolvedNumbers(m, c)) |-> store[m].blocks[first + j]]
    BY <2>1
  <2> HIDE DEF t, first, c
  <2>7. TransferOK(log, t)
    <3> DEFINE files == store[m].blocks
    <3>1. /\ Number(Base(t)) + 1 .. Number(t.handle.head) \subseteq DOMAIN files
          /\ \A i \in DOMAIN files : files[i] = Upto(Full(log), i)
      BY <2>1, <2>3, <2>4, <2>5 DEF StoreOK
    <3>2. t.blocks = [j \in 1 .. Cardinality(Number(Base(t)) + 1 .. Number(t.handle.head)) |->
                         files[Number(Base(t)) + j]]
      BY <2>3, <2>4, <2>6
    <3>3. /\ log \in Logs /\ t.to \in Replica /\ t.sequence \in 0 .. Len(log)
          /\ t.handle = Handle(log, t.sequence) /\ BaseOK(log, t.base)
      BY <1>1, <2>1, <2>2, <2>6
    <3> HIDE DEF files
    <3> QED
      BY <3>1, <3>2, <3>3, ResolvedTransfer
  <2>8. Number(t.handle.head) <= Number(newest)
    <3>1. t.handle.head = Chain(log, c) /\ c \in Nat /\ c <= executed[m]
      BY <1>1, <2>1, <2>6 DEF Handle
    <3>2. /\ Number(Chain(log, c)) <= Number(Chain(log, executed[m]))
          /\ Number(Chain(log, c)) \in Nat /\ Number(Chain(log, executed[m])) \in Nat
      BY <1>1, <3>1, ChainMonotone, ChainDef
    <3> QED
      BY <1>1, <2>1, <3>1, <3>2
  <2> QED
    BY <2>7, <2>8 DEF TransferInv
<1> HIDE DEF t
<1>7. ASSUME NEW u \in transfers' PROVE TransferInv(u)'
  <2>1. CASE u \in transfers
    BY <1>3, <2>1, TransferUnchanged
  <2>2. CASE u \notin transfers
    <3>1. u = t /\ TransferInv(t)
      BY <1>2, <1>6, <2>2
    <3> QED
      BY <1>2, <3>1 DEF TransferInv
  <2> QED
    BY <2>1, <2>2
<1> QED
  BY <1>4, <1>5, <1>7 DEF Inv

\* rebase onto a transfer that reaches at least as far as the replica.
LEMMA RebaseOK ==
    ASSUME NEW l \in Logs, NEW s, NEW low \in Nat, StoreOK(l, s, low), s.head \in HeadersOf(Tx),
           NEW t, TransferOK(l, t), t.blocks # <<>>, Number(s.head) <= Number(t.handle.head)
    PROVE  /\ StoreOK(l, Rebase(s, Base(t), t.blocks), Highest(low, Number(Base(t))))
           /\ Rebase(s, Base(t), t.blocks).head = t.handle.head
           /\ Number(Base(t)) < Number(t.handle.head) /\ Highest(low, Number(Base(t))) \in Nat
<1> DEFINE b == Number(Base(t))
<1> DEFINE e == Number(t.handle.head)
<1> DEFINE u == Rebase(s, Base(t), t.blocks)
<1> DEFINE high == Highest(low, b)
<1>1. InLedger(l, Base(t)) /\ Base(t) \in HeadersOf(Tx) /\ b \in Nat
  BY BaseLedger DEF TransferOK, InLedger, HeadersOf, Number
<1>2. InLedger(l, t.handle.head) /\ e \in Nat /\ e <= Number(Full(l)) /\ Number(Full(l)) \in Nat
  <2>1. Len(l) \in Nat /\ t.sequence \in Nat /\ t.handle.head = Chain(l, t.sequence)
    BY Constants DEF TransferOK, Handle
  <2> QED
    BY <2>1, LedgerChain, ChainDef DEF InLedger, Full, TransferOK
<1>3. t.blocks \in Seq(HeadersOf(Tx)) /\ Len(t.blocks) \in Nat \ {0} /\ e > b /\ Len(t.blocks) = e - b
  BY <1>1, <1>2 DEF TransferOK
<1>4. ASSUME NEW j \in 1 .. Len(t.blocks)
      PROVE  t.blocks[j] = Upto(Full(l), b + j) /\ Number(t.blocks[j]) = b + j
  <2>1. b + j \in 0 .. Number(Full(l))
    BY <1>1, <1>2, <1>3
  <2> QED
    BY <2>1, LedgerBlock DEF TransferOK
<1>5. t.blocks[Len(t.blocks)] = t.handle.head
  <2>1. b + Len(t.blocks) = e /\ Len(t.blocks) \in 1 .. Len(t.blocks)
    BY <1>1, <1>2, <1>3
  <2> QED
    BY <2>1, <1>2, <1>4 DEF InLedger
<1>6. s \in Stores(HeadersOf(Tx)) /\ DOMAIN s.blocks \subseteq Nat /\ Number(s.head) \in Nat
  BY BlockMapsDef DEF StoreOK, Stores, HeadersOf, Number
<1>7. /\ u \in Stores(HeadersOf(Tx)) /\ u.head = t.blocks[Len(t.blocks)] /\ u.base = Base(t)
      /\ DOMAIN u.blocks = (DOMAIN s.blocks \ (Number(s.base) .. b)) \cup (b + 1 .. b + Len(t.blocks))
      /\ \A j \in 1 .. Len(t.blocks) : u.blocks[b + j] = t.blocks[j]
      /\ \A i \in DOMAIN u.blocks : i \notin b + 1 .. b + Len(t.blocks) => u.blocks[i] = s.blocks[i]
  <2>1. Follows(Base(t), t.blocks)
    BY <1>4 DEF Follows
  <2>2. RebasedTo(HeadersOf(Tx), s, Base(t), t.blocks, u)
    BY <1>1, <1>3, <1>6, <2>1, RebaseDef, Zenon
  <2> QED
    BY <2>2, Zenon DEF RebasedTo
<1> HIDE DEF b, e, u
<1>8. b + Len(t.blocks) = e
  BY <1>1, <1>2, <1>3
<1>9. ASSUME NEW i \in DOMAIN u.blocks PROVE i <= e /\ u.blocks[i] = Upto(Full(l), i)
  <2>1. CASE i \in b + 1 .. e
    <3>1. i - b \in 1 .. Len(t.blocks) /\ b + (i - b) = i
      BY <1>1, <1>2, <1>3, <2>1
    <3>2. u.blocks[i] = t.blocks[i - b] /\ t.blocks[i - b] = Upto(Full(l), i)
      BY <3>1, <1>4, <1>7
    <3> QED
      BY <3>2, <2>1, <1>1, <1>2
  <2>2. CASE i \notin b + 1 .. e
    <3>1. i \in DOMAIN s.blocks /\ u.blocks[i] = s.blocks[i]
      BY <2>2, <1>7, <1>8
    <3>2. i <= Number(s.head) /\ s.blocks[i] = Upto(Full(l), i) /\ i \in Nat
      BY <3>1, <1>6 DEF StoreOK
    <3> QED
      BY <3>1, <3>2, <1>2, <1>6 DEF e
  <2> QED
    BY <2>1, <2>2
<1>10. high \in Nat /\ high >= b /\ high >= low
  BY <1>1 DEF Highest
<1>11. ASSUME NEW i \in high + 1 .. e PROVE i \in DOMAIN u.blocks
  BY <1>1, <1>2, <1>7, <1>8, <1>10
<1>12. u.head = t.handle.head /\ Number(u.head) = e /\ InLedger(l, u.base) /\ Number(u.base) <= high
  BY <1>1, <1>5, <1>7, <1>10 DEF b, e
<1>13. StoreOK(l, u, high)
  BY <1>7, <1>9, <1>11, <1>12 DEF StoreOK
<1> QED
  BY <1>3, <1>10, <1>12, <1>13 DEF b, e, u

LEMMA ApplyCheckpointInv ==
    ASSUME Inv, NEW n \in Replica, NEW t \in transfers, ApplyCheckpoint(n, t)
    PROVE  /\ Inv'
           /\ \/ UNCHANGED <<store, pruned>>
              \/ /\ store' = [store EXCEPT ![n] = store'[n]]
                 /\ Number(store[n].head) <= Number(store'[n].head)
                 /\ \E b \in Nat : /\ b < Number(store'[n].head)
                                   /\ pruned' = [pruned EXCEPT ![n] = Highest(pruned[n], b)]
<1>1. /\ ReplicaInv(n) /\ log \in Logs /\ InLedger(log, newest) /\ Number(newest) \in Nat
      /\ Len(deletes) \in Nat /\ executed[n] \in Nat /\ pruned[n] \in Nat /\ Len(log) \in Nat
      /\ TransferInv(t)
  BY Constants DEF Inv, GlobalInv, InLedger, HeadersOf, Number
<1>2. /\ transfers' = transfers \ {t}
      /\ UNCHANGED <<log, stable, deletes, handled, newest, restarts>>
  BY DEF ApplyCheckpoint
<1>3. Grows /\ InLedger(log', newest') /\ Len(deletes') \in Nat
  BY <1>1, <1>2 DEF Grows
<1>4. \A u \in transfers' : TransferInv(u)'
  BY <1>2, <1>3, TransferUnchanged
<1>5. CASE executed[n] < t.sequence /\ t.blocks # <<>> /\ Verified(t)
  <2> DEFINE s == Rebase(store[n], Base(t), t.blocks)
  <2> DEFINE low == Highest(pruned[n], Number(Base(t)))
  <2>0. t.sequence \in Nat /\ ~ (executed[n] >= t.sequence)
    BY <1>1, <1>5 DEF TransferInv, TransferOK
  <2>1. /\ pruneBase' = IF t.base = {} THEN pruneBase ELSE [pruneBase EXCEPT ![n] = t.base]
        /\ store' = [store EXCEPT ![n] = s]
        /\ pruned' = [pruned EXCEPT ![n] = low]
        /\ cutter' = [cutter EXCEPT ![n] = t.handle.buffer]
        /\ executed' = [executed EXCEPT ![n] = t.sequence]
        /\ taken' = [taken EXCEPT ![n] = [c \in {t.sequence} |-> t.handle]]
        /\ up' = up
    BY <1>5, <2>0, Zenon DEF ApplyCheckpoint, ApplyBuffer
  <2>2. /\ t.sequence \in Nat /\ t.sequence <= Len(log) /\ t.handle = Handle(log, t.sequence)
        /\ t.handle.head = Chain(log, t.sequence) /\ t.handle.buffer = Buffer(log, t.sequence)
        /\ BaseOK(log, t.base) /\ TransferOK(log, t) /\ Number(t.handle.head) <= Number(newest)
    BY <1>1 DEF TransferInv, TransferOK, Handle
  <2>3. /\ StoreOK(log, store[n], pruned[n]) /\ store[n].head = Chain(log, executed[n])
        /\ store[n].head \in HeadersOf(Tx)
    BY <1>1 DEF ReplicaInv, StoreOK, Stores
  <2>4. Number(store[n].head) <= Number(t.handle.head) /\ Number(t.handle.head) \in Nat
    BY <1>1, <1>5, <2>2, <2>3, ChainMonotone, ChainDef
  <2>5. /\ StoreOK(log, s, low) /\ s.head = t.handle.head
        /\ Number(Base(t)) < Number(t.handle.head) /\ low \in Nat
    BY <1>1, <1>5, <2>2, <2>3, <2>4, RebaseOK
  <2>6. low <= Number(newest)
    <3>1. Number(Base(t)) \in Nat /\ pruned[n] <= Number(newest)
      BY <1>1, <2>2, BaseLedger DEF InLedger, HeadersOf, Number, ReplicaInv
    <3> QED
      BY <3>1, <1>1, <2>2, <2>4, <2>5 DEF Highest
  <2> HIDE DEF s, low
  <2>7. GlobalInv'
    BY <1>2, <2>1, <2>2, <2>5 DEF Inv, GlobalInv
  <2>8. ASSUME NEW m \in Replica PROVE ReplicaInv(m)'
    <3>1. CASE m = n
      <4>1. /\ store'[n] = s /\ pruned'[n] = low /\ executed'[n] = t.sequence
            /\ cutter'[n] = t.handle.buffer /\ taken'[n] = [c \in {t.sequence} |-> t.handle]
            /\ BaseOK(log, pruneBase'[n])
        BY <1>1, <2>1, <2>2 DEF Inv, GlobalInv, ReplicaInv
      <4>2. /\ DOMAIN taken'[n] \subseteq 0 .. t.sequence
            /\ taken'[n] = [c \in DOMAIN taken'[n] |-> Handle(log, c)]
        BY <4>1, <2>2
      <4> QED
        BY <1>1, <1>2, <2>2, <2>5, <2>6, <3>1, <4>1, <4>2 DEF ReplicaInv
    <3>2. CASE m # n
      <4>1. /\ executed'[m] = executed[m] /\ cutter'[m] = cutter[m] /\ store'[m] = store[m]
            /\ pruneBase'[m] = pruneBase[m] /\ taken'[m] = taken[m] /\ pruned'[m] = pruned[m]
        BY <2>1, <3>2 DEF Inv, GlobalInv
      <4> QED
        BY <1>2, <1>3, <4>1, ReplicaUnchanged
    <3> QED
      BY <3>1, <3>2
  <2>9. /\ store'[n] = s /\ store' = [store EXCEPT ![n] = store'[n]]
        /\ Number(store[n].head) <= Number(store'[n].head)
    BY <2>1, <2>4, <2>5 DEF Inv, GlobalInv
  <2>10. /\ Number(Base(t)) \in Nat /\ Number(Base(t)) < Number(store'[n].head)
         /\ pruned' = [pruned EXCEPT ![n] = Highest(pruned[n], Number(Base(t)))]
    BY <1>1, <2>1, <2>2, <2>5, <2>9, BaseLedger DEF InLedger, HeadersOf, Number, low
  <2> QED
    BY <1>4, <2>7, <2>8, <2>9, <2>10 DEF Inv
<1>6. CASE ~ (executed[n] < t.sequence /\ t.blocks # <<>> /\ Verified(t))
  <2>1. UNCHANGED <<pruneBase, store, pruned, cutter, executed, taken>> /\ up' \subseteq up
    BY <1>6 DEF ApplyCheckpoint
  <2>2. GlobalInv'
    BY <1>2, <2>1 DEF Inv, GlobalInv
  <2>3. \A m \in Replica : ReplicaInv(m)'
    BY <1>2, <1>3, <2>1, ReplicaUnchanged
  <2> QED
    BY <1>4, <2>1, <2>2, <2>3 DEF Inv
<1> QED
  BY <1>5, <1>6

\* The exporter signs the header of a block that a replica has.
LEMMA SignDeleteInv ==
    ASSUME Inv, NEW n \in Replica, SignDelete(n)
    PROVE  Inv'
<1> DEFINE i == store[n].proof \div Interval
<1> DEFINE h == store[n].blocks[i]
<1>1. /\ ReplicaInv(n) /\ log \in Logs /\ InLedger(log, newest) /\ Number(newest) \in Nat
      /\ Len(deletes) \in Nat /\ deletes \in Seq(HeadersOf(Tx))
      /\ \A j \in 1 .. Len(deletes) : InLedger(log, deletes[j]) /\ Number(deletes[j]) <= Number(newest)
  BY DEF Inv, GlobalInv, InLedger, HeadersOf, Number
<1>2. /\ Len(deletes) < MaxDeletes /\ i \in DOMAIN store[n].blocks /\ deletes' = Append(deletes, h)
      /\ UNCHANGED <<log, executed, cutter, store, pruneBase, taken, stable, transfers, handled, up,
                     newest, pruned, restarts>>
  BY DEF SignDelete, Reads
<1> HIDE DEF i
<1>3. /\ i <= Number(store[n].head) /\ h = Upto(Full(log), i) /\ i \in Nat
      /\ InLedger(log, store[n].head) /\ Number(store[n].head) <= Number(newest)
  <2>1. executed[n] \in 0 .. Len(log)
    BY <1>1, Constants DEF Inv, GlobalInv, ReplicaInv
  <2>2. InLedger(log, store[n].head)
    BY <1>1, <2>1, LedgerChain DEF ReplicaInv
  <2> QED
    BY <1>1, <1>2, <2>2, BlockMapsDef DEF ReplicaInv, StoreOK, Stores
<1>4. InLedger(log, h) /\ Number(h) <= Number(newest) /\ h \in HeadersOf(Tx)
  <2>1. /\ Number(store[n].head) \in Nat /\ Number(store[n].head) <= Number(Full(log))
        /\ Number(Full(log)) \in Nat
    <3>1. Full(log) \in HeadersOf(Tx)
      BY <1>1, Constants, ChainDef DEF Full
    <3> QED
      BY <3>1, <1>3 DEF InLedger, HeadersOf, Number
  <2>2. i \in 0 .. Number(Full(log))
    BY <1>3, <2>1
  <2>3. InLedger(log, h) /\ Number(h) = i
    BY <1>1, <1>3, <2>2, LedgerBlock
  <2> QED
    BY <1>1, <1>3, <2>1, <2>3 DEF InLedger
<1> HIDE DEF h
<1>5. /\ deletes' \in Seq(HeadersOf(Tx)) /\ Len(deletes') = Len(deletes) + 1
      /\ \A j \in 1 .. Len(deletes') : deletes'[j] = h \/ (j \in 1 .. Len(deletes) /\ deletes'[j] = deletes[j])
  BY <1>1, <1>2, <1>4
<1>6. Grows /\ InLedger(log', newest') /\ Len(deletes') \in Nat
  BY <1>1, <1>2, <1>5 DEF Grows
<1>7. GlobalInv'
  <2>1. \A j \in 1 .. Len(deletes') : InLedger(log, deletes'[j]) /\ Number(deletes'[j]) <= Number(newest)
    BY <1>1, <1>4, <1>5
  <2>2. Len(deletes') <= MaxDeletes
    BY <1>1, <1>2, <1>5, Constants
  <2> QED
    BY <1>2, <1>5, <2>1, <2>2 DEF Inv, GlobalInv
<1>8. \A m \in Replica : ReplicaInv(m)'
  BY <1>2, <1>6, ReplicaUnchanged
<1>9. \A t \in transfers' : TransferInv(t)'
  BY <1>2, <1>6, TransferUnchanged
<1> QED
  BY <1>7, <1>8, <1>9 DEF Inv

LEMMA DeleteBlocksInv ==
    ASSUME Inv, NEW n \in Replica, DeleteBlocks(n)
    PROVE  Inv'
<1> DEFINE h == deletes[handled[n] + 1]
<1> DEFINE s == PruneChain(store[n], h)
<1> DEFINE low == Highest(pruned[n], Number(h))
<1>1. /\ ReplicaInv(n) /\ log \in Logs /\ InLedger(log, newest) /\ Number(newest) \in Nat
      /\ Len(deletes) \in Nat /\ handled[n] \in Nat /\ pruned[n] \in Nat
  BY DEF Inv, GlobalInv, InLedger, HeadersOf, Number
<1>2. /\ handled[n] < Len(deletes)
      /\ store' = [store EXCEPT ![n] = s] /\ pruneBase' = [pruneBase EXCEPT ![n] = {h}]
      /\ pruned' = [pruned EXCEPT ![n] = low] /\ handled' = [handled EXCEPT ![n] = handled[n] + 1]
      /\ UNCHANGED <<log, executed, cutter, taken, stable, transfers, deletes, up, newest, restarts>>
  BY DEF DeleteBlocks
<1>3. InLedger(log, h) /\ h \in HeadersOf(Tx) /\ Number(h) \in Nat /\ Number(h) <= Number(newest)
  <2>1. handled[n] + 1 \in 1 .. Len(deletes)
    BY <1>1, <1>2
  <2> QED
    BY <2>1 DEF Inv, GlobalInv, InLedger, HeadersOf, Number
<1>4. /\ low \in Nat /\ low <= Number(newest) /\ low >= pruned[n] /\ low >= Number(h)
  BY <1>1, <1>3 DEF ReplicaInv, Highest
<1> HIDE DEF h
<1>5. /\ s \in Stores(HeadersOf(Tx)) /\ s.head = store[n].head /\ s.base = h
      /\ DOMAIN s.blocks = DOMAIN store[n].blocks \ (Number(store[n].base) .. Number(h))
      /\ \A i \in DOMAIN s.blocks : s.blocks[i] = store[n].blocks[i]
  <2>1. store[n] \in Stores(HeadersOf(Tx))
    BY <1>1 DEF ReplicaInv, StoreOK
  <2> QED
    BY <1>3, <2>1, PruneChainDef
<1> HIDE DEF s, low
<1>6. StoreOK(log, s, low)
  <2>1. /\ StoreOK(log, store[n], pruned[n]) /\ Number(store[n].head) \in Nat
    BY <1>1 DEF ReplicaInv, StoreOK, Stores, HeadersOf, Number
  <2>2. ASSUME NEW i \in DOMAIN s.blocks PROVE i <= Number(s.head) /\ s.blocks[i] = Upto(Full(log), i)
    BY <1>5, <2>1 DEF StoreOK
  <2>3. ASSUME NEW i \in low + 1 .. Number(s.head) PROVE i \in DOMAIN s.blocks
    <3>1. i \in pruned[n] + 1 .. Number(store[n].head)
      BY <1>1, <1>4, <1>5, <2>1
    <3>2. i \notin Number(store[n].base) .. Number(h)
      BY <1>3, <1>4, <1>5, <2>1
    <3> QED
      BY <1>5, <2>1, <3>1, <3>2 DEF StoreOK
  <2> QED
    BY <1>3, <1>4, <1>5, <2>2, <2>3 DEF StoreOK
<1>7. Grows /\ InLedger(log', newest') /\ Len(deletes') \in Nat
  BY <1>1, <1>2 DEF Grows
<1>8. GlobalInv'
  <2>1. /\ handled' \in [Replica -> Nat] /\ pruned' \in [Replica -> Nat]
        /\ store' = [m \in Replica |-> store'[m]] /\ pruneBase' = [m \in Replica |-> pruneBase'[m]]
    <3>1. /\ store = [m \in Replica |-> store[m]] /\ pruneBase = [m \in Replica |-> pruneBase[m]]
          /\ handled \in [Replica -> Nat] /\ pruned \in [Replica -> Nat]
      BY DEF Inv, GlobalInv
    <3>2. store' = [m \in Replica |-> store'[m]] /\ pruneBase' = [m \in Replica |-> pruneBase'[m]]
      BY <1>2, <3>1, ExceptOne
    <3> QED
      BY <1>1, <1>2, <1>4, <3>1, <3>2
  <2> QED
    BY <1>2, <2>1 DEF Inv, GlobalInv
<1>9. ASSUME NEW m \in Replica PROVE ReplicaInv(m)'
  <2>1. CASE m = n
    <3>1. /\ store'[n] = s /\ pruneBase'[n] = {h} /\ pruned'[n] = low /\ handled'[n] = handled[n] + 1
      BY <1>2 DEF Inv, GlobalInv
    <3>2. BaseOK(log, {h})
      BY <1>3 DEF BaseOK
    <3>3. handled'[n] <= Len(deletes)
      BY <1>1, <1>2, <3>1
    <3> QED
      BY <1>1, <1>2, <1>4, <1>5, <1>6, <2>1, <3>1, <3>2, <3>3 DEF ReplicaInv
  <2>2. CASE m # n
    <3>1. /\ store'[m] = store[m] /\ pruneBase'[m] = pruneBase[m] /\ pruned'[m] = pruned[m]
          /\ handled'[m] = handled[m]
      BY <1>2, <2>2 DEF Inv, GlobalInv
    <3> QED
      BY <1>2, <1>7, <3>1, ReplicaUnchanged
  <2> QED
    BY <2>1, <2>2
<1>10. \A t \in transfers' : TransferInv(t)'
  BY <1>2, <1>7, TransferUnchanged
<1> QED
  BY <1>8, <1>9, <1>10 DEF Inv

\* The state as a function of the log, as the model states it.
LEMMA AtIsOfLog == \A k : ChainAt(k) = Chain(log, k) /\ BufferAt(k) = Buffer(log, k)
BY DEF ChainAt, BufferAt, Transactions, Chain, Buffer

\* The head that a restart finds: the old one, or, if that was pruned away, the
\* one before it.
LEMMA FoundHeadOK ==
    ASSUME NEW l \in Logs, NEW s, NEW low \in Nat, StoreOK(l, s, low), InLedger(l, s.head),
           NEW h \in FoundHead(s)
    PROVE  /\ InLedger(l, h) /\ StoreOK(l, [s EXCEPT !.head = h], low) /\ Number(h) <= Number(s.head)
           /\ h = s.head \/ (Number(s.head) = Number(h) + 1 /\ Number(s.head) <= low)
<1> DEFINE k == Number(s.head)
<1> DEFINE i == Number(h)
<1>1. /\ s \in Stores(HeadersOf(Tx)) /\ DOMAIN s.blocks \subseteq Nat /\ k \in Nat
      /\ Number(Full(l)) \in Nat /\ k <= Number(Full(l)) /\ s.head = Upto(Full(l), k)
  <2>1. Full(l) \in HeadersOf(Tx)
    BY Constants, ChainDef DEF Full
  <2> QED
    BY <2>1, BlockMapsDef DEF StoreOK, Stores, InLedger, HeadersOf, Number
<1>2. \/ k \in DOMAIN s.blocks /\ h = s.blocks[k]
      \/ k > 0 /\ k \notin DOMAIN s.blocks /\ k - 1 \in DOMAIN s.blocks /\ h = s.blocks[k - 1]
  BY DEF FoundHead, Reads
<1> HIDE DEF k
<1>3. ASSUME NEW j \in DOMAIN s.blocks, h = s.blocks[j] PROVE InLedger(l, h) /\ i = j /\ h = Upto(Full(l), j)
  <2>1. j \in 0 .. Number(Full(l)) /\ h = Upto(Full(l), j)
    BY <1>1, <1>3 DEF StoreOK, k
  <2> QED
    BY <2>1, LedgerBlock
<1>4. /\ InLedger(l, h) /\ i \in Nat /\ i <= k
      /\ h = s.head \/ (k = i + 1 /\ k \notin DOMAIN s.blocks)
  BY <1>1, <1>2, <1>3
<1> HIDE DEF i
<1>5. h = s.head \/ (k = i + 1 /\ k <= low)
  BY <1>1, <1>4 DEF StoreOK, k
<1> DEFINE t == [s EXCEPT !.head = h]
<1>6. t \in Stores(HeadersOf(Tx)) /\ t.head = h /\ t.base = s.base /\ t.blocks = s.blocks
  BY <1>1, <1>4 DEF Stores, InLedger
<1> HIDE DEF t
<1>7. ASSUME NEW j \in DOMAIN t.blocks PROVE j <= Number(t.head) /\ t.blocks[j] = Upto(Full(l), j)
  BY <1>1, <1>4, <1>6 DEF StoreOK, k, i
<1>8. ASSUME NEW j \in low + 1 .. Number(t.head) PROVE j \in DOMAIN t.blocks
  <2>1. j \in low + 1 .. k
    BY <1>1, <1>4, <1>6 DEF i
  <2> QED
    BY <1>6, <2>1 DEF StoreOK, k
<1>9. StoreOK(l, t, low)
  BY <1>6, <1>7, <1>8 DEF StoreOK
<1> QED
  BY <1>4, <1>5, <1>9 DEF t, k, i

LEMMA RestartInv ==
    ASSUME Inv, NEW n \in Replica, Restart(n)
    PROVE  /\ Inv'
           /\ \/ UNCHANGED store
              \/ /\ store' = [store EXCEPT ![n] = store'[n]]
                 /\ \/ store'[n].head = store[n].head
                    \/ /\ Number(store[n].head) = Number(store'[n].head) + 1
                       /\ Number(store[n].head) <= pruned[n]
<1>1. /\ ReplicaInv(n) /\ log \in Logs /\ InLedger(log, newest) /\ Number(newest) \in Nat
      /\ Len(deletes) \in Nat /\ executed[n] \in Nat /\ pruned[n] \in Nat /\ Len(log) \in Nat
      /\ restarts \in 0 .. MaxRestarts /\ MaxRestarts \in Nat
  BY Constants DEF Inv, GlobalInv, InLedger, HeadersOf, Number
<1>2. /\ restarts < MaxRestarts /\ restarts' = restarts + 1
      /\ UNCHANGED <<log, transfers, deletes, handled, newest, pruned>>
  BY DEF Restart
<1>3. Grows /\ InLedger(log', newest') /\ Len(deletes') \in Nat /\ restarts' \in 0 .. MaxRestarts
  BY <1>1, <1>2 DEF Grows
<1>4. \A t \in transfers' : TransferInv(t)'
  BY <1>2, <1>3, TransferUnchanged
<1>5. CASE FoundHead(store[n]) = {}
  <2>1. UNCHANGED <<executed, store, cutter, pruneBase, taken, stable>> /\ up' = up \ {n}
    BY <1>5 DEF Restart
  <2>2. GlobalInv'
    BY <1>2, <1>3, <2>1 DEF Inv, GlobalInv
  <2>3. \A m \in Replica : ReplicaInv(m)'
    BY <1>2, <1>3, <2>1, ReplicaUnchanged
  <2> QED
    BY <1>4, <2>1, <2>2, <2>3 DEF Inv
<1>6. CASE FoundHead(store[n]) # {}
  <2>1. PICK h \in FoundHead(store[n]), k \in 0 .. executed[n] :
           /\ ChainAt(k) = h /\ BufferAt(k) = <<>>
           /\ executed' = [executed EXCEPT ![n] = k] /\ store' = [store EXCEPT ![n].head = h]
           /\ cutter' = [cutter EXCEPT ![n] = <<>>] /\ pruneBase' = [pruneBase EXCEPT ![n] = {}]
           /\ taken' = [taken EXCEPT ![n] = [c \in {} |-> 0]] /\ stable' = [stable EXCEPT ![n] = 0]
           /\ UNCHANGED up
    BY <1>6 DEF Restart
  <2> DEFINE s == [store[n] EXCEPT !.head = h]
  <2>2. store[n].head = Chain(log, executed[n]) /\ StoreOK(log, store[n], pruned[n])
    BY <1>1 DEF ReplicaInv
  <2>3. InLedger(log, store[n].head)
    BY <1>1, <2>2, LedgerChain DEF ReplicaInv
  <2>4. /\ InLedger(log, h) /\ StoreOK(log, s, pruned[n]) /\ Number(h) <= Number(store[n].head)
        /\ h = store[n].head \/ (Number(store[n].head) = Number(h) + 1 /\ Number(store[n].head) <= pruned[n])
    BY <1>1, <2>2, <2>3, FoundHeadOK
  <2>5. s.head = h /\ Number(h) \in Nat /\ Number(store[n].head) \in Nat
    BY <2>2, <2>3, <2>4 DEF StoreOK, Stores, InLedger, HeadersOf, Number
  <2>6. /\ executed'[n] = k /\ cutter'[n] = <<>> /\ store'[n] = s /\ pruneBase'[n] = {}
        /\ taken'[n] = [c \in {} |-> 0] /\ store' = [store EXCEPT ![n] = s]
    BY <2>1 DEF Inv, GlobalInv
  <2>7. k \in Nat /\ k <= executed[n] /\ k <= Len(log) /\ h = Chain(log, k) /\ <<>> = Buffer(log, k)
    BY <1>1, <2>1, AtIsOfLog DEF ReplicaInv
  <2> HIDE DEF s
  <2>8. GlobalInv'
    <3>1. /\ executed' \in [Replica -> Nat] /\ stable' \in [Replica -> Nat] /\ DOMAIN cutter' = Replica
          /\ cutter' = [m \in Replica |-> cutter'[m]]
      BY <2>1, <2>7 DEF Inv, GlobalInv
    <3>2. /\ store' = [m \in Replica |-> store'[m]] /\ pruneBase' = [m \in Replica |-> pruneBase'[m]]
          /\ taken' = [m \in Replica |-> taken'[m]]
      <4>1. /\ store = [m \in Replica |-> store[m]] /\ taken = [m \in Replica |-> taken[m]]
            /\ pruneBase = [m \in Replica |-> pruneBase[m]]
        BY DEF Inv, GlobalInv
      <4> QED
        BY <2>1, <2>6, <4>1, ExceptOne
    <3> QED
      BY <1>2, <1>3, <2>1, <3>1, <3>2 DEF Inv, GlobalInv
  <2>9. ASSUME NEW m \in Replica PROVE ReplicaInv(m)'
    <3>1. CASE m = n
      <4>1. /\ DOMAIN taken'[n] \subseteq 0 .. k
            /\ taken'[n] = [c \in DOMAIN taken'[n] |-> Handle(log, c)]
        BY <2>6
      <4>2. BaseOK(log, pruneBase'[n]) /\ Number(h) <= Number(newest)
        BY <1>1, <2>4, <2>5, <2>6 DEF BaseOK, ReplicaInv
      <4> QED
        BY <1>1, <1>2, <2>4, <2>5, <2>6, <2>7, <3>1, <4>1, <4>2 DEF ReplicaInv
    <3>2. CASE m # n
      <4>1. /\ executed'[m] = executed[m] /\ cutter'[m] = cutter[m] /\ store'[m] = store[m]
            /\ pruneBase'[m] = pruneBase[m] /\ taken'[m] = taken[m]
        BY <2>1, <3>2 DEF Inv, GlobalInv
      <4> QED
        BY <1>2, <1>3, <4>1, ReplicaUnchanged
    <3> QED
      BY <3>1, <3>2
  <2>10. store' = [store EXCEPT ![n] = store'[n]] /\ store'[n].head = h
    BY <2>5, <2>6
  <2> QED
    BY <1>4, <2>4, <2>8, <2>9, <2>10 DEF Inv
<1> QED
  BY <1>5, <1>6

\* Inv is inductive.
LEMMA NextInv == Inv /\ [Next]_vars => Inv'
<1> SUFFICES ASSUME Inv, [Next]_vars PROVE Inv'
  OBVIOUS
<1>1. ASSUME NEW n \in Replica, NEW c \in DOMAIN taken[n], CheckpointStable(n, c) PROVE Inv'
  BY <1>1, CheckpointStableInv
<1>2. ASSUME NEW n \in Replica, NEW m \in Replica \ {n}, ResolveCheckpoint(n, m) PROVE Inv'
  BY <1>2, ResolveCheckpointInv
<1>3. ASSUME NEW n \in Replica, NEW t \in transfers, ApplyCheckpoint(n, t) PROVE Inv'
  BY <1>3, ApplyCheckpointInv
<1>4. CASE UNCHANGED vars
  BY <1>4 DEF vars, Inv, GlobalInv, ReplicaInv, TransferInv
<1>5. CASE Next
  BY <1>1, <1>2, <1>3, <1>5, ExecuteInv, TakeCheckpointInv, SignDeleteInv, DeleteBlocksInv, RestartInv
     DEF Next
<1> QED
  BY <1>4, <1>5

\* Every reachable state satisfies the invariant, for every value of the constants.
THEOREM SpecInv == Spec => []Inv
<1>1. Init => Inv
  BY InitInv
<1>2. Inv /\ [Next]_vars => Inv'
  BY NextInv
<1> QED
  BY <1>1, <1>2, PTL DEF Spec

-----------------------------------------------------------------------------
(* What the invariant implies                                               *)

LEMMA InvTypeOK == Inv => TypeOK
<1> SUFFICES ASSUME Inv PROVE TypeOK
  OBVIOUS
<1>1. /\ log \in Logs /\ Len(log) \in Nat /\ MaxDeletes \in Nat /\ Len(deletes) \in Nat
      /\ Headers = HeadersOf(Tx)
  BY Constants DEF Inv, GlobalInv, Headers, HeadersOf
<1>2. handled \in [Replica -> 0 .. MaxDeletes]
  <2>1. ASSUME NEW n \in Replica PROVE handled[n] \in 0 .. MaxDeletes
    BY <1>1 DEF Inv, GlobalInv, ReplicaInv
  <2> QED
    BY <2>1 DEF Inv, GlobalInv
<1>3. ASSUME NEW n \in Replica
      PROVE  /\ executed[n] <= Len(log)
             /\ cutter[n] \in Seq(Tx) /\ Len(cutter[n]) < MaxBlockMessages
             /\ store[n].head \in Headers /\ store[n].base \in Headers /\ store[n].proof \in Nat
             /\ \A i \in DOMAIN store[n].blocks : Number(store[n].blocks[i]) = i
             /\ pruneBase[n] \subseteq Headers /\ Cardinality(pruneBase[n]) <= 1
             /\ \A c \in DOMAIN taken[n] : c <= executed[n]
  <2>1. ReplicaInv(n) /\ executed[n] \in Nat /\ StoreOK(log, store[n], pruned[n])
    BY DEF Inv, GlobalInv, ReplicaInv
  <2>2. cutter[n] \in Seq(Tx) /\ Len(cutter[n]) < MaxBlockMessages
    BY <2>1, ChainDef DEF ReplicaInv
  <2>3. /\ store[n].head \in Headers /\ store[n].base \in Headers /\ store[n].proof \in Nat
        /\ DOMAIN store[n].blocks \subseteq Nat
    BY <1>1, <2>1, BlockMapsDef DEF StoreOK, Stores
  <2>4. ASSUME NEW i \in DOMAIN store[n].blocks PROVE Number(store[n].blocks[i]) = i
    <3>1. InLedger(log, store[n].head)
      BY <1>1, <2>1, LedgerChain DEF ReplicaInv
    <3>2. Number(store[n].head) \in Nat /\ Number(Full(log)) \in Nat
      BY <1>1, <2>1, ChainDef DEF ReplicaInv, Full
    <3>3. i \in 0 .. Number(Full(log)) /\ store[n].blocks[i] = Upto(Full(log), i)
      BY <2>1, <2>3, <3>1, <3>2 DEF StoreOK, InLedger
    <3> QED
      BY <1>1, <3>3, LedgerBlock
  <2>5. pruneBase[n] \subseteq Headers /\ Cardinality(pruneBase[n]) <= 1
    <3>1. CASE pruneBase[n] = {}
      BY <3>1, FS_EmptySet
    <3>2. CASE pruneBase[n] # {}
      <4>1. PICK h : InLedger(log, h) /\ pruneBase[n] = {h}
        BY <2>1, <3>2 DEF ReplicaInv, BaseOK
      <4>2. Cardinality({h}) = 1
        BY FS_Singleton
      <4> QED
        BY <1>1, <4>1, <4>2 DEF InLedger
    <3> QED
      BY <3>1, <3>2
  <2>6. \A c \in DOMAIN taken[n] : c <= executed[n]
    BY <2>1 DEF ReplicaInv
  <2> QED
    BY <2>1, <2>2, <2>3, <2>4, <2>5, <2>6 DEF ReplicaInv
<1> QED
  BY <1>1, <1>2, <1>3 DEF TypeOK, Inv, GlobalInv

LEMMA InvStateFollowsLog == Inv => StateFollowsLog
BY AtIsOfLog DEF Inv, GlobalInv, ReplicaInv, StateFollowsLog

LEMMA InvStoredFromBase == Inv => StoredFromBase
<1> SUFFICES ASSUME Inv, NEW n \in up, NEW i \in pruned[n] + 1 .. Number(store[n].head)
             PROVE  Reads(store[n], i) /\ store[n].blocks[i] = Upto(store[n].head, i)
  BY DEF StoredFromBase
<1>1. /\ log \in Logs /\ n \in Replica /\ ReplicaInv(n) /\ executed[n] \in Nat /\ Len(log) \in Nat
      /\ pruned[n] \in Nat /\ StoreOK(log, store[n], pruned[n])
  BY Constants DEF Inv, GlobalInv, ReplicaInv
<1>2. i \in DOMAIN store[n].blocks /\ store[n].blocks[i] = Upto(Full(log), i)
  BY <1>1 DEF StoreOK
<1>3. InLedger(log, store[n].head) /\ Number(store[n].head) \in Nat
  BY <1>1, LedgerChain, ChainDef DEF ReplicaInv
<1>4. i \in 0 .. Number(store[n].head)
  BY <1>1, <1>3
<1> QED
  BY <1>1, <1>2, <1>3, <1>4, LedgerUpto DEF Reads

LEMMA InvTransfersVerify == Inv => TransfersVerify
<1> SUFFICES ASSUME Inv, NEW t \in transfers
             PROVE  IF t.blocks = <<>> THEN Number(t.handle.head) <= Number(Base(t)) ELSE Verified(t)
  BY DEF TransfersVerify
<1> DEFINE b == Number(Base(t))
<1> DEFINE e == Number(t.handle.head)
<1>1. log \in Logs /\ TransferOK(log, t) /\ t.blocks \in Seq(HeadersOf(Tx))
  BY DEF Inv, GlobalInv, TransferInv, TransferOK
<1>2. InLedger(log, Base(t)) /\ b \in Nat /\ Base(t) = Upto(Full(log), b)
  BY <1>1, BaseLedger DEF TransferOK, InLedger, HeadersOf, Number
<1>3. InLedger(log, t.handle.head) /\ e \in Nat /\ e <= Number(Full(log)) /\ Number(Full(log)) \in Nat
  <2>1. Len(log) \in Nat /\ t.sequence \in Nat /\ t.handle.head = Chain(log, t.sequence)
    BY <1>1, Constants DEF TransferOK, Handle
  <2> QED
    BY <1>1, <2>1, LedgerChain, ChainDef DEF InLedger, Full, TransferOK
<1>4. CASE t.blocks = <<>>
  <2>1. Len(t.blocks) = 0
    BY <1>4
  <2> QED
    BY <1>1, <1>2, <1>3, <1>4, <2>1 DEF TransferOK
<1>5. CASE t.blocks # <<>>
  <2>1. Len(t.blocks) \in Nat \ {0} /\ Len(t.blocks) = e - b
    BY <1>1, <1>2, <1>3, <1>5 DEF TransferOK
  <2>2. ASSUME NEW j \in 1 .. Len(t.blocks)
        PROVE  /\ t.blocks[j] = Upto(Full(log), b + j) /\ Number(t.blocks[j]) = b + j
               /\ InLedger(log, t.blocks[j])
    <3>1. b + j \in 0 .. Number(Full(log))
      BY <1>2, <1>3, <2>1
    <3> QED
      BY <1>1, <3>1, LedgerBlock DEF TransferOK
  <2>3. t.handle.head = t.blocks[Len(t.blocks)]
    <3>1. b + Len(t.blocks) = e /\ Len(t.blocks) \in 1 .. Len(t.blocks)
      BY <1>2, <1>3, <2>1
    <3> QED
      BY <1>3, <2>2, <3>1 DEF InLedger
  <2> HIDE DEF b, e
  <2>4. ASSUME NEW j \in 1 .. Len(t.blocks)
        PROVE  /\ t.blocks[j] # Genesis
               /\ Upto(t.blocks[j], Number(t.blocks[j]) - 1) = Upto(Full(log), b + j - 1)
    <3>1. b + j \in Nat /\ b + j > 0 /\ b + j - 1 \in 0 .. Number(t.blocks[j])
      BY <1>2, <2>1, <2>2
    <3>2. Number(t.blocks[j]) # Number(Genesis)
      BY <1>1, <2>2, <3>1, LedgerGenesis
    <3>3. Upto(t.blocks[j], b + j - 1) = Upto(Full(log), b + j - 1)
      BY <1>1, <2>2, <3>1, LedgerUpto
    <3>4. Number(t.blocks[j]) - 1 = b + j - 1
      BY <1>2, <2>2
    <3> QED
      BY <3>2, <3>3, <3>4
  <2>5. ASSUME NEW j \in DOMAIN t.blocks
        PROVE  VerifyBlock(IF j = 1 THEN Base(t) ELSE t.blocks[j - 1], t.blocks[j])
    <3>1. j \in 1 .. Len(t.blocks)
      BY <1>1
    <3>2. CASE j = 1
      <4>1. b + j - 1 = b
        BY <1>2, <3>2
      <4>2. Upto(t.blocks[j], Number(t.blocks[j]) - 1) = Base(t)
        BY <1>2, <2>4, <3>1, <4>1
      <4> QED
        BY <2>4, <3>1, <3>2, <4>2 DEF VerifyBlock
    <3>3. CASE j # 1
      <4>1. j - 1 \in 1 .. Len(t.blocks) /\ b + j - 1 = b + (j - 1)
        BY <1>2, <2>1, <3>1, <3>3
      <4>2. Upto(t.blocks[j], Number(t.blocks[j]) - 1) = t.blocks[j - 1]
        BY <2>2, <2>4, <3>1, <4>1
      <4> QED
        BY <2>4, <3>1, <3>3, <4>2 DEF VerifyBlock
    <3> QED
      BY <3>2, <3>3
  <2> QED
    BY <1>5, <2>3, <2>5 DEF Verified, VerifyChain
<1> QED
  BY <1>4, <1>5

\* The state keeps its type and the cutter never holds a full block
\* (rc-application/src/app.rs:313-348, app/chain.rs:47-55), for any log.
THEOREM TypeCorrect == Spec => []TypeOK
<1>1. Inv => TypeOK
  BY InvTypeOK
<1> QED
  BY <1>1, SpecInv, PTL

\* The head and the buffer of a replica that has not panicked are what the
\* requests it has executed amount to, whatever transfers, Deletes and
\* restarts came in between (app.rs:158-168, 313-348, 372-410).
THEOREM ReplicasFollowLog == Spec => []StateFollowsLog
<1>1. Inv => StateFollowsLog
  BY InvStateFollowsLog
<1> QED
  BY <1>1, SpecInv, PTL

\* Pruning, rebasing and restarting lose no block above the highest base a
\* replica pruned to (rc-blockchain/src/storage/files.rs, app.rs:158-168, chain.rs:201-206).
THEOREM NothingNewerLost == Spec => []StoredFromBase
<1>1. Inv => StoredFromBase
  BY InvStoredFromBase
<1> QED
  BY <1>1, SpecInv, PTL

\* A transfer is never refused: what resolve_checkpoint sends, apply_checkpoint
\* verifies (app.rs:372-436), unless it holds no block at all.
THEOREM TransfersAccepted == Spec => []TransfersVerify
<1>1. Inv => TransfersVerify
  BY InvTransfersVerify
<1> QED
  BY <1>1, SpecInv, PTL

-----------------------------------------------------------------------------
(* The refinement                                                           *)

\* What the refinement mapping makes of copy.
Copy == [n \in Replica |-> store[n].head]

\* A replica's head is what the newest chain begins with.
LEMMA HeadOfNewest ==
    ASSUME NEW l \in Logs, NEW x, InLedger(l, x), NEW k \in 0 .. Len(l), NEW h, h = Chain(l, k),
           Number(h) <= Number(x)
    PROVE  /\ Number(h) \in Nat /\ Number(x) \in Nat
           /\ h = SubSeq(x, 1, Number(h)) /\ (Number(h) = Number(x) => h = x)
<1>1. InLedger(l, h) /\ Number(h) \in Nat /\ Number(x) \in Nat
  BY LedgerChain DEF InLedger, HeadersOf, Number
<1>2. Upto(x, Number(h)) = Upto(Full(l), Number(h))
  BY <1>1, LedgerUpto
<1> QED
  BY <1>1, <1>2 DEF InLedger, Upto

LEMMA HeadsOfInv ==
    ASSUME Inv, NEW n \in Replica
    PROVE  /\ Number(store[n].head) \in Nat /\ Number(newest) \in Nat /\ pruned[n] \in Nat
           /\ Number(store[n].head) <= Number(newest) /\ pruned[n] <= Number(newest)
           /\ store[n].head = SubSeq(newest, 1, Number(store[n].head))
           /\ (Number(store[n].head) = Number(newest) => store[n].head = newest)
<1>1. /\ log \in Logs /\ InLedger(log, newest) /\ executed[n] \in 0 .. Len(log)
      /\ store[n].head = Chain(log, executed[n]) /\ Number(store[n].head) <= Number(newest)
      /\ pruned[n] \in Nat /\ pruned[n] <= Number(newest)
  BY Constants DEF Inv, GlobalInv, ReplicaInv
<1> QED
  BY <1>1, HeadOfNewest

LEMMA InitLedger == Init => L!Init
BY DEF Init, L!Init, Bootstrapped, Genesis

\* Execution makes the next block of the chain, or catches up with it.
LEMMA ExecuteLedger ==
    ASSUME Inv, NEW n \in Replica, Execute(n)
    PROVE  [L!Next]_<<newest, Copy, pruned>>
<1>1. Inv' /\ log' = log /\ pruned' = pruned
  BY ExecuteInv DEF Execute
<1> DEFINE h == store'[n].head
<1>2. /\ newest' = IF Number(h) > Number(newest) THEN h ELSE newest
      /\ \/ store' = store
         \/ \E b : store' = [store EXCEPT ![n] = StoreBlock(store[n], NextHeader(store[n].head, b))]
  BY DEF Execute, AppendTransaction
<1>3. /\ DOMAIN store = Replica /\ store = [m \in Replica |-> store[m]]
  BY DEF Inv, GlobalInv
<1>4. /\ Number(store[n].head) \in Nat /\ Number(newest) \in Nat
      /\ Number(store[n].head) <= Number(newest)
      /\ (Number(store[n].head) = Number(newest) => store[n].head = newest)
  BY HeadsOfInv
<1>5. CASE store' = store
  <2>1. newest' = newest
    BY <1>2, <1>4, <1>5
  <2> QED
    BY <1>1, <1>5, <2>1 DEF Copy
<1>6. CASE store' # store
  <2>1. PICK b : store' = [store EXCEPT ![n] = StoreBlock(store[n], NextHeader(store[n].head, b))]
    BY <1>2, <1>6
  <2>2. h = NextHeader(store[n].head, b)
    <3>1. store[n] \in Stores(HeadersOf(Tx))
      BY DEF Inv, ReplicaInv, StoreOK
    <3>2. store'[n] = StoreBlock(store[n], NextHeader(store[n].head, b))
      BY <1>3, <2>1
    <3> HIDE DEF h
    <3>3. StoreBlock(store[n], NextHeader(store[n].head, b)).head = NextHeader(store[n].head, b)
      BY <3>1 DEF StoreBlock, Stores
    <3> QED
      BY <3>2, <3>3 DEF h
  <2>3. Copy' = [Copy EXCEPT ![n] = h]
    BY <1>3, <2>1 DEF Copy
  <2>4. /\ h \in HeadersOf(Tx) /\ store[n].head \in HeadersOf(Tx) /\ Number(h) \in Nat
        /\ Number(h) = Number(store[n].head) + 1
    <3>1. h \in HeadersOf(Tx) /\ store[n].head \in HeadersOf(Tx)
      BY <1>1 DEF Inv, ReplicaInv, StoreOK, Stores
    <3>2. Len(NextHeader(store[n].head, b)) = Len(store[n].head) + 1
      BY <3>1 DEF NextHeader, HeadersOf
    <3> QED
      BY <2>2, <3>1, <3>2 DEF HeadersOf, Number
  <2>5. /\ log \in Logs /\ InLedger(log, newest) /\ InLedger(log, newest')
        /\ executed'[n] \in 0 .. Len(log) /\ h = Chain(log, executed'[n]) /\ Number(h) <= Number(newest')
    BY <1>1, Constants DEF Inv, GlobalInv, ReplicaInv
  <2>6. CASE Number(h) > Number(newest)
    <3>1. newest' = h /\ store[n].head = newest /\ Number(h) = Number(newest) + 1
      BY <1>2, <1>4, <2>4, <2>6
    <3>2. SubSeq(h, 1, Len(newest)) = newest
      <4>1. h \in Seq(Seq(Tx)) /\ Number(newest) \in 0 .. Number(h) /\ InLedger(log, h)
        BY <1>4, <2>4, <2>5, <3>1 DEF HeadersOf
      <4>2. Upto(h, Number(newest)) = Upto(Full(log), Number(newest))
        BY <2>5, <4>1, LedgerUpto
      <4> QED
        BY <2>5, <4>2 DEF InLedger, Upto, Number
    <3>3. L!Extend(n)
      BY <1>1, <2>3, <3>1, <3>2 DEF L!Extend, Copy, Number
    <3> QED
      BY <3>3 DEF L!Next
  <2>7. CASE ~ (Number(h) > Number(newest))
    <3>1. newest' = newest
      BY <1>2, <2>7
    <3>2. h = SubSeq(newest, 1, Number(h))
      BY <2>5, <3>1, HeadOfNewest
    <3>3. Number(h) \in Len(Copy[n]) + 1 .. Len(newest)
      BY <1>4, <2>4, <2>7 DEF Copy, Number
    <3> HIDE DEF h
    <3>4. L!CatchUp(n)
      BY <1>1, <2>3, <3>1, <3>2, <3>3 DEF L!CatchUp, Copy
    <3> QED
      BY <3>4 DEF L!Next
  <2> QED
    BY <2>6, <2>7
<1> QED
  BY <1>5, <1>6

\* A transfer lets a replica catch up, or at least prunes what it has.
LEMMA ApplyCheckpointLedger ==
    ASSUME Inv, NEW n \in Replica, NEW t \in transfers, ApplyCheckpoint(n, t)
    PROVE  [L!Next]_<<newest, Copy, pruned>>
<1> DEFINE h == store'[n].head
<1>1. Inv' /\ log' = log /\ newest' = newest /\ log \in Logs /\ InLedger(log, newest)
  BY ApplyCheckpointInv DEF ApplyCheckpoint, Inv, GlobalInv
<1>2. /\ DOMAIN store = Replica /\ store = [m \in Replica |-> store[m]]
      /\ pruned \in [Replica -> Nat] /\ pruned' \in [Replica -> Nat]
  BY <1>1 DEF Inv, GlobalInv
<1>3. /\ Number(store[n].head) \in Nat /\ Number(newest) \in Nat /\ pruned[n] \in Nat
      /\ store[n].head = SubSeq(newest, 1, Number(store[n].head))
  BY HeadsOfInv
<1>4. CASE UNCHANGED <<store, pruned>>
  BY <1>1, <1>4 DEF Copy
<1>5. CASE ~ UNCHANGED <<store, pruned>>
  <2>1. PICK b \in Nat :
           /\ store' = [store EXCEPT ![n] = store'[n]] /\ Number(store[n].head) <= Number(h)
           /\ b < Number(h) /\ pruned' = [pruned EXCEPT ![n] = Highest(pruned[n], b)]
    BY <1>5, ApplyCheckpointInv
  <2>2. /\ executed'[n] \in 0 .. Len(log) /\ h = Chain(log, executed'[n]) /\ Number(h) <= Number(newest)
    BY <1>1, Constants DEF Inv, GlobalInv, ReplicaInv
  <2>3. /\ Number(h) \in Nat /\ h = SubSeq(newest, 1, Number(h))
    BY <1>1, <2>2, HeadOfNewest
  <2>4. Copy' = [Copy EXCEPT ![n] = h]
    BY <1>2, <2>1 DEF Copy
  <2>5. pruned' = pruned \/ (b \in pruned[n] + 1 .. Number(h) /\ pruned' = [pruned EXCEPT ![n] = b])
    <3> HIDE DEF h
    <3>1. /\ b > pruned[n] => pruned' = [pruned EXCEPT ![n] = b]
          /\ ~ (b > pruned[n]) => pruned' = pruned
      <4>1. /\ pruned \in [Replica -> Nat] /\ pruned' \in [Replica -> Nat]
            /\ pruned'[n] = Highest(pruned[n], b) /\ \A m \in Replica \ {n} : pruned'[m] = pruned[m]
        BY <1>2, <2>1
      <4> QED
        BY <4>1, ExceptHighest
    <3> QED
      BY <1>3, <2>1, <2>3, <3>1
  <2>6. CASE Number(h) = Number(store[n].head)
    <3>1. h = store[n].head
      BY <1>3, <2>3, <2>6
    <3> HIDE DEF h
    <3>2. Copy' = Copy
      BY <1>2, <2>4, <3>1 DEF Copy
    <3>3. CASE pruned' = pruned
      BY <1>1, <3>2, <3>3
    <3>4. CASE pruned' # pruned
      <4>1. b \in pruned[n] + 1 .. Len(newest) /\ pruned' = [pruned EXCEPT ![n] = b]
        BY <1>3, <2>2, <2>3, <2>5, <3>4 DEF Number
      <4>2. L!Prune(n)
        BY <1>1, <3>2, <4>1 DEF L!Prune, Copy
      <4> QED
        BY <4>2 DEF L!Next
    <3> QED
      BY <3>3, <3>4
  <2>7. CASE Number(h) # Number(store[n].head)
    <3>1. Number(h) \in Len(Copy[n]) + 1 .. Len(newest)
      BY <1>3, <2>1, <2>2, <2>3, <2>7 DEF Copy, Number
    <3>2. Copy'[n] = h
      BY DEF Copy
    <3> HIDE DEF h
    <3>3. \E k \in Len(Copy[n]) + 1 .. Len(newest) : Copy' = [Copy EXCEPT ![n] = SubSeq(newest, 1, k)]
      BY <2>3, <2>4, <3>1
    <3>4. pruned' = pruned \/ \E k \in pruned[n] + 1 .. Len(Copy'[n]) : pruned' = [pruned EXCEPT ![n] = k]
      BY <2>5, <3>2 DEF Number
    <3>5. L!CatchUp(n)
      BY <1>1, <3>3, <3>4 DEF L!CatchUp, Copy
    <3> QED
      BY <3>5 DEF L!Next
  <2> QED
    BY <2>6, <2>7
<1> QED
  BY <1>4, <1>5

LEMMA DeleteBlocksLedger ==
    ASSUME Inv, NEW n \in Replica, DeleteBlocks(n)
    PROVE  [L!Next]_<<newest, Copy, pruned>>
<1> DEFINE h == deletes[handled[n] + 1]
<1>1. /\ store' = [store EXCEPT ![n] = PruneChain(store[n], h)]
      /\ pruned' = [pruned EXCEPT ![n] = Highest(pruned[n], Number(h))] /\ newest' = newest
  BY DEF DeleteBlocks
<1>2. Number(h) \in Nat /\ Number(h) <= Number(newest)
  <2>1. handled[n] + 1 \in 1 .. Len(deletes)
    BY DEF DeleteBlocks, Inv, GlobalInv
  <2> QED
    BY <2>1 DEF Inv, GlobalInv, InLedger, HeadersOf, Number
<1> HIDE DEF h
<1>3. /\ pruned \in [Replica -> Nat] /\ store = [m \in Replica |-> store[m]] /\ Number(newest) \in Nat
  BY HeadsOfInv DEF Inv, GlobalInv
<1>4. Copy' = Copy
  BY <1>1, <1>3 DEF Copy, PruneChain
<1>a. /\ Number(h) > pruned[n] => pruned' = [pruned EXCEPT ![n] = Number(h)]
      /\ ~ (Number(h) > pruned[n]) => pruned' = pruned
  <2>1. Highest(pruned[n], Number(h)) \in Nat
    BY <1>2, <1>3 DEF Highest
  <2>2. /\ pruned \in [Replica -> Nat] /\ pruned' \in [Replica -> Nat]
        /\ pruned'[n] = Highest(pruned[n], Number(h)) /\ \A m \in Replica \ {n} : pruned'[m] = pruned[m]
    BY <1>1, <1>3, <2>1
  <2> QED
    BY <1>2, <2>2, ExceptHighest
<1>5. CASE ~ (Number(h) > pruned[n])
  <2>1. pruned' = pruned
    BY <1>5, <1>a
  <2> QED
    BY <1>1, <1>4, <2>1
<1>6. CASE Number(h) > pruned[n]
  <2>1. Number(h) \in pruned[n] + 1 .. Number(newest) /\ pruned' = [pruned EXCEPT ![n] = Number(h)]
    BY <1>2, <1>3, <1>6, <1>a
  <2>2. L!Prune(n)
    BY <1>1, <1>4, <2>1 DEF L!Prune, Copy, Number
  <2> QED
    BY <2>2 DEF L!Next
<1> QED
  BY <1>5, <1>6

\* A restart finds the head again, or the one before it if that was pruned.
LEMMA RestartLedger ==
    ASSUME Inv, NEW n \in Replica, Restart(n)
    PROVE  [L!Next]_<<newest, Copy, pruned>>
<1> DEFINE h == store'[n].head
<1>1. /\ Inv' /\ log' = log /\ newest' = newest /\ pruned' = pruned
      /\ log \in Logs /\ InLedger(log, newest)
  BY RestartInv DEF Restart, Inv, GlobalInv
<1>2. DOMAIN store = Replica /\ store = [m \in Replica |-> store[m]]
  BY DEF Inv, GlobalInv
<1>3. CASE store' = store
  BY <1>1, <1>3 DEF Copy
<1>4. CASE store' # store
  <2>1. /\ store' = [store EXCEPT ![n] = store'[n]]
        /\ \/ h = store[n].head
           \/ Number(store[n].head) = Number(h) + 1 /\ Number(store[n].head) <= pruned[n]
    BY <1>4, RestartInv
  <2>2. Copy' = [Copy EXCEPT ![n] = h] /\ Copy[n] = store[n].head
    BY <1>2, <2>1 DEF Copy
  <2>3. CASE h = store[n].head
    <3>1. Copy' = Copy
      BY <2>2, <2>3 DEF Copy
    <3> QED
      BY <1>1, <3>1
  <2>4. CASE h # store[n].head
    <3>1. executed'[n] \in 0 .. Len(log) /\ h = Chain(log, executed'[n]) /\ Number(h) <= Number(newest)
      BY <1>1, Constants DEF Inv, GlobalInv, ReplicaInv
    <3>2. Number(h) \in Nat /\ h = SubSeq(newest, 1, Number(h))
      BY <1>1, <3>1, HeadOfNewest
    <3> HIDE DEF h
    <3>3. Len(Copy[n]) = Number(h) + 1 /\ Len(Copy[n]) <= pruned[n]
      BY <2>1, <2>2, <2>4 DEF Number
    <3>4. Copy[n] # <<>> /\ Len(Copy[n]) - 1 = Number(h)
      BY <3>2, <3>3
    <3>5. L!FallBack(n)
      BY <1>1, <2>2, <3>2, <3>3, <3>4 DEF L!FallBack, Copy
    <3> QED
      BY <3>5 DEF L!Next
  <2> QED
    BY <2>3, <2>4
<1> QED
  BY <1>3, <1>4

\* The replicas together keep one chain that grows by a block at a time, of
\* which each has a prefix and forgets no more than it was told to
\* (app.rs:158-168, 313-442; app/chain.rs): Railchain implements Ledger.
THEOREM Refinement == Spec => ImplementsLedger
<1>1. Init => L!Init
  BY InitLedger
<1>2. Inv /\ [Next]_vars => [L!Next]_<<newest, Copy, pruned>>
  <2> SUFFICES ASSUME Inv, [Next]_vars PROVE [L!Next]_<<newest, Copy, pruned>>
    OBVIOUS
  <2>1. ASSUME NEW n \in Replica, TakeCheckpoint(n) PROVE [L!Next]_<<newest, Copy, pruned>>
    BY <2>1 DEF TakeCheckpoint, Copy
  <2>2. ASSUME NEW n \in Replica, NEW c \in DOMAIN taken[n], CheckpointStable(n, c)
        PROVE  [L!Next]_<<newest, Copy, pruned>>
    <3>1. Copy' = Copy
      BY <2>2 DEF CheckpointStable, StoreProof, Copy, Inv, GlobalInv
    <3> QED
      BY <2>2, <3>1 DEF CheckpointStable
  <2>3. ASSUME NEW n \in Replica, NEW m \in Replica \ {n}, ResolveCheckpoint(n, m)
        PROVE  [L!Next]_<<newest, Copy, pruned>>
    BY <2>3 DEF ResolveCheckpoint, Copy
  <2>4. ASSUME NEW n \in Replica, SignDelete(n) PROVE [L!Next]_<<newest, Copy, pruned>>
    BY <2>4 DEF SignDelete, Copy
  <2>5. CASE UNCHANGED vars
    BY <2>5 DEF vars, Copy
  <2>6. CASE Next
    <3> HIDE DEF L!Next
    <3> QED
      BY <2>1, <2>2, <2>3, <2>4, <2>6, ExecuteLedger, ApplyCheckpointLedger, DeleteBlocksLedger,
         RestartLedger DEF Next
  <2> QED
    BY <2>5, <2>6
<1>3. Inv /\ [Next]_vars => [L!Next]_<<newest, [n \in Replica |-> store[n].head], pruned>>
  BY <1>2 DEF Copy
<1> QED
  BY <1>1, <1>3, SpecInv, PTL DEF Spec, ImplementsLedger, L!Spec
=============================================================================

---------------------------- MODULE Exporter_proofs ----------------------------
(***************************************************************************)
(* Proofs about the export protocol, for any number of replicas, any log,  *)
(* block size and interval, and any number of runs that fail, commands     *)
(* that get lost and replicas that restart: what is pruned was fetched and *)
(* written or lost with its run, and Deletes are those of proven blocks.   *)
(***************************************************************************)
EXTENDS Exporter, ChainStore_proofs, FiniteSetTheorems

\* The facts about the constants that the proofs use.
LEMMA Constants ==
    /\ Full \in Replica /\ F \in Nat
    /\ MaxBlockMessages \in Nat \ {0} /\ Interval \in Nat \ {0}
    /\ \A l \in Logs : l \in Seq(Tx \cup {Other}) /\ Len(l) \in Nat
    /\ Bases \subseteq Nat /\ MaxFaults \in Nat
BY ExporterAssumption

-----------------------------------------------------------------------------
(* The chain of a log                                                       *)

H == HeadersOf(Tx)

\* The chain after k requests of log l, and that of the whole log.
Chain(l, k) == ChainOf(TransactionsIn(l, Tx)[k], MaxBlockMessages)

Whole(l) == Chain(l, Len(l))

\* The headers of its blocks.
InLedger(l, h) == h \in H /\ Number(h) <= Number(Whole(l)) /\ h = Upto(Whole(l), Number(h))

\* StateIs and Aligned, of a log.
StateAt(l, k, h) == h = Chain(l, k) /\ RestOf(TransactionsIn(l, Tx)[k], MaxBlockMessages) = <<>>

AlignedLog(l) ==
    \A c \in 0 .. Len(l) : c % Interval = 0 =>
        StateAt(l, c, Chain(l, c)) /\ Number(Chain(l, c)) = c \div Interval

LEMMA StateIsDef ==
    ASSUME NEW k, NEW h
    PROVE  StateIs(k, h) <=> StateAt(log, k, h)
BY DEF StateIs, StateAt, Chain, Transactions

LEMMA AlignedDef == Aligned <=> AlignedLog(log)
BY DEF Aligned, AlignedLog, StateIs, StateAt, Chain, Transactions

LEMMA HeaderDef ==
    ASSUME NEW h \in H
    PROVE  Number(h) \in Nat /\ h \in Seq(Seq(Tx))
BY DEF H, HeadersOf, Number

LEMMA ChainDef ==
    ASSUME NEW l, NEW k \in Nat
    PROVE  Chain(l, k) \in H /\ Number(Chain(l, k)) \in Nat
<1>1. TransactionsIn(l, Tx)[k] \in Seq(Tx)
  BY TransactionsInUnfold
<1> QED
  BY <1>1, Constants, CutType DEF Chain, H, HeadersOf, Number

LEMMA LedgerBlock ==
    ASSUME NEW l \in Logs, NEW i \in 0 .. Number(Whole(l))
    PROVE  InLedger(l, Upto(Whole(l), i)) /\ Number(Upto(Whole(l), i)) = i
<1>1. Whole(l) \in Seq(Seq(Tx)) /\ i \in 0 .. Len(Whole(l))
  BY Constants, ChainDef DEF Whole, H, HeadersOf, Number
<1> QED
  BY <1>1, UptoDef DEF InLedger, H, HeadersOf, Number

LEMMA LedgerChain ==
    ASSUME NEW l \in Logs, NEW k \in 0 .. Len(l)
    PROVE  InLedger(l, Chain(l, k))
<1>1. k \in Nat /\ Len(l) \in Nat /\ k <= Len(l)
  BY Constants
<1> DEFINE chain == [i \in Nat |-> ChainOf(TransactionsIn(l, Tx)[i], MaxBlockMessages)]
<1>2. /\ Number(chain[k]) <= Number(chain[Len(l)])
      /\ chain[k] = Upto(chain[Len(l)], Number(chain[k]))
  BY <1>1, Constants, ChainGrows
<1>3. chain[k] = Chain(l, k) /\ chain[Len(l)] = Whole(l)
  BY <1>1 DEF Chain, Whole
<1> QED
  BY <1>1, <1>2, <1>3, ChainDef DEF InLedger

LEMMA LedgerGenesis ==
    ASSUME NEW l \in Logs
    PROVE  InLedger(l, Genesis) /\ Number(Genesis) = 0 /\ Commits(Genesis) = {}
<1>1. Whole(l) \in Seq(Seq(Tx)) /\ Len(Whole(l)) \in Nat
  BY Constants, ChainDef DEF Whole, H, HeadersOf
<1>2. Genesis \in H /\ Number(Genesis) = 0
  BY DEF Genesis, Number, H, HeadersOf
<1>3. Upto(Whole(l), 0) \in Seq(Seq(Tx)) /\ Number(Upto(Whole(l), 0)) = 0
  BY <1>1, UptoDef
<1>4. Upto(Whole(l), 0) = Genesis
  BY <1>3 DEF Number, Genesis
<1> QED
  BY <1>1, <1>2, <1>4 DEF InLedger, Number, Commits

\* Headers of the chain with the same number are the same; one commits to the
\* other if its number is higher.
LEMMA LedgerUpto ==
    ASSUME NEW l \in Logs, NEW h, NEW g, InLedger(l, h), InLedger(l, g), Number(g) <= Number(h)
    PROVE  Upto(h, Number(g)) = g
<1>1. Whole(l) \in Seq(Seq(Tx))
  BY Constants, ChainDef DEF Whole, H, HeadersOf
<1>2. /\ Number(h) \in Nat /\ Number(g) \in Nat
      /\ Number(h) <= Number(Whole(l)) /\ Number(Whole(l)) = Len(Whole(l)) /\ Len(Whole(l)) \in Nat
      /\ h = Upto(Whole(l), Number(h)) /\ g = Upto(Whole(l), Number(g))
  BY <1>1, HeaderDef DEF InLedger, Number
<1>3. Number(h) \in 0 .. Len(Whole(l)) /\ Number(g) \in 0 .. Number(h)
  BY <1>2
<1>4. Upto(Upto(Whole(l), Number(h)), Number(g)) = Upto(Whole(l), Number(g))
  BY <1>1, <1>3, UptoUpto
<1> QED
  BY <1>2, <1>4

LEMMA LedgerSame ==
    ASSUME NEW l, NEW h, NEW g, InLedger(l, h), InLedger(l, g), Number(g) = Number(h)
    PROVE  g = h
BY DEF InLedger

-----------------------------------------------------------------------------
(* Multiples of the interval                                                *)

LEMMA ModDef ==
    ASSUME NEW c \in Nat, NEW m \in Nat \ {0}
    PROVE  c % m \in Nat /\ c % m < m /\ c = (c \div m) * m + (c % m)
OBVIOUS

LEMMA ModUnique ==
    ASSUME NEW c \in Nat, NEW m \in Nat \ {0}, NEW q \in Nat, c = q * m
    PROVE  c % m = 0 /\ c \div m = q
<1>1. q * m <= c /\ c < q * m + m
  OBVIOUS
<1>2. c \div m = q
  BY <1>1, DivUnique
<1>3. c = (c \div m) * m + (c % m) /\ c % m \in Nat
  BY ModDef
<1>4. q * m \in Nat
  OBVIOUS
<1> QED
  BY <1>2, <1>3, <1>4

\* The next checkpoint after a checkpoint.
LEMMA ModNext ==
    ASSUME NEW c \in Nat, NEW m \in Nat \ {0}, c % m = 0
    PROVE  (c + m) % m = 0 /\ c \div m \in Nat /\ (c + m) \div m = c \div m + 1
<1> DEFINE q == c \div m
<1>1. c = q * m + (c % m) /\ q \in Nat
  BY ModDef, DivDef
<1> HIDE DEF q
<1>2. c + m = (q + 1) * m /\ c + m \in Nat /\ q + 1 \in Nat
  BY <1>1
<1>3. (c + m) % m = 0 /\ (c + m) \div m = q + 1
  BY <1>2, ModUnique
<1> QED
  BY <1>1, <1>3 DEF q

-----------------------------------------------------------------------------
(* The inductive invariant                                                  *)

\* The blocks that are safe to prune: some run has held them, and, if blocks go
\* to a file, they were written, or will be, or a run has lost them.
Covered == {b \in fetched : "output" \in Sinks => b \in written \cup lost \cup Held}

\* A header of the ledger whose blocks may go: that of a Delete.
Deletable(l, C, h) == InLedger(l, h) /\ Commits(h) \subseteq C

BlocksOK(l, blocks) == blocks \in Seq(H) /\ \A i \in 1 .. Len(blocks) : InLedger(l, blocks[i])

\* The commands an exporter sends to replica n.
CommandsTo(n, l, base, C) ==
    {[op |-> "v2", base |-> base, hashed |-> (n # Full)]}
        \cup {[op |-> "read", base |-> i, head |-> j] : i \in Nat, j \in Nat}
        \cup {[op |-> "delete", header |-> h] : h \in {g \in H : Deletable(l, C, g)}}

\* What a replica has on disk, and its prune_base.
StoreOK(l, C, s, b) ==
    /\ s \in Stores(H)
    /\ InLedger(l, s.head) /\ Deletable(l, C, s.base)
    /\ \A i \in DOMAIN s.blocks : i \in 0 .. Number(Whole(l)) /\ s.blocks[i] = Upto(Whole(l), i)
    /\ s.proof \in 0 .. Len(l) /\ s.proof % Interval = 0
    /\ b = {} \/ b = {s.base}

Proofs == [source : Replica, sequence : Nat, head : SUBSET H, base : SUBSET H]

\* A proof is of a checkpoint its replica has passed; its header has the number
\* of the checkpoint, and its base may go.
ProofOK(l, C, st, p) ==
    /\ p \in Proofs
    /\ p.sequence <= st[p.source].proof /\ p.sequence % Interval = 0
    /\ \A h \in p.head : InLedger(l, h) /\ Number(h) = p.sequence \div Interval
    /\ \A b \in p.base : Deletable(l, C, b)

\* What has been received: a full reply without blocks has no header either.
FetchOK(l, C, st, e) ==
    /\ BlocksOK(l, e.blocks)
    /\ \A p \in e.proofs : ProofOK(l, C, st, p)
    /\ e.full => \E p \in e.proofs : p.source = Full
    /\ e.full /\ e.blocks = <<>> => \E p \in e.proofs : p.head = {}

\* What has been chosen: a proof that verifies, and a base that may go.
PickedOK(l, C, e) ==
    /\ \E p \in e.proofs : e.head \in p.head /\ StateAt(l, p.sequence, e.head)
    /\ Deletable(l, C, e.base)

\* No header is above the newest checkpoint of Full: not the last Delete, nor
\* the one chosen; no block that ends a segment is below the last Delete.
OrderOK(st, d, e) ==
    /\ \A g \in d : Number(g) <= st[Full].proof \div Interval
    /\ e.phase \in {"step1", "step2"} /\ e.blocks # <<>> =>
          \A g \in d : Number(g) <= Number(e.blocks[Len(e.blocks)])
    /\ e.phase = "step2" =>
          /\ \A g \in d : Number(g) <= Number(e.head)
          /\ Number(e.head) <= st[Full].proof \div Interval

Exporters ==
    [phase : {"idle", "step1", "step2", "delete", "write"}, conn : SUBSET Replica, received : Nat,
     full : BOOLEAN, proofs : SUBSET Proofs, blocks : Seq(H), source : Replica, head : H, base : H,
     acks : Nat]

ExporterOK(l, C, st, got, d, e) ==
    /\ e \in Exporters /\ e.acks <= F + 1 /\ (e.phase = "delete" => e.acks <= F)
    /\ FetchOK(l, C, st, e)
    /\ e.phase = "step2" => PickedOK(l, C, e)
    /\ e.phase \in {"delete", "write"} => Range(e.blocks) \subseteq got
    /\ AlignedLog(l) => OrderOK(st, d, e)

\* The last Delete.
DeletedOK(l, got, d) == d = {} \/ \E h : d = {h} /\ InLedger(l, h) /\ h \in got

GlobalInv ==
    /\ log \in Logs /\ earliest \in Nat /\ up \subseteq Replica
    /\ restarts \in Nat /\ kills \in Nat /\ restarts + kills <= MaxFaults
    /\ store = [n \in Replica |-> store[n]]
    /\ pruneBase = [n \in Replica |-> pruneBase[n]]
    /\ inbox = [n \in Replica |-> inbox[n]]
    /\ written \cup lost \subseteq fetched /\ DeletedOK(log, fetched, deleted)

StoreInv(n) == StoreOK(log, Covered, store[n], pruneBase[n])

InboxInv(n) == inbox[n] \in Seq(CommandsTo(n, log, earliest, Covered))

ExporterInv == ExporterOK(log, Covered, store, fetched, deleted, exporter)

Inv == GlobalInv /\ (\A n \in Replica : StoreInv(n) /\ InboxInv(n)) /\ ExporterInv

-----------------------------------------------------------------------------
(* What holds for little covered holds for more                             *)

\* Every replica is at the same checkpoint or at a later one.
Later(st, tt) ==
    \A n \in Replica : st[n].proof \in Nat /\ tt[n].proof \in Nat /\ st[n].proof <= tt[n].proof

LEMMA SeqGrows ==
    ASSUME NEW S, NEW T, S \subseteq T, NEW s \in Seq(S)
    PROVE  s \in Seq(T)
<1>1. Len(s) \in Nat /\ s \in [1 .. Len(s) -> S]
  OBVIOUS
<1>2. s \in [1 .. Len(s) -> T]
  BY <1>1
<1> QED
  BY <1>1, <1>2

LEMMA DeletableGrows ==
    ASSUME NEW l, NEW C, NEW D, C \subseteq D, NEW h, Deletable(l, C, h)
    PROVE  Deletable(l, D, h)
BY DEF Deletable

LEMMA CommandsGrow ==
    ASSUME NEW n, NEW l, NEW base, NEW C, NEW D, C \subseteq D,
           NEW s \in Seq(CommandsTo(n, l, base, C))
    PROVE  s \in Seq(CommandsTo(n, l, base, D))
<1>1. CommandsTo(n, l, base, C) \subseteq CommandsTo(n, l, base, D)
  BY DeletableGrows DEF CommandsTo
<1> QED
  BY <1>1, SeqGrows

LEMMA StoreGrows ==
    ASSUME NEW l, NEW C, NEW D, C \subseteq D, NEW s, NEW b, StoreOK(l, C, s, b)
    PROVE  StoreOK(l, D, s, b)
BY DeletableGrows DEF StoreOK

LEMMA ProofGrows ==
    ASSUME NEW l, NEW C, NEW D, C \subseteq D, NEW st, NEW tt, Later(st, tt), NEW p, ProofOK(l, C, st, p)
    PROVE  ProofOK(l, D, tt, p)
<1>1. p \in Proofs /\ p.source \in Replica /\ p.sequence \in Nat
  BY DEF ProofOK, Proofs
<1>2. p.sequence <= tt[p.source].proof
  BY <1>1 DEF ProofOK, Later
<1> QED
  BY <1>2, DeletableGrows DEF ProofOK

LEMMA FetchGrows ==
    ASSUME NEW l, NEW C, NEW D, C \subseteq D, NEW st, NEW tt, Later(st, tt), NEW e, FetchOK(l, C, st, e)
    PROVE  FetchOK(l, D, tt, e)
BY ProofGrows DEF FetchOK

LEMMA OrderGrows ==
    ASSUME NEW st, NEW tt, Later(st, tt), NEW d, NEW e \in Exporters, OrderOK(st, d, e), d \subseteq H
    PROVE  OrderOK(tt, d, e)
<1>1. /\ Full \in Replica /\ st[Full].proof \in Nat /\ tt[Full].proof \in Nat
      /\ st[Full].proof <= tt[Full].proof /\ Interval \in Nat \ {0}
  BY Constants DEF Later
<1>2. /\ st[Full].proof \div Interval \in Nat /\ tt[Full].proof \div Interval \in Nat
      /\ st[Full].proof \div Interval <= tt[Full].proof \div Interval
  BY <1>1, DivDef, DivMonotone
<1>3. Number(e.head) \in Nat /\ \A g \in d : Number(g) \in Nat
  BY HeaderDef DEF Exporters
<1> DEFINE a == st[Full].proof \div Interval
<1> DEFINE b == tt[Full].proof \div Interval
<1> HIDE DEF a, b
<1>4. a \in Nat /\ b \in Nat /\ a <= b
  BY <1>2 DEF a, b
<1>5. \A g \in d : Number(g) <= b
  BY <1>3, <1>4 DEF OrderOK, a
<1>6. e.phase = "step2" => Number(e.head) <= b
  BY <1>3, <1>4 DEF OrderOK, a
<1> QED
  BY <1>5, <1>6 DEF OrderOK, b

LEMMA ExporterGrows ==
    ASSUME NEW l, NEW C, NEW D, C \subseteq D, NEW st, NEW tt, Later(st, tt), NEW got, NEW more, got \subseteq more,
           NEW d, DeletedOK(l, got, d), NEW e, ExporterOK(l, C, st, got, d, e)
    PROVE  ExporterOK(l, D, tt, more, d, e)
<1>1. e \in Exporters /\ FetchOK(l, C, st, e)
  BY DEF ExporterOK
<1>2. FetchOK(l, D, tt, e)
  BY <1>1, FetchGrows
<1>3. d \subseteq H
  BY DEF DeletedOK, InLedger
<1>4. AlignedLog(l) => OrderOK(tt, d, e)
  BY <1>1, <1>3, OrderGrows DEF ExporterOK
<1>5. e.phase = "step2" => PickedOK(l, D, e)
  BY DeletableGrows DEF ExporterOK, PickedOK
<1> QED
  BY <1>1, <1>2, <1>4, <1>5 DEF ExporterOK

\* A run that has ended satisfies everything.
LEMMA IdleOK ==
    ASSUME NEW l, NEW C, NEW st, NEW got, NEW d, AlignedLog(l) => \A g \in d : Number(g) <= st[Full].proof \div Interval
    PROVE  ExporterOK(l, C, st, got, d, Idle)
<1>1. /\ Idle \in Exporters /\ Idle.phase = "idle" /\ Idle.acks = 0 /\ Idle.blocks = <<>>
      /\ Idle.proofs = {} /\ Idle.full = FALSE
  <2>1. Genesis \in H /\ <<>> \in Seq(H) /\ Full \in Replica
    BY Constants DEF Genesis, H, HeadersOf
  <2> QED
    BY <2>1 DEF Idle, Exporters
<1>2. FetchOK(l, C, st, Idle)
  BY <1>1 DEF FetchOK, BlocksOK
<1> QED
  BY <1>1, <1>2, Constants DEF ExporterOK, OrderOK

-----------------------------------------------------------------------------
(* The initial states                                                       *)

\* A chain that was generated up to a header of the ledger.
LEMMA GeneratedDef ==
    ASSUME NEW l \in Logs, NEW h, InLedger(l, h), NEW C, Generated(h).proof <= Len(l)
    PROVE  StoreOK(l, C, Generated(h), {})
<1> DEFINE f == [i \in 0 .. Number(h) |-> Upto(h, i)]
<1>1. /\ Number(h) \in Nat /\ Number(h) <= Number(Whole(l)) /\ Number(Whole(l)) \in Nat
      /\ h \in H /\ Len(l) \in Nat /\ Interval \in Nat \ {0}
  BY HeaderDef, ChainDef, Constants DEF InLedger, Whole
<1>2. ASSUME NEW i \in 0 .. Number(h)
      PROVE  i \in 0 .. Number(Whole(l)) /\ f[i] = Upto(Whole(l), i) /\ f[i] \in H
  <2>1. i \in 0 .. Number(Whole(l)) /\ InLedger(l, Upto(Whole(l), i)) /\ Number(Upto(Whole(l), i)) = i
    BY <1>1, LedgerBlock
  <2>2. Upto(h, i) = Upto(Whole(l), i)
    BY <1>1, <2>1, LedgerUpto
  <2> QED
    BY <2>1, <2>2 DEF InLedger
<1>3. f \in BlockMaps(H) /\ DOMAIN f = 0 .. Number(h)
  <2>1. f \in [DOMAIN f -> H] /\ DOMAIN f \subseteq Nat /\ DOMAIN f = 0 .. Number(h)
    BY <1>1, <1>2
  <2> HIDE DEF f
  <2> QED
    BY <2>1, BlockMapsDef
<1> HIDE DEF f
<1>4. /\ Generated(h).blocks = f /\ Generated(h).head = h /\ Generated(h).base = Genesis
      /\ Generated(h).proof = Number(h) * Interval
      /\ Generated(h) = [blocks |-> f, base |-> Genesis, head |-> h, proof |-> Number(h) * Interval]
  <2>1. Generated(h) = [[Bootstrapped EXCEPT !.blocks = f, !.head = h] EXCEPT !.proof = Number(h) * Interval]
    BY DEF Generated, StoreProof, GenerateProof, f
  <2>2. Generated(h) = [blocks |-> f, base |-> Genesis, head |-> h, proof |-> Number(h) * Interval]
    BY <2>1 DEF Bootstrapped
  <2> QED
    BY <2>2
<1>5. Number(h) * Interval \in Nat /\ (Number(h) * Interval) % Interval = 0
  <2>1. Number(h) * Interval \in Nat
    BY <1>1
  <2> QED
    BY <1>1, <2>1, ModUnique
<1>6. InLedger(l, Genesis) /\ Commits(Genesis) = {} /\ Genesis \in H
  BY LedgerGenesis DEF InLedger
<1>7. Generated(h) \in Stores(H)
  BY <1>1, <1>3, <1>4, <1>5, <1>6 DEF Stores
<1> QED
  BY <1>1, <1>2, <1>3, <1>4, <1>5, <1>6, <1>7 DEF StoreOK, Deletable

LEMMA BootstrappedOK ==
    ASSUME NEW l \in Logs, NEW C
    PROVE  StoreOK(l, C, Bootstrapped, {})
<1>1. /\ Bootstrapped \in Stores(H)
      /\ DOMAIN Bootstrapped.blocks = {0} /\ Bootstrapped.blocks[0] = Genesis
      /\ Bootstrapped.base = Genesis /\ Bootstrapped.head = Genesis /\ Bootstrapped.proof = 0
  BY BootstrappedDef DEF H
<1>2. InLedger(l, Genesis) /\ Commits(Genesis) = {} /\ Number(Genesis) = 0
  BY LedgerGenesis
<1>3. 0 \in 0 .. Number(Whole(l)) /\ Genesis = Upto(Whole(l), 0)
  <2>1. Number(Whole(l)) \in Nat
    BY Constants, ChainDef DEF Whole
  <2> QED
    BY <1>2, <2>1 DEF InLedger
<1>4. 0 % Interval = 0 /\ 0 \in 0 .. Len(l)
  <2>1. Interval \in Nat \ {0} /\ 0 = 0 * Interval /\ Len(l) \in Nat
    BY Constants
  <2> QED
    BY <2>1, ModUnique
<1> QED
  BY <1>1, <1>2, <1>3, <1>4 DEF StoreOK, Deletable

LEMMA InitInv == Init => Inv
<1> SUFFICES ASSUME Init PROVE Inv
  OBVIOUS
<1>1. /\ log \in Logs /\ earliest \in Nat /\ up = Replica
      /\ pruneBase = [n \in Replica |-> {}] /\ inbox = [n \in Replica |-> <<>>]
      /\ exporter = Idle /\ deleted = {} /\ fetched = {} /\ written = {} /\ lost = {} /\ restarts = 0 /\ kills = 0
  BY Constants DEF Init
<1>2. PICK s \in {Bootstrapped} \cup
                 {Generated(ChainOf(Transactions(c), MaxBlockMessages)) : c \in 1 .. Len(log)} :
         s.proof <= Len(log) /\ store = [n \in Replica |-> s]
  BY DEF Init
<1>3. StoreOK(log, Covered, s, {})
  <2>1. CASE s = Bootstrapped
    BY <1>1, <2>1, BootstrappedOK
  <2>2. ASSUME NEW c \in 1 .. Len(log), s = Generated(ChainOf(Transactions(c), MaxBlockMessages))
        PROVE  StoreOK(log, Covered, s, {})
    <3>1. s = Generated(Chain(log, c)) /\ c \in 0 .. Len(log)
      BY <2>2 DEF Chain, Transactions
    <3>2. InLedger(log, Chain(log, c))
      BY <1>1, <3>1, LedgerChain
    <3> QED
      BY <1>1, <1>2, <3>1, <3>2, GeneratedDef
  <2> QED
    BY <1>2, <2>1, <2>2
<1>4. GlobalInv
  BY <1>1, <1>2, Constants DEF GlobalInv, DeletedOK
<1>5. ASSUME NEW n \in Replica PROVE StoreInv(n) /\ InboxInv(n)
  BY <1>1, <1>2, <1>3 DEF StoreInv, InboxInv
<1>6. ExporterInv
  BY <1>1, IdleOK DEF ExporterInv
<1> QED
  BY <1>4, <1>5, <1>6 DEF Inv

-----------------------------------------------------------------------------
(* What a replica answers                                                   *)

\* The block files of a replica hold blocks of the ledger.
LEMMA BlockOnDisk ==
    ASSUME NEW l \in Logs, NEW C, NEW s, NEW b, StoreOK(l, C, s, b), NEW i, Reads(s, i)
    PROVE  /\ InLedger(l, s.blocks[i]) /\ Number(s.blocks[i]) = i /\ i \in Nat
           /\ s.blocks[i] \in H
BY LedgerBlock DEF StoreOK, Reads, InLedger

LEMMA LargerDef ==
    ASSUME NEW a \in Nat, NEW b \in Nat
    PROVE  Larger(a, b) \in Nat /\ Larger(a, b) >= a /\ Larger(a, b) >= b
BY DEF Larger

LEMMA ReadBaseDef ==
    ASSUME NEW n \in Replica, GlobalInv, StoreInv(n), NEW command, command.base \in Nat
    PROVE  PruneNumber(n) \in Nat /\ ReadBase(n, command) \in Nat /\ CheckpointHead(n) \in Nat
<1>1. store[n].base \in H /\ store[n].proof \in Nat
  BY DEF StoreInv, StoreOK, Stores
<1>2. PruneNumber(n) \in Nat
  <2>1. CASE pruneBase[n] = {}
    BY <2>1 DEF PruneNumber
  <2>2. CASE pruneBase[n] = {store[n].base}
    <3>1. (CHOOSE h \in pruneBase[n] : TRUE) = store[n].base
      BY <2>2
    <3> QED
      BY <1>1, <2>2, <3>1, HeaderDef DEF PruneNumber
  <2> QED
    BY <2>1, <2>2 DEF StoreInv, StoreOK
<1> QED
  BY <1>1, <1>2, Constants, DivDef, LargerDef DEF ReadBase, CheckpointHead

\* The blocks a read returns, and the last of them.
ReadOK(l, s, blocks, head) ==
    /\ BlocksOK(l, blocks)
    /\ blocks # <<>> => Reads(s, head) /\ blocks[Len(blocks)] = s.blocks[head]

LEMMA ReadBlocksDef ==
    ASSUME NEW n \in Replica, GlobalInv, StoreInv(n), NEW base \in Nat, NEW head \in Nat, AllRead(n, base, head)
    PROVE  ReadOK(log, store[n], ReadBlocks(n, base, head), head)
<1> DEFINE blocks == ReadBlocks(n, base, head)
<1> DEFINE m == IF head > base THEN head - base ELSE 0
<1>1. blocks = [j \in 1 .. m |-> store[n].blocks[base + j]]
  BY DEF ReadBlocks
<1>2. m \in Nat
  OBVIOUS
<1>3. ASSUME NEW j \in 1 .. m
      PROVE  /\ blocks[j] = store[n].blocks[base + j] /\ Reads(store[n], base + j)
             /\ blocks[j] \in H /\ InLedger(log, blocks[j])
  <2>1. base + j \in base + 1 .. head
    BY <1>2
  <2>2. Reads(store[n], base + j)
    BY <2>1 DEF AllRead
  <2>3. InLedger(log, store[n].blocks[base + j]) /\ store[n].blocks[base + j] \in H
    BY <2>2, BlockOnDisk DEF GlobalInv, StoreInv
  <2>4. blocks[j] = store[n].blocks[base + j]
    BY <1>1
  <2> QED
    BY <2>2, <2>3, <2>4
<1> HIDE DEF blocks
<1>4. blocks \in Seq(H) /\ Len(blocks) = m
  <2>1. blocks \in [1 .. m -> H]
    BY <1>1, <1>3
  <2> HIDE DEF m
  <2> QED
    BY <1>2, <2>1, SeqFromFunction
<1>5. blocks # <<>> => m \in 1 .. m /\ base + m = head
  <2>1. blocks # <<>> => m # 0
    BY <1>4
  <2> QED
    BY <2>1
<1> HIDE DEF m
<1>6. blocks # <<>> => Reads(store[n], head) /\ blocks[Len(blocks)] = store[n].blocks[head]
  BY <1>3, <1>4, <1>5
<1> QED
  BY <1>3, <1>4, <1>6 DEF ReadOK, BlocksOK, blocks

\* The proof a reply to export_v2 carries.
ProofIn(n, reply) == [source |-> n, sequence |-> reply.sequence, head |-> reply.head, base |-> reply.base]

LEMMA ProofInOK ==
    ASSUME NEW n \in Replica, GlobalInv, StoreInv(n), NEW reply,
           reply.sequence = store[n].proof,
           reply.base = {} \/ reply.base = pruneBase[n],
           reply.head = {} \/ (Reads(store[n], CheckpointHead(n)) /\ reply.head = {store[n].blocks[CheckpointHead(n)]})
    PROVE  ProofOK(log, Covered, store, ProofIn(n, reply))
<1> DEFINE p == ProofIn(n, reply)
<1>1. /\ store[n].proof \in Nat /\ store[n].proof % Interval = 0 /\ log \in Logs
      /\ store[n].base \in H /\ Deletable(log, Covered, store[n].base)
      /\ pruneBase[n] = {} \/ pruneBase[n] = {store[n].base}
      /\ StoreOK(log, Covered, store[n], pruneBase[n])
  BY DEF StoreInv, StoreOK, Stores, GlobalInv
<1>2. \A h \in reply.head : InLedger(log, h) /\ Number(h) = store[n].proof \div Interval /\ h \in H
  BY <1>1, BlockOnDisk DEF CheckpointHead
<1>3. \A b \in reply.base : Deletable(log, Covered, b) /\ b \in H
  BY <1>1
<1>4. p.source = n /\ p.sequence = store[n].proof /\ p.head = reply.head /\ p.base = reply.base
  BY DEF ProofIn
<1>5. p \in Proofs
  BY <1>1, <1>2, <1>3 DEF ProofIn, Proofs
<1> HIDE DEF p
<1> QED
  BY <1>1, <1>2, <1>3, <1>4, <1>5 DEF ProofOK, p

\* What there is to know of a reply.
ReplyOK(n, reply) ==
    /\ reply.op = "proof" =>
          /\ reply.full \in BOOLEAN /\ (reply.full <=> n = Full)
          /\ ProofOK(log, Covered, store, ProofIn(n, reply))
          /\ reply.full =>
                /\ ReadOK(log, store[n], reply.blocks, store[n].proof \div Interval)
                /\ reply.blocks = <<>> => reply.head = {}
    /\ reply.op = "blocks" => BlocksOK(log, reply.blocks)

LEMMA ReplyToOK ==
    ASSUME NEW n \in Replica, GlobalInv, StoreInv(n),
           NEW command \in CommandsTo(n, log, earliest, Covered), CanAnswer(n, command)
    PROVE  ReplyOK(n, ReplyTo(n, command))
<1>1. CASE command = [op |-> "v2", base |-> earliest, hashed |-> (n # Full)]
  <2>1. /\ command.op = "v2" /\ command.base = earliest /\ command.base \in Nat
        /\ command.hashed = (n # Full)
    BY <1>1 DEF GlobalInv
  <2>2. CheckpointHead(n) \in Nat /\ ReadBase(n, command) \in Nat /\ CheckpointHead(n) = store[n].proof \div Interval
    BY <2>1, ReadBaseDef DEF CheckpointHead
  <2> DEFINE h == HashedReply(n, command)
  <2>3. /\ h.op = "proof" /\ h.full = FALSE /\ h.sequence = store[n].proof
        /\ h.base = {} \/ h.base = pruneBase[n]
        /\ h.head = {} \/ (Reads(store[n], CheckpointHead(n)) /\ h.head = {store[n].blocks[CheckpointHead(n)]})
    BY DEF HashedReply
  <2>4. CASE n # Full
    <3>1. ReplyTo(n, command) = h
      BY <2>1, <2>4 DEF ReplyTo
    <3> HIDE DEF h
    <3>2. ProofOK(log, Covered, store, ProofIn(n, h))
      BY <2>3, ProofInOK
    <3> QED
      BY <2>3, <2>4, <3>1, <3>2 DEF ReplyOK
  <2>5. CASE n = Full
    <3> DEFINE r == FullReply(n, command)
    <3> DEFINE blocks == ReadBlocks(n, ReadBase(n, command), CheckpointHead(n))
    <3>1. ReplyTo(n, command) = r
      BY <2>1, <2>5 DEF ReplyTo
    <3>2. AllRead(n, ReadBase(n, command), CheckpointHead(n))
      BY <2>1, <2>5 DEF CanAnswer
    <3>3. ReadOK(log, store[n], blocks, CheckpointHead(n))
      BY <2>2, <3>2, ReadBlocksDef
    <3>4. /\ r.op = "proof" /\ r.full = TRUE /\ r.blocks = blocks /\ r.sequence = store[n].proof
          /\ r.head = (IF blocks = <<>> THEN {} ELSE {blocks[Len(blocks)]})
          /\ r.base = {} \/ r.base = pruneBase[n]
      BY DEF FullReply, HashedReply
    <3> HIDE DEF h, r, blocks
    <3>5. r.head = {} \/ (Reads(store[n], CheckpointHead(n)) /\ r.head = {store[n].blocks[CheckpointHead(n)]})
      BY <3>3, <3>4 DEF ReadOK
    <3>6. ProofOK(log, Covered, store, ProofIn(n, r))
      BY <3>4, <3>5, ProofInOK
    <3> QED
      BY <2>2, <2>5, <3>1, <3>3, <3>4, <3>6 DEF ReplyOK
  <2> QED
    BY <2>4, <2>5
<1>2. CASE \E i \in Nat, j \in Nat : command = [op |-> "read", base |-> i, head |-> j]
  <2>1. command.op = "read" /\ command.base \in Nat /\ command.head \in Nat
    BY <1>2
  <2>2. ReadBase(n, command) \in Nat /\ ReadEnd(n, command) \in Nat
    <3>1. Number(store[n].head) \in Nat
      BY HeaderDef DEF StoreInv, StoreOK, Stores
    <3> QED
      BY <2>1, <3>1, ReadBaseDef DEF ReadEnd
  <2>3. AllRead(n, ReadBase(n, command), ReadEnd(n, command))
    BY <2>1 DEF CanAnswer
  <2>4. BlocksOK(log, ReadBlocks(n, ReadBase(n, command), ReadEnd(n, command)))
    BY <2>2, <2>3, ReadBlocksDef DEF ReadOK
  <2>5. ReplyTo(n, command) = [op |-> "blocks", blocks |-> ReadBlocks(n, ReadBase(n, command), ReadEnd(n, command))]
    BY <2>1 DEF ReplyTo
  <2> QED
    BY <2>4, <2>5 DEF ReplyOK
<1>3. CASE \E h \in H : command = [op |-> "delete", header |-> h]
  <2>1. command.op = "delete"
    BY <1>3
  <2>2. ReplyTo(n, command) = [op |-> "ack"]
    BY <2>1 DEF ReplyTo
  <2> QED
    BY <2>2 DEF ReplyOK
<1> QED
  BY <1>1, <1>2, <1>3 DEF CommandsTo

-----------------------------------------------------------------------------
(* What the exporter makes of an answer                                     *)

WaitingOK(l, base, C, waiting) ==
    /\ waiting = [n \in Replica |-> waiting[n]]
    /\ \A n \in Replica : waiting[n] \in Seq(CommandsTo(n, l, base, C))

LEMMA WaitingGrows ==
    ASSUME NEW l, NEW base, NEW C, NEW D, C \subseteq D, NEW waiting, WaitingOK(l, base, C, waiting)
    PROVE  WaitingOK(l, base, D, waiting)
BY CommandsGrow DEF WaitingOK

LEMMA SentOK ==
    ASSUME NEW l, NEW base, NEW C, NEW waiting, WaitingOK(l, base, C, waiting),
           NEW command, \A n \in DOMAIN command : command[n] \in CommandsTo(n, l, base, C)
    PROVE  WaitingOK(l, base, C, Sent(waiting, command))
<1> DEFINE s == Sent(waiting, command)
<1>1. s = [n \in Replica |-> IF n \in DOMAIN command THEN Append(waiting[n], command[n]) ELSE waiting[n]]
  BY DEF Sent
<1> HIDE DEF s
<1>2. ASSUME NEW n \in Replica PROVE s[n] \in Seq(CommandsTo(n, l, base, C))
  <2> DEFINE S == CommandsTo(n, l, base, C)
  <2>1. waiting[n] \in Seq(S)
    BY DEF WaitingOK
  <2>2. CASE n \in DOMAIN command
    <3>1. command[n] \in S /\ s[n] = Append(waiting[n], command[n])
      BY <1>1, <2>2
    <3> HIDE DEF S
    <3>2. s[n] \in Seq(S)
      BY <2>1, <3>1
    <3> QED
      BY <3>2 DEF S
  <2>3. CASE n \notin DOMAIN command
    BY <1>1, <2>1, <2>3
  <2> QED
    BY <2>2, <2>3
<1> QED
  BY <1>1, <1>2 DEF WaitingOK, s

LEMMA ExitDef ==
    ASSUME NEW l, NEW base, NEW C, NEW waiting, WaitingOK(l, base, C, waiting), Exit(waiting)
    PROVE  exporter' = Idle /\ WaitingOK(l, base, C, inbox')
<1>1. PICK dropped \in {{}, exporter.conn} : inbox' = [n \in Replica |-> IF n \in dropped THEN <<>> ELSE waiting[n]]
  BY DEF Exit
<1>2. ASSUME NEW n \in Replica PROVE inbox'[n] \in Seq(CommandsTo(n, l, base, C))
  BY <1>1 DEF WaitingOK
<1> QED
  BY <1>1, <1>2 DEF WaitingOK, Exit

\* A Delete of h may be signed.
SignOK(h) ==
    /\ AlignedLog(log) => \A g \in deleted : Number(h) >= Number(g) /\ Upto(h, Number(g)) = g
    /\ \E n \in Replica : \E c \in 1 .. store[n].proof :
          c % Interval = 0 /\ c \div Interval = Number(h) /\ StateAt(log, c, h)

\* What holds when an answer has been dealt with.
Received ==
    /\ Covered \subseteq Covered' /\ fetched \subseteq fetched'
    /\ ExporterOK(log, Covered', store, fetched', deleted', exporter')
    /\ DeletedOK(log, fetched', deleted') /\ WaitingOK(log, earliest, Covered', inbox')
    /\ \A h \in deleted' \ deleted : SignOK(h)

\* While a run fetches it writes nothing.
LEMMA CoveredKept ==
    ASSUME Held = {}, UNCHANGED <<written, lost, kills>>, fetched \subseteq fetched'
    PROVE  Covered \subseteq Covered'
BY DEF Covered

LEMMA FetchExits ==
    ASSUME GlobalInv, ExporterInv, NEW waiting, WaitingOK(log, earliest, Covered, waiting),
           exporter.phase \in {"step1", "step2"},
           Exit(waiting), UNCHANGED <<fetched, deleted, written, lost, kills>>
    PROVE  Received
<1>1. Covered \subseteq Covered'
  BY CoveredKept DEF Held
<1>2. exporter' = Idle /\ WaitingOK(log, earliest, Covered, inbox')
  BY ExitDef
<1>3. AlignedLog(log) => \A g \in deleted : Number(g) <= store[Full].proof \div Interval
  BY DEF ExporterInv, ExporterOK, OrderOK
<1>4. ExporterOK(log, Covered', store, fetched', deleted', Idle)
  BY <1>3, IdleOK
<1>5. WaitingOK(log, earliest, Covered', inbox')
  BY <1>1, <1>2, WaitingGrows
<1> QED
  BY <1>1, <1>2, <1>4, <1>5 DEF Received, GlobalInv

\* The blocks above the base, and the last of all blocks, if the segment verifies.
LEMMA SegmentDef ==
    ASSUME NEW e \in Exporters, e.base \in H, SegmentVerified(e)
    PROVE  LET last == e.blocks[Len(e.blocks)]
           IN  /\ Len(e.blocks) \in 1 .. Len(e.blocks) /\ last \in H /\ last \in Range(e.blocks)
               /\ Commits(last) \subseteq Commits(e.base) \cup Range(e.blocks)
               /\ Number(last) > 0 /\ Number(e.head) = Number(last)
<1> DEFINE blocks == e.blocks
<1> DEFINE last == blocks[Len(blocks)]
<1>1. blocks \in Seq(H) /\ Len(blocks) \in Nat /\ DOMAIN blocks = 1 .. Len(blocks)
  BY DEF Exporters
<1>2. PICK first \in DOMAIN blocks : VerifyChain(e.base, SubSeq(blocks, first, Len(blocks)))
  BY DEF SegmentVerified
<1> DEFINE segment == SubSeq(blocks, first, Len(blocks))
<1> DEFINE m == Len(blocks) + 1 - first
<1> HIDE DEF blocks
<1>3. first \in Nat /\ 1 <= first /\ first <= Len(blocks) /\ m \in Nat /\ m > 0
  BY <1>1, <1>2
<1>4. segment \in Seq(H) /\ Len(segment) = m /\ \A k \in 1 .. m : segment[k] = blocks[first + k - 1]
  BY <1>1, <1>3, SubSeqDef
<1> HIDE DEF segment, m
<1>5. /\ Commits(segment[Len(segment)]) \subseteq Commits(e.base) \cup {segment[j] : j \in 1 .. Len(segment)}
      /\ Number(segment[Len(segment)]) = Number(e.base) + Len(segment)
  <2>1. segment \in Seq(Seq(Seq(Tx))) /\ e.base \in Seq(Seq(Tx)) /\ VerifyChain(e.base, segment)
    BY <1>2, <1>4 DEF H, HeadersOf, segment
  <2> QED
    BY <2>1, VerifyChainDef
<1>6. segment[Len(segment)] = last
  <2>1. m \in 1 .. m /\ (first + m) - 1 = Len(blocks) /\ Len(segment) = m
    BY <1>1, <1>3, <1>4 DEF m
  <2>2. segment[m] = blocks[(first + m) - 1]
    BY <1>4, <2>1
  <2> QED
    BY <2>1, <2>2
<1>7. {segment[j] : j \in 1 .. Len(segment)} \subseteq Range(blocks)
  <2>1. ASSUME NEW j \in 1 .. Len(segment) PROVE segment[j] \in Range(blocks)
    <3>1. first + j - 1 \in DOMAIN blocks /\ segment[j] = blocks[first + j - 1]
      BY <1>1, <1>3, <1>4 DEF m
    <3> QED
      BY <3>1 DEF Range
  <2> QED
    BY <2>1
<1>8. Len(blocks) \in 1 .. Len(blocks) /\ last \in H /\ last \in Range(blocks) /\ blocks # <<>>
  BY <1>1, <1>3 DEF Range
<1>9. Number(last) > 0
  BY <1>3, <1>4, <1>5, <1>6, HeaderDef
<1>10. Number(e.head) = Number(last)
  BY <1>8 DEF SegmentVerified, HighestBlock, blocks
<1> QED
  BY <1>5, <1>6, <1>7, <1>8, <1>9, <1>10 DEF blocks

\* The header a fetch has chosen: if it ends the segment, it may be signed.
ChosenOK(e) ==
    AlignedLog(log) =>
        /\ Number(e.head) <= store[Full].proof \div Interval
        /\ Number(e.head) = HighestBlock(e) => \A g \in deleted : Number(g) <= Number(e.head)

LEMMA SegmentSigned ==
    ASSUME GlobalInv, \A n \in Replica : StoreInv(n),
           NEW e \in Exporters, FetchOK(log, Covered, store, e), PickedOK(log, Covered, e), ChosenOK(e),
           NEW last, InLedger(log, last), Number(last) > 0,
           Number(e.head) = Number(last), Number(e.head) = HighestBlock(e)
    PROVE  SignOK(last)
<1>1. PICK p \in e.proofs : e.head \in p.head /\ StateAt(log, p.sequence, e.head)
  BY DEF PickedOK
<1>2. /\ ProofOK(log, Covered, store, p) /\ p.source \in Replica /\ p.sequence \in Nat
      /\ InLedger(log, e.head) /\ Number(e.head) = p.sequence \div Interval
      /\ p.sequence <= store[p.source].proof /\ p.sequence % Interval = 0
  BY <1>1 DEF FetchOK, ProofOK, Proofs
<1>3. last = e.head
  BY <1>2, LedgerSame
<1>4. p.sequence \in 1 .. store[p.source].proof
  <2>1. p.sequence # 0
    <3>1. p.sequence = 0 => p.sequence \div Interval = 0
      BY Constants, ModUnique
    <3> QED
      BY <1>2, <3>1
  <2>2. store[p.source].proof \in Nat
    BY <1>2 DEF StoreInv, StoreOK, Stores
  <2> QED
    BY <1>2, <2>1, <2>2
<1>5. ASSUME AlignedLog(log), NEW g \in deleted
      PROVE  Number(last) >= Number(g) /\ Upto(last, Number(g)) = g
  <2>1. Number(g) <= Number(last) /\ InLedger(log, g) /\ log \in Logs
    BY <1>5 DEF ChosenOK, GlobalInv, DeletedOK
  <2>2. Number(g) \in Nat /\ Number(last) \in Nat
    BY <2>1, HeaderDef DEF InLedger
  <2> QED
    BY <2>1, <2>2, LedgerUpto
<1> QED
  BY <1>1, <1>2, <1>3, <1>4, <1>5 DEF SignOK

LEMMA FetchCompleteOK ==
    ASSUME GlobalInv, \A n \in Replica : StoreInv(n), ExporterInv,
           NEW waiting, WaitingOK(log, earliest, Covered, waiting),
           exporter.phase \in {"step1", "step2"},
           NEW e \in Exporters, FetchOK(log, Covered, store, e), PickedOK(log, Covered, e), ChosenOK(e),
           FetchComplete(waiting, e), UNCHANGED <<written, lost, kills>>
    PROVE  Received
<1>1. CASE ~SegmentVerified(e)
  BY <1>1, FetchExits DEF FetchComplete
<1>2. CASE SegmentVerified(e)
  <2> DEFINE last == e.blocks[Len(e.blocks)]
  <2>1. /\ exporter' = [Idle EXCEPT !.phase = "delete", !.conn = e.conn, !.blocks = e.blocks]
        /\ fetched' = fetched \cup Range(e.blocks)
        /\ deleted' = {last}
        /\ inbox' = Sent(waiting, [n \in e.conn |-> Delete(last)])
    BY <1>2 DEF FetchComplete
  <2>2. /\ last \in H /\ last \in Range(e.blocks) /\ Len(e.blocks) \in 1 .. Len(e.blocks)
        /\ Commits(last) \subseteq Commits(e.base) \cup Range(e.blocks)
        /\ Number(last) > 0 /\ Number(e.head) = Number(last)
    <3>1. e.base \in H
      BY DEF Exporters
    <3> QED
      BY <1>2, <3>1, SegmentDef
  <2>3. InLedger(log, last) /\ e.blocks \in Seq(H) /\ e.conn \subseteq Replica
    BY <2>2 DEF FetchOK, BlocksOK, Exporters
  <2>4. Number(e.head) = HighestBlock(e)
    BY <1>2 DEF SegmentVerified
  <2> HIDE DEF last
  <2>5. SignOK(last)
    BY <2>2, <2>3, <2>4, SegmentSigned
  <2>6. /\ exporter'.phase = "delete" /\ exporter'.blocks = e.blocks /\ exporter'.acks = 0
        /\ exporter'.proofs = {} /\ exporter'.full = FALSE /\ exporter' \in Exporters
    <3>1. Genesis \in H /\ Full \in Replica
      BY Constants DEF Genesis, H, HeadersOf
    <3>2. exporter' = [phase |-> "delete", conn |-> e.conn, received |-> 0, full |-> FALSE, proofs |-> {},
                       blocks |-> e.blocks, source |-> Full, head |-> Genesis, base |-> Genesis, acks |-> 0]
      BY <2>1 DEF Idle
    <3> QED
      BY <2>3, <3>1, <3>2 DEF Exporters
  <2>7. Covered \subseteq Covered' /\ Range(e.blocks) \subseteq Covered' /\ fetched \subseteq fetched'
    <3>1. Held = {} /\ Held' = Range(e.blocks)
      BY <2>6 DEF Held
    <3> QED
      BY <2>1, <3>1 DEF Covered
  <2>8. Deletable(log, Covered', last)
    <3>1. Commits(e.base) \subseteq Covered
      BY DEF PickedOK, Deletable
    <3> QED
      BY <2>2, <2>3, <2>7, <3>1 DEF Deletable
  <2>9. ExporterOK(log, Covered', store, fetched', deleted', exporter')
    <3>1. FetchOK(log, Covered', store, exporter')
      BY <2>6 DEF FetchOK
    <3>2. AlignedLog(log) => OrderOK(store, deleted', exporter')
      BY <2>1, <2>2, <2>6 DEF OrderOK, ChosenOK
    <3>3. Range(exporter'.blocks) \subseteq fetched'
      BY <2>1, <2>6
    <3> QED
      BY <2>6, <3>1, <3>2, <3>3, Constants DEF ExporterOK
  <2>10. DeletedOK(log, fetched', deleted')
    BY <2>1, <2>2, <2>3 DEF DeletedOK
  <2>11. WaitingOK(log, earliest, Covered', inbox')
    <3>1. WaitingOK(log, earliest, Covered', waiting)
      BY <2>7, WaitingGrows
    <3> DEFINE command == [n \in e.conn |-> Delete(last)]
    <3>2. \A n \in DOMAIN command : command[n] \in CommandsTo(n, log, earliest, Covered')
      BY <2>2, <2>8 DEF Delete, CommandsTo
    <3> HIDE DEF command
    <3>3. WaitingOK(log, earliest, Covered', Sent(waiting, command))
      BY <3>1, <3>2, SentOK
    <3> QED
      BY <2>1, <3>3 DEF command
  <2>12. \A h \in deleted' \ deleted : SignOK(h)
    BY <2>1, <2>5
  <2> QED
    BY <2>7, <2>9, <2>10, <2>11, <2>12 DEF Received
<1> QED
  BY <1>1, <1>2

\* A set of headers whose numbers are bounded has one with the highest number.
LEMMA HighestExists ==
    ASSUME NEW S, S # {}, NEW bound \in Nat, \A h \in S : Number(h) \in Nat /\ Number(h) <= bound
    PROVE  \E h \in S : \A g \in S : Number(g) <= Number(h)
<1> SUFFICES ASSUME \A h \in S : \E g \in S : ~(Number(g) <= Number(h)) PROVE FALSE
  OBVIOUS
<1> DEFINE T == {n \in Nat : \E h \in S : Number(h) >= n}
<1>1. 0 \in T
  OBVIOUS
<1>2. ASSUME NEW n \in Nat, n \in T PROVE n + 1 \in T
  <2>1. PICK h \in S : Number(h) >= n
    BY <1>2
  <2>2. PICK g \in S : ~(Number(g) <= Number(h))
    OBVIOUS
  <2>3. Number(g) >= n + 1
    BY <2>1, <2>2
  <2> QED
    BY <2>3
<1> HIDE DEF T
<1>3. Nat \subseteq T
  BY <1>1, <1>2, SetInduction
<1>4. bound + 1 \in T
  BY <1>3
<1> QED
  BY <1>4 DEF T

LEMMA VerifyBaseDef ==
    ASSUME NEW l \in Logs, NEW C, NEW st, NEW proofs, \A p \in proofs : ProofOK(l, C, st, p)
    PROVE  VerifyBase(proofs) \in H /\ Deletable(l, C, VerifyBase(proofs))
<1> DEFINE bases == UNION {p.base : p \in proofs}
<1>1. \A h \in bases : Deletable(l, C, h) /\ h \in H /\ Number(h) \in Nat /\ Number(h) <= Number(Whole(l))
  BY HeaderDef DEF ProofOK, Deletable, InLedger
<1> HIDE DEF bases
<1>2. CASE bases = {}
  <2>1. VerifyBase(proofs) = Genesis
    BY <1>2 DEF VerifyBase, bases
  <2> QED
    BY <2>1, LedgerGenesis DEF Deletable, InLedger
<1>3. CASE bases # {}
  <2>1. Number(Whole(l)) \in Nat
    BY Constants, ChainDef DEF Whole
  <2>2. \E h \in bases : \A g \in bases : Number(g) <= Number(h)
    BY <1>1, <1>3, <2>1, HighestExists
  <2>3. VerifyBase(proofs) = CHOOSE h \in bases : \A g \in bases : Number(g) <= Number(h)
    BY <1>3 DEF VerifyBase, bases
  <2>4. VerifyBase(proofs) \in bases
    BY <2>2, <2>3
  <2> QED
    BY <1>1, <2>4
<1> QED
  BY <1>2, <1>3

\* The headers a proof contains are all the same, and so their number is its number.
LEMMA ProofNumberDef ==
    ASSUME GlobalInv, NEW p, ProofOK(log, Covered, store, p), p.head # {}
    PROVE  \E h \in H :
              /\ p.head = {h} /\ (CHOOSE g \in p.head : TRUE) = h /\ InLedger(log, h)
              /\ ProofNumber(p) = Number(h) /\ Number(h) = p.sequence \div Interval
              /\ VerifyProof(p) <=> StateAt(log, p.sequence, h)
<1>1. PICK h : h \in p.head
  OBVIOUS
<1>2. h \in H /\ InLedger(log, h) /\ Number(h) = p.sequence \div Interval
  BY <1>1 DEF ProofOK, InLedger
<1>3. \A g \in p.head : g = h
  BY <1>2, LedgerSame DEF ProofOK
<1>4. p.head = {h}
  BY <1>1, <1>3
<1>5. (CHOOSE g \in p.head : TRUE) = h
  BY <1>4
<1>6. VerifyProof(p) <=> StateAt(log, p.sequence, h)
  BY <1>4, StateIsDef DEF VerifyProof
<1> QED
  BY <1>2, <1>4, <1>5, <1>6 DEF ProofNumber

\* If checkpoints are aligned every proof with a header verifies.
LEMMA AlignedVerifies ==
    ASSUME GlobalInv, \A n \in Replica : StoreInv(n), AlignedLog(log),
           NEW p, ProofOK(log, Covered, store, p), p.head # {}
    PROVE  VerifyProof(p)
<1>1. PICK h \in H : /\ p.head = {h} /\ InLedger(log, h) /\ Number(h) = p.sequence \div Interval
                     /\ VerifyProof(p) <=> StateAt(log, p.sequence, h)
  BY ProofNumberDef
<1>2. p.sequence \in 0 .. Len(log) /\ p.sequence % Interval = 0 /\ log \in Logs
  <2>1. p.sequence \in Nat /\ p.sequence % Interval = 0 /\ p.source \in Replica /\ p.sequence <= store[p.source].proof
    BY DEF ProofOK, Proofs
  <2>2. store[p.source].proof \in Nat /\ store[p.source].proof <= Len(log) /\ Len(log) \in Nat /\ log \in Logs
    BY <2>1, Constants DEF StoreInv, StoreOK, GlobalInv
  <2> QED
    BY <2>1, <2>2
<1>3. /\ StateAt(log, p.sequence, Chain(log, p.sequence))
      /\ Number(Chain(log, p.sequence)) = p.sequence \div Interval
  BY <1>2 DEF AlignedLog
<1>4. h = Chain(log, p.sequence)
  BY <1>1, <1>2, <1>3, LedgerChain, LedgerSame
<1> QED
  BY <1>1, <1>3, <1>4

\* The proof chosen is not above the newest checkpoint of Full, if they are aligned.
LEMMA CandidateOK ==
    ASSUME GlobalInv, \A n \in Replica : StoreInv(n), NEW e, FetchOK(log, Covered, store, e), e.full,
           \A p \in e.proofs : p.head # {}, NEW p \in Candidates(e.proofs), AlignedLog(log)
    PROVE  ProofNumber(p) <= store[Full].proof \div Interval
<1>1. PICK q \in e.proofs : q.source = Full
  BY DEF FetchOK
<1>2. ProofOK(log, Covered, store, q) /\ q.head # {}
  BY <1>1 DEF FetchOK
<1>3. VerifyProof(q)
  BY <1>2, AlignedVerifies
<1>4. ProofNumber(p) <= ProofNumber(q) /\ p \in e.proofs
  BY <1>1, <1>3 DEF Candidates
<1>5. ProofOK(log, Covered, store, p) /\ p.head # {}
  BY <1>4 DEF FetchOK
<1>6. ProofNumber(p) \in Nat /\ ProofNumber(q) \in Nat /\ ProofNumber(q) = q.sequence \div Interval
  BY <1>2, <1>5, ProofNumberDef, HeaderDef
<1>7. q.sequence \div Interval <= store[Full].proof \div Interval /\ store[Full].proof \div Interval \in Nat
  <2>1. q.sequence \in Nat /\ q.sequence <= store[Full].proof
    BY <1>1, <1>2 DEF ProofOK, Proofs
  <2>2. store[Full].proof \in Nat /\ Interval \in Nat \ {0}
    BY Constants DEF StoreInv, StoreOK, Stores
  <2> QED
    BY <2>1, <2>2, DivMonotone, DivDef
<1> DEFINE top == store[Full].proof \div Interval
<1>8. top \in Nat /\ q.sequence \div Interval <= top
  BY <1>7
<1> HIDE DEF top
<1>9. ProofNumber(p) <= top
  BY <1>4, <1>6, <1>8
<1> QED
  BY <1>9 DEF top

\* What the exporter goes on with after a candidate has been chosen.
Picked(e, p) == [e EXCEPT !.source = p.source, !.head = CHOOSE h \in p.head : TRUE, !.base = VerifyBase(e.proofs)]

Chosen(e, p, picked) ==
    /\ picked \in Exporters /\ picked.phase = "step1" /\ picked.acks = e.acks
    /\ p.source \in Replica
    /\ picked.blocks # <<>> /\ HighestBlock(picked) = Number(picked.blocks[Len(picked.blocks)])
    /\ HighestBlock(picked) \in Nat /\ Number(picked.base) \in Nat
    /\ ProofNumber(p) = Number(picked.head) /\ ProofNumber(p) \in Nat
    /\ FetchOK(log, Covered, store, picked) /\ PickedOK(log, Covered, picked)
    /\ AlignedLog(log) =>
          /\ Number(picked.head) <= store[Full].proof \div Interval
          /\ \A g \in deleted : Number(g) <= HighestBlock(picked)

LEMMA PickedDef ==
    ASSUME GlobalInv, \A n \in Replica : StoreInv(n),
           NEW e \in Exporters, e.phase = "step1", e.full, FetchOK(log, Covered, store, e),
           AlignedLog(log) => OrderOK(store, deleted, e),
           \A q \in e.proofs : q.head # {}, NEW p \in Candidates(e.proofs),
           NEW picked, picked = Picked(e, p)
    PROVE  Chosen(e, p, picked)
<1>1. p \in e.proofs /\ VerifyProof(p) /\ ProofOK(log, Covered, store, p) /\ p.head # {} /\ p.source \in Replica
  BY DEF Candidates, FetchOK, ProofOK, Proofs
<1>2. PICK h \in H : /\ p.head = {h} /\ (CHOOSE g \in p.head : TRUE) = h /\ ProofNumber(p) = Number(h)
                     /\ VerifyProof(p) <=> StateAt(log, p.sequence, h)
  BY <1>1, ProofNumberDef
<1>3. VerifyBase(e.proofs) \in H /\ Deletable(log, Covered, VerifyBase(e.proofs))
  BY VerifyBaseDef DEF GlobalInv, FetchOK
<1>4. /\ picked.phase = e.phase /\ picked.conn = e.conn /\ picked.received = e.received /\ picked.full = e.full
      /\ picked.proofs = e.proofs /\ picked.blocks = e.blocks /\ picked.source = p.source
      /\ picked.head = h /\ picked.base = VerifyBase(e.proofs) /\ picked.acks = e.acks
      /\ picked \in Exporters
  BY <1>1, <1>2, <1>3 DEF Exporters, Picked
<1>5. FetchOK(log, Covered, store, picked)
  BY <1>4 DEF FetchOK
<1>6. PickedOK(log, Covered, picked)
  BY <1>1, <1>2, <1>3, <1>4 DEF PickedOK
<1>7. e.blocks # <<>> /\ e.blocks[Len(e.blocks)] \in H
  <2>1. e.blocks # <<>> /\ e.blocks \in Seq(H)
    BY DEF FetchOK, Exporters
  <2> QED
    BY <2>1
<1>8. HighestBlock(picked) = Number(e.blocks[Len(e.blocks)])
  BY <1>4, <1>7 DEF HighestBlock
<1>9. AlignedLog(log) => ProofNumber(p) <= store[Full].proof \div Interval
  BY CandidateOK
<1>10. AlignedLog(log) => \A g \in deleted : Number(g) <= Number(e.blocks[Len(e.blocks)])
  BY <1>7 DEF OrderOK
<1>11. Number(h) \in Nat /\ Number(VerifyBase(e.proofs)) \in Nat /\ Number(e.blocks[Len(e.blocks)]) \in Nat
  BY <1>3, <1>7, HeaderDef
<1> HIDE DEF HighestBlock
<1> QED
  BY <1>1, <1>2, <1>4, <1>5, <1>6, <1>7, <1>8, <1>9, <1>10, <1>11 DEF Chosen

LEMMA Verify1OK ==
    ASSUME GlobalInv, \A n \in Replica : StoreInv(n), ExporterInv,
           NEW waiting, WaitingOK(log, earliest, Covered, waiting), exporter.phase = "step1",
           NEW e \in Exporters, e.phase = "step1", e.full, e.acks <= F + 1, FetchOK(log, Covered, store, e),
           AlignedLog(log) => OrderOK(store, deleted, e),
           Verify1(waiting, e), UNCHANGED <<written, lost, kills>>
    PROVE  Received
<1>1. CASE Exit(waiting) /\ UNCHANGED <<fetched, deleted>>
  BY <1>1, FetchExits
<1>2. ASSUME \A p \in e.proofs : p.head # {}, NEW p \in Candidates(e.proofs),
             NEW picked, picked = Picked(e, p),
             LET highest == HighestBlock(picked)
                 base == Number(picked.base)
             IN  IF ProofNumber(p) > highest /\ ProofNumber(p) > base
                 THEN /\ exporter' = [picked EXCEPT !.phase = "step2"]
                      /\ inbox' = Sent(waiting, [n \in {p.source} |->
                                                  Read0(Larger(base, highest), ProofNumber(p))])
                      /\ UNCHANGED <<fetched, deleted>>
                 ELSE FetchComplete(waiting, picked)
      PROVE  Received
  <2>1. Chosen(e, p, picked)
    BY <1>2, PickedDef
  <2>2. CASE ProofNumber(p) > HighestBlock(picked) /\ ProofNumber(p) > Number(picked.base)
    <3> DEFINE base == Larger(Number(picked.base), HighestBlock(picked))
    <3>1. /\ exporter' = [picked EXCEPT !.phase = "step2"]
          /\ inbox' = Sent(waiting, [n \in {p.source} |-> Read0(base, ProofNumber(p))])
          /\ UNCHANGED <<fetched, deleted>>
      BY <1>2, <2>2
    <3>2. base \in Nat
      BY <2>1, LargerDef DEF Chosen
    <3> HIDE DEF base
    <3>3. /\ exporter' \in Exporters /\ exporter'.phase = "step2" /\ exporter'.acks = e.acks
          /\ exporter'.blocks = picked.blocks /\ exporter'.proofs = picked.proofs
          /\ exporter'.full = picked.full /\ exporter'.head = picked.head /\ exporter'.base = picked.base
      BY <2>1, <3>1 DEF Exporters, Chosen
    <3>4. Covered \subseteq Covered' /\ fetched \subseteq fetched'
      BY <3>1, CoveredKept DEF Held
    <3>5. FetchOK(log, Covered, store, exporter') /\ PickedOK(log, Covered, exporter')
      BY <2>1, <3>3 DEF FetchOK, PickedOK, Chosen
    <3>6. AlignedLog(log) => OrderOK(store, deleted, exporter')
      <4>1. \A g \in deleted : Number(g) \in Nat
        BY HeaderDef DEF GlobalInv, DeletedOK, InLedger
      <4>2. ASSUME AlignedLog(log), NEW g \in deleted
            PROVE  /\ Number(g) <= Number(exporter'.blocks[Len(exporter'.blocks)])
                   /\ Number(g) <= Number(exporter'.head)
        BY <2>1, <2>2, <3>3, <4>1, <4>2 DEF Chosen
      <4>3. AlignedLog(log) => Number(exporter'.head) <= store[Full].proof \div Interval
        BY <2>1, <3>3 DEF Chosen
      <4>4. AlignedLog(log) => \A g \in deleted : Number(g) <= store[Full].proof \div Interval
        BY DEF ExporterInv, ExporterOK, OrderOK
      <4> QED
        BY <4>2, <4>3, <4>4 DEF OrderOK
    <3>7. ExporterOK(log, Covered, store, fetched, deleted, exporter')
      BY <3>3, <3>5, <3>6 DEF ExporterOK
    <3>8. Later(store, store) /\ DeletedOK(log, fetched, deleted)
      BY DEF Later, StoreInv, StoreOK, Stores, GlobalInv
    <3>9. ExporterOK(log, Covered', store, fetched', deleted', exporter')
      BY <3>1, <3>4, <3>7, <3>8, ExporterGrows
    <3>10. WaitingOK(log, earliest, Covered', inbox')
      <4> DEFINE command == [n \in {p.source} |-> Read0(base, ProofNumber(p))]
      <4>1. \A n \in DOMAIN command : command[n] \in CommandsTo(n, log, earliest, Covered)
        BY <2>1, <3>2 DEF Read0, CommandsTo, Chosen
      <4> HIDE DEF command
      <4>2. WaitingOK(log, earliest, Covered, Sent(waiting, command))
        BY <4>1, SentOK
      <4> QED
        BY <3>1, <3>4, <4>2, WaitingGrows DEF command
    <3> QED
      BY <3>1, <3>4, <3>8, <3>9, <3>10 DEF Received
  <2>3. CASE ~(ProofNumber(p) > HighestBlock(picked) /\ ProofNumber(p) > Number(picked.base))
    <3>1. FetchComplete(waiting, picked)
      BY <1>2, <2>3
    <3>2. ChosenOK(picked)
      BY <2>1 DEF ChosenOK, Chosen
    <3> QED
      BY <2>1, <3>1, <3>2, FetchCompleteOK DEF Chosen
  <2> QED
    BY <2>2, <2>3
<1> QED
  BY <1>1, <1>2 DEF Verify1, Picked

\* Nothing but the exporter changes, and it is again as it should be.
LEMMA ReceivedMore ==
    ASSUME GlobalInv, \A n \in Replica : StoreInv(n), NEW waiting, WaitingOK(log, earliest, Covered, waiting),
           Covered \subseteq Covered', UNCHANGED <<fetched, deleted>>, inbox' = waiting,
           ExporterOK(log, Covered, store, fetched, deleted, exporter')
    PROVE  Received
<1>1. Later(store, store) /\ DeletedOK(log, fetched, deleted)
  BY DEF Later, StoreInv, StoreOK, Stores, GlobalInv
<1>2. ExporterOK(log, Covered', store, fetched', deleted', exporter')
  BY <1>1, ExporterGrows
<1>3. WaitingOK(log, earliest, Covered', inbox')
  BY WaitingGrows
<1> QED
  BY <1>1, <1>2, <1>3 DEF Received

\* What fetch_step1 keeps of a reply.
Counted(n, reply) ==
    [exporter EXCEPT
        !.received = @ + 1, !.full = @ \/ n = Full,
        !.proofs = @ \cup {ProofIn(n, reply)},
        !.blocks = IF reply.full THEN reply.blocks ELSE @]

CountedOK(e) ==
    /\ e \in Exporters /\ e.phase = "step1" /\ e.acks <= F + 1 /\ FetchOK(log, Covered, store, e)
    /\ AlignedLog(log) => OrderOK(store, deleted, e)

LEMMA CountedDef ==
    ASSUME GlobalInv, \A n \in Replica : StoreInv(n), ExporterInv, exporter.phase = "step1",
           NEW n \in Replica, NEW reply, reply.op = "proof", ReplyOK(n, reply), NEW e, e = Counted(n, reply)
    PROVE  CountedOK(e)
<1>1. /\ exporter \in Exporters /\ exporter.acks <= F + 1 /\ FetchOK(log, Covered, store, exporter)
      /\ AlignedLog(log) => OrderOK(store, deleted, exporter)
  BY DEF ExporterInv, ExporterOK
<1>2. /\ reply.full \in BOOLEAN /\ (reply.full <=> n = Full)
      /\ ProofOK(log, Covered, store, ProofIn(n, reply)) /\ ProofIn(n, reply) \in Proofs
      /\ reply.full => ReadOK(log, store[n], reply.blocks, store[n].proof \div Interval)
      /\ reply.full => BlocksOK(log, reply.blocks) /\ (reply.blocks = <<>> => reply.head = {})
  BY DEF ReplyOK, ReadOK, ProofOK
<1> DEFINE p == ProofIn(n, reply)
<1>3. p.source = n /\ p.head = reply.head
  BY DEF ProofIn
<1> HIDE DEF p
<1>4. ASSUME reply.full
      PROVE  CountedOK(e)
  <2>1. n = Full /\ reply.blocks \in Seq(H)
    BY <1>2, <1>4 DEF BlocksOK
  <2>2. /\ e.phase = "step1" /\ e.conn = exporter.conn /\ e.received = exporter.received + 1 /\ e.full
        /\ e.proofs = exporter.proofs \cup {p} /\ e.blocks = reply.blocks /\ e.source = exporter.source
        /\ e.head = exporter.head /\ e.base = exporter.base /\ e.acks = exporter.acks
        /\ e \in Exporters
    <3>1. e = [phase |-> exporter.phase, conn |-> exporter.conn, received |-> exporter.received + 1,
               full |-> (exporter.full \/ n = Full), proofs |-> exporter.proofs \cup {p}, blocks |-> reply.blocks,
               source |-> exporter.source, head |-> exporter.head, base |-> exporter.base,
               acks |-> exporter.acks]
      BY <1>1, <1>4, <2>1 DEF Counted, Exporters, p
    <3>2. e \in Exporters
      BY <1>1, <1>2, <2>1, <3>1 DEF Exporters, p
    <3>3. e.full = (exporter.full \/ n = Full)
      BY <3>1
    <3>4. e.full
      BY <2>1, <3>3
    <3> QED
      BY <3>1, <3>2, <3>4
  <2>3. FetchOK(log, Covered, store, e)
    BY <1>1, <1>2, <1>3, <1>4, <2>1, <2>2 DEF FetchOK, p
  <2>4. AlignedLog(log) => OrderOK(store, deleted, e)
    <3>1. ASSUME e.blocks # <<>>
          PROVE  Number(e.blocks[Len(e.blocks)]) = store[Full].proof \div Interval
      BY <1>2, <1>4, <2>1, <2>2, <3>1, BlockOnDisk DEF ReadOK, GlobalInv, StoreInv
    <3> QED
      BY <1>1, <2>2, <3>1 DEF OrderOK
  <2> QED
    BY <1>1, <2>2, <2>3, <2>4 DEF CountedOK
<1>5. ASSUME ~reply.full
      PROVE  CountedOK(e)
  <2>1. n # Full
    BY <1>2, <1>5
  <2>2. /\ e.phase = "step1" /\ e.conn = exporter.conn /\ e.received = exporter.received + 1
        /\ (e.full <=> exporter.full)
        /\ e.proofs = exporter.proofs \cup {p} /\ e.blocks = exporter.blocks /\ e.source = exporter.source
        /\ e.head = exporter.head /\ e.base = exporter.base /\ e.acks = exporter.acks
        /\ e \in Exporters
    <3>1. e = [phase |-> exporter.phase, conn |-> exporter.conn, received |-> exporter.received + 1,
               full |-> (exporter.full \/ n = Full), proofs |-> exporter.proofs \cup {p},
               blocks |-> exporter.blocks, source |-> exporter.source, head |-> exporter.head,
               base |-> exporter.base, acks |-> exporter.acks]
      BY <1>1, <1>5, <2>1 DEF Counted, Exporters, p
    <3> QED
      BY <1>1, <1>2, <2>1, <3>1 DEF Exporters, p
  <2>3. FetchOK(log, Covered, store, e)
    BY <1>1, <1>2, <2>2 DEF FetchOK, p
  <2>4. AlignedLog(log) => OrderOK(store, deleted, e)
    BY <1>1, <2>2 DEF OrderOK
  <2> QED
    BY <1>1, <2>2, <2>3, <2>4 DEF CountedOK
<1> QED
  BY <1>4, <1>5

LEMMA FetchStep1OK ==
    ASSUME GlobalInv, \A n \in Replica : StoreInv(n), ExporterInv,
           NEW waiting, WaitingOK(log, earliest, Covered, waiting), exporter.phase = "step1",
           NEW n \in Replica, NEW reply, ReplyOK(n, reply),
           FetchStep1(waiting, n, reply), UNCHANGED <<written, lost, kills>>
    PROVE  Received
<1>1. CASE Exit(waiting) /\ UNCHANGED <<fetched, deleted>>
  BY <1>1, FetchExits
<1>2. ASSUME reply.op = "proof", NEW e, e = Counted(n, reply),
             IF e.received > 2 * F /\ e.full
             THEN Verify1(waiting, e)
             ELSE exporter' = e /\ inbox' = waiting /\ UNCHANGED <<fetched, deleted>>
      PROVE  Received
  <2>1. CountedOK(e)
    BY <1>2, CountedDef
  <2>2. CASE e.full /\ Verify1(waiting, e)
    BY <2>1, <2>2, Verify1OK DEF CountedOK
  <2>3. CASE exporter' = e /\ inbox' = waiting /\ UNCHANGED <<fetched, deleted>>
    <3>1. Covered \subseteq Covered'
      BY <2>3, CoveredKept DEF Held
    <3>2. ExporterOK(log, Covered, store, fetched, deleted, exporter')
      BY <2>1, <2>3 DEF ExporterOK, CountedOK
    <3> QED
      BY <2>3, <3>1, <3>2, ReceivedMore
  <2> QED
    BY <1>2, <2>2, <2>3
<1> QED
  BY <1>1, <1>2 DEF FetchStep1, Counted, ProofIn

LEMMA ConcatOK ==
    ASSUME NEW l, NEW s, NEW t, BlocksOK(l, s), BlocksOK(l, t)
    PROVE  BlocksOK(l, s \o t)
<1>1. s \in Seq(H) /\ t \in Seq(H) /\ s \o t \in Seq(H)
  BY DEF BlocksOK
<1>2. Len(s) \in Nat /\ Len(t) \in Nat /\ Len(s \o t) = Len(s) + Len(t)
  BY <1>1
<1>3. ASSUME NEW i \in 1 .. Len(s \o t) PROVE InLedger(l, (s \o t)[i])
  <2>1. i \in 1 .. Len(s) + Len(t)
    BY <1>2
  <2>2. CASE i \in 1 .. Len(s)
    <3>1. (s \o t)[i] = s[i]
      BY <1>1, <2>1, <2>2
    <3> QED
      BY <2>2, <3>1 DEF BlocksOK
  <2>3. CASE i \notin 1 .. Len(s)
    <3>1. i - Len(s) \in 1 .. Len(t)
      BY <1>2, <2>1, <2>3
    <3>2. (s \o t)[i] = t[i - Len(s)]
      BY <1>1, <2>1, <2>3
    <3> QED
      BY <3>1, <3>2 DEF BlocksOK
  <2> QED
    BY <2>2, <2>3
<1> QED
  BY <1>1, <1>3 DEF BlocksOK

LEMMA FetchStep2OK ==
    ASSUME GlobalInv, \A n \in Replica : StoreInv(n), ExporterInv,
           NEW waiting, WaitingOK(log, earliest, Covered, waiting), exporter.phase = "step2",
           NEW n \in Replica, NEW reply, ReplyOK(n, reply),
           FetchStep2(waiting, n, reply), UNCHANGED <<written, lost, kills>>
    PROVE  Received
<1>1. CASE Exit(waiting) /\ UNCHANGED <<fetched, deleted>>
  BY <1>1, FetchExits
<1>2. CASE inbox' = waiting /\ UNCHANGED <<exporter, fetched, deleted>>
  <2>1. Covered \subseteq Covered'
    BY <1>2, CoveredKept DEF Held
  <2>2. ExporterOK(log, Covered, store, fetched, deleted, exporter')
    BY <1>2 DEF ExporterInv
  <2> QED
    BY <1>2, <2>1, <2>2, ReceivedMore
<1>3. ASSUME reply.op = "blocks", NEW e, e = [exporter EXCEPT !.blocks = @ \o reply.blocks],
             FetchComplete(waiting, e)
      PROVE  Received
  <2>1. /\ exporter \in Exporters /\ FetchOK(log, Covered, store, exporter) /\ PickedOK(log, Covered, exporter)
        /\ BlocksOK(log, exporter.blocks) /\ BlocksOK(log, reply.blocks)
        /\ AlignedLog(log) => OrderOK(store, deleted, exporter)
    BY <1>3 DEF ExporterInv, ExporterOK, FetchOK, ReplyOK
  <2> DEFINE blocks == exporter.blocks \o reply.blocks
  <2>2. BlocksOK(log, blocks)
    BY <2>1, ConcatOK
  <2>3. blocks = <<>> => exporter.blocks = <<>>
    BY <2>1 DEF BlocksOK
  <2>4. /\ e.blocks = blocks /\ e.proofs = exporter.proofs /\ e.full = exporter.full /\ e.head = exporter.head
        /\ e.base = exporter.base
        /\ e \in Exporters
    BY <1>3, <2>1, <2>2 DEF Exporters, BlocksOK
  <2> HIDE DEF blocks
  <2>5. FetchOK(log, Covered, store, e)
    BY <2>1, <2>2, <2>3, <2>4 DEF FetchOK
  <2>6. PickedOK(log, Covered, e)
    BY <2>1, <2>4 DEF PickedOK
  <2>7. ChosenOK(e)
    BY <2>1, <2>4 DEF ChosenOK, OrderOK
  <2> QED
    BY <1>3, <2>4, <2>5, <2>6, <2>7, FetchCompleteOK
<1> QED
  BY <1>1, <1>2, <1>3 DEF FetchStep2

LEMMA AwaitDeleteOK ==
    ASSUME GlobalInv, \A n \in Replica : StoreInv(n), ExporterInv,
           NEW waiting, WaitingOK(log, earliest, Covered, waiting), exporter.phase = "delete",
           AwaitDelete(waiting), UNCHANGED <<written, lost, kills>>
    PROVE  Received
<1>1. /\ exporter \in Exporters /\ exporter.acks \in Nat /\ exporter.acks <= F /\ F \in Nat
      /\ FetchOK(log, Covered, store, exporter) /\ Range(exporter.blocks) \subseteq fetched
      /\ AlignedLog(log) => OrderOK(store, deleted, exporter)
  BY Constants DEF ExporterInv, ExporterOK, Exporters
<1>2. exporter' = [exporter EXCEPT !.acks = @ + 1, !.phase = IF exporter.acks + 1 > F THEN "write" ELSE @]
  BY DEF AwaitDelete
<1>3. /\ exporter' \in Exporters /\ exporter'.acks = exporter.acks + 1
      /\ exporter'.phase = (IF exporter.acks + 1 > F THEN "write" ELSE "delete")
      /\ exporter'.blocks = exporter.blocks /\ exporter'.proofs = exporter.proofs
      /\ exporter'.full = exporter.full
  <2> DEFINE phase == IF exporter.acks + 1 > F THEN "write" ELSE "delete"
  <2>1. phase \in {"write", "delete"}
    OBVIOUS
  <2>2. exporter' = [phase |-> phase, conn |-> exporter.conn, received |-> exporter.received,
                     full |-> exporter.full, proofs |-> exporter.proofs, blocks |-> exporter.blocks,
                     source |-> exporter.source, head |-> exporter.head, base |-> exporter.base,
                     acks |-> exporter.acks + 1]
    BY <1>1, <1>2 DEF Exporters
  <2>3. exporter'.phase = phase
    BY <2>2
  <2>4. /\ exporter'.acks = exporter.acks + 1 /\ exporter'.blocks = exporter.blocks
        /\ exporter'.proofs = exporter.proofs /\ exporter'.full = exporter.full
    BY <2>2
  <2> HIDE DEF phase
  <2>5. exporter' \in Exporters
    BY <1>1, <2>1, <2>2 DEF Exporters
  <2> QED
    BY <2>3, <2>4, <2>5 DEF phase
<1>4. Covered \subseteq Covered'
  <2>1. Held' = Held
    BY <1>3 DEF Held
  <2> QED
    BY <2>1 DEF Covered, AwaitDelete
<1>5. FetchOK(log, Covered, store, exporter')
  BY <1>1, <1>3 DEF FetchOK
<1>6. AlignedLog(log) => OrderOK(store, deleted, exporter')
  BY <1>1, <1>3 DEF OrderOK
<1>7. exporter'.acks <= F + 1 /\ (exporter'.phase = "delete" => exporter'.acks <= F)
  BY <1>1, <1>3
<1>8. ExporterOK(log, Covered, store, fetched, deleted, exporter')
  BY <1>1, <1>3, <1>5, <1>6, <1>7 DEF ExporterOK
<1> QED
  BY <1>4, <1>8, ReceivedMore DEF AwaitDelete

LEMMA ReceiveOK ==
    ASSUME GlobalInv, \A n \in Replica : StoreInv(n), ExporterInv,
           NEW waiting, WaitingOK(log, earliest, Covered, waiting),
           NEW n \in Replica, NEW reply, ReplyOK(n, reply),
           Receive(waiting, n, reply), UNCHANGED <<written, lost, kills>>
    PROVE  Received
<1>1. CASE exporter.phase = "step1" /\ FetchStep1(waiting, n, reply)
  BY <1>1, FetchStep1OK
<1>2. CASE exporter.phase = "step2" /\ FetchStep2(waiting, n, reply)
  BY <1>2, FetchStep2OK
<1>3. CASE exporter.phase = "delete" /\ AwaitDelete(waiting)
  BY <1>3, AwaitDeleteOK
<1>4. CASE inbox' = waiting /\ UNCHANGED <<exporter, fetched, deleted>>
  <2>1. Covered \subseteq Covered'
    BY <1>4 DEF Covered, Held
  <2>2. ExporterOK(log, Covered, store, fetched, deleted, exporter')
    BY <1>4 DEF ExporterInv
  <2> QED
    BY <1>4, <2>1, <2>2, ReceivedMore
<1> QED
  BY <1>1, <1>2, <1>3, <1>4 DEF Receive

-----------------------------------------------------------------------------
(* Every step keeps the invariant                                           *)

LEMMA InboxOK ==
    ASSUME Inv
    PROVE  WaitingOK(log, earliest, Covered, inbox)
BY DEF Inv, GlobalInv, InboxInv, WaitingOK

\* What is left to show of a step.
LEMMA InvNext ==
    ASSUME Inv, UNCHANGED <<log, earliest>>,
           store' = [n \in Replica |-> store'[n]], pruneBase' = [n \in Replica |-> pruneBase'[n]],
           \A n \in Replica : StoreOK(log, Covered', store'[n], pruneBase'[n]),
           WaitingOK(log, earliest, Covered', inbox'),
           ExporterOK(log, Covered', store', fetched', deleted', exporter'),
           DeletedOK(log, fetched', deleted'), up' \subseteq up,
           written' \cup lost' \subseteq fetched',
           restarts' \in Nat, kills' \in Nat, restarts' + kills' <= MaxFaults
    PROVE  Inv'
<1>1. GlobalInv'
  BY DEF Inv, GlobalInv, WaitingOK
<1>2. ASSUME NEW n \in Replica PROVE StoreInv(n)' /\ InboxInv(n)'
  BY DEF StoreInv, InboxInv, WaitingOK
<1>3. ExporterInv'
  BY DEF ExporterInv
<1> QED
  BY <1>1, <1>2, <1>3 DEF Inv

\* A step of the exporter alone.
LEMMA ExporterNext ==
    ASSUME Inv, UNCHANGED <<log, earliest, store, pruneBase, up, fetched, deleted, restarts>>,
           Covered \subseteq Covered', WaitingOK(log, earliest, Covered, inbox'),
           ExporterOK(log, Covered, store, fetched, deleted, exporter'),
           written' \cup lost' \subseteq fetched, kills' \in Nat, restarts + kills' <= MaxFaults
    PROVE  Inv'
<1>1. \A n \in Replica : StoreOK(log, Covered', store'[n], pruneBase'[n])
  BY StoreGrows DEF Inv, StoreInv
<1>2. Later(store, store') /\ DeletedOK(log, fetched, deleted)
  BY DEF Inv, GlobalInv, StoreInv, StoreOK, Stores, Later
<1>3. ExporterOK(log, Covered', store', fetched', deleted', exporter')
  BY <1>2, ExporterGrows
<1>4. WaitingOK(log, earliest, Covered', inbox')
  BY WaitingGrows
<1>5. /\ store' = [n \in Replica |-> store'[n]] /\ pruneBase' = [n \in Replica |-> pruneBase'[n]]
      /\ restarts \in Nat
  BY DEF Inv, GlobalInv
<1> QED
  BY <1>1, <1>2, <1>3, <1>4, <1>5, InvNext

\* A run that ends.
LEMMA ExitNext ==
    ASSUME Inv, UNCHANGED <<log, earliest, store, pruneBase, up, fetched, deleted, restarts>>,
           Covered \subseteq Covered', Exit(inbox),
           written' \cup lost' \subseteq fetched, kills' \in Nat, restarts + kills' <= MaxFaults
    PROVE  Inv'
<1>1. exporter' = Idle /\ WaitingOK(log, earliest, Covered, inbox')
  BY InboxOK, ExitDef
<1>2. AlignedLog(log) => \A g \in deleted : Number(g) <= store[Full].proof \div Interval
  BY DEF Inv, ExporterInv, ExporterOK, OrderOK
<1>3. ExporterOK(log, Covered, store, fetched, deleted, exporter')
  BY <1>1, <1>2, IdleOK
<1> QED
  BY <1>1, <1>3, ExporterNext

LEMMA StartInv == Inv /\ Start => Inv'
<1> SUFFICES ASSUME Inv, Start PROVE Inv'
  OBVIOUS
<1>1. PICK conn \in SUBSET up :
        /\ exporter' = [Idle EXCEPT !.phase = "step1", !.conn = conn]
        /\ inbox' = Sent(inbox, [n \in conn |-> Read2(n)])
  BY DEF Start
<1>2. /\ exporter.phase = "idle"
      /\ UNCHANGED <<log, store, pruneBase, up, earliest, deleted, fetched, written, lost, restarts, kills>>
  BY DEF Start
<1>3. /\ exporter' \in Exporters /\ exporter'.phase = "step1" /\ exporter'.acks = 0
      /\ exporter'.proofs = {} /\ exporter'.blocks = <<>> /\ exporter'.full = FALSE
  <2>1. Genesis \in H /\ <<>> \in Seq(H) /\ Full \in Replica /\ conn \subseteq Replica
    BY Constants DEF Genesis, H, HeadersOf, Inv, GlobalInv
  <2>2. exporter' = [phase |-> "step1", conn |-> conn, received |-> 0, full |-> FALSE, proofs |-> {},
                     blocks |-> <<>>, source |-> Full, head |-> Genesis, base |-> Genesis, acks |-> 0]
    BY <1>1 DEF Idle
  <2> QED
    BY <2>1, <2>2 DEF Exporters
<1>4. Covered \subseteq Covered'
  BY <1>2, CoveredKept DEF Held
<1>5. ExporterOK(log, Covered, store, fetched, deleted, exporter')
  <2>1. FetchOK(log, Covered, store, exporter')
    BY <1>3 DEF FetchOK, BlocksOK
  <2>2. AlignedLog(log) => OrderOK(store, deleted, exporter')
    BY <1>3 DEF Inv, ExporterInv, ExporterOK, OrderOK
  <2> QED
    BY <1>3, <2>1, <2>2, Constants DEF ExporterOK
<1>6. WaitingOK(log, earliest, Covered, inbox')
  <2> DEFINE command == [n \in conn |-> Read2(n)]
  <2>1. \A n \in DOMAIN command : command[n] \in CommandsTo(n, log, earliest, Covered)
    BY DEF Read2, CommandsTo
  <2> HIDE DEF command
  <2>2. WaitingOK(log, earliest, Covered, Sent(inbox, command))
    BY <2>1, InboxOK, SentOK
  <2> QED
    BY <1>1, <2>2 DEF command
<1>7. written \cup lost \subseteq fetched /\ kills \in Nat /\ restarts + kills <= MaxFaults
  BY DEF Inv, GlobalInv
<1> QED
  BY <1>2, <1>4, <1>5, <1>6, <1>7, ExporterNext

LEMMA HeldFetched == Inv => Held \subseteq fetched
BY DEF Inv, ExporterInv, ExporterOK, Held

LEMMA WriteInv == Inv /\ Write => Inv'
<1> SUFFICES ASSUME Inv, Write PROVE Inv'
  OBVIOUS
<1>1. /\ exporter.phase = "write" /\ Exit(inbox)
      /\ written' = written \/ written' = written \cup Held
      /\ lost' = lost \/ lost' = lost \cup Held
      /\ "output" \in Sinks => written' = written \cup Held \/ lost' = lost \cup Held
      /\ UNCHANGED <<log, store, pruneBase, up, earliest, deleted, fetched, restarts, kills>>
  BY DEF Write, Stored
<1>2. written' \cup lost' \subseteq fetched /\ kills \in Nat /\ restarts + kills <= MaxFaults
  BY <1>1, HeldFetched DEF Inv, GlobalInv
<1>3. Covered \subseteq Covered'
  BY <1>1 DEF Covered
<1> QED
  BY <1>1, <1>2, <1>3, ExitNext

LEMMA KillInv == Inv /\ Kill => Inv'
<1> SUFFICES ASSUME Inv, Kill PROVE Inv'
  OBVIOUS
<1>1. /\ kills' = kills + 1 /\ lost' = lost \cup Held /\ Exit(inbox) /\ restarts + kills < MaxFaults
      /\ UNCHANGED <<log, store, pruneBase, up, earliest, deleted, fetched, written, restarts>>
  BY DEF Kill
<1>2. written' \cup lost' \subseteq fetched /\ kills \in Nat /\ restarts \in Nat
  BY <1>1, HeldFetched DEF Inv, GlobalInv
<1>3. kills' \in Nat /\ restarts + kills' <= MaxFaults
  BY <1>1, <1>2, Constants
<1>4. Covered \subseteq Covered'
  BY <1>1 DEF Covered
<1> QED
  BY <1>1, <1>2, <1>3, <1>4, ExitNext

\* A step of a replica alone.
LEMMA ReplicaNext ==
    ASSUME Inv, NEW n \in Replica,
           UNCHANGED <<log, earliest, exporter, fetched, deleted, written, lost, kills>>,
           NEW s, NEW b, StoreOK(log, Covered, s, b), store[n].proof <= s.proof,
           store' = [store EXCEPT ![n] = s], pruneBase' = [pruneBase EXCEPT ![n] = b],
           WaitingOK(log, earliest, Covered, inbox'), up' \subseteq up,
           restarts' \in Nat, restarts' + kills <= MaxFaults
    PROVE  Inv'
<1>1. Covered' = Covered
  BY DEF Covered, Held
<1>2. ASSUME NEW m \in Replica
      PROVE  /\ store'[m] = (IF m = n THEN s ELSE store[m])
             /\ pruneBase'[m] = (IF m = n THEN b ELSE pruneBase[m])
  BY DEF Inv, GlobalInv
<1>3. \A m \in Replica : StoreOK(log, Covered, store'[m], pruneBase'[m])
  BY <1>2 DEF Inv, StoreInv
<1>4. Later(store, store')
  <2>1. ASSUME NEW m \in Replica
        PROVE  store[m].proof \in Nat /\ store'[m].proof \in Nat /\ store[m].proof <= store'[m].proof
    <3>1. store[m].proof \in Nat /\ s.proof \in Nat
      BY DEF Inv, StoreInv, StoreOK, Stores
    <3> QED
      BY <1>2, <3>1
  <2> QED
    BY <2>1 DEF Later
<1>5. DeletedOK(log, fetched, deleted) /\ written \cup lost \subseteq fetched /\ kills \in Nat
  BY DEF Inv, GlobalInv
<1>6. ExporterOK(log, Covered', store', fetched', deleted', exporter')
  BY <1>1, <1>4, <1>5, ExporterGrows DEF Inv, ExporterInv
<1>7. store' = [m \in Replica |-> store'[m]] /\ pruneBase' = [m \in Replica |-> pruneBase'[m]]
  BY DEF Inv, GlobalInv
<1> QED
  BY <1>1, <1>3, <1>5, <1>6, <1>7, InvNext

LEMMA AdvancedOK ==
    ASSUME NEW l \in Logs, NEW C, NEW s, NEW b, StoreOK(l, C, s, b),
           NEW head, InLedger(l, head), NEW c \in 0 .. Len(l), c % Interval = 0
    PROVE  StoreOK(l, C, Advanced(s, head, c), b) /\ Advanced(s, head, c).proof = c
<1> DEFINE new == Number(s.head) + 1 .. Number(head)
<1> DEFINE f == [i \in DOMAIN s.blocks \cup new |-> IF i \in new THEN Upto(head, i) ELSE s.blocks[i]]
<1> DEFINE t == Advanced(s, head, c)
<1>1. /\ s \in Stores(H) /\ InLedger(l, s.head) /\ Deletable(l, C, s.base)
      /\ \A i \in DOMAIN s.blocks : i \in 0 .. Number(Whole(l)) /\ s.blocks[i] = Upto(Whole(l), i)
      /\ b = {} \/ b = {s.base}
  BY DEF StoreOK
<1>2. /\ s = [blocks |-> s.blocks, base |-> s.base, head |-> s.head, proof |-> s.proof]
      /\ s.blocks \in BlockMaps(H) /\ s.base \in H /\ s.head \in H /\ head \in H
      /\ Number(s.head) \in Nat /\ Number(head) \in Nat /\ Number(head) <= Number(Whole(l))
      /\ Number(Whole(l)) \in Nat /\ c \in Nat /\ Len(l) \in Nat
  BY <1>1, Constants, ChainDef, HeaderDef DEF Stores, InLedger, Whole
<1>3. s.blocks \in [DOMAIN s.blocks -> H] /\ DOMAIN s.blocks \subseteq Nat
  BY <1>2, BlockMapsDef
<1>4. ASSUME NEW i \in DOMAIN s.blocks \cup new
      PROVE  i \in 0 .. Number(Whole(l)) /\ f[i] = Upto(Whole(l), i) /\ f[i] \in H
  <2>1. CASE i \in new
    <3>1. i \in 0 .. Number(Whole(l)) /\ i <= Number(head)
      BY <1>2, <2>1
    <3>2. InLedger(l, Upto(Whole(l), i)) /\ Number(Upto(Whole(l), i)) = i
      BY <3>1, LedgerBlock
    <3>3. Upto(head, i) = Upto(Whole(l), i)
      BY <3>1, <3>2, LedgerUpto
    <3> QED
      BY <2>1, <3>1, <3>2, <3>3 DEF InLedger
  <2>2. CASE i \notin new
    <3>1. f[i] = s.blocks[i] /\ i \in DOMAIN s.blocks
      BY <2>2
    <3> HIDE DEF f
    <3> QED
      BY <1>1, <1>3, <3>1
  <2> QED
    BY <2>1, <2>2
<1>5. f \in BlockMaps(H) /\ DOMAIN f = DOMAIN s.blocks \cup new
  <2>1. f \in [DOMAIN f -> H] /\ DOMAIN f = DOMAIN s.blocks \cup new
    BY <1>4
  <2>2. DOMAIN f \subseteq Nat
    BY <1>2, <1>3, <2>1
  <2> HIDE DEF f
  <2> QED
    BY <2>1, <2>2, BlockMapsDef
<1>6. t = [blocks |-> f, base |-> s.base, head |-> head, proof |-> c]
  <2>1. StoreProof(s, c) = [blocks |-> s.blocks, base |-> s.base, head |-> s.head, proof |-> c]
    BY <1>2 DEF StoreProof
  <2>2. t = [StoreProof(s, c) EXCEPT !.blocks = f, !.head = head]
    BY DEF Advanced
  <2> HIDE DEF f, t
  <2>3. t = [[blocks |-> s.blocks, base |-> s.base, head |-> s.head, proof |-> c]
               EXCEPT !.blocks = f, !.head = head]
    BY <2>1, <2>2, Zenon
  <2> QED
    BY <2>3
<1> HIDE DEF f, t
<1>7. t.blocks = f /\ t.base = s.base /\ t.head = head /\ t.proof = c
  BY <1>6
<1>8. t \in Stores(H)
  BY <1>2, <1>5, <1>6 DEF Stores
<1>9. StoreOK(l, C, t, b)
  BY <1>1, <1>4, <1>5, <1>7, <1>8 DEF StoreOK
<1> QED
  BY <1>7, <1>9 DEF t

LEMMA AdvanceInv ==
    ASSUME Inv, NEW n \in Replica, Advance(n)
    PROVE  Inv'
<1> DEFINE c == store[n].proof + Interval
<1> DEFINE head == Chain(log, c)
<1>1. /\ c <= Len(log)
      /\ store' = [store EXCEPT ![n] = Advanced(store[n], head, c)]
      /\ UNCHANGED <<log, pruneBase, up, inbox, earliest, exporter, deleted, fetched, written, lost, restarts, kills>>
  BY DEF Advance, Chain, Transactions
<1>2. /\ StoreOK(log, Covered, store[n], pruneBase[n]) /\ log \in Logs
      /\ store[n].proof \in Nat /\ store[n].proof % Interval = 0 /\ Interval \in Nat \ {0} /\ Len(log) \in Nat
  BY Constants DEF Inv, StoreInv, StoreOK, Stores, GlobalInv
<1>3. c \in 0 .. Len(log) /\ c % Interval = 0 /\ store[n].proof <= c
  <2>1. c \in Nat /\ store[n].proof <= c
    BY <1>2
  <2>2. (store[n].proof + Interval) % Interval = 0
    BY <1>2, ModNext
  <2> QED
    BY <1>1, <1>2, <2>1, <2>2
<1>4. InLedger(log, head)
  BY <1>2, <1>3, LedgerChain
<1> DEFINE s == Advanced(store[n], head, c)
<1> HIDE DEF c, head
<1>5. StoreOK(log, Covered, s, pruneBase[n]) /\ s.proof = c
  BY <1>2, <1>3, <1>4, AdvancedOK
<1> HIDE DEF s
<1>6. pruneBase' = [pruneBase EXCEPT ![n] = pruneBase[n]]
  BY <1>1 DEF Inv, GlobalInv
<1>7. WaitingOK(log, earliest, Covered, inbox') /\ restarts' \in Nat /\ restarts' + kills <= MaxFaults
  BY <1>1, InboxOK DEF Inv, GlobalInv
<1> QED
  BY <1>1, <1>3, <1>5, <1>6, <1>7, ReplicaNext DEF s

LEMMA RestartInv ==
    ASSUME Inv, NEW n \in Replica, Restart(n)
    PROVE  Inv'
<1>1. /\ restarts' = restarts + 1 /\ restarts + kills < MaxFaults /\ inbox' = [inbox EXCEPT ![n] = <<>>]
      /\ UNCHANGED <<log, earliest, exporter, deleted, fetched, written, lost, kills>>
      /\ up' = up \/ up' = up \ {n}
  BY DEF Restart
<1>2. /\ StoreOK(log, Covered, store[n], pruneBase[n]) /\ log \in Logs /\ store[n].proof \in Nat
      /\ restarts \in Nat /\ kills \in Nat
  BY DEF Inv, StoreInv, StoreOK, Stores, GlobalInv
<1>3. restarts' \in Nat /\ restarts' + kills <= MaxFaults
  BY <1>1, <1>2, Constants
<1>4. WaitingOK(log, earliest, Covered, inbox')
  <2>1. WaitingOK(log, earliest, Covered, inbox)
    BY InboxOK
  <2>2. ASSUME NEW m \in Replica PROVE inbox'[m] \in Seq(CommandsTo(m, log, earliest, Covered))
    BY <1>1, <2>1 DEF WaitingOK
  <2> QED
    BY <1>1, <2>1, <2>2 DEF WaitingOK
<1>5. ASSUME NEW h \in FoundHead(store[n]), store' = [store EXCEPT ![n].head = h],
             pruneBase' = [pruneBase EXCEPT ![n] = {}]
      PROVE  Inv'
  <2> DEFINE s == [store[n] EXCEPT !.head = h]
  <2>1. InLedger(log, h) /\ h \in H
    BY <1>2, BlockOnDisk DEF FoundHead
  <2>2. /\ s = [blocks |-> store[n].blocks, base |-> store[n].base, head |-> h, proof |-> store[n].proof]
    BY <1>2 DEF StoreOK, Stores
  <2> HIDE DEF s
  <2>3. s.blocks = store[n].blocks /\ s.base = store[n].base /\ s.head = h /\ s.proof = store[n].proof
    BY <2>2
  <2>4. s \in Stores(H)
    BY <1>2, <2>1, <2>2 DEF StoreOK, Stores
  <2>5. StoreOK(log, Covered, s, {}) /\ store[n].proof <= s.proof
    BY <1>2, <2>1, <2>3, <2>4 DEF StoreOK
  <2>6. store' = [store EXCEPT ![n] = s]
    BY <1>5 DEF s
  <2> QED
    BY <1>1, <1>3, <1>4, <1>5, <2>5, <2>6, ReplicaNext
<1>6. CASE UNCHANGED <<store, pruneBase>>
  <2>1. store' = [store EXCEPT ![n] = store[n]] /\ pruneBase' = [pruneBase EXCEPT ![n] = pruneBase[n]]
    BY <1>6 DEF Inv, GlobalInv
  <2>2. store[n].proof <= store[n].proof
    BY <1>2
  <2> QED
    BY <1>1, <1>2, <1>3, <1>4, <2>1, <2>2, ReplicaNext
<1> QED
  BY <1>5, <1>6 DEF Restart

\* The store after a Delete whose header may go.
LEMMA DeleteOK ==
    ASSUME NEW l, NEW C, NEW s, NEW b, StoreOK(l, C, s, b), NEW h \in H, Deletable(l, C, h)
    PROVE  StoreOK(l, C, PruneChain(s, h), {h}) /\ PruneChain(s, h).proof = s.proof
<1>1. s \in Stores(HeadersOf(Tx)) /\ h \in HeadersOf(Tx)
  BY DEF StoreOK, H
<1> DEFINE t == PruneChain(s, h)
<1>2. /\ t \in Stores(H) /\ t.head = s.head /\ t.base = h /\ t.proof = s.proof
      /\ DOMAIN t.blocks = DOMAIN s.blocks \ (Number(s.base) .. Number(h))
      /\ \A i \in DOMAIN t.blocks : t.blocks[i] = s.blocks[i]
  BY <1>1, PruneChainDef DEF H
<1> HIDE DEF t
<1>3. StoreOK(l, C, t, {h})
  BY <1>2 DEF StoreOK
<1> QED
  BY <1>2, <1>3 DEF t

\* A command of replica n is taken out of its inbox.
LEMMA TakenOK ==
    ASSUME Inv, NEW n \in Replica, inbox[n] # <<>>
    PROVE  /\ Head(inbox[n]) \in CommandsTo(n, log, earliest, Covered)
           /\ WaitingOK(log, earliest, Covered, [inbox EXCEPT ![n] = Tail(@)])
<1> DEFINE S == CommandsTo(n, log, earliest, Covered)
<1> DEFINE waiting == [inbox EXCEPT ![n] = Tail(@)]
<1>1. inbox[n] \in Seq(S) /\ WaitingOK(log, earliest, Covered, inbox)
  BY InboxOK DEF Inv, InboxInv
<1> HIDE DEF S
<1>2. Head(inbox[n]) \in S /\ Tail(inbox[n]) \in Seq(S)
  BY <1>1
<1>3. ASSUME NEW m \in Replica PROVE waiting[m] \in Seq(CommandsTo(m, log, earliest, Covered))
  <2>1. CASE m = n
    <3>1. waiting[m] = Tail(inbox[n])
      BY <1>1, <2>1 DEF WaitingOK
    <3> QED
      BY <1>2, <2>1, <3>1 DEF S
  <2>2. CASE m # n
    <3>1. waiting[m] = inbox[m]
      BY <1>1, <2>2 DEF WaitingOK
    <3> QED
      BY <1>1, <3>1 DEF WaitingOK
  <2> QED
    BY <2>1, <2>2
<1>4. waiting = [m \in Replica |-> waiting[m]]
  BY <1>1 DEF WaitingOK
<1> HIDE DEF waiting
<1>5. WaitingOK(log, earliest, Covered, waiting)
  BY <1>3, <1>4 DEF WaitingOK
<1> QED
  BY <1>2, <1>5 DEF S, waiting

LEMMA ExecuteInv ==
    ASSUME Inv, NEW n \in Replica, Execute(n)
    PROVE  Inv' /\ \A h \in deleted' \ deleted : SignOK(h)
<1> DEFINE command == Head(inbox[n])
<1> DEFINE waiting == [inbox EXCEPT ![n] = Tail(@)]
<1>1. /\ UNCHANGED <<log, earliest, written, lost, restarts, kills>>
      /\ \/ /\ CanAnswer(n, command) /\ Receive(waiting, n, ReplyTo(n, command)) /\ UNCHANGED up
            /\ IF command.op = "delete" THEN DeleteBlocks(n, command.header) ELSE UNCHANGED <<store, pruneBase>>
         \/ up' = up \ {n} /\ inbox' = waiting /\ UNCHANGED <<store, pruneBase, exporter, fetched, deleted>>
  BY DEF Execute
<1>2. command \in CommandsTo(n, log, earliest, Covered) /\ WaitingOK(log, earliest, Covered, waiting)
  BY TakenOK DEF Execute
<1> HIDE DEF command, waiting
<1>3. /\ GlobalInv /\ ExporterInv /\ \A m \in Replica : StoreInv(m)
      /\ restarts \in Nat /\ kills \in Nat /\ restarts + kills <= MaxFaults
  BY DEF Inv, GlobalInv
<1>4. CASE up' = up \ {n} /\ inbox' = waiting /\ UNCHANGED <<store, pruneBase, exporter, fetched, deleted>>
  <2>1. store' = [store EXCEPT ![n] = store[n]] /\ pruneBase' = [pruneBase EXCEPT ![n] = pruneBase[n]]
    BY <1>4 DEF Inv, GlobalInv
  <2>2. StoreOK(log, Covered, store[n], pruneBase[n]) /\ store[n].proof <= store[n].proof
    BY <1>3 DEF StoreInv, StoreOK, Stores
  <2>3. Inv'
    BY <1>1, <1>2, <1>3, <1>4, <2>1, <2>2, ReplicaNext
  <2> QED
    BY <1>4, <2>3
<1>5. CASE /\ CanAnswer(n, command) /\ Receive(waiting, n, ReplyTo(n, command)) /\ UNCHANGED up
           /\ IF command.op = "delete" THEN DeleteBlocks(n, command.header) ELSE UNCHANGED <<store, pruneBase>>
  <2>1. ReplyOK(n, ReplyTo(n, command))
    BY <1>2, <1>3, <1>5, ReplyToOK
  <2>2. Received
    BY <1>1, <1>2, <1>3, <1>5, <2>1, ReceiveOK
  <2>3. /\ Covered \subseteq Covered' /\ fetched \subseteq fetched'
        /\ ExporterOK(log, Covered', store, fetched', deleted', exporter')
        /\ DeletedOK(log, fetched', deleted') /\ WaitingOK(log, earliest, Covered', inbox')
        /\ \A h \in deleted' \ deleted : SignOK(h)
    BY <2>2 DEF Received
  <2>4. /\ store' = [m \in Replica |-> store'[m]] /\ pruneBase' = [m \in Replica |-> pruneBase'[m]]
        /\ \A m \in Replica : /\ StoreOK(log, Covered', store'[m], pruneBase'[m])
                              /\ store'[m].proof = store[m].proof
    <3>1. \A m \in Replica : StoreOK(log, Covered', store[m], pruneBase[m])
      BY <1>3, <2>3, StoreGrows DEF StoreInv
    <3>2. CASE command.op # "delete"
      <4>1. UNCHANGED <<store, pruneBase>>
        BY <1>5, <3>2
      <4> QED
        BY <3>1, <4>1 DEF Inv, GlobalInv
    <3>3. CASE command.op = "delete"
      <4> DEFINE h == command.header
      <4>1. h \in H /\ Deletable(log, Covered, h)
        BY <1>2, <3>3 DEF CommandsTo
      <4>2. store' = [store EXCEPT ![n] = PruneChain(@, h)] /\ pruneBase' = [pruneBase EXCEPT ![n] = {h}]
        BY <1>5, <3>3 DEF DeleteBlocks
      <4> HIDE DEF h
      <4>3. StoreOK(log, Covered', PruneChain(store[n], h), {h}) /\ PruneChain(store[n], h).proof = store[n].proof
        BY <2>3, <3>1, <4>1, DeletableGrows, DeleteOK
      <4> QED
        BY <3>1, <4>2, <4>3 DEF Inv, GlobalInv
    <3> QED
      BY <3>2, <3>3
  <2>5. Later(store, store')
    BY <1>3, <2>4 DEF Later, StoreInv, StoreOK, Stores
  <2>6. ExporterOK(log, Covered', store', fetched', deleted', exporter')
    BY <2>3, <2>5, ExporterGrows
  <2>7. written' \cup lost' \subseteq fetched' /\ up' \subseteq up
    BY <1>1, <1>3, <1>5, <2>3 DEF GlobalInv
  <2>8. Inv'
    BY <1>1, <1>3, <2>3, <2>4, <2>6, <2>7, InvNext
  <2> QED
    BY <2>3, <2>8
<1> QED
  BY <1>1, <1>4, <1>5

LEMMA NextInv == Inv /\ [Next]_vars => Inv' /\ \A h \in deleted' \ deleted : SignOK(h)
<1> SUFFICES ASSUME Inv, [Next]_vars PROVE Inv' /\ \A h \in deleted' \ deleted : SignOK(h)
  OBVIOUS
<1>1. CASE Start
  BY <1>1, StartInv DEF Start
<1>2. CASE Write
  BY <1>2, WriteInv DEF Write
<1>3. CASE Kill
  BY <1>3, KillInv DEF Kill
<1>4. ASSUME NEW n \in Replica, Advance(n) PROVE Inv' /\ deleted' = deleted
  BY <1>4, AdvanceInv DEF Advance
<1>5. ASSUME NEW n \in Replica, Execute(n) PROVE Inv' /\ \A h \in deleted' \ deleted : SignOK(h)
  BY <1>5, ExecuteInv
<1>6. ASSUME NEW n \in Replica, Restart(n) PROVE Inv' /\ deleted' = deleted
  BY <1>6, RestartInv DEF Restart
<1>7. CASE UNCHANGED vars
  BY <1>7 DEF vars, Inv, GlobalInv, StoreInv, InboxInv, ExporterInv, Covered, Held
<1> QED
  BY <1>1, <1>2, <1>3, <1>4, <1>5, <1>6, <1>7 DEF Next

-----------------------------------------------------------------------------
(* Theorems                                                                 *)

\* The invariant holds in every reachable state, and each Delete signed in a
\* step is one that may be signed.
THEOREM SpecInv == Spec => []Inv /\ [][\A h \in deleted' \ deleted : SignOK(h)]_vars
<1>1. Init => Inv
  BY InitInv
<1>2. Inv /\ [Next]_vars => Inv'
  BY NextInv
<1>3. Inv /\ [Next]_vars => [\A h \in deleted' \ deleted : SignOK(h)]_vars
  BY NextInv
<1> QED
  BY <1>1, <1>2, <1>3, PTL DEF Spec

LEMMA InvType == Inv => TypeOK
<1> SUFFICES ASSUME Inv PROVE TypeOK
  OBVIOUS
<1>1. /\ up \subseteq Replica /\ restarts + kills \in 0 .. MaxFaults
      /\ written \cup lost \subseteq fetched /\ deleted \subseteq fetched
  BY Constants DEF Inv, GlobalInv, DeletedOK
<1>2. Cardinality(deleted) <= 1
  <2>1. CASE deleted = {}
    BY <2>1, FS_EmptySet
  <2>2. ASSUME NEW h, deleted = {h} PROVE Cardinality(deleted) <= 1
    <3>1. Cardinality({h}) = 1
      BY FS_Singleton, Zenon
    <3> QED
      BY <2>2, <3>1
  <2> QED
    BY <2>1, <2>2 DEF Inv, GlobalInv, DeletedOK
<1>3. H = Headers
  BY DEF H, HeadersOf, Headers
<1>4. /\ exporter.phase \in {"idle", "step1", "step2", "delete", "write"}
      /\ exporter.conn \subseteq Replica /\ exporter.acks \in 0 .. F + 1
      /\ exporter.blocks \in Seq(H) /\ exporter.source \in Replica
  <2>1. exporter \in Exporters /\ exporter.acks <= F + 1
    BY DEF Inv, ExporterInv, ExporterOK
  <2> QED
    BY <2>1, Constants DEF Exporters
<1>5. ASSUME NEW n \in Replica
      PROVE  /\ store[n].head \in H /\ store[n].base \in H
             /\ store[n].proof \in 0 .. Len(log)
             /\ \A i \in DOMAIN store[n].blocks : Number(store[n].blocks[i]) = i
             /\ pruneBase[n] \subseteq {store[n].base}
  <2>1. StoreOK(log, Covered, store[n], pruneBase[n]) /\ log \in Logs
    BY DEF Inv, StoreInv, GlobalInv
  <2>2. ASSUME NEW i \in DOMAIN store[n].blocks PROVE Number(store[n].blocks[i]) = i
    BY <2>1, BlockOnDisk DEF Reads
  <2> QED
    BY <2>1, <2>2 DEF StoreOK, Stores
<1> QED
  BY <1>1, <1>2, <1>3, <1>4, <1>5 DEF TypeOK

\* TypeOK, for every value of the constants.
THEOREM TypeCorrect == Spec => []TypeOK
<1>1. Inv => TypeOK
  BY InvType
<1> QED
  BY <1>1, SpecInv, PTL

\* What a replica has pruned is covered.
LEMMA PrunedCovered == Inv => \A n \in Replica : Pruned(n) \subseteq Covered
BY DEF Inv, StoreInv, StoreOK, Deletable, Pruned, Commits

\* DeletedWasFetched: no replica prunes a block that no run has held.
THEOREM PrunedWasFetched == Spec => []DeletedWasFetched
<1>1. Inv => DeletedWasFetched
  BY PrunedCovered DEF DeletedWasFetched, Covered
<1> QED
  BY <1>1, SpecInv, PTL

\* DeletedWasExported: if blocks go to a file, what is pruned is written, or will
\* be, or was lost by a run that was killed or panicked before it had written.
THEOREM PrunedWasExported == "output" \in Sinks => (Spec => []DeletedWasExported)
<1> SUFFICES ASSUME "output" \in Sinks PROVE Spec => []DeletedWasExported
  OBVIOUS
<1>1. Inv => DeletedWasExported
  BY PrunedCovered DEF DeletedWasExported, Covered, Held
<1> QED
  BY <1>1, SpecInv, PTL

\* SignsAsAssumed: a Delete is of a block that is the whole state of a stable
\* checkpoint, and none is older than the one before if checkpoints are aligned.
THEOREM SignsProvenBlocks == Spec => SignsAsAssumed
<1>1. [\A h \in deleted' \ deleted : SignOK(h)]_vars =>
         [\A h \in deleted' \ deleted :
             /\ Aligned => \A g \in deleted : Number(h) >= Number(g) /\ Upto(h, Number(g)) = g
             /\ \E n \in Replica : \E c \in 1 .. store[n].proof :
                   c % Interval = 0 /\ c \div Interval = Number(h) /\ StateIs(c, h)]_vars
  BY AlignedDef, StateIsDef DEF SignOK
<1> QED
  BY <1>1, SpecInv, PTL DEF SignsAsAssumed
=============================================================================

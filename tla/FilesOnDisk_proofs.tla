-------------------------- MODULE FilesOnDisk_proofs --------------------------
(***************************************************************************)
(* Proofs about the directory of Files and its twin InMemory, for chains   *)
(* of any length and any number of kills: what is written and removed, one *)
(* system call at a time, never leaves a head that cannot be found again   *)
(* but where the model says so, and the two storages agree.                *)
(***************************************************************************)
EXTENDS StorageTwins, SequenceTheorems, TLAPS

Numbers == 0 .. MaxBlock

Calls == [op : {"remove", "truncate", "fill"}, file : {"block", "head", "base"}, n : Numbers]

BlockFiles == UNION {[D -> Numbers \cup {Torn}] : D \in SUBSET Numbers}

Directories == [block : BlockFiles, head : Numbers \cup {Torn, Absent}, base : Numbers \cup {Torn, Absent}]

LEMMA Constants ==
    /\ MaxBlock \in Nat /\ MaxCrashes \in Nat
    /\ Torn \notin Numbers /\ Absent \notin Numbers /\ Torn # Absent
BY FilesAssumption DEF Numbers

-----------------------------------------------------------------------------
(* The calls of the operations                                              *)

LEMMA CallType ==
    ASSUME NEW n \in Numbers
    PROVE  /\ \A op \in {"remove", "truncate", "fill"}, file \in {"block", "head", "base"} :
                 Call(op, file, n) \in Calls
           /\ \A op, file : /\ Call(op, file, n).op = op /\ Call(op, file, n).file = file
                            /\ Call(op, file, n).n = n
BY DEF Call, Calls

LEMMA EmptyDef ==
    ASSUME NEW S, NEW s \in Seq(S)
    PROVE  Len(s) \in Nat /\ (s = <<>> <=> Len(s) = 0)
BY EmptySeq

\* What the concatenation of two sequences is.
IsConcat(S, s, t, c) ==
    /\ c \in Seq(S) /\ Len(c) = Len(s) + Len(t)
    /\ \A i \in 1 .. Len(s) : c[i] = s[i]
    /\ \A i \in 1 .. Len(t) : c[Len(s) + i] = t[i]

LEMMA ConcatDef ==
    ASSUME NEW S, NEW s \in Seq(S), NEW t \in Seq(S)
    PROVE  IsConcat(S, s, t, s \o t)
<1> DEFINE c == s \o t
<1>1. /\ c \in Seq(S) /\ Len(c) = Len(s) + Len(t)
      /\ \A i \in 1 .. Len(s) + Len(t) : c[i] = IF i <= Len(s) THEN s[i] ELSE t[i - Len(s)]
  BY ConcatProperties
<1>2. Len(s) \in Nat /\ Len(t) \in Nat
  OBVIOUS
<1> HIDE DEF c
<1>3. \A i \in 1 .. Len(s) : c[i] = s[i]
  BY <1>1, <1>2
<1>4. ASSUME NEW i \in 1 .. Len(t) PROVE c[Len(s) + i] = t[i]
  <2>1. Len(s) + i \in 1 .. Len(s) + Len(t) /\ ~ (Len(s) + i <= Len(s)) /\ Len(s) + i - Len(s) = i
    BY <1>2
  <2> QED
    BY <1>1, <2>1
<1> QED
  BY <1>1, <1>3, <1>4 DEF c, IsConcat

LEMMA WriteDef ==
    ASSUME NEW file \in {"block", "head", "base"}, NEW n \in Numbers
    PROVE  /\ Write(file, n) \in Seq(Calls) /\ Len(Write(file, n)) = 2
           /\ Write(file, n)[1] = Call("truncate", file, n) /\ Write(file, n)[2] = Call("fill", file, n)
<1>1. Call("truncate", file, n) \in Calls /\ Call("fill", file, n) \in Calls
  BY CallType
<1> QED
  BY <1>1 DEF Write

LEMMA StoreCallsDef ==
    ASSUME NEW k \in Numbers
    PROVE  /\ StoreCalls(k) \in Seq(Calls) /\ Len(StoreCalls(k)) = 4
           /\ StoreCalls(k)[1] = Call("truncate", "block", k) /\ StoreCalls(k)[2] = Call("fill", "block", k)
           /\ StoreCalls(k)[3] = Call("truncate", "head", k) /\ StoreCalls(k)[4] = Call("fill", "head", k)
<1> DEFINE s == Write("block", k)
<1> DEFINE t == Write("head", k)
<1>1. /\ s \in Seq(Calls) /\ Len(s) = 2 /\ s[1] = Call("truncate", "block", k) /\ s[2] = Call("fill", "block", k)
      /\ t \in Seq(Calls) /\ Len(t) = 2 /\ t[1] = Call("truncate", "head", k) /\ t[2] = Call("fill", "head", k)
  BY WriteDef
<1> HIDE DEF s, t
<1>2. IsConcat(Calls, s, t, s \o t)
  BY <1>1, ConcatDef
<1>3. /\ (s \o t)[1] = s[1] /\ (s \o t)[2] = s[2] /\ (s \o t)[2 + 1] = t[1] /\ (s \o t)[2 + 2] = t[2]
      /\ Len(s \o t) = 4 /\ s \o t \in Seq(Calls)
  BY <1>1, <1>2 DEF IsConcat
<1> QED
  BY <1>1, <1>2, <1>3 DEF StoreCalls, s, t

LEMMA BootstrapCallsDef ==
    LET calls == Write("base", 0) \o StoreCalls(0)
    IN  /\ calls \in Seq(Calls) /\ Len(calls) = 6
        /\ calls[1] = Call("truncate", "base", 0) /\ calls[2] = Call("fill", "base", 0)
        /\ calls[3] = Call("truncate", "block", 0) /\ calls[4] = Call("fill", "block", 0)
        /\ calls[5] = Call("truncate", "head", 0) /\ calls[6] = Call("fill", "head", 0)
<1> DEFINE s == Write("base", 0)
<1> DEFINE t == StoreCalls(0)
<1>1. /\ s \in Seq(Calls) /\ Len(s) = 2 /\ s[1] = Call("truncate", "base", 0) /\ s[2] = Call("fill", "base", 0)
      /\ t \in Seq(Calls) /\ Len(t) = 4
      /\ t[1] = Call("truncate", "block", 0) /\ t[2] = Call("fill", "block", 0)
      /\ t[3] = Call("truncate", "head", 0) /\ t[4] = Call("fill", "head", 0)
  <2>1. 0 \in Numbers
    BY Constants DEF Numbers
  <2> QED
    BY <2>1, WriteDef, StoreCallsDef
<1> HIDE DEF s, t
<1>2. IsConcat(Calls, s, t, s \o t)
  BY <1>1, ConcatDef
<1>3. /\ (s \o t)[1] = s[1] /\ (s \o t)[2] = s[2]
      /\ (s \o t)[2 + 1] = t[1] /\ (s \o t)[2 + 2] = t[2] /\ (s \o t)[2 + 3] = t[3] /\ (s \o t)[2 + 4] = t[4]
      /\ Len(s \o t) = 6 /\ s \o t \in Seq(Calls)
  BY <1>1, <1>2 DEF IsConcat
<1> QED
  BY <1>1, <1>2, <1>3 DEF s, t

\* How many files prune_chain removes.
Removed(from, k) == IF k >= from THEN k - from + 1 ELSE 0

LEMMA PruneCallsDef ==
    ASSUME NEW from \in Numbers, NEW k \in Numbers
    PROVE  /\ Removed(from, k) \in Nat
           /\ PruneCalls(from, k) \in Seq(Calls) /\ Len(PruneCalls(from, k)) = Removed(from, k) + 2
           /\ \A i \in 1 .. Removed(from, k) :
                 from + i - 1 \in from .. k /\ PruneCalls(from, k)[i] = Call("remove", "block", from + i - 1)
           /\ PruneCalls(from, k)[Removed(from, k) + 1] = Call("truncate", "base", k)
           /\ PruneCalls(from, k)[Removed(from, k) + 2] = Call("fill", "base", k)
<1> DEFINE m == Removed(from, k)
<1> DEFINE f == [i \in 1 .. k - from + 1 |-> Call("remove", "block", from + i - 1)]
<1> DEFINE w == Write("base", k)
<1>1. m \in Nat /\ 1 .. m = 1 .. k - from + 1 /\ from \in Nat /\ k \in Nat
  BY Constants DEF Removed, Numbers
<1>2. f = [i \in 1 .. m |-> Call("remove", "block", from + i - 1)]
  BY <1>1
<1>3. ASSUME NEW i \in 1 .. m
      PROVE  /\ from + i - 1 \in from .. k /\ f[i] = Call("remove", "block", from + i - 1)
             /\ f[i] \in Calls
  <2>1. from + i - 1 \in from .. k /\ from + i - 1 \in Numbers
    BY <1>1, Constants DEF Removed, Numbers
  <2>2. f[i] = Call("remove", "block", from + i - 1)
    BY <1>2
  <2> QED
    BY <2>1, <2>2, CallType
<1> HIDE DEF m, f
<1>4. f \in Seq(Calls) /\ Len(f) = m
  <2>1. f \in [1 .. m -> Calls]
    BY <1>2, <1>3
  <2> QED
    BY <1>1, <2>1
<1>5. /\ w \in Seq(Calls) /\ Len(w) = 2
      /\ w[1] = Call("truncate", "base", k) /\ w[2] = Call("fill", "base", k)
  BY WriteDef
<1>6. PruneCalls(from, k) = f \o w
  BY DEF PruneCalls, f
<1> HIDE DEF w
<1>7. IsConcat(Calls, f, w, f \o w)
  BY <1>4, <1>5, ConcatDef
<1>8. /\ (f \o w)[m + 1] = w[1] /\ (f \o w)[m + 2] = w[2]
      /\ f \o w \in Seq(Calls) /\ Len(f \o w) = m + 2
      /\ \A i \in 1 .. m : (f \o w)[i] = f[i]
  BY <1>1, <1>4, <1>5, <1>7 DEF IsConcat
<1> QED
  BY <1>1, <1>3, <1>4, <1>5, <1>6, <1>7, <1>8 DEF m

\* The calls of rebase after those of its prune: four for each block.
StoredCalls(b, k) == [j \in 1 .. 4 * (k - b) |-> StoreCalls(b + 1 + (j - 1) \div 4)[1 + ((j - 1) % 4)]]

\* Each of them is one of the four for one of the blocks.
FourOf(b, k, j) == \E i \in b + 1 .. k, r \in 1 .. 4 : j = 4 * (i - b - 1) + r

LEMMA FourEach ==
    ASSUME NEW b \in Nat, NEW k \in Nat, b < k, NEW j \in 1 .. 4 * (k - b)
    PROVE  FourOf(b, k, j)
<1> DEFINE q == (j - 1) \div 4
<1> DEFINE r == 1 + ((j - 1) % 4)
<1>1. q \in Int /\ r \in 1 .. 4 /\ j = 4 * q + r
  OBVIOUS
<1> HIDE DEF q, r
<1>2. b + 1 + q \in b + 1 .. k /\ j = 4 * ((b + 1 + q) - b - 1) + r
  BY <1>1
<1> QED
  BY <1>1, <1>2 DEF FourOf

LEMMA FourAt ==
    ASSUME NEW b \in Nat, NEW k \in Nat, b < k, NEW i \in b + 1 .. k, NEW r \in 1 .. 4
    PROVE  /\ 4 * (i - b - 1) + r \in 1 .. 4 * (k - b)
           /\ b + 1 + (4 * (i - b - 1) + r - 1) \div 4 = i
           /\ 1 + ((4 * (i - b - 1) + r - 1) % 4) = r
OBVIOUS

LEMMA StoredCallsDef ==
    ASSUME NEW b \in Numbers, NEW k \in Numbers, b < k
    PROVE  /\ StoredCalls(b, k) \in Seq(Calls) /\ Len(StoredCalls(b, k)) = 4 * (k - b)
           /\ \A i \in b + 1 .. k, r \in 1 .. 4 :
                 StoredCalls(b, k)[4 * (i - b - 1) + r] = StoreCalls(i)[r]
<1> DEFINE s == StoredCalls(b, k)
<1> DEFINE m == 4 * (k - b)
<1>1. b \in Nat /\ k \in Nat /\ m \in Nat
  BY Constants DEF Numbers
<1>2. ASSUME NEW i \in b + 1 .. k, NEW r \in 1 .. 4
      PROVE  s[4 * (i - b - 1) + r] = StoreCalls(i)[r] /\ s[4 * (i - b - 1) + r] \in Calls
  <2> DEFINE j == 4 * (i - b - 1) + r
  <2>1. j \in 1 .. m /\ b + 1 + (j - 1) \div 4 = i /\ 1 + ((j - 1) % 4) = r
    BY <1>1, FourAt
  <2>2. s[j] = StoreCalls(b + 1 + (j - 1) \div 4)[1 + ((j - 1) % 4)]
    BY <2>1 DEF StoredCalls
  <2> HIDE DEF j
  <2>3. i \in Numbers
    <3>1. i >= 0 /\ i <= k /\ k <= MaxBlock /\ i \in Int
      BY <1>1, Constants DEF Numbers
    <3> QED
      BY <3>1, Constants DEF Numbers
  <2>4. StoreCalls(i) \in Seq(Calls) /\ Len(StoreCalls(i)) = 4
    BY <2>3, StoreCallsDef
  <2>5. StoreCalls(i)[r] \in Calls
    <3>1. r \in 1 .. Len(StoreCalls(i))
      BY <2>4
    <3> QED
      BY <2>4, <3>1, ElementOfSeq
  <2> QED
    BY <2>1, <2>2, <2>5 DEF j
<1>3. s = [j \in 1 .. m |-> s[j]]
  BY DEF StoredCalls
<1> HIDE DEF s, m
<1>4. ASSUME NEW j \in 1 .. m PROVE s[j] \in Calls
  <2>1. PICK i \in b + 1 .. k, r \in 1 .. 4 : j = 4 * (i - b - 1) + r
    <3>1. FourOf(b, k, j)
      BY <1>1, FourEach DEF m
    <3> QED
      BY <3>1 DEF FourOf
  <2> QED
    BY <1>2, <2>1
<1>5. s \in Seq(Calls) /\ Len(s) = m
  BY <1>1, <1>3, <1>4
<1> QED
  BY <1>2, <1>5 DEF s, m

LEMMA RebaseCallsDef ==
    ASSUME NEW from \in Numbers, NEW b \in Numbers, NEW k \in Numbers, b < k
    PROVE  LET p == PruneCalls(from, b)
               s == StoredCalls(b, k)
           IN  IsConcat(Calls, p, s, RebaseCalls(from, b, k))
<1> DEFINE p == PruneCalls(from, b)
<1> DEFINE s == StoredCalls(b, k)
<1>1. p \in Seq(Calls) /\ s \in Seq(Calls)
  BY PruneCallsDef, StoredCallsDef
<1>2. RebaseCalls(from, b, k) = p \o s
  BY DEF RebaseCalls, StoredCalls
<1> HIDE DEF p, s
<1> QED
  BY <1>1, <1>2, ConcatDef DEF p, s

-----------------------------------------------------------------------------
(* What one call does to the directory                                      *)

\* Every block file has the number of its block, if it is whole.
DirOK(d) == d \in Directories /\ \A i \in DOMAIN d.block : d.block[i] \in {i, Torn}

\* Two directories have the same block files, but for one number.
SameBut(d, e, n) ==
    \A i : i # n => /\ Whole(e, i) <=> Whole(d, i)
                    /\ i \in DOMAIN e.block <=> i \in DOMAIN d.block

LEMMA BlockFilesDef ==
    ASSUME NEW f
    PROVE  f \in BlockFiles <=> f \in [DOMAIN f -> Numbers \cup {Torn}] /\ DOMAIN f \subseteq Numbers
BY DEF BlockFiles

LEMMA AfterRemove ==
    ASSUME NEW d, DirOK(d), NEW c \in Calls, c.op = "remove"
    PROVE  /\ DirOK(After(d, c)) /\ After(d, c).head = d.head /\ After(d, c).base = d.base
           /\ c.n \notin DOMAIN After(d, c).block
           /\ SameBut(d, After(d, c), c.n)
<1> DEFINE f == [i \in DOMAIN d.block \ {c.n} |-> d.block[i]]
<1>1. /\ d \in [block : BlockFiles, head : Numbers \cup {Torn, Absent}, base : Numbers \cup {Torn, Absent}]
      /\ d.block \in [DOMAIN d.block -> Numbers \cup {Torn}] /\ DOMAIN d.block \subseteq Numbers
  BY BlockFilesDef DEF DirOK, Directories
<1>2. After(d, c) = [d EXCEPT !.block = f]
  BY DEF After, Restrict
<1>3. /\ DOMAIN f = DOMAIN d.block \ {c.n} /\ \A i \in DOMAIN f : f[i] = d.block[i]
      /\ f \in [DOMAIN f -> Numbers \cup {Torn}]
  BY <1>1
<1> HIDE DEF f
<1>4. f \in BlockFiles
  BY <1>1, <1>3, BlockFilesDef
<1>5. /\ After(d, c) \in Directories /\ After(d, c).block = f
      /\ After(d, c).head = d.head /\ After(d, c).base = d.base
  BY <1>1, <1>2, <1>4 DEF Directories
<1> QED
  BY <1>1, <1>3, <1>5 DEF DirOK, Whole, SameBut

LEMMA AfterBlock ==
    ASSUME NEW d, DirOK(d), NEW c \in Calls, c.op # "remove", c.file = "block"
    PROVE  /\ DirOK(After(d, c)) /\ After(d, c).head = d.head /\ After(d, c).base = d.base
           /\ c.op = "fill" => Whole(After(d, c), c.n)
           /\ SameBut(d, After(d, c), c.n)
<1> DEFINE f == [i \in DOMAIN d.block \cup {c.n} |-> IF i = c.n THEN Content(c) ELSE d.block[i]]
<1>1. /\ d \in [block : BlockFiles, head : Numbers \cup {Torn, Absent}, base : Numbers \cup {Torn, Absent}]
      /\ d.block \in [DOMAIN d.block -> Numbers \cup {Torn}] /\ DOMAIN d.block \subseteq Numbers
      /\ c.n \in Numbers /\ Content(c) \in {c.n, Torn} /\ (c.op = "fill" => Content(c) = c.n)
  BY BlockFilesDef DEF DirOK, Directories, Calls, Content
<1>2. After(d, c) = [d EXCEPT !.block = f]
  BY DEF After
<1>3. /\ DOMAIN f = DOMAIN d.block \cup {c.n} /\ f[c.n] = Content(c)
      /\ \A i \in DOMAIN d.block : i # c.n => f[i] = d.block[i]
  OBVIOUS
<1>4. f \in [DOMAIN f -> Numbers \cup {Torn}]
  BY <1>1
<1> HIDE DEF f
<1>5. f \in BlockFiles
  BY <1>1, <1>3, <1>4, BlockFilesDef
<1>6. /\ After(d, c) \in Directories /\ After(d, c).block = f
      /\ After(d, c).head = d.head /\ After(d, c).base = d.base
  BY <1>1, <1>2, <1>5 DEF Directories
<1>7. \A i \in DOMAIN f : f[i] \in {i, Torn}
  BY <1>1, <1>3 DEF DirOK
<1>8. c.n # Torn
  BY <1>1, Constants
<1> QED
  BY <1>1, <1>3, <1>6, <1>7, <1>8 DEF DirOK, Whole, SameBut

LEMMA AfterHead ==
    ASSUME NEW d, DirOK(d), NEW c \in Calls, c.op # "remove", c.file = "head"
    PROVE  /\ DirOK(After(d, c)) /\ After(d, c).block = d.block /\ After(d, c).base = d.base
           /\ After(d, c).head = IF c.op = "fill" THEN c.n ELSE Torn
<1>1. Content(c) = (IF c.op = "fill" THEN c.n ELSE Torn) /\ Content(c) \in Numbers \cup {Torn}
  BY DEF Content, Calls
<1>2. After(d, c) = [d EXCEPT !.head = Content(c)]
  BY DEF After
<1> QED
  BY <1>1, <1>2 DEF DirOK, Directories

LEMMA AfterBase ==
    ASSUME NEW d, DirOK(d), NEW c \in Calls, c.op # "remove", c.file = "base"
    PROVE  /\ DirOK(After(d, c)) /\ After(d, c).block = d.block /\ After(d, c).head = d.head
           /\ After(d, c).base \in {c.n, Torn}
<1>1. Content(c) \in {c.n, Torn} /\ Content(c) \in Numbers \cup {Torn}
  BY DEF Content, Calls
<1>2. After(d, c) = [d EXCEPT !.base = Content(c)]
  BY DEF After
<1> QED
  BY <1>1, <1>2 DEF DirOK, Directories

-----------------------------------------------------------------------------
(* The inductive invariant                                                  *)

Jobs == {"none", "bootstrap", "create", "prune", "rebase"}

\* Block i will be written by what is left of the operation.
Pending(i) == \E j \in 1 .. Len(todo) : todo[j] = Call("fill", "block", i)

TypeInv ==
    /\ DirOK(disk)
    /\ head \in Numbers /\ base \in Numbers \cup {Torn} /\ job \in Jobs /\ up \in BOOLEAN
    /\ asked \in Numbers /\ settled \in Numbers /\ gap \in BOOLEAN /\ crashes \in 0 .. MaxCrashes
    /\ todo \in Seq(Calls)
    /\ (up => (job = "none" <=> todo = <<>>)) /\ (~up => todo = <<>>)

\* A call under way: only blocks up to the highest prune are removed, what is
\* truncated is filled next, and the head file is filled last.
CallOK(j) ==
    /\ todo[j].op = "remove" => todo[j].file = "block" /\ todo[j].n <= asked
    /\ todo[j].op = "truncate" => j < Len(todo) /\ todo[j + 1] = Call("fill", todo[j].file, todo[j].n)
    /\ job = "prune" => todo[j].op = "remove" \/ todo[j].file = "base"
    /\ job \in {"create", "bootstrap"} =>
          /\ todo[j].op # "remove"
          /\ todo[j].op = "fill" /\ todo[j].file = "head" => j = Len(todo)
          /\ todo[j].file = "block" => todo[j].n = head

TodoInv ==
    /\ \A j \in 1 .. Len(todo) : CallOK(j)
    /\ todo # <<>> /\ job # "prune" => todo[Len(todo)] = Call("fill", "head", head)

\* How the head in memory and that of the last operation relate.
JobInv ==
    /\ disk.base = Absent =>
          disk.head = Absent /\ (up => todo # <<>> /\ todo[1] = Call("truncate", "base", 0))
    /\ up /\ job = "create" => head = settled + 1
    /\ up /\ job \notin {"create", "rebase"} => head = settled
    /\ ~up /\ job = "rebase" => gap
    /\ job = "bootstrap" => settled = 0

\* The head file names the head of the last operation or the next block, and
\* that head is whole, if it was not pruned.
HeadInv ==
    job # "rebase" =>
        /\ settled <= asked \/ Whole(disk, settled)
        /\ disk.head \in Numbers => disk.head \in {settled, settled + 1}

\* The first block that must be there: not the one a transfer starts with, once a
\* transfer was cut.
First == asked + (IF gap THEN 2 ELSE 1)

\* The head in memory is whole or will be; so is every block below it.
MemoryInv ==
    /\ up => head <= asked \/ Whole(disk, head) \/ Pending(head)
    /\ up => \A i \in First .. head : Whole(disk, i) \/ Pending(i)

\* What a process that is killed now finds below the head file.
DiskInv ==
    job # "rebase" /\ disk.head \in Numbers =>
        /\ \A i \in First .. disk.head : Whole(disk, i)
        /\ disk.head <= settled \/ disk.head < First

\* In a transfer, a block file but the first is written when the head file names
\* the block before, and the head file when all blocks up to its own are.
OrderOK(j) ==
    /\ todo[j].op = "truncate" /\ todo[j].file = "block" /\ todo[j].n > asked + 1 =>
          IF j = 1 THEN disk.head = todo[j].n - 1 ELSE todo[j - 1] = Call("fill", "head", todo[j].n - 1)
    /\ todo[j].op = "fill" /\ todo[j].file = "head" =>
          /\ todo[j].n <= head
          /\ \A i \in j + 1 .. Len(todo) :
                todo[i].op = "fill" /\ todo[i].file = "block" => todo[j].n < todo[i].n

TransferInv ==
    job = "rebase" =>
        /\ \A j \in 1 .. Len(todo) : OrderOK(j)
        /\ disk.head \in Numbers => \A i \in asked + 2 .. disk.head : Whole(disk, i)

Inv == TypeInv /\ TodoInv /\ JobInv /\ HeadInv /\ MemoryInv /\ DiskInv /\ TransferInv

LEMMA FirstDef ==
    ASSUME Inv
    PROVE  First \in Nat /\ asked \in Nat /\ asked < First /\ First <= asked + 2 /\ (~gap => First = asked + 1)
BY DEF First, Inv, TypeInv, Numbers

LEMMA InitInv == Init => Inv
<1> SUFFICES ASSUME Init PROVE Inv
  OBVIOUS
<1> DEFINE calls == Write("base", 0) \o StoreCalls(0)
<1>1. 0 \in Numbers /\ crashes \in 0 .. MaxCrashes
  BY Constants DEF Init, Numbers
<1>2. /\ disk = [block |-> [i \in {} |-> 0], head |-> Absent, base |-> Absent]
      /\ head = 0 /\ base = 0 /\ todo = calls /\ job = "bootstrap" /\ up = TRUE
      /\ asked = 0 /\ settled = 0 /\ gap = FALSE
  BY DEF Init
<1>3. /\ calls \in Seq(Calls) /\ Len(calls) = 6
      /\ calls[1] = Call("truncate", "base", 0) /\ calls[2] = Call("fill", "base", 0)
      /\ calls[3] = Call("truncate", "block", 0) /\ calls[4] = Call("fill", "block", 0)
      /\ calls[5] = Call("truncate", "head", 0) /\ calls[6] = Call("fill", "head", 0)
  BY BootstrapCallsDef
<1> HIDE DEF calls
<1>4. DirOK(disk)
  <2>1. [i \in {} |-> 0] \in BlockFiles
    BY BlockFilesDef
  <2> QED
    BY <1>2, <2>1 DEF DirOK, Directories
<1>a. todo # <<>>
  <2>1. calls # <<>>
    <3>1. calls \in Seq(Calls) /\ Len(calls) # 0
      BY <1>3
    <3> QED
      BY <3>1, EmptyDef
  <2> QED
    BY <1>2, <2>1
<1>5. TypeInv
  <2>1. base \in Numbers \cup {Torn} /\ job \in Jobs /\ job # "none"
    BY <1>1, <1>2 DEF Jobs
  <2> QED
    BY <1>1, <1>2, <1>3, <1>4, <1>a, <2>1 DEF TypeInv
<1>6. TodoInv
  <2>1. ASSUME NEW j \in 1 .. 6 PROVE CallOK(j)
    <3>1. j \in {1, 2, 3, 4, 5, 6}
      BY <2>1
    <3> QED
      BY <1>1, <1>2, <1>3, <3>1, CallType DEF CallOK
  <2> QED
    BY <1>2, <1>3, <2>1 DEF TodoInv
<1>7. JobInv /\ HeadInv /\ MemoryInv /\ DiskInv /\ TransferInv
  BY <1>2, <1>3, <1>a, Constants DEF JobInv, HeadInv, MemoryInv, DiskInv, TransferInv, First
<1> QED
  BY <1>5, <1>6, <1>7 DEF Inv

\* One system call.
LEMMA DoCallInv ==
    ASSUME Inv, DoCall
    PROVE  Inv'
<1> DEFINE c == todo[1]
<1> DEFINE rest == Tail(todo)
<1>1. /\ todo # <<>> /\ todo \in Seq(Calls) /\ Len(todo) \in Nat /\ Len(todo) > 0
      /\ up /\ job # "none" /\ DirOK(disk) /\ head \in Nat /\ asked \in Nat /\ settled \in Nat
      /\ head \in Numbers
  BY DEF DoCall, Inv, TypeInv, Numbers
<1>2. /\ c \in Calls /\ Head(todo) = c /\ rest \in Seq(Calls) /\ Len(rest) = Len(todo) - 1
      /\ \A j \in 1 .. Len(rest) : rest[j] = todo[j + 1]
  BY <1>1
<1>3. /\ disk' = After(disk, c) /\ todo' = rest
      /\ rest = <<>> => job' = "none" /\ settled' = head
      /\ rest # <<>> => job' = job /\ settled' = settled
      /\ UNCHANGED <<head, base, up, asked, gap, crashes>>
  BY <1>2 DEF DoCall
<1>4. CallOK(1) /\ \A j \in 1 .. Len(todo) : CallOK(j)
  BY <1>1 DEF Inv, TodoInv
<1>5. c.op = "remove" => c.file = "block" /\ c.n <= asked
  BY <1>4 DEF CallOK
<1>6. c.n \in Nat /\ c.op \in {"remove", "truncate", "fill"} /\ c.file \in {"block", "head", "base"}
  BY <1>2 DEF Calls, Numbers
<1>7. (rest = <<>> <=> Len(todo) = 1) /\ (rest = <<>> <=> Len(rest) = 0)
  <2>1. rest = <<>> <=> Len(rest) = 0
    BY <1>2, EmptyDef
  <2> HIDE DEF rest
  <2> QED
    BY <1>1, <1>2, <2>1
<1> HIDE DEF rest
\* The directory.
<1>8. /\ DirOK(disk')
      /\ disk'.head = disk.head \/ (c.op # "remove" /\ c.file = "head")
      /\ c.op = "fill" /\ c.file = "head" => disk'.head = c.n
      /\ c.op = "truncate" /\ c.file = "head" => disk'.head = Torn
      /\ disk'.base = disk.base \/ (c.op # "remove" /\ c.file = "base" /\ disk'.base \in {c.n, Torn})
      /\ c.op = "fill" /\ c.file = "block" => Whole(disk', c.n)
      /\ \A i : i # c.n \/ (c.op # "remove" /\ c.file # "block") => (Whole(disk', i) <=> Whole(disk, i))
  <2> HIDE DEF c
  <2>1. CASE c.op = "remove"
    <3>1. /\ DirOK(After(disk, c)) /\ After(disk, c).head = disk.head /\ After(disk, c).base = disk.base
          /\ SameBut(disk, After(disk, c), c.n)
      BY <1>1, <1>2, <2>1, AfterRemove
    <3> QED
      BY <1>3, <2>1, <3>1 DEF SameBut
  <2>2. CASE c.op # "remove" /\ c.file = "block"
    <3>1. /\ DirOK(After(disk, c)) /\ After(disk, c).head = disk.head /\ After(disk, c).base = disk.base
          /\ c.op = "fill" => Whole(After(disk, c), c.n)
          /\ SameBut(disk, After(disk, c), c.n)
      BY <1>1, <1>2, <2>2, AfterBlock
    <3> QED
      BY <1>3, <2>2, <3>1 DEF SameBut
  <2>3. CASE c.op # "remove" /\ c.file = "head"
    BY <1>1, <1>2, <1>3, <2>3, AfterHead DEF Whole
  <2>4. CASE c.op # "remove" /\ c.file = "base"
    BY <1>1, <1>2, <1>3, <2>4, AfterBase DEF Whole
  <2> QED
    BY <1>6, <2>1, <2>2, <2>3, <2>4
<1>9. ASSUME NEW i \in Nat, i > asked, Whole(disk, i) \/ Pending(i)
      PROVE  Whole(disk', i) \/ Pending(i)'
  <2>1. CASE c.op = "truncate" /\ c.file = "block" /\ c.n = i
    <3>1. 1 < Len(todo) /\ todo[2] = Call("fill", "block", i)
      BY <1>4, <2>1 DEF CallOK
    <3>2. 1 \in 1 .. Len(rest) /\ rest[1] = Call("fill", "block", i)
      BY <1>1, <1>2, <3>1
    <3> QED
      BY <1>3, <3>2 DEF Pending
  <2>2. CASE c.op = "fill" /\ c.file = "block" /\ c.n = i
    BY <1>8, <2>2
  <2>3. CASE ~ (c.op # "remove" /\ c.file = "block" /\ c.n = i)
    <3>1. Whole(disk', i) <=> Whole(disk, i)
      <4>1. i # c.n \/ (c.op # "remove" /\ c.file # "block")
        BY <1>1, <1>5, <1>6, <1>9, <2>3
      <4> HIDE DEF c
      <4> QED
        BY <1>8, <4>1
    <3>2. CASE Pending(i)
      <4>1. PICK j \in 1 .. Len(todo) : todo[j] = Call("fill", "block", i)
        BY <3>2 DEF Pending
      <4>2. j # 1
        BY <2>3, <4>1 DEF Call
      <4>3. j - 1 \in 1 .. Len(rest) /\ rest[j - 1] = todo[j]
        BY <1>1, <1>2, <4>2
      <4> QED
        BY <1>3, <4>1, <4>3 DEF Pending
    <3> QED
      BY <1>9, <3>1, <3>2
  <2> QED
    BY <1>6, <2>1, <2>2, <2>3
\* The list of calls.
<1>10. TodoInv'
  <2>1. ASSUME NEW j \in 1 .. Len(rest) PROVE CallOK(j)'
    <3>1. j + 1 \in 1 .. Len(todo) /\ rest[j] = todo[j + 1] /\ job' = job /\ j \in Nat
      BY <1>1, <1>2, <1>3, <1>7
    <3>2. j + 1 < Len(todo) => j \in Nat /\ j < Len(rest) /\ rest[j + 1] = todo[j + 1 + 1]
      BY <1>1, <1>2, <3>1
    <3>3. j + 1 = Len(todo) => j = Len(rest)
      BY <1>1, <1>2
    <3> QED
      BY <1>3, <1>4, <3>1, <3>2, <3>3 DEF CallOK
  <2>2. rest # <<>> /\ job # "prune" => rest[Len(rest)] = Call("fill", "head", head)
    <3>1. rest # <<>> => Len(rest) \in 1 .. Len(rest) /\ rest[Len(rest)] = todo[Len(todo)]
      BY <1>1, <1>2, <1>7
    <3> QED
      BY <1>1, <3>1 DEF Inv, TodoInv
  <2> QED
    BY <1>3, <2>1, <2>2 DEF TodoInv
\* The last call.
<1>11. ASSUME rest = <<>>, job # "prune" PROVE c.op = "fill" /\ c.file = "head" /\ c.n = head
  <2>1. c = Call("fill", "head", head)
    BY <1>1, <1>7, <1>11 DEF Inv, TodoInv
  <2> QED
    BY <2>1 DEF Call
<1>12. ASSUME rest = <<>>, job = "prune" PROVE head = settled /\ disk'.head = disk.head
  <2>1. head = settled
    BY <1>1, <1>12 DEF Inv, JobInv
  <2>2. c.op = "remove" \/ c.file = "base"
    BY <1>4, <1>12 DEF CallOK
  <2> QED
    BY <1>8, <2>1, <2>2
\* A call before the last, if it is not one of a transfer.
<1>13. ASSUME rest # <<>>, job # "rebase"
       PROVE  /\ disk'.head = disk.head \/ disk'.head = Torn
              /\ \A i \in Nat : i > asked /\ i <= settled /\ Whole(disk, i) => Whole(disk', i)
  <2>1. job \in {"create", "prune", "bootstrap"}
    BY <1>1, <1>13 DEF Inv, TypeInv, Jobs
  <2>2. c.op = "fill" => c.file # "head"
    BY <1>4, <1>7, <1>13, <2>1 DEF CallOK
  <2>3. c.op # "remove" /\ c.file = "block" => c.n > settled \/ c.n = 0
    BY <1>1, <1>4, <2>1 DEF CallOK, Inv, JobInv
  <2> QED
    BY <1>1, <1>5, <1>6, <1>8, <2>2, <2>3
<1>14. TypeInv'
  <2>1. job' \in Jobs /\ settled' \in Numbers /\ (job' = "none" <=> rest = <<>>)
    BY <1>1, <1>3 DEF Inv, TypeInv, Jobs
  <2> QED
    BY <1>1, <1>2, <1>3, <1>8, <2>1 DEF Inv, TypeInv
<1>15. JobInv'
  <2>1. disk'.base # Absent
    <3>1. CASE disk.base = Absent
      <4>1. c = Call("truncate", "base", 0) /\ 0 \in Numbers
        BY <1>1, <3>1, Constants DEF Inv, JobInv, Numbers
      <4>2. c.op = "truncate" /\ c.file = "base"
        BY <4>1, CallType
      <4> QED
        BY <1>1, <1>2, <1>3, <4>2, Constants DEF After, Content, DirOK, Directories
    <3>2. CASE disk.base # Absent
      BY <1>2, <1>8, <3>2, Constants DEF Calls
    <3> QED
      BY <3>1, <3>2
  <2> QED
    BY <1>1, <1>3, <2>1 DEF Inv, JobInv
<1>20. \A i \in Nat : i > asked /\ (Whole(disk, i) \/ Pending(i)) =>
          Whole(disk', i) \/ \E j \in 1 .. Len(todo') : todo'[j] = Call("fill", "block", i)
  BY <1>9 DEF Pending
<1>16. MemoryInv'
  <2>1. head <= asked \/ Whole(disk', head) \/ \E j \in 1 .. Len(todo') : todo'[j] = Call("fill", "block", head)
    <3>1. CASE head <= asked
      BY <3>1
    <3>2. CASE ~ (head <= asked)
      <4>1. head > asked /\ (Whole(disk, head) \/ Pending(head))
        BY <1>1, <3>2 DEF Inv, MemoryInv
      <4> QED
        BY <1>1, <1>20, <4>1
    <3> QED
      BY <3>1, <3>2
  <2>2. \A i \in First .. head : Whole(disk', i) \/ Pending(i)'
    BY <1>1, <1>9, FirstDef DEF Inv, MemoryInv
  <2>3. First' = First
    BY <1>3 DEF First
  <2> QED
    BY <1>3, <2>1, <2>2, <2>3 DEF MemoryInv, Pending
<1>17. ASSUME rest = <<>>, NEW i PROVE ~ Pending(i)'
  BY <1>3, <1>7, <1>17 DEF Pending
<1>18. HeadInv'
  <2>1. CASE rest = <<>>
    <3>1. head <= asked \/ Whole(disk', head)
      BY <1>1, <1>3, <1>16, <1>17, <2>1 DEF MemoryInv
    <3>2. disk'.head \in Numbers => disk'.head \in {head, head + 1}
      BY <1>8, <1>11, <1>12, <2>1 DEF Inv, HeadInv
    <3> QED
      BY <1>3, <2>1, <3>1, <3>2 DEF HeadInv
  <2>2. CASE rest # <<>>
    <3>1. ASSUME job # "rebase" PROVE settled <= asked \/ Whole(disk', settled)
      BY <1>1, <1>13, <2>2, <3>1 DEF Inv, HeadInv
    <3>2. ASSUME job # "rebase", disk'.head \in Numbers PROVE disk'.head \in {settled, settled + 1}
      BY <1>13, <2>2, <3>2, Constants DEF Inv, HeadInv
    <3> QED
      BY <1>3, <2>2, <3>1, <3>2 DEF HeadInv
  <2> QED
    BY <2>1, <2>2
<1>21. First' = First
  BY <1>3 DEF First
<1>22. First \in Nat /\ asked < First /\ First <= asked + 2
  BY FirstDef
<1>23. ASSUME rest = <<>> PROVE \A i \in First .. head : Whole(disk', i)
  BY <1>1, <1>3, <1>16, <1>17, <1>21, <1>23 DEF MemoryInv
<1>19. DiskInv'
  <2> SUFFICES ASSUME job' # "rebase", disk'.head \in Numbers
               PROVE  /\ \A i \in First .. disk'.head : Whole(disk', i)
                      /\ disk'.head <= settled' \/ disk'.head < First
    BY <1>21 DEF DiskInv
  <2>1. CASE rest = <<>>
    <3>2. CASE job = "prune"
      <4>1. disk'.head = disk.head /\ settled = head /\ (disk.head <= settled \/ disk.head < First)
        BY <1>12, <2>1, <3>2 DEF Inv, DiskInv
      <4> QED
        BY <1>1, <1>3, <1>22, <1>23, <2>1, <4>1 DEF Numbers
    <3>3. CASE job # "prune"
      <4>1. disk'.head = head
        BY <1>8, <1>11, <2>1, <3>3
      <4> QED
        BY <1>1, <1>3, <1>23, <2>1, <4>1
    <3> QED
      BY <3>2, <3>3
  <2>2. CASE rest # <<>>
    <3>1. job # "rebase" /\ disk'.head = disk.head /\ settled' = settled /\ disk.head \in Nat
      BY <1>3, <1>13, <2>2, Constants DEF Numbers
    <3>2. /\ \A i \in First .. disk.head : Whole(disk, i)
          /\ disk.head <= settled \/ disk.head < First
      BY <3>1 DEF Inv, DiskInv
    <3> QED
      BY <1>1, <1>13, <1>22, <2>2, <3>1, <3>2
  <2> QED
    BY <2>1, <2>2
<1>24. TransferInv'
  <2> SUFFICES ASSUME rest # <<>>, job = "rebase" PROVE TransferInv'
    BY <1>3 DEF TransferInv
  <2>1. /\ \A j \in 1 .. Len(todo) : OrderOK(j)
        /\ disk.head \in Numbers => \A i \in asked + 2 .. disk.head : Whole(disk, i)
    BY DEF Inv, TransferInv
  <2>2. ASSUME NEW j \in 1 .. Len(rest) PROVE OrderOK(j)'
    <3>1. /\ j + 1 \in 1 .. Len(todo) /\ rest[j] = todo[j + 1] /\ j \in Nat /\ OrderOK(j + 1)
          /\ j + 1 # 1 /\ j + 1 - 1 = j
      BY <1>1, <1>2, <2>1
    <3>2. ASSUME rest[j].op = "truncate", rest[j].file = "block", rest[j].n > asked + 1
          PROVE  IF j = 1 THEN disk'.head = rest[j].n - 1 ELSE rest[j - 1] = Call("fill", "head", rest[j].n - 1)
      <4>1. todo[j] = Call("fill", "head", rest[j].n - 1)
        BY <3>1, <3>2 DEF OrderOK
      <4>2. CASE j = 1
        <5>1. c.op = "fill" /\ c.file = "head" /\ c.n = rest[j].n - 1
          BY <4>1, <4>2 DEF Call
        <5> QED
          BY <1>8, <4>2, <5>1
      <4>3. CASE j # 1
        <5>1. j - 1 \in 1 .. Len(rest) /\ j - 1 + 1 = j
          BY <1>1, <1>2, <3>1, <4>3
        <5>2. rest[j - 1] = todo[j]
          BY <1>2, <5>1
        <5> QED
          BY <4>1, <4>3, <5>2
      <4> QED
        BY <4>2, <4>3
    <3>3. ASSUME rest[j].op = "fill", rest[j].file = "head"
          PROVE  /\ rest[j].n <= head
                 /\ \A i \in j + 1 .. Len(rest) :
                       rest[i].op = "fill" /\ rest[i].file = "block" => rest[j].n < rest[i].n
      <4>1. /\ todo[j + 1].n <= head
            /\ \A i \in j + 2 .. Len(todo) :
                  todo[i].op = "fill" /\ todo[i].file = "block" => todo[j + 1].n < todo[i].n
        BY <3>1, <3>3 DEF OrderOK
      <4>2. ASSUME NEW i \in j + 1 .. Len(rest)
            PROVE  i + 1 \in j + 2 .. Len(todo) /\ rest[i] = todo[i + 1]
        BY <1>1, <1>2, <3>1
      <4> QED
        BY <3>1, <4>1, <4>2
    <3> QED
      BY <1>3, <3>2, <3>3 DEF OrderOK
  <2>3. ASSUME disk'.head \in Numbers, NEW i \in asked + 2 .. disk'.head PROVE Whole(disk', i)
    <3>1. i \in Nat /\ i > asked /\ i >= First /\ disk'.head \in Nat /\ i <= disk'.head
      BY <1>1, <1>22, <2>3, Constants DEF Numbers
    <3>2. CASE c.op = "fill" /\ c.file = "head"
      <4>1. disk'.head = c.n /\ OrderOK(1)
        BY <1>1, <1>8, <2>1, <3>2
      <4>2. i <= c.n /\ c.n <= head
        BY <3>1, <3>2, <4>1 DEF OrderOK
      <4>3. Whole(disk, i) \/ Pending(i)
        BY <1>1, <1>6, <1>22, <3>1, <4>2 DEF Inv, MemoryInv
      <4>4. ~ Pending(i)'
        <5> SUFFICES ASSUME NEW j \in 1 .. Len(rest), rest[j] = Call("fill", "block", i) PROVE FALSE
          BY <1>3 DEF Pending
        <5>1. j + 1 \in 2 .. Len(todo) /\ todo[j + 1] = Call("fill", "block", i)
          BY <1>1, <1>2
        <5>2. todo[j + 1].op = "fill" /\ todo[j + 1].file = "block" /\ todo[j + 1].n = i
          BY <5>1 DEF Call
        <5>3. c.n < i
          BY <3>2, <4>1, <5>1, <5>2 DEF OrderOK
        <5> QED
          BY <1>6, <3>1, <4>2, <5>3
      <4> QED
        BY <1>9, <3>1, <4>3, <4>4
    <3>3. CASE ~ (c.op = "fill" /\ c.file = "head")
      <4>1. disk'.head = disk.head
        BY <1>6, <1>8, <2>3, <3>3, Constants
      <4>2. Whole(disk, i)
        BY <2>1, <2>3, <4>1
      <4>3. CASE c.op = "truncate" /\ c.file = "block"
        <5>1. c.n # i
          BY <1>1, <1>6, <2>1, <3>1, <4>1, <4>3 DEF OrderOK
        <5> QED
          BY <1>8, <4>2, <5>1
      <4>4. CASE c.op = "fill" /\ c.file = "block"
        BY <1>8, <4>2, <4>4
      <4>5. CASE c.op = "remove" \/ c.file # "block"
        <5>1. i # c.n \/ (c.op # "remove" /\ c.file # "block")
          BY <1>1, <1>5, <1>6, <3>1, <4>5
        <5> HIDE DEF c
        <5> QED
          BY <1>8, <4>2, <5>1
      <4> QED
        BY <1>6, <4>3, <4>4, <4>5
    <3> QED
      BY <3>2, <3>3
  <2> QED
    BY <1>3, <2>2, <2>3 DEF TransferInv
<1> QED
  BY <1>10, <1>14, <1>15, <1>16, <1>18, <1>19, <1>24 DEF Inv

\* Between operations there is nothing left to write, and base is on disk.
LEMMA IdleDef ==
    ASSUME Inv, Idle
    PROVE  /\ up /\ todo = <<>> /\ job = "none" /\ head = settled /\ disk.base # Absent
           /\ \A i : ~ Pending(i)
           /\ head <= asked \/ Whole(disk, head)
           /\ \A i \in First .. head : Whole(disk, i)
<1>1. up /\ todo = <<>> /\ job = "none"
  BY DEF Idle, Inv, TypeInv
<1>2. \A i : ~ Pending(i)
  BY <1>1 DEF Pending
<1>3. head = settled /\ disk.base # Absent
  BY <1>1 DEF Inv, JobInv
<1> QED
  BY <1>1, <1>2, <1>3 DEF Inv, MemoryInv

LEMMA CreateBlockInv ==
    ASSUME Inv, CreateBlock
    PROVE  Inv'
<1> DEFINE calls == StoreCalls(head + 1)
<1>1. /\ Idle /\ head + 1 \in Numbers /\ head \in Nat
      /\ head' = head + 1 /\ todo' = calls /\ job' = "create"
      /\ UNCHANGED <<disk, base, up, asked, settled, gap, crashes>>
  BY Constants DEF CreateBlock, Inv, TypeInv, Numbers
<1>2. /\ calls \in Seq(Calls) /\ Len(calls) = 4
      /\ calls[1] = Call("truncate", "block", head + 1) /\ calls[2] = Call("fill", "block", head + 1)
      /\ calls[3] = Call("truncate", "head", head + 1) /\ calls[4] = Call("fill", "head", head + 1)
  BY <1>1, StoreCallsDef
<1>3. /\ up /\ todo = <<>> /\ job = "none" /\ head = settled /\ disk.base # Absent
      /\ \A i \in First .. head : Whole(disk, i)
  BY <1>1, IdleDef
<1> HIDE DEF calls
<1>4. calls # <<>>
  BY <1>2, EmptyDef
<1>5. TypeInv'
  BY <1>1, <1>2, <1>3, <1>4 DEF Inv, TypeInv, Jobs
<1>6. TodoInv'
  <2>1. ASSUME NEW j \in 1 .. 4 PROVE CallOK(j)'
    <3>1. j \in {1, 2, 3, 4}
      BY <2>1
    <3> QED
      BY <1>1, <1>2, <3>1, CallType DEF CallOK
  <2> QED
    BY <1>1, <1>2, <2>1 DEF TodoInv
<1>9. First' = First /\ First \in Nat
  BY <1>1, FirstDef DEF First
<1>7. JobInv' /\ HeadInv' /\ DiskInv' /\ TransferInv'
  BY <1>1, <1>3, <1>9 DEF Inv, JobInv, HeadInv, DiskInv, TransferInv
<1>8. MemoryInv'
  <2>1. 2 \in 1 .. Len(todo') /\ todo'[2] = Call("fill", "block", head')
    BY <1>1, <1>2
  <2>2. \E j \in 1 .. Len(todo') : todo'[j] = Call("fill", "block", head')
    BY <2>1
  <2>3. ASSUME NEW i \in First .. head'
        PROVE  Whole(disk, i) \/ \E j \in 1 .. Len(todo') : todo'[j] = Call("fill", "block", i)
    <3>1. i = head' \/ i \in First .. head
      BY <1>1, <1>9
    <3> QED
      BY <1>3, <2>2, <2>3, <3>1
  <2> QED
    BY <1>1, <1>9, <2>2, <2>3 DEF MemoryInv, Pending
<1> QED
  BY <1>5, <1>6, <1>7, <1>8 DEF Inv

LEMMA LargerDef ==
    ASSUME NEW a \in Numbers, NEW b \in Numbers
    PROVE  Larger(a, b) \in Numbers /\ Larger(a, b) >= a /\ Larger(a, b) >= b
BY Constants DEF Larger, Numbers

\* A call of a prune to k.
PruneCallOK(calls, k, j) ==
    /\ calls[j].op = "remove" => calls[j].file = "block" /\ calls[j].n <= k
    /\ calls[j].op = "truncate" =>
          j < Len(calls) /\ calls[j + 1] = Call("fill", calls[j].file, calls[j].n)
    /\ calls[j].op = "remove" \/ calls[j].file = "base"

LEMMA PruneCallsOK ==
    ASSUME NEW from \in Numbers, NEW k \in Numbers, NEW j \in 1 .. Len(PruneCalls(from, k))
    PROVE  PruneCallOK(PruneCalls(from, k), k, j)
<1> DEFINE calls == PruneCalls(from, k)
<1> DEFINE m == Removed(from, k)
<1>1. /\ m \in Nat /\ Len(calls) = m + 2
      /\ \A i \in 1 .. m : from + i - 1 \in from .. k /\ calls[i] = Call("remove", "block", from + i - 1)
      /\ calls[m + 1] = Call("truncate", "base", k) /\ calls[m + 2] = Call("fill", "base", k)
  BY PruneCallsDef
<1>2. j \in 1 .. Len(calls)
  OBVIOUS
<1>3. from \in Nat /\ k \in Nat
  BY Constants DEF Numbers
<1> HIDE DEF calls, m
<1>4. CASE j \in 1 .. m
  <2>1. calls[j] = Call("remove", "block", from + j - 1) /\ from + j - 1 <= k /\ from + j - 1 \in Numbers
    BY <1>1, <1>3, <1>4, Constants DEF Numbers
  <2> QED
    BY <2>1 DEF PruneCallOK, calls, Call
<1>5. CASE j = m + 1
  <2>1. j < Len(calls) /\ calls[j] = Call("truncate", "base", k) /\ calls[j + 1] = Call("fill", "base", k)
    BY <1>1, <1>5
  <2> QED
    BY <2>1 DEF PruneCallOK, calls, Call
<1>6. CASE j = m + 2
  <2>1. calls[j] = Call("fill", "base", k)
    BY <1>1, <1>6
  <2> QED
    BY <2>1 DEF PruneCallOK, calls, Call
<1> QED
  BY <1>1, <1>2, <1>4, <1>5, <1>6

LEMMA PruneInv ==
    ASSUME Inv, NEW k \in 1 .. MaxBlock, Prune(k)
    PROVE  Inv'
<1> DEFINE calls == PruneCalls(base, k)
<1>1. /\ Idle /\ base \in Numbers /\ k \in Numbers
      /\ base' = k /\ todo' = calls /\ job' = "prune" /\ asked' = Larger(asked, k)
      /\ UNCHANGED <<disk, head, up, settled, gap, crashes>>
  BY Constants DEF Prune, Inv, TypeInv, Numbers
<1>2. /\ up /\ todo = <<>> /\ job = "none" /\ head = settled /\ disk.base # Absent
      /\ head <= asked \/ Whole(disk, head)
      /\ \A i \in First .. head : Whole(disk, i)
  BY <1>1, IdleDef
<1>3. calls \in Seq(Calls) /\ Len(calls) > 0
  <2>1. base \in Numbers /\ k \in Numbers
    BY <1>1
  <2>2. Removed(base, k) \in Nat /\ calls \in Seq(Calls) /\ Len(calls) = Removed(base, k) + 2
    BY <2>1, PruneCallsDef
  <2> HIDE DEF calls
  <2> QED
    BY <2>2
<1>4. \A j \in 1 .. Len(calls) : PruneCallOK(calls, k, j)
  BY <1>1, PruneCallsOK
<1> HIDE DEF calls
<1>5. calls # <<>> /\ Len(calls) \in Nat
  BY <1>3, EmptyDef
<1>6. asked \in Numbers /\ asked' \in Numbers /\ asked' >= asked /\ asked' >= k
  BY <1>1, LargerDef DEF Inv, TypeInv
<1>7. /\ head \in Nat /\ asked \in Nat /\ asked' \in Nat /\ settled \in Nat /\ k \in Nat
      /\ disk.head \in Numbers => disk.head \in Nat
  BY <1>1, <1>6, Constants DEF Inv, TypeInv, Numbers
<1>8. TypeInv'
  BY <1>1, <1>2, <1>3, <1>5, <1>6 DEF Inv, TypeInv, Jobs
<1>9. TodoInv'
  <2>1. ASSUME NEW j \in 1 .. Len(calls) PROVE CallOK(j)'
    <3>1. calls[j].op = "remove" => calls[j].n \in Nat
      <4>1. calls[j] \in Calls
        BY <1>3, <2>1, ElementOfSeq
      <4> QED
        BY <4>1 DEF Calls, Numbers
    <3> QED
      BY <1>1, <1>4, <1>6, <1>7, <3>1 DEF CallOK, PruneCallOK
  <2> QED
    BY <1>1, <2>1 DEF TodoInv
<1>10. JobInv' /\ HeadInv'
  BY <1>1, <1>2, <1>6, <1>7 DEF Inv, JobInv, HeadInv
<1>12. First' \in Nat /\ First \in Nat /\ First' >= First
  BY <1>1, <1>6, <1>7 DEF First
<1>11. MemoryInv' /\ DiskInv' /\ TransferInv'
  BY <1>1, <1>2, <1>6, <1>7, <1>12 DEF Inv, MemoryInv, DiskInv, TransferInv
<1> QED
  BY <1>8, <1>9, <1>10, <1>11 DEF Inv

\* A call of the stores of a transfer.
StoreCallOK(calls, j) ==
    /\ calls[j].op # "remove"
    /\ calls[j].op = "truncate" =>
          j < Len(calls) /\ calls[j + 1] = Call("fill", calls[j].file, calls[j].n)

LEMMA StoredCallsOK ==
    ASSUME NEW b \in Numbers, NEW k \in Numbers, b < k, NEW j \in 1 .. Len(StoredCalls(b, k))
    PROVE  StoreCallOK(StoredCalls(b, k), j)
<1> DEFINE calls == StoredCalls(b, k)
<1>1. /\ Len(calls) = 4 * (k - b)
      /\ \A i \in b + 1 .. k, r \in 1 .. 4 : calls[4 * (i - b - 1) + r] = StoreCalls(i)[r]
  BY StoredCallsDef
<1>2. b \in Nat /\ k \in Nat
  BY Constants DEF Numbers
<1>3. PICK i \in b + 1 .. k, r \in 1 .. 4 : j = 4 * (i - b - 1) + r
  <2>1. FourOf(b, k, j)
    BY <1>1, <1>2, FourEach
  <2> QED
    BY <2>1 DEF FourOf
<1> HIDE DEF calls
<1>4. /\ StoreCalls(i)[1] = Call("truncate", "block", i) /\ StoreCalls(i)[2] = Call("fill", "block", i)
      /\ StoreCalls(i)[3] = Call("truncate", "head", i) /\ StoreCalls(i)[4] = Call("fill", "head", i)
  <2>1. i \in Numbers
    <3>1. i \in Int /\ i >= 0 /\ i <= k /\ k <= MaxBlock
      BY <1>2, Constants DEF Numbers
    <3> QED
      BY <3>1, Constants DEF Numbers
  <2> QED
    BY <2>1, StoreCallsDef
<1>5. calls[j] = StoreCalls(i)[r]
  BY <1>1, <1>3
<1>6. CASE r \in {2, 4}
  BY <1>4, <1>5, <1>6 DEF StoreCallOK, calls, Call
<1>7. CASE r \in {1, 3}
  <2>1. r + 1 \in 1 .. 4 /\ j + 1 = 4 * (i - b - 1) + (r + 1) /\ j < 4 * (k - b)
    BY <1>2, <1>3, <1>7
  <2>2. calls[j + 1] = StoreCalls(i)[r + 1] /\ j < Len(calls)
    BY <1>1, <2>1
  <2>3. \/ calls[j] = Call("truncate", "block", i) /\ calls[j + 1] = Call("fill", "block", i)
        \/ calls[j] = Call("truncate", "head", i) /\ calls[j + 1] = Call("fill", "head", i)
    BY <1>4, <1>5, <1>7, <2>2
  <2> QED
    BY <2>2, <2>3 DEF StoreCallOK, calls, Call
<1>8. r \in {1, 2, 3, 4}
  OBVIOUS
<1> QED
  BY <1>6, <1>7, <1>8

\* The order of the calls of a transfer, as in OrderOK.
Ordered(calls, b, k, j) ==
    /\ calls[j].op = "truncate" /\ calls[j].file = "block" /\ calls[j].n > b + 1 =>
          j > 1 /\ calls[j - 1] = Call("fill", "head", calls[j].n - 1)
    /\ calls[j].op = "fill" /\ calls[j].file = "head" =>
          /\ calls[j].n <= k
          /\ \A i \in j + 1 .. Len(calls) :
                calls[i].op = "fill" /\ calls[i].file = "block" => calls[j].n < calls[i].n

LEMMA StoredOrdered ==
    ASSUME NEW b \in Numbers, NEW k \in Numbers, b < k, NEW j \in 1 .. Len(StoredCalls(b, k))
    PROVE  Ordered(StoredCalls(b, k), b, k, j)
<1> DEFINE calls == StoredCalls(b, k)
<1> DEFINE Is(l, op, file, n) == calls[l].op = op /\ calls[l].file = file /\ calls[l].n = n
<1> DEFINE At(l, m) ==
             \/ l = 4 * (m - b - 1) + 1 /\ Is(l, "truncate", "block", m)
             \/ l = 4 * (m - b - 1) + 2 /\ Is(l, "fill", "block", m)
             \/ l = 4 * (m - b - 1) + 3 /\ Is(l, "truncate", "head", m)
             \/ l = 4 * (m - b - 1) + 4 /\ Is(l, "fill", "head", m)
<1>1. /\ Len(calls) = 4 * (k - b)
      /\ \A i \in b + 1 .. k, r \in 1 .. 4 : calls[4 * (i - b - 1) + r] = StoreCalls(i)[r]
  BY StoredCallsDef
<1>2. b \in Nat /\ k \in Nat
  BY Constants DEF Numbers
<1> HIDE DEF calls
<1>3. ASSUME NEW i \in b + 1 .. k
      PROVE  /\ StoreCalls(i)[1] = Call("truncate", "block", i) /\ StoreCalls(i)[2] = Call("fill", "block", i)
             /\ StoreCalls(i)[3] = Call("truncate", "head", i) /\ StoreCalls(i)[4] = Call("fill", "head", i)
  <2>1. i \in Int /\ i >= 0 /\ i <= k /\ k <= MaxBlock
    BY <1>2, Constants DEF Numbers
  <2>2. i \in Numbers
    BY <2>1, Constants DEF Numbers
  <2> QED
    BY <2>2, StoreCallsDef
<1>4. ASSUME NEW l \in 1 .. 4 * (k - b)
      PROVE  \E m \in b + 1 .. k : At(l, m)
  <2>1. PICK m \in b + 1 .. k, r \in 1 .. 4 : l = 4 * (m - b - 1) + r
    BY <1>2, FourEach DEF FourOf
  <2>2. calls[l] = StoreCalls(m)[r] /\ r \in {1, 2, 3, 4}
    BY <1>1, <2>1
  <2>3. /\ StoreCalls(m)[1] = Call("truncate", "block", m) /\ StoreCalls(m)[2] = Call("fill", "block", m)
        /\ StoreCalls(m)[3] = Call("truncate", "head", m) /\ StoreCalls(m)[4] = Call("fill", "head", m)
    BY <1>3
  <2>4. CASE r = 1
    BY <2>1, <2>2, <2>3, <2>4 DEF Call
  <2>5. CASE r = 2
    BY <2>1, <2>2, <2>3, <2>5 DEF Call
  <2>6. CASE r = 3
    BY <2>1, <2>2, <2>3, <2>6 DEF Call
  <2>7. CASE r = 4
    BY <2>1, <2>2, <2>3, <2>7 DEF Call
  <2> QED
    BY <2>2, <2>4, <2>5, <2>6, <2>7
<1>5. PICK i \in b + 1 .. k : At(j, i)
  BY <1>1, <1>4 DEF calls
<1>6. i \in Int /\ j \in Int /\ j >= 1 /\ j <= 4 * (k - b)
  BY <1>1, <1>2 DEF calls
<1>7. ASSUME calls[j].op = "truncate", calls[j].file = "block", calls[j].n > b + 1
      PROVE  j > 1 /\ calls[j - 1] = Call("fill", "head", calls[j].n - 1)
  <2>1. j = 4 * (i - b - 1) + 1 /\ calls[j].n = i
    BY <1>5, <1>7
  <2>2. i - 1 \in b + 1 .. k /\ 4 \in 1 .. 4 /\ j - 1 = 4 * ((i - 1) - b - 1) + 4 /\ j > 1
    BY <1>2, <1>6, <1>7, <2>1
  <2>3. calls[j - 1] = StoreCalls(i - 1)[4] /\ StoreCalls(i - 1)[4] = Call("fill", "head", i - 1)
    BY <1>1, <1>3, <2>2
  <2> QED
    BY <2>1, <2>2, <2>3
<1>8. ASSUME calls[j].op = "fill", calls[j].file = "head"
      PROVE  /\ calls[j].n <= k
             /\ \A l \in j + 1 .. Len(calls) :
                   calls[l].op = "fill" /\ calls[l].file = "block" => calls[j].n < calls[l].n
  <2>1. j = 4 * (i - b - 1) + 4 /\ calls[j].n = i /\ i <= k
    BY <1>2, <1>5, <1>8
  <2>2. ASSUME NEW l \in j + 1 .. Len(calls), calls[l].op = "fill", calls[l].file = "block"
        PROVE  i < calls[l].n
    <3>1. l \in 1 .. 4 * (k - b) /\ l > j
      BY <1>1, <1>2, <1>6
    <3>2. PICK m \in b + 1 .. k : At(l, m)
      BY <1>4, <3>1
    <3>3. l = 4 * (m - b - 1) + 2 /\ calls[l].n = m
      BY <2>2, <3>2
    <3>4. i < m
      <4>1. m \in Int /\ l \in Int /\ b \in Int /\ k \in Int
        BY <1>2, <3>1
      <4>2. 4 * (i - b - 1) + 4 < 4 * (m - b - 1) + 2
        BY <2>1, <3>1, <3>3
      <4> HIDE DEF At
      <4> QED
        BY <1>6, <4>1, <4>2
    <3> QED
      BY <3>3, <3>4
  <2> QED
    BY <2>1, <2>2
<1> QED
  BY <1>7, <1>8 DEF Ordered, calls

\* All that is needed of the calls of a transfer.
RebaseCallsOK(calls, b, k) ==
    /\ calls \in Seq(Calls) /\ Len(calls) > 0
    /\ \A j \in 1 .. Len(calls) :
          /\ calls[j].op = "remove" => calls[j].file = "block" /\ calls[j].n <= b
          /\ calls[j].op = "truncate" =>
                j < Len(calls) /\ calls[j + 1] = Call("fill", calls[j].file, calls[j].n)
          /\ Ordered(calls, b, k, j)
    /\ calls[Len(calls)] = Call("fill", "head", k)
    /\ \A i \in b + 1 .. k : \E j \in 1 .. Len(calls) : calls[j] = Call("fill", "block", i)

LEMMA RebaseCallsAreOK ==
    ASSUME NEW from \in Numbers, NEW b \in Numbers, NEW k \in Numbers, b < k
    PROVE  RebaseCallsOK(RebaseCalls(from, b, k), b, k)
<1> DEFINE p == PruneCalls(from, b)
<1> DEFINE s == StoredCalls(b, k)
<1> DEFINE calls == RebaseCalls(from, b, k)
<1>1. IsConcat(Calls, p, s, calls)
  BY RebaseCallsDef
<1>2. b \in Nat /\ k \in Nat
  BY Constants DEF Numbers
<1>3. /\ s \in Seq(Calls) /\ Len(s) = 4 * (k - b)
      /\ \A i \in b + 1 .. k, r \in 1 .. 4 : s[4 * (i - b - 1) + r] = StoreCalls(i)[r]
  BY StoredCallsDef
<1>4. p \in Seq(Calls)
  BY PruneCallsDef
<1>5. \A j \in 1 .. Len(p) : PruneCallOK(p, b, j)
  BY PruneCallsOK
<1>6. \A j \in 1 .. Len(s) : StoreCallOK(s, j) /\ Ordered(s, b, k, j)
  BY StoredCallsOK, StoredOrdered
<1> HIDE DEF p, s, calls
<1>7. /\ Len(p) \in Nat /\ Len(s) \in Nat /\ Len(calls) = Len(p) + Len(s) /\ calls \in Seq(Calls)
      /\ \A i \in 1 .. Len(p) : calls[i] = p[i]
      /\ \A i \in 1 .. Len(s) : calls[Len(p) + i] = s[i]
  BY <1>1, <1>3, <1>4 DEF IsConcat
<1>8. ASSUME NEW j \in 1 .. Len(calls)
      PROVE  /\ calls[j].op = "remove" => calls[j].file = "block" /\ calls[j].n <= b
             /\ calls[j].op = "truncate" =>
                   j < Len(calls) /\ calls[j + 1] = Call("fill", calls[j].file, calls[j].n)
  <2>1. CASE j \in 1 .. Len(p)
    <3>1. calls[j] = p[j] /\ PruneCallOK(p, b, j)
      BY <1>5, <1>7, <2>1
    <3>2. j < Len(p) => j + 1 \in 1 .. Len(p) /\ j < Len(calls)
      BY <1>7, <2>1
    <3>3. j < Len(p) => calls[j + 1] = p[j + 1]
      BY <1>7, <3>2
    <3>4. j = Len(p) => ~ (p[j].op = "truncate")
      BY <3>1 DEF PruneCallOK
    <3> QED
      BY <1>7, <2>1, <3>1, <3>2, <3>3, <3>4 DEF PruneCallOK
  <2>2. CASE j > Len(p)
    <3> DEFINE i == j - Len(p)
    <3>1. i \in 1 .. Len(s) /\ j = Len(p) + i
      BY <1>7, <2>2
    <3>2. i < Len(s) => i + 1 \in 1 .. Len(s) /\ j + 1 = Len(p) + (i + 1) /\ j < Len(calls)
      BY <1>7, <3>1
    <3> HIDE DEF i
    <3>3. calls[j] = s[i] /\ StoreCallOK(s, i)
      BY <1>6, <1>7, <3>1
    <3>4. i < Len(s) => calls[j + 1] = s[i + 1]
      BY <1>7, <3>2
    <3> QED
      BY <3>2, <3>3, <3>4 DEF StoreCallOK
  <2> QED
    BY <1>7, <2>1, <2>2
<1>9. ASSUME NEW i \in b + 1 .. k, NEW r \in 1 .. 4
      PROVE  /\ Len(p) + (4 * (i - b - 1) + r) \in 1 .. Len(calls)
             /\ calls[Len(p) + (4 * (i - b - 1) + r)] = StoreCalls(i)[r]
             /\ StoreCalls(i)[2] = Call("fill", "block", i) /\ StoreCalls(i)[4] = Call("fill", "head", i)
  <2> DEFINE j == 4 * (i - b - 1) + r
  <2>1. j \in 1 .. Len(s) /\ s[j] = StoreCalls(i)[r]
    BY <1>2, <1>3, FourAt
  <2> HIDE DEF j
  <2>2. Len(p) + j \in 1 .. Len(calls) /\ calls[Len(p) + j] = s[j]
    BY <1>7, <2>1
  <2>3. i \in Numbers
    <3>1. i \in Int /\ i >= 0 /\ i <= k /\ k <= MaxBlock
      BY <1>2, Constants DEF Numbers
    <3> QED
      BY <3>1, Constants DEF Numbers
  <2> QED
    BY <2>1, <2>2, <2>3, StoreCallsDef DEF j
<1>10. \A i \in b + 1 .. k : \E j \in 1 .. Len(calls) : calls[j] = Call("fill", "block", i)
  <2> SUFFICES ASSUME NEW i \in b + 1 .. k PROVE \E j \in 1 .. Len(calls) : calls[j] = Call("fill", "block", i)
    OBVIOUS
  <2>1. 2 \in 1 .. 4
    OBVIOUS
  <2> QED
    BY <1>9, <2>1
<1>12. ASSUME NEW j \in 1 .. Len(calls) PROVE Ordered(calls, b, k, j)
  <2>1. CASE j \in 1 .. Len(p)
    <3>1. calls[j] = p[j] /\ (p[j].op = "remove" \/ p[j].file = "base")
      BY <1>5, <1>7, <2>1 DEF PruneCallOK
    <3> QED
      BY <3>1 DEF Ordered
  <2>2. CASE j > Len(p)
    <3> DEFINE i == j - Len(p)
    <3>1. i \in 1 .. Len(s) /\ j = Len(p) + i
      BY <1>7, <2>2
    <3>2. j \in Nat /\ i \in Nat
      BY <1>7, <3>1
    <3> HIDE DEF i
    <3>3. calls[j] = s[i] /\ Ordered(s, b, k, i)
      BY <1>6, <1>7, <3>1
    <3>4. i > 1 => j > 1 /\ calls[j - 1] = s[i - 1]
      <4>1. i > 1 => i - 1 \in 1 .. Len(s) /\ j - 1 = Len(p) + (i - 1) /\ j > 1
        BY <1>7, <3>1, <3>2
      <4> QED
        BY <1>7, <4>1
    <3>5. ASSUME NEW l \in j + 1 .. Len(calls) PROVE l - Len(p) \in i + 1 .. Len(s) /\ calls[l] = s[l - Len(p)]
      <4>1. l - Len(p) \in i + 1 .. Len(s) /\ l - Len(p) \in 1 .. Len(s) /\ l = Len(p) + (l - Len(p))
        BY <1>7, <3>1, <3>2
      <4> QED
        BY <1>7, <4>1
    <3> QED
      BY <3>3, <3>4, <3>5 DEF Ordered
  <2> QED
    BY <1>7, <2>1, <2>2
<1>11. calls[Len(calls)] = Call("fill", "head", k) /\ Len(calls) > 0
  <2>1. k \in b + 1 .. k /\ 4 \in 1 .. 4 /\ Len(calls) = Len(p) + (4 * (k - b - 1) + 4) /\ Len(calls) > 0
    BY <1>2, <1>3, <1>7
  <2> QED
    BY <1>9, <2>1
<1> QED
  BY <1>7, <1>8, <1>10, <1>11, <1>12 DEF RebaseCallsOK, calls

LEMMA RebaseInv ==
    ASSUME Inv, NEW b \in 0 .. MaxBlock, NEW k \in 1 .. MaxBlock, Rebase(b, k)
    PROVE  Inv'
<1> DEFINE calls == RebaseCalls(base, b, k)
<1>1. /\ Idle /\ base \in Numbers /\ b \in Numbers /\ k \in Numbers /\ b < k
      /\ base' = b /\ head' = k /\ todo' = calls /\ job' = "rebase" /\ asked' = Larger(asked, b)
      /\ UNCHANGED <<disk, up, settled, gap, crashes>>
  BY Constants DEF Rebase, Inv, TypeInv, Numbers
<1>2. up /\ todo = <<>> /\ disk.base # Absent
  BY <1>1, IdleDef
<1>3. RebaseCallsOK(calls, b, k)
  <2>1. base \in Numbers /\ b \in Numbers /\ k \in Numbers /\ b < k
    BY <1>1
  <2> QED
    BY <2>1, RebaseCallsAreOK
<1> HIDE DEF calls
<1>4. calls # <<>> /\ calls \in Seq(Calls) /\ Len(calls) \in Nat
  <2>1. calls \in Seq(Calls) /\ Len(calls) > 0
    BY <1>3 DEF RebaseCallsOK
  <2> QED
    BY <2>1, EmptyDef
<1>5. asked \in Numbers /\ asked' \in Numbers /\ asked' >= b
  BY <1>1, LargerDef DEF Inv, TypeInv
<1>6. asked' \in Nat /\ b \in Nat /\ k \in Nat
  BY <1>1, <1>5, Constants DEF Numbers
<1>7. TypeInv'
  BY <1>1, <1>2, <1>4, <1>5 DEF Inv, TypeInv, Jobs
<1>8. TodoInv'
  <2>1. ASSUME NEW j \in 1 .. Len(calls) PROVE CallOK(j)'
    <3>1. calls[j].n \in Nat
      <4>1. calls[j] \in Calls
        BY <1>4, <2>1, ElementOfSeq
      <4> QED
        BY <4>1 DEF Calls, Numbers
    <3> QED
      BY <1>1, <1>3, <1>5, <1>6, <3>1 DEF CallOK, RebaseCallsOK
  <2> QED
    BY <1>1, <1>3, <2>1 DEF TodoInv, RebaseCallsOK
<1>9. JobInv' /\ HeadInv' /\ DiskInv'
  BY <1>1, <1>2 DEF JobInv, HeadInv, DiskInv
<1>10. MemoryInv'
  <2>1. \A i \in b + 1 .. k : \E j \in 1 .. Len(todo') : todo'[j] = Call("fill", "block", i)
    BY <1>1, <1>3 DEF RebaseCallsOK
  <2>2. head' \in b + 1 .. k /\ \A i \in First' .. head' : i \in b + 1 .. k
    BY <1>1, <1>5, <1>6 DEF First
  <2> QED
    BY <2>1, <2>2 DEF MemoryInv, Pending
<1>11. TransferInv'
  <2>1. ASSUME NEW j \in 1 .. Len(calls) PROVE OrderOK(j)'
    <3>1. Ordered(calls, b, k, j) /\ calls[j].n \in Nat /\ j \in Nat
      <4>1. calls[j] \in Calls
        BY <1>4, <2>1, ElementOfSeq
      <4> QED
        BY <1>3, <1>4, <2>1, <4>1 DEF Calls, Numbers, RebaseCallsOK
    <3>2. calls[j].n > asked' + 1 => calls[j].n > b + 1
      BY <1>5, <1>6, <3>1
    <3>3. j > 1 => j # 1
      BY <3>1
    <3> QED
      BY <1>1, <3>1, <3>2, <3>3 DEF OrderOK, Ordered
  <2>2. ASSUME disk.head \in Numbers, NEW i \in asked' + 2 .. disk.head PROVE Whole(disk, i)
    <3>1. asked' >= asked /\ asked \in Nat /\ asked' \in Nat /\ disk.head \in Nat
      <4>1. asked \in Nat /\ asked \in Numbers /\ b \in Numbers
        BY FirstDef, Constants DEF Inv, TypeInv, Numbers
      <4>2. asked' = Larger(asked, b) /\ Larger(asked, b) \in Numbers /\ Larger(asked, b) >= asked
        BY <1>1, <4>1, LargerDef
      <4>3. disk.head \in Nat
        BY <2>2, Constants DEF Numbers
      <4> QED
        BY <1>6, <4>1, <4>2, <4>3
    <3>2. job = "none" /\ i \in First .. disk.head
      BY <1>1, <1>6, <2>2, <3>1, IdleDef, FirstDef
    <3> QED
      BY <2>2, <3>2 DEF Inv, DiskInv
  <2> QED
    BY <1>1, <2>1, <2>2 DEF TransferInv
<1> QED
  BY <1>7, <1>8, <1>9, <1>10, <1>11 DEF Inv

LEMMA PruneWithoutBaseInv ==
    ASSUME Inv, PruneWithoutBase
    PROVE  Inv'
<1>1. /\ Idle /\ up' = FALSE /\ job' = "prune"
      /\ UNCHANGED <<disk, head, base, todo, asked, settled, gap, crashes>>
  BY DEF PruneWithoutBase
<1>2. todo = <<>> /\ job = "none" /\ disk.base # Absent
  BY <1>1, IdleDef
<1>3. TypeInv'
  BY <1>1, <1>2 DEF Inv, TypeInv, Jobs
<1>4. TodoInv'
  BY <1>1, <1>2 DEF TodoInv
<1>5. First' = First
  BY <1>1 DEF First
<1> QED
  BY <1>1, <1>2, <1>3, <1>4, <1>5 DEF Inv, JobInv, HeadInv, MemoryInv, DiskInv, TransferInv

LEMMA CrashInv ==
    ASSUME Inv, Crash
    PROVE  Inv'
<1>1. /\ up' = FALSE /\ todo' = <<>> /\ crashes' = crashes + 1 /\ crashes < MaxCrashes
      /\ gap' = (gap \/ job = "rebase")
      /\ UNCHANGED <<disk, head, base, job, asked, settled>>
  BY DEF Crash
<1>2. TypeInv'
  <2>1. crashes' \in 0 .. MaxCrashes /\ gap' \in BOOLEAN /\ todo' \in Seq(Calls)
    BY <1>1, Constants DEF Inv, TypeInv
  <2> QED
    BY <1>1, <2>1 DEF Inv, TypeInv
<1>3. TodoInv'
  BY <1>1 DEF TodoInv
<1>4. First' \in Nat /\ First \in Nat /\ First' >= First
  <2>1. First' = asked + (IF gap' THEN 2 ELSE 1) /\ asked \in Nat /\ (gap => gap')
    BY <1>1, FirstDef DEF First
  <2> QED
    BY <2>1, FirstDef DEF First
<1>5. disk.head \in Numbers => disk.head \in Nat
  BY Constants DEF Numbers
<1>6. DiskInv' /\ TransferInv'
  BY <1>1, <1>4, <1>5 DEF Inv, DiskInv, TransferInv
<1> QED
  BY <1>1, <1>2, <1>3, <1>6 DEF Inv, JobInv, HeadInv, MemoryInv

\* The head a process finds is whole; it is the one of the head file, or the
\* one before if that is not whole, or 0.
LEMMA FoundHeadDef ==
    ASSUME Inv, NEW h \in FoundHead(disk)
    PROVE  /\ h \in Numbers /\ Whole(disk, h) /\ disk.base # Absent /\ disk.head # Absent
           /\ disk.head \in Numbers => h = disk.head \/ (h = disk.head - 1 /\ ~ Whole(disk, disk.head))
           /\ disk.head \notin Numbers => h = 0
<1> DEFINE k == HeadNumber(disk)
<1>1. disk.head # Absent /\ disk.base # Absent
  BY DEF FoundHead
<1>2. disk.head \in Numbers \cup {Torn} /\ (disk.head = Torn => k = 0) /\ (disk.head \in Numbers => k = disk.head)
  BY <1>1, Constants DEF Inv, TypeInv, DirOK, Directories, HeadNumber
<1> HIDE DEF k
<1>3. \/ h = k /\ Whole(disk, k)
      \/ h = k - 1 /\ h >= 0 /\ Whole(disk, h) /\ ~ Whole(disk, k)
  BY <1>1 DEF FoundHead, k
<1>4. k \in Nat /\ k <= MaxBlock
  BY <1>2, Constants DEF Numbers
<1>5. h \in Numbers
  BY <1>3, <1>4, Constants DEF Numbers
<1> QED
  BY <1>1, <1>2, <1>3, <1>4, <1>5, Constants DEF Numbers

LEMMA RestartInv ==
    ASSUME Inv, Restart
    PROVE  Inv'
<1>1. PICK h \in FoundHead(disk) : head' = h /\ settled' = h
  BY DEF Restart
<1>2. /\ ~up /\ base' = disk.base /\ up' = TRUE /\ job' = "none"
      /\ UNCHANGED <<disk, todo, asked, gap, crashes>>
  BY DEF Restart
<1>3. /\ h \in Numbers /\ Whole(disk, h) /\ disk.base # Absent /\ disk.head # Absent
      /\ disk.head \in Numbers => h = disk.head \/ (h = disk.head - 1 /\ ~ Whole(disk, disk.head))
      /\ disk.head \notin Numbers => h = 0
  BY FoundHeadDef
<1>4. /\ h \in Nat /\ asked \in Nat /\ (disk.head \in Numbers => disk.head \in Nat)
      /\ todo = <<>> /\ disk.base \in Numbers \cup {Torn}
  BY <1>2, <1>3 DEF Inv, TypeInv, DirOK, Directories, Numbers
<1>11. First' = First /\ First \in Nat /\ asked < First
  BY <1>2, FirstDef DEF First
<1>5. disk.head \in Numbers => \A i \in First .. disk.head : Whole(disk, i)
  <2>1. job = "rebase" => First = asked + 2
    BY <1>2 DEF Inv, JobInv, First
  <2> QED
    BY <2>1 DEF Inv, DiskInv, TransferInv
<1>6. TypeInv'
  BY <1>1, <1>2, <1>3, <1>4 DEF Inv, TypeInv, Jobs
<1>7. TodoInv' /\ JobInv'
  BY <1>1, <1>2, <1>3, <1>4 DEF TodoInv, JobInv, Inv
<1>8. HeadInv'
  BY <1>1, <1>2, <1>3, <1>4 DEF HeadInv
<1>9. MemoryInv'
  BY <1>1, <1>2, <1>3, <1>4, <1>5, <1>11 DEF MemoryInv
<1>10. DiskInv'
  <2> SUFFICES ASSUME disk.head \in Numbers
               PROVE  /\ \A i \in First .. disk.head : Whole(disk, i)
                      /\ disk.head <= h \/ disk.head < First
    BY <1>1, <1>2, <1>11 DEF DiskInv
  <2> QED
    BY <1>3, <1>4, <1>5, <1>11
<1>12. TransferInv'
  BY <1>2 DEF TransferInv
<1> QED
  BY <1>6, <1>7, <1>8, <1>9, <1>10, <1>12 DEF Inv

LEMMA NextInv == Inv /\ [Next]_vars => Inv'
<1> SUFFICES ASSUME Inv, [Next]_vars PROVE Inv'
  OBVIOUS
<1>1. CASE UNCHANGED vars
  BY <1>1 DEF vars, Inv, TypeInv, TodoInv, CallOK, JobInv, HeadInv, MemoryInv, DiskInv, TransferInv, OrderOK, First, Pending
<1>2. CASE CreateBlock
  BY <1>2, CreateBlockInv
<1>3. CASE \E k \in 1 .. MaxBlock : Prune(k)
  BY <1>3, PruneInv
<1>4. CASE \E b \in 0 .. MaxBlock, k \in 1 .. MaxBlock : Rebase(b, k)
  BY <1>4, RebaseInv
<1>5. CASE PruneWithoutBase
  BY <1>5, PruneWithoutBaseInv
<1>6. CASE DoCall
  BY <1>6, DoCallInv
<1>7. CASE Crash
  BY <1>7, CrashInv
<1>8. CASE Restart
  BY <1>8, RestartInv
<1> QED
  BY <1>1, <1>2, <1>3, <1>4, <1>5, <1>6, <1>7, <1>8 DEF Next

-----------------------------------------------------------------------------
(* The theorems about the directory                                         *)

\* SpecInv: the invariant holds in every reachable state of Files.
THEOREM SpecInv == Spec => []Inv
BY InitInv, NextInv, PTL DEF Spec

\* TypeCorrect: every variable has its type, every block file is empty or holds
\* its own block, and an operation runs exactly while it has calls to make.
THEOREM TypeCorrect == Spec => []TypeOK
<1>1. Inv => TypeOK
  BY Constants DEF Inv, TypeInv, TypeOK, DirOK, Directories, BlockFiles, Numbers, Jobs
<1> QED
  BY <1>1, SpecInv, PTL

\* HeadSurvives: whenever the process is killed, between any two system calls,
\* the next one finds the head of the last operation or the block made after it
\* (files.rs new, read_head), if it was not pruned and the head file is whole.
THEOREM HeadSurvives == Spec => []HeadRecovered
<1>1. Inv => HeadRecovered
  <2> SUFFICES ASSUME Inv, disk.head \notin {Torn, Absent}, job # "rebase", settled > asked
               PROVE  \E h \in FoundHead(disk) : settled <= h /\ h <= settled + 1
    BY DEF HeadRecovered
  <2>1. /\ disk.head \in Numbers /\ asked \in Nat /\ settled \in Nat
        /\ Whole(disk, settled) /\ disk.head \in {settled, settled + 1}
    BY DEF Inv, TypeInv, DirOK, Directories, HeadInv, Numbers
  <2>2. disk.base # Absent /\ HeadNumber(disk) = disk.head
    BY <2>1 DEF Inv, JobInv, HeadNumber
  <2>3. CASE Whole(disk, disk.head)
    <3>1. disk.head \in FoundHead(disk)
      BY <2>1, <2>2, <2>3 DEF FoundHead
    <3> QED
      BY <2>1, <3>1
  <2>4. CASE ~ Whole(disk, disk.head)
    <3>1. disk.head - 1 = settled
      BY <2>1, <2>4
    <3>2. settled \in FoundHead(disk)
      BY <2>1, <2>2, <2>4, <3>1 DEF FoundHead
    <3> QED
      BY <2>1, <3>2
  <2> QED
    BY <2>3, <2>4
<1> QED
  BY <1>1, SpecInv, PTL

\* ChainSurvives: between operations every block above the highest prune, up to
\* the head, can be read back, after any kills; but for the first of them, if a
\* kill has cut a transfer.
THEOREM ChainSurvives == Spec => []ChainReadable
<1>1. Inv => ChainReadable
  BY IdleDef DEF ChainReadable, First
<1> QED
  BY <1>1, SpecInv, PTL

-----------------------------------------------------------------------------
(* The twin InMemory                                                        *)

\* storage holds the blocks after b up to h.
Blocks(s, b, h) ==
    /\ s \in Seq(Int) /\ Len(s) = h - b
    /\ \A i \in 1 .. Len(s) : s[i] = b + i

\* Block i is not on disk, or will be removed.
Going(i) ==
    i \notin DOMAIN disk.block \/ \E j \in 1 .. Len(todo) : todo[j] = Call("remove", "block", i)

\* What InMemory holds and what Files holds or is about to.
FollowInv ==
    /\ up /\ ~gap /\ job # "rebase"
    /\ base \in Nat /\ base = asked /\ base <= head /\ memory.base = base
    /\ job = "create" => base < head
    /\ Blocks(memory.storage, base, head)
    /\ \A i \in 1 .. MaxBlock : i \notin base + 1 .. head => Going(i)

TwinInv ==
    /\ memory \in [base : Int, storage : Seq(Int), is : {"used", "panicked", "left"}]
    /\ memory.is = "used" => FollowInv

LEMMA TwinInitInv == TwinInit => TwinInv
<1> SUFFICES ASSUME TwinInit PROVE TwinInv
  OBVIOUS
<1>1. /\ disk.block = [i \in {} |-> 0] /\ head = 0 /\ base = 0 /\ asked = 0 /\ up /\ ~gap
      /\ job = "bootstrap" /\ memory = [base |-> 0, storage |-> <<>>, is |-> "used"]
  BY DEF TwinInit, Init, New
<1>2. Blocks(<<>>, 0, 0)
  BY DEF Blocks
<1>3. \A i : Going(i)
  BY <1>1 DEF Going
<1> QED
  BY <1>1, <1>2, <1>3 DEF TwinInv, FollowInv

LEMMA MemoryHeadDef ==
    ASSUME NEW m, NEW h \in Nat, m.base \in Nat, Blocks(m.storage, m.base, h)
    PROVE  MemoryHead(m) = h
<1> DEFINE s == m.storage
<1>1. /\ s \in Seq(Int) /\ Len(s) = h - m.base /\ Len(s) \in Nat
      /\ \A i \in 1 .. Len(s) : s[i] = m.base + i
  BY DEF Blocks
<1>2. s = <<>> <=> Len(s) = 0
  BY <1>1, EmptyDef
<1> HIDE DEF s
<1>3. CASE s = <<>>
  BY <1>1, <1>2, <1>3 DEF MemoryHead, s
<1>4. CASE s # <<>>
  <2>1. Len(s) \in 1 .. Len(s)
    BY <1>1, <1>2, <1>4
  <2>2. s[Len(s)] = h
    BY <1>1, <2>1
  <2> QED
    BY <1>4, <2>2 DEF MemoryHead, s
<1> QED
  BY <1>3, <1>4

LEMMA TwinCreateInv ==
    ASSUME Inv, TwinInv, CreateBlock, memory' = Use(Pushed(memory, MemoryHead(memory) + 1))
    PROVE  TwinInv'
<1>1. CASE memory.is # "used"
  BY <1>1 DEF TwinInv, Use
<1>2. CASE memory.is = "used"
  <2> DEFINE s == memory.storage
  <2> DEFINE t == Append(s, head + 1)
  <2>1. /\ memory \in [base : Int, storage : Seq(Int), is : {"used", "panicked", "left"}] /\ FollowInv
    BY <1>2 DEF TwinInv
  <2>2. /\ Idle /\ head \in Nat /\ head' = head + 1 /\ job' = "create"
        /\ UNCHANGED <<disk, base, up, asked, gap>>
    BY DEF CreateBlock, Inv, TypeInv, Numbers
  <2>3. MemoryHead(memory) = head
    <3>1. memory.base \in Nat /\ Blocks(memory.storage, memory.base, head)
      BY <2>1 DEF FollowInv
    <3> QED
      BY <2>2, <3>1, MemoryHeadDef
  <2>4. memory' = [memory EXCEPT !.storage = t]
    BY <1>2, <2>3 DEF Use, Pushed
  <2>5. /\ s \in Seq(Int) /\ Len(s) = head - base /\ \A i \in 1 .. Len(s) : s[i] = base + i
        /\ base \in Nat /\ base <= head
    BY <2>1 DEF FollowInv, Blocks
  <2>6. /\ t \in Seq(Int) /\ Len(t) = Len(s) + 1 /\ t[Len(s) + 1] = head + 1
        /\ \A i \in 1 .. Len(s) : t[i] = s[i]
    BY <2>2, <2>5
  <2> HIDE DEF s, t
  <2>7. Blocks(t, base, head + 1)
    <3>1. \A i \in 1 .. Len(t) : i \in 1 .. Len(s) \/ i = Len(s) + 1
      BY <2>5, <2>6
    <3>2. Len(t) = (head + 1) - base /\ base + (Len(s) + 1) = head + 1
      BY <2>2, <2>5, <2>6
    <3>3. ASSUME NEW i \in 1 .. Len(t) PROVE t[i] = base + i
      BY <2>5, <2>6, <3>1, <3>2, <3>3
    <3> QED
      BY <2>6, <3>2, <3>3 DEF Blocks
  <2>8. memory'.base = memory.base /\ memory'.storage = t /\ memory' \in [base : Int, storage : Seq(Int), is : {"used", "panicked", "left"}]
    BY <2>1, <2>4, <2>6
  <2>9. ASSUME NEW i \in 1 .. MaxBlock, i \notin base + 1 .. head + 1
        PROVE  i \notin DOMAIN disk.block
    <3>1. i \notin base + 1 .. head
      BY <2>2, <2>5, <2>9
    <3>2. Going(i) /\ Len(todo) = 0
      BY <2>1, <2>2, <3>1, IdleDef DEF FollowInv
    <3> QED
      BY <3>2 DEF Going
  <2>10. FollowInv'
    <3>1. base <= head + 1 /\ base < head + 1
      BY <2>2, <2>5
    <3>2. \A i \in 1 .. MaxBlock : i \notin base' + 1 .. head' => Going(i)'
      BY <2>2, <2>9 DEF Going
    <3> QED
      BY <2>1, <2>2, <2>7, <2>8, <3>1, <3>2 DEF FollowInv
  <2> QED
    BY <2>8, <2>10 DEF TwinInv
<1> QED
  BY <1>1, <1>2

LEMMA TwinPruneInv ==
    ASSUME Inv, TwinInv, NEW k \in 1 .. MaxBlock, Prune(k), memory' = Use(MemoryPrune(memory, k))
    PROVE  TwinInv'
<1> DEFINE Memories == [base : Int, storage : Seq(Int), is : {"used", "panicked", "left"}]
<1>1. CASE memory.is # "used"
  BY <1>1 DEF TwinInv, Use
<1>2. CASE memory.is = "used" /\ memory' = Panicked
  BY <1>2, EmptySeq DEF TwinInv, Panicked
<1>3. CASE memory.is = "used" /\ memory' # Panicked
  <2> DEFINE s == memory.storage
  <2> DEFINE t == SubSeq(s, k - base + 1, Len(s))
  <2>1. memory \in Memories /\ FollowInv
    BY <1>3 DEF TwinInv
  <2>2. /\ Idle /\ head \in Nat /\ base' = k /\ job' = "prune" /\ asked' = Larger(asked, k)
        /\ todo' = PruneCalls(base, k) /\ k \in Nat /\ base \in Numbers /\ k \in Numbers
        /\ UNCHANGED <<disk, head, up, gap>>
    BY Constants DEF Prune, Inv, TypeInv, Numbers
  <2>3. /\ s \in Seq(Int) /\ Len(s) = head - base /\ \A i \in 1 .. Len(s) : s[i] = base + i
        /\ base \in Nat /\ base <= head /\ base = asked /\ memory.base = base
    BY <2>1 DEF FollowInv, Blocks
  <2>4. base < k /\ k <= head /\ memory' = Drained(memory, k)
    BY <1>3, <2>2, <2>3 DEF Use, MemoryPrune, Offset
  <2>5. memory' = [memory EXCEPT !.base = k, !.storage = t]
    <3>1. k - Offset(memory) + 2 = k - base + 1
      BY <2>2, <2>3 DEF Offset
    <3> QED
      BY <2>4, <3>1 DEF Drained
  <2>6. /\ t \in Seq(Int) /\ Len(t) = head - k
        /\ \A i \in 1 .. Len(t) : t[i] = s[k - base + i] /\ k - base + i \in 1 .. Len(s)
    BY <2>2, <2>3, <2>4
  <2> HIDE DEF s, t
  <2>7. Blocks(t, k, head)
    <3>1. ASSUME NEW i \in 1 .. Len(t) PROVE t[i] = k + i
      <4>1. t[i] = base + (k - base + i)
        BY <2>3, <2>6
      <4> QED
        BY <2>2, <2>3, <2>6, <4>1
    <3> QED
      BY <2>6, <3>1 DEF Blocks
  <2>8. memory'.base = k /\ memory'.storage = t /\ memory' \in Memories
    <3>1. k \in Int
      BY <2>2
    <3> QED
      BY <2>1, <2>5, <2>6, <3>1
  <2>9. asked' = k
    BY <2>2, <2>3, <2>4 DEF Larger
  <2>10. ASSUME NEW i \in 1 .. MaxBlock, i \notin k + 1 .. head
         PROVE  i \notin DOMAIN disk.block \/ \E j \in 1 .. Len(todo') : todo'[j] = Call("remove", "block", i)
    <3>1. CASE i \in base + 1 .. head
      <4>1. /\ i - base + 1 \in 1 .. Removed(base, k)
            /\ base + (i - base + 1) - 1 = i
        BY <2>2, <2>3, <2>4, <2>10, <3>1 DEF Removed
      <4>2. /\ Removed(base, k) \in Nat /\ Len(PruneCalls(base, k)) = Removed(base, k) + 2
            /\ PruneCalls(base, k)[i - base + 1] = Call("remove", "block", base + (i - base + 1) - 1)
        BY <2>2, <4>1, PruneCallsDef
      <4>3. i - base + 1 \in 1 .. Len(todo') /\ todo'[i - base + 1] = Call("remove", "block", i)
        BY <2>2, <4>1, <4>2
      <4> QED
        BY <4>3
    <3>2. CASE i \notin base + 1 .. head
      <4>1. Going(i) /\ Len(todo) = 0
        BY <2>1, <2>2, <3>2, IdleDef DEF FollowInv
      <4> QED
        BY <4>1 DEF Going
    <3> QED
      BY <3>1, <3>2
  <2>11. FollowInv'
    <3>1. \A i \in 1 .. MaxBlock : i \notin base' + 1 .. head' => Going(i)'
      BY <2>2, <2>10 DEF Going
    <3> QED
      BY <2>1, <2>2, <2>4, <2>7, <2>8, <2>9, <3>1 DEF FollowInv
  <2> QED
    BY <2>8, <2>11 DEF TwinInv
<1> QED
  BY <1>1, <1>2, <1>3

\* A system call keeps what goes going, and writes no block that goes.
LEMMA TwinDoCallInv ==
    ASSUME Inv, TwinInv, DoCall, UNCHANGED memory
    PROVE  TwinInv'
<1> DEFINE c == todo[1]
<1>1. /\ todo # <<>> /\ todo \in Seq(Calls) /\ Len(todo) \in Nat /\ Len(todo) > 0
      /\ up /\ job # "none" /\ DirOK(disk) /\ c \in Calls
  BY DEF DoCall, Inv, TypeInv
<1>2. /\ Len(Tail(todo)) = Len(todo) - 1 /\ Head(todo) = c
      /\ \A j \in 1 .. Len(Tail(todo)) : Tail(todo)[j] = todo[j + 1]
  BY <1>1
<1>3. /\ disk' = After(disk, c) /\ todo' = Tail(todo) /\ job' \in {job, "none"}
      /\ UNCHANGED <<head, base, up, asked, gap>>
  BY <1>2 DEF DoCall
<1>4. CallOK(1)
  BY <1>1 DEF Inv, TodoInv
<1> HIDE DEF c
<1>5. ASSUME FollowInv, NEW i \in 1 .. MaxBlock, i \notin base + 1 .. head PROVE Going(i)'
  <2>1. Going(i) /\ i \in Nat /\ i > 0
    BY <1>5 DEF FollowInv
  <2>2. ASSUME NEW j \in 1 .. Len(todo), j # 1, todo[j] = Call("remove", "block", i) PROVE Going(i)'
    <3>1. j - 1 \in 1 .. Len(Tail(todo)) /\ Tail(todo)[j - 1] = todo[j - 1 + 1] /\ j - 1 + 1 = j
      BY <1>1, <1>2, <2>2
    <3>2. \E l \in 1 .. Len(todo') : todo'[l] = Call("remove", "block", i)
      BY <1>3, <2>2, <3>1
    <3> QED
      BY <3>2 DEF Going
  <2>3. CASE c = Call("remove", "block", i)
    <3>1. c.op = "remove" /\ c.n = i
      BY <2>3 DEF Call
    <3>2. i \notin DOMAIN disk'.block
      BY <1>1, <1>3, <3>1, AfterRemove
    <3> QED
      BY <3>2 DEF Going
  <2>4. CASE i \notin DOMAIN disk.block
    <3>1. CASE c.op = "remove"
      <4>1. SameBut(disk, disk', c.n) /\ c.n \notin DOMAIN disk'.block
        BY <1>1, <1>3, <3>1, AfterRemove
      <4> QED
        BY <2>4, <4>1 DEF Going, SameBut
    <3>2. CASE c.op # "remove" /\ c.file = "block"
      <4>1. SameBut(disk, disk', c.n)
        BY <1>1, <1>3, <3>2, AfterBlock
      <4>2. c.n # i
        <5>1. job \in {"create", "bootstrap"}
          BY <1>1, <1>4, <1>5, <3>2 DEF CallOK, FollowInv, Inv, TypeInv, Jobs, c
        <5>2. c.n = head
          BY <1>4, <3>2, <5>1 DEF CallOK, c
        <5>3. CASE job = "create"
          BY <1>5, <2>1, <5>2, <5>3 DEF FollowInv, Inv, TypeInv, Numbers
        <5>4. CASE job = "bootstrap"
          BY <1>1, <2>1, <5>2, <5>4 DEF Inv, JobInv
        <5> QED
          BY <5>1, <5>3, <5>4
      <4> QED
        BY <2>4, <4>1, <4>2 DEF Going, SameBut
    <3>3. CASE c.op # "remove" /\ c.file = "head"
      BY <1>1, <1>3, <2>4, <3>3, AfterHead DEF Going
    <3>4. CASE c.op # "remove" /\ c.file = "base"
      BY <1>1, <1>3, <2>4, <3>4, AfterBase DEF Going
    <3> QED
      BY <1>1, <3>1, <3>2, <3>3, <3>4 DEF Calls
  <2> QED
    BY <2>1, <2>2, <2>3, <2>4 DEF Going, c
<1>6. FollowInv => FollowInv'
  BY <1>1, <1>3, <1>5 DEF FollowInv
<1> QED
  BY <1>6 DEF TwinInv

LEMMA TwinNextInv == Inv /\ TwinInv /\ [TwinNext]_<<vars, memory>> => TwinInv'
<1> SUFFICES ASSUME Inv, TwinInv, [TwinNext]_<<vars, memory>> PROVE TwinInv'
  OBVIOUS
<1>1. CASE UNCHANGED <<vars, memory>>
  BY <1>1 DEF vars, TwinInv, FollowInv, Going
<1>2. CASE CreateBlock /\ memory' = Use(Pushed(memory, MemoryHead(memory) + 1))
  BY <1>2, TwinCreateInv
<1>3. CASE \E k \in 1 .. MaxBlock : Prune(k) /\ memory' = Use(MemoryPrune(memory, k))
  BY <1>3, TwinPruneInv
<1>4. CASE memory' = Use(Left)
  <2>1. memory' = Left \/ (memory.is # "used" /\ memory' = memory)
    BY <1>4 DEF Use
  <2>2. Left \in [base : Int, storage : Seq(Int), is : {"used", "panicked", "left"}] /\ Left.is # "used"
    BY DEF Left
  <2> QED
    BY <2>1, <2>2 DEF TwinInv
<1>5. CASE (PruneWithoutBase \/ Restart) /\ UNCHANGED memory
  <2>1. memory.is # "used"
    BY <1>5, FilesAssumption DEF TwinInv, FollowInv, PruneWithoutBase, Restart
  <2> QED
    BY <1>5, <2>1 DEF TwinInv
<1>6. CASE DoCall /\ UNCHANGED memory
  BY <1>6, TwinDoCallInv
<1> QED
  BY <1>1, <1>2, <1>3, <1>4, <1>5, <1>6 DEF TwinNext

\* TwinsAreFiles: what is proved of Files holds while InMemory runs beside it.
THEOREM TwinsAreFiles == TwinSpec => Spec
<1>1. TwinInit => Init
  BY DEF TwinInit
<1>2. [TwinNext]_<<vars, memory>> => [Next]_vars
  BY DEF TwinNext, Next, vars
<1> QED
  BY <1>1, <1>2, PTL DEF TwinSpec, Spec

\* TwinsAgree: InMemory and Files have the same base and head and give the same
\* answers between operations, for every sequence of stores and prunes, as long
\* as InMemory does not panic, no checkpoint is applied and nothing is killed.
THEOREM TwinsAgree == TwinSpec => []StoragesAgree
<1>1. Inv /\ TwinInv => StoragesAgree
  <2> SUFFICES ASSUME Inv, TwinInv, memory.is = "used", Idle
               PROVE  /\ base = memory.base /\ head = MemoryHead(memory)
                      /\ \A i \in 1 .. MaxBlock : MemoryRead(memory, i) = {n \in {i} : Whole(disk, i)}
    BY DEF StoragesAgree
  <2>1. FollowInv
    BY DEF TwinInv
  <2>2. /\ base \in Nat /\ base = asked /\ memory.base = base /\ head \in Nat
        /\ memory.storage \in Seq(Int) /\ Len(memory.storage) = head - base
        /\ \A i \in 1 .. Len(memory.storage) : memory.storage[i] = base + i
    BY <2>1 DEF FollowInv, Blocks, Inv, TypeInv, Numbers
  <2>3. MemoryHead(memory) = head
    BY <2>1, <2>2, MemoryHeadDef DEF FollowInv
  <2>4. ASSUME NEW i \in 1 .. MaxBlock
        PROVE  MemoryRead(memory, i) = {n \in {i} : Whole(disk, i)}
    <3>1. CASE i \in base + 1 .. head
      <4>1. Whole(disk, i)
        BY <2>1, <2>2, <3>1, IdleDef, FirstDef DEF FollowInv
      <4>2. /\ i >= Offset(memory) /\ i - Offset(memory) < Len(memory.storage)
            /\ i - Offset(memory) + 1 \in 1 .. Len(memory.storage) /\ base + (i - Offset(memory) + 1) = i
        BY <2>2, <3>1 DEF Offset
      <4>3. MemoryRead(memory, i) = {i}
        BY <2>2, <4>2 DEF MemoryRead
      <4> QED
        BY <4>1, <4>3
    <3>2. CASE i \notin base + 1 .. head
      <4>1. Going(i) /\ Len(todo) = 0
        BY <2>1, <3>2, IdleDef DEF FollowInv
      <4>2. ~ Whole(disk, i)
        BY <4>1 DEF Going, Whole
      <4>3. ~ (i >= Offset(memory) /\ i - Offset(memory) < Len(memory.storage))
        BY <2>2, <3>2 DEF Offset
      <4> QED
        BY <4>2, <4>3 DEF MemoryRead
    <3> QED
      BY <3>1, <3>2
  <2> QED
    BY <2>2, <2>3, <2>4
<1>2. TwinSpec => []Inv
  BY TwinsAreFiles, SpecInv, PTL
<1> QED
  BY <1>1, <1>2, TwinInitInv, TwinNextInv, PTL DEF TwinSpec
=============================================================================

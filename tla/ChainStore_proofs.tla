-------------------------- MODULE ChainStore_proofs --------------------------
(***************************************************************************)
(* What the operators of ChainStore compute, for logs and blocks of every  *)
(* length: which transactions a log contains, how the chain and the buffer *)
(* grow with it, and what storing and pruning leave on disk.               *)
(***************************************************************************)
EXTENDS ChainStore, WellFoundedInduction, TLAPS

-----------------------------------------------------------------------------
(* Natural numbers                                                          *)

\* Induction, with the formula as a set: a set with 0 and all successors
\* contains every natural number.
LEMMA SetInduction ==
    ASSUME NEW T, 0 \in T, \A n \in Nat : n \in T => n + 1 \in T
    PROVE  Nat \subseteq T
<1> DEFINE U == Nat \ T
<1> SUFFICES ASSUME U # {} PROVE FALSE
  OBVIOUS
<1>1. PICK x \in U : \A y \in U : <<y, x>> \notin OpToRel(<, Nat)
  <2> HIDE DEF U
  <2>1. U \subseteq Nat
    BY DEF U
  <2> QED
    BY <2>1, NatLessThanWellFounded, WFMin, Zenon
<1>2. \A y \in U : ~ (y < x)
  BY <1>1 DEF OpToRel
<1>3. x # 0
  OBVIOUS
<1>4. x - 1 \in Nat /\ x - 1 < x /\ x - 1 \in T
  BY <1>2, <1>3
<1>5. (x - 1) + 1 = x
  OBVIOUS
<1> QED
  BY <1>4, <1>5

\* What division by a positive number returns.
LEMMA DivDef ==
    ASSUME NEW n \in Nat, NEW m \in Nat \ {0}
    PROVE  /\ n \div m \in Nat /\ (n \div m) * m \in Nat
           /\ (n \div m) * m <= n /\ n < (n \div m) * m + m
OBVIOUS

LEMMA DivUnique ==
    ASSUME NEW n \in Nat, NEW m \in Nat \ {0}, NEW q \in Nat, q * m <= n, n < q * m + m
    PROVE  n \div m = q
OBVIOUS

\* The quotient grows when the next multiple is reached.
LEMMA DivStep ==
    ASSUME NEW n \in Nat, NEW m \in Nat \ {0}
    PROVE  (n + 1) \div m = IF n + 1 = (n \div m) * m + m THEN n \div m + 1 ELSE n \div m
<1> DEFINE q == n \div m
<1>1. q \in Nat /\ q * m \in Nat /\ q * m <= n /\ n < q * m + m
  BY DivDef
<1> HIDE DEF q
<1>2. (q + 1) * m = q * m + m /\ q + 1 \in Nat /\ n + 1 \in Nat
  BY <1>1
<1>3. CASE n + 1 = q * m + m
  <2>1. (n + 1) \div m = q + 1
    BY <1>1, <1>2, <1>3, DivUnique
  <2> QED
    BY <2>1, <1>3 DEF q
<1>4. CASE n + 1 # q * m + m
  <2>1. q * m <= n + 1 /\ n + 1 < q * m + m
    BY <1>1, <1>4
  <2>2. (n + 1) \div m = q
    BY <2>1, <1>1, <1>2, DivUnique
  <2> QED
    BY <2>2, <1>4 DEF q
<1> QED
  BY <1>3, <1>4

\* Division is monotone.
LEMMA DivMonotone ==
    ASSUME NEW k \in Nat, NEW n \in Nat, k <= n, NEW m \in Nat \ {0}
    PROVE  k \div m <= n \div m
<1> DEFINE p == k \div m
<1> DEFINE q == n \div m
<1>1. q \in Nat /\ q * m \in Nat /\ q * m <= n /\ n < q * m + m
  BY DivDef
<1>2. p \in Nat /\ p * m \in Nat /\ p * m <= k /\ k < p * m + m
  BY DivDef
<1> HIDE DEF p, q
<1>3. ASSUME q < p PROVE FALSE
  <2>1. (q + 1) * m <= p * m
    BY <1>1, <1>2, <1>3
  <2>2. (q + 1) * m = q * m + m
    BY <1>1
  <2> QED
    BY <2>1, <2>2, <1>1, <1>2
<1> QED
  BY <1>1, <1>2, <1>3 DEF p, q

-----------------------------------------------------------------------------
(* The transactions of a log                                                *)

\* g is TransactionsIn, as far as the first n requests.
FirstTransactions(requests, transactions, n, g) ==
    /\ g \in [0 .. n -> Seq(transactions)]
    /\ g[0] = <<>>
    /\ \A k \in 1 .. n :
          g[k] = IF requests[k] \in transactions THEN Append(g[k - 1], requests[k]) ELSE g[k - 1]

\* There is one such function for every n.
LEMMA FirstTransactionsExist ==
    ASSUME NEW requests, NEW transactions
    PROVE  \A n \in Nat : \E g : FirstTransactions(requests, transactions, n, g)
<1> DEFINE T == {n \in Nat : \E g : FirstTransactions(requests, transactions, n, g)}
<1>1. 0 \in T
  <2>1. FirstTransactions(requests, transactions, 0, [k \in 0 .. 0 |-> <<>>])
    BY DEF FirstTransactions
  <2> QED
    BY <2>1
<1>2. ASSUME NEW n \in Nat, n \in T PROVE n + 1 \in T
  <2>1. PICK g : FirstTransactions(requests, transactions, n, g)
    BY <1>2
  <2> DEFINE more == IF requests[n + 1] \in transactions THEN Append(g[n], requests[n + 1]) ELSE g[n]
  <2> DEFINE h == [k \in 0 .. n + 1 |-> IF k = n + 1 THEN more ELSE g[k]]
  <2>2. g \in [0 .. n -> Seq(transactions)] /\ g[0] = <<>>
    BY <2>1 DEF FirstTransactions
  <2>3. more \in Seq(transactions)
    BY <2>2
  <2>4. h \in [0 .. n + 1 -> Seq(transactions)] /\ h[0] = <<>>
    BY <2>2, <2>3
  <2>5. ASSUME NEW k \in 1 .. n + 1
        PROVE  h[k] = IF requests[k] \in transactions THEN Append(h[k - 1], requests[k]) ELSE h[k - 1]
    <3>1. CASE k = n + 1
      BY <3>1
    <3>2. CASE k \in 1 .. n
      BY <3>2, <2>1 DEF FirstTransactions
    <3> QED
      BY <3>1, <3>2
  <2>6. FirstTransactions(requests, transactions, n + 1, h)
    BY <2>4, <2>5 DEF FirstTransactions
  <2> QED
    BY <2>6
<1>3. Nat \subseteq T
  <2> HIDE DEF T
  <2> QED
    BY <1>1, <1>2, SetInduction
<1> QED
  BY <1>3

\* Two of them agree as far as both go.
LEMMA FirstTransactionsAgree ==
    ASSUME NEW requests, NEW transactions, NEW m \in Nat, NEW n \in Nat,
           NEW g, FirstTransactions(requests, transactions, m, g),
           NEW h, FirstTransactions(requests, transactions, n, h),
           NEW k \in Nat, k <= m, k <= n
    PROVE  g[k] = h[k]
<1> DEFINE T == {i \in Nat : i <= m /\ i <= n => g[i] = h[i]}
<1>1. 0 \in T
  BY DEF FirstTransactions
<1>2. ASSUME NEW i \in Nat, i \in T PROVE i + 1 \in T
  <2> SUFFICES ASSUME i + 1 <= m, i + 1 <= n PROVE g[i + 1] = h[i + 1]
    OBVIOUS
  <2>1. g[i] = h[i]
    BY <1>2
  <2>2. i + 1 \in 1 .. m /\ i + 1 \in 1 .. n /\ (i + 1) - 1 = i
    OBVIOUS
  <2> QED
    BY <2>1, <2>2 DEF FirstTransactions
<1>3. Nat \subseteq T
  <2> HIDE DEF T
  <2> QED
    BY <1>1, <1>2, SetInduction
<1> QED
  BY <1>3

\* The recursion of TransactionsIn, unfolded once.
THEOREM TransactionsInUnfold ==
    ASSUME NEW requests, NEW transactions
    PROVE  /\ TransactionsIn(requests, transactions) \in [Nat -> Seq(transactions)]
           /\ TransactionsIn(requests, transactions)[0] = <<>>
           /\ \A k \in Nat : requests[k + 1] \in transactions =>
                 TransactionsIn(requests, transactions)[k + 1] =
                     Append(TransactionsIn(requests, transactions)[k], requests[k + 1])
           /\ \A k \in Nat : requests[k + 1] \notin transactions =>
                 TransactionsIn(requests, transactions)[k + 1] = TransactionsIn(requests, transactions)[k]
<1> DEFINE First(n, g) == FirstTransactions(requests, transactions, n, g)
<1> DEFINE G(n) == CHOOSE g : First(n, g)
<1> DEFINE f == [n \in Nat |-> G(n)[n]]
<1>1. ASSUME NEW n \in Nat PROVE First(n, G(n))
  <2>1. \E g : First(n, g)
    BY FirstTransactionsExist
  <2> QED
    BY <2>1, Zenon
<1> HIDE DEF G
<1>2. f \in [Nat -> Seq(transactions)]
  BY <1>1 DEF FirstTransactions
<1>3. f[0] = <<>>
  BY <1>1 DEF FirstTransactions
<1>4. ASSUME NEW n \in Nat
      PROVE  f[n + 1] = IF requests[n + 1] \in transactions THEN Append(f[n], requests[n + 1]) ELSE f[n]
  <2>1. First(n, G(n)) /\ First(n + 1, G(n + 1))
    BY <1>1
  <2>2. G(n + 1)[n] = G(n)[n]
    BY <2>1, FirstTransactionsAgree
  <2>3. n + 1 \in 1 .. n + 1 /\ (n + 1) - 1 = n
    OBVIOUS
  <2>4. G(n + 1)[n + 1] = IF requests[n + 1] \in transactions
                          THEN Append(G(n + 1)[n], requests[n + 1]) ELSE G(n + 1)[n]
    BY <2>1, <2>3 DEF FirstTransactions
  <2> QED
    BY <2>2, <2>4
<1> DEFINE Body(h) == [k \in Nat |-> IF k = 0 THEN <<>>
                          ELSE IF requests[k] \in transactions THEN Append(h[k - 1], requests[k]) ELSE h[k - 1]]
<1> HIDE DEF f
<1>5. f = Body(f)
  <2>1. f = [k \in Nat |-> f[k]]
    BY <1>2
  <2>2. ASSUME NEW k \in Nat PROVE f[k] = Body(f)[k]
    <3>1. CASE k = 0
      BY <3>1, <1>3
    <3>2. CASE k # 0
      <4>1. k - 1 \in Nat /\ (k - 1) + 1 = k
        BY <3>2
      <4> QED
        BY <4>1, <3>2, <1>4
    <3> QED
      BY <3>1, <3>2
  <2> QED
    BY <2>1, <2>2
<1>6. TransactionsIn(requests, transactions) = CHOOSE h : h = Body(h)
  BY DEF TransactionsIn
<1> DEFINE t == TransactionsIn(requests, transactions)
<1>7. t = Body(t)
  <2> HIDE DEF Body
  <2> QED
    BY <1>5, <1>6, Zenon
<1> HIDE DEF t
<1>8. \A k \in Nat : t[k] = f[k]
  <2> DEFINE T == {k \in Nat : t[k] = f[k]}
  <2>1. 0 \in T
    BY <1>7, <1>3
  <2>2. ASSUME NEW k \in Nat, k \in T PROVE k + 1 \in T
    <3>1. t[k + 1] = IF requests[k + 1] \in transactions THEN Append(t[k], requests[k + 1]) ELSE t[k]
      <4>1. k + 1 \in Nat /\ k + 1 # 0 /\ (k + 1) - 1 = k
        OBVIOUS
      <4> QED
        BY <1>7, <4>1
    <3> QED
      BY <3>1, <1>4, <2>2
  <2>3. Nat \subseteq T
    <3> HIDE DEF T
    <3> QED
      BY <2>1, <2>2, SetInduction
  <2> QED
    BY <2>3
<1>9. t = f
  <2>1. t = [k \in Nat |-> t[k]] /\ f = [k \in Nat |-> f[k]]
    BY <1>7, <1>2
  <2> QED
    BY <2>1, <1>8
<1> QED
  BY <1>9, <1>2, <1>3, <1>4 DEF t

\* The next request, if it is a transaction, and if it is none.
LEMMA TransactionsInTx ==
    ASSUME NEW requests, NEW transactions, NEW k \in Nat, requests[k + 1] \in transactions
    PROVE  TransactionsIn(requests, transactions)[k + 1] =
               Append(TransactionsIn(requests, transactions)[k], requests[k + 1])
<1> DEFINE t == TransactionsIn(requests, transactions)
<1>1. \A n \in Nat : requests[n + 1] \in transactions => t[n + 1] = Append(t[n], requests[n + 1])
  BY TransactionsInUnfold
<1> HIDE DEF t
<1>2. t[k + 1] = Append(t[k], requests[k + 1])
  BY <1>1
<1> QED
  BY <1>2 DEF t

LEMMA TransactionsInOther ==
    ASSUME NEW requests, NEW transactions, NEW k \in Nat, requests[k + 1] \notin transactions
    PROVE  TransactionsIn(requests, transactions)[k + 1] = TransactionsIn(requests, transactions)[k]
<1> DEFINE t == TransactionsIn(requests, transactions)
<1>1. \A n \in Nat : requests[n + 1] \notin transactions => t[n + 1] = t[n]
  BY TransactionsInUnfold
<1> HIDE DEF t
<1>2. t[k + 1] = t[k]
  BY <1>1
<1> QED
  BY <1>2 DEF t

-----------------------------------------------------------------------------
(* Headers                                                                  *)

\* What SubSeq returns, element by element.
LEMMA SubSeqDef ==
    ASSUME NEW S, NEW s \in Seq(S), NEW i \in Nat, NEW j \in Nat, 1 <= i, j <= Len(s), i <= j + 1
    PROVE  /\ SubSeq(s, i, j) \in Seq(S)
           /\ Len(SubSeq(s, i, j)) = j + 1 - i
           /\ \A k \in 1 .. j + 1 - i : SubSeq(s, i, j)[k] = s[i + k - 1]
OBVIOUS

\* Two sequences with the same elements are the same.
LEMMA SeqEqual ==
    ASSUME NEW S, NEW s \in Seq(S), NEW t \in Seq(S), Len(s) = Len(t),
           \A k \in 1 .. Len(s) : s[k] = t[k]
    PROVE  s = t
OBVIOUS

\* A function on 1 .. n is a sequence of length n.
LEMMA SeqFromFunction ==
    ASSUME NEW S, NEW n \in Nat, NEW f \in [1 .. n -> S]
    PROVE  f \in Seq(S) /\ Len(f) = n
OBVIOUS

\* The header of a block that a header commits to.
LEMMA UptoDef ==
    ASSUME NEW S, NEW h \in Seq(S), NEW i \in 0 .. Len(h)
    PROVE  /\ Upto(h, i) \in Seq(S)
           /\ Number(Upto(h, i)) = i
           /\ \A k \in 1 .. i : Upto(h, i)[k] = h[k]
BY DEF Upto, Number

LEMMA UptoSelf ==
    ASSUME NEW S, NEW h \in Seq(S)
    PROVE  Upto(h, Number(h)) = h
BY DEF Upto, Number

LEMMA UptoUpto ==
    ASSUME NEW S, NEW h \in Seq(S), NEW j \in 0 .. Len(h), NEW i \in 0 .. j
    PROVE  Upto(Upto(h, j), i) = Upto(h, i)
<1>1. /\ Upto(h, j) \in Seq(S) /\ Len(Upto(h, j)) = j
      /\ \A k \in 1 .. j : Upto(h, j)[k] = h[k]
  BY UptoDef DEF Number
<1>2. /\ Upto(h, i) \in Seq(S) /\ Len(Upto(h, i)) = i
      /\ \A k \in 1 .. i : Upto(h, i)[k] = h[k]
  <2>1. i \in 0 .. Len(h)
    OBVIOUS
  <2> QED
    BY <2>1, UptoDef DEF Number
<1>3. /\ Upto(Upto(h, j), i) \in Seq(S) /\ Len(Upto(Upto(h, j), i)) = i
      /\ \A k \in 1 .. i : Upto(Upto(h, j), i)[k] = Upto(h, j)[k]
  BY <1>1, UptoDef DEF Number
<1> QED
  BY <1>1, <1>2, <1>3, SeqEqual

LEMMA NextHeaderDef ==
    ASSUME NEW S, NEW h \in Seq(S), NEW data \in S
    PROVE  /\ NextHeader(h, data) \in Seq(S)
           /\ Number(NextHeader(h, data)) = Number(h) + 1
           /\ \A i \in 0 .. Number(h) : Upto(NextHeader(h, data), i) = Upto(h, i)
<1>1. /\ NextHeader(h, data) \in Seq(S) /\ Len(NextHeader(h, data)) = Len(h) + 1
      /\ \A k \in 1 .. Len(h) : NextHeader(h, data)[k] = h[k]
  BY DEF NextHeader
<1>2. ASSUME NEW i \in 0 .. Number(h) PROVE Upto(NextHeader(h, data), i) = Upto(h, i)
  <2>1. i \in 0 .. Len(h) /\ i \in 0 .. Len(NextHeader(h, data))
    BY <1>1 DEF Number
  <2>2. /\ Upto(h, i) \in Seq(S) /\ Len(Upto(h, i)) = i
        /\ \A k \in 1 .. i : Upto(h, i)[k] = h[k]
    BY <2>1, UptoDef DEF Number
  <2>3. /\ Upto(NextHeader(h, data), i) \in Seq(S) /\ Len(Upto(NextHeader(h, data), i)) = i
        /\ \A k \in 1 .. i : Upto(NextHeader(h, data), i)[k] = NextHeader(h, data)[k]
    BY <1>1, <2>1, UptoDef DEF Number
  <2> QED
    BY <1>1, <2>1, <2>2, <2>3, SeqEqual
<1> QED
  BY <1>1, <1>2 DEF Number

-----------------------------------------------------------------------------
(* Blocks                                                                   *)

\* How long the chain and the buffer are; no buffer is a full block.
THEOREM CutType ==
    ASSUME NEW S, NEW s \in Seq(S), NEW max \in Nat \ {0}
    PROVE  /\ ChainOf(s, max) \in Seq(Seq(S)) /\ Len(ChainOf(s, max)) = Len(s) \div max
           /\ RestOf(s, max) \in Seq(S)
           /\ Len(RestOf(s, max)) = Len(s) - (Len(s) \div max) * max
           /\ Len(RestOf(s, max)) < max
<1> DEFINE q == Len(s) \div max
<1>1. q \in Nat /\ q * max \in Nat /\ q * max <= Len(s) /\ Len(s) < q * max + max
  BY DivDef
<1> HIDE DEF q
<1>2. ASSUME NEW i \in 1 .. q PROVE SubSeq(s, (i - 1) * max + 1, i * max) \in Seq(S)
  <2>1. i * max <= q * max /\ (i - 1) * max \in Nat /\ i * max = (i - 1) * max + max
    BY <1>1
  <2> QED
    BY <1>1, <2>1, SubSeqDef
<1>3. ChainOf(s, max) = [i \in 1 .. q |-> SubSeq(s, (i - 1) * max + 1, i * max)]
  BY DEF ChainOf, q
<1>4. RestOf(s, max) = SubSeq(s, q * max + 1, Len(s))
  BY DEF RestOf, q
<1>5. ChainOf(s, max) \in Seq(Seq(S)) /\ Len(ChainOf(s, max)) = q
  <2>1. ChainOf(s, max) \in [1 .. q -> Seq(S)]
    BY <1>2, <1>3
  <2> QED
    BY <1>1, <2>1, SeqFromFunction
<1>6. RestOf(s, max) \in Seq(S) /\ Len(RestOf(s, max)) = Len(s) - q * max
  <2> DEFINE a == q * max + 1
  <2>1. a \in Nat /\ 1 <= a /\ a <= Len(s) + 1 /\ Len(s) + 1 - a = Len(s) - q * max
    BY <1>1
  <2> HIDE DEF a
  <2>2. SubSeq(s, a, Len(s)) \in Seq(S) /\ Len(SubSeq(s, a, Len(s))) = Len(s) + 1 - a
    BY <2>1, SubSeqDef
  <2> QED
    BY <1>4, <2>1, <2>2 DEF a
<1> QED
  BY <1>1, <1>5, <1>6 DEF q

\* BlockCutter::append: with one more transaction the buffer becomes a block,
\* if that fills it, and is one longer otherwise.
THEOREM CutAppend ==
    ASSUME NEW S, NEW s \in Seq(S), NEW e \in S, NEW max \in Nat \ {0}
    PROVE  IF Len(RestOf(s, max)) + 1 = max
           THEN /\ ChainOf(Append(s, e), max) = Append(ChainOf(s, max), Append(RestOf(s, max), e))
                /\ RestOf(Append(s, e), max) = <<>>
           ELSE /\ ChainOf(Append(s, e), max) = ChainOf(s, max)
                /\ RestOf(Append(s, e), max) = Append(RestOf(s, max), e)
<1> DEFINE q == Len(s) \div max
<1> DEFINE t == Append(s, e)
<1> DEFINE r == RestOf(s, max)
<1> DEFINE p == q * max
<1>1. q \in Nat /\ p \in Nat /\ p <= Len(s) /\ Len(s) < p + max
  BY DivDef
<1>2. t \in Seq(S) /\ Len(t) = Len(s) + 1 /\ t[Len(s) + 1] = e /\ \A k \in 1 .. Len(s) : t[k] = s[k]
  OBVIOUS
<1>3. Len(t) \div max = IF Len(s) + 1 = p + max THEN q + 1 ELSE q
  <2>1. (Len(s) + 1) \div max = IF Len(s) + 1 = p + max THEN q + 1 ELSE q
    <3>1. Len(s) \in Nat
      OBVIOUS
    <3> QED
      BY <3>1, DivStep
  <2> QED
    BY <2>1, <1>2
<1>4. /\ ChainOf(s, max) \in Seq(Seq(S)) /\ Len(ChainOf(s, max)) = q
      /\ r \in Seq(S) /\ Len(r) = Len(s) - p /\ Len(r) \in Nat
  BY CutType
<1>5. /\ ChainOf(t, max) \in Seq(Seq(S)) /\ Len(ChainOf(t, max)) = Len(t) \div max
      /\ RestOf(t, max) \in Seq(S) /\ Len(RestOf(t, max)) = Len(t) - (Len(t) \div max) * max
  BY <1>2, CutType
<1>6. \A k \in 1 .. Len(r) : r[k] = s[p + k]
  <2> DEFINE a == q * max + 1
  <2>1. /\ a \in Nat /\ 1 <= a /\ a <= Len(s) + 1 /\ Len(s) \in Nat /\ Len(s) + 1 - a = Len(r)
        /\ \A k \in Nat : a + k - 1 = p + k
    BY <1>1, <1>4
  <2>2. r = SubSeq(s, a, Len(s))
    BY DEF RestOf
  <2>3. Len(r) \in Nat
    BY <1>4
  <2>4. a <= Len(s) + 1 /\ Len(s) <= Len(s)
    BY <2>1
  <2> HIDE DEF a, p, q, r, t
  <2>5. \A k \in 1 .. Len(s) + 1 - a : SubSeq(s, a, Len(s))[k] = s[a + k - 1]
    BY <2>1, <2>4, SubSeqDef
  <2>6. ASSUME NEW k \in 1 .. Len(r) PROVE r[k] = s[p + k]
    <3>1. k \in Nat
      BY <2>3
    <3> QED
      BY <3>1, <2>1, <2>2, <2>5
  <2> QED
    BY <2>6
<1>7. ASSUME NEW i \in 1 .. q PROVE ChainOf(t, max)[i] = ChainOf(s, max)[i]
  <2>1. i * max <= p /\ (i - 1) * max \in Nat /\ i * max = (i - 1) * max + max
    BY <1>1
  <2>2. i \in 1 .. Len(t) \div max
    BY <1>1, <1>3
  <2> DEFINE a == (i - 1) * max + 1
  <2> DEFINE b == i * max
  <2>3. ChainOf(t, max)[i] = SubSeq(t, a, b) /\ ChainOf(s, max)[i] = SubSeq(s, a, b)
    BY <2>2 DEF ChainOf
  <2>4. a \in Nat /\ b \in Nat /\ 1 <= a /\ a <= b + 1 /\ b <= Len(s) /\ b <= Len(t)
    BY <2>1, <1>1, <1>2
  <2> HIDE DEF a, b, t
  <2>5. /\ SubSeq(s, a, b) \in Seq(S) /\ Len(SubSeq(s, a, b)) = b + 1 - a
        /\ \A k \in 1 .. b + 1 - a : SubSeq(s, a, b)[k] = s[a + k - 1]
    BY <2>4, SubSeqDef
  <2>6. /\ SubSeq(t, a, b) \in Seq(S) /\ Len(SubSeq(t, a, b)) = b + 1 - a
        /\ \A k \in 1 .. b + 1 - a : SubSeq(t, a, b)[k] = t[a + k - 1]
    BY <2>4, <1>2, SubSeqDef
  <2>7. \A k \in 1 .. b + 1 - a : s[a + k - 1] = t[a + k - 1]
    BY <2>4, <1>2
  <2>8. SubSeq(s, a, b) = SubSeq(t, a, b)
    BY <2>5, <2>6, <2>7, SeqEqual
  <2> QED
    BY <2>3, <2>8
<1>a. p = q * max
  OBVIOUS
<1> HIDE DEF p, q, t, r
<1>8. CASE Len(r) + 1 = max
  <2>1. Len(s) + 1 = p + max /\ Len(t) \div max = q + 1
    BY <1>1, <1>3, <1>4, <1>8
  <2>2. (q + 1) * max = p + max /\ ((q + 1) - 1) * max = p
    BY <1>1, <1>a
  <2>3. RestOf(t, max) = <<>>
    BY <2>1, <2>2, <1>2, <1>5
  <2>4. ChainOf(t, max)[q + 1] = Append(r, e)
    <3> DEFINE a == p + 1
    <3> DEFINE b == p + max
    <3>1. ChainOf(t, max)[q + 1] = SubSeq(t, a, b)
      <4>1. q + 1 \in 1 .. Len(t) \div max /\ ((q + 1) - 1) * max + 1 = a /\ (q + 1) * max = b
        BY <1>1, <2>1, <2>2
      <4> QED
        BY <4>1 DEF ChainOf
    <3>2. a \in Nat /\ b \in Nat /\ 1 <= a /\ a <= b + 1 /\ b = Len(t) /\ b + 1 - a = max
      BY <1>1, <1>2, <2>1
    <3> HIDE DEF a, b
    <3>3. /\ SubSeq(t, a, b) \in Seq(S) /\ Len(SubSeq(t, a, b)) = max
          /\ \A k \in 1 .. max : SubSeq(t, a, b)[k] = t[a + k - 1]
      BY <3>2, <1>2, SubSeqDef
    <3>4. Append(r, e) \in Seq(S) /\ Len(Append(r, e)) = max /\ Append(r, e)[max] = e
          /\ \A k \in 1 .. max - 1 : Append(r, e)[k] = r[k]
      <4>1. /\ Append(r, e) \in Seq(S) /\ Len(Append(r, e)) = Len(r) + 1 /\ Append(r, e)[Len(r) + 1] = e
            /\ \A k \in 1 .. Len(r) : Append(r, e)[k] = r[k]
        BY <1>4
      <4>2. max - 1 = Len(r)
        BY <1>4, <1>8
      <4> QED
        BY <4>1, <4>2, <1>8
    <3>5. ASSUME NEW k \in 1 .. max PROVE SubSeq(t, a, b)[k] = Append(r, e)[k]
      <4>1. CASE k = max
        <5>1. t[a + k - 1] = e
          BY <4>1, <1>1, <1>2, <2>1 DEF a
        <5> QED
          BY <5>1, <4>1, <3>3, <3>4
      <4>2. CASE k \in 1 .. max - 1
        <5>1. r[k] = s[p + k] /\ p + k \in 1 .. Len(s) /\ a + k - 1 = p + k
          BY <4>2, <1>1, <1>4, <1>6, <1>8, <2>1 DEF a
        <5> QED
          BY <5>1, <4>2, <1>2, <3>3, <3>4
      <4>3. k = max \/ k \in 1 .. max - 1
        OBVIOUS
      <4> QED
        BY <4>1, <4>2, <4>3
    <3> QED
      BY <3>1, <3>3, <3>4, <3>5, SeqEqual
  <2>5. ChainOf(t, max) = Append(ChainOf(s, max), Append(r, e))
    <3>1. Append(r, e) \in Seq(S)
      BY <1>4
    <3> DEFINE c == Append(ChainOf(s, max), Append(r, e))
    <3>2. /\ c \in Seq(Seq(S)) /\ Len(c) = q + 1 /\ c[q + 1] = Append(r, e)
          /\ \A i \in 1 .. q : c[i] = ChainOf(s, max)[i]
      BY <3>1, <1>4
    <3> HIDE DEF c
    <3>3. ASSUME NEW i \in 1 .. q + 1 PROVE ChainOf(t, max)[i] = c[i]
      <4>1. i = q + 1 \/ i \in 1 .. q
        BY <1>1
      <4> QED
        BY <4>1, <3>2, <2>4, <1>7
    <3>4. ChainOf(t, max) \in Seq(Seq(S)) /\ Len(ChainOf(t, max)) = q + 1
      BY <1>5, <2>1
    <3>5. ChainOf(t, max) = c
      BY <3>2, <3>3, <3>4, SeqEqual
    <3> QED
      BY <3>5 DEF c
  <2> QED
    BY <2>3, <2>5, <1>8 DEF t, r
<1>9. CASE Len(r) + 1 # max
  <2>1. Len(s) + 1 # p + max /\ Len(t) \div max = q
    BY <1>1, <1>3, <1>4, <1>9
  <2>2. ChainOf(t, max) = ChainOf(s, max)
    BY <2>1, <1>4, <1>5, <1>7, SeqEqual
  <2>3. RestOf(t, max) = Append(r, e)
    <3> DEFINE a == p + 1
    <3> DEFINE b == Len(t)
    <3>1. RestOf(t, max) = SubSeq(t, a, b)
      BY <2>1, <1>a DEF RestOf
    <3>2. a \in Nat /\ b \in Nat /\ 1 <= a /\ a <= b + 1 /\ b = Len(s) + 1 /\ b + 1 - a = Len(r) + 1
      BY <1>1, <1>2, <1>4
    <3> HIDE DEF a, b
    <3>3. /\ SubSeq(t, a, b) \in Seq(S) /\ Len(SubSeq(t, a, b)) = Len(r) + 1
          /\ \A k \in 1 .. Len(r) + 1 : SubSeq(t, a, b)[k] = t[a + k - 1]
      BY <3>2, <1>2, SubSeqDef DEF b
    <3>4. Append(r, e) \in Seq(S) /\ Len(Append(r, e)) = Len(r) + 1 /\ Append(r, e)[Len(r) + 1] = e
          /\ \A k \in 1 .. Len(r) : Append(r, e)[k] = r[k]
      BY <1>4
    <3>5. ASSUME NEW k \in 1 .. Len(r) + 1 PROVE SubSeq(t, a, b)[k] = Append(r, e)[k]
      <4>1. CASE k = Len(r) + 1
        <5>1. a + k - 1 = Len(s) + 1
          BY <4>1, <1>1, <1>4 DEF a
        <5> QED
          BY <5>1, <4>1, <1>2, <3>3, <3>4
      <4>2. CASE k \in 1 .. Len(r)
        <5>1. r[k] = s[p + k] /\ p + k \in 1 .. Len(s) /\ a + k - 1 = p + k
          BY <4>2, <1>1, <1>4, <1>6 DEF a
        <5> QED
          BY <5>1, <4>2, <1>2, <3>3, <3>4
      <4>3. k = Len(r) + 1 \/ k \in 1 .. Len(r)
        BY <1>4
      <4> QED
        BY <4>1, <4>2, <4>3
    <3> QED
      BY <3>1, <3>3, <3>4, <3>5, SeqEqual
  <2> QED
    BY <2>2, <2>3, <1>9 DEF t, r
<1> QED
  BY <1>8, <1>9 DEF t, r

\* The chain after k requests is a prefix of the chain after one more.
LEMMA ChainGrowsByOne ==
    ASSUME NEW requests, NEW transactions, NEW max \in Nat \ {0}, NEW k \in Nat
    PROVE  LET chain == [j \in Nat |-> ChainOf(TransactionsIn(requests, transactions)[j], max)]
           IN  /\ Number(chain[k]) <= Number(chain[k + 1])
               /\ chain[k] = Upto(chain[k + 1], Number(chain[k]))
<1> DEFINE of == TransactionsIn(requests, transactions)
<1> DEFINE S == Seq(transactions)
<1>1. of[k] \in Seq(transactions) /\ of[k + 1] \in Seq(transactions)
  BY TransactionsInUnfold
<1>2. /\ requests[k + 1] \in transactions => of[k + 1] = Append(of[k], requests[k + 1])
      /\ requests[k + 1] \notin transactions => of[k + 1] = of[k]
  BY TransactionsInTx, TransactionsInOther
<1> HIDE DEF of
<1>3. /\ ChainOf(of[k], max) \in Seq(S)
      /\ RestOf(of[k], max) \in Seq(transactions)
  BY <1>1, CutType
<1>4. Upto(ChainOf(of[k], max), Number(ChainOf(of[k], max))) = ChainOf(of[k], max)
  BY <1>3, UptoSelf
<1>5. Number(ChainOf(of[k], max)) \in Nat
  BY <1>3 DEF Number
<1> DEFINE r == RestOf(of[k], max)
<1> DEFINE e == requests[k + 1]
<1>6. CASE e \in transactions /\ Len(r) + 1 = max
  <2>1. of[k + 1] = Append(of[k], e)
    BY <1>2, <1>6
  <2>2. ChainOf(of[k + 1], max) = NextHeader(ChainOf(of[k], max), Append(r, e))
    BY <2>1, <1>1, <1>6, CutAppend DEF NextHeader
  <2>3. Append(r, e) \in S
    BY <1>3, <1>6
  <2> HIDE DEF S, e, r
  <2>4. /\ Number(ChainOf(of[k + 1], max)) = Number(ChainOf(of[k], max)) + 1
        /\ Upto(ChainOf(of[k + 1], max), Number(ChainOf(of[k], max))) =
              Upto(ChainOf(of[k], max), Number(ChainOf(of[k], max)))
    BY <2>2, <2>3, <1>3, <1>5, NextHeaderDef
  <2> QED
    BY <2>4, <1>4, <1>5 DEF of
<1>7. CASE ~ (e \in transactions /\ Len(r) + 1 = max)
  <2>1. CASE e \notin transactions
    BY <2>1, <1>2, <1>4, <1>5 DEF of
  <2>2. CASE e \in transactions /\ Len(r) + 1 # max
    <3>1. of[k + 1] = Append(of[k], e)
      BY <1>2, <2>2
    <3>2. ChainOf(of[k + 1], max) = ChainOf(of[k], max)
      BY <3>1, <1>1, <2>2, CutAppend
    <3> QED
      BY <3>2, <1>4, <1>5 DEF of
  <2> QED
    BY <2>1, <2>2, <1>7
<1> QED
  BY <1>6, <1>7

\* Hence of the chain after any number of further requests: the chain never
\* changes, it only grows.
LEMMA ChainGrows ==
    ASSUME NEW requests, NEW transactions, NEW max \in Nat \ {0}, NEW j \in Nat, NEW k \in Nat, j <= k
    PROVE  LET chain == [i \in Nat |-> ChainOf(TransactionsIn(requests, transactions)[i], max)]
           IN  /\ Number(chain[j]) <= Number(chain[k])
               /\ chain[j] = Upto(chain[k], Number(chain[j]))
<1> DEFINE S == Seq(transactions)
<1> DEFINE chain == [i \in Nat |-> ChainOf(TransactionsIn(requests, transactions)[i], max)]
<1>1. ASSUME NEW i \in Nat PROVE chain[i] \in Seq(S)
  <2>1. TransactionsIn(requests, transactions)[i] \in Seq(transactions)
    BY TransactionsInUnfold
  <2> QED
    BY <2>1, CutType
<1>2. ASSUME NEW i \in Nat
      PROVE  /\ Number(chain[i]) <= Number(chain[i + 1])
             /\ chain[i] = Upto(chain[i + 1], Number(chain[i]))
  BY ChainGrowsByOne
<1> HIDE DEF chain, S
<1> DEFINE T == {i \in Nat : j <= i => /\ Number(chain[j]) <= Number(chain[i])
                                       /\ chain[j] = Upto(chain[i], Number(chain[j]))}
<1>3. \A i \in Nat : Number(chain[i]) \in Nat /\ chain[i] = Upto(chain[i], Number(chain[i]))
  BY <1>1, UptoSelf DEF Number
<1>4. 0 \in T
  <2>1. j <= 0 => j = 0
    OBVIOUS
  <2> QED
    BY <2>1, <1>3
<1>5. ASSUME NEW i \in Nat, i \in T PROVE i + 1 \in T
  <2>1. CASE j = i + 1
    BY <2>1, <1>3
  <2>2. CASE j <= i
    <3>1. Number(chain[j]) <= Number(chain[i]) /\ chain[j] = Upto(chain[i], Number(chain[j]))
      BY <1>5, <2>2
    <3>2. Number(chain[i]) <= Number(chain[i + 1]) /\ chain[i] = Upto(chain[i + 1], Number(chain[i]))
      BY <1>2
    <3>3. Number(chain[i]) \in 0 .. Len(chain[i + 1]) /\ Number(chain[j]) \in 0 .. Number(chain[i])
      BY <3>1, <3>2, <1>3 DEF Number
    <3>4. Upto(Upto(chain[i + 1], Number(chain[i])), Number(chain[j])) = Upto(chain[i + 1], Number(chain[j]))
      BY <3>3, <1>1, UptoUpto
    <3>5. chain[j] = Upto(chain[i + 1], Number(chain[j]))
      BY <3>1, <3>2, <3>4
    <3>6. Number(chain[j]) <= Number(chain[i + 1])
      BY <3>1, <3>2, <1>3
    <3> QED
      BY <3>5, <3>6
  <2>3. CASE ~ (j <= i + 1)
    BY <2>3
  <2> QED
    BY <2>1, <2>2, <2>3
<1>6. Nat \subseteq T
  <2> HIDE DEF T
  <2> QED
    BY <1>4, <1>5, SetInduction
<1> QED
  BY <1>6 DEF chain

-----------------------------------------------------------------------------
(* Verification                                                             *)

\* The blocks a header commits to, but for the genesis block.
Commits(h) == {Upto(h, i) : i \in 1 .. Number(h)}

\* A block that verifies commits to itself and to what the one before commits to.
LEMMA VerifyBlockDef ==
    ASSUME NEW S, NEW prev \in Seq(S), NEW h \in Seq(S), VerifyBlock(prev, h)
    PROVE  /\ Number(h) = Number(prev) + 1
           /\ Commits(h) = Commits(prev) \cup {h}
<1>1. h # <<>> /\ Upto(h, Number(h) - 1) = prev
  BY DEF VerifyBlock, Genesis
<1>2. Len(h) \in Nat /\ Len(h) > 0 /\ Number(h) = Len(h)
  BY <1>1 DEF Number
<1>3. Number(h) - 1 \in 0 .. Len(h) /\ Number(h) \in Nat
  BY <1>2
<1>4. Number(prev) = Number(h) - 1
  BY <1>1, <1>3, UptoDef
<1>5. ASSUME NEW i \in 1 .. Number(prev) PROVE Upto(h, i) = Upto(prev, i)
  <2>1. i \in 0 .. Number(h) - 1
    BY <1>3, <1>4
  <2> QED
    BY <1>1, <1>3, <2>1, UptoUpto
<1>6. Upto(h, Number(h)) = h
  BY UptoSelf
<1>7. Commits(h) = {Upto(h, i) : i \in 1 .. Number(prev)} \cup {Upto(h, Number(h))}
  <2>1. 1 .. Number(h) = (1 .. Number(prev)) \cup {Number(h)}
    BY <1>2, <1>3, <1>4
  <2> QED
    BY <2>1 DEF Commits
<1>8. {Upto(h, i) : i \in 1 .. Number(prev)} = Commits(prev)
  BY <1>5 DEF Commits
<1> QED
  BY <1>3, <1>4, <1>6, <1>7, <1>8

\* The last block of a chain that verifies commits to its blocks and to what the
\* header before them commits to, and to nothing else (verify_chain).
LEMMA VerifyChainDef ==
    ASSUME NEW S, NEW prev \in Seq(S), NEW blocks \in Seq(Seq(S)), VerifyChain(prev, blocks)
    PROVE  /\ Len(blocks) > 0
           /\ Commits(blocks[Len(blocks)]) \subseteq Commits(prev) \cup {blocks[j] : j \in 1 .. Len(blocks)}
           /\ Number(blocks[Len(blocks)]) = Number(prev) + Len(blocks)
<1> DEFINE all == Commits(prev) \cup {blocks[j] : j \in 1 .. Len(blocks)}
<1> DEFINE T == {n \in Nat : n + 1 <= Len(blocks) =>
                    Commits(blocks[n + 1]) \subseteq all /\ Number(blocks[n + 1]) = Number(prev) + (n + 1)}
<1>1. /\ Len(blocks) \in Nat /\ Len(blocks) > 0
      /\ \A i \in 1 .. Len(blocks) : blocks[i] \in Seq(S) /\ blocks[i] \in all
      /\ \A i \in 1 .. Len(blocks) : VerifyBlock(IF i = 1 THEN prev ELSE blocks[i - 1], blocks[i])
  <2>1. blocks # <<>> /\ DOMAIN blocks = 1 .. Len(blocks) /\ Len(blocks) \in Nat
    BY DEF VerifyChain
  <2>2. \A i \in 1 .. Len(blocks) : VerifyBlock(IF i = 1 THEN prev ELSE blocks[i - 1], blocks[i])
    BY <2>1, Zenon DEF VerifyChain
  <2>3. \A i \in 1 .. Len(blocks) : blocks[i] \in Seq(S) /\ blocks[i] \in all
    OBVIOUS
  <2> QED
    BY <2>1, <2>2, <2>3
<1>2. Number(prev) \in Nat /\ Commits(prev) \subseteq all
  BY DEF Number
<1> HIDE DEF all
<1>3. 0 \in T
  <2>1. 1 \in 1 .. Len(blocks) /\ VerifyBlock(prev, blocks[1]) /\ blocks[1] \in Seq(S)
    BY <1>1
  <2>2. Number(blocks[1]) = Number(prev) + 1 /\ Commits(blocks[1]) = Commits(prev) \cup {blocks[1]}
    BY <2>1, VerifyBlockDef
  <2> QED
    BY <1>1, <1>2, <2>1, <2>2
<1>4. ASSUME NEW n \in Nat, n \in T PROVE n + 1 \in T
  <2> SUFFICES ASSUME n + 1 + 1 <= Len(blocks)
               PROVE  /\ Commits(blocks[n + 1 + 1]) \subseteq all
                      /\ Number(blocks[n + 1 + 1]) = Number(prev) + (n + 1 + 1)
    OBVIOUS
  <2> DEFINE g == blocks[n + 1]
  <2> DEFINE h == blocks[n + 1 + 1]
  <2>1. /\ n + 1 \in 1 .. Len(blocks) /\ n + 1 + 1 \in 1 .. Len(blocks) /\ n + 1 + 1 # 1
        /\ n + 1 + 1 - 1 = n + 1
    BY <1>1
  <2>2. g \in Seq(S) /\ h \in Seq(S) /\ h \in all /\ VerifyBlock(g, h)
    BY <1>1, <2>1
  <2>3. Commits(g) \subseteq all /\ Number(g) = Number(prev) + (n + 1)
    BY <1>1, <1>4, <2>1
  <2> HIDE DEF g, h
  <2>4. Number(h) = Number(g) + 1 /\ Commits(h) = Commits(g) \cup {h}
    BY <2>2, VerifyBlockDef
  <2>5. Commits(h) \subseteq all /\ Number(h) = Number(prev) + (n + 1 + 1)
    <3>1. Commits(h) \subseteq all
      BY <2>2, <2>3, <2>4
    <3>2. Number(h) = Number(prev) + (n + 1) + 1
      BY <2>3, <2>4
    <3>3. Number(prev) + (n + 1) + 1 = Number(prev) + (n + 1 + 1)
      BY <1>2
    <3> QED
      BY <3>1, <3>2, <3>3
  <2> QED
    BY <2>5 DEF h
<1> HIDE DEF T
<1>5. Nat \subseteq T
  BY <1>3, <1>4, SetInduction
<1>6. Len(blocks) - 1 \in T /\ Len(blocks) - 1 + 1 = Len(blocks)
  BY <1>1, <1>5
<1> QED
  BY <1>1, <1>6 DEF T, all

-----------------------------------------------------------------------------
(* Stores                                                                   *)

\* Headers of blocks of transactions, and stores of such blocks.
HeadersOf(transactions) == Seq(Seq(transactions))

BlockMaps(H) == UNION {[D -> H] : D \in SUBSET Nat}

Stores(H) == [blocks : BlockMaps(H), base : H, head : H, proof : Nat]

LEMMA BlockMapsDef ==
    ASSUME NEW H, NEW f
    PROVE  f \in BlockMaps(H) <=> f \in [DOMAIN f -> H] /\ DOMAIN f \subseteq Nat
BY DEF BlockMaps

\* What a store starts with.
LEMMA BootstrappedDef ==
    ASSUME NEW transactions
    PROVE  /\ Bootstrapped \in Stores(HeadersOf(transactions))
           /\ DOMAIN Bootstrapped.blocks = {0} /\ Bootstrapped.blocks[0] = Genesis
           /\ Bootstrapped.base = Genesis /\ Bootstrapped.head = Genesis /\ Bootstrapped.proof = 0
<1>1. Genesis \in HeadersOf(transactions)
  BY DEF Genesis, HeadersOf
<1> DEFINE f == [i \in {0} |-> Genesis]
<1>2. f \in BlockMaps(HeadersOf(transactions))
  BY <1>1, BlockMapsDef
<1> QED
  BY <1>1, <1>2 DEF Bootstrapped, Stores

\* store_block adds one file, or replaces it.
LEMMA StoreBlockDef ==
    ASSUME NEW transactions, NEW s \in Stores(HeadersOf(transactions)), NEW h \in HeadersOf(transactions)
    PROVE  /\ StoreBlock(s, h) \in Stores(HeadersOf(transactions))
           /\ StoreBlock(s, h).head = h /\ StoreBlock(s, h).base = s.base /\ StoreBlock(s, h).proof = s.proof
           /\ DOMAIN StoreBlock(s, h).blocks = DOMAIN s.blocks \cup {Number(h)}
           /\ StoreBlock(s, h).blocks[Number(h)] = h
           /\ \A i \in DOMAIN s.blocks : i # Number(h) => StoreBlock(s, h).blocks[i] = s.blocks[i]
<1> DEFINE H == HeadersOf(transactions)
<1>1. Number(h) \in Nat
  BY DEF Number, HeadersOf
<1> HIDE DEF H
<1>2. s.blocks \in [DOMAIN s.blocks -> H] /\ DOMAIN s.blocks \subseteq Nat
  BY BlockMapsDef DEF Stores, H
<1> DEFINE f == [i \in DOMAIN s.blocks \cup {Number(h)} |-> IF i = Number(h) THEN h ELSE s.blocks[i]]
<1>3. f \in BlockMaps(H)
  <2>1. f \in [DOMAIN f -> H] /\ DOMAIN f \subseteq Nat
    BY <1>1, <1>2 DEF H
  <2> HIDE DEF f
  <2> QED
    BY <2>1, BlockMapsDef
<1>4. StoreBlock(s, h) = [s EXCEPT !.blocks = f, !.head = h]
  BY DEF StoreBlock
<1>5. s \in [blocks : BlockMaps(H), base : H, head : H, proof : Nat]
  BY DEF Stores, H
<1>6. h \in H
  BY DEF H
<1> HIDE DEF f
<1>7. /\ StoreBlock(s, h) \in [blocks : BlockMaps(H), base : H, head : H, proof : Nat]
      /\ StoreBlock(s, h).blocks = f /\ StoreBlock(s, h).head = h
      /\ StoreBlock(s, h).base = s.base /\ StoreBlock(s, h).proof = s.proof
  BY <1>3, <1>4, <1>5, <1>6
<1> QED
  BY <1>7 DEF f, H, Stores

LEMMA StoreProofDef ==
    ASSUME NEW transactions, NEW s \in Stores(HeadersOf(transactions)), NEW c \in Nat
    PROVE  /\ StoreProof(s, c) \in Stores(HeadersOf(transactions))
           /\ StoreProof(s, c).head = s.head /\ StoreProof(s, c).base = s.base
           /\ StoreProof(s, c).blocks = s.blocks /\ StoreProof(s, c).proof = c
BY DEF StoreProof, Stores

\* prune_chain removes the files from the old base to the new one.
LEMMA PruneChainDef ==
    ASSUME NEW transactions, NEW s \in Stores(HeadersOf(transactions)), NEW h \in HeadersOf(transactions)
    PROVE  /\ PruneChain(s, h) \in Stores(HeadersOf(transactions))
           /\ PruneChain(s, h).head = s.head /\ PruneChain(s, h).base = h /\ PruneChain(s, h).proof = s.proof
           /\ DOMAIN PruneChain(s, h).blocks = DOMAIN s.blocks \ (Number(s.base) .. Number(h))
           /\ \A i \in DOMAIN PruneChain(s, h).blocks : PruneChain(s, h).blocks[i] = s.blocks[i]
<1> DEFINE H == HeadersOf(transactions)
<1> DEFINE f == Restrict(s.blocks, DOMAIN s.blocks \ (Number(s.base) .. Number(h)))
<1>1. s \in [blocks : BlockMaps(H), base : H, head : H, proof : Nat] /\ h \in H
  BY DEF Stores
<1> HIDE DEF H
<1>2. s.blocks \in [DOMAIN s.blocks -> H] /\ DOMAIN s.blocks \subseteq Nat
  BY <1>1, BlockMapsDef
<1>3. /\ DOMAIN f = DOMAIN s.blocks \ (Number(s.base) .. Number(h))
      /\ \A i \in DOMAIN f : f[i] = s.blocks[i]
      /\ f \in BlockMaps(H)
  <2>1. f = [i \in DOMAIN s.blocks \ (Number(s.base) .. Number(h)) |-> s.blocks[i]]
    BY DEF Restrict
  <2>2. f \in [DOMAIN f -> H] /\ DOMAIN f \subseteq Nat
    BY <1>2, <2>1
  <2> HIDE DEF f
  <2> QED
    BY <2>1, <2>2, BlockMapsDef
<1>4. PruneChain(s, h) = [s EXCEPT !.blocks = f, !.base = h]
  BY DEF PruneChain
<1> HIDE DEF f
<1>5. /\ PruneChain(s, h) \in [blocks : BlockMaps(H), base : H, head : H, proof : Nat]
      /\ PruneChain(s, h).blocks = f /\ PruneChain(s, h).head = s.head
      /\ PruneChain(s, h).base = h /\ PruneChain(s, h).proof = s.proof
  BY <1>1, <1>3, <1>4
<1> QED
  BY <1>3, <1>5 DEF H, Stores

\* blocks have the numbers after that of h; what rebase makes of a store then.
Follows(h, blocks) == blocks # <<>> /\ \A j \in 1 .. Len(blocks) : Number(blocks[j]) = Number(h) + j

RebasedTo(H, s, h, blocks, t) ==
    LET new == Number(h) + 1 .. Number(h) + Len(blocks)
    IN  /\ t \in Stores(H)
        /\ t.head = blocks[Len(blocks)] /\ t.base = h /\ t.proof = s.proof
        /\ DOMAIN t.blocks = (DOMAIN s.blocks \ (Number(s.base) .. Number(h))) \cup new
        /\ \A j \in 1 .. Len(blocks) : t.blocks[Number(h) + j] = blocks[j]
        /\ \A i \in DOMAIN t.blocks : i \notin new => t.blocks[i] = s.blocks[i]

\* rebase, with blocks that are numbered from the base on: they are on disk
\* afterwards, besides what the prune has left.
LEMMA RebaseDef ==
    ASSUME NEW transactions, NEW s \in Stores(HeadersOf(transactions)), NEW h \in HeadersOf(transactions),
           NEW blocks \in Seq(HeadersOf(transactions)), Follows(h, blocks)
    PROVE  RebasedTo(HeadersOf(transactions), s, h, blocks, Rebase(s, h, blocks))
<1> USE DEF Follows
<1> DEFINE H == HeadersOf(transactions)
<1> DEFINE p == PruneChain(s, h)
<1> DEFINE new == {Number(blocks[j]) : j \in DOMAIN blocks}
<1> DEFINE f == [i \in DOMAIN p.blocks \cup new |->
                    IF i \in new THEN blocks[CHOOSE j \in DOMAIN blocks : Number(blocks[j]) = i]
                    ELSE p.blocks[i]]
<1>1. Number(h) \in Nat /\ Len(blocks) \in Nat \ {0} /\ DOMAIN blocks = 1 .. Len(blocks)
  BY DEF Number, HeadersOf
<1>2. new = Number(h) + 1 .. Number(h) + Len(blocks)
  <2>1. new = {Number(h) + j : j \in 1 .. Len(blocks)}
    BY <1>1
  <2>2. \A i \in Number(h) + 1 .. Number(h) + Len(blocks) :
           i - Number(h) \in 1 .. Len(blocks) /\ Number(h) + (i - Number(h)) = i
    BY <1>1
  <2> HIDE DEF new
  <2> QED
    BY <1>1, <2>1, <2>2
<1>3. /\ p \in [blocks : BlockMaps(H), base : H, head : H, proof : Nat]
      /\ p.head = s.head /\ p.base = h /\ p.proof = s.proof
      /\ DOMAIN p.blocks = DOMAIN s.blocks \ (Number(s.base) .. Number(h))
      /\ \A i \in DOMAIN p.blocks : p.blocks[i] = s.blocks[i]
  BY PruneChainDef DEF Stores
<1>4. Rebase(s, h, blocks) = [p EXCEPT !.blocks = f, !.head = blocks[Len(blocks)]]
  BY DEF Rebase
<1>5. blocks \in Seq(H) /\ blocks[Len(blocks)] \in H
  BY <1>1
<1> HIDE DEF H, p
<1>6. p.blocks \in [DOMAIN p.blocks -> H] /\ DOMAIN p.blocks \subseteq Nat
  BY <1>3, BlockMapsDef
<1>7. ASSUME NEW j \in 1 .. Len(blocks) PROVE f[Number(h) + j] = blocks[j]
  <2> DEFINE i == Number(h) + j
  <2> DEFINE k == CHOOSE l \in DOMAIN blocks : Number(blocks[l]) = i
  <2>1. k \in DOMAIN blocks /\ Number(blocks[k]) = i
    <3>1. \E l \in DOMAIN blocks : Number(blocks[l]) = i
      BY <1>1
    <3> QED
      BY <3>1
  <2>2. f[i] = blocks[k]
    BY <1>1, <2>1
  <2> HIDE DEF k, f
  <2>3. k = j
    BY <1>1, <2>1
  <2> QED
    BY <2>2, <2>3
<1>8. DOMAIN f = DOMAIN p.blocks \cup new
  OBVIOUS
<1>9. ASSUME NEW i \in DOMAIN f, i \notin new PROVE f[i] = p.blocks[i] /\ i \in DOMAIN p.blocks
  BY <1>9
<1> HIDE DEF f, new
<1>10. f \in BlockMaps(H)
  <2>1. ASSUME NEW i \in DOMAIN f PROVE f[i] \in H
    <3>1. CASE i \in new
      <4>1. i - Number(h) \in 1 .. Len(blocks) /\ Number(h) + (i - Number(h)) = i
        BY <3>1, <1>1, <1>2
      <4>2. f[i] = blocks[i - Number(h)]
        BY <4>1, <1>7
      <4> QED
        BY <4>1, <4>2, <1>5
    <3>2. CASE i \notin new
      BY <3>2, <1>6, <1>9
    <3> QED
      BY <3>1, <3>2
  <2>2. f = [i \in DOMAIN f |-> f[i]]
    BY <1>4 DEF f
  <2>3. f \in [DOMAIN f -> H]
    BY <2>1, <2>2
  <2>4. DOMAIN f \subseteq Nat
    BY <1>1, <1>2, <1>6, <1>8
  <2> QED
    BY <2>3, <2>4, BlockMapsDef
<1>11. /\ Rebase(s, h, blocks) \in [blocks : BlockMaps(H), base : H, head : H, proof : Nat]
       /\ Rebase(s, h, blocks).blocks = f /\ Rebase(s, h, blocks).head = blocks[Len(blocks)]
       /\ Rebase(s, h, blocks).base = h /\ Rebase(s, h, blocks).proof = s.proof
  BY <1>3, <1>4, <1>5, <1>10
<1> QED
  BY <1>2, <1>3, <1>7, <1>8, <1>9, <1>11 DEF H, Stores, RebasedTo
=============================================================================

----------------------------- MODULE ChainStore -----------------------------
(***************************************************************************)
(* Block headers, hash verification and the operations of the Storage      *)
(* trait: rc-blockchain/src/{hashing,genesis,storage,storage/files}.rs and *)
(* rc-application/src/app/chain.rs.                                        *)
(*                                                                         *)
(* A header contains the hash of the header before it and the hash of its  *)
(* own data.  SHA-256 is taken to be free of collisions, so a header is    *)
(* the history it commits to: the sequence of the data of every block up   *)
(* to its own.  Its number is the length of that sequence, and the header  *)
(* its previous_hash names is that sequence without the last element.      *)
(*                                                                         *)
(* A store is a record of what struct Files holds in memory and of the     *)
(* block files of its directory:                                           *)
(*                                                                         *)
(*   blocks  a map from numbers to headers, one per block file;            *)
(*   base    the header of the last Delete; head the newest header;        *)
(*   proof   the sequence number of the stored checkpoint, 0 for none.     *)
(***************************************************************************)
EXTENDS Naturals, Sequences, Functions

\* GENESIS_HEAD, the header of block 0.
Genesis == <<>>

Number(h) == Len(h)

\* The header of block i among those h commits to.
Upto(h, i) == SubSeq(h, 1, i)

\* create_block: the header of the block that holds data and follows h.
NextHeader(h, data) == Append(h, data)

\* verify_block: the block's previous_hash is the hash of prev, and its data_hash
\* that of its data.  Numbers are not compared: that they follow one another,
\* and that all headers before agree, comes of a header being its history.  The
\* genesis header has a previous_hash that no header has.
VerifyBlock(prev, h) == h # Genesis /\ Upto(h, Number(h) - 1) = prev

\* verify_chain: the first block follows prev, each later one its predecessor.
VerifyChain(prev, blocks) ==
    /\ blocks # <<>>
    /\ \A i \in DOMAIN blocks :
          VerifyBlock(IF i = 1 THEN prev ELSE blocks[i - 1], blocks[i])

\* execute: of the first k ordered requests, those that are transactions.
TransactionsIn(requests, transactions) ==
    LET of[k \in Nat] ==
            IF k = 0 THEN <<>>
            ELSE IF requests[k] \in transactions THEN Append(of[k - 1], requests[k]) ELSE of[k - 1]
    IN  of

\* BlockCutter: the chain that transactions are cut into, and what is left in
\* the buffer, if every block has max of them.
ChainOf(transactions, max) ==
    [i \in 1 .. Len(transactions) \div max |-> SubSeq(transactions, (i - 1) * max + 1, i * max)]

RestOf(transactions, max) ==
    SubSeq(transactions, (Len(transactions) \div max) * max + 1, Len(transactions))

-----------------------------------------------------------------------------

\* Files::new with StorageMode::Bootstrap and the genesis block.
Bootstrapped == [blocks |-> [i \in {0} |-> Genesis], base |-> Genesis, head |-> Genesis, proof |-> 0]

\* store_block: the block file is written, whatever it held, and becomes the head.
StoreBlock(s, h) ==
    [s EXCEPT !.blocks = [i \in DOMAIN @ \cup {Number(h)} |-> IF i = Number(h) THEN h ELSE @[i]],
              !.head = h]

StoreProof(s, sequence) == [s EXCEPT !.proof = sequence]

\* A fault: the range of files ends one too far.
PruneOneMore(s, delete) ==
    [s EXCEPT !.blocks = Restrict(@, DOMAIN @ \ (Number(s.base) .. Number(delete) + 1)),
              !.base = delete]

\* prune_chain: the files from the old base to the new one go, whichever is
\* there; nothing checks that the base moves forward or that it is stored.
PruneChain(s, delete) ==
    [s EXCEPT !.blocks = Restrict(@, DOMAIN @ \ (Number(s.base) .. Number(delete))),
              !.base = delete]

\* rebase: prune to the base, then store every block; the last is the head.
Rebase(s, base, blocks) ==
    LET pruned == PruneChain(s, base)
        new == {Number(blocks[j]) : j \in DOMAIN blocks}
    IN  [pruned EXCEPT
            !.blocks = [i \in DOMAIN @ \cup new |->
                           IF i \in new
                           THEN blocks[CHOOSE j \in DOMAIN blocks : Number(blocks[j]) = i]
                           ELSE @[i]],
            !.head = blocks[Len(blocks)]]

\* read_block and read_header.
Reads(s, i) == i \in DOMAIN s.blocks

\* Files::new in Read mode: the header of the block the head file names, or of
\* the one before it.
FoundHead(s) ==
    LET k == Number(s.head)
    IN  IF Reads(s, k) THEN {s.blocks[k]}
        ELSE IF k > 0 /\ Reads(s, k - 1) THEN {s.blocks[k - 1]} ELSE {}
=============================================================================

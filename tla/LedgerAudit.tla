---------------------------- MODULE LedgerAudit -----------------------------
(***************************************************************************)
(* The audit of the ledger (contracts/ledger.py): verify_chain over the    *)
(* recorded blocks, and the queries transactions and get_statistics.       *)
(*                                                                         *)
(* Ledger numbers the hashes.  Here a hash is the material it is taken of, *)
(* so that equal hashes mean equal material: the audit recomputes hashes,  *)
(* Merkle roots and signatures from a chain that may have been altered.    *)
(***************************************************************************)
EXTENDS Ledger

-----------------------------------------------------------------------------
(***************************************************************************)
(* Hashes and signatures.                                                  *)
(***************************************************************************)
sha256_hex(material) == <<material>>

\* register issues keys when the network is formed: a validator is who has one.
IsValidator(v) == v \in Validators

\* ValidatorRegistry.sign and verify: the key is the validator's own.
Signature(v, message) == [key |-> v, message |-> message]
Verify(v, message, s) == IsValidator(v) /\ s = Signature(v, message)

\* Faulty variant of Evened: an odd level loses its last element.
Evened_Cut(level) == SubSeq(level, 1, 2 * (Len(level) \div 2))

\* An odd level has its last element twice.
Evened(level) ==
  IF Len(level) % 2 = 0 THEN level ELSE Append(level, level[Len(level)])

\* The level above one, which is the last when it has a single element.
Above(level) ==
  LET even == Evened(level)
  IN  IF Len(level) <= 1 THEN level
      ELSE [i \in 1 .. Len(even) \div 2 |-> <<even[2 * i - 1], even[2 * i]>>]

\* merkle_root
MerkleRoot(tx_digests) ==
  LET level[n \in 0 .. Len(tx_digests)] ==
        IF n = 0 THEN tx_digests ELSE Above(level[n - 1])
      top == level[Len(tx_digests)]
  IN  IF top = <<>> THEN <<>> ELSE top[1]

-----------------------------------------------------------------------------
(***************************************************************************)
(* What is recorded of an event, and of a block.                           *)
(***************************************************************************)
SigningMaterial(t) == <<t.event, t.payload_hash, t.committer_id>>
TxDigest(t) == sha256_hex(<<SigningMaterial(t), t.signature>>)
PayloadMatches(t) == t.payload_hash = sha256_hex(t.payload)

\* The committers are registered when the simulator is made: which one signs an
\* event does not matter here.
Committer == CHOOSE v \in Validators : TRUE

\* submit, for the event e.
Transaction(e) ==
  LET unsigned == [event |-> e, payload |-> e, payload_hash |-> sha256_hex(e),
                   committer_id |-> Committer]
  IN  [event |-> e, payload |-> e, payload_hash |-> unsigned.payload_hash,
       committer_id |-> Committer,
       signature |-> Signature(Committer, SigningMaterial(unsigned))]

HeaderMaterial(b) == <<b.index, b.prev_hash, b.timestamp, b.merkle_root>>
RecomputeHash(b) == sha256_hex(HeaderMaterial(b))
RootOf(txs) == MerkleRoot([i \in DOMAIN txs |-> TxDigest(txs[i])])

GENESIS_PREV == <<>>

\* propose_block, and the endorsements of E.
BlockOf(b, prev_hash, E) ==
  LET txs == [j \in DOMAIN b.txs |-> Transaction(b.txs[j])]
      header == [index |-> b.index, prev_hash |-> prev_hash, timestamp |-> b.hash,
                 merkle_root |-> RootOf(txs)]
  IN  [index |-> b.index, prev_hash |-> prev_hash, timestamp |-> b.hash,
       transactions |-> txs, merkle_root |-> header.merkle_root,
       block_hash |-> RecomputeHash(header),
       endorsements |-> [v \in E |-> Signature(v, HeaderMaterial(header))]]

\* The block made at position i.  The number of its hash stands for its timestamp,
\* and is the position of the first block with it.
Made[i \in DOMAIN blocks] ==
  BlockOf(blocks[i],
          IF blocks[i].prev = 0 THEN GENESIS_PREV ELSE Made[blocks[i].prev].block_hash,
          endorsements[i])

\* The chain as it is recorded.
Recorded == [k \in DOMAIN chain |-> Made[chain[k]]]

-----------------------------------------------------------------------------
(***************************************************************************)
(* The audit of a chain c.                                                 *)
(***************************************************************************)
HashSound(c, k) == c[k].block_hash = RecomputeHash(c[k])

Linked(c, k) ==
  c[k].prev_hash =
    (IF k = 1 THEN GENESIS_PREV ELSE c[k - 1].block_hash)

RootSound(c, k) == c[k].merkle_root = RootOf(c[k].transactions)

TransactionSound(t) ==
  PayloadMatches(t) /\ Verify(t.committer_id, SigningMaterial(t), t.signature)

Valid(b) ==
  {v \in DOMAIN b.endorsements :
     Verify(v, HeaderMaterial(b), b.endorsements[v])}

\* verify_chain
VerifyChain(c) ==
  \A k \in DOMAIN c :
    /\ HashSound(c, k) /\ Linked(c, k) /\ RootSound(c, k)
    /\ \A j \in DOMAIN c[k].transactions :
         TransactionSound(c[k].transactions[j])
    /\ k = 1 \/ Endorsed(Valid(c[k]))

\* transactions, of one zone.
Transactions(c, z) ==
  LET Matching(txs) == At(txs, {j \in DOMAIN txs : txs[j].event.by = z})
      upto[k \in 0 .. Len(c)] ==
        IF k = 0 THEN <<>> ELSE upto[k - 1] \o Matching(c[k].transactions)
  IN  upto[Len(c)]

\* get_statistics, with the events counted by zone.
Statistics(c) ==
  [blocks |-> Len(c),
   committed_transactions |-> [z \in Submitters |-> Len(Transactions(c, z))],
   pending_transactions |-> Len(pending),
   rejected_blocks |-> rejected,
   chain_valid |-> VerifyChain(c)]

-----------------------------------------------------------------------------
(***************************************************************************)
(* What the audit tells.                                                   *)
(***************************************************************************)

\* Single alterations of a transaction, of a block and of the chain.
AnotherPayload(t) == [t EXCEPT !.payload.no = 0]
Rehashed(t) == [t EXCEPT !.payload_hash = sha256_hex(t.payload)]
Sealed(b) ==
  LET r == [b EXCEPT !.merkle_root = RootOf(b.transactions)]
  IN  [r EXCEPT !.block_hash = RecomputeHash(r)]

AlteredTransactions(txs) ==
  {[txs EXCEPT ![j] = AnotherPayload(@)] : j \in DOMAIN txs}
    \cup {[txs EXCEPT ![j] = Rehashed(AnotherPayload(@))] : j \in DOMAIN txs}
    \cup {At(txs, DOMAIN txs \ {j}) : j \in DOMAIN txs}
    \cup {[txs EXCEPT ![j[1]] = txs[j[2]], ![j[2]] = txs[j[1]]] :
            j \in {p \in (DOMAIN txs) \X (DOMAIN txs) : p[1] < p[2]}}

AlteredBlocks(b) ==
  {[b EXCEPT !.transactions = txs] : txs \in AlteredTransactions(b.transactions)}
    \cup {[b EXCEPT !.timestamp = 0],
          [b EXCEPT !.index = @ + 1]}

\* The chain c with block k altered, as it is or with its root and hash taken anew.
AlteredAt(c, k) ==
  UNION {{[c EXCEPT ![k] = b], [c EXCEPT ![k] = Sealed(b)]} :
           b \in AlteredBlocks(c[k])}

\* The chain with one block left out and others after it.
Shortened(c) == {At(c, DOMAIN c \ {k}) : k \in 1 .. Len(c) - 1}

AlteredChains(c) == (UNION {AlteredAt(c, k) : k \in 2 .. Len(c)}) \cup Shortened(c)

\* The events of z in s.
EventsOf(s, z) == Cardinality({i \in DOMAIN s : s[i].by = z})

\* What an auditor is told is true.  The statistics account for every event that
\* was signed; the chain verifies, and so does a chain that ends earlier; it does
\* not once a payload, a transaction, a header, or the order of transactions was
\* altered, a block was left out, or a block has fewer endorsements than a quorum
\* (get_statistics, verify_chain).
AuditTells ==
  LET c == Recorded
      told == Statistics(c)
  IN  /\ told.chain_valid
      /\ \A z \in Submitters :
           told.committed_transactions[z] + EventsOf(pending, z)
             + (IF signing[z] THEN 1 ELSE 0) = signed[z]
      /\ \A k \in DOMAIN c : VerifyChain(SubSeq(c, 1, k))
      /\ \A a \in AlteredChains(c) : ~VerifyChain(a)
      /\ \A k \in 2 .. Len(c), E \in SUBSET Validators :
           VerifyChain([c EXCEPT ![k].endorsements =
                          [v \in DOMAIN @ \cap E |-> @[v]]])
             <=> Endorsed(DOMAIN c[k].endorsements \cap E)
=============================================================================

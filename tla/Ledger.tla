------------------------------- MODULE Ledger -------------------------------
(***************************************************************************)
(* The permissioned ledger (contracts/ledger.py) and the threads of the    *)
(* fog nodes that commit to it.                                            *)
(*                                                                         *)
(* A thread signs an event without the ledger's lock and queues it under   *)
(* the lock; the operations under the lock are one action each.  Blocks    *)
(* may also be proposed, endorsed and committed step by step, by callers   *)
(* that hold the proposed block in between: several of them at once.       *)
(*                                                                         *)
(* A transaction is known by the thread that signed it and the number of   *)
(* the signing: transactions differ in their signed material, and payloads *)
(* do not change after signing.                                            *)
(***************************************************************************)
EXTENDS Integers, Sequences, FiniteSets

CONSTANTS
  Validators,  \* the registered validators
  Submitters,  \* the threads of zones that commit events
  BlockSize,   \* block_size
  Proposers,   \* the validators that propose blocks by hand
  MaxBurst,    \* model bound: events one handler commits
  MaxTxs,      \* model bound: events each thread signs
  MaxBlocks,   \* model bound: blocks, besides those sealed automatically
  MaxRejected  \* model bound: commits refused

ASSUME ValidatorsAssumption == IsFiniteSet(Validators) /\ Validators # {}
ASSUME SubmittersAssumption == IsFiniteSet(Submitters)
ASSUME BlockSizeAssumption == BlockSize \in Nat \ {0}
ASSUME LedgerBounds ==
  /\ Proposers \subseteq Validators
  /\ MaxBurst \in Nat /\ MaxTxs \in Nat /\ MaxBlocks \in Nat
  /\ MaxRejected \in Nat

VARIABLES
  stopped,       \* stop_simulation was called
  todo,          \* events the handler a thread is in has still to commit
  signed,        \* how many events a thread has signed
  signing,       \* the last of them is not queued yet
  pending,       \* transactions waiting for a block
  blocks,        \* the Block objects made so far, the first is the genesis
  endorsements,  \* the validators whose signature a block carries
  chain,         \* the committed blocks, as positions in blocks
  rejected       \* _rejected

threadVars == <<todo, signed, signing>>
ledgerVars == <<pending, blocks, endorsements, chain, rejected>>
vars == <<stopped, threadVars, ledgerVars>>

\* A block's header names its transactions by their Merkle root, and its
\* parent by the parent's hash; 0 is the hash GENESIS_PREV.
Tx == [by : Submitters, no : Nat]
Block == [index : Nat, prev : Nat, txs : Seq(Tx), hash : Nat]

Genesis == [index |-> 0, prev |-> 0, txs |-> <<>>, hash |-> 1]

Elements(s) == {s[i] : i \in DOMAIN s}

-----------------------------------------------------------------------------
(***************************************************************************)
(* Blocks.                                                                 *)
(***************************************************************************)

\* ValidatorRegistry.fault_tolerance and quorum_size, for n validators.
FaultTolerance(n) == (n - 1) \div 3

QuorumSize(n) ==
  LET q == 2 * FaultTolerance(n) + 1 IN IF n <= q THEN n ELSE q

LastBlock == blocks[chain[Len(chain)]]

SameHeader(b, c) == b.index = c.index /\ b.prev = c.prev /\ b.txs = c.txs

\* The hash of a header is new, unless a block with the same contents was
\* made within the same tick of the clock.
HashOf(b, h) ==
  \/ h = Len(blocks) + 1
  \/ \E i \in DOMAIN blocks : SameHeader(b, blocks[i]) /\ h = blocks[i].hash

\* The block propose_block makes of the pending transactions P.
Proposal(P, h) ==
  [index |-> LastBlock.index + 1, prev |-> LastBlock.hash, txs |-> P, hash |-> h]

\* Faulty variant of Follows: does not check the parent.
Follows_Any(b) == TRUE

Follows(b) == b.prev = LastBlock.hash /\ b.index = LastBlock.index + 1

\* Endorsements are verified against the registry, where every key is.
Endorsed(E) ==
  LET q == QuorumSize(Cardinality(Validators))
  IN  Cardinality(E) >= (IF q >= 1 THEN q ELSE 1)

Accepts(b, E) == Follows(b) /\ Endorsed(E)

\* The elements of s at the positions K, in their order.
Rank(K, i) == Cardinality({m \in K : m <= i})
Ranked(K, j) == CHOOSE i \in K : Rank(K, i) = j
At(s, K) == [j \in 1 .. Cardinality(K) |-> s[Ranked(K, j)]]

\* Faulty variants of Remaining: clears what was queued since the proposal,
\* or nothing.
Remaining_None(P, b) == <<>>
Remaining_All(P, b) == P

\* The pending transactions P without those of the committed block b.
Remaining(P, b) == At(P, {i \in DOMAIN P : P[i] \notin Elements(b.txs)})

\* seal_block, with the pending transactions P: propose, have every validator
\* endorse, commit.
Seal(P) ==
  \E h \in 1 .. Len(blocks) + 1 :
    LET b == Proposal(P, h)
    IN  /\ HashOf(b, h)
        /\ blocks' = Append(blocks, b)
        /\ endorsements' = Append(endorsements, Validators)
        /\ \/ /\ Accepts(b, Validators)
              /\ chain' = Append(chain, Len(blocks) + 1)
              /\ pending' = Remaining(P, b)
              /\ UNCHANGED rejected
           \/ /\ ~Accepts(b, Validators)
              /\ pending' = P
              /\ rejected' = rejected + 1
              /\ UNCHANGED chain

-----------------------------------------------------------------------------
(***************************************************************************)
(* The threads of the fog nodes.                                           *)
(***************************************************************************)
\* A handler that will commit k events begins: it may be a route of k - 1 bins
\* (execute_route), a transfer, or a snapshot.  Loops begin none once stopped.
Begin(z) ==
  /\ ~stopped
  /\ todo[z] = 0
  /\ signed[z] < MaxTxs
  /\ \E k \in 1 .. MaxBurst : todo' = [todo EXCEPT ![z] = k]
  /\ UNCHANGED <<stopped, signed, signing, ledgerVars>>

\* Faulty variant of Sign: a commit the handler does not ask for.
Sign_Idle(z) ==
  /\ ~signing[z]
  /\ signed[z] < MaxTxs
  /\ signed' = [signed EXCEPT ![z] = @ + 1]
  /\ signing' = [signing EXCEPT ![z] = TRUE]
  /\ UNCHANGED <<stopped, todo, ledgerVars>>

\* submit, up to the lock.
Sign(z) ==
  /\ todo[z] > 0
  /\ ~signing[z]
  /\ signed[z] < MaxTxs
  /\ signed' = [signed EXCEPT ![z] = @ + 1]
  /\ signing' = [signing EXCEPT ![z] = TRUE]
  /\ UNCHANGED <<stopped, todo, ledgerVars>>

Signing(z) == [by |-> z, no |-> signed[z]]

Submitted(z) ==
  /\ signing[z]
  /\ signing' = [signing EXCEPT ![z] = FALSE]
  /\ todo' = [todo EXCEPT ![z] = @ - 1]
  /\ UNCHANGED <<stopped, signed>>

\* Faulty variant of Full: off by one.
Full_Beyond(P) == Len(P) > BlockSize

Full(P) == Len(P) >= BlockSize

\* submit, under the lock.
Submit(z) ==
  LET P == Append(pending, Signing(z))
  IN  /\ Submitted(z)
      /\ ~Full(P)
      /\ pending' = P
      /\ UNCHANGED <<blocks, endorsements, chain, rejected>>

SubmitAndSeal(z) ==
  LET P == Append(pending, Signing(z))
  IN  Submitted(z) /\ Full(P) /\ Seal(P)

Flush ==
  \/ pending # <<>> /\ Seal(pending)
  \/ pending = <<>> /\ UNCHANGED ledgerVars

\* The end of stop_simulation.
Stop ==
  /\ ~stopped
  /\ stopped' = TRUE
  /\ Flush
  /\ UNCHANGED threadVars

-----------------------------------------------------------------------------
(***************************************************************************)
(* Blocks proposed, endorsed and committed by hand.                        *)
(***************************************************************************)
ProposeBlock(v) ==
  /\ Len(blocks) < MaxBlocks
  /\ pending # <<>>
  /\ \E h \in 1 .. Len(blocks) + 1 :
       /\ HashOf(Proposal(pending, h), h)
       /\ blocks' = Append(blocks, Proposal(pending, h))
  /\ endorsements' = Append(endorsements, {v})
  /\ UNCHANGED <<stopped, threadVars, pending, chain, rejected>>

Endorse(i, v) ==
  /\ endorsements' = [endorsements EXCEPT ![i] = @ \cup {v}]
  /\ UNCHANGED <<stopped, threadVars, pending, blocks, chain, rejected>>

CommitBlock(i) ==
  /\ Accepts(blocks[i], endorsements[i])
  /\ chain' = Append(chain, i)
  /\ pending' = Remaining(pending, blocks[i])
  /\ UNCHANGED <<stopped, threadVars, blocks, endorsements, rejected>>

RefuseBlock(i) ==
  /\ rejected < MaxRejected
  /\ ~Accepts(blocks[i], endorsements[i])
  /\ rejected' = rejected + 1
  /\ UNCHANGED <<stopped, threadVars, pending, blocks, endorsements, chain>>

-----------------------------------------------------------------------------
Init ==
  /\ stopped = FALSE
  /\ todo = [z \in Submitters |-> 0]
  /\ signed = [z \in Submitters |-> 0]
  /\ signing = [z \in Submitters |-> FALSE]
  /\ pending = <<>>
  /\ blocks = <<Genesis>>
  /\ endorsements = <<{}>>
  /\ chain = <<1>>
  /\ rejected = 0

Next ==
  \/ \E z \in Submitters : Begin(z) \/ Sign(z) \/ Submit(z) \/ SubmitAndSeal(z)
  \/ Stop
  \/ \E v \in Proposers : ProposeBlock(v)
  \/ \E i \in DOMAIN blocks :
       \/ \E v \in Validators : i # 1 /\ Endorse(i, v)
       \/ CommitBlock(i)
       \/ RefuseBlock(i)

Spec == Init /\ [][Next]_vars

-----------------------------------------------------------------------------
(***************************************************************************)
(* Properties.                                                             *)
(***************************************************************************)

\* Every variable keeps its type, and every block of the chain exists.
TypeOK ==
  /\ stopped \in BOOLEAN
  /\ todo \in [Submitters -> Nat]
  /\ signed \in [Submitters -> Nat]
  /\ signing \in [Submitters -> BOOLEAN]
  /\ pending \in Seq(Tx)
  /\ blocks \in Seq(Block)
  /\ endorsements \in Seq(SUBSET Validators)
  /\ Len(endorsements) = Len(blocks)
  /\ chain \in Seq(DOMAIN blocks) /\ chain # <<>>
  /\ rejected \in Nat

\* Block k of the chain, and its transactions.
Committed(k) == blocks[chain[k]]

\* verify_chain finds nothing wrong: every block follows its predecessor and
\* carries a quorum, although several proposals compete for each position.
ChainVerifies ==
  /\ chain[1] = 1
  /\ \A k \in 2 .. Len(chain) :
       /\ Committed(k).index = k - 1
       /\ Committed(k).prev = Committed(k - 1).hash
       /\ Endorsed(endorsements[chain[k]])

\* The transactions of a thread are in s, and before those in t, in the order
\* of their signing; none is there twice.
Ordered(s) ==
  \A i, j \in DOMAIN s : i < j /\ s[i].by = s[j].by => s[i].no < s[j].no
Before(s, t) ==
  \A i \in DOMAIN s, j \in DOMAIN t : s[i].by = t[j].by => s[i].no < t[j].no

\* The chain, followed by what is pending, holds the events of a thread in the
\* order they happened, each once, although the blocks that compete for a
\* position hold the same transactions (submit, commit_block).
InOrder ==
  /\ Ordered(pending)
  /\ \A k \in DOMAIN chain :
       /\ Ordered(Committed(k).txs) /\ Before(Committed(k).txs, pending)
       /\ \A l \in DOMAIN chain :
            k < l => Before(Committed(k).txs, Committed(l).txs)

\* A full block is never left waiting: the submission that fills it seals it,
\* whatever blocks were proposed by hand (submit).
NeverFull == Len(pending) < BlockSize

\* The events signed and not yet in the chain.
InHand == {z \in Submitters : signing[z]}
Waiting == Elements(pending) \cup {Signing(z) : z \in InHand}

Audit == INSTANCE AuditLog WITH
  Events <- [by : Submitters, no : 1 .. MaxTxs],
  waiting <- Waiting,
  log <- [k \in DOMAIN chain |-> Elements(Committed(k).txs)]

\* The ledger is an append-only log: what was signed is waiting or logged, and
\* committing a block logs waiting events only (AuditLog).
KeepsAuditLog == Audit!AuditSpec
=============================================================================

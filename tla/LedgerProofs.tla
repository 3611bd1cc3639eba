---------------------------- MODULE LedgerProofs ----------------------------
(***************************************************************************)
(* Proofs about Ledger, for any number of validators, threads and blocks   *)
(* proposed at once.                                                       *)
(*                                                                         *)
(* What makes commit_block safe is that the position of a block decides:   *)
(* a block that fits the end of the chain was proposed after the last      *)
(* commit, and pending has only grown since, so the block's transactions   *)
(* are the first ones pending (Current, part of IInv).                     *)
(*                                                                         *)
(* What makes the audit tell is that hashes are equal for equal material   *)
(* only: roots of different lists differ (RootOfShorter), and signatures   *)
(* are of one header (AlteredBlockTold).                                   *)
(***************************************************************************)
EXTENDS LedgerAudit, FiniteSetTheorems, SequenceTheorems, WellFoundedInduction, TLAPS

-----------------------------------------------------------------------------
(***************************************************************************)
(* Sequences of transactions.                                              *)
(***************************************************************************)

\* What a sequence is to the provers.
LEMMA SeqFacts ==
  ASSUME NEW S, NEW s \in Seq(S)
  PROVE  /\ Len(s) \in Nat /\ DOMAIN s = 1 .. Len(s)
         /\ \A i \in 1 .. Len(s) : s[i] \in S
  OBVIOUS

\* The first n elements of P have been taken off.
Rest(P, n) == SubSeq(P, n + 1, Len(P))

LEMMA RestElements ==
  ASSUME NEW P \in Seq(Tx), NEW n \in 0 .. Len(P)
  PROVE  /\ Rest(P, n) \in Seq(Tx) /\ Len(Rest(P, n)) = Len(P) - n
         /\ DOMAIN Rest(P, n) = 1 .. Len(P) - n
         /\ \A j \in 1 .. Len(P) - n : Rest(P, n)[j] = P[n + j]
<1>1. /\ Len(P) \in Nat /\ n \in Nat /\ n <= Len(P)
      /\ \A i \in n + 1 .. Len(P) : P[i] \in Tx
  BY SeqFacts
<1>2. /\ Rest(P, n) \in Seq(Tx)
      /\ Len(Rest(P, n)) = IF n + 1 <= Len(P) THEN Len(P) - (n + 1) + 1 ELSE 0
      /\ \A j \in 1 .. Len(P) - (n + 1) + 1 : Rest(P, n)[j] = P[n + 1 + j - 1]
  BY <1>1, SubSeqProperties DEF Rest
<1>3. Len(Rest(P, n)) = Len(P) - n
  BY <1>1, <1>2
<1>4. DOMAIN Rest(P, n) = 1 .. Len(P) - n
  BY <1>2, <1>3, SeqFacts
<1>5. ASSUME NEW j \in 1 .. Len(P) - n PROVE Rest(P, n)[j] = P[n + j]
  <2>1. j \in 1 .. Len(P) - (n + 1) + 1 /\ n + 1 + j - 1 = n + j
    BY <1>1
  <2> QED BY <1>2, <2>1
<1> QED BY <1>2, <1>3, <1>4, <1>5

\* The elements of a sequence behind position n, picked one by one.
LEMMA PickedRest ==
  ASSUME NEW P \in Seq(Tx), NEW n \in 0 .. Len(P)
  PROVE  At(P, n + 1 .. Len(P)) = Rest(P, n)
<1> DEFINE K == n + 1 .. Len(P)
<1>0. Len(P) \in Nat /\ n \in Nat /\ n <= Len(P)
  BY SeqFacts
<1>1. Cardinality(K) = Len(P) - n
  <2>1. n + 1 \in Int /\ Len(P) \in Int
    BY <1>0
  <2>2. Cardinality(n + 1 .. Len(P))
          = IF n + 1 > Len(P) THEN 0 ELSE Len(P) - (n + 1) + 1
    BY <2>1, FS_Interval, Zenon
  <2> QED BY <1>0, <2>2
<1>2. ASSUME NEW i \in K PROVE Rank(K, i) = i - n
  <2>1. {m \in K : m <= i} = n + 1 .. i
    OBVIOUS
  <2>2. Cardinality(n + 1 .. i) = i - n
    BY FS_Interval
  <2> QED BY <2>1, <2>2 DEF Rank
<1>3. ASSUME NEW j \in 1 .. Len(P) - n
      PROVE  Ranked(K, j) = n + j
  <2>1. n + j \in K /\ Rank(K, n + j) = j
    BY <1>2
  <2>2. \A i \in K : Rank(K, i) = j => i = n + j
    BY <1>2
  <2> HIDE DEF K
  <2> QED BY <2>1, <2>2 DEF Ranked
<1> HIDE DEF K
<1>4. At(P, K) = [j \in 1 .. Len(P) - n |-> P[n + j]]
  BY <1>1, <1>3 DEF At
<1>5. Rest(P, n) = [j \in 1 .. Len(P) - n |-> P[n + j]]
  BY RestElements
<1> QED BY <1>4, <1>5 DEF K

\* The transactions t are the first ones of P.
IsPrefix(t, P) ==
  Len(t) <= Len(P) /\ \A j \in DOMAIN t : t[j] = P[j]

\* Committing the first pending transactions leaves the others.
LEMMA RemainingIsRest ==
  ASSUME NEW P \in Seq(Tx), Ordered(P), NEW b \in Block, IsPrefix(b.txs, P)
  PROVE  Remaining(P, b) = Rest(P, Len(b.txs))
<1> DEFINE t == b.txs
           K == {i \in DOMAIN P : P[i] \notin Elements(t)}
<1>1. t \in Seq(Tx) /\ Len(t) \in 0 .. Len(P)
  BY DEF Block, IsPrefix
<1>2. \A j \in 1 .. Len(t) : t[j] = P[j]
  BY <1>1 DEF IsPrefix
<1>3. \A i, j \in 1 .. Len(P) : i < j => P[i] # P[j]
  <2> SUFFICES ASSUME NEW i \in 1 .. Len(P), NEW j \in 1 .. Len(P), i < j,
                      P[i] = P[j]
               PROVE  FALSE
    OBVIOUS
  <2>1. P[i] \in Tx /\ P[i].no < P[j].no
    BY DEF Ordered
  <2> QED BY <2>1 DEF Tx
<1>4. ASSUME NEW i \in 1 .. Len(P)
      PROVE  P[i] \in Elements(t) <=> i <= Len(t)
  <2>1. ASSUME i <= Len(t) PROVE P[i] \in Elements(t)
    BY <1>1, <1>2, <2>1 DEF Elements
  <2>2. ASSUME P[i] \in Elements(t), i > Len(t) PROVE FALSE
    <3>1. PICK j \in 1 .. Len(t) : P[i] = t[j]
      BY <1>1, <2>2 DEF Elements
    <3>2. j \in 1 .. Len(P) /\ P[j] = P[i] /\ j < i
      BY <1>1, <1>2, <2>2, <3>1
    <3> QED BY <1>3, <3>2
  <2> QED BY <1>1, <2>1, <2>2
<1>5. K = Len(t) + 1 .. Len(P)
  BY <1>1, <1>4
<1>6. Remaining(P, b) = At(P, K)
  BY DEF Remaining
<1> HIDE DEF t, K
<1>7. At(P, K) = Rest(P, Len(t))
  BY <1>1, <1>5, PickedRest
<1> QED BY <1>6, <1>7 DEF t

-----------------------------------------------------------------------------
(***************************************************************************)
(* The order of transactions: P is pending, C the rows of the chain.       *)
(***************************************************************************)
Batches == [k \in DOMAIN chain |-> Committed(k).txs]

OrderedRows(P, C) ==
  /\ Ordered(P)
  /\ \A k \in DOMAIN C :
       /\ Ordered(C[k]) /\ Before(C[k], P)
       /\ \A l \in DOMAIN C : k < l => Before(C[k], C[l])

LEMMA InOrderRows == InOrder <=> OrderedRows(pending, Batches)
  BY DEF InOrder, OrderedRows, Batches

\* A transaction that is later than all of its thread may be queued.
LEMMA OrderAfterSubmit ==
  ASSUME NEW P \in Seq(Tx), NEW C \in Seq(Seq(Tx)), OrderedRows(P, C),
         NEW x \in Tx, Before(P, <<x>>),
         \A k \in DOMAIN C : Before(C[k], <<x>>)
  PROVE  OrderedRows(Append(P, x), C)
<1> DEFINE Q == Append(P, x)
<1>1. /\ Q \in Seq(Tx) /\ Len(Q) = Len(P) + 1 /\ Q[Len(P) + 1] = x
      /\ \A i \in 1 .. Len(P) : Q[i] = P[i]
      /\ Len(P) \in Nat /\ DOMAIN P = 1 .. Len(P)
      /\ DOMAIN Q = 1 .. Len(P) + 1
  OBVIOUS
<1>2. DOMAIN <<x>> = {1} /\ <<x>>[1] = x
  OBVIOUS
<1> HIDE DEF Q
<1>3. Ordered(Q)
  <2> SUFFICES ASSUME NEW i \in 1 .. Len(Q), NEW j \in 1 .. Len(Q), i < j,
                      Q[i].by = Q[j].by
               PROVE  Q[i].no < Q[j].no
    BY <1>1 DEF Ordered
  <2>1. CASE j <= Len(P)
    <3>1. i \in DOMAIN P /\ j \in DOMAIN P /\ Q[i] = P[i] /\ Q[j] = P[j]
      BY <1>1, <2>1
    <3> QED BY <3>1 DEF OrderedRows, Ordered
  <2>2. CASE j = Len(P) + 1
    BY <1>1, <1>2, <2>2 DEF Before
  <2> QED BY <1>1, <2>1, <2>2
<1>4. ASSUME NEW k \in DOMAIN C PROVE Before(C[k], Q)
  <2> SUFFICES ASSUME NEW i \in DOMAIN C[k], NEW j \in 1 .. Len(Q),
                      C[k][i].by = Q[j].by
               PROVE  C[k][i].no < Q[j].no
    BY <1>1 DEF Before
  <2>1. CASE j <= Len(P)
    <3>1. j \in DOMAIN P /\ Q[j] = P[j]
      BY <1>1, <2>1
    <3> QED BY <3>1 DEF OrderedRows, Before
  <2>2. CASE j = Len(P) + 1
    BY <1>1, <1>2, <2>2 DEF Before
  <2> QED BY <1>1, <2>1, <2>2
<1> QED BY <1>3, <1>4 DEF OrderedRows, Q

\* The first transactions of P may become the next row.
LEMMA OrderAfterCommit ==
  ASSUME NEW P \in Seq(Tx), NEW C \in Seq(Seq(Tx)), OrderedRows(P, C),
         NEW t \in Seq(Tx), IsPrefix(t, P)
  PROVE  OrderedRows(Rest(P, Len(t)), Append(C, t))
<1> DEFINE R == Rest(P, Len(t))
           D == Append(C, t)
<1>1. Len(t) \in 0 .. Len(P) /\ \A j \in 1 .. Len(t) : t[j] = P[j]
  BY DEF IsPrefix
<1>2. /\ R \in Seq(Tx) /\ DOMAIN R = 1 .. Len(P) - Len(t)
      /\ \A j \in 1 .. Len(P) - Len(t) : R[j] = P[Len(t) + j]
  BY <1>1, RestElements
<1>3. /\ DOMAIN D = 1 .. Len(C) + 1 /\ DOMAIN C = 1 .. Len(C) /\ Len(C) \in Nat
      /\ D[Len(C) + 1] = t /\ \A k \in 1 .. Len(C) : D[k] = C[k]
  OBVIOUS
<1>4. DOMAIN t = 1 .. Len(t) /\ DOMAIN P = 1 .. Len(P)
      /\ Len(t) \in Nat /\ Len(P) \in Nat
  OBVIOUS
<1> HIDE DEF R, D
<1>5. ASSUME NEW s PROVE Before(s, P) => Before(s, R) /\ Before(s, t)
  <2> SUFFICES ASSUME Before(s, P), NEW i \in DOMAIN s
               PROVE  /\ \A j \in DOMAIN R : s[i].by = R[j].by => s[i].no < R[j].no
                      /\ \A j \in DOMAIN t : s[i].by = t[j].by => s[i].no < t[j].no
    BY DEF Before
  <2>1. ASSUME NEW j \in DOMAIN R
        PROVE  Len(t) + j \in DOMAIN P /\ R[j] = P[Len(t) + j]
    <3>1. j \in 1 .. Len(P) - Len(t)
      BY <1>2
    <3> QED BY <3>1, <1>1, <1>2, <1>4
  <2>2. \A j \in DOMAIN t : j \in DOMAIN P /\ t[j] = P[j]
    BY <1>1, <1>4
  <2> QED BY <2>1, <2>2 DEF Before
<1>6. Ordered(R)
  <2> SUFFICES ASSUME NEW i \in DOMAIN R, NEW j \in DOMAIN R, i < j,
                      R[i].by = R[j].by
               PROVE  R[i].no < R[j].no
    BY DEF Ordered
  <2>1. i \in 1 .. Len(P) - Len(t) /\ j \in 1 .. Len(P) - Len(t)
    BY <1>2
  <2>2. R[i] = P[Len(t) + i] /\ R[j] = P[Len(t) + j]
    BY <1>2, <2>1
  <2>3. Len(t) + i \in DOMAIN P /\ Len(t) + j \in DOMAIN P
    BY <1>1, <1>4, <2>1
  <2>4. Len(t) + i < Len(t) + j
    BY <1>4, <2>1
  <2> QED BY <2>2, <2>3, <2>4 DEF OrderedRows, Ordered
<1>7. Ordered(t)
  BY <1>1, <1>4 DEF OrderedRows, Ordered
<1>8. Before(t, R)
  <2> SUFFICES ASSUME NEW i \in DOMAIN t, NEW j \in DOMAIN R, t[i].by = R[j].by
               PROVE  t[i].no < R[j].no
    BY DEF Before
  <2>1. /\ i \in DOMAIN P /\ Len(t) + j \in DOMAIN P /\ i < Len(t) + j
        /\ t[i] = P[i] /\ R[j] = P[Len(t) + j]
    BY <1>1, <1>2, <1>4
  <2> QED BY <2>1 DEF OrderedRows, Ordered
<1>9. ASSUME NEW k \in DOMAIN D
      PROVE  /\ Ordered(D[k]) /\ Before(D[k], R)
             /\ \A l \in DOMAIN D : k < l => Before(D[k], D[l])
  <2>1. CASE k = Len(C) + 1
    BY <1>3, <1>7, <1>8, <2>1
  <2>2. CASE k \in 1 .. Len(C)
    <3>1. D[k] = C[k] /\ Ordered(C[k]) /\ Before(C[k], P)
      BY <1>3, <2>2 DEF OrderedRows
    <3>2. \A l \in 1 .. Len(C) : k < l => Before(C[k], C[l])
      BY <1>3, <2>2 DEF OrderedRows
    <3> QED BY <1>3, <1>5, <3>1, <3>2
  <2> QED BY <1>3, <2>1, <2>2
<1> QED BY <1>6, <1>9 DEF OrderedRows, R, D
-----------------------------------------------------------------------------
(***************************************************************************)
(* Quorums.                                                                *)
(***************************************************************************)
LEMMA ValidatorCount ==
  IsFiniteSet(Validators) /\ Cardinality(Validators) \in Nat \ {0}
<1>1. IsFiniteSet(Validators) /\ Validators # {}
  BY ValidatorsAssumption
<1>2. Cardinality(Validators) \in Nat /\ Cardinality(Validators) # 0
  BY <1>1, FS_CardinalityType, FS_EmptySet
<1> QED BY <1>1, <1>2

\* The endorsements of all validators are enough, however few they are.
LEMMA AllEndorse == Endorsed(Validators)
<1> DEFINE n == Cardinality(Validators)
<1>1. n \in Nat \ {0}
  BY ValidatorCount
<1> HIDE DEF n
<1>2. QuorumSize(n) <= n /\ QuorumSize(n) \in Int
  BY <1>1 DEF QuorumSize, FaultTolerance
<1>3. n >= (IF QuorumSize(n) >= 1 THEN QuorumSize(n) ELSE 1)
  BY <1>1, <1>2
<1> QED BY <1>3 DEF Endorsed, n

\* A block that was endorsed enough stays so.
LEMMA EndorsedGrows ==
  ASSUME NEW D \in SUBSET Validators, NEW E \in SUBSET Validators,
         D \subseteq E, Endorsed(D)
  PROVE  Endorsed(E)
<1> DEFINE n == Cardinality(Validators)
           q == IF QuorumSize(n) >= 1 THEN QuorumSize(n) ELSE 1
<1>1. n \in Nat \ {0}
  BY ValidatorCount
<1>2. IsFiniteSet(E)
  BY ValidatorCount, FS_Subset
<1>3. /\ Cardinality(D) \in Nat /\ Cardinality(E) \in Nat
      /\ Cardinality(D) <= Cardinality(E)
  BY <1>2, FS_Subset, FS_CardinalityType
<1>4. Cardinality(D) >= q
  BY DEF Endorsed
<1> HIDE DEF n
<1>5. q \in Int
  BY <1>1 DEF QuorumSize, FaultTolerance
<1> HIDE DEF q
<1>6. Cardinality(E) >= q
  BY <1>3, <1>4, <1>5
<1> QED BY <1>6 DEF Endorsed, q, n

\* Of 3F + 1 validators, F + 1 endorse both of any two committed blocks: one of
\* them at least is honest when F are not (quorum_size).
THEOREM QuorumsIntersect ==
  ASSUME NEW F \in Nat, Cardinality(Validators) = 3 * F + 1,
         NEW D \in SUBSET Validators, NEW E \in SUBSET Validators,
         Endorsed(D), Endorsed(E)
  PROVE  Cardinality(D \cap E) >= F + 1
<1> DEFINE n == Cardinality(Validators)
<1>1. n = 3 * F + 1
  OBVIOUS
<1> HIDE DEF n
<1>2. FaultTolerance(n) = F
  BY <1>1 DEF FaultTolerance
<1>3. QuorumSize(n) = 2 * F + 1
  BY <1>1, <1>2 DEF QuorumSize
<1>4. Cardinality(D) >= 2 * F + 1 /\ Cardinality(E) >= 2 * F + 1
  BY <1>3 DEF Endorsed, n
<1>5. /\ IsFiniteSet(Validators) /\ IsFiniteSet(D) /\ IsFiniteSet(E)
      /\ IsFiniteSet(D \cap E) /\ IsFiniteSet(D \cup E)
  BY ValidatorCount, FS_Subset
<1>6. Cardinality(D \cup E)
        = Cardinality(D) + Cardinality(E) - Cardinality(D \cap E)
  BY <1>5, FS_Union
<1>7. Cardinality(D \cup E) <= n
  BY <1>5, FS_Subset DEF n
<1>8. /\ Cardinality(D) \in Nat /\ Cardinality(E) \in Nat
      /\ Cardinality(D \cap E) \in Nat /\ Cardinality(D \cup E) \in Nat
  BY <1>5, FS_CardinalityType
<1> QED BY <1>1, <1>4, <1>6, <1>7, <1>8
-----------------------------------------------------------------------------
(***************************************************************************)
(* The inductive invariant.                                                *)
(***************************************************************************)

\* A thread that signs is in a handler with an event to commit.
Busy ==
  \A z \in Submitters :
    signing[z] => todo[z] > 0 /\ signed[z] \in 1 .. MaxTxs

\* The events a thread has queued so far are its first ones, and what is in s
\* is among them.
Queued(z) == IF signing[z] THEN signed[z] - 1 ELSE signed[z]
AreQueued(s) == \A i \in DOMAIN s : s[i].no \in 1 .. Queued(s[i].by)
Counted ==
  AreQueued(pending) /\ \A k \in DOMAIN chain : AreQueued(Committed(k).txs)

\* The index of a block is its position, or the next one's at most.
Positions ==
  /\ blocks # <<>> /\ blocks[1] = Genesis
  /\ \A k \in DOMAIN chain : Committed(k).index = k - 1
  /\ \A i \in DOMAIN blocks : blocks[i].index <= Len(chain)

\* A block proposed for the next position has the first pending transactions.
Current ==
  \A i \in DOMAIN blocks :
    blocks[i].index = Len(chain) =>
      blocks[i].txs # <<>> /\ IsPrefix(blocks[i].txs, pending)

IInv ==
  /\ TypeOK /\ ChainVerifies /\ InOrder /\ NeverFull
  /\ Busy /\ Counted /\ Positions /\ Current

LEMMA InitIInv == Init => IInv
<1> SUFFICES ASSUME Init PROVE IInv
  OBVIOUS
<1> USE DEF Init
<1>1. Genesis \in Block
  BY DEF Genesis, Block
<1>2. DOMAIN blocks = {1} /\ chain \in Seq({1}) /\ chain # <<>>
  OBVIOUS
<1>3. TypeOK
  <2>1. /\ blocks \in Seq(Block) /\ endorsements \in Seq(SUBSET Validators)
        /\ Len(endorsements) = Len(blocks) /\ pending \in Seq(Tx)
    BY <1>1
  <2> QED BY <1>2, <2>1 DEF TypeOK
<1>4. DOMAIN chain = {1} /\ Len(chain) = 1 /\ Committed(1) = Genesis
  BY DEF Committed
<1>5. DOMAIN blocks = {1} /\ DOMAIN pending = {} /\ Len(pending) = 0
  OBVIOUS
<1>6. DOMAIN Genesis.txs = {} /\ Genesis.index = 0
  BY DEF Genesis
<1>7. ChainVerifies
  BY <1>4 DEF ChainVerifies
<1>8. InOrder
  BY <1>4, <1>5, <1>6 DEF InOrder, Ordered, Before
<1>9. NeverFull
  BY <1>5, BlockSizeAssumption DEF NeverFull
<1>10. Busy
  BY DEF Busy
<1>11. Counted
  BY <1>4, <1>5, <1>6 DEF Counted, AreQueued
<1>12. Positions
  BY <1>4, <1>5, <1>6 DEF Positions
<1>13. Current
  BY <1>4, <1>5, <1>6 DEF Current
<1> QED
  BY <1>3, <1>7, <1>8, <1>9, <1>10, <1>11, <1>12, <1>13 DEF IInv

-----------------------------------------------------------------------------
(***************************************************************************)
(* What the actions share.                                                 *)
(***************************************************************************)

\* Blocks are made and endorsed; those there are stay the same.
Grows ==
  /\ blocks' \in Seq(Block) /\ endorsements' \in Seq(SUBSET Validators)
  /\ Len(endorsements') = Len(blocks')
  /\ \A i \in DOMAIN blocks :
       /\ i \in DOMAIN blocks' /\ blocks'[i] = blocks[i]
       /\ endorsements[i] \subseteq endorsements'[i]

\* A sequence and one element more.
LEMMA AppendFacts ==
  ASSUME NEW S, NEW s \in Seq(S), NEW x \in S
  PROVE  /\ Append(s, x) \in Seq(S) /\ Len(Append(s, x)) = Len(s) + 1
         /\ DOMAIN Append(s, x) = 1 .. Len(s) + 1
         /\ Append(s, x)[Len(s) + 1] = x
         /\ \A i \in 1 .. Len(s) : Append(s, x)[i] = s[i]
  OBVIOUS

LEMMA AppendIsFunction ==
  ASSUME NEW S, NEW s \in Seq(S), NEW x \in S
  PROVE  Append(s, x)
           = [k \in 1 .. Len(s) + 1 |-> IF k = Len(s) + 1 THEN x ELSE s[k]]
<1> DEFINE f == [k \in 1 .. Len(s) + 1 |-> IF k = Len(s) + 1 THEN x ELSE s[k]]
<1>1. Len(s) \in Nat /\ \A k \in 1 .. Len(s) : s[k] \in S
  BY SeqFacts
<1>2. ASSUME NEW k \in 1 .. Len(s) + 1
      PROVE  (IF k = Len(s) + 1 THEN x ELSE s[k]) \in S
  BY <1>1
<1>3. f \in Seq(S) /\ Len(f) = Len(s) + 1
  BY <1>1, <1>2
<1>4. \A k \in 1 .. Len(s) + 1 : f[k] = IF k = Len(s) + 1 THEN x ELSE s[k]
  OBVIOUS
<1> HIDE DEF f
<1>5. /\ Append(s, x) \in Seq(S) /\ Len(Append(s, x)) = Len(s) + 1
      /\ \A k \in 1 .. Len(s) + 1 : Append(s, x)[k] = f[k]
  BY <1>1, <1>4, AppendFacts
<1>6. Append(s, x) = f
  BY <1>3, <1>5, SeqEqual
<1> QED BY <1>6 DEF f

LEMMA SeqWiden ==
  ASSUME NEW S, NEW T, S \subseteq T, NEW s \in Seq(S)
  PROVE  s \in Seq(T)
  OBVIOUS

\* The chain's batches as a sequence.
LEMMA BatchesType ==
  ASSUME TypeOK
  PROVE  /\ Batches \in Seq(Seq(Tx)) /\ Len(Batches) = Len(chain)
         /\ DOMAIN chain = 1 .. Len(chain) /\ Len(chain) \in Nat \ {0}
         /\ \A k \in DOMAIN chain :
              /\ chain[k] \in DOMAIN blocks /\ Committed(k) \in Block
              /\ Batches[k] = Committed(k).txs
<1>1. /\ DOMAIN chain = 1 .. Len(chain) /\ Len(chain) \in Nat \ {0}
      /\ \A k \in DOMAIN chain : chain[k] \in DOMAIN blocks
  BY DEF TypeOK
<1>2. \A k \in DOMAIN chain : Committed(k) \in Block
  BY <1>1 DEF TypeOK, Committed
<1>3. \A k \in DOMAIN chain : Committed(k).txs \in Seq(Tx)
  BY <1>2 DEF Block
<1>4. Batches = [k \in 1 .. Len(chain) |-> Committed(k).txs]
  BY <1>1 DEF Batches
<1>5. Batches \in Seq(Seq(Tx)) /\ Len(Batches) = Len(chain)
  BY <1>1, <1>3, <1>4
<1> QED BY <1>1, <1>2, <1>4, <1>5

LEMMA BlocksType ==
  ASSUME TypeOK
  PROVE  /\ DOMAIN blocks = 1 .. Len(blocks) /\ Len(blocks) \in Nat
         /\ \A i \in DOMAIN blocks :
              /\ blocks[i] \in Block /\ blocks[i].index \in Nat
              /\ blocks[i].txs \in Seq(Tx) /\ Len(blocks[i].txs) \in Nat
              /\ endorsements[i] \in SUBSET Validators
<1>1. /\ DOMAIN blocks = 1 .. Len(blocks) /\ Len(blocks) \in Nat
      /\ DOMAIN endorsements = DOMAIN blocks
  BY SeqFacts DEF TypeOK
<1>2. ASSUME NEW i \in DOMAIN blocks
      PROVE  blocks[i] \in Block /\ endorsements[i] \in SUBSET Validators
  BY <1>1, SeqFacts DEF TypeOK
<1> QED BY <1>1, <1>2, SeqFacts DEF Block

LEMMA GrowsType ==
  ASSUME Grows
  PROVE  /\ DOMAIN blocks' = 1 .. Len(blocks') /\ Len(blocks') \in Nat
         /\ \A i \in DOMAIN blocks' :
              /\ blocks'[i] \in Block /\ blocks'[i].index \in Nat
              /\ blocks'[i].txs \in Seq(Tx) /\ Len(blocks'[i].txs) \in Nat
              /\ endorsements'[i] \in SUBSET Validators
<1>1. /\ DOMAIN blocks' = 1 .. Len(blocks') /\ Len(blocks') \in Nat
      /\ DOMAIN endorsements' = DOMAIN blocks'
  BY SeqFacts DEF Grows
<1>2. ASSUME NEW i \in DOMAIN blocks'
      PROVE  blocks'[i] \in Block /\ endorsements'[i] \in SUBSET Validators
  BY <1>1, SeqFacts DEF Grows
<1> QED BY <1>1, <1>2, SeqFacts DEF Block

\* While the chain stays, so do its blocks.
LEMMA ChainKept ==
  ASSUME TypeOK, Grows, chain' = chain
  PROVE  /\ \A k \in DOMAIN chain : Committed(k)' = Committed(k)
         /\ Batches' = Batches
         /\ chain' \in Seq(DOMAIN blocks')
         /\ ChainVerifies => ChainVerifies'
<1>1. \A k \in DOMAIN chain : Committed(k)' = Committed(k)
  BY BatchesType DEF Committed, Grows
<1>2. Batches' = Batches
  BY <1>1 DEF Batches
<1>3. chain' \in Seq(DOMAIN blocks')
  <2>1. chain \in Seq(DOMAIN blocks) /\ DOMAIN blocks \subseteq DOMAIN blocks'
    BY DEF TypeOK, Grows
  <2> QED BY <2>1, SeqWiden
<1>4. ASSUME ChainVerifies PROVE ChainVerifies'
  <2> SUFFICES ASSUME NEW k \in 2 .. Len(chain)
               PROVE  /\ Committed(k)'.index = k - 1
                      /\ Committed(k)'.prev = Committed(k - 1)'.hash
                      /\ Endorsed(endorsements'[chain[k]])
    BY <1>4 DEF ChainVerifies
  <2>1. k \in DOMAIN chain /\ k - 1 \in DOMAIN chain
    <3>1. DOMAIN chain = 1 .. Len(chain) /\ Len(chain) \in Nat
      BY BatchesType
    <3>2. k \in 1 .. Len(chain) /\ k - 1 \in 1 .. Len(chain)
      BY <3>1
    <3> QED BY <3>1, <3>2
  <2>2. Committed(k)' = Committed(k) /\ Committed(k - 1)' = Committed(k - 1)
    BY <1>1, <2>1
  <2>3. /\ chain[k] \in DOMAIN blocks
        /\ endorsements[chain[k]] \in SUBSET Validators
        /\ endorsements'[chain[k]] \in SUBSET Validators
        /\ endorsements[chain[k]] \subseteq endorsements'[chain[k]]
    <3>1. chain[k] \in DOMAIN blocks
      BY <2>1, BatchesType
    <3>2. chain[k] \in DOMAIN endorsements /\ chain[k] \in DOMAIN endorsements'
      BY <3>1 DEF TypeOK, Grows
    <3>3. /\ endorsements \in Seq(SUBSET Validators)
          /\ endorsements' \in Seq(SUBSET Validators)
      BY DEF TypeOK, Grows
    <3>4. endorsements[chain[k]] \subseteq endorsements'[chain[k]]
      BY <3>1 DEF Grows
    <3> QED BY <3>1, <3>2, <3>3, <3>4
  <2>4. Endorsed(endorsements[chain[k]])
    BY <1>4 DEF ChainVerifies
  <2>5. Endorsed(endorsements'[chain[k]])
    BY <2>3, <2>4, EndorsedGrows
  <2> QED BY <1>4, <2>2, <2>5 DEF ChainVerifies
<1> QED BY <1>1, <1>2, <1>3, <1>4
\* Threads only queue more: what is queued stays among what is.
LEMMA QueuedGrows ==
  ASSUME NEW s \in Seq(Tx), AreQueued(s),
         \A z \in Submitters : /\ Queued(z) \in Int /\ Queued(z)' \in Int
                               /\ Queued(z) <= Queued(z)'
  PROVE  AreQueued(s)'
<1> SUFFICES ASSUME NEW i \in DOMAIN s
             PROVE  s[i].no \in 1 .. Queued(s[i].by)'
  BY DEF AreQueued
<1>1. s[i].by \in Submitters /\ s[i].no \in Nat
  <2>1. s[i] \in Tx
    BY SeqFacts
  <2> QED BY <2>1 DEF Tx
<1>2. s[i].no \in 1 .. Queued(s[i].by)
  BY DEF AreQueued
<1> QED BY <1>1, <1>2

\* What seal_block and commit_block have in common, for the pending
\* transactions P: a block at the end of the chain, its transactions the first
\* ones of P, is committed.
LEMMA AfterCommit ==
  ASSUME TypeOK, ChainVerifies, Positions, Grows,
         NEW P \in Seq(Tx), OrderedRows(P, Batches), Len(P) <= BlockSize,
         NEW c \in DOMAIN blocks', blocks'[c].txs # <<>>,
         IsPrefix(blocks'[c].txs, P),
         Follows(blocks'[c]), Endorsed(endorsements'[c]),
         \A i \in DOMAIN blocks' : blocks'[i].index <= Len(chain),
         chain' = Append(chain, c), pending' = Remaining(P, blocks'[c])
  PROVE  /\ pending' \in Seq(Tx) /\ chain' \in Seq(DOMAIN blocks')
         /\ ChainVerifies' /\ InOrder' /\ NeverFull' /\ Positions' /\ Current'
         /\ pending' = Rest(P, Len(blocks'[c].txs))
         /\ Batches' = Append(Batches, blocks'[c].txs)
         /\ Len(chain') = Len(chain) + 1 /\ chain' # <<>>
         /\ DOMAIN chain' = 1 .. Len(chain) + 1
<1> DEFINE t == blocks'[c].txs
<1>1. /\ blocks'[c] \in Block /\ t \in Seq(Tx)
      /\ DOMAIN chain = 1 .. Len(chain) /\ Len(chain) \in Nat \ {0}
      /\ Len(P) \in Nat /\ Len(t) \in 1 .. Len(P)
  <2>1. blocks'[c] \in Block
    BY GrowsType
  <2>2. t \in Seq(Tx)
    BY GrowsType
  <2>3. Len(P) \in Nat /\ Len(t) \in Nat \ {0} /\ Len(t) <= Len(P)
    BY <2>2 DEF IsPrefix
  <2> QED BY <2>1, <2>2, <2>3, BatchesType
<1>2. pending' = Rest(P, Len(t))
  BY <1>1, RemainingIsRest DEF OrderedRows
<1>3. pending' \in Seq(Tx) /\ Len(pending') = Len(P) - Len(t)
  <2>1. Len(t) \in 0 .. Len(P)
    BY <1>1
  <2>2. /\ Rest(P, Len(t)) \in Seq(Tx)
        /\ Len(Rest(P, Len(t))) = Len(P) - Len(t)
    BY <2>1, RestElements
  <2> QED BY <1>2, <2>2
<1>4. NeverFull'
  BY <1>1, <1>3, BlockSizeAssumption DEF NeverFull
<1>5. chain' \in Seq(DOMAIN blocks')
  <2>1. chain \in Seq(DOMAIN blocks) /\ DOMAIN blocks \subseteq DOMAIN blocks'
    BY DEF TypeOK, Grows
  <2>2. chain \in Seq(DOMAIN blocks')
    BY <2>1, SeqWiden
  <2> QED BY <2>2, AppendFacts
<1>6. /\ Len(chain') = Len(chain) + 1 /\ chain'[Len(chain) + 1] = c
      /\ DOMAIN chain' = 1 .. Len(chain) + 1
      /\ \A k \in 1 .. Len(chain) : chain'[k] = chain[k]
  BY <1>1 DEF TypeOK
<1>7. /\ \A k \in Nat : k = Len(chain) + 1 => Committed(k)' = blocks'[c]
      /\ \A k \in 1 .. Len(chain) : Committed(k)' = Committed(k)
  <2>1. ASSUME NEW k \in Nat, k = Len(chain) + 1
        PROVE  Committed(k)' = blocks'[c]
    BY <1>6, <2>1 DEF Committed
  <2>2. ASSUME NEW k \in 1 .. Len(chain) PROVE Committed(k)' = Committed(k)
    <3>1. chain'[k] = chain[k] /\ chain[k] \in DOMAIN blocks
      BY <1>1, <1>6, BatchesType
    <3> QED BY <3>1 DEF Committed, Grows
  <2> QED BY <2>1, <2>2
<1>8. /\ blocks'[c].index = Len(chain)
      /\ blocks'[c].prev = Committed(Len(chain)).hash
  <2>1. LastBlock = Committed(Len(chain)) /\ Len(chain) \in DOMAIN chain
    BY <1>1 DEF LastBlock, Committed
  <2>2. Committed(Len(chain)).index = Len(chain) - 1
    BY <2>1 DEF Positions
  <2> QED BY <1>1, <2>1, <2>2 DEF Follows
<1>9. ChainVerifies'
  <2> SUFFICES ASSUME NEW k \in 2 .. Len(chain) + 1
               PROVE  /\ Committed(k)'.index = k - 1
                      /\ Committed(k)'.prev = Committed(k - 1)'.hash
                      /\ Endorsed(endorsements'[chain'[k]])
    BY <1>1, <1>6 DEF ChainVerifies
  <2>1. CASE k = Len(chain) + 1
    <3>1. k - 1 \in 1 .. Len(chain) /\ k - 1 = Len(chain)
      BY <1>1, <2>1
    <3> QED BY <1>6, <1>7, <1>8, <2>1, <3>1
  <2>2. CASE k \in 2 .. Len(chain)
    <3>1. k \in 1 .. Len(chain) /\ k - 1 \in 1 .. Len(chain)
      BY <1>1, <2>2
    <3>2. /\ Committed(k).index = k - 1
          /\ Committed(k).prev = Committed(k - 1).hash
          /\ Endorsed(endorsements[chain[k]])
      BY <2>2 DEF ChainVerifies
    <3>3. /\ chain'[k] = chain[k] /\ chain[k] \in DOMAIN blocks
          /\ endorsements[chain[k]] \in SUBSET Validators
          /\ endorsements'[chain[k]] \in SUBSET Validators
          /\ endorsements[chain[k]] \subseteq endorsements'[chain[k]]
      <4>1. chain'[k] = chain[k] /\ chain[k] \in DOMAIN blocks
        BY <1>1, <1>6, <3>1, BatchesType
      <4>2. /\ chain[k] \in DOMAIN blocks'
            /\ endorsements[chain[k]] \subseteq endorsements'[chain[k]]
        BY <4>1 DEF Grows
      <4> QED BY <4>1, <4>2, BlocksType, GrowsType
    <3>4. Endorsed(endorsements'[chain[k]])
      BY <3>2, <3>3, EndorsedGrows
    <3> QED BY <1>7, <3>1, <3>2, <3>3, <3>4
  <2> QED BY <1>1, <2>1, <2>2
<1>10. Batches' = Append(Batches, t)
  <2>1. /\ Batches \in Seq(Seq(Tx)) /\ Len(Batches) = Len(chain)
        /\ \A k \in 1 .. Len(chain) : Batches[k] = Committed(k).txs
    BY <1>1, BatchesType
  <2>2. Batches' = [k \in 1 .. Len(chain) + 1 |-> Committed(k)'.txs]
    BY <1>6 DEF Batches
  <2>3. Append(Batches, t)
          = [k \in 1 .. Len(chain) + 1 |->
               IF k = Len(chain) + 1 THEN t ELSE Batches[k]]
    BY <1>1, <2>1
  <2>4. ASSUME NEW k \in 1 .. Len(chain) + 1
        PROVE  Committed(k)'.txs
                 = IF k = Len(chain) + 1 THEN t ELSE Batches[k]
    <3>1. CASE k = Len(chain) + 1
      BY <1>7, <3>1
    <3>2. CASE k # Len(chain) + 1
      <4>1. k \in 1 .. Len(chain)
        BY <1>1, <3>2
      <4> QED BY <1>7, <2>1, <3>2, <4>1
    <3> QED BY <3>1, <3>2
  <2> QED BY <2>2, <2>3, <2>4
<1>11. InOrder'
  <2>1. OrderedRows(Rest(P, Len(t)), Append(Batches, t))
    BY <1>1, BatchesType, OrderAfterCommit
  <2>2. OrderedRows(pending', Batches')
    BY <1>2, <1>10, <2>1
  <2> QED BY <2>2 DEF InOrder, OrderedRows, Batches
<1>12. Positions'
  <2>1. blocks' # <<>> /\ blocks'[1] = Genesis
    <3>1. 1 \in DOMAIN blocks
      BY BlocksType DEF Positions, TypeOK
    <3> QED BY <3>1, GrowsType DEF Positions, Grows
  <2>2. ASSUME NEW k \in 1 .. Len(chain) + 1 PROVE Committed(k)'.index = k - 1
    <3>1. CASE k = Len(chain) + 1
      BY <1>1, <1>7, <1>8, <3>1
    <3>2. CASE k # Len(chain) + 1
      <4>1. k \in 1 .. Len(chain)
        BY <1>1, <3>2
      <4> QED BY <1>1, <1>7, <4>1 DEF Positions
    <3> QED BY <3>1, <3>2
  <2>3. ASSUME NEW i \in DOMAIN blocks' PROVE blocks'[i].index <= Len(chain')
    <3>1. blocks'[i].index \in Nat /\ blocks'[i].index <= Len(chain)
      BY GrowsType
    <3> QED BY <1>1, <1>6, <3>1
  <2> QED BY <1>6, <2>1, <2>2, <2>3 DEF Positions
<1>13. Current'
  <2> SUFFICES ASSUME NEW i \in DOMAIN blocks'
               PROVE  blocks'[i].index # Len(chain')
    BY DEF Current
  <2>1. blocks'[i].index \in Nat /\ blocks'[i].index <= Len(chain)
    BY GrowsType
  <2> QED BY <1>1, <1>6, <2>1
<1>14. chain' # <<>>
  BY <1>1, <1>6
<1> QED
  BY <1>2, <1>3, <1>4, <1>5, <1>6, <1>14, <1>9, <1>10, <1>11, <1>12, <1>13
-----------------------------------------------------------------------------
(***************************************************************************)
(* The steps.                                                              *)
(***************************************************************************)

\* Transactions that are queued stay so when the queues grow, in the chain too.
QueuesGrow ==
  \A z \in Submitters : /\ Queued(z) \in Int /\ Queued(z)' \in Int
                        /\ Queued(z) <= Queued(z)'

LEMMA ChainCounted ==
  ASSUME TypeOK, Counted, QueuesGrow, NEW k \in DOMAIN chain, NEW s, s = Batches[k]
  PROVE  AreQueued(s)'
<1>1. AreQueued(s) /\ s \in Seq(Tx)
  BY BatchesType DEF Counted, Block
<1> QED BY <1>1, QueuedGrows DEF QueuesGrow

\* What the queues hold, when the chain and pending stay.
LEMMA CountedKept ==
  ASSUME TypeOK, Counted, QueuesGrow, pending' = pending, chain' = chain,
         Batches' = Batches
  PROVE  Counted'
<1>1. AreQueued(pending)'
  <2>1. PICK s : s = pending
    OBVIOUS
  <2>2. AreQueued(s)'
    BY <2>1, QueuedGrows DEF TypeOK, Counted, QueuesGrow
  <2> QED BY <2>1, <2>2
<1>2. ASSUME NEW k \in DOMAIN chain PROVE AreQueued(Committed(k).txs)'
  <2>1. PICK s : s = Batches[k]
    OBVIOUS
  <2>2. Committed(k)'.txs = s
    BY <2>1 DEF Batches
  <2> QED BY <2>1, <2>2, ChainCounted
<1> QED BY <1>1, <1>2 DEF Counted

LEMMA LedgerKept ==
  ASSUME IInv, UNCHANGED <<pending, blocks, endorsements, chain>>
  PROVE  /\ ChainVerifies' /\ InOrder' /\ NeverFull' /\ Positions' /\ Current'
         /\ Batches' = Batches
<1> USE DEF IInv
<1>1. Batches' = Batches
  BY DEF Batches, Committed
<1>2. ChainVerifies'
  BY DEF ChainVerifies, Committed
<1>3. InOrder'
  BY DEF InOrder, Committed
<1>4. NeverFull'
  BY DEF NeverFull
<1>5. Positions'
  BY DEF Positions, Committed
<1>6. Current'
  BY DEF Current
<1> QED BY <1>1, <1>2, <1>3, <1>4, <1>5, <1>6

LEMMA BeginStep ==
  ASSUME IInv, NEW z \in Submitters, Begin(z)
  PROVE  IInv'
<1> USE DEF IInv
<1>1. UNCHANGED <<pending, blocks, endorsements, chain, rejected, stopped>>
  BY DEF Begin, ledgerVars
<1>2. todo' \in [Submitters -> Nat] /\ signed' = signed /\ signing' = signing
  BY LedgerBounds DEF Begin, TypeOK
<1>3. TypeOK'
  BY <1>1, <1>2 DEF TypeOK
<1>4. Busy'
  BY <1>2 DEF Begin, Busy, TypeOK
<1>5. QueuesGrow
  BY <1>2 DEF QueuesGrow, Queued, TypeOK
<1>6. Counted'
  BY <1>1, <1>5, LedgerKept, CountedKept
<1> QED BY <1>1, <1>3, <1>4, <1>6, LedgerKept

LEMMA SignStep ==
  ASSUME IInv, NEW z \in Submitters, Sign(z)
  PROVE  IInv'
<1> USE DEF IInv
<1>1. UNCHANGED <<pending, blocks, endorsements, chain, rejected, stopped>>
  BY DEF Sign, ledgerVars
<1>2. /\ todo' = todo /\ signed' = [signed EXCEPT ![z] = @ + 1]
      /\ signing' = [signing EXCEPT ![z] = TRUE] /\ todo[z] > 0
      /\ ~signing[z] /\ signed[z] \in Nat /\ signed[z] < MaxTxs /\ MaxTxs \in Nat
  BY LedgerBounds DEF Sign, TypeOK
<1>3. signed' \in [Submitters -> Nat] /\ signing' \in [Submitters -> BOOLEAN]
  BY <1>2 DEF TypeOK
<1>4. TypeOK'
  BY <1>1, <1>2, <1>3 DEF TypeOK
<1>5. Busy'
  BY <1>2 DEF Busy, TypeOK
<1>6. QueuesGrow
  BY <1>2, <1>3 DEF QueuesGrow, Queued, TypeOK
<1>7. Counted'
  BY <1>1, <1>6, LedgerKept, CountedKept
<1> QED BY <1>1, <1>4, <1>5, <1>7, LedgerKept

LEMMA RefuseStep ==
  ASSUME IInv, NEW i \in DOMAIN blocks, RefuseBlock(i)
  PROVE  IInv'
<1> USE DEF IInv
<1>1. /\ UNCHANGED <<pending, blocks, endorsements, chain, stopped>>
      /\ UNCHANGED <<todo, signed, signing>> /\ rejected' = rejected + 1
  BY DEF RefuseBlock, threadVars
<1>2. TypeOK'
  BY <1>1 DEF TypeOK
<1>3. Busy'
  BY <1>1 DEF Busy
<1>4. QueuesGrow
  BY <1>1 DEF QueuesGrow, Queued, TypeOK
<1>5. Counted'
  BY <1>1, <1>4, LedgerKept, CountedKept
<1> QED BY <1>1, <1>2, <1>3, <1>5, LedgerKept
\* Blocks made or endorsed leave the rest alone.
LEMMA BlocksStep ==
  ASSUME IInv, Grows, Current', \A i \in DOMAIN blocks' : blocks'[i].index <= Len(chain),
         UNCHANGED <<stopped, todo, signed, signing, pending, chain, rejected>>
  PROVE  IInv'
<1> USE DEF IInv
<1>1. /\ \A k \in DOMAIN chain : Committed(k)' = Committed(k)
      /\ Batches' = Batches /\ chain' \in Seq(DOMAIN blocks') /\ ChainVerifies'
  BY ChainKept
<1>2. TypeOK'
  BY <1>1 DEF TypeOK, Grows
<1>3. InOrder'
  BY <1>1 DEF InOrder
<1>4. NeverFull' /\ Busy'
  BY DEF NeverFull, Busy
<1>5. QueuesGrow
  BY DEF QueuesGrow, Queued, TypeOK
<1>6. Counted'
  BY <1>1, <1>5, CountedKept
<1>7. Positions'
  <2>1. 1 \in DOMAIN blocks
    BY BlocksType DEF Positions, TypeOK
  <2>2. blocks' # <<>> /\ blocks'[1] = Genesis
    BY <2>1, GrowsType DEF Positions, Grows
  <2> QED BY <1>1, <2>2 DEF Positions
<1> QED BY <1>1, <1>2, <1>3, <1>4, <1>6, <1>7

LEMMA EndorseStep ==
  ASSUME IInv, NEW i \in DOMAIN blocks, NEW v \in Validators, Endorse(i, v)
  PROVE  IInv'
<1> USE DEF IInv
<1>1. /\ endorsements' = [endorsements EXCEPT ![i] = @ \cup {v}]
      /\ UNCHANGED <<stopped, todo, signed, signing, pending, blocks, chain, rejected>>
  BY DEF Endorse, threadVars
<1>2. /\ DOMAIN endorsements = 1 .. Len(endorsements) /\ Len(endorsements) \in Nat
      /\ \A j \in 1 .. Len(endorsements) : endorsements[j] \in SUBSET Validators
      /\ DOMAIN blocks = DOMAIN endorsements
  BY SeqFacts DEF TypeOK
<1>3. /\ endorsements' \in Seq(SUBSET Validators)
      /\ Len(endorsements') = Len(endorsements)
      /\ \A j \in DOMAIN blocks : endorsements[j] \subseteq endorsements'[j]
  BY <1>1, <1>2 DEF TypeOK
<1>4. Grows
  BY <1>1, <1>3 DEF Grows, TypeOK
<1>5. Current' /\ \A j \in DOMAIN blocks' : blocks'[j].index <= Len(chain)
  BY <1>1 DEF Current, Positions
<1> QED BY <1>1, <1>4, <1>5, BlocksStep

\* The last block is the chain's, and the next position the one after it.
LEMMA LastBlockFacts ==
  ASSUME IInv
  PROVE  /\ LastBlock \in Block /\ LastBlock.index = Len(chain) - 1
         /\ LastBlock.index + 1 = Len(chain) /\ Len(chain) \in Nat \ {0}
<1> USE DEF IInv
<1>1. Len(chain) \in Nat \ {0} /\ Len(chain) \in DOMAIN chain
  BY BatchesType
<1>2. LastBlock = Committed(Len(chain))
  BY DEF LastBlock, Committed
<1>3. LastBlock \in Block /\ LastBlock.index = Len(chain) - 1
  BY <1>1, <1>2, BatchesType DEF Positions
<1> QED BY <1>1, <1>3

\* A block made of the transactions P, which begin with all the pending ones.
LEMMA ProposedBlock ==
  ASSUME IInv, NEW P \in Seq(Tx), NEW h \in Nat, NEW E \in SUBSET Validators,
         blocks' = Append(blocks, Proposal(P, h)),
         endorsements' = Append(endorsements, E)
  PROVE  /\ Grows /\ DOMAIN blocks' = 1 .. Len(blocks) + 1
         /\ blocks'[Len(blocks) + 1] = Proposal(P, h)
         /\ endorsements'[Len(blocks) + 1] = E
         /\ Proposal(P, h).index = Len(chain) /\ Proposal(P, h).txs = P
         /\ Follows(Proposal(P, h))
         /\ \A i \in DOMAIN blocks' : blocks'[i].index <= Len(chain)
<1> USE DEF IInv
<1> DEFINE b == Proposal(P, h)
<1>1. b \in Block /\ b.index = Len(chain) /\ b.txs = P /\ Follows(b)
  BY LastBlockFacts DEF Proposal, Block, Follows
<1> HIDE DEF b
<1>2. /\ blocks' = Append(blocks, b) /\ blocks \in Seq(Block)
      /\ endorsements \in Seq(SUBSET Validators)
      /\ Len(endorsements) = Len(blocks) /\ Len(blocks) \in Nat
      /\ DOMAIN blocks = 1 .. Len(blocks)
  BY SeqFacts DEF TypeOK, b
<1>3. /\ blocks' \in Seq(Block) /\ Len(blocks') = Len(blocks) + 1
      /\ DOMAIN blocks' = 1 .. Len(blocks) + 1 /\ blocks'[Len(blocks) + 1] = b
      /\ \A i \in 1 .. Len(blocks) : blocks'[i] = blocks[i]
  BY <1>1, <1>2, AppendFacts
<1>4. /\ endorsements' \in Seq(SUBSET Validators)
      /\ Len(endorsements') = Len(blocks) + 1
      /\ endorsements'[Len(blocks) + 1] = E
      /\ \A i \in 1 .. Len(blocks) : endorsements'[i] = endorsements[i]
  BY <1>2, AppendFacts
<1>5. Grows
  BY <1>2, <1>3, <1>4 DEF Grows
<1>6. ASSUME NEW i \in DOMAIN blocks' PROVE blocks'[i].index <= Len(chain)
  <2>1. CASE i = Len(blocks) + 1
    BY <1>1, <1>3, <2>1, LastBlockFacts
  <2>2. CASE i \in 1 .. Len(blocks)
    BY <1>2, <1>3, <2>2 DEF Positions
  <2> QED BY <1>2, <1>3, <2>1, <2>2
<1> QED BY <1>1, <1>3, <1>4, <1>5, <1>6 DEF b

LEMMA ProposeStep ==
  ASSUME IInv, NEW v \in Proposers, ProposeBlock(v)
  PROVE  IInv'
<1> USE DEF IInv
<1>1. PICK h \in 1 .. Len(blocks) + 1 : blocks' = Append(blocks, Proposal(pending, h))
  BY DEF ProposeBlock
<1>2. /\ endorsements' = Append(endorsements, {v}) /\ pending # <<>>
      /\ UNCHANGED <<stopped, todo, signed, signing, pending, chain, rejected>>
  BY DEF ProposeBlock, threadVars
<1>3. h \in Nat /\ {v} \in SUBSET Validators /\ pending \in Seq(Tx)
  BY LedgerBounds DEF TypeOK
<1>4. /\ Grows /\ DOMAIN blocks' = 1 .. Len(blocks) + 1
      /\ blocks'[Len(blocks) + 1] = Proposal(pending, h)
      /\ Proposal(pending, h).txs = pending
      /\ \A i \in DOMAIN blocks' : blocks'[i].index <= Len(chain)
  BY <1>1, <1>2, <1>3, ProposedBlock
<1>5. Current'
  <2> SUFFICES ASSUME NEW i \in DOMAIN blocks', blocks'[i].index = Len(chain)
               PROVE  blocks'[i].txs # <<>> /\ IsPrefix(blocks'[i].txs, pending)
    BY <1>2 DEF Current
  <2>1. CASE i = Len(blocks) + 1
    BY <1>2, <1>3, <1>4, <2>1, SeqFacts DEF IsPrefix
  <2>2. CASE i # Len(blocks) + 1
    <3>1. i \in DOMAIN blocks
      BY <1>4, <2>2, BlocksType
    <3>2. blocks'[i] = blocks[i]
      BY <1>4, <3>1 DEF Grows
    <3> QED BY <3>1, <3>2 DEF Current
  <2> QED BY <2>1, <2>2
<1> QED BY <1>2, <1>4, <1>5, BlocksStep
\* The chain and pending after a commit hold queued transactions only.
LEMMA CountedAfterCommit ==
  ASSUME IInv, QueuesGrow, NEW P \in Seq(Tx), AreQueued(P)',
         NEW t \in Seq(Tx), IsPrefix(t, P), pending' = Rest(P, Len(t)),
         Len(chain') = Len(chain) + 1, DOMAIN chain' = 1 .. Len(chain) + 1,
         Batches' = Append(Batches, t)
  PROVE  Counted'
<1> USE DEF IInv
<1>1. /\ Len(P) \in Nat /\ DOMAIN P = 1 .. Len(P) /\ DOMAIN t = 1 .. Len(t)
      /\ Len(t) \in 0 .. Len(P) /\ \A j \in 1 .. Len(t) : t[j] = P[j]
  BY SeqFacts DEF IsPrefix
<1>2. AreQueued(t)'
  BY <1>1 DEF AreQueued
<1>3. AreQueued(pending)'
  <2>1. PICK s : s = pending'
    OBVIOUS
  <2>2. /\ DOMAIN s = 1 .. Len(P) - Len(t)
        /\ \A j \in 1 .. Len(P) - Len(t) : s[j] = P[Len(t) + j]
    BY <1>1, <2>1, RestElements
  <2>3. ASSUME NEW j \in DOMAIN s PROVE Len(t) + j \in DOMAIN P /\ s[j] = P[Len(t) + j]
    BY <1>1, <2>2
  <2>4. AreQueued(s)'
    BY <2>3 DEF AreQueued
  <2> QED BY <2>1, <2>4
<1>4. /\ Batches \in Seq(Seq(Tx)) /\ Len(Batches) = Len(chain)
      /\ Len(chain) \in Nat /\ DOMAIN chain = 1 .. Len(chain)
  BY BatchesType
<1>5. /\ Batches'[Len(chain) + 1] = t
      /\ \A k \in 1 .. Len(chain) : Batches'[k] = Batches[k]
  BY <1>4, AppendFacts
<1>6. ASSUME NEW k \in DOMAIN chain' PROVE AreQueued(Committed(k).txs)'
  <2>1. PICK s : s = Batches'[k]
    OBVIOUS
  <2>2. Committed(k)'.txs = s
    BY <2>1 DEF Batches
  <2>3. CASE k = Len(chain) + 1
    BY <1>2, <1>5, <2>1, <2>2, <2>3
  <2>4. CASE k # Len(chain) + 1
    <3>1. k \in DOMAIN chain /\ s = Batches[k]
      BY <1>4, <1>5, <2>1, <2>4
    <3> QED BY <2>2, <3>1, ChainCounted
  <2> QED BY <2>3, <2>4
<1> QED BY <1>3, <1>6 DEF Counted

LEMMA CommitStep ==
  ASSUME IInv, NEW i \in DOMAIN blocks, CommitBlock(i)
  PROVE  /\ IInv' /\ blocks[i].txs # <<>> /\ IsPrefix(blocks[i].txs, pending)
         /\ Batches' = Append(Batches, blocks[i].txs)
         /\ pending' = Rest(pending, Len(blocks[i].txs))
<1> USE DEF IInv
<1>1. /\ Follows(blocks[i]) /\ Endorsed(endorsements[i])
      /\ chain' = Append(chain, i) /\ pending' = Remaining(pending, blocks[i])
      /\ UNCHANGED <<stopped, todo, signed, signing, blocks, endorsements, rejected>>
  BY DEF CommitBlock, Accepts, threadVars
<1>2. Grows
  BY <1>1 DEF Grows, TypeOK
<1>3. blocks[i].index = Len(chain)
  BY <1>1, LastBlockFacts DEF Follows
<1>4. blocks[i].txs # <<>> /\ IsPrefix(blocks[i].txs, pending)
  BY <1>3 DEF Current
<1>5. /\ OrderedRows(pending, Batches) /\ pending \in Seq(Tx)
      /\ Len(pending) <= BlockSize
  BY InOrderRows, BlockSizeAssumption DEF TypeOK, NeverFull
<1>6. PICK P : P = pending
  OBVIOUS
<1>7. \A j \in DOMAIN blocks' : blocks'[j].index <= Len(chain)
  BY <1>1 DEF Positions
<1>8. PICK b : b = blocks[i]
  OBVIOUS
<1>9. /\ pending' \in Seq(Tx) /\ chain' \in Seq(DOMAIN blocks')
      /\ ChainVerifies' /\ InOrder' /\ NeverFull' /\ Positions' /\ Current'
      /\ pending' = Rest(P, Len(b.txs)) /\ Batches' = Append(Batches, b.txs)
      /\ Len(chain') = Len(chain) + 1 /\ chain' # <<>>
      /\ DOMAIN chain' = 1 .. Len(chain) + 1
  BY <1>1, <1>2, <1>4, <1>5, <1>6, <1>7, <1>8, AfterCommit
<1>10. TypeOK'
  BY <1>1, <1>9 DEF TypeOK
<1>11. Busy' /\ QueuesGrow
  BY <1>1 DEF Busy, QueuesGrow, Queued, TypeOK
<1>12. Counted'
  <2>1. P \in Seq(Tx) /\ AreQueued(P)
    BY <1>5, <1>6 DEF Counted
  <2>2. AreQueued(P)'
    BY <1>11, <2>1, QueuedGrows DEF QueuesGrow
  <2>3. b.txs \in Seq(Tx)
    BY <1>8, BlocksType
  <2> QED
    BY <1>4, <1>6, <1>8, <1>9, <1>11, <2>1, <2>2, <2>3, CountedAfterCommit
<1> QED BY <1>4, <1>6, <1>8, <1>9, <1>10, <1>11, <1>12
\* seal_block commits the pending transactions P, the one just queued included.
LEMMA SealStep ==
  ASSUME IInv, NEW P \in Seq(Tx), P # <<>>, OrderedRows(P, Batches),
         Len(P) <= BlockSize, Seal(P), QueuesGrow, AreQueued(P)', Busy',
         stopped' \in BOOLEAN, todo' \in [Submitters -> Nat],
         signed' \in [Submitters -> Nat], signing' \in [Submitters -> BOOLEAN]
  PROVE  /\ IInv' /\ Batches' = Append(Batches, P)
         /\ pending' = Rest(P, Len(P))
<1> USE DEF IInv
<1> DEFINE c == Len(blocks) + 1
<1>1. PICK h \in 1 .. Len(blocks) + 1 :
        /\ blocks' = Append(blocks, Proposal(P, h))
        /\ endorsements' = Append(endorsements, Validators)
        /\ \/ /\ Accepts(Proposal(P, h), Validators)
              /\ chain' = Append(chain, c)
              /\ pending' = Remaining(P, Proposal(P, h))
              /\ UNCHANGED rejected
           \/ ~Accepts(Proposal(P, h), Validators)
  BY DEF Seal
<1>2. /\ Grows /\ DOMAIN blocks' = 1 .. Len(blocks) + 1
      /\ blocks'[c] = Proposal(P, h) /\ endorsements'[c] = Validators
      /\ Proposal(P, h).txs = P /\ Follows(Proposal(P, h))
      /\ \A i \in DOMAIN blocks' : blocks'[i].index <= Len(chain)
  <2>1. h \in Nat /\ Validators \in SUBSET Validators
    BY BlocksType
  <2> QED BY <1>1, <2>1, ProposedBlock
<1>3. Accepts(Proposal(P, h), Validators)
  BY <1>2, AllEndorse DEF Accepts
<1>4. /\ chain' = Append(chain, c) /\ pending' = Remaining(P, blocks'[c])
      /\ rejected' = rejected /\ Endorsed(endorsements'[c])
      /\ c \in DOMAIN blocks' /\ Len(P) \in Nat /\ IsPrefix(P, P)
  BY <1>1, <1>2, <1>3, AllEndorse, BlocksType, SeqFacts DEF IsPrefix
<1>5. PICK d : d = c
  OBVIOUS
<1>6. /\ pending' \in Seq(Tx) /\ chain' \in Seq(DOMAIN blocks')
      /\ ChainVerifies' /\ InOrder' /\ NeverFull' /\ Positions' /\ Current'
      /\ pending' = Rest(P, Len(P)) /\ Batches' = Append(Batches, P)
      /\ Len(chain') = Len(chain) + 1 /\ chain' # <<>>
      /\ DOMAIN chain' = 1 .. Len(chain) + 1
  BY <1>2, <1>4, <1>5, AfterCommit
<1>7. TypeOK'
  BY <1>4, <1>6, <1>2 DEF TypeOK, Grows
<1>8. Counted'
  BY <1>4, <1>6, CountedAfterCommit
<1> QED BY <1>6, <1>7, <1>8

\* The lock is taken: the thread's transaction is the latest of its own.
LEMMA SubmittedFacts ==
  ASSUME IInv, NEW z \in Submitters, Submitted(z), NEW P,
         P = Append(pending, Signing(z))
  PROVE  /\ P \in Seq(Tx) /\ P # <<>> /\ Len(P) = Len(pending) + 1
         /\ Len(P) <= BlockSize /\ OrderedRows(P, Batches)
         /\ QueuesGrow /\ AreQueued(P)' /\ Busy'
         /\ stopped' = stopped /\ todo' \in [Submitters -> Nat]
         /\ signed' = signed /\ signing' \in [Submitters -> BOOLEAN]
<1> USE DEF IInv
<1>1. /\ signing[z] /\ signing' = [signing EXCEPT ![z] = FALSE]
      /\ todo' = [todo EXCEPT ![z] = @ - 1] /\ UNCHANGED <<stopped, signed>>
      /\ signed[z] \in 1 .. MaxTxs /\ MaxTxs \in Nat /\ todo[z] \in Nat \ {0}
  BY LedgerBounds DEF Submitted, Busy, TypeOK
<1>2. todo' \in [Submitters -> Nat] /\ signing' \in [Submitters -> BOOLEAN]
  BY <1>1 DEF TypeOK
<1>3. Busy'
  BY <1>1 DEF Busy, TypeOK
<1>4. QueuesGrow
  BY <1>1 DEF QueuesGrow, Queued, TypeOK
<1>5. /\ Queued(z) = signed[z] - 1 /\ Queued(z)' = signed[z]
  BY <1>1 DEF Queued, TypeOK
<1>6. PICK x : x = Signing(z)
  OBVIOUS
<1>7. x \in Tx /\ x.by = z /\ x.no = signed[z]
  BY <1>1, <1>6 DEF Signing, Tx
<1>8. /\ P \in Seq(Tx) /\ Len(P) = Len(pending) + 1
      /\ DOMAIN P = 1 .. Len(pending) + 1 /\ P[Len(pending) + 1] = x
      /\ \A i \in 1 .. Len(pending) : P[i] = pending[i]
      /\ pending \in Seq(Tx) /\ Len(pending) \in Nat
      /\ DOMAIN pending = 1 .. Len(pending)
  BY <1>6, <1>7, AppendFacts, SeqFacts DEF TypeOK
<1>9. P # <<>> /\ Len(P) <= BlockSize
  BY <1>8, BlockSizeAssumption DEF NeverFull
<1>10. ASSUME NEW s \in Seq(Tx), AreQueued(s) PROVE Before(s, <<x>>)
  <2> SUFFICES ASSUME NEW i \in DOMAIN s, s[i].by = z PROVE s[i].no < signed[z]
    BY <1>7 DEF Before
  <2>1. s[i].no \in 1 .. signed[z] - 1
    BY <1>5, <1>10 DEF AreQueued
  <2> QED BY <1>1, <2>1
<1>11. OrderedRows(P, Batches)
  <2>1. OrderedRows(pending, Batches) /\ Batches \in Seq(Seq(Tx))
    BY InOrderRows, BatchesType
  <2>2. Before(pending, <<x>>)
    BY <1>8, <1>10 DEF Counted
  <2>3. ASSUME NEW k \in DOMAIN Batches PROVE Before(Batches[k], <<x>>)
    BY <1>10, BatchesType DEF Counted, Batches, Block
  <2>4. OrderedRows(Append(pending, x), Batches)
    BY <1>7, <1>8, <2>1, <2>2, <2>3, OrderAfterSubmit
  <2> QED BY <1>6, <2>4
<1>12. AreQueued(P)'
  <2> SUFFICES ASSUME NEW i \in DOMAIN P PROVE P[i].no \in 1 .. Queued(P[i].by)'
    BY DEF AreQueued
  <2>1. CASE i = Len(pending) + 1
    BY <1>1, <1>5, <1>7, <1>8, <2>1
  <2>2. CASE i # Len(pending) + 1
    <3>1. PICK s : s = pending
      OBVIOUS
    <3>2. s \in Seq(Tx) /\ AreQueued(s)
      BY <1>8, <3>1 DEF Counted
    <3>3. AreQueued(s)'
      BY <1>4, <3>2, QueuedGrows DEF QueuesGrow
    <3>4. i \in DOMAIN s /\ P[i] = s[i]
      BY <1>8, <2>2, <3>1
    <3> QED BY <3>3, <3>4 DEF AreQueued
  <2> QED BY <2>1, <2>2
<1> QED BY <1>1, <1>2, <1>3, <1>4, <1>8, <1>9, <1>11, <1>12
LEMMA SubmitStep ==
  ASSUME IInv, NEW z \in Submitters, Submit(z)
  PROVE  IInv' /\ Batches' = Batches
<1> USE DEF IInv
<1>1. PICK P : P = Append(pending, Signing(z))
  OBVIOUS
<1>2. /\ Submitted(z) /\ ~Full(P) /\ pending' = P
      /\ UNCHANGED <<blocks, endorsements, chain, rejected>>
  BY <1>1 DEF Submit
<1>3. /\ P \in Seq(Tx) /\ Len(P) = Len(pending) + 1
      /\ OrderedRows(P, Batches)
      /\ QueuesGrow /\ AreQueued(P)' /\ Busy'
      /\ stopped' = stopped /\ todo' \in [Submitters -> Nat]
      /\ signed' = signed /\ signing' \in [Submitters -> BOOLEAN]
  BY <1>1, <1>2, SubmittedFacts
<1>4. TypeOK'
  BY <1>2, <1>3 DEF TypeOK
<1>5. Batches' = Batches
  BY <1>2 DEF Batches, Committed
<1>6. ChainVerifies' /\ Positions'
  BY <1>2 DEF ChainVerifies, Positions, Committed
<1>7. InOrder'
  <2>1. OrderedRows(pending', Batches')
    BY <1>2, <1>3, <1>5
  <2> QED BY <2>1 DEF InOrder, OrderedRows, Batches
<1>8. NeverFull'
  <2>1. Len(P) \in Nat
    BY <1>3, SeqFacts
  <2> QED BY <1>2, <2>1, BlockSizeAssumption DEF NeverFull, Full
<1>9. Counted'
  <2>1. AreQueued(pending)'
    BY <1>2, <1>3
  <2>2. ASSUME NEW k \in DOMAIN chain PROVE AreQueued(Committed(k).txs)'
    <3>1. PICK s : s = Batches[k]
      OBVIOUS
    <3>2. Committed(k)'.txs = s
      BY <1>2, <3>1 DEF Batches, Committed
    <3> QED BY <1>3, <3>1, <3>2, ChainCounted
  <2> QED BY <1>2, <2>1, <2>2 DEF Counted
<1>10. Current'
  <2> SUFFICES ASSUME NEW i \in DOMAIN blocks, blocks[i].index = Len(chain)
               PROVE  blocks[i].txs # <<>> /\ IsPrefix(blocks[i].txs, P)
    BY <1>2 DEF Current
  <2>1. blocks[i].txs # <<>> /\ IsPrefix(blocks[i].txs, pending)
    BY DEF Current
  <2>2. /\ Len(pending) \in Nat /\ Len(blocks[i].txs) \in Nat
        /\ DOMAIN blocks[i].txs = 1 .. Len(blocks[i].txs)
        /\ \A j \in 1 .. Len(pending) : P[j] = pending[j]
    <3>1. pending \in Seq(Tx) /\ Len(pending) \in Nat /\ Signing(z) \in Tx
      BY SeqFacts DEF TypeOK, Signing, Tx
    <3>2. \A j \in 1 .. Len(pending) : P[j] = pending[j]
      BY <1>1, <3>1, AppendFacts
    <3> QED BY <3>1, <3>2, BlocksType, SeqFacts
  <2> QED BY <1>3, <2>1, <2>2 DEF IsPrefix
<1> QED
  BY <1>3, <1>4, <1>5, <1>6, <1>7, <1>8, <1>9, <1>10

LEMMA SubmitAndSealStep ==
  ASSUME IInv, NEW z \in Submitters, SubmitAndSeal(z), NEW P,
         P = Append(pending, Signing(z))
  PROVE  IInv' /\ Batches' = Append(Batches, P) /\ pending' = Rest(P, Len(P))
<1>1. Submitted(z) /\ Seal(P)
  BY DEF SubmitAndSeal
<1>2. /\ P \in Seq(Tx) /\ P # <<>>
      /\ Len(P) <= BlockSize /\ OrderedRows(P, Batches)
      /\ QueuesGrow /\ AreQueued(P)' /\ Busy'
      /\ stopped' \in BOOLEAN /\ todo' \in [Submitters -> Nat]
      /\ signed' \in [Submitters -> Nat] /\ signing' \in [Submitters -> BOOLEAN]
  BY <1>1, SubmittedFacts DEF IInv, TypeOK
<1> QED BY <1>1, <1>2, SealStep

LEMMA StopStep ==
  ASSUME IInv, Stop, NEW P, P = pending
  PROVE  /\ IInv'
         /\ \/ pending' = pending /\ Batches' = Batches
            \/ /\ P # <<>> /\ Batches' = Append(Batches, P)
               /\ pending' = Rest(P, Len(P))
<1> USE DEF IInv
<1>1. /\ stopped' = TRUE /\ UNCHANGED <<todo, signed, signing>>
  BY DEF Stop, threadVars
<1>2. QueuesGrow /\ Busy'
  BY <1>1 DEF QueuesGrow, Queued, Busy, TypeOK
<1>3. CASE UNCHANGED ledgerVars
  <2>1. UNCHANGED <<pending, blocks, endorsements, chain, rejected>>
    BY <1>3 DEF ledgerVars
  <2>2. TypeOK'
    BY <1>1, <2>1 DEF TypeOK
  <2>3. Counted'
    BY <1>2, <2>1, LedgerKept, CountedKept
  <2> QED BY <1>2, <2>1, <2>2, <2>3, LedgerKept
<1>4. CASE pending # <<>> /\ Seal(pending)
  <2>1. P \in Seq(Tx) /\ AreQueued(P)
    BY DEF TypeOK, Counted
  <2>2. AreQueued(P)'
    BY <1>2, <2>1, QueuedGrows DEF QueuesGrow
  <2>3. OrderedRows(P, Batches) /\ Len(P) <= BlockSize
    BY <2>1, InOrderRows, BlockSizeAssumption, SeqFacts DEF NeverFull
  <2>4. /\ stopped' \in BOOLEAN /\ todo' \in [Submitters -> Nat]
        /\ signed' \in [Submitters -> Nat] /\ signing' \in [Submitters -> BOOLEAN]
    BY <1>1 DEF TypeOK
  <2> QED BY <1>2, <1>4, <2>1, <2>2, <2>3, <2>4, SealStep
<1> QED BY <1>3, <1>4 DEF Stop, Flush

LEMMA IInvStep == IInv /\ [Next]_vars => IInv'
<1> SUFFICES ASSUME IInv, [Next]_vars PROVE IInv'
  OBVIOUS
<1>1. ASSUME NEW z \in Submitters, Begin(z) PROVE IInv'
  BY <1>1, BeginStep
<1>2. ASSUME NEW z \in Submitters, Sign(z) PROVE IInv'
  BY <1>2, SignStep
<1>3. ASSUME NEW z \in Submitters, Submit(z) PROVE IInv'
  BY <1>3, SubmitStep
<1>4. ASSUME NEW z \in Submitters, SubmitAndSeal(z) PROVE IInv'
  BY <1>4, SubmitAndSealStep
<1>5. CASE Stop
  BY <1>5, StopStep
<1>6. ASSUME NEW v \in Proposers, ProposeBlock(v) PROVE IInv'
  BY <1>6, ProposeStep
<1>7. ASSUME NEW i \in DOMAIN blocks, NEW v \in Validators, Endorse(i, v)
      PROVE  IInv'
  BY <1>7, EndorseStep
<1>8. ASSUME NEW i \in DOMAIN blocks, CommitBlock(i) PROVE IInv'
  BY <1>8, CommitStep
<1>9. ASSUME NEW i \in DOMAIN blocks, RefuseBlock(i) PROVE IInv'
  BY <1>9, RefuseStep
<1>10. CASE UNCHANGED vars
  <2>1. /\ UNCHANGED <<stopped, todo, signed, signing>>
        /\ UNCHANGED <<pending, blocks, endorsements, chain, rejected>>
    BY <1>10 DEF vars, threadVars, ledgerVars
  <2>2. TypeOK' /\ Busy' /\ QueuesGrow
    BY <2>1 DEF IInv, TypeOK, Busy, QueuesGrow, Queued
  <2>3. Counted'
    BY <2>1, <2>2, LedgerKept, CountedKept DEF IInv
  <2> QED BY <2>1, <2>2, <2>3, LedgerKept DEF IInv
<1> QED
  BY <1>1, <1>2, <1>3, <1>4, <1>5, <1>6, <1>7, <1>8, <1>9, <1>10 DEF Next
LEMMA Invariant == Spec => []IInv
<1>1. Init => IInv
  BY InitIInv
<1>2. IInv /\ [Next]_vars => IInv'
  BY IInvStep
<1> QED BY <1>1, <1>2, PTL DEF Spec

\* TypeOK holds in every reachable state (contracts/ledger.py).
THEOREM TypeCorrect == Spec => []TypeOK
<1>1. IInv => TypeOK
  BY DEF IInv
<1> QED BY <1>1, Invariant, PTL

\* verify_chain never finds a broken link or a quorum missing, however many
\* blocks compete for a position (commit_block).
THEOREM ChainAlwaysVerifies == Spec => []ChainVerifies
<1>1. IInv => ChainVerifies
  BY DEF IInv
<1> QED BY <1>1, Invariant, PTL

\* A thread's events are in the chain in the order they happened, each once
\* (submit, commit_block).
THEOREM AlwaysInOrder == Spec => []InOrder
<1>1. IInv => InOrder
  BY DEF IInv
<1> QED BY <1>1, Invariant, PTL

\* The submission that fills a block seals it (submit).
THEOREM AlwaysNeverFull == Spec => []NeverFull
<1>1. IInv => NeverFull
  BY DEF IInv
<1> QED BY <1>1, Invariant, PTL

-----------------------------------------------------------------------------
(***************************************************************************)
(* The ledger implements the audit log.                                    *)
(***************************************************************************)
Log == [k \in DOMAIN chain |-> Elements(Committed(k).txs)]
Hand == {Signing(z) : z \in InHand}

LEMMA LogKept ==
  ASSUME IInv, IInv', Batches' = Batches
  PROVE  Log' = Log
<1>1. /\ DOMAIN Batches = DOMAIN chain
      /\ \A k \in DOMAIN chain : Batches[k] = Committed(k).txs
  BY DEF Batches
<1>2. /\ DOMAIN Batches' = DOMAIN chain'
      /\ \A k \in DOMAIN chain' : Batches'[k] = Committed(k)'.txs
  BY DEF Batches
<1>3. \A k \in DOMAIN chain : Elements(Committed(k).txs)' = Elements(Committed(k).txs)
  BY <1>1, <1>2 DEF Elements
<1>4. DOMAIN chain' = DOMAIN chain
  BY <1>1, <1>2
<1> QED BY <1>3, <1>4 DEF Log

LEMMA LogAppended ==
  ASSUME IInv, IInv', NEW t \in Seq(Tx), Batches' = Append(Batches, t)
  PROVE  Log' = Append(Log, Elements(t))
<1>1. /\ Batches \in Seq(Seq(Tx)) /\ Len(Batches) = Len(chain)
      /\ DOMAIN chain = 1 .. Len(chain) /\ Len(chain) \in Nat
      /\ \A k \in 1 .. Len(chain) : Batches[k] = Committed(k).txs
  BY BatchesType DEF IInv
<1>2. /\ DOMAIN Batches' = DOMAIN chain'
      /\ \A k \in DOMAIN chain' : Batches'[k] = Committed(k)'.txs
  BY DEF Batches
<1>3. /\ DOMAIN Batches' = 1 .. Len(chain) + 1 /\ Batches'[Len(chain) + 1] = t
      /\ \A k \in 1 .. Len(chain) : Batches'[k] = Batches[k]
  BY <1>1, AppendFacts
<1>4. Log = [k \in 1 .. Len(chain) |-> Elements(Committed(k).txs)]
  BY <1>1 DEF Log
<1>5. Append(Log, Elements(t))
        = [k \in 1 .. Len(chain) + 1 |->
             IF k = Len(chain) + 1 THEN Elements(t) ELSE Log[k]]
  <2>1. Log \in Seq(SUBSET Tx) /\ Len(Log) = Len(chain)
    <3>1. \A k \in 1 .. Len(chain) : Elements(Committed(k).txs) \in SUBSET Tx
      <4> SUFFICES ASSUME NEW k \in 1 .. Len(chain), NEW i \in DOMAIN Batches[k]
                   PROVE  Batches[k][i] \in Tx
        BY <1>1 DEF Elements
      <4>1. Batches[k] \in Seq(Tx)
        BY <1>1
      <4> QED BY <4>1, SeqFacts
    <3> QED BY <1>1, <1>4, <3>1
  <2>2. Elements(t) \in SUBSET Tx
    BY SeqFacts DEF Elements
  <2> QED BY <2>1, <2>2, AppendIsFunction
<1>6. Log' = [k \in 1 .. Len(chain) + 1 |-> Elements(Committed(k).txs)']
  BY <1>2, <1>3 DEF Log
<1>7. ASSUME NEW k \in 1 .. Len(chain) + 1
      PROVE  Elements(Committed(k).txs)'
               = IF k = Len(chain) + 1 THEN Elements(t) ELSE Log[k]
  <2>1. Committed(k)'.txs = Batches'[k]
    BY <1>2, <1>3
  <2>2. CASE k = Len(chain) + 1
    BY <1>3, <2>1, <2>2 DEF Elements
  <2>3. CASE k # Len(chain) + 1
    <3>1. k \in 1 .. Len(chain)
      BY <1>1, <2>3
    <3>2. Committed(k)'.txs = Committed(k).txs
      BY <1>1, <1>3, <2>1, <3>1
    <3> QED BY <1>4, <2>3, <3>1, <3>2 DEF Elements
  <2> QED BY <2>2, <2>3
<1> QED BY <1>5, <1>6, <1>7

\* Taking the first transactions off P takes those elements off.
LEMMA RestOfElements ==
  ASSUME NEW P \in Seq(Tx), Ordered(P), NEW t \in Seq(Tx), IsPrefix(t, P)
  PROVE  /\ Elements(Rest(P, Len(t))) = Elements(P) \ Elements(t)
         /\ Elements(t) \subseteq Elements(P)
<1>1. /\ Len(P) \in Nat /\ DOMAIN P = 1 .. Len(P) /\ DOMAIN t = 1 .. Len(t)
      /\ Len(t) \in 0 .. Len(P) /\ \A j \in 1 .. Len(t) : t[j] = P[j]
  BY SeqFacts DEF IsPrefix
<1>2. /\ DOMAIN Rest(P, Len(t)) = 1 .. Len(P) - Len(t)
      /\ \A j \in 1 .. Len(P) - Len(t) : Rest(P, Len(t))[j] = P[Len(t) + j]
  BY <1>1, RestElements
<1>3. ASSUME NEW i \in 1 .. Len(P), NEW j \in 1 .. Len(P), i < j, P[i] = P[j]
      PROVE  FALSE
  <2>1. P[i] \in Tx /\ P[i].no < P[j].no
    BY <1>1, <1>3, SeqFacts DEF Ordered
  <2> QED BY <1>3, <2>1 DEF Tx
<1>4. Elements(t) \subseteq Elements(P)
  BY <1>1 DEF Elements
<1>5. ASSUME NEW j \in 1 .. Len(P) - Len(t)
      PROVE  P[Len(t) + j] \in Elements(P) \ Elements(t)
  <2>1. Len(t) + j \in 1 .. Len(P) /\ \A i \in 1 .. Len(t) : i < Len(t) + j
    BY <1>1
  <2> QED BY <1>1, <1>3, <2>1 DEF Elements
<1>6. ASSUME NEW i \in 1 .. Len(P), P[i] \notin Elements(t)
      PROVE  \E j \in 1 .. Len(P) - Len(t) : P[i] = P[Len(t) + j]
  <2>1. i > Len(t)
    BY <1>1, <1>6 DEF Elements
  <2>2. i - Len(t) \in 1 .. Len(P) - Len(t) /\ Len(t) + (i - Len(t)) = i
    BY <1>1, <2>1
  <2> QED BY <2>2
<1>7. Elements(Rest(P, Len(t))) = {P[Len(t) + j] : j \in 1 .. Len(P) - Len(t)}
  BY <1>2 DEF Elements
<1>8. Elements(P) = {P[i] : i \in 1 .. Len(P)}
  BY <1>1 DEF Elements
<1>9. ASSUME NEW x \in Elements(Rest(P, Len(t)))
      PROVE  x \in Elements(P) \ Elements(t)
  BY <1>5, <1>7
<1>10. ASSUME NEW x \in Elements(P) \ Elements(t)
       PROVE  x \in Elements(Rest(P, Len(t)))
  <2>1. PICK i \in 1 .. Len(P) : x = P[i]
    BY <1>8
  <2>2. PICK j \in 1 .. Len(P) - Len(t) : P[i] = P[Len(t) + j]
    BY <1>6, <2>1
  <2> QED BY <1>7, <2>1, <2>2
<1> QED BY <1>4, <1>9, <1>10

\* Committing the first transactions t of P logs a batch of waiting events.
LEMMA CommitLogs ==
  ASSUME IInv, IInv', NEW P \in Seq(Tx), OrderedRows(P, Batches),
         NEW t \in Seq(Tx), t # <<>>, IsPrefix(t, P),
         Batches' = Append(Batches, t), pending' = Rest(P, Len(t)), AreQueued(P)',
         Waiting = Elements(P) \cup Hand'
  PROVE  Audit!AuditNext
<1> DEFINE B == Elements(t)
<1>1. Log' = Append(Log, B)
  BY LogAppended
<1>2. Elements(pending') = Elements(P) \ B /\ B \subseteq Elements(P)
  BY RestOfElements DEF OrderedRows
<1>3. Elements(P) \cap Hand' = {}
  <2> SUFFICES ASSUME NEW i \in DOMAIN P, NEW z \in Submitters, signing'[z],
                      P[i] = Signing(z)'
               PROVE  FALSE
    BY DEF Elements, Hand, InHand
  <2>1. P[i].by = z /\ P[i].no = signed'[z]
    BY DEF Signing
  <2>2. P[i].no \in 1 .. signed'[z] - 1
    BY <2>1 DEF AreQueued, Queued
  <2>3. signed'[z] \in Nat
    BY DEF IInv, TypeOK
  <2> QED BY <2>1, <2>2, <2>3
<1>4. Waiting' = Elements(pending') \cup Hand'
  BY DEF Waiting, Hand, Elements
<1>5. Waiting' = Waiting \ B
  BY <1>2, <1>3, <1>4
<1>6. B # {}
  <2>1. 1 \in DOMAIN t
    BY SeqFacts
  <2> QED BY <2>1 DEF Elements
<1>7. B \in SUBSET Waiting
  BY <1>2
<1> QED
  BY <1>1, <1>5, <1>6, <1>7
  DEF Audit!AuditNext, Audit!LogBatch, Log

LEMMA InitAudit == Init => Audit!AuditInit
<1> SUFFICES ASSUME Init PROVE Audit!AuditInit
  OBVIOUS
<1>1. DOMAIN pending = {} /\ DOMAIN chain = {1} /\ Committed(1) = Genesis
  BY DEF Init, Committed
<1>2. Waiting = {}
  BY <1>1 DEF Init, Waiting, Elements, InHand
<1>3. Log = <<{}>>
  <2>1. Elements(Genesis.txs) = {}
    BY DEF Genesis, Elements
  <2>2. Log = [k \in {1} |-> Elements(Committed(k).txs)]
    BY <1>1 DEF Log
  <2>3. Log = [k \in {1} |-> {}]
    BY <1>1, <2>1, <2>2
  <2>4. <<{}>> = [k \in {1} |-> {}]
    OBVIOUS
  <2> QED BY <2>3, <2>4
<1> QED BY <1>2, <1>3 DEF Audit!AuditInit, Log
LEMMA AuditStutters ==
  ASSUME IInv, IInv', Batches' = Batches, Waiting' = Waiting
  PROVE  UNCHANGED Audit!auditVars
BY LogKept DEF Audit!auditVars, Log

\* Signing adds an event that is new.
LEMMA SignAudits ==
  ASSUME IInv, IInv', NEW z \in Submitters, Sign(z)
  PROVE  Audit!AuditNext
<1> USE DEF IInv
<1>1. /\ UNCHANGED <<pending, blocks, endorsements, chain>>
      /\ signed' = [signed EXCEPT ![z] = @ + 1]
      /\ signing' = [signing EXCEPT ![z] = TRUE]
      /\ ~signing[z] /\ signed[z] \in Nat /\ signed[z] < MaxTxs /\ MaxTxs \in Nat
  BY LedgerBounds DEF Sign, ledgerVars, TypeOK
<1>2. PICK e : e = [by |-> z, no |-> signed[z] + 1]
  OBVIOUS
<1>3. e \in [by : Submitters, no : 1 .. MaxTxs]
  BY <1>1, <1>2
<1>4. /\ InHand' = InHand \cup {z} /\ Signing(z)' = e
      /\ \A y \in InHand : Signing(y)' = Signing(y)
  BY <1>1, <1>2 DEF InHand, Signing, TypeOK
<1>5. Waiting' = Waiting \cup {e}
  BY <1>1, <1>4 DEF Waiting, Elements
<1>6. Log' = Log
  BY <1>1, LogKept DEF Batches, Committed
<1>7. ASSUME NEW s \in Seq(Tx), AreQueued(s) PROVE e \notin Elements(s)
  <2> SUFFICES ASSUME NEW i \in DOMAIN s, s[i] = e PROVE FALSE
    BY DEF Elements
  <2>1. s[i].by = z /\ s[i].no = signed[z] + 1
    BY <1>2
  <2>2. s[i].no \in 1 .. signed[z]
    BY <1>1, <1>7, <2>1 DEF AreQueued, Queued
  <2> QED BY <1>1, <2>1, <2>2
<1>8. e \notin Waiting
  <2>1. e \notin Elements(pending)
    BY <1>7 DEF TypeOK, Counted
  <2>2. \A y \in InHand : e # Signing(y)
    BY <1>1, <1>2 DEF InHand, Signing
  <2> QED BY <2>1, <2>2 DEF Waiting
<1>9. ASSUME NEW k \in DOMAIN chain PROVE e \notin Log[k]
  BY <1>7, BatchesType DEF Counted, Log
<1>10. e \notin UNION {Log[k] : k \in DOMAIN Log}
  BY <1>9 DEF Log
<1> QED
  BY <1>3, <1>5, <1>6, <1>8, <1>10
  DEF Audit!AuditNext, Audit!SignEvent, Audit!Logged, Log

\* Queueing an event keeps it waiting.
LEMMA SubmittedWaits ==
  ASSUME IInv, NEW z \in Submitters, Submitted(z), NEW P,
         P = Append(pending, Signing(z))
  PROVE  Waiting = Elements(P) \cup Hand'
<1> USE DEF IInv
<1>1. /\ signing[z] /\ signing' = [signing EXCEPT ![z] = FALSE]
      /\ signed' = signed
  BY DEF Submitted
<1>2. InHand = InHand' \cup {z} /\ \A y \in Submitters : Signing(y)' = Signing(y)
  BY <1>1 DEF InHand, Signing, TypeOK
<1>3. Hand' = {Signing(y) : y \in InHand'}
  BY <1>2 DEF Hand, InHand
<1>4. Elements(P) = Elements(pending) \cup {Signing(z)}
  <2>1. PICK x : x = Signing(z)
    OBVIOUS
  <2>2. pending \in Seq(Tx) /\ x \in Tx
    BY <2>1 DEF TypeOK, Signing, Tx
  <2>3. /\ DOMAIN P = 1 .. Len(pending) + 1 /\ P[Len(pending) + 1] = x
        /\ \A i \in 1 .. Len(pending) : P[i] = pending[i]
        /\ DOMAIN pending = 1 .. Len(pending) /\ Len(pending) \in Nat
    BY <2>1, <2>2, AppendFacts, SeqFacts
  <2>4. \A i \in DOMAIN P : i = Len(pending) + 1 \/ i \in DOMAIN pending
    BY <2>3
  <2> QED BY <2>1, <2>3, <2>4 DEF Elements
<1> QED BY <1>2, <1>3, <1>4 DEF Waiting

LEMMA StepAudits ==
  ASSUME IInv, IInv', [Next]_vars
  PROVE  [Audit!AuditNext]_Audit!auditVars
<1> USE DEF IInv
<1>1. ASSUME UNCHANGED <<signed, signing, pending, blocks, chain>>
      PROVE  UNCHANGED Audit!auditVars
  BY <1>1, AuditStutters
  DEF Batches, Committed, Waiting, Elements, InHand, Signing
<1>2. ASSUME NEW z \in Submitters, Begin(z) PROVE UNCHANGED Audit!auditVars
  BY <1>1, <1>2 DEF Begin, ledgerVars
<1>3. ASSUME NEW z \in Submitters, Sign(z) PROVE Audit!AuditNext
  BY <1>3, SignAudits
<1>4. ASSUME NEW z \in Submitters, Submit(z) PROVE UNCHANGED Audit!auditVars
  <2>1. PICK P : P = Append(pending, Signing(z))
    OBVIOUS
  <2>2. Submitted(z) /\ pending' = P
    BY <1>4, <2>1 DEF Submit
  <2>3. Waiting = Elements(P) \cup Hand'
    BY <2>1, <2>2, SubmittedWaits
  <2>4. Waiting' = Elements(P) \cup Hand'
    BY <2>2 DEF Waiting, Hand, Elements
  <2> QED BY <1>4, <2>3, <2>4, SubmitStep, AuditStutters
<1>5. ASSUME NEW z \in Submitters, SubmitAndSeal(z) PROVE Audit!AuditNext
  <2>1. PICK P : P = Append(pending, Signing(z))
    OBVIOUS
  <2>2. Submitted(z)
    BY <1>5 DEF SubmitAndSeal
  <2>3. /\ P \in Seq(Tx) /\ P # <<>> /\ OrderedRows(P, Batches) /\ AreQueued(P)'
    BY <2>1, <2>2, SubmittedFacts
  <2>4. Batches' = Append(Batches, P) /\ pending' = Rest(P, Len(P))
    BY <1>5, <2>1, SubmitAndSealStep
  <2>5. Waiting = Elements(P) \cup Hand'
    BY <2>1, <2>2, SubmittedWaits
  <2>6. IsPrefix(P, P)
    BY <2>3, SeqFacts DEF IsPrefix
  <2> QED BY <2>3, <2>4, <2>5, <2>6, CommitLogs
<1>6. CASE Stop
  <2>1. PICK P : P = pending
    OBVIOUS
  <2>2. UNCHANGED <<signed, signing>>
    BY <1>6 DEF Stop, threadVars
  <2>3. Waiting = Elements(P) \cup Hand'
    BY <2>1, <2>2 DEF Waiting, Hand, InHand, Signing
  <2>4. CASE pending' = pending /\ Batches' = Batches
    <3>1. Waiting' = Waiting
      BY <2>2, <2>4 DEF Waiting, InHand, Signing, Elements
    <3> QED BY <2>4, <3>1, AuditStutters
  <2>5. CASE /\ P # <<>> /\ Batches' = Append(Batches, P)
             /\ pending' = Rest(P, Len(P))
    <3>1. P \in Seq(Tx) /\ AreQueued(P) /\ OrderedRows(P, Batches)
      BY <2>1, InOrderRows DEF TypeOK, Counted
    <3>2. QueuesGrow
      BY <2>2 DEF QueuesGrow, Queued, TypeOK
    <3>3. AreQueued(P)'
      BY <3>1, <3>2, QueuedGrows DEF QueuesGrow
    <3>4. IsPrefix(P, P)
      BY <3>1, SeqFacts DEF IsPrefix
    <3> QED BY <2>3, <2>5, <3>1, <3>3, <3>4, CommitLogs
  <2> QED BY <1>6, <2>1, <2>4, <2>5, StopStep
<1>7. ASSUME NEW v \in Proposers, ProposeBlock(v) PROVE UNCHANGED Audit!auditVars
  <2>1. PICK h \in 1 .. Len(blocks) + 1 :
          blocks' = Append(blocks, Proposal(pending, h))
    BY <1>7 DEF ProposeBlock
  <2>2. /\ endorsements' = Append(endorsements, {v})
        /\ UNCHANGED <<signed, signing, pending, chain>>
    BY <1>7 DEF ProposeBlock, threadVars
  <2>3. h \in Nat /\ {v} \in SUBSET Validators /\ pending \in Seq(Tx)
    BY LedgerBounds DEF TypeOK
  <2>4. Batches' = Batches
    BY <2>1, <2>2, <2>3, ProposedBlock, ChainKept
  <2>5. Waiting' = Waiting
    BY <2>2 DEF Waiting, InHand, Signing, Elements
  <2> QED BY <2>4, <2>5, AuditStutters
<1>8. ASSUME NEW i \in DOMAIN blocks, NEW v \in Validators, Endorse(i, v)
      PROVE  UNCHANGED Audit!auditVars
  BY <1>1, <1>8 DEF Endorse, threadVars
<1>9. ASSUME NEW i \in DOMAIN blocks, CommitBlock(i) PROVE Audit!AuditNext
  <2>1. PICK P, t : P = pending /\ t = blocks[i].txs
    OBVIOUS
  <2>2. UNCHANGED <<signed, signing>>
    BY <1>9 DEF CommitBlock, threadVars
  <2>3. Waiting = Elements(P) \cup Hand'
    BY <2>1, <2>2 DEF Waiting, Hand, InHand, Signing
  <2>4. /\ t # <<>> /\ IsPrefix(t, P) /\ t \in Seq(Tx)
        /\ Batches' = Append(Batches, t) /\ pending' = Rest(P, Len(t))
    BY <1>9, <2>1, CommitStep, BlocksType
  <2>5. P \in Seq(Tx) /\ AreQueued(P) /\ OrderedRows(P, Batches)
    BY <2>1, InOrderRows DEF TypeOK, Counted
  <2>6. QueuesGrow
    BY <2>2 DEF QueuesGrow, Queued, TypeOK
  <2>7. AreQueued(P)'
    BY <2>5, <2>6, QueuedGrows DEF QueuesGrow
  <2> QED BY <2>3, <2>4, <2>5, <2>7, CommitLogs
<1>10. ASSUME NEW i \in DOMAIN blocks, RefuseBlock(i)
       PROVE  UNCHANGED Audit!auditVars
  BY <1>1, <1>10 DEF RefuseBlock, threadVars
<1>11. CASE UNCHANGED vars
  BY <1>1, <1>11 DEF vars, threadVars, ledgerVars
<1> QED
  BY <1>2, <1>3, <1>4, <1>5, <1>6, <1>7, <1>8, <1>9, <1>10, <1>11 DEF Next

\* The ledger implements the audit log: an event that was signed waits until it
\* is logged, once, and what is logged stays (contracts/ledger.py).
THEOREM ImplementsAuditLog == Spec => KeepsAuditLog
<1>1. Init => Audit!AuditInit
  BY InitAudit
<1>2. IInv /\ IInv' /\ [Next]_vars => [Audit!AuditNext]_Audit!auditVars
  BY StepAudits
<1> QED BY <1>1, <1>2, Invariant, PTL DEF Spec, KeepsAuditLog, Audit!AuditSpec

\* A set of numbers has a least one.
LEMMA LeastOf ==
  ASSUME NEW S \in SUBSET Nat, S # {}
  PROVE  \E m \in S : \A n \in S : m <= n
<1>1. PICK x \in S : \A y \in S : ~(<<y, x>> \in OpToRel(<, Nat))
  BY WFMin, NatLessThanWellFounded
<1>2. \A y \in S : x <= y
  <2> SUFFICES ASSUME NEW y \in S PROVE x <= y
    OBVIOUS
  <2>1. x \in Nat /\ y \in Nat /\ <<y, x>> \in Nat \X Nat
    OBVIOUS
  <2>2. ~(y < x)
    BY <1>1, <2>1 DEF OpToRel
  <2> QED BY <2>1, <2>2
<1> QED BY <1>2

-----------------------------------------------------------------------------
(***************************************************************************)
(* The levels of a Merkle tree.                                            *)
(***************************************************************************)

\* The level above one has half as many elements, each two neighbours.
LEMMA AboveFacts ==
  ASSUME NEW S, NEW s \in Seq(S), Len(s) >= 2
  PROVE  /\ Above(s) \in Seq(S \X S)
         /\ Len(Above(s)) \in 1 .. Len(s) - 1
         /\ 2 * Len(Above(s)) = Len(s) \/ 2 * Len(Above(s)) = Len(s) + 1
         /\ \A i \in 1 .. Len(Above(s)) :
              Above(s)[i]
                = <<s[2 * i - 1], s[IF 2 * i <= Len(s) THEN 2 * i ELSE Len(s)]>>
<1> DEFINE e == Evened(s)
           m == Len(e) \div 2
<1>1. Len(s) \in Nat
  OBVIOUS
<1>2. /\ e \in Seq(S)
      /\ Len(e) = Len(s) \/ Len(e) = Len(s) + 1
      /\ Len(e) % 2 = 0
      /\ \A i \in 1 .. Len(e) : e[i] = s[IF i <= Len(s) THEN i ELSE Len(s)]
  <2>1. CASE Len(s) % 2 = 0
    BY <1>1, <2>1 DEF Evened
  <2>2. CASE Len(s) % 2 # 0
    <3>1. e = Append(s, s[Len(s)]) /\ s[Len(s)] \in S
      BY <1>1, <2>2 DEF Evened
    <3>2. /\ e \in Seq(S) /\ Len(e) = Len(s) + 1 /\ e[Len(s) + 1] = s[Len(s)]
          /\ \A i \in 1 .. Len(s) : e[i] = s[i]
      BY <3>1
    <3>3. Len(e) % 2 = 0
      BY <1>1, <2>2, <3>2
    <3> HIDE DEF e
    <3> QED BY <1>1, <3>2, <3>3
  <2> QED BY <2>1, <2>2
<1>3. Above(s) = [i \in 1 .. m |-> <<e[2 * i - 1], e[2 * i]>>]
  BY <1>1 DEF Above
<1> HIDE DEF e
<1>4. m \in 1 .. Len(s) - 1 /\ 2 * m = Len(e) /\ Len(e) \in Nat
  BY <1>1, <1>2
<1> HIDE DEF m
<1>5. ASSUME NEW i \in 1 .. m
      PROVE  /\ 2 * i - 1 \in 1 .. Len(s) /\ 2 * i \in 1 .. Len(e)
             /\ 2 * i - 1 \in 1 .. Len(e)
  BY <1>1, <1>2, <1>4
<1>6. ASSUME NEW i \in 1 .. m
      PROVE  /\ e[2 * i - 1] = s[2 * i - 1]
             /\ e[2 * i] = s[IF 2 * i <= Len(s) THEN 2 * i ELSE Len(s)]
             /\ <<e[2 * i - 1], e[2 * i]>> \in S \X S
  <2>1. \A j \in 1 .. Len(e) : e[j] \in S
    BY <1>2
  <2>2. e[2 * i - 1] = s[2 * i - 1]
    BY <1>2, <1>5
  <2>3. e[2 * i] = s[IF 2 * i <= Len(s) THEN 2 * i ELSE Len(s)]
    BY <1>2, <1>5
  <2> QED BY <1>5, <2>1, <2>2, <2>3
<1>7. Above(s) \in Seq(S \X S) /\ Len(Above(s)) = m
  <2>1. m \in Nat /\ Above(s) \in [1 .. m -> S \X S]
    BY <1>1, <1>3, <1>4, <1>6
  <2> QED BY <2>1
<1>8. \A i \in 1 .. m :
        Above(s)[i]
          = <<s[2 * i - 1], s[IF 2 * i <= Len(s) THEN 2 * i ELSE Len(s)]>>
  BY <1>3, <1>6
<1> QED BY <1>1, <1>2, <1>4, <1>7, <1>8

\* f holds the first n levels above s.
Levels(s, n, f) == f = [i \in 0 .. n |-> IF i = 0 THEN s ELSE Above(f[i - 1])]

\* There are such levels, however many.
LEMMA LevelsExist ==
  ASSUME NEW s, NEW n \in Nat
  PROVE  \E f : Levels(s, n, f)
<1> DEFINE Bad == {m \in Nat : \A f : ~Levels(s, m, f)}
<1>1. SUFFICES ASSUME n \in Bad PROVE FALSE
  OBVIOUS
<1>2. PICK m \in Bad : \A k \in Bad : m <= k
  <2>1. Bad \in SUBSET Nat /\ Bad # {}
    BY <1>1
  <2> HIDE DEF Bad
  <2> QED BY <2>1, LeastOf
<1>3. m \in Nat /\ \A f : ~Levels(s, m, f)
  BY <1>2
<1>4. CASE m = 0
  <2> DEFINE f == [i \in 0 .. 0 |-> s]
  <2>1. \A i \in 0 .. 0 : i = 0
    OBVIOUS
  <2>2. f = [i \in 0 .. 0 |-> IF i = 0 THEN s ELSE Above(f[i - 1])]
    BY <2>1
  <2>3. Levels(s, 0, f)
    BY <2>2 DEF Levels
  <2> QED BY <1>3, <1>4, <2>3
<1>5. CASE m # 0
  <2>1. m - 1 \in Nat /\ m - 1 \notin Bad
    BY <1>2, <1>3, <1>5
  <2>2. PICK g : Levels(s, m - 1, g)
    BY <2>1
  <2>3. /\ DOMAIN g = 0 .. m - 1
        /\ \A i \in 0 .. m - 1 : g[i] = IF i = 0 THEN s ELSE Above(g[i - 1])
    BY <2>2 DEF Levels
  <2> DEFINE f == [i \in 0 .. m |-> IF i = m THEN Above(g[m - 1]) ELSE g[i]]
  <2>4. ASSUME NEW i \in 0 .. m
        PROVE  f[i] = IF i = 0 THEN s ELSE Above(f[i - 1])
    <3>1. CASE i = m
      <4>1. f[i] = Above(g[m - 1]) /\ i # 0
        BY <1>5, <3>1
      <4>2. f[i - 1] = g[m - 1]
        BY <1>3, <1>5, <3>1
      <4> HIDE DEF f
      <4> QED BY <3>1, <4>1, <4>2
    <3>2. CASE i # m
      <4>1. i \in 0 .. m - 1 /\ f[i] = g[i]
        BY <1>3, <3>2
      <4>2. i # 0 => f[i - 1] = g[i - 1]
        BY <1>3, <3>2
      <4> HIDE DEF f
      <4> QED BY <2>3, <4>1, <4>2
    <3> QED BY <3>1, <3>2
  <2>5. f = [i \in 0 .. m |-> f[i]]
    OBVIOUS
  <2>6. Levels(s, m, f)
    <3> HIDE DEF f
    <3> QED BY <2>4, <2>5 DEF Levels
  <2> QED BY <1>3, <2>6
<1> QED BY <1>4, <1>5

\* What the levels are, one by one.
LEMMA LevelFacts ==
  ASSUME NEW s, NEW n \in Nat, NEW f, Levels(s, n, f)
  PROVE  f[0] = s /\ \A i \in 1 .. n : f[i] = Above(f[i - 1])
<1>1. \A i \in 0 .. n : f[i] = IF i = 0 THEN s ELSE Above(f[i - 1])
  BY DEF Levels
<1> QED BY <1>1

\* The root is found on the last of the levels that MerkleRoot builds.
LEMMA RootLevels ==
  ASSUME NEW s, Len(s) \in Nat
  PROVE  \E f : /\ Levels(s, Len(s), f)
                /\ MerkleRoot(s) = IF f[Len(s)] = <<>> THEN <<>> ELSE f[Len(s)][1]
<1> DEFINE level == CHOOSE f : Levels(s, Len(s), f)
<1>1. Levels(s, Len(s), level)
  BY LevelsExist
<1>2. MerkleRoot(s)
        = IF level[Len(s)] = <<>> THEN <<>> ELSE level[Len(s)][1]
  BY DEF MerkleRoot, Levels
<1> HIDE DEF level
<1> QED BY <1>1, <1>2

\* The levels get shorter, until there is one element.
LEMMA LevelsShorten ==
  ASSUME NEW S, NEW s \in Seq(S), NEW n \in Nat, NEW f, Levels(s, n, f),
         NEW j \in 0 .. n
  PROVE  \E T : f[j] \in Seq(T) /\ (Len(f[j]) <= 1 \/ Len(f[j]) <= Len(s) - j)
<1> DEFINE Short(i) ==
      \E T : f[i] \in Seq(T) /\ (Len(f[i]) <= 1 \/ Len(f[i]) <= Len(s) - i)
    Bad == {i \in 0 .. n : ~Short(i)}
<1>1. SUFFICES ASSUME j \in Bad PROVE FALSE
  OBVIOUS
<1>2. PICK i \in Bad : \A k \in Bad : i <= k
  <2>1. Bad \in SUBSET Nat /\ Bad # {}
    BY <1>1
  <2> HIDE DEF Bad
  <2> QED BY <2>1, LeastOf
<1>3. i \in 0 .. n /\ ~Short(i)
  BY <1>2
<1>4. i # 0
  <2>1. f[0] = s
    BY LevelFacts
  <2>2. f[0] \in Seq(S) /\ Len(f[0]) <= Len(s) - 0
    BY <2>1
  <2>3. Short(0)
    BY <2>2
  <2> HIDE DEF Short
  <2> QED BY <1>3, <2>3
<1>5. i - 1 \in 0 .. n /\ i - 1 \notin Bad
  BY <1>2, <1>3, <1>4
<1>6. Short(i - 1)
  BY <1>5
<1>7. PICK T : /\ f[i - 1] \in Seq(T)
               /\ (Len(f[i - 1]) <= 1 \/ Len(f[i - 1]) <= Len(s) - (i - 1))
  BY <1>6
<1>8. f[i] = Above(f[i - 1])
  BY <1>3, <1>4, LevelFacts
<1>9. Len(s) \in Nat /\ Len(f[i - 1]) \in Nat
  BY <1>7
<1>10. CASE Len(f[i - 1]) <= 1
  <2>1. f[i] = f[i - 1]
    BY <1>8, <1>10 DEF Above
  <2>2. f[i] \in Seq(T) /\ Len(f[i]) <= 1
    BY <1>7, <1>10, <2>1
  <2> QED BY <1>3, <2>2
<1>11. CASE Len(f[i - 1]) >= 2
  <2>1. f[i] \in Seq(T \X T) /\ Len(f[i]) \in 1 .. Len(f[i - 1]) - 1
    <3>1. PICK r : r = f[i - 1]
      OBVIOUS
    <3>2. Above(r) \in Seq(T \X T) /\ Len(Above(r)) \in 1 .. Len(r) - 1
      BY <1>7, <1>11, <3>1, AboveFacts
    <3> QED BY <1>8, <3>1, <3>2
  <2>2. Len(f[i]) <= Len(s) - i
    BY <1>3, <1>7, <1>9, <1>11, <2>1
  <2> QED BY <1>3, <2>1, <2>2
<1> QED BY <1>9, <1>10, <1>11

-----------------------------------------------------------------------------
(***************************************************************************)
(* Merkle roots.                                                           *)
(***************************************************************************)
LEMMA RootOfNone == MerkleRoot(<<>>) = <<>>
<1>1. Len(<<>>) = 0
  OBVIOUS
<1>2. PICK f : /\ Levels(<<>>, 0, f)
               /\ MerkleRoot(<<>>) = IF f[0] = <<>> THEN <<>> ELSE f[0][1]
  BY <1>1, RootLevels
<1> QED BY <1>2, LevelFacts

\* The root of one element is that element.
LEMMA RootOfOne ==
  ASSUME NEW S, NEW s \in Seq(S), Len(s) = 1
  PROVE  MerkleRoot(s) = s[1]
<1>1. PICK f : /\ Levels(s, 1, f)
               /\ MerkleRoot(s) = IF f[1] = <<>> THEN <<>> ELSE f[1][1]
  <2>1. Len(s) \in Nat
    OBVIOUS
  <2>2. \E f : /\ Levels(s, Len(s), f)
               /\ MerkleRoot(s) = IF f[Len(s)] = <<>> THEN <<>> ELSE f[Len(s)][1]
    BY <2>1, RootLevels
  <2> QED BY <2>2
<1>2. f[0] = s /\ f[1] = Above(f[0])
  <2>1. \A i \in 0 .. 1 : f[i] = IF i = 0 THEN s ELSE Above(f[i - 1])
    BY <1>1 DEF Levels
  <2>2. 0 \in 0 .. 1 /\ 1 \in 0 .. 1 /\ 1 - 1 = 0
    OBVIOUS
  <2> QED BY <2>1, <2>2
<1>3. f[1] = s /\ s # <<>>
  <2>1. f[1] = s
    BY <1>2 DEF Above
  <2> QED BY <2>1
<1> QED BY <1>1, <1>3

\* A level and the one above have the same root.
LEMMA RootAbove ==
  ASSUME NEW S, NEW s \in Seq(S), Len(s) >= 2
  PROVE  MerkleRoot(s) = MerkleRoot(Above(s))
<1> DEFINE N == Len(s)
           u == Above(s)
           M == Len(u)
<1>1. N \in Nat /\ u \in Seq(S \X S) /\ M \in Nat /\ M + 1 \in 1 .. N
  <2>1. u \in Seq(S \X S) /\ M \in 1 .. N - 1
    BY AboveFacts
  <2>2. N \in Nat
    OBVIOUS
  <2> HIDE DEF N, M, u
  <2> QED BY <2>1, <2>2
<1> HIDE DEF N, M, u
<1>2. PICK f : /\ Levels(s, N, f)
               /\ MerkleRoot(s) = IF f[N] = <<>> THEN <<>> ELSE f[N][1]
  BY <1>1, RootLevels DEF N
<1>3. PICK g : /\ Levels(u, M, g)
               /\ MerkleRoot(u) = IF g[M] = <<>> THEN <<>> ELSE g[M][1]
  BY <1>1, RootLevels DEF M
<1>4. f[0] = s /\ \A i \in 1 .. N : f[i] = Above(f[i - 1])
  BY <1>1, <1>2, LevelFacts
<1>5. g[0] = u /\ \A i \in 1 .. M : g[i] = Above(g[i - 1])
  BY <1>1, <1>3, LevelFacts
<1>6. g[M] = f[M + 1]
  <2> DEFINE Bad == {i \in 0 .. M : g[i] # f[i + 1]}
  <2>1. SUFFICES ASSUME M \in Bad PROVE FALSE
    BY <1>1
  <2>2. PICK i \in Bad : \A k \in Bad : i <= k
    <3>1. Bad \in SUBSET Nat /\ Bad # {}
      BY <2>1
    <3> HIDE DEF Bad
    <3> QED BY <3>1, LeastOf
  <2>3. i \in 0 .. M /\ g[i] # f[i + 1]
    BY <2>2
  <2>4. i # 0
    <3>1. f[1] = Above(f[1 - 1]) /\ 1 - 1 = 0
      BY <1>1, <1>4
    <3> QED BY <1>4, <1>5, <2>3, <3>1 DEF u
  <2>5. i - 1 \in 0 .. M /\ i - 1 \notin Bad
    BY <1>1, <2>2, <2>3, <2>4
  <2>6. g[i - 1] = f[(i - 1) + 1] /\ (i - 1) + 1 = i
    BY <2>5
  <2>7. g[i] = Above(g[i - 1])
    BY <1>5, <2>3, <2>4
  <2>8. f[i + 1] = Above(f[(i + 1) - 1]) /\ (i + 1) - 1 = i
    BY <1>1, <1>4, <2>3
  <2> QED BY <2>3, <2>6, <2>7, <2>8
<1>7. Len(f[M + 1]) <= 1
  <2>1. M \in 0 .. M
    BY <1>1
  <2>2. \E T : g[M] \in Seq(T) /\ (Len(g[M]) <= 1 \/ Len(g[M]) <= Len(u) - M)
    BY <1>1, <1>3, <2>1, LevelsShorten
  <2>3. Len(g[M]) <= 1
    BY <1>1, <2>2 DEF M
  <2> QED BY <1>6, <2>3
<1>8. f[N] = f[M + 1]
  <2> DEFINE Bad == {i \in 0 .. N : i >= M + 1 /\ f[i] # f[M + 1]}
  <2>1. SUFFICES ASSUME N \in Bad PROVE FALSE
    BY <1>1
  <2>2. PICK i \in Bad : \A k \in Bad : i <= k
    <3>1. Bad \in SUBSET Nat /\ Bad # {}
      BY <2>1
    <3> HIDE DEF Bad
    <3> QED BY <3>1, LeastOf
  <2>3. i \in 0 .. N /\ i >= M + 1 /\ f[i] # f[M + 1]
    BY <2>2
  <2>4. i # M + 1
    BY <2>3
  <2>5. i - 1 \in 0 .. N /\ i - 1 >= M + 1 /\ i - 1 \notin Bad /\ i \in 1 .. N
    BY <1>1, <2>2, <2>3, <2>4
  <2>6. f[i - 1] = f[M + 1] /\ f[i] = Above(f[i - 1])
    BY <1>4, <2>5
  <2>7. f[i] = f[i - 1]
    BY <1>7, <2>6 DEF Above
  <2> QED BY <2>3, <2>6, <2>7
<1> QED BY <1>2, <1>3, <1>6, <1>8 DEF u

\* Different lists of the same length have different roots.
SameRoot(n) ==
  \E S : \E s, t \in Seq(S) :
    /\ Len(s) = n /\ Len(t) = n /\ s # t
    /\ MerkleRoot(s) = MerkleRoot(t)

\* Two different lists of one length differ at every level above.
LEMMA RootsOfEqualLength ==
  ASSUME NEW S, NEW s \in Seq(S), NEW t \in Seq(S), Len(s) = Len(t), s # t
  PROVE  MerkleRoot(s) # MerkleRoot(t)
<1> DEFINE Bad == {n \in Nat : SameRoot(n)}
<1>1. SUFFICES ASSUME MerkleRoot(s) = MerkleRoot(t) PROVE FALSE
  OBVIOUS
<1>2. PICK n \in Bad : \A k \in Bad : n <= k
  <2>1. Len(s) \in Bad
    BY <1>1 DEF SameRoot
  <2>2. Bad \in SUBSET Nat /\ Bad # {}
    BY <2>1
  <2> HIDE DEF Bad
  <2> QED BY <2>2, LeastOf
<1>3. n \in Nat /\ SameRoot(n) /\ \A k \in Nat : k < n => ~SameRoot(k)
  BY <1>2
<1> HIDE DEF Bad
<1>4. PICK Z : \E a, b \in Seq(Z) :
        /\ Len(a) = n /\ Len(b) = n /\ a # b
        /\ MerkleRoot(a) = MerkleRoot(b)
  BY <1>3 DEF SameRoot
<1>5. PICK a \in Seq(Z), b \in Seq(Z) :
        /\ Len(a) = n /\ Len(b) = n /\ a # b
        /\ MerkleRoot(a) = MerkleRoot(b)
  BY <1>4
<1>6. PICK i \in 1 .. n : a[i] # b[i]
  BY <1>3, <1>5, SeqEqual
<1>7. CASE n = 1
  <2>1. MerkleRoot(a) = a[1] /\ MerkleRoot(b) = b[1]
    BY <1>5, <1>7, RootOfOne
  <2>2. i = 1
    BY <1>6, <1>7
  <2> QED BY <1>5, <1>6, <2>1, <2>2
<1>8. CASE n >= 2
  <2> DEFINE u == Above(a)
             v == Above(b)
  <2>1. /\ u \in Seq(Z \X Z) /\ Len(u) \in 1 .. n - 1
        /\ 2 * Len(u) = n \/ 2 * Len(u) = n + 1
        /\ \A k \in 1 .. Len(u) :
             u[k] = <<a[2 * k - 1], a[IF 2 * k <= n THEN 2 * k ELSE n]>>
    BY <1>5, <1>8, AboveFacts
  <2>2. /\ v \in Seq(Z \X Z) /\ Len(v) \in 1 .. n - 1
        /\ 2 * Len(v) = n \/ 2 * Len(v) = n + 1
        /\ \A k \in 1 .. Len(v) :
             v[k] = <<b[2 * k - 1], b[IF 2 * k <= n THEN 2 * k ELSE n]>>
    BY <1>5, <1>8, AboveFacts
  <2>3. MerkleRoot(u) = MerkleRoot(v)
    BY <1>5, <1>8, RootAbove
  <2> HIDE DEF u, v
  <2>4. Len(u) = Len(v) /\ Len(u) \in Nat /\ Len(u) < n
    BY <1>3, <2>1, <2>2
  <2>5. PICK k \in 1 .. Len(u) : i = 2 * k - 1 \/ i = 2 * k
    <3>1. (i + 1) \div 2 \in 1 .. Len(u)
      BY <1>3, <2>1
    <3>2. i = 2 * ((i + 1) \div 2) - 1 \/ i = 2 * ((i + 1) \div 2)
      BY <1>3
    <3> QED BY <3>1, <3>2
  <2>6. u[k] # v[k]
    <3>1. CASE i = 2 * k - 1
      BY <1>6, <2>1, <2>2, <2>4, <3>1
    <3>2. CASE i = 2 * k
      <4>1. 2 * k <= n
        BY <3>2
      <4> QED BY <1>6, <2>1, <2>2, <2>4, <3>2, <4>1
    <3> QED BY <2>5, <3>1, <3>2
  <2>7. u # v
    BY <2>6
  <2>8. SameRoot(Len(u))
    BY <2>1, <2>2, <2>3, <2>4, <2>7 DEF SameRoot
  <2> QED BY <1>3, <2>4, <2>8
<1> QED BY <1>3, <1>6, <1>7, <1>8

-----------------------------------------------------------------------------
(***************************************************************************)
(* The depth of an element: how often two were paired to make it.          *)
(***************************************************************************)
Spine(x, h, f) ==
  /\ f[0] = x
  /\ \A i \in 1 .. h : DOMAIN f[i - 1] = 1 .. 2 /\ f[i] = f[i - 1][1]
  /\ DOMAIN f[h] = 1 .. 1

\* x is made of pairs, h deep along the first of each.
Deep(x, h) == \E f : Spine(x, h, f)

\* There is one such depth.
LEMMA DepthUnique ==
  ASSUME NEW x, NEW g \in Nat, NEW h \in Nat, Deep(x, g), Deep(x, h)
  PROVE  g = h
<1>1. ASSUME NEW y, NEW k \in Nat, NEW m \in Nat, k < m, NEW d, NEW e,
             Spine(y, k, d), Spine(y, m, e)
      PROVE  FALSE
  <2> DEFINE Bad == {i \in 0 .. k : d[i] # e[i]}
  <2>1. ASSUME k \in Bad PROVE FALSE
    <3>1. PICK i \in Bad : \A j \in Bad : i <= j
      <4>1. Bad \in SUBSET Nat /\ Bad # {}
        BY <2>1
      <4> HIDE DEF Bad
      <4> QED BY <4>1, LeastOf
    <3>2. i \in 0 .. k /\ d[i] # e[i]
      BY <3>1
    <3>3. i # 0
      BY <1>1, <3>2 DEF Spine
    <3>4. i - 1 \in 0 .. k /\ i - 1 \notin Bad /\ i \in 1 .. k /\ i \in 1 .. m
      BY <1>1, <3>1, <3>2, <3>3
    <3>5. d[i - 1] = e[i - 1]
      BY <3>4
    <3>6. d[i] = d[i - 1][1] /\ e[i] = e[i - 1][1]
      BY <1>1, <3>4 DEF Spine
    <3> QED BY <3>2, <3>5, <3>6
  <2>2. d[k] = e[k]
    BY <1>1, <2>1
  <2>3. DOMAIN d[k] = 1 .. 1
    BY <1>1 DEF Spine
  <2>4. DOMAIN e[k] = 1 .. 2
    <3>1. k + 1 \in 1 .. m /\ (k + 1) - 1 = k
      BY <1>1
    <3>2. \A i \in 1 .. m : DOMAIN e[i - 1] = 1 .. 2
      BY <1>1 DEF Spine
    <3> QED BY <3>1, <3>2
  <2>5. 2 \in 1 .. 2 /\ 2 \notin 1 .. 1
    OBVIOUS
  <2> QED BY <2>2, <2>3, <2>4, <2>5
<1>2. PICK d : Spine(x, g, d)
  BY DEF Deep
<1>3. PICK e : Spine(x, h, e)
  BY DEF Deep
<1>4. ~(g < h)
  BY <1>1, <1>2, <1>3
<1>5. ~(h < g)
  BY <1>1, <1>2, <1>3
<1> QED BY <1>4, <1>5

\* A pair is one deeper than its first element.
LEMMA DepthOfPair ==
  ASSUME NEW x, NEW y, NEW h \in Nat, Deep(x, h)
  PROVE  Deep(<<x, y>>, h + 1)
<1>1. PICK e : Spine(x, h, e)
  BY DEF Deep
<1> DEFINE f == [i \in 0 .. h + 1 |-> IF i = 0 THEN <<x, y>> ELSE e[i - 1]]
<1>2. /\ f[0] = <<x, y>>
      /\ \A i \in 1 .. h + 1 : f[i] = e[i - 1]
  OBVIOUS
<1> HIDE DEF f
<1>3. ASSUME NEW i \in 1 .. h + 1
      PROVE  DOMAIN f[i - 1] = 1 .. 2 /\ f[i] = f[i - 1][1]
  <2>1. CASE i = 1
    <3>1. f[i - 1] = <<x, y>> /\ f[i] = e[0]
      BY <1>2, <2>1
    <3>2. DOMAIN <<x, y>> = 1 .. 2 /\ <<x, y>>[1] = x
      OBVIOUS
    <3>3. e[0] = x
      BY <1>1 DEF Spine
    <3> QED BY <3>1, <3>2, <3>3
  <2>2. CASE i # 1
    <3>1. i - 1 \in 1 .. h /\ i - 1 \in 1 .. h + 1
      BY <2>2
    <3>2. f[i] = e[i - 1] /\ f[i - 1] = e[(i - 1) - 1]
      BY <1>2, <3>1
    <3>3. DOMAIN e[(i - 1) - 1] = 1 .. 2 /\ e[i - 1] = e[(i - 1) - 1][1]
      BY <1>1, <3>1 DEF Spine
    <3> QED BY <3>2, <3>3
  <2> QED BY <2>1, <2>2
<1>4. DOMAIN f[h + 1] = 1 .. 1
  <2>1. h + 1 \in 1 .. h + 1 /\ (h + 1) - 1 = h
    OBVIOUS
  <2>2. f[h + 1] = e[h]
    BY <1>2, <2>1
  <2> QED BY <1>1, <2>2 DEF Spine
<1> QED BY <1>2, <1>3, <1>4 DEF Spine, Deep

\* A hash of material that is no pair has depth 0.
LEMMA DepthOfLeaf ==
  ASSUME NEW x
  PROVE  Deep(<<x>>, 0)
<1> DEFINE f == [i \in 0 .. 0 |-> <<x>>]
<1>1. f[0] = <<x>> /\ DOMAIN <<x>> = 1 .. 1
  OBVIOUS
<1> HIDE DEF f
<1>2. 1 .. 0 = {}
  OBVIOUS
<1> QED BY <1>1, <1>2 DEF Spine, Deep

\* What has a depth is not empty.
LEMMA DepthOfSome ==
  ASSUME NEW x, NEW h \in Nat, Deep(x, h)
  PROVE  x # <<>>
<1>1. PICK e : Spine(x, h, e)
  BY DEF Deep
<1>2. CASE h = 0
  BY <1>1, <1>2 DEF Spine
<1>3. CASE h # 0
  <2>1. 1 \in 1 .. h /\ 1 - 1 = 0
    BY <1>3
  <2>2. DOMAIN e[1 - 1] = 1 .. 2
    BY <1>1, <2>1 DEF Spine
  <2> QED BY <1>1, <2>1, <2>2 DEF Spine
<1> QED BY <1>2, <1>3

\* The elements of s are h deep.
DeepList(s, h) == \A i \in 1 .. Len(s) : Deep(s[i], h)

\* The level above is one deeper.
LEMMA DepthAbove ==
  ASSUME NEW S, NEW s \in Seq(S), Len(s) >= 2, NEW h \in Nat, DeepList(s, h)
  PROVE  DeepList(Above(s), h + 1)
<1> DEFINE u == Above(s)
<1>1. /\ Len(u) \in Nat /\ Len(s) \in Nat
      /\ 2 * Len(u) = Len(s) \/ 2 * Len(u) = Len(s) + 1
      /\ \A i \in 1 .. Len(u) :
           u[i] = <<s[2 * i - 1], s[IF 2 * i <= Len(s) THEN 2 * i ELSE Len(s)]>>
  <2>0. Len(s) \in Nat
    OBVIOUS
  <2>1. Len(u) \in 1 .. Len(s) - 1
    BY AboveFacts
  <2>2. 2 * Len(u) = Len(s) \/ 2 * Len(u) = Len(s) + 1
    BY AboveFacts
  <2>3. \A i \in 1 .. Len(u) :
          u[i] = <<s[2 * i - 1], s[IF 2 * i <= Len(s) THEN 2 * i ELSE Len(s)]>>
    BY AboveFacts
  <2> HIDE DEF u
  <2> QED BY <2>0, <2>1, <2>2, <2>3
<1> HIDE DEF u
<1>2. ASSUME NEW i \in 1 .. Len(u) PROVE Deep(u[i], h + 1)
  <2>1. 2 * i - 1 \in 1 .. Len(s)
    BY <1>1
  <2>2. Deep(s[2 * i - 1], h)
    BY <2>1 DEF DeepList
  <2>3. PICK y : u[i] = <<s[2 * i - 1], y>>
    BY <1>1
  <2> QED BY <2>2, <2>3, DepthOfPair
<1> QED BY <1>2 DEF DeepList, u

\* The root of two elements or more is deeper than they are.
RootTooHigh(n) ==
  \E S : \E s \in Seq(S), h \in Nat :
    /\ Len(s) = n /\ DeepList(s, h)
    /\ ~\E g \in Nat : Deep(MerkleRoot(s), g) /\ g >= h /\ (n >= 2 => g > h)

\* The root is as deep as the elements, and deeper when there are several.
LEMMA RootDepth ==
  ASSUME NEW S, NEW s \in Seq(S), Len(s) >= 1, NEW h \in Nat, DeepList(s, h)
  PROVE  \E g \in Nat : /\ Deep(MerkleRoot(s), g) /\ g >= h
                        /\ Len(s) >= 2 => g > h
<1> DEFINE Bad == {n \in Nat : n >= 1 /\ RootTooHigh(n)}
<1>1. SUFFICES ASSUME ~\E g \in Nat : /\ Deep(MerkleRoot(s), g) /\ g >= h
                                      /\ Len(s) >= 2 => g > h
               PROVE  FALSE
  OBVIOUS
<1>2. PICK n \in Bad : \A k \in Bad : n <= k
  <2>1. Len(s) \in Nat /\ RootTooHigh(Len(s))
    BY <1>1 DEF RootTooHigh
  <2>2. Bad \in SUBSET Nat /\ Bad # {}
    BY <2>1
  <2> HIDE DEF Bad
  <2> QED BY <2>2, LeastOf
<1>3. /\ n \in Nat /\ n >= 1 /\ RootTooHigh(n)
      /\ \A k \in Nat : k >= 1 /\ k < n => ~RootTooHigh(k)
  BY <1>2
<1> HIDE DEF Bad
<1>4. PICK Z : \E a \in Seq(Z), d \in Nat :
        /\ Len(a) = n /\ DeepList(a, d)
        /\ ~\E g \in Nat : Deep(MerkleRoot(a), g) /\ g >= d /\ (n >= 2 => g > d)
  BY <1>3 DEF RootTooHigh
<1>5. PICK a \in Seq(Z), d \in Nat :
        /\ Len(a) = n /\ DeepList(a, d)
        /\ ~\E g \in Nat : Deep(MerkleRoot(a), g) /\ g >= d /\ (n >= 2 => g > d)
  BY <1>4
<1>6. CASE n = 1
  <2>1. MerkleRoot(a) = a[1]
    BY <1>5, <1>6, RootOfOne
  <2>2. Deep(a[1], d)
    BY <1>5, <1>6 DEF DeepList
  <2> QED BY <1>5, <1>6, <2>1, <2>2
<1>7. CASE n >= 2
  <2>1. PICK u : u = Above(a)
    OBVIOUS
  <2>2. u \in Seq(Z \X Z) /\ Len(u) \in 1 .. n - 1 /\ MerkleRoot(a) = MerkleRoot(u)
    BY <1>5, <1>7, <2>1, AboveFacts, RootAbove
  <2>3. DeepList(u, d + 1) /\ d + 1 \in Nat
    BY <1>5, <1>7, <2>1, DepthAbove
  <2>4. ~RootTooHigh(Len(u)) /\ Len(u) \in Nat
    BY <1>3, <2>2
  <2>5. PICK g \in Nat : Deep(MerkleRoot(u), g) /\ g >= d + 1
    BY <2>2, <2>3, <2>4 DEF RootTooHigh
  <2>6. g >= d /\ g > d
    BY <2>5
  <2> QED BY <1>5, <2>2, <2>5, <2>6
<1> QED BY <1>3, <1>6, <1>7

\* The elements of s are different ones.
Distinct(s) == \A i, j \in DOMAIN s : s[i] = s[j] => i = j

\* Pairs of different elements differ.
LEMMA DistinctAbove ==
  ASSUME NEW S, NEW s \in Seq(S), Len(s) >= 2, Distinct(s)
  PROVE  Distinct(Above(s))
<1> DEFINE u == Above(s)
<1>0. Len(s) \in Nat
  OBVIOUS
<1>1. DOMAIN s = 1 .. Len(s)
  OBVIOUS
<1>2. u \in Seq(S \X S) /\ Len(u) \in 1 .. Len(s) - 1
  BY AboveFacts
<1>3. 2 * Len(u) = Len(s) \/ 2 * Len(u) = Len(s) + 1
  BY AboveFacts
<1>4. \A i \in 1 .. Len(u) :
        u[i] = <<s[2 * i - 1], s[IF 2 * i <= Len(s) THEN 2 * i ELSE Len(s)]>>
  BY AboveFacts
<1>5. DOMAIN u = 1 .. Len(u)
  BY <1>2
<1> HIDE DEF u
<1>6. \A i \in 1 .. Len(u) : 2 * i - 1 \in 1 .. Len(s)
  BY <1>0, <1>2, <1>3
<1>7. ASSUME NEW i \in 1 .. Len(u), NEW j \in 1 .. Len(u), u[i] = u[j]
      PROVE  i = j
  <2>1. s[2 * i - 1] = s[2 * j - 1]
    BY <1>4, <1>7
  <2>2. 2 * i - 1 \in 1 .. Len(s) /\ 2 * j - 1 \in 1 .. Len(s)
    BY <1>6
  <2>3. 2 * i - 1 = 2 * j - 1
    BY <1>1, <2>1, <2>2 DEF Distinct
  <2> QED BY <2>3
<1> QED BY <1>5, <1>7 DEF Distinct, u

\* A list of different elements and a shorter one have different roots.
ShorterRoot(n) ==
  \E S : \E s, t \in Seq(S), h \in Nat :
    /\ Len(s) = n /\ Distinct(s) /\ Len(t) < n /\ DeepList(s, h) /\ DeepList(t, h)
    /\ MerkleRoot(s) = MerkleRoot(t)

\* The shorter list runs out of levels first, so its root is less deep, or a level of
\* the longer one has as many elements and others.
LEMMA RootOfShorter ==
  ASSUME NEW S, NEW s \in Seq(S), NEW t \in Seq(S), NEW h \in Nat,
         Distinct(s), Len(t) < Len(s), DeepList(s, h), DeepList(t, h)
  PROVE  MerkleRoot(s) # MerkleRoot(t)
<1> DEFINE Bad == {n \in Nat : ShorterRoot(n)}
<1>1. SUFFICES ASSUME MerkleRoot(s) = MerkleRoot(t) PROVE FALSE
  OBVIOUS
<1>2. PICK n \in Bad : \A k \in Bad : n <= k
  <2>1. Len(s) \in Nat /\ ShorterRoot(Len(s))
    BY <1>1 DEF ShorterRoot
  <2>2. Bad \in SUBSET Nat /\ Bad # {}
    BY <2>1
  <2> HIDE DEF Bad
  <2> QED BY <2>2, LeastOf
<1>3. n \in Nat /\ ShorterRoot(n) /\ \A k \in Nat : k < n => ~ShorterRoot(k)
  BY <1>2
<1> HIDE DEF Bad
<1>4. PICK Z : \E a, b \in Seq(Z), d \in Nat :
        /\ Len(a) = n /\ Distinct(a) /\ Len(b) < n
        /\ DeepList(a, d) /\ DeepList(b, d)
        /\ MerkleRoot(a) = MerkleRoot(b)
  BY <1>3 DEF ShorterRoot
<1>5. PICK a \in Seq(Z), b \in Seq(Z), d \in Nat :
        /\ Len(a) = n /\ Distinct(a) /\ Len(b) < n
        /\ DeepList(a, d) /\ DeepList(b, d)
        /\ MerkleRoot(a) = MerkleRoot(b)
  BY <1>4
<1>6. Len(b) \in Nat /\ n >= 1
  BY <1>3, <1>5
<1>7. PICK g \in Nat : Deep(MerkleRoot(a), g) /\ g >= d /\ (n >= 2 => g > d)
  BY <1>5, <1>6, RootDepth
<1>8. CASE Len(b) = 0
  <2>1. b = <<>>
    BY <1>5, <1>8
  <2> QED BY <1>5, <1>7, <2>1, RootOfNone, DepthOfSome
<1>9. CASE Len(b) = 1
  <2>1. MerkleRoot(b) = b[1] /\ Deep(b[1], d)
    BY <1>5, <1>9, RootOfOne DEF DeepList
  <2>2. g > d
    BY <1>3, <1>5, <1>7, <1>9
  <2>3. Deep(MerkleRoot(b), g) /\ Deep(MerkleRoot(b), d)
    BY <1>5, <1>7, <2>1
  <2>4. g = d
    BY <2>3, DepthUnique
  <2> QED BY <2>2, <2>4
<1>10. CASE Len(b) >= 2
  <2>1. PICK u, v : u = Above(a) /\ v = Above(b)
    OBVIOUS
  <2>2. n >= 2
    BY <1>5, <1>6, <1>10
  <2>3. /\ u \in Seq(Z \X Z) /\ Len(u) \in 1 .. n - 1
        /\ 2 * Len(u) = n \/ 2 * Len(u) = n + 1
        /\ \A k \in 1 .. Len(u) :
             u[k] = <<a[2 * k - 1], a[IF 2 * k <= n THEN 2 * k ELSE n]>>
    BY <1>5, <2>1, <2>2, AboveFacts
  <2>4. /\ v \in Seq(Z \X Z) /\ Len(v) \in 1 .. Len(b) - 1
        /\ 2 * Len(v) = Len(b) \/ 2 * Len(v) = Len(b) + 1
        /\ \A k \in 1 .. Len(v) :
             v[k] = <<b[2 * k - 1], b[IF 2 * k <= Len(b) THEN 2 * k ELSE Len(b)]>>
    BY <1>5, <1>10, <2>1, AboveFacts
  <2>5. MerkleRoot(u) = MerkleRoot(v)
    BY <1>5, <1>10, <2>1, <2>2, RootAbove
  <2>6. CASE Len(v) = Len(u)
    <3>1. n = 2 * Len(u) /\ Len(b) = n - 1
      BY <1>5, <1>6, <2>3, <2>4, <2>6
    <3>2. u[Len(u)] = <<a[n - 1], a[n]>> /\ v[Len(u)] = <<b[n - 1], b[n - 1]>>
      <4>1. Len(u) \in 1 .. Len(u) /\ Len(u) \in 1 .. Len(v)
        BY <2>3, <2>6
      <4>2. 2 * Len(u) <= n /\ ~(2 * Len(u) <= Len(b))
        BY <1>3, <3>1
      <4> QED BY <2>3, <2>4, <3>1, <4>1, <4>2
    <3>3. a[n - 1] # a[n]
      <4>1. n - 1 \in DOMAIN a /\ n \in DOMAIN a /\ n - 1 # n
        BY <1>3, <1>5, <2>2
      <4> QED BY <1>5, <4>1 DEF Distinct
    <3>4. u # v
      BY <3>2, <3>3
    <3> QED BY <2>3, <2>4, <2>5, <2>6, <3>4, RootsOfEqualLength
  <2>7. CASE Len(v) # Len(u)
    <3>1. Len(v) < Len(u) /\ Len(u) \in Nat /\ Len(u) < n
      BY <1>3, <1>5, <1>6, <2>3, <2>4, <2>7
    <3>2. Distinct(u)
      BY <1>5, <2>1, <2>2, DistinctAbove
    <3>3. DeepList(u, d + 1) /\ DeepList(v, d + 1) /\ d + 1 \in Nat
      BY <1>5, <1>10, <2>1, <2>2, DepthAbove
    <3>4. ShorterRoot(Len(u))
      BY <2>3, <2>4, <2>5, <3>1, <3>2, <3>3 DEF ShorterRoot
    <3>5. ~ShorterRoot(Len(u))
      BY <1>3, <3>1
    <3> QED BY <3>4, <3>5
  <2> QED BY <2>6, <2>7
<1>11. Len(b) = 0 \/ Len(b) = 1 \/ Len(b) >= 2
  <2>1. \A m \in Nat : m = 0 \/ m = 1 \/ m >= 2
    OBVIOUS
  <2> QED BY <1>6, <2>1
<1> QED BY <1>8, <1>9, <1>10, <1>11

-----------------------------------------------------------------------------
\* A sequence of length n without its k-th element.
LEMMA LeftOut ==
  ASSUME NEW s, NEW n \in Nat, NEW k \in 1 .. n
  PROVE  At(s, (1 .. n) \ {k})
           = [j \in 1 .. n - 1 |-> s[IF j < k THEN j ELSE j + 1]]
<1> DEFINE K == (1 .. n) \ {k}
<1>1. Cardinality(K) = n - 1
  <2>1. IsFiniteSet(1 .. n) /\ Cardinality(1 .. n) = n
    BY FS_Interval
  <2> QED BY <2>1, FS_RemoveElement
<1>2. ASSUME NEW i \in K PROVE Rank(K, i) = IF i < k THEN i ELSE i - 1
  <2>1. IsFiniteSet(1 .. i) /\ Cardinality(1 .. i) = i
    BY FS_Interval
  <2>2. CASE i < k
    <3>1. {m \in K : m <= i} = 1 .. i
      BY <2>2
    <3> QED BY <2>1, <2>2, <3>1 DEF Rank
  <2>3. CASE i > k
    <3>1. {m \in K : m <= i} = (1 .. i) \ {k}
      BY <2>3
    <3>2. k \in 1 .. i
      BY <2>3
    <3>3. Cardinality((1 .. i) \ {k}) = i - 1
      BY <2>1, <3>2, FS_RemoveElement
    <3> QED BY <2>3, <3>1, <3>3 DEF Rank
  <2> QED BY <2>2, <2>3
<1>3. ASSUME NEW j \in 1 .. n - 1
      PROVE  Ranked(K, j) = IF j < k THEN j ELSE j + 1
  <2> DEFINE i == IF j < k THEN j ELSE j + 1
  <2>1. i \in K /\ Rank(K, i) = j
    <3>1. i \in K
      OBVIOUS
    <3>2. Rank(K, i) = IF i < k THEN i ELSE i - 1
      BY <1>2, <3>1
    <3> HIDE DEF K
    <3> QED BY <3>1, <3>2
  <2>2. ASSUME NEW m \in K, Rank(K, m) = j PROVE m = i
    <3>1. j = IF m < k THEN m ELSE m - 1
      BY <1>2, <2>2
    <3>2. m \in Nat /\ m # k
      OBVIOUS
    <3> HIDE DEF K
    <3> QED BY <3>1, <3>2
  <2> HIDE DEF K, i
  <2>3. Ranked(K, j) = i
    BY <2>1, <2>2 DEF Ranked
  <2> QED BY <2>3 DEF i
<1> HIDE DEF K
<1>4. At(s, K) = [j \in 1 .. n - 1 |-> s[Ranked(K, j)]]
  BY <1>1 DEF At
<1>5. At(s, K) = [j \in 1 .. n - 1 |-> s[IF j < k THEN j ELSE j + 1]]
  BY <1>3, <1>4
<1> QED BY <1>5 DEF K

-----------------------------------------------------------------------------
(***************************************************************************)
(* Hashes and signatures.                                                  *)
(***************************************************************************)
LEMMA HashesDiffer ==
  ASSUME NEW a, NEW b, sha256_hex(a) = sha256_hex(b)
  PROVE  a = b
<1>1. <<a>>[1] = <<b>>[1]
  BY DEF sha256_hex
<1> QED BY <1>1

\* Equal signatures sign equal messages.
LEMMA SignaturesDiffer ==
  ASSUME NEW v, NEW w, NEW m, NEW n, Signature(v, m) = Signature(w, n)
  PROVE  m = n
<1>1. Signature(v, m).message = m /\ Signature(w, n).message = n
  BY DEF Signature
<1> QED BY <1>1

\* There is a committer.
LEMMA CommitterFacts == Committer \in Validators
  BY ValidatorsAssumption DEF Committer

-----------------------------------------------------------------------------
(***************************************************************************)
(* Recorded transactions.                                                  *)
(***************************************************************************)
TxFields == {"event", "payload", "payload_hash", "committer_id", "signature"}

\* What submit records of an event.
LEMMA TransactionFacts ==
  ASSUME NEW e
  PROVE  LET t == Transaction(e)
         IN  /\ DOMAIN t = TxFields
             /\ t.event = e /\ t.payload = e /\ t.payload_hash = sha256_hex(e)
             /\ t.committer_id = Committer
             /\ t.signature = Signature(Committer, SigningMaterial(t))
             /\ SigningMaterial(t) = <<e, sha256_hex(e), Committer>>
<1> DEFINE t == Transaction(e)
           unsigned == [event |-> e, payload |-> e, payload_hash |-> sha256_hex(e),
                        committer_id |-> Committer]
<1>1. t = [event |-> e, payload |-> e, payload_hash |-> sha256_hex(e),
           committer_id |-> Committer,
           signature |-> Signature(Committer, SigningMaterial(unsigned))]
  BY DEF Transaction
<1>2. SigningMaterial(unsigned) = <<e, sha256_hex(e), Committer>>
  BY DEF SigningMaterial
<1> HIDE DEF unsigned, t
<1>3. /\ t.event = e /\ t.payload = e /\ t.payload_hash = sha256_hex(e)
      /\ t.committer_id = Committer
      /\ t.signature = Signature(Committer, SigningMaterial(unsigned))
  BY <1>1
<1>4. DOMAIN t = TxFields
  BY <1>1 DEF TxFields
<1>5. SigningMaterial(t) = <<e, sha256_hex(e), Committer>>
  BY <1>3 DEF SigningMaterial
<1> QED BY <1>2, <1>3, <1>4, <1>5 DEF t

\* It passes the audit.
LEMMA TransactionIsSound ==
  ASSUME NEW e
  PROVE  TransactionSound(Transaction(e))
<1> DEFINE t == Transaction(e)
<1>1. /\ t.payload_hash = sha256_hex(t.payload) /\ t.committer_id \in Validators
      /\ t.signature = Signature(t.committer_id, SigningMaterial(t))
  BY TransactionFacts, CommitterFacts
<1> HIDE DEF t
<1> QED BY <1>1 DEF TransactionSound, PayloadMatches, Verify, IsValidator, t

\* Digests of different events differ, and are made of nothing paired.
LEMMA DigestFacts ==
  ASSUME NEW e, NEW f
  PROVE  /\ TxDigest(Transaction(e)) = TxDigest(Transaction(f)) => e = f
         /\ Deep(TxDigest(Transaction(e)), 0)
<1>1. ASSUME TxDigest(Transaction(e)) = TxDigest(Transaction(f)) PROVE e = f
  <2> DEFINE t == Transaction(e)
             u == Transaction(f)
  <2>1. <<SigningMaterial(t), t.signature>> = <<SigningMaterial(u), u.signature>>
    BY <1>1, HashesDiffer DEF TxDigest
  <2>2. SigningMaterial(t) = SigningMaterial(u)
    <3> HIDE DEF t, u
    <3> QED BY <2>1
  <2>3. <<e, sha256_hex(e), Committer>> = <<f, sha256_hex(f), Committer>>
    BY <2>2, TransactionFacts
  <2> QED BY <2>3
<1>2. Deep(TxDigest(Transaction(e)), 0)
  BY DepthOfLeaf DEF TxDigest, sha256_hex
<1> QED BY <1>1, <1>2

\* Another payload is told by its hash, and by the signature once hashed anew.
LEMMA PayloadTold ==
  ASSUME NEW e \in Tx, e.no # 0
  PROVE  LET t == AnotherPayload(Transaction(e))
         IN  ~TransactionSound(t) /\ ~TransactionSound(Rehashed(t))
<1> DEFINE t0 == Transaction(e)
           t == AnotherPayload(t0)
           r == Rehashed(t)
           p == [e EXCEPT !.no = 0]
<1>1. /\ DOMAIN t0 = TxFields /\ t0.event = e /\ t0.payload = e
      /\ t0.payload_hash = sha256_hex(e) /\ t0.committer_id = Committer
      /\ t0.signature = Signature(Committer, <<e, sha256_hex(e), Committer>>)
  BY TransactionFacts
<1>2. p # e
  <2>1. p.no = 0
    BY DEF Tx
  <2> HIDE DEF p
  <2> QED BY <2>1
<1> HIDE DEF t0, p
<1>3. /\ DOMAIN t = TxFields /\ t.payload = p /\ t.payload_hash = sha256_hex(e)
      /\ t.event = e /\ t.committer_id = Committer
      /\ t.signature = Signature(Committer, <<e, sha256_hex(e), Committer>>)
  BY <1>1 DEF AnotherPayload, TxFields, p
<1> HIDE DEF t
<1>4. ~TransactionSound(t)
  <2>1. sha256_hex(e) # sha256_hex(p)
    BY <1>2, HashesDiffer
  <2> QED BY <1>3, <2>1 DEF TransactionSound, PayloadMatches
<1>5. /\ r.payload_hash = sha256_hex(p) /\ r.event = e /\ r.committer_id = Committer
      /\ r.signature = Signature(Committer, <<e, sha256_hex(e), Committer>>)
  BY <1>3 DEF Rehashed, TxFields
<1> HIDE DEF r
<1>6. ~TransactionSound(r)
  <2>1. SUFFICES ASSUME TransactionSound(r) PROVE FALSE
    OBVIOUS
  <2>2. r.signature = Signature(r.committer_id, SigningMaterial(r))
    BY <2>1 DEF TransactionSound, Verify
  <2>3. <<e, sha256_hex(e), Committer>> = SigningMaterial(r)
    BY <1>5, <2>2, SignaturesDiffer
  <2>4. <<e, sha256_hex(e), Committer>> = <<e, sha256_hex(p), Committer>>
    BY <1>5, <2>3 DEF SigningMaterial
  <2>5. sha256_hex(e) = sha256_hex(p)
    BY <2>4
  <2> QED BY <1>2, <2>5, HashesDiffer
<1> QED BY <1>4, <1>6 DEF t, r, t0

-----------------------------------------------------------------------------
(***************************************************************************)
(* Recorded blocks.                                                        *)
(***************************************************************************)
BlockFields ==
  {"index", "prev_hash", "timestamp", "transactions", "merkle_root",
   "block_hash", "endorsements"}

\* The block records the events txs, and carries the signatures of E.
Records(b, txs, E) ==
  /\ DOMAIN b = BlockFields
  /\ b.transactions = [j \in 1 .. Len(txs) |-> Transaction(txs[j])]
  /\ b.merkle_root = RootOf(b.transactions)
  /\ b.block_hash = RecomputeHash(b)
  /\ b.endorsements = [v \in E |-> Signature(v, HeaderMaterial(b))]

\* propose_block and endorse make such a block.
LEMMA BlockOfRecords ==
  ASSUME NEW b, NEW p, NEW E, DOMAIN b.txs = 1 .. Len(b.txs)
  PROVE  LET r == BlockOf(b, p, E)
         IN  /\ Records(r, b.txs, E)
             /\ r.index = b.index /\ r.prev_hash = p /\ r.timestamp = b.hash
<1> DEFINE r == BlockOf(b, p, E)
           txs == [j \in DOMAIN b.txs |-> Transaction(b.txs[j])]
           root == RootOf(txs)
           header == [index |-> b.index, prev_hash |-> p, timestamp |-> b.hash,
                      merkle_root |-> root]
<1>1. r = [index |-> b.index, prev_hash |-> p, timestamp |-> b.hash,
           transactions |-> txs, merkle_root |-> header.merkle_root,
           block_hash |-> RecomputeHash(header),
           endorsements |-> [v \in E |-> Signature(v, HeaderMaterial(header))]]
  BY DEF BlockOf
<1>2. HeaderMaterial(header) = <<b.index, p, b.hash, root>> /\ header.merkle_root = root
  <2> HIDE DEF root
  <2> QED BY DEF HeaderMaterial
<1> HIDE DEF r, txs, root, header
<1>3. /\ DOMAIN r = BlockFields /\ r.index = b.index /\ r.prev_hash = p
      /\ r.timestamp = b.hash /\ r.transactions = txs /\ r.merkle_root = root
      /\ r.block_hash = RecomputeHash(header)
      /\ r.endorsements = [v \in E |-> Signature(v, HeaderMaterial(header))]
  BY <1>1, <1>2 DEF BlockFields
<1>4. HeaderMaterial(r) = HeaderMaterial(header)
  BY <1>2, <1>3 DEF HeaderMaterial
<1>5. r.block_hash = RecomputeHash(r)
  BY <1>3, <1>4 DEF RecomputeHash
<1>6. r.transactions = [j \in 1 .. Len(b.txs) |-> Transaction(b.txs[j])]
  BY <1>3 DEF txs
<1>7. r.merkle_root = RootOf(r.transactions)
  BY <1>3 DEF root
<1>8. r.endorsements = [v \in E |-> Signature(v, HeaderMaterial(r))]
  BY <1>3, <1>4
<1> QED BY <1>3, <1>5, <1>6, <1>7, <1>8 DEF Records, r

\* Block i is recorded with the hash of its parent, whose number is lower.
Parents(n) == \A i \in 1 .. n : blocks[i].prev \in 0 .. i - 1

\* The hash of the parent of block i, of those in f.
ParentHash(f, i) ==
  IF blocks[i].prev = 0 THEN GENESIS_PREV ELSE f[blocks[i].prev].block_hash

\* f holds the first n blocks as they are made.
MadeUpTo(n, f) ==
  f = [i \in 1 .. n |-> BlockOf(blocks[i], ParentHash(f, i), endorsements[i])]

\* There is such a function, since parents come first.
LEMMA MadeExists ==
  ASSUME NEW n \in Nat, Parents(n)
  PROVE  \E f : MadeUpTo(n, f)
<1> DEFINE Bad == {m \in 0 .. n : \A f : ~MadeUpTo(m, f)}
<1>1. SUFFICES ASSUME n \in Bad PROVE FALSE
  OBVIOUS
<1>2. PICK m \in Bad : \A k \in Bad : m <= k
  <2>1. Bad \in SUBSET Nat /\ Bad # {}
    BY <1>1
  <2> HIDE DEF Bad
  <2> QED BY <2>1, LeastOf
<1>3. m \in 0 .. n /\ \A f : ~MadeUpTo(m, f)
  BY <1>2
<1>4. CASE m = 0
  <2> DEFINE f == [i \in 1 .. 0 |-> 0]
  <2>1. 1 .. 0 = {}
    OBVIOUS
  <2>2. f = [i \in 1 .. 0 |-> BlockOf(blocks[i], ParentHash(f, i), endorsements[i])]
    BY <2>1
  <2> HIDE DEF f
  <2>3. MadeUpTo(0, f)
    BY <2>2 DEF MadeUpTo
  <2> QED BY <1>3, <1>4, <2>3
<1>5. CASE m # 0
  <2>1. m - 1 \in 0 .. n /\ m - 1 \notin Bad
    BY <1>2, <1>3, <1>5
  <2>2. PICK g : MadeUpTo(m - 1, g)
    BY <2>1
  <2>3. \A i \in 1 .. m - 1 :
          g[i] = BlockOf(blocks[i], ParentHash(g, i), endorsements[i])
    BY <2>2 DEF MadeUpTo
  <2> DEFINE last == BlockOf(blocks[m], ParentHash(g, m), endorsements[m])
             f == [i \in 1 .. m |-> IF i = m THEN last ELSE g[i]]
  <2>4. \A i \in 1 .. m - 1 : f[i] = g[i]
    BY <1>3
  <2>5. f[m] = last /\ f = [i \in 1 .. m |-> f[i]]
    BY <1>3, <1>5
  <2> HIDE DEF f, last
  <2>6. ASSUME NEW i \in 1 .. m PROVE ParentHash(f, i) = ParentHash(g, i)
    <3>1. blocks[i].prev \in 0 .. i - 1
      BY <1>3 DEF Parents
    <3>2. blocks[i].prev # 0 => blocks[i].prev \in 1 .. m - 1
      BY <1>3, <3>1
    <3> QED BY <2>4, <3>2 DEF ParentHash
  <2>7. ASSUME NEW i \in 1 .. m
        PROVE  f[i] = BlockOf(blocks[i], ParentHash(f, i), endorsements[i])
    <3>1. CASE i = m
      BY <2>5, <2>6, <3>1 DEF last
    <3>2. CASE i # m
      <4>1. i \in 1 .. m - 1
        BY <1>3, <3>2
      <4> QED BY <2>3, <2>4, <2>6, <4>1
    <3> QED BY <3>1, <3>2
  <2>8. MadeUpTo(m, f)
    BY <2>5, <2>7 DEF MadeUpTo
  <2> QED BY <1>3, <2>8
<1> QED BY <1>4, <1>5

\* Made is that function.
LEMMA MadeFacts ==
  ASSUME NEW n \in Nat, DOMAIN blocks = 1 .. n, Parents(n), NEW i \in 1 .. n
  PROVE  Made[i] = BlockOf(blocks[i], ParentHash(Made, i), endorsements[i])
<1>1. \E f : MadeUpTo(n, f)
  BY MadeExists
<1> DEFINE f == CHOOSE f : MadeUpTo(n, f)
<1>2. MadeUpTo(n, f)
  BY <1>1
<1>3. Made = f
  BY DEF Made, MadeUpTo, ParentHash
<1> HIDE DEF f
<1>4. MadeUpTo(n, Made)
  BY <1>2, <1>3
<1> QED BY <1>4 DEF MadeUpTo

-----------------------------------------------------------------------------
(***************************************************************************)
(* The number of events of a thread.                                       *)
(***************************************************************************)
EventsAt(s, z) == {i \in DOMAIN s : s[i].by = z}

\* The events of a thread in a list are counted.
LEMMA EventsFinite ==
  ASSUME NEW s \in Seq(Tx), NEW z
  PROVE  /\ IsFiniteSet(EventsAt(s, z)) /\ EventsOf(s, z) = Cardinality(EventsAt(s, z))
         /\ EventsOf(s, z) \in Nat
<1>1. Len(s) \in Nat /\ DOMAIN s = 1 .. Len(s)
  BY SeqFacts
<1>2. IsFiniteSet(1 .. Len(s))
  BY <1>1, FS_Interval
<1>3. EventsAt(s, z) \subseteq 1 .. Len(s)
  BY <1>1 DEF EventsAt
<1>4. IsFiniteSet(EventsAt(s, z))
  BY <1>2, <1>3, FS_Subset
<1>5. EventsOf(s, z) = Cardinality(EventsAt(s, z))
  BY DEF EventsOf, EventsAt
<1> QED BY <1>4, <1>5, FS_CardinalityType

\* One event more.
LEMMA EventsAppend ==
  ASSUME NEW s \in Seq(Tx), NEW x \in Tx, NEW z
  PROVE  EventsOf(Append(s, x), z) = EventsOf(s, z) + (IF x.by = z THEN 1 ELSE 0)
<1> DEFINE q == Append(s, x)
           n == Len(s) + 1
<1>1. /\ q \in Seq(Tx) /\ DOMAIN q = 1 .. n /\ q[n] = x /\ n \in Nat \ {0}
      /\ \A i \in 1 .. n - 1 : q[i] = s[i]
      /\ DOMAIN s = 1 .. n - 1
  BY AppendFacts, SeqFacts
<1> HIDE DEF q, n
<1>2. IsFiniteSet(EventsAt(s, z)) /\ EventsOf(s, z) = Cardinality(EventsAt(s, z))
  BY EventsFinite
<1>3. EventsOf(q, z) = Cardinality(EventsAt(q, z)) /\ EventsOf(s, z) \in Nat
  BY <1>1, EventsFinite
<1>4. CASE x.by = z
  <2>1. EventsAt(q, z) = EventsAt(s, z) \cup {n} /\ n \notin EventsAt(s, z)
    BY <1>1, <1>4 DEF EventsAt
  <2> QED BY <1>2, <1>3, <1>4, <2>1, FS_AddElement DEF q
<1>5. CASE x.by # z
  <2>1. EventsAt(q, z) = EventsAt(s, z)
    BY <1>1, <1>5 DEF EventsAt
  <2> QED BY <1>2, <1>3, <1>5, <2>1 DEF q
<1> QED BY <1>4, <1>5

\* The first events, and the rest.
LEMMA EventsSplit ==
  ASSUME NEW P \in Seq(Tx), NEW t \in Seq(Tx), IsPrefix(t, P), NEW z
  PROVE  EventsOf(P, z) = EventsOf(t, z) + EventsOf(Rest(P, Len(t)), z)
<1> DEFINE n == Len(t)
           R == Rest(P, n)
<1>1. /\ n \in 0 .. Len(P) /\ n \in Nat /\ DOMAIN t = 1 .. n
      /\ DOMAIN P = 1 .. Len(P) /\ Len(P) \in Nat
      /\ \A j \in 1 .. n : t[j] = P[j]
  BY SeqFacts DEF IsPrefix
<1>2. /\ R \in Seq(Tx) /\ DOMAIN R = 1 .. Len(P) - n
      /\ \A j \in 1 .. Len(P) - n : R[j] = P[n + j]
  BY <1>1, RestElements
<1> HIDE DEF R, n
<1> DEFINE A == EventsAt(t, z)
           B == {i \in DOMAIN P : i > n /\ P[i].by = z}
           S == EventsAt(R, z)
<1>3. IsFiniteSet(A) /\ IsFiniteSet(S) /\ IsFiniteSet(EventsAt(P, z))
  BY <1>2, EventsFinite
<1>4. EventsAt(P, z) = A \cup B /\ A \cap B = {}
  BY <1>1 DEF EventsAt
<1>5. IsFiniteSet(B) /\ Cardinality(B) = Cardinality(S)
  <2> DEFINE f == [j \in S |-> n + j]
  <2>1. ASSUME NEW j \in S PROVE n + j \in B
    <3>1. j \in 1 .. Len(P) - n /\ R[j].by = z
      BY <1>2 DEF EventsAt
    <3> QED BY <1>1, <1>2, <3>1
  <2>2. ASSUME NEW i \in B PROVE i - n \in S /\ n + (i - n) = i
    <3>1. i - n \in 1 .. Len(P) - n /\ n + (i - n) = i
      BY <1>1
    <3>2. R[i - n] = P[i]
      BY <1>2, <3>1
    <3> QED BY <1>2, <3>1, <3>2 DEF EventsAt
  <2>3. S \subseteq Nat
    BY <1>2 DEF EventsAt
  <2> HIDE DEF S, B
  <2>4. f \in Bijection(S, B)
    <3>1. f \in [S -> B]
      BY <2>1
    <3>2. \A i, j \in S : f[i] = f[j] => i = j
      BY <1>1, <2>3
    <3>3. \A i \in B : \E j \in S : f[j] = i
      BY <2>2
    <3> QED BY <3>1, <3>2, <3>3 DEF Bijection, Injection, Surjection, IsInjective
  <2>5. ExistsBijection(S, B)
    BY <2>4 DEF ExistsBijection
  <2> QED BY <1>3, <2>5, FS_Bijection DEF S
<1>6. Cardinality(A \cup B) = Cardinality(A) + Cardinality(B)
  <2>1. Cardinality(A \cup B) = Cardinality(A) + Cardinality(B) - Cardinality(A \cap B)
    BY <1>3, <1>5, FS_Union
  <2>2. Cardinality(A \cap B) = 0
    BY <1>4, FS_EmptySet
  <2>3. Cardinality(A) \in Nat /\ Cardinality(B) \in Nat
    BY <1>3, <1>5, FS_CardinalityType
  <2> HIDE DEF A, B
  <2> QED BY <2>1, <2>2, <2>3
<1>7. /\ EventsOf(P, z) = Cardinality(EventsAt(P, z))
      /\ EventsOf(t, z) = Cardinality(A) /\ EventsOf(R, z) = Cardinality(S)
  BY <1>2, EventsFinite
<1> HIDE DEF A, B, S
<1> QED BY <1>4, <1>5, <1>6, <1>7 DEF R, n

\* The places of a thread's events in the first n rows of C.
Places(C, n, z) ==
  {p \in (1 .. n) \X Nat : p[2] \in EventsAt(C[p[1]], z)}

\* No rows have no places.
LEMMA PlacesNone ==
  ASSUME NEW C, NEW z
  PROVE  Places(C, 0, z) = {}
<1>1. 1 .. 0 = {}
  OBVIOUS
<1> QED BY <1>1 DEF Places

\* One row more.
LEMMA PlacesGrow ==
  ASSUME NEW C, NEW n \in Nat, NEW z, C[n + 1] \in Seq(Tx),
         IsFiniteSet(Places(C, n, z))
  PROVE  /\ IsFiniteSet(Places(C, n + 1, z))
         /\ Cardinality(Places(C, n + 1, z))
              = Cardinality(Places(C, n, z)) + EventsOf(C[n + 1], z)
<1> DEFINE A == Places(C, n, z)
           S == EventsAt(C[n + 1], z)
           B == {p \in (1 .. n + 1) \X Nat : p[1] = n + 1 /\ p[2] \in S}
<1>1. /\ IsFiniteSet(S) /\ EventsOf(C[n + 1], z) = Cardinality(S)
  BY EventsFinite
<1>2. S \subseteq Nat
  <2>1. DOMAIN C[n + 1] = 1 .. Len(C[n + 1])
    BY SeqFacts
  <2> QED BY <2>1 DEF EventsAt
<1> HIDE DEF S
<1>3. Places(C, n + 1, z) = A \cup B /\ A \cap B = {}
  <2>1. ASSUME NEW p \in Places(C, n + 1, z) PROVE p \in A \/ p \in B
    <3>1. /\ p \in (1 .. n + 1) \X Nat /\ p[2] \in EventsAt(C[p[1]], z)
      BY DEF Places
    <3>2. p[1] \in 1 .. n \/ p[1] = n + 1
      BY <3>1
    <3>3. CASE p[1] \in 1 .. n
      <4>1. p \in (1 .. n) \X Nat
        BY <3>1, <3>3
      <4> QED BY <3>1, <4>1 DEF Places
    <3>4. CASE p[1] = n + 1
      BY <3>1, <3>4 DEF S
    <3> QED BY <3>2, <3>3, <3>4
  <2>2. ASSUME NEW p \in A PROVE p \in Places(C, n + 1, z) /\ p \notin B
    <3>1. p \in (1 .. n) \X Nat /\ p[2] \in EventsAt(C[p[1]], z)
      BY DEF Places
    <3>2. p \in (1 .. n + 1) \X Nat /\ p[1] # n + 1
      BY <3>1
    <3> QED BY <3>1, <3>2 DEF Places
  <2>3. ASSUME NEW p \in B PROVE p \in Places(C, n + 1, z)
    BY DEF Places, S
  <2> HIDE DEF A, B
  <2> QED BY <2>1, <2>2, <2>3
<1>4. IsFiniteSet(B) /\ Cardinality(B) = Cardinality(S)
  <2> DEFINE f == [j \in S |-> <<n + 1, j>>]
  <2>1. f \in [S -> B]
    BY <1>2
  <2>2. \A i, j \in S : f[i] = f[j] => i = j
    OBVIOUS
  <2>3. ASSUME NEW p \in B PROVE \E j \in S : f[j] = p
    <3>1. p[2] \in S /\ p = <<n + 1, p[2]>>
      OBVIOUS
    <3> QED BY <3>1
  <2> HIDE DEF B, f
  <2>4. f \in Bijection(S, B)
    BY <2>1, <2>2, <2>3 DEF Bijection, Injection, Surjection, IsInjective
  <2>5. ExistsBijection(S, B)
    BY <2>4 DEF ExistsBijection
  <2> QED BY <1>1, <2>5, FS_Bijection
<1> HIDE DEF A, B
<1>5. /\ IsFiniteSet(A \cup B)
      /\ Cardinality(A \cup B) = Cardinality(A) + Cardinality(B) - Cardinality(A \cap B)
  BY <1>4, FS_Union DEF A
<1>6. Cardinality(A \cap B) = 0
  BY <1>3, FS_EmptySet
<1>7. Cardinality(A) \in Nat /\ Cardinality(B) \in Nat
  BY <1>4, FS_CardinalityType DEF A
<1>8. Cardinality(A \cup B) = Cardinality(A) + Cardinality(S)
  BY <1>4, <1>5, <1>6, <1>7
<1>9. Cardinality(Places(C, n + 1, z)) = Cardinality(A) + EventsOf(C[n + 1], z)
  BY <1>1, <1>3, <1>8
<1>10. IsFiniteSet(Places(C, n + 1, z))
  BY <1>3, <1>5
<1> QED BY <1>9, <1>10 DEF A

-----------------------------------------------------------------------------
(***************************************************************************)
(* What is signed is committed, pending, or in hand.                       *)
(***************************************************************************)
InFlight(z) == IF signing[z] THEN 1 ELSE 0

\* The events of z in the chain, in pending and in hand are those it signed.
Accounted(z) ==
  /\ IsFiniteSet(Places(Batches, Len(chain), z))
  /\ Cardinality(Places(Batches, Len(chain), z)) + EventsOf(pending, z) + InFlight(z)
       = signed[z]

\* A row of C is added at the end.
LEMMA PlacesAppend ==
  ASSUME NEW C \in Seq(Seq(Tx)), NEW t \in Seq(Tx), NEW z,
         IsFiniteSet(Places(C, Len(C), z))
  PROVE  /\ IsFiniteSet(Places(Append(C, t), Len(C) + 1, z))
         /\ Cardinality(Places(Append(C, t), Len(C) + 1, z))
              = Cardinality(Places(C, Len(C), z)) + EventsOf(t, z)
<1> DEFINE D == Append(C, t)
           n == Len(C)
<1>1. n \in Nat /\ D[n + 1] = t /\ \A i \in 1 .. n : D[i] = C[i]
  BY AppendFacts, SeqFacts
<1> HIDE DEF D
<1>2. Places(D, n, z) = Places(C, n, z)
  BY <1>1 DEF Places
<1> HIDE DEF n
<1>3. D[n + 1] \in Seq(Tx) /\ IsFiniteSet(Places(D, n, z))
  BY <1>1, <1>2 DEF n
<1>4. /\ IsFiniteSet(Places(D, n + 1, z))
      /\ Cardinality(Places(D, n + 1, z))
           = Cardinality(Places(D, n, z)) + EventsOf(D[n + 1], z)
  BY <1>1, <1>3, PlacesGrow
<1> QED BY <1>1, <1>2, <1>4 DEF D, n

\* Committing the first of P accounts for as many events as it takes off.
LEMMA AccountedAfterCommit ==
  ASSUME IInv, NEW z, IsFiniteSet(Places(Batches, Len(chain), z)),
         NEW P \in Seq(Tx), NEW t \in Seq(Tx), IsPrefix(t, P), IInv',
         Batches' = Append(Batches, t), pending' = Rest(P, Len(t))
  PROVE  /\ IsFiniteSet(Places(Batches, Len(chain), z)')
         /\ Cardinality(Places(Batches, Len(chain), z)') + EventsOf(pending, z)'
              = Cardinality(Places(Batches, Len(chain), z)) + EventsOf(P, z)
<1>1. Batches \in Seq(Seq(Tx)) /\ Len(Batches) = Len(chain) /\ Len(chain) \in Nat
  BY BatchesType DEF IInv
<1>2. Len(chain)' = Len(chain) + 1
  <2>1. DOMAIN Batches' = 1 .. Len(chain) + 1
    BY <1>1, AppendFacts
  <2>2. DOMAIN Batches' = DOMAIN chain'
    BY DEF Batches
  <2>3. Len(chain') \in Nat /\ DOMAIN chain' = 1 .. Len(chain')
    BY SeqFacts DEF IInv, TypeOK
  <2>4. \A m, n \in Nat : 1 .. m = 1 .. n + 1 => m = n + 1
    OBVIOUS
  <2> QED BY <1>1, <2>1, <2>2, <2>3, <2>4
<1>3. /\ IsFiniteSet(Places(Append(Batches, t), Len(chain) + 1, z))
      /\ Cardinality(Places(Append(Batches, t), Len(chain) + 1, z))
           = Cardinality(Places(Batches, Len(chain), z)) + EventsOf(t, z)
  BY <1>1, PlacesAppend
<1>4. Places(Batches, Len(chain), z)' = Places(Append(Batches, t), Len(chain) + 1, z)
  BY <1>2 DEF Places
<1>5. EventsOf(pending, z)' = EventsOf(Rest(P, Len(t)), z)
  BY DEF EventsOf
<1>6. EventsOf(P, z) = EventsOf(t, z) + EventsOf(Rest(P, Len(t)), z)
  BY EventsSplit
<1>7. /\ EventsOf(t, z) \in Nat /\ EventsOf(Rest(P, Len(t)), z) \in Nat
      /\ Cardinality(Places(Batches, Len(chain), z)) \in Nat
  <2>1. Rest(P, Len(t)) \in Seq(Tx)
    <3>1. Len(t) \in 0 .. Len(P)
      BY SeqFacts DEF IsPrefix
    <3> QED BY <3>1, RestElements
  <2> QED BY <2>1, EventsFinite, FS_CardinalityType
<1> QED BY <1>3, <1>4, <1>5, <1>6, <1>7

\* Where a thread's events are, one step at a time.
Stays == UNCHANGED <<pending, signed, signing>> /\ Batches' = Batches

\* z signs an event.
Signs(z) ==
  /\ UNCHANGED pending /\ Batches' = Batches /\ ~signing[z]
  /\ signed' = [signed EXCEPT ![z] = @ + 1]
  /\ signing' = [signing EXCEPT ![z] = TRUE]

\* z queues the event in its hand, which makes P of pending.
Queues(z, P) ==
  /\ P = Append(pending, Signing(z)) /\ signing[z] /\ UNCHANGED signed
  /\ signing' = [signing EXCEPT ![z] = FALSE]

\* The first of P, t, are committed.
Commits(P, t) ==
  /\ P \in Seq(Tx) /\ t \in Seq(Tx) /\ IsPrefix(t, P)
  /\ Batches' = Append(Batches, t) /\ pending' = Rest(P, Len(t))

\* One of these, and a thread may queue and commit at once.
Moves ==
  \/ Stays
  \/ \E z \in Submitters : Signs(z)
  \/ \E z \in Submitters, P \in Seq(Tx) :
       Queues(z, P) /\ (Commits(P, P) \/ (Batches' = Batches /\ pending' = P))
  \/ \E t \in Seq(Tx) : UNCHANGED <<signed, signing>> /\ Commits(pending, t)

\* Every step does one of them.
LEMMA StepMoves ==
  ASSUME IInv, IInv', [Next]_vars
  PROVE  Moves
<1>0. TypeOK
  BY DEF IInv
<1>1. ASSUME UNCHANGED <<signed, signing, pending, blocks, chain>> PROVE Stays
  BY <1>1 DEF Stays, Batches, Committed
<1>2. ASSUME NEW z \in Submitters, Begin(z) PROVE Stays
  BY <1>1, <1>2 DEF Begin, ledgerVars
<1>3. ASSUME NEW z \in Submitters, Sign(z) PROVE Signs(z)
  BY <1>3 DEF Sign, Signs, ledgerVars, Batches, Committed
<1>4. ASSUME NEW z \in Submitters, Submit(z) PROVE Moves
  <2>1. PICK P : P = Append(pending, Signing(z))
    OBVIOUS
  <2>2. Submitted(z) /\ pending' = P
    BY <1>4, <2>1 DEF Submit
  <2>3. P \in Seq(Tx)
    BY <2>1, <2>2, SubmittedFacts
  <2>4. Queues(z, P)
    BY <2>1, <2>2 DEF Queues, Submitted
  <2>5. Batches' = Batches
    BY <1>4, SubmitStep
  <2> QED BY <2>2, <2>3, <2>4, <2>5 DEF Moves
<1>5. ASSUME NEW z \in Submitters, SubmitAndSeal(z) PROVE Moves
  <2>1. PICK P : P = Append(pending, Signing(z))
    OBVIOUS
  <2>2. Submitted(z)
    BY <1>5 DEF SubmitAndSeal
  <2>3. P \in Seq(Tx)
    BY <2>1, <2>2, SubmittedFacts
  <2>4. Queues(z, P)
    BY <2>1, <2>2 DEF Queues, Submitted
  <2>5. Batches' = Append(Batches, P) /\ pending' = Rest(P, Len(P))
    BY <1>5, <2>1, SubmitAndSealStep
  <2>6. IsPrefix(P, P)
    BY <2>3, SeqFacts DEF IsPrefix
  <2>7. Commits(P, P)
    BY <2>3, <2>5, <2>6 DEF Commits
  <2> QED BY <2>3, <2>4, <2>7 DEF Moves
<1>6. CASE Stop
  <2>1. PICK P : P = pending
    OBVIOUS
  <2>2. UNCHANGED <<signed, signing>>
    BY <1>6 DEF Stop, threadVars
  <2>3. CASE pending' = pending /\ Batches' = Batches
    BY <2>2, <2>3 DEF Stays, Moves
  <2>4. CASE /\ P # <<>> /\ Batches' = Append(Batches, P)
             /\ pending' = Rest(P, Len(P))
    <3>1. P \in Seq(Tx) /\ IsPrefix(P, P)
      BY <1>0, <2>1, SeqFacts DEF TypeOK, IsPrefix
    <3>2. Commits(P, P)
      BY <2>4, <3>1 DEF Commits
    <3>3. Commits(pending, P)
      BY <2>1, <3>2
    <3> QED BY <2>2, <3>1, <3>3 DEF Moves
  <2> QED BY <1>6, <2>1, <2>3, <2>4, StopStep
<1>7. ASSUME NEW v \in Proposers, ProposeBlock(v) PROVE Stays
  <2>1. PICK h \in 1 .. Len(blocks) + 1 :
          blocks' = Append(blocks, Proposal(pending, h))
    BY <1>7 DEF ProposeBlock
  <2>2. /\ endorsements' = Append(endorsements, {v})
        /\ UNCHANGED <<signed, signing, pending, chain>>
    BY <1>7 DEF ProposeBlock, threadVars
  <2>3. h \in Nat /\ {v} \in SUBSET Validators /\ pending \in Seq(Tx)
    BY <1>0, LedgerBounds DEF TypeOK
  <2>4. Batches' = Batches
    BY <1>0, <2>1, <2>2, <2>3, ProposedBlock, ChainKept
  <2> QED BY <2>2, <2>4 DEF Stays
<1>8. ASSUME NEW i \in DOMAIN blocks, NEW v \in Validators, Endorse(i, v) PROVE Stays
  BY <1>1, <1>8 DEF Endorse, threadVars
<1>9. ASSUME NEW i \in DOMAIN blocks, CommitBlock(i) PROVE Moves
  <2>1. PICK P, t : P = pending /\ t = blocks[i].txs
    OBVIOUS
  <2>2. UNCHANGED <<signed, signing>>
    BY <1>9 DEF CommitBlock, threadVars
  <2>3. /\ IsPrefix(t, P) /\ t \in Seq(Tx)
        /\ Batches' = Append(Batches, t) /\ pending' = Rest(P, Len(t))
    BY <1>0, <1>9, <2>1, CommitStep, BlocksType
  <2>4. Commits(P, t)
    BY <1>0, <2>1, <2>3 DEF Commits, TypeOK
  <2> QED BY <2>1, <2>2, <2>3, <2>4 DEF Moves
<1>10. ASSUME NEW i \in DOMAIN blocks, RefuseBlock(i) PROVE Stays
  BY <1>1, <1>10 DEF RefuseBlock, threadVars
<1>11. ASSUME UNCHANGED vars PROVE Stays
  BY <1>1, <1>11 DEF vars, threadVars, ledgerVars
<1>12. Stays => Moves
  BY DEF Moves
<1>13. \A z \in Submitters : Signs(z) => Moves
  BY DEF Moves
<1>14. ASSUME NEW z \in Submitters, Begin(z) \/ Sign(z) \/ Submit(z) \/ SubmitAndSeal(z)
       PROVE  Moves
  BY <1>2, <1>3, <1>4, <1>5, <1>12, <1>13, <1>14
<1>15. ASSUME NEW v \in Proposers, ProposeBlock(v) PROVE Moves
  BY <1>7, <1>12, <1>15
<1>16. ASSUME NEW i \in DOMAIN blocks,
              \/ \E v \in Validators : i # 1 /\ Endorse(i, v)
              \/ CommitBlock(i) \/ RefuseBlock(i)
       PROVE  Moves
  BY <1>8, <1>9, <1>10, <1>12, <1>16
<1>17. CASE UNCHANGED vars
  BY <1>11, <1>12, <1>17
<1> QED BY <1>6, <1>14, <1>15, <1>16, <1>17 DEF Next

\* Every signed event is accounted for.
AccountedFor == \A z \in Submitters : Accounted(z)

\* Nothing is signed at first.
LEMMA InitAccounted == Init => AccountedFor
<1> SUFFICES ASSUME Init, NEW z \in Submitters PROVE Accounted(z)
  BY DEF AccountedFor
<1>1. pending = <<>> /\ Len(chain) = 1 /\ signed[z] = 0 /\ InFlight(z) = 0
  BY DEF Init, InFlight
<1>2. Batches[1] = <<>>
  BY DEF Init, Batches, Committed, Genesis
<1>3. Places(Batches, 1, z) = {}
  <2>1. EventsAt(Batches[1], z) = {} /\ \A k \in 1 .. 1 : k = 1
    BY <1>2 DEF EventsAt
  <2> QED BY <2>1 DEF Places
<1>4. EventsOf(pending, z) = 0
  <2>1. {i \in DOMAIN <<>> : <<>>[i].by = z} = {}
    OBVIOUS
  <2> QED BY <1>1, <2>1, FS_EmptySet DEF EventsOf
<1>5. /\ IsFiniteSet(Places(Batches, Len(chain), z))
      /\ Cardinality(Places(Batches, Len(chain), z)) = 0
  BY <1>1, <1>3, FS_EmptySet
<1> QED BY <1>1, <1>4, <1>5 DEF Accounted

\* A step moves an event from one count to the next.
LEMMA AccountedStep ==
  ASSUME IInv, IInv', [Next]_vars, AccountedFor
  PROVE  AccountedFor'
<1> SUFFICES ASSUME NEW z \in Submitters PROVE Accounted(z)'
  BY DEF AccountedFor
<1> DEFINE N == Cardinality(Places(Batches, Len(chain), z))
<1>1. /\ IsFiniteSet(Places(Batches, Len(chain), z))
      /\ N + EventsOf(pending, z) + InFlight(z) = signed[z]
  BY DEF AccountedFor, Accounted
<1>2. N \in Nat /\ EventsOf(pending, z) \in Nat /\ pending \in Seq(Tx)
  BY <1>1, EventsFinite, FS_CardinalityType DEF IInv, TypeOK
<1>3. /\ signed \in [Submitters -> Nat] /\ signing \in [Submitters -> BOOLEAN]
      /\ signed' \in [Submitters -> Nat] /\ signing' \in [Submitters -> BOOLEAN]
  BY DEF IInv, TypeOK
<1>4. ASSUME Batches' = Batches PROVE Places(Batches, Len(chain), z)' = Places(Batches, Len(chain), z)
  <2>1. DOMAIN chain' = DOMAIN chain
    BY <1>4 DEF Batches
  <2>2. /\ Len(chain) \in Nat /\ DOMAIN chain = 1 .. Len(chain)
        /\ Len(chain') \in Nat /\ DOMAIN chain' = 1 .. Len(chain')
    BY SeqFacts DEF IInv, TypeOK
  <2>3. Len(chain') = Len(chain)
    BY <2>1, <2>2
  <2> QED BY <1>4, <2>3 DEF Places
<1>5. ASSUME pending' = pending PROVE EventsOf(pending, z)' = EventsOf(pending, z)
  BY <1>5 DEF EventsOf
<1>6. CASE Stays
  <2>1. Places(Batches, Len(chain), z)' = Places(Batches, Len(chain), z)
    BY <1>4, <1>6 DEF Stays
  <2>2. EventsOf(pending, z)' = EventsOf(pending, z)
    BY <1>5, <1>6 DEF Stays
  <2>3. InFlight(z)' = InFlight(z) /\ signed' = signed
    BY <1>6 DEF Stays, InFlight
  <2> QED BY <1>1, <2>1, <2>2, <2>3 DEF Accounted
<1>7. ASSUME NEW y \in Submitters, Signs(y) PROVE Accounted(z)'
  <2>1. Places(Batches, Len(chain), z)' = Places(Batches, Len(chain), z)
    BY <1>4, <1>7 DEF Signs
  <2>2. EventsOf(pending, z)' = EventsOf(pending, z)
    BY <1>5, <1>7 DEF Signs
  <2>3. signed'[z] - InFlight(z)' = signed[z] - InFlight(z)
    BY <1>3, <1>7 DEF Signs, InFlight
  <2>4. InFlight(z) \in Nat /\ InFlight(z)' \in Nat /\ signed'[z] \in Nat
    BY <1>3 DEF InFlight
  <2>5. N + EventsOf(pending, z) + InFlight(z)' = signed'[z]
    <3> HIDE DEF N
    <3> QED BY <1>1, <1>2, <1>3, <2>3, <2>4
  <2> QED BY <1>1, <2>1, <2>2, <2>5 DEF Accounted
<1>8. ASSUME NEW y \in Submitters, NEW P \in Seq(Tx), Queues(y, P)
      PROVE  EventsOf(P, z) + InFlight(z)' = EventsOf(pending, z) + InFlight(z)
  <2>1. PICK x : x = Signing(y)
    OBVIOUS
  <2>2. x \in Tx /\ x.by = y
    BY <1>3, <2>1 DEF Signing, Tx
  <2>3. EventsOf(P, z) = EventsOf(pending, z) + (IF y = z THEN 1 ELSE 0)
    BY <1>2, <1>8, <2>1, <2>2, EventsAppend DEF Queues
  <2>4. InFlight(z)' = InFlight(z) - (IF y = z THEN 1 ELSE 0) /\ InFlight(z) \in Nat
    BY <1>3, <1>8 DEF Queues, InFlight
  <2> QED BY <1>2, <2>3, <2>4
<1>9. ASSUME NEW P \in Seq(Tx), NEW t \in Seq(Tx), Commits(P, t)
      PROVE  /\ IsFiniteSet(Places(Batches, Len(chain), z)')
             /\ Cardinality(Places(Batches, Len(chain), z)') + EventsOf(pending, z)'
                  = N + EventsOf(P, z)
  BY <1>1, <1>9, AccountedAfterCommit DEF Commits
<1>10. InFlight(z) \in Nat /\ InFlight(z)' \in Nat
  BY DEF InFlight
<1>11. ASSUME NEW y \in Submitters, NEW P \in Seq(Tx), Queues(y, P),
              Commits(P, P) \/ (Batches' = Batches /\ pending' = P)
       PROVE  Accounted(z)'
  <2>1. signed' = signed
    BY <1>11 DEF Queues
  <2>2. EventsOf(P, z) + InFlight(z)' = EventsOf(pending, z) + InFlight(z)
    BY <1>8, <1>11
  <2>3. EventsOf(P, z) \in Nat
    BY EventsFinite
  <2>4. N + EventsOf(P, z) + InFlight(z)' = signed[z]
    <3>1. PICK n, p, q, f, g : n = N /\ p = EventsOf(P, z) /\ q = EventsOf(pending, z)
                               /\ f = InFlight(z) /\ g = InFlight(z)'
      OBVIOUS
    <3> HIDE DEF N
    <3>2. n \in Nat /\ p \in Nat /\ q \in Nat /\ f \in Nat /\ g \in Nat
      BY <1>2, <1>10, <2>3, <3>1
    <3>3. p + g = q + f
      BY <2>2, <3>1
    <3>4. n + q + f = signed[z]
      BY <1>1, <3>1
    <3>5. n + p + g = signed[z]
      BY <3>2, <3>3, <3>4
    <3> QED BY <3>1, <3>5
  <2>5. CASE Commits(P, P)
    <3>1. /\ IsFiniteSet(Places(Batches, Len(chain), z)')
          /\ Cardinality(Places(Batches, Len(chain), z)') + EventsOf(pending, z)'
               = N + EventsOf(P, z)
      BY <1>9, <2>5
    <3> QED BY <2>1, <2>4, <3>1 DEF Accounted
  <2>6. CASE Batches' = Batches /\ pending' = P
    <3>1. EventsOf(pending, z)' = EventsOf(P, z)
      BY <2>6 DEF EventsOf
    <3> QED BY <1>1, <1>4, <2>1, <2>4, <2>6, <3>1 DEF Accounted
  <2> QED BY <1>11, <2>5, <2>6
<1>12. ASSUME NEW t \in Seq(Tx), UNCHANGED <<signed, signing>>, Commits(pending, t)
       PROVE  Accounted(z)'
  <2>1. /\ IsFiniteSet(Places(Batches, Len(chain), z)')
        /\ Cardinality(Places(Batches, Len(chain), z)') + EventsOf(pending, z)'
             = N + EventsOf(pending, z)
    BY <1>2, <1>12, <1>1, AccountedAfterCommit DEF Commits
  <2>2. InFlight(z)' = InFlight(z)
    BY <1>12 DEF InFlight
  <2> QED BY <1>1, <1>12, <2>1, <2>2 DEF Accounted
<1> QED BY <1>6, <1>7, <1>11, <1>12, StepMoves DEF Moves

-----------------------------------------------------------------------------
(***************************************************************************)
(* The numbers of hashes.                                                  *)
(***************************************************************************)

\* A block's parent was made before it.  The number of its hash is the position
\* of the first block with that hash, whose header is the same.
Hashed ==
  \A i \in DOMAIN blocks :
    /\ blocks[i].prev \in 0 .. i - 1 /\ blocks[i].hash \in 1 .. i
    /\ blocks[blocks[i].hash].hash = blocks[i].hash
    /\ SameHeader(blocks[blocks[i].hash], blocks[i])

\* The genesis block is the first with its hash.
LEMMA InitHashed == Init => Hashed
<1> SUFFICES ASSUME Init, NEW i \in DOMAIN blocks
             PROVE  /\ blocks[i].prev \in 0 .. i - 1 /\ blocks[i].hash \in 1 .. i
                    /\ blocks[blocks[i].hash].hash = blocks[i].hash
                    /\ SameHeader(blocks[blocks[i].hash], blocks[i])
  BY DEF Hashed
<1>1. i = 1 /\ blocks[1] = Genesis
  BY DEF Init
<1>2. Genesis.prev = 0 /\ Genesis.hash = 1
  BY DEF Genesis
<1> QED BY <1>1, <1>2 DEF SameHeader

\* A step makes one block at most, as propose_block does.
LEMMA BlocksMade ==
  ASSUME IInv, [Next]_vars
  PROVE  \/ blocks' = blocks
         \/ \E P \in Seq(Tx), h \in 1 .. Len(blocks) + 1 :
              /\ HashOf(Proposal(P, h), h)
              /\ blocks' = Append(blocks, Proposal(P, h))
<1> DEFINE Made1 == \E P \in Seq(Tx), h \in 1 .. Len(blocks) + 1 :
                      /\ HashOf(Proposal(P, h), h)
                      /\ blocks' = Append(blocks, Proposal(P, h))
<1>1. ASSUME NEW P \in Seq(Tx), Seal(P) PROVE Made1
  BY <1>1 DEF Seal
<1>2. pending \in Seq(Tx)
  BY DEF IInv, TypeOK
<1>3. ASSUME NEW z \in Submitters, Begin(z) \/ Sign(z) \/ Submit(z)
      PROVE  blocks' = blocks
  BY <1>3 DEF Begin, Sign, Submit, ledgerVars
<1>4. ASSUME NEW z \in Submitters, SubmitAndSeal(z) PROVE Made1
  <2>1. PICK P : P = Append(pending, Signing(z))
    OBVIOUS
  <2>2. Submitted(z) /\ Seal(P)
    BY <1>4, <2>1 DEF SubmitAndSeal
  <2>3. P \in Seq(Tx)
    BY <2>1, <2>2, SubmittedFacts
  <2> QED BY <1>1, <2>2, <2>3
<1>5. ASSUME Stop PROVE blocks' = blocks \/ Made1
  BY <1>1, <1>2, <1>5 DEF Stop, Flush, ledgerVars
<1>6. ASSUME NEW v \in Proposers, ProposeBlock(v) PROVE Made1
  BY <1>2, <1>6 DEF ProposeBlock
<1>7. ASSUME NEW i \in DOMAIN blocks,
             \/ \E v \in Validators : Endorse(i, v)
             \/ CommitBlock(i) \/ RefuseBlock(i)
      PROVE  blocks' = blocks
  BY <1>7 DEF Endorse, CommitBlock, RefuseBlock
<1>8. CASE UNCHANGED vars
  BY <1>8 DEF vars, ledgerVars
<1> DEFINE Goal == blocks' = blocks \/ Made1
<1>9. Stop => Goal
  BY <1>5
<1>10. ASSUME NEW z \in Submitters, Begin(z) \/ Sign(z) \/ Submit(z) \/ SubmitAndSeal(z)
       PROVE  Goal
  BY <1>3, <1>4, <1>10
<1>11. ASSUME NEW v \in Proposers, ProposeBlock(v) PROVE Goal
  BY <1>6, <1>11
<1>12. ASSUME NEW i \in DOMAIN blocks,
              \/ \E v \in Validators : i # 1 /\ Endorse(i, v)
              \/ CommitBlock(i) \/ RefuseBlock(i)
       PROVE  Goal
  BY <1>7, <1>12
<1>13. UNCHANGED vars => Goal
  BY <1>8
<1> HIDE DEF Goal, Made1
<1>14. Goal
  BY <1>9, <1>10, <1>11, <1>12, <1>13 DEF Next
<1> QED BY <1>14 DEF Goal, Made1

\* A block made has a new hash, or that of a block with the same header.
LEMMA HashedStep ==
  ASSUME IInv, [Next]_vars, Hashed
  PROVE  Hashed'
<1>1. CASE blocks' = blocks
  BY <1>1 DEF Hashed, SameHeader
<1>2. ASSUME NEW P \in Seq(Tx), NEW h \in 1 .. Len(blocks) + 1,
             HashOf(Proposal(P, h), h), blocks' = Append(blocks, Proposal(P, h))
      PROVE  Hashed'
  <2> DEFINE n == Len(blocks) + 1
  <2>0. n \in Nat \ {0}
    BY BlocksType DEF IInv
  <2>1. PICK b : b = Proposal(P, h)
    OBVIOUS
  <2>2. LastBlock.hash \in 1 .. n - 1
    <3>1. LastBlock = blocks[chain[Len(chain)]] /\ chain[Len(chain)] \in 1 .. n - 1
      BY BatchesType, BlocksType DEF LastBlock, IInv
    <3> QED BY <3>1, BlocksType DEF Hashed, IInv
  <2>3. b \in Block /\ b.hash = h /\ b.prev \in 1 .. n - 1
    BY <2>1, <2>2, LastBlockFacts DEF Proposal, Block
  <2>4. /\ DOMAIN blocks' = 1 .. n /\ blocks'[n] = b /\ n \in Nat \ {0}
        /\ DOMAIN blocks = 1 .. n - 1
        /\ \A i \in 1 .. n - 1 : blocks'[i] = blocks[i]
    <3>1. blocks \in Seq(Block)
      BY DEF IInv, TypeOK
    <3> QED BY <1>2, <2>1, <2>3, <3>1, AppendFacts, SeqFacts
  <2> HIDE DEF n
  <2>5. ASSUME NEW i \in 1 .. n
        PROVE  /\ blocks'[i].prev \in 0 .. i - 1 /\ blocks'[i].hash \in 1 .. i
               /\ blocks'[blocks'[i].hash].hash = blocks'[i].hash
               /\ SameHeader(blocks'[blocks'[i].hash], blocks'[i])
    <3>1. CASE i # n
      <4>1. i \in 1 .. n - 1
        BY <2>4, <3>1
      <4>2. /\ blocks[i].prev \in 0 .. i - 1 /\ blocks[i].hash \in 1 .. i
            /\ blocks[blocks[i].hash].hash = blocks[i].hash
            /\ SameHeader(blocks[blocks[i].hash], blocks[i])
        BY <2>4, <4>1 DEF Hashed
      <4>3. blocks[i].hash \in 1 .. n - 1
        BY <2>0, <4>1, <4>2
      <4> QED BY <2>4, <4>1, <4>2, <4>3
    <3>2. CASE i = n /\ h = n
      BY <2>3, <2>4, <3>2 DEF SameHeader
    <3>3. CASE i = n /\ h # n
      <4>1. PICK j \in 1 .. n - 1 : SameHeader(b, blocks[j]) /\ h = blocks[j].hash
        BY <1>2, <2>1, <2>4, <3>3 DEF HashOf, n
      <4>2. /\ h \in 1 .. j /\ blocks[h].hash = h /\ SameHeader(blocks[h], blocks[j])
        BY <2>4, <4>1 DEF Hashed
      <4>3. SameHeader(blocks[h], b)
        BY <4>1, <4>2 DEF SameHeader
      <4>4. h \in 1 .. n - 1
        BY <2>0, <4>1, <4>2
      <4> QED BY <2>3, <2>4, <3>3, <4>2, <4>3, <4>4
    <3> QED BY <3>1, <3>2, <3>3
  <2> QED BY <2>4, <2>5 DEF Hashed
<1> QED BY <1>1, <1>2, BlocksMade

\* What the audit rests on, an inductive invariant.
AuditInv == IInv /\ AccountedFor /\ Hashed

\* It holds in every reachable state.
LEMMA AuditInvariant == Spec => []AuditInv
<1>1. Init => AuditInv
  BY InitIInv, InitAccounted, InitHashed DEF AuditInv
<1>2. AuditInv /\ [Next]_vars => AuditInv'
  BY IInvStep, AccountedStep, HashedStep DEF AuditInv
<1> QED BY <1>1, <1>2, PTL DEF Spec

-----------------------------------------------------------------------------
(***************************************************************************)
(* A well made chain: what a block records of its transactions, and links. *)
(***************************************************************************)

\* The n blocks of c record the rows of T, are signed by the rows of E, and each
\* holds the hash of the one before.
WellMade(c, n, T, E) ==
  /\ n \in Nat /\ c = [k \in 1 .. n |-> c[k]]
  /\ \A k \in 1 .. n : Records(c[k], T[k], E[k]) /\ E[k] \in SUBSET Validators
  /\ \A k \in 1 .. n :
       c[k].prev_hash = IF k = 1 THEN GENESIS_PREV ELSE c[k - 1].block_hash

\* Signatures are valid for the header they were made for.
LEMMA ValidFacts ==
  ASSUME NEW b, NEW m, NEW D \in SUBSET Validators,
         b.endorsements = [v \in D |-> Signature(v, m)]
  PROVE  /\ HeaderMaterial(b) = m => Valid(b) = D
         /\ HeaderMaterial(b) # m => Valid(b) = {}
<1> DEFINE x == b.endorsements
<1>1. DOMAIN x = D /\ \A v \in D : x[v] = Signature(v, m)
  OBVIOUS
<1>2. Valid(b) = {v \in DOMAIN x : Verify(v, HeaderMaterial(b), x[v])}
  BY DEF Valid
<1> HIDE DEF x
<1>3. ASSUME HeaderMaterial(b) = m PROVE Valid(b) = D
  BY <1>1, <1>2, <1>3 DEF Verify, IsValidator
<1>4. ASSUME HeaderMaterial(b) # m PROVE Valid(b) = {}
  <2>1. ASSUME NEW v \in D PROVE ~Verify(v, HeaderMaterial(b), x[v])
    BY <1>1, <1>4, SignaturesDiffer DEF Verify
  <2> QED BY <1>1, <1>2, <2>1
<1> QED BY <1>3, <1>4

\* A quorum is never empty.
LEMMA NoneEndorse == ~Endorsed({})
<1>1. Cardinality({}) = 0
  BY FS_EmptySet
<1> DEFINE q == QuorumSize(Cardinality(Validators))
<1>2. q \in Int
  <2>1. Cardinality(Validators) \in Nat
    BY ValidatorCount
  <2> QED BY <2>1 DEF QuorumSize, FaultTolerance
<1> HIDE DEF q
<1>3. Endorsed({}) <=> 0 >= (IF q >= 1 THEN q ELSE 1)
  BY <1>1 DEF Endorsed, q
<1> QED BY <1>2, <1>3

\* Equal headers have equal fields.
LEMMA HeadersEqual ==
  ASSUME NEW b, NEW d, HeaderMaterial(b) = HeaderMaterial(d)
  PROVE  /\ b.index = d.index /\ b.prev_hash = d.prev_hash
         /\ b.timestamp = d.timestamp /\ b.merkle_root = d.merkle_root
<1>1. PICK p, q : p = HeaderMaterial(b) /\ q = HeaderMaterial(d)
  OBVIOUS
<1>2. /\ p[1] = b.index /\ p[2] = b.prev_hash /\ p[3] = b.timestamp
      /\ p[4] = b.merkle_root
  BY <1>1 DEF HeaderMaterial
<1>3. /\ q[1] = d.index /\ q[2] = d.prev_hash /\ q[3] = d.timestamp
      /\ q[4] = d.merkle_root
  BY <1>1 DEF HeaderMaterial
<1> QED BY <1>1, <1>2, <1>3

\* A recorded block is sound but for its endorsements, which are those it carries.
LEMMA RecordedSound ==
  ASSUME NEW b, NEW t, NEW D \in SUBSET Validators, Records(b, t, D)
  PROVE  /\ b.block_hash = RecomputeHash(b)
         /\ b.merkle_root = RootOf(b.transactions)
         /\ \A j \in DOMAIN b.transactions : TransactionSound(b.transactions[j])
         /\ Valid(b) = D /\ DOMAIN b.endorsements = D
<1>1. /\ b.block_hash = RecomputeHash(b) /\ b.merkle_root = RootOf(b.transactions)
      /\ b.transactions = [j \in 1 .. Len(t) |-> Transaction(t[j])]
      /\ b.endorsements = [v \in D |-> Signature(v, HeaderMaterial(b))]
  BY DEF Records
<1>2. \A j \in DOMAIN b.transactions : TransactionSound(b.transactions[j])
  BY <1>1, TransactionIsSound
<1>3. Valid(b) = D
  BY <1>1, ValidFacts
<1> QED BY <1>1, <1>2, <1>3

\* The audit of a well made chain judges the endorsements.
LEMMA WellMadeVerifies ==
  ASSUME NEW c, NEW n, NEW T, NEW E, WellMade(c, n, T, E)
  PROVE  VerifyChain(c) <=> \A k \in 2 .. n : Endorsed(E[k])
<1>1. n \in Nat /\ DOMAIN c = 1 .. n
  BY DEF WellMade
<1>2. ASSUME NEW k \in 1 .. n
      PROVE  /\ HashSound(c, k) /\ Linked(c, k) /\ RootSound(c, k)
             /\ \A j \in DOMAIN c[k].transactions :
                  TransactionSound(c[k].transactions[j])
             /\ Valid(c[k]) = E[k]
  <2>1. /\ Records(c[k], T[k], E[k]) /\ E[k] \in SUBSET Validators
        /\ c[k].prev_hash = IF k = 1 THEN GENESIS_PREV ELSE c[k - 1].block_hash
    BY DEF WellMade
  <2> QED BY <2>1, RecordedSound DEF HashSound, Linked, RootSound
<1>3. VerifyChain(c) <=> \A k \in 1 .. n : k = 1 \/ Endorsed(E[k])
  BY <1>1, <1>2 DEF VerifyChain
<1> QED BY <1>1, <1>3

\* So does the audit of its first blocks.
LEMMA WellMadePrefix ==
  ASSUME NEW c, NEW n, NEW T, NEW E, WellMade(c, n, T, E), NEW m \in 1 .. n
  PROVE  WellMade(SubSeq(c, 1, m), m, T, E)
<1>1. n \in Nat /\ c = [k \in 1 .. n |-> c[k]]
  BY DEF WellMade
<1> DEFINE S == {c[k] : k \in 1 .. n}
           p == SubSeq(c, 1, m)
<1>2. c \in Seq(S) /\ Len(c) = n
  BY <1>1
<1>3. p = [k \in 1 .. m |-> p[k]] /\ \A k \in 1 .. m : p[k] = c[k]
  <2> HIDE DEF S
  <2>1. /\ DOMAIN p = 1 .. m /\ \A k \in 1 .. m : p[k] = c[k + 1 - 1]
        /\ p \in Seq(S)
    BY <1>1, <1>2
  <2>2. \A k \in 1 .. m : k + 1 - 1 = k
    OBVIOUS
  <2> QED BY <2>1, <2>2
<1> HIDE DEF p
<1>4. m \in Nat /\ m <= n
  BY <1>1
<1>5. ASSUME NEW k \in 1 .. m
      PROVE  /\ Records(p[k], T[k], E[k]) /\ E[k] \in SUBSET Validators
             /\ p[k].prev_hash = IF k = 1 THEN GENESIS_PREV ELSE p[k - 1].block_hash
  <2>1. k \in 1 .. n /\ (k # 1 => k - 1 \in 1 .. m)
    BY <1>1, <1>4
  <2>2. /\ Records(c[k], T[k], E[k]) /\ E[k] \in SUBSET Validators
        /\ c[k].prev_hash = IF k = 1 THEN GENESIS_PREV ELSE c[k - 1].block_hash
    BY <2>1 DEF WellMade
  <2> QED BY <1>3, <2>1, <2>2
<1> QED BY <1>3, <1>4, <1>5 DEF WellMade, p

\* And with fewer endorsements on a block.
Fewer(c, k, F) ==
  [c EXCEPT ![k].endorsements = [v \in DOMAIN @ \cap F |-> @[v]]]

\* It stays well made, with those endorsements.
LEMMA WellMadeFewer ==
  ASSUME NEW c, NEW n, NEW T, NEW E, WellMade(c, n, T, E),
         NEW k \in 1 .. n, NEW F
  PROVE  WellMade(Fewer(c, k, F), n, T,
                  [i \in 1 .. n |-> IF i = k THEN E[i] \cap F ELSE E[i]])
<1> DEFINE D == [i \in 1 .. n |-> IF i = k THEN E[i] \cap F ELSE E[i]]
           a == Fewer(c, k, F)
           b == c[k]
           x == [v \in DOMAIN b.endorsements \cap F |-> b.endorsements[v]]
           d == [b EXCEPT !.endorsements = x]
<1>1. n \in Nat /\ c = [i \in 1 .. n |-> c[i]]
  BY DEF WellMade
<1>2. a = [c EXCEPT ![k] = d]
  BY DEF Fewer
<1>3. a = [i \in 1 .. n |-> a[i]] /\ a[k] = d /\ \A i \in 1 .. n : i # k => a[i] = c[i]
  <2> HIDE DEF d, a
  <2> QED BY <1>1, <1>2
<1> HIDE DEF a
<1>4. Records(b, T[k], E[k]) /\ E[k] \in SUBSET Validators
  BY DEF WellMade
<1> HIDE DEF b
<1>5. /\ DOMAIN b = BlockFields
      /\ b.transactions = [j \in 1 .. Len(T[k]) |-> Transaction(T[k][j])]
      /\ b.merkle_root = RootOf(b.transactions)
      /\ b.block_hash = RecomputeHash(b)
      /\ b.endorsements = [v \in E[k] |-> Signature(v, HeaderMaterial(b))]
  BY <1>4 DEF Records
<1>6. x = [v \in E[k] \cap F |-> Signature(v, HeaderMaterial(b))]
  BY <1>5
<1> HIDE DEF x
<1>7. /\ DOMAIN d = BlockFields /\ d.transactions = b.transactions
      /\ d.index = b.index /\ d.prev_hash = b.prev_hash
      /\ d.timestamp = b.timestamp
      /\ d.merkle_root = b.merkle_root /\ d.block_hash = b.block_hash
      /\ d.endorsements = x
  BY <1>5 DEF BlockFields
<1> HIDE DEF d
<1>8. HeaderMaterial(d) = HeaderMaterial(b)
  BY <1>7 DEF HeaderMaterial
<1>9. Records(d, T[k], E[k] \cap F)
  BY <1>5, <1>6, <1>7, <1>8 DEF Records, RecomputeHash
<1>10. ASSUME NEW i \in 1 .. n
       PROVE  /\ Records(a[i], T[i], D[i]) /\ D[i] \in SUBSET Validators
              /\ a[i].prev_hash = c[i].prev_hash /\ a[i].block_hash = c[i].block_hash
  <2>1. Records(c[i], T[i], E[i]) /\ E[i] \in SUBSET Validators
    BY DEF WellMade
  <2>2. CASE i = k
    <3>1. a[i].prev_hash = c[i].prev_hash /\ a[i].block_hash = c[i].block_hash
      BY <1>3, <1>7, <2>2 DEF b
    <3>2. D[i] = E[k] \cap F /\ T[i] = T[k]
      BY <2>2
    <3> QED BY <1>3, <1>9, <2>1, <2>2, <3>1, <3>2
  <2>3. CASE i # k
    BY <1>3, <2>1, <2>3
  <2> QED BY <2>2, <2>3
<1>11. ASSUME NEW i \in 1 .. n
       PROVE  a[i].prev_hash = IF i = 1 THEN GENESIS_PREV ELSE a[i - 1].block_hash
  <2>1. c[i].prev_hash = IF i = 1 THEN GENESIS_PREV ELSE c[i - 1].block_hash
    BY DEF WellMade
  <2>2. i # 1 => i - 1 \in 1 .. n
    BY <1>1
  <2> QED BY <1>10, <2>1, <2>2
<1> HIDE DEF D
<1> QED BY <1>1, <1>3, <1>10, <1>11 DEF WellMade, D, a

-----------------------------------------------------------------------------
(***************************************************************************)
(* Alterations are told.                                                   *)
(***************************************************************************)
RecordedTxs(t) == [j \in 1 .. Len(t) |-> Transaction(t[j])]

\* The Merkle root tells lists of transactions apart: the first holds no event
\* twice, and the other is as long or shorter.
LEMMA RootsTold ==
  ASSUME NEW t \in Seq(Tx), NEW u \in Seq(Tx), Distinct(t), t # u, Len(u) <= Len(t)
  PROVE  RootOf(RecordedTxs(t)) # RootOf(RecordedTxs(u))
<1> DEFINE S == {TxDigest(Transaction(e)) : e \in Tx}
           d(s) == [i \in 1 .. Len(s) |-> TxDigest(Transaction(s[i]))]
<1>1. ASSUME NEW s \in Seq(Tx)
      PROVE  /\ d(s) \in Seq(S) /\ Len(d(s)) = Len(s) /\ DOMAIN d(s) = 1 .. Len(s)
             /\ \A i \in 1 .. Len(s) : d(s)[i] = TxDigest(Transaction(s[i]))
             /\ DeepList(d(s), 0)
             /\ RootOf(RecordedTxs(s)) = MerkleRoot(d(s))
  <2>1. Len(s) \in Nat /\ \A i \in 1 .. Len(s) : s[i] \in Tx
    BY SeqFacts
  <2>2. /\ DOMAIN d(s) = 1 .. Len(s)
        /\ \A i \in 1 .. Len(s) : d(s)[i] = TxDigest(Transaction(s[i]))
    OBVIOUS
  <2>3. d(s) \in Seq(S) /\ Len(d(s)) = Len(s)
    <3>1. d(s) \in [1 .. Len(s) -> S]
      BY <2>1
    <3> QED BY <2>1, <3>1
  <2>4. RootOf(RecordedTxs(s)) = MerkleRoot(d(s))
    <3>1. DOMAIN RecordedTxs(s) = 1 .. Len(s)
      BY DEF RecordedTxs
    <3>2. \A i \in 1 .. Len(s) : RecordedTxs(s)[i] = Transaction(s[i])
      BY DEF RecordedTxs
    <3>3. [i \in DOMAIN RecordedTxs(s) |-> TxDigest(RecordedTxs(s)[i])] = d(s)
      BY <3>1, <3>2
    <3> QED BY <3>3 DEF RootOf
  <2>5. DeepList(d(s), 0)
    BY <2>2, <2>3, DigestFacts DEF DeepList
  <2> QED BY <2>2, <2>3, <2>4, <2>5
<1>2. PICK x, y : x = d(t) /\ y = d(u)
  OBVIOUS
<1>3. /\ x \in Seq(S) /\ Len(x) = Len(t) /\ DOMAIN x = 1 .. Len(t)
      /\ \A i \in 1 .. Len(t) : x[i] = TxDigest(Transaction(t[i]))
      /\ DeepList(x, 0) /\ RootOf(RecordedTxs(t)) = MerkleRoot(x)
  BY <1>1, <1>2
<1>4. /\ y \in Seq(S) /\ Len(y) = Len(u) /\ DOMAIN y = 1 .. Len(u)
      /\ \A i \in 1 .. Len(u) : y[i] = TxDigest(Transaction(u[i]))
      /\ DeepList(y, 0) /\ RootOf(RecordedTxs(u)) = MerkleRoot(y)
  BY <1>1, <1>2
<1> HIDE DEF S, d
<1>5. /\ Len(t) \in Nat /\ Len(u) \in Nat
      /\ DOMAIN t = 1 .. Len(t) /\ DOMAIN u = 1 .. Len(u)
  BY SeqFacts
<1>6. /\ RootOf(RecordedTxs(t)) = MerkleRoot(x)
      /\ RootOf(RecordedTxs(u)) = MerkleRoot(y)
  BY <1>3, <1>4
<1>7. ASSUME Len(u) < Len(t) PROVE MerkleRoot(x) # MerkleRoot(y)
  <2>1. Distinct(x)
    BY <1>3, <1>5, DigestFacts DEF Distinct
  <2> QED BY <1>3, <1>4, <1>7, <2>1, RootOfShorter
<1>8. ASSUME Len(u) = Len(t) PROVE MerkleRoot(x) # MerkleRoot(y)
  <2>1. PICK i \in 1 .. Len(t) : t[i] # u[i]
    <3>1. SUFFICES ASSUME \A i \in 1 .. Len(t) : t[i] = u[i] PROVE t = u
      OBVIOUS
    <3>2. t = [i \in 1 .. Len(t) |-> t[i]] /\ u = [i \in 1 .. Len(t) |-> u[i]]
      BY <1>5, <1>8
    <3> QED BY <3>1, <3>2
  <2>2. x # y
    BY <1>3, <1>4, <1>8, <2>1, DigestFacts
  <2>3. x \in Seq(S) /\ y \in Seq(S) /\ Len(x) = Len(y)
    BY <1>3, <1>4, <1>8
  <2> QED BY <2>2, <2>3, RootsOfEqualLength
<1>9. Len(u) < Len(t) \/ Len(u) = Len(t)
  <2>1. PICK p, q : p = Len(t) /\ q = Len(u)
    OBVIOUS
  <2>2. p \in Nat /\ q \in Nat /\ q <= p
    BY <1>5, <2>1
  <2>3. q < p \/ q = p
    BY <2>2
  <2> QED BY <2>1, <2>3
<1>10. MerkleRoot(x) # MerkleRoot(y)
  BY <1>7, <1>8, <1>9
<1> QED BY <1>6, <1>10

\* Of transactions altered, one is unsound or the root is another.
LEMMA AlteredTransactionsTold ==
  ASSUME NEW t \in Seq(Tx), Distinct(t), \A j \in DOMAIN t : t[j].no # 0,
         NEW a \in AlteredTransactions(RecordedTxs(t))
  PROVE  \/ \E j \in DOMAIN a : ~TransactionSound(a[j])
         \/ RootOf(a) # RootOf(RecordedTxs(t))
<1> DEFINE r == RecordedTxs(t)
           n == Len(t)
<1>1. n \in Nat /\ DOMAIN t = 1 .. n /\ \A i \in 1 .. n : t[i] \in Tx
  BY SeqFacts
<1>2. /\ r = [i \in 1 .. n |-> r[i]] /\ DOMAIN r = 1 .. n
      /\ \A i \in 1 .. n : r[i] = Transaction(t[i])
  BY DEF RecordedTxs
<1> DEFINE Told == \/ \E j \in DOMAIN a : ~TransactionSound(a[j])
                   \/ RootOf(a) # RootOf(r)
<1> HIDE DEF r, n
<1>3. ASSUME NEW j \in DOMAIN r, a = [r EXCEPT ![j] = AnotherPayload(@)] PROVE Told
  <2>1. PICK x : x = AnotherPayload(r[j])
    OBVIOUS
  <2>2. ~TransactionSound(x)
    BY <1>1, <1>2, <2>1, PayloadTold
  <2>3. a = [r EXCEPT ![j] = x]
    BY <1>3, <2>1
  <2>4. j \in DOMAIN a /\ a[j] = x
    BY <2>3
  <2> QED BY <2>2, <2>4
<1>4. ASSUME NEW j \in DOMAIN r, a = [r EXCEPT ![j] = Rehashed(AnotherPayload(@))]
      PROVE  Told
  <2>1. PICK x : x = Rehashed(AnotherPayload(r[j]))
    OBVIOUS
  <2>2. ~TransactionSound(x)
    BY <1>1, <1>2, <2>1, PayloadTold
  <2>3. a = [r EXCEPT ![j] = x]
    BY <1>4, <2>1
  <2>4. j \in DOMAIN a /\ a[j] = x
    BY <2>3
  <2> QED BY <2>2, <2>4
<1>5. ASSUME NEW j \in DOMAIN r, a = At(r, DOMAIN r \ {j}) PROVE Told
  <2> DEFINE u == [i \in 1 .. n - 1 |-> t[IF i < j THEN i ELSE i + 1]]
  <2>1. j \in 1 .. n /\ n - 1 \in Nat
    BY <1>1, <1>2
  <2>2. a = [i \in 1 .. n - 1 |-> r[IF i < j THEN i ELSE i + 1]]
    BY <1>1, <1>2, <1>5, <2>1, LeftOut
  <2>3. \A i \in 1 .. n - 1 : (IF i < j THEN i ELSE i + 1) \in 1 .. n
    BY <1>1, <2>1
  <2>4. u \in [1 .. n - 1 -> Tx]
    BY <1>1, <2>3
  <2>5. u \in Seq(Tx) /\ Len(u) = n - 1
    <3> HIDE DEF u
    <3> QED BY <2>1, <2>4
  <2>6. a = [i \in 1 .. n - 1 |-> Transaction(u[i])]
    BY <1>2, <2>2, <2>3
  <2> HIDE DEF u
  <2>7. a = RecordedTxs(u)
    BY <2>5, <2>6 DEF RecordedTxs
  <2>8. Len(u) < Len(t) /\ Len(u) <= Len(t) /\ t # u
    BY <1>1, <2>5 DEF n
  <2>9. RootOf(RecordedTxs(t)) # RootOf(RecordedTxs(u))
    BY <2>5, <2>8, RootsTold
  <2> QED BY <2>7, <2>9 DEF r
<1>6. ASSUME NEW p \in (DOMAIN r) \X (DOMAIN r), p[1] < p[2],
             a = [r EXCEPT ![p[1]] = r[p[2]], ![p[2]] = r[p[1]]]
      PROVE  Told
  <2>1. PICK f, l : f = p[1] /\ l = p[2]
    OBVIOUS
  <2>2. f \in 1 .. n /\ l \in 1 .. n /\ f < l
    BY <1>2, <1>6, <2>1
  <2>3. a = [r EXCEPT ![f] = r[l], ![l] = r[f]]
    BY <1>6, <2>1
  <2> DEFINE u == [i \in 1 .. n |-> t[IF i = f THEN l ELSE IF i = l THEN f ELSE i]]
  <2>4. u \in [1 .. n -> Tx]
    BY <1>1, <2>2
  <2>5. u \in Seq(Tx) /\ Len(u) = n
    BY <1>1, <2>4
  <2>6. a = [i \in 1 .. n |-> r[IF i = f THEN l ELSE IF i = l THEN f ELSE i]]
    BY <1>2, <2>2, <2>3
  <2>7. a = [i \in 1 .. n |-> Transaction(u[i])]
    BY <1>2, <2>2, <2>6
  <2>8. u[f] = t[l]
    BY <2>2
  <2> HIDE DEF u
  <2>9. a = RecordedTxs(u)
    BY <2>5, <2>7 DEF RecordedTxs
  <2>10. t[f] # t[l]
    BY <1>1, <2>2 DEF Distinct
  <2>11. t # u /\ Len(u) <= Len(t)
    BY <1>1, <2>5, <2>8, <2>10 DEF n
  <2>12. RootOf(RecordedTxs(t)) # RootOf(RecordedTxs(u))
    BY <2>5, <2>11, RootsTold
  <2> QED BY <2>9, <2>12 DEF r
<1>7. \/ \E j \in DOMAIN r : a = [r EXCEPT ![j] = AnotherPayload(@)]
      \/ \E j \in DOMAIN r : a = [r EXCEPT ![j] = Rehashed(AnotherPayload(@))]
      \/ \E j \in DOMAIN r : a = At(r, DOMAIN r \ {j})
      \/ \E p \in (DOMAIN r) \X (DOMAIN r) :
           /\ p[1] < p[2]
           /\ a = [r EXCEPT ![p[1]] = r[p[2]], ![p[2]] = r[p[1]]]
  BY DEF AlteredTransactions, r
<1> HIDE DEF Told
<1>8. Told
  BY <1>3, <1>4, <1>5, <1>6, <1>7
<1> QED BY <1>8 DEF Told, r

\* What the audit asks of a block besides its links.
BlockSound(b) ==
  /\ b.merkle_root = RootOf(b.transactions)
  /\ \A j \in DOMAIN b.transactions : TransactionSound(b.transactions[j])
  /\ Endorsed(Valid(b))

\* The audit of a chain asks it of every block but the first.
LEMMA BlocksVerified ==
  ASSUME NEW c, VerifyChain(c), NEW k \in DOMAIN c, k # 1
  PROVE  BlockSound(c[k])
BY DEF VerifyChain, RootSound, BlockSound

\* Signatures of another header endorse nothing.
LEMMA ResignedTold ==
  ASSUME NEW b, NEW d, NEW D \in SUBSET Validators,
         d.endorsements = [v \in D |-> Signature(v, HeaderMaterial(b))],
         HeaderMaterial(d) # HeaderMaterial(b)
  PROVE  ~BlockSound(d)
<1>1. Valid(d) = {}
  BY ValidFacts
<1> QED BY <1>1, NoneEndorse DEF BlockSound

\* Taking root and hash anew leaves the rest of a block.
LEMMA SealedFields ==
  ASSUME NEW b, DOMAIN b = BlockFields
  PROVE  LET s == Sealed(b)
         IN  /\ s.transactions = b.transactions /\ s.endorsements = b.endorsements
             /\ s.merkle_root = RootOf(b.transactions)
             /\ s.index = b.index /\ s.timestamp = b.timestamp
<1>1. PICK x : x = RootOf(b.transactions)
  OBVIOUS
<1> DEFINE r == [b EXCEPT !.merkle_root = x]
<1>2. /\ DOMAIN r = BlockFields
      /\ r.transactions = b.transactions /\ r.endorsements = b.endorsements
      /\ r.merkle_root = x /\ r.index = b.index /\ r.timestamp = b.timestamp
  BY DEF BlockFields
<1> HIDE DEF r
<1>3. PICK h : h = RecomputeHash(r)
  OBVIOUS
<1> DEFINE s == [r EXCEPT !.block_hash = h]
<1>4. /\ s.transactions = r.transactions /\ s.endorsements = r.endorsements
      /\ s.merkle_root = r.merkle_root /\ s.index = r.index
      /\ s.timestamp = r.timestamp
  BY <1>2 DEF BlockFields
<1>5. Sealed(b) = s
  BY <1>1, <1>3 DEF Sealed, r
<1> HIDE DEF s
<1> QED BY <1>1, <1>2, <1>4, <1>5

\* An altered block fails, and so does one with its root and hash taken anew: its
\* signatures are of another header.
LEMMA AlteredBlockTold ==
  ASSUME NEW b, NEW t \in Seq(Tx), NEW D \in SUBSET Validators, Records(b, t, D),
         Distinct(t), \A j \in DOMAIN t : t[j].no # 0,
         b.timestamp # 0, b.index \in Nat,
         NEW a \in AlteredBlocks(b)
  PROVE  ~BlockSound(a) /\ ~BlockSound(Sealed(a))
<1>1. /\ DOMAIN b = BlockFields /\ b.transactions = RecordedTxs(t)
      /\ b.merkle_root = RootOf(b.transactions)
      /\ b.endorsements = [v \in D |-> Signature(v, HeaderMaterial(b))]
  BY DEF Records, RecordedTxs
<1>2. ASSUME NEW txs \in AlteredTransactions(b.transactions),
             a = [b EXCEPT !.transactions = txs]
      PROVE  ~BlockSound(a) /\ ~BlockSound(Sealed(a))
  <2>1. /\ DOMAIN a = BlockFields /\ a.transactions = txs
        /\ a.merkle_root = b.merkle_root /\ a.endorsements = b.endorsements
    BY <1>1, <1>2 DEF BlockFields
  <2>2. PICK s : s = Sealed(a)
    OBVIOUS
  <2>3. /\ s.transactions = txs /\ s.endorsements = b.endorsements
        /\ s.merkle_root = RootOf(txs)
    BY <2>1, <2>2, SealedFields
  <2>4. \/ \E j \in DOMAIN txs : ~TransactionSound(txs[j])
        \/ RootOf(txs) # b.merkle_root
    BY <1>1, AlteredTransactionsTold
  <2>5. CASE \E j \in DOMAIN txs : ~TransactionSound(txs[j])
    BY <2>1, <2>2, <2>3, <2>5 DEF BlockSound
  <2>6. CASE RootOf(txs) # b.merkle_root
    <3>1. ~BlockSound(a)
      BY <2>1, <2>6 DEF BlockSound
    <3>2. HeaderMaterial(s) # HeaderMaterial(b)
      BY <2>3, <2>6, HeadersEqual
    <3>3. ~BlockSound(s)
      BY <1>1, <2>3, <3>2, ResignedTold
    <3> QED BY <2>2, <3>1, <3>3
  <2> QED BY <2>4, <2>5, <2>6
<1>3. ASSUME a = [b EXCEPT !.timestamp = 0] \/ a = [b EXCEPT !.index = @ + 1]
      PROVE  ~BlockSound(a) /\ ~BlockSound(Sealed(a))
  <2>1. DOMAIN a = BlockFields /\ a.endorsements = b.endorsements
    BY <1>1, <1>3 DEF BlockFields
  <2>2. a.timestamp # b.timestamp \/ a.index # b.index
    <3>1. CASE a = [b EXCEPT !.timestamp = 0]
      BY <1>1, <3>1 DEF BlockFields
    <3>2. CASE a = [b EXCEPT !.index = @ + 1]
      BY <1>1, <3>2 DEF BlockFields
    <3> QED BY <1>3, <3>1, <3>2
  <2>3. PICK s : s = Sealed(a)
    OBVIOUS
  <2>4. /\ s.endorsements = b.endorsements
        /\ s.index = a.index /\ s.timestamp = a.timestamp
    BY <2>1, <2>3, SealedFields
  <2>5. /\ HeaderMaterial(a) # HeaderMaterial(b)
        /\ HeaderMaterial(s) # HeaderMaterial(b)
    BY <2>2, <2>4, HeadersEqual
  <2> QED BY <1>1, <2>1, <2>3, <2>4, <2>5, ResignedTold
<1> QED BY <1>2, <1>3 DEF AlteredBlocks

-----------------------------------------------------------------------------
(***************************************************************************)
(* Chains altered.                                                         *)
(***************************************************************************)
\* The n blocks of c are at their positions, and hold each event once.
Audited(c, n, T) ==
  \A k \in 1 .. n :
    /\ c[k].index = k - 1 /\ c[k].timestamp # 0
    /\ T[k] \in Seq(Tx) /\ Distinct(T[k])
    /\ \A j \in DOMAIN T[k] : T[k][j].no # 0

\* The length of a well made chain.
LEMMA WellMadeLength ==
  ASSUME NEW c, NEW n, NEW T, NEW E, WellMade(c, n, T, E)
  PROVE  n \in Nat /\ Len(c) = n /\ DOMAIN c = 1 .. n
<1>1. n \in Nat /\ c = [k \in 1 .. n |-> c[k]]
  BY DEF WellMade
<1> DEFINE S == {c[k] : k \in 1 .. n}
<1>2. c \in [1 .. n -> S]
  BY <1>1
<1> HIDE DEF S
<1>3. c \in Seq(S) /\ Len(c) = n
  BY <1>1, <1>2
<1> QED BY <1>1, <1>3

\* A block left out is told by the link of the next.
LEMMA LeftOutTold ==
  ASSUME NEW c, NEW n, NEW T, NEW E, WellMade(c, n, T, E), Audited(c, n, T),
         NEW k \in 1 .. n - 1
  PROVE  ~VerifyChain(At(c, DOMAIN c \ {k}))
<1>1. PICK a : a = At(c, DOMAIN c \ {k})
  OBVIOUS
<1>2. n \in Nat /\ DOMAIN c = 1 .. n
  BY WellMadeLength
<1>3. k \in 1 .. n /\ k + 1 \in 1 .. n /\ k + 1 # 1 /\ (k + 1) - 1 = k
  BY <1>2
<1>4. a = [j \in 1 .. n - 1 |-> c[IF j < k THEN j ELSE j + 1]]
  BY <1>1, <1>2, <1>3, LeftOut
<1>5. k \in DOMAIN a /\ a[k] = c[k + 1]
  BY <1>2, <1>4
<1>6. c[k + 1].prev_hash = c[k].block_hash
  BY <1>3 DEF WellMade
<1>7. c[k].block_hash = sha256_hex(HeaderMaterial(c[k]))
  BY <1>3 DEF WellMade, Records, RecomputeHash
<1>8. SUFFICES ASSUME VerifyChain(a) PROVE FALSE
  BY <1>1
<1>9. c[k].block_hash = IF k = 1 THEN GENESIS_PREV ELSE a[k - 1].block_hash
  BY <1>5, <1>6, <1>8 DEF VerifyChain, Linked
<1>10. CASE k = 1
  <2>1. PICK m : m = HeaderMaterial(c[k])
    OBVIOUS
  <2>2. c[k].block_hash = <<m>> /\ c[k].block_hash = <<>>
    BY <1>7, <1>9, <1>10, <2>1 DEF sha256_hex, GENESIS_PREV
  <2>3. <<m>> # <<>>
    OBVIOUS
  <2> QED BY <2>2, <2>3, Zenon
<1>11. CASE k # 1
  <2>1. k - 1 \in 1 .. n - 1 /\ k - 1 < k /\ k - 1 \in 1 .. n
    BY <1>2, <1>3, <1>11
  <2>2. a[k - 1] = c[k - 1]
    BY <1>4, <2>1
  <2>3. c[k - 1].block_hash = sha256_hex(HeaderMaterial(c[k - 1]))
    BY <2>1 DEF WellMade, Records, RecomputeHash
  <2>4. HeaderMaterial(c[k]) = HeaderMaterial(c[k - 1])
    BY <1>7, <1>9, <1>11, <2>2, <2>3, HashesDiffer
  <2>5. c[k].index = c[k - 1].index
    BY <2>4, HeadersEqual
  <2>6. c[k].index = k - 1 /\ c[k - 1].index = (k - 1) - 1
    BY <1>3, <2>1 DEF Audited
  <2>7. k - 1 # (k - 1) - 1
    BY <1>2, <1>3
  <2> QED BY <2>5, <2>6, <2>7
<1> QED BY <1>10, <1>11

\* Every alteration of a well made chain is told.
LEMMA AlteredChainsTold ==
  ASSUME NEW c, NEW n, NEW T, NEW E, WellMade(c, n, T, E), Audited(c, n, T),
         NEW a \in AlteredChains(c)
  PROVE  ~VerifyChain(a)
<1>1. n \in Nat /\ Len(c) = n /\ DOMAIN c = 1 .. n
  BY WellMadeLength
<1>2. ASSUME NEW k \in 2 .. n, NEW r, ~BlockSound(r), a = [c EXCEPT ![k] = r]
      PROVE  ~VerifyChain(a)
  <2>1. k \in DOMAIN c /\ k # 1
    BY <1>1
  <2>2. k \in DOMAIN a /\ a[k] = r
    BY <1>2, <2>1
  <2> QED BY <1>2, <2>1, <2>2, BlocksVerified
<1>3. ASSUME NEW k \in 2 .. n, NEW b \in AlteredBlocks(c[k])
      PROVE  ~BlockSound(b) /\ ~BlockSound(Sealed(b))
  <2>1. k \in 1 .. n /\ k - 1 \in Nat
    BY <1>1
  <2>2. Records(c[k], T[k], E[k]) /\ E[k] \in SUBSET Validators
    BY <2>1 DEF WellMade
  <2>3. /\ c[k].index \in Nat /\ c[k].timestamp # 0
        /\ T[k] \in Seq(Tx) /\ Distinct(T[k])
        /\ \A j \in DOMAIN T[k] : T[k][j].no # 0
    BY <2>1 DEF Audited
  <2> QED BY <2>2, <2>3, AlteredBlockTold
<1>4. \/ \E k \in 2 .. n : \E b \in AlteredBlocks(c[k]) :
           a = [c EXCEPT ![k] = b] \/ a = [c EXCEPT ![k] = Sealed(b)]
      \/ \E k \in 1 .. n - 1 : a = At(c, DOMAIN c \ {k})
  <2>1. \/ \E k \in 2 .. Len(c) : a \in AlteredAt(c, k)
        \/ \E k \in 1 .. Len(c) - 1 : a = At(c, DOMAIN c \ {k})
    <3>1. a \in UNION {AlteredAt(c, k) : k \in 2 .. Len(c)} \/ a \in Shortened(c)
      BY DEF AlteredChains
    <3> QED BY <3>1 DEF Shortened
  <2>2. ASSUME NEW k \in 2 .. n, a \in AlteredAt(c, k)
        PROVE  \E b \in AlteredBlocks(c[k]) :
                 a = [c EXCEPT ![k] = b] \/ a = [c EXCEPT ![k] = Sealed(b)]
    BY <2>2 DEF AlteredAt
  <2> QED BY <1>1, <2>1, <2>2
<1>5. ASSUME NEW k \in 2 .. n, NEW b \in AlteredBlocks(c[k]),
             a = [c EXCEPT ![k] = b] \/ a = [c EXCEPT ![k] = Sealed(b)]
      PROVE  ~VerifyChain(a)
  BY <1>2, <1>3, <1>5
<1>6. ASSUME NEW k \in 1 .. n - 1, a = At(c, DOMAIN c \ {k})
      PROVE  ~VerifyChain(a)
  BY <1>6, LeftOutTold
<1> QED BY <1>4, <1>5, <1>6

-----------------------------------------------------------------------------
(***************************************************************************)
(* Transactions counted.                                                   *)
(***************************************************************************)
Matched(txs, z) == At(txs, {j \in DOMAIN txs : txs[j].event.by = z})

\* f[k] holds the transactions of z in the first k blocks.
TxsUpTo(c, z, n, f) ==
  f = [k \in 0 .. n |->
         IF k = 0 THEN <<>> ELSE f[k - 1] \o Matched(c[k].transactions, z)]

\* There is such a function, however long the chain.
LEMMA TxsUpToExists ==
  ASSUME NEW c, NEW z, NEW n \in Nat
  PROVE  \E f : TxsUpTo(c, z, n, f)
<1> DEFINE Bad == {m \in 0 .. n : \A f : ~TxsUpTo(c, z, m, f)}
<1>1. SUFFICES ASSUME n \in Bad PROVE FALSE
  OBVIOUS
<1>2. PICK m \in Bad : \A k \in Bad : m <= k
  <2>1. Bad \in SUBSET Nat /\ Bad # {}
    BY <1>1
  <2> HIDE DEF Bad
  <2> QED BY <2>1, LeastOf
<1>3. m \in 0 .. n /\ \A f : ~TxsUpTo(c, z, m, f)
  BY <1>2
<1>4. CASE m = 0
  <2> DEFINE f == [k \in 0 .. 0 |-> <<>>]
  <2>1. \A k \in 0 .. 0 : k = 0
    OBVIOUS
  <2>2. f = [k \in 0 .. 0 |->
               IF k = 0 THEN <<>> ELSE f[k - 1] \o Matched(c[k].transactions, z)]
    BY <2>1
  <2> HIDE DEF f
  <2>3. TxsUpTo(c, z, 0, f)
    BY <2>2 DEF TxsUpTo
  <2> QED BY <1>3, <1>4, <2>3
<1>5. CASE m # 0
  <2>1. m - 1 \in 0 .. n /\ m - 1 \notin Bad
    BY <1>2, <1>3, <1>5
  <2>2. PICK g : TxsUpTo(c, z, m - 1, g)
    BY <2>1
  <2>3. \A k \in 0 .. m - 1 :
          g[k] = IF k = 0 THEN <<>> ELSE g[k - 1] \o Matched(c[k].transactions, z)
    BY <2>2 DEF TxsUpTo
  <2>4. PICK x : x = g[m - 1] \o Matched(c[m].transactions, z)
    OBVIOUS
  <2> DEFINE f == [k \in 0 .. m |-> IF k = m THEN x ELSE g[k]]
  <2>5. \A k \in 0 .. m - 1 : f[k] = g[k]
    BY <1>3
  <2>6. f[m] = x /\ f = [k \in 0 .. m |-> f[k]]
    BY <1>3
  <2> HIDE DEF f
  <2>7. ASSUME NEW k \in 0 .. m
        PROVE  f[k] = IF k = 0 THEN <<>>
                      ELSE f[k - 1] \o Matched(c[k].transactions, z)
    <3>1. CASE k = m
      <4>1. m - 1 \in 0 .. m - 1
        BY <1>3, <1>5
      <4> QED BY <1>5, <2>4, <2>5, <2>6, <3>1, <4>1
    <3>2. CASE k # m
      <4>1. k \in 0 .. m - 1 /\ (k # 0 => k - 1 \in 0 .. m - 1)
        BY <1>3, <3>2
      <4> QED BY <2>3, <2>5, <4>1
    <3> QED BY <3>1, <3>2
  <2>8. TxsUpTo(c, z, m, f)
    BY <2>6, <2>7 DEF TxsUpTo
  <2> QED BY <1>3, <2>8
<1> QED BY <1>4, <1>5

\* transactions returns its last value.
LEMMA TransactionsUpTo ==
  ASSUME NEW c, NEW z, Len(c) \in Nat
  PROVE  \E f : TxsUpTo(c, z, Len(c), f) /\ Transactions(c, z) = f[Len(c)]
<1>1. \E f : TxsUpTo(c, z, Len(c), f)
  BY TxsUpToExists
<1> DEFINE f == CHOOSE f : TxsUpTo(c, z, Len(c), f)
<1>2. TxsUpTo(c, z, Len(c), f)
  BY <1>1
<1>3. Transactions(c, z) = f[Len(c)]
  BY DEF Transactions, TxsUpTo, Matched
<1> HIDE DEF f
<1> QED BY <1>2, <1>3

\* The transactions of z that record t are as many as its events in t.
LEMMA MatchedCount ==
  ASSUME NEW t \in Seq(Tx), NEW z
  PROVE  \E S : /\ Matched(RecordedTxs(t), z) \in Seq(S)
                /\ Len(Matched(RecordedTxs(t), z)) = EventsOf(t, z)
<1> DEFINE r == RecordedTxs(t)
           K == {j \in DOMAIN r : r[j].event.by = z}
<1>1. DOMAIN t = 1 .. Len(t)
  BY SeqFacts
<1>2. DOMAIN r = 1 .. Len(t) /\ \A j \in 1 .. Len(t) : r[j] = Transaction(t[j])
  BY DEF RecordedTxs
<1>3. \A j \in 1 .. Len(t) : r[j].event = t[j]
  BY <1>2, TransactionFacts
<1>4. K = EventsAt(t, z)
  BY <1>1, <1>2, <1>3 DEF EventsAt
<1>5. PICK m : m = Cardinality(K)
  OBVIOUS
<1>6. m \in Nat /\ m = EventsOf(t, z)
  BY <1>4, <1>5, EventsFinite
<1>7. Matched(r, z) = [j \in 1 .. m |-> r[Ranked(K, j)]]
  BY <1>5 DEF Matched, At
<1> HIDE DEF r, K
<1> DEFINE S == {r[Ranked(K, j)] : j \in 1 .. m}
<1>8. Matched(r, z) \in [1 .. m -> S]
  BY <1>7
<1> HIDE DEF S
<1>9. Matched(r, z) \in Seq(S) /\ Len(Matched(r, z)) = m
  BY <1>6, <1>8
<1> QED BY <1>6, <1>9 DEF r

\* transactions returns as many as there are events of z in the chain.
LEMMA TransactionsCounted ==
  ASSUME NEW c, NEW n \in Nat, Len(c) = n, NEW T, NEW z,
         \A k \in 1 .. n : /\ T[k] \in Seq(Tx)
                           /\ c[k].transactions = RecordedTxs(T[k])
  PROVE  Len(Transactions(c, z)) = Cardinality(Places(T, n, z))
<1>1. PICK f : TxsUpTo(c, z, n, f) /\ Transactions(c, z) = f[n]
  BY TransactionsUpTo
<1>2. /\ f[0] = <<>>
      /\ \A k \in 1 .. n : f[k] = f[k - 1] \o Matched(RecordedTxs(T[k]), z)
  <2>1. \A k \in 0 .. n :
          f[k] = IF k = 0 THEN <<>> ELSE f[k - 1] \o Matched(c[k].transactions, z)
    BY <1>1 DEF TxsUpTo
  <2>2. 0 \in 0 .. n /\ \A k \in 1 .. n : k \in 0 .. n /\ k # 0
    OBVIOUS
  <2> QED BY <2>1, <2>2
<1> DEFINE Counts(k) ==
             /\ \E S : f[k] \in Seq(S)
             /\ IsFiniteSet(Places(T, k, z)) /\ Len(f[k]) = Cardinality(Places(T, k, z))
           Bad == {k \in 0 .. n : ~Counts(k)}
<1>3. Bad = {}
  <2>1. SUFFICES ASSUME Bad # {} PROVE FALSE
    OBVIOUS
  <2>2. PICK m \in Bad : \A k \in Bad : m <= k
    <3>1. Bad \in SUBSET Nat
      OBVIOUS
    <3> HIDE DEF Bad
    <3> QED BY <2>1, <3>1, LeastOf
  <2>3. m \in 0 .. n /\ ~Counts(m)
    OBVIOUS
  <2>4. CASE m = 0
    <3>0. <<>> \in Seq({}) /\ Len(<<>>) = 0
      OBVIOUS
    <3>1. f[m] \in Seq({}) /\ Len(f[m]) = 0
      BY <1>2, <2>4, <3>0
    <3>2. Places(T, m, z) = {}
      BY <2>4, PlacesNone
    <3> QED BY <2>3, <3>1, <3>2, FS_EmptySet
  <2>5. CASE m # 0
    <3>1. m - 1 \in 0 .. n /\ m - 1 \notin Bad /\ m \in 1 .. n /\ (m - 1) + 1 = m
      BY <2>2, <2>3, <2>5
    <3>2. Counts(m - 1)
      BY <3>1
    <3>3. PICK S : f[m - 1] \in Seq(S)
      BY <3>2
    <3>4. T[m] \in Seq(Tx)
      BY <3>1
    <3>5. PICK x : x = Matched(RecordedTxs(T[m]), z)
      OBVIOUS
    <3>6. PICK R : x \in Seq(R) /\ Len(x) = EventsOf(T[m], z)
      BY <3>4, <3>5, MatchedCount
    <3>7. f[m] = f[m - 1] \o x
      BY <1>2, <3>1, <3>5
    <3>8. f[m] \in Seq(S \cup R) /\ Len(f[m]) = Len(f[m - 1]) + Len(x)
      <4>1. PICK p : p = f[m - 1]
        OBVIOUS
      <4>2. p \in Seq(S \cup R) /\ x \in Seq(S \cup R)
        BY <3>3, <3>6, <4>1, SeqWiden
      <4>3. p \o x \in Seq(S \cup R) /\ Len(p \o x) = Len(p) + Len(x)
        BY <4>2
      <4> QED BY <3>7, <4>1, <4>3
    <3>9. /\ IsFiniteSet(Places(T, m, z))
          /\ Cardinality(Places(T, m, z))
               = Cardinality(Places(T, m - 1, z)) + EventsOf(T[m], z)
      <4>1. PICK q : q = m - 1
        OBVIOUS
      <4>2. q \in Nat /\ q + 1 = m /\ IsFiniteSet(Places(T, q, z))
        BY <3>1, <3>2, <4>1
      <4>3. T[q + 1] \in Seq(Tx)
        BY <3>4, <4>2
      <4>4. /\ IsFiniteSet(Places(T, q + 1, z))
            /\ Cardinality(Places(T, q + 1, z))
                 = Cardinality(Places(T, q, z)) + EventsOf(T[q + 1], z)
        BY <4>2, <4>3, PlacesGrow
      <4> QED BY <4>1, <4>2, <4>4
    <3> QED BY <2>3, <3>2, <3>6, <3>8, <3>9
  <2> QED BY <2>4, <2>5
<1>4. Counts(n)
  BY <1>3
<1> QED BY <1>1, <1>4

-----------------------------------------------------------------------------
(***************************************************************************)
(* The recorded chain.                                                     *)
(***************************************************************************)
Signers == [k \in 1 .. Len(chain) |-> endorsements[chain[k]]]

\* Blocks are made as their parents' hashes ask.
LEMMA MadeBlocks ==
  ASSUME AuditInv, NEW i \in DOMAIN blocks
  PROVE  /\ Made[i] = BlockOf(blocks[i], ParentHash(Made, i), endorsements[i])
         /\ Records(Made[i], blocks[i].txs, endorsements[i])
         /\ Made[i].index = blocks[i].index
         /\ Made[i].prev_hash = ParentHash(Made, i)
         /\ Made[i].timestamp = blocks[i].hash
<1>1. /\ DOMAIN blocks = 1 .. Len(blocks) /\ Len(blocks) \in Nat
      /\ blocks[i].txs \in Seq(Tx)
  BY BlocksType DEF AuditInv, IInv
<1>2. Parents(Len(blocks))
  BY <1>1 DEF AuditInv, Hashed, Parents
<1>3. Made[i] = BlockOf(blocks[i], ParentHash(Made, i), endorsements[i])
  BY <1>1, <1>2, MadeFacts
<1>4. PICK p, b, E : p = ParentHash(Made, i) /\ b = blocks[i] /\ E = endorsements[i]
  OBVIOUS
<1>5. DOMAIN b.txs = 1 .. Len(b.txs)
  BY <1>1, <1>4, SeqFacts
<1>6. PICK r : r = BlockOf(b, p, E)
  OBVIOUS
<1>7. /\ Records(r, b.txs, E)
      /\ r.index = b.index /\ r.prev_hash = p /\ r.timestamp = b.hash
  BY <1>5, <1>6, BlockOfRecords
<1>8. Made[i] = r
  BY <1>3, <1>4, <1>6
<1> QED BY <1>3, <1>4, <1>7, <1>8

\* Blocks with one hash number have one hash.
LEMMA SameHash ==
  ASSUME AuditInv, NEW i \in DOMAIN blocks
  PROVE  /\ blocks[i].hash \in DOMAIN blocks /\ blocks[i].hash # 0
         /\ Made[blocks[i].hash].block_hash = Made[i].block_hash
<1>1. PICK h : h = blocks[i].hash
  OBVIOUS
<1>2. DOMAIN blocks = 1 .. Len(blocks) /\ Len(blocks) \in Nat
  BY BlocksType DEF AuditInv, IInv
<1>3. /\ h \in 1 .. i /\ blocks[h].hash = h /\ SameHeader(blocks[h], blocks[i])
  BY <1>1 DEF AuditInv, Hashed
<1>4. h \in DOMAIN blocks /\ h # 0
  BY <1>2, <1>3
<1>5. /\ Made[h].index = Made[i].index /\ Made[h].timestamp = Made[i].timestamp
      /\ Made[h].prev_hash = Made[i].prev_hash
  <2>1. ParentHash(Made, h) = ParentHash(Made, i)
    BY <1>3 DEF ParentHash, SameHeader
  <2>2. blocks[h].index = blocks[i].index /\ blocks[h].hash = blocks[i].hash
    BY <1>1, <1>3 DEF SameHeader
  <2>3. /\ Made[h].index = blocks[h].index /\ Made[h].prev_hash = ParentHash(Made, h)
        /\ Made[h].timestamp = blocks[h].hash
    BY <1>4, MadeBlocks
  <2>4. /\ Made[i].index = blocks[i].index /\ Made[i].prev_hash = ParentHash(Made, i)
        /\ Made[i].timestamp = blocks[i].hash
    BY MadeBlocks
  <2> QED BY <2>1, <2>2, <2>3, <2>4
<1>6. PICK x, y : x = Made[h] /\ y = Made[i]
  OBVIOUS
<1>7. /\ Records(x, blocks[h].txs, endorsements[h])
      /\ Records(y, blocks[i].txs, endorsements[i])
  BY <1>4, <1>6, MadeBlocks
<1>8. blocks[h].txs = blocks[i].txs
  BY <1>3 DEF SameHeader
<1>9. x.merkle_root = y.merkle_root
  <2>1. /\ x.merkle_root = RootOf(x.transactions)
        /\ x.transactions = [j \in 1 .. Len(blocks[h].txs) |-> Transaction(blocks[h].txs[j])]
    BY <1>7 DEF Records
  <2>2. /\ y.merkle_root = RootOf(y.transactions)
        /\ y.transactions = [j \in 1 .. Len(blocks[i].txs) |-> Transaction(blocks[i].txs[j])]
    BY <1>7 DEF Records
  <2> QED BY <1>8, <2>1, <2>2
<1>10. HeaderMaterial(x) = HeaderMaterial(y)
  BY <1>5, <1>6, <1>9 DEF HeaderMaterial
<1>11. x.block_hash = RecomputeHash(x) /\ y.block_hash = RecomputeHash(y)
  BY <1>7 DEF Records
<1>12. x.block_hash = y.block_hash
  BY <1>10, <1>11 DEF RecomputeHash
<1> QED BY <1>1, <1>4, <1>6, <1>12

\* The chain that is recorded is well made, of the batches of the chain.
LEMMA RecordedFacts ==
  ASSUME AuditInv
  PROVE  /\ WellMade(Recorded, Len(chain), Batches, Signers)
         /\ Audited(Recorded, Len(chain), Batches)
         /\ \A k \in 2 .. Len(chain) : Endorsed(Signers[k])
<1> DEFINE n == Len(chain)
<1>1. /\ DOMAIN chain = 1 .. n /\ n \in Nat \ {0}
      /\ \A k \in 1 .. n : /\ chain[k] \in DOMAIN blocks
                           /\ Batches[k] = blocks[chain[k]].txs
                           /\ Batches[k] \in Seq(Tx)
  <2>1. TypeOK
    BY DEF AuditInv, IInv
  <2> QED BY <2>1, BatchesType, BlocksType DEF Committed
<1>2. Recorded = [k \in 1 .. n |-> Made[chain[k]]]
  BY <1>1 DEF Recorded
<1>3. ChainVerifies /\ Positions /\ Counted /\ InOrder
  BY DEF AuditInv, IInv
<1>4. \A k \in 1 .. n : Recorded[k] = Made[chain[k]] /\ Signers[k] = endorsements[chain[k]]
  BY <1>2 DEF Signers
<1>5. Recorded = [k \in 1 .. n |-> Recorded[k]]
  BY <1>2
<1> HIDE DEF n
<1>6. ASSUME NEW k \in 1 .. n
      PROVE  /\ Records(Recorded[k], Batches[k], Signers[k])
             /\ Signers[k] \in SUBSET Validators
             /\ Recorded[k].index = k - 1 /\ Recorded[k].timestamp # 0
  <2>1. PICK i : i = chain[k]
    OBVIOUS
  <2>2. i \in DOMAIN blocks /\ Batches[k] = blocks[i].txs
    BY <1>1, <2>1
  <2>3. /\ Records(Made[i], blocks[i].txs, endorsements[i])
        /\ Made[i].index = blocks[i].index /\ Made[i].timestamp = blocks[i].hash
    BY <2>2, MadeBlocks
  <2>4. blocks[i].index = k - 1
    BY <1>1, <1>3, <2>1 DEF Positions, Committed
  <2>5. blocks[i].hash # 0
    BY <2>2, SameHash
  <2>6. endorsements[i] \in SUBSET Validators
    BY <2>2, BlocksType DEF AuditInv, IInv
  <2> QED BY <1>4, <2>1, <2>2, <2>3, <2>4, <2>5, <2>6
<1>7. ASSUME NEW k \in 1 .. n
      PROVE  Recorded[k].prev_hash
               = IF k = 1 THEN GENESIS_PREV ELSE Recorded[k - 1].block_hash
  <2>1. PICK i : i = chain[k]
    OBVIOUS
  <2>2. i \in DOMAIN blocks
    BY <1>1, <2>1
  <2>3. Recorded[k].prev_hash = ParentHash(Made, i)
    BY <1>4, <2>1, <2>2, MadeBlocks
  <2>4. CASE k = 1
    <3>1. blocks[i].prev = 0
      BY <1>3, <2>1, <2>4 DEF ChainVerifies, Positions, Genesis
    <3> QED BY <2>3, <2>4, <3>1 DEF ParentHash
  <2>5. CASE k # 1
    <3>1. k \in 2 .. n /\ k - 1 \in 1 .. n
      BY <1>1, <2>5
    <3>2. PICK j : j = chain[k - 1]
      OBVIOUS
    <3>3. j \in DOMAIN blocks /\ Recorded[k - 1] = Made[j]
      BY <1>1, <1>4, <3>1, <3>2
    <3>4. blocks[i].prev = blocks[j].hash
      BY <1>3, <2>1, <3>1, <3>2 DEF ChainVerifies, Committed, n
    <3>5. blocks[j].hash # 0 /\ Made[blocks[j].hash].block_hash = Made[j].block_hash
      BY <3>3, SameHash
    <3>6. ParentHash(Made, i) = Made[j].block_hash
      BY <3>4, <3>5 DEF ParentHash
    <3> QED BY <2>3, <2>5, <3>3, <3>6
  <2> QED BY <2>4, <2>5
<1>8. ASSUME NEW k \in 1 .. n
      PROVE  Distinct(Batches[k]) /\ \A j \in DOMAIN Batches[k] : Batches[k][j].no # 0
  <2>1. PICK t : t = Batches[k]
    OBVIOUS
  <2>2. t \in Seq(Tx) /\ t = Committed(k).txs /\ k \in DOMAIN chain
    BY <1>1, <2>1 DEF Committed
  <2>3. /\ Len(t) \in Nat /\ DOMAIN t = 1 .. Len(t)
        /\ \A j \in 1 .. Len(t) : t[j] \in Tx
    BY <2>2, SeqFacts
  <2>4. Ordered(t) /\ AreQueued(t)
    BY <1>3, <2>2 DEF InOrder, Counted
  <2>5. ASSUME NEW j \in DOMAIN t PROVE t[j].no # 0
    BY <2>4 DEF AreQueued
  <2>6. ASSUME NEW i \in DOMAIN t, NEW j \in DOMAIN t, t[i] = t[j] PROVE i = j
    <3>1. t[i].no \in Nat
      BY <2>3 DEF Tx
    <3>2. ~(i < j) /\ ~(j < i)
      BY <2>4, <2>6, <3>1 DEF Ordered
    <3> QED BY <2>3, <3>2
  <2> QED BY <2>1, <2>5, <2>6 DEF Distinct
<1>9. WellMade(Recorded, n, Batches, Signers)
  BY <1>1, <1>5, <1>6, <1>7 DEF WellMade
<1>10. Audited(Recorded, n, Batches)
  BY <1>1, <1>6, <1>8 DEF Audited
<1>11. ASSUME NEW k \in 2 .. n PROVE Endorsed(Signers[k])
  <2>1. k \in 1 .. n
    BY <1>1
  <2> QED BY <1>3, <1>4, <2>1 DEF ChainVerifies, n
<1> QED BY <1>9, <1>10, <1>11 DEF n

\* The audit of the recorded chain tells the truth.
LEMMA AuditInvTells == AuditInv => AuditTells
<1> SUFFICES ASSUME AuditInv PROVE AuditTells
  OBVIOUS
<1> DEFINE c == Recorded
<1>1. PICK n, E : n = Len(chain) /\ E = Signers
  OBVIOUS
<1>2. /\ WellMade(c, n, Batches, E) /\ Audited(c, n, Batches)
      /\ \A k \in 2 .. n : Endorsed(E[k])
  BY <1>1, RecordedFacts
<1>3. n \in Nat /\ Len(c) = n /\ DOMAIN c = 1 .. n
  BY <1>2, WellMadeLength
<1>4. VerifyChain(c)
  BY <1>2, WellMadeVerifies
<1>5. ASSUME NEW k \in DOMAIN c PROVE VerifyChain(SubSeq(c, 1, k))
  <2>1. k \in 1 .. n /\ \A i \in 2 .. k : i \in 2 .. n
    BY <1>3
  <2>2. WellMade(SubSeq(c, 1, k), k, Batches, E)
    BY <1>2, <2>1, WellMadePrefix
  <2> QED BY <1>2, <2>1, <2>2, WellMadeVerifies
<1>6. \A a \in AlteredChains(c) : ~VerifyChain(a)
  BY <1>2, AlteredChainsTold
<1>7. ASSUME NEW k \in 2 .. Len(c), NEW F \in SUBSET Validators
      PROVE  VerifyChain([c EXCEPT ![k].endorsements =
                            [v \in DOMAIN @ \cap F |-> @[v]]])
               <=> Endorsed(DOMAIN c[k].endorsements \cap F)
  <2>1. k \in 2 .. n /\ k \in 1 .. n
    BY <1>3
  <2>2. PICK D : D = [i \in 1 .. n |-> IF i = k THEN E[i] \cap F ELSE E[i]]
    OBVIOUS
  <2>3. WellMade(Fewer(c, k, F), n, Batches, D)
    BY <1>2, <2>1, <2>2, WellMadeFewer
  <2>4. VerifyChain(Fewer(c, k, F)) <=> \A i \in 2 .. n : Endorsed(D[i])
    BY <2>3, WellMadeVerifies
  <2>5. D[k] = E[k] \cap F /\ \A i \in 2 .. n : i # k => D[i] = E[i]
    BY <1>3, <2>1, <2>2
  <2>6. (\A i \in 2 .. n : Endorsed(D[i])) <=> Endorsed(E[k] \cap F)
    BY <1>2, <2>1, <2>5
  <2>7. DOMAIN c[k].endorsements = E[k]
    BY <1>2, <2>1, RecordedSound DEF WellMade
  <2> QED BY <2>4, <2>6, <2>7 DEF Fewer
<1>8. ASSUME NEW z \in Submitters
      PROVE  Len(Transactions(c, z)) + EventsOf(pending, z)
               + (IF signing[z] THEN 1 ELSE 0) = signed[z]
  <2>1. \A k \in 1 .. n : /\ Batches[k] \in Seq(Tx)
                          /\ c[k].transactions = RecordedTxs(Batches[k])
    BY <1>2 DEF WellMade, Audited, Records, RecordedTxs
  <2>2. Len(Transactions(c, z)) = Cardinality(Places(Batches, n, z))
    BY <1>3, <2>1, TransactionsCounted
  <2>3. Accounted(z)
    BY DEF AuditInv, AccountedFor
  <2> QED BY <1>1, <2>2, <2>3 DEF Accounted, InFlight
<1>9. /\ Statistics(c).chain_valid <=> VerifyChain(c)
      /\ \A z \in Submitters :
           Statistics(c).committed_transactions[z] = Len(Transactions(c, z))
  BY DEF Statistics
<1> QED BY <1>1, <1>4, <1>5, <1>6, <1>7, <1>8, <1>9 DEF AuditTells

\* The audit of every chain the ledger records tells the truth: its statistics account
\* for every event signed, it verifies, and none of its alterations does (verify_chain,
\* transactions, get_statistics).
THEOREM AuditAlwaysTells == Spec => []AuditTells
<1>1. AuditInv => AuditTells
  BY AuditInvTells
<1> QED BY <1>1, AuditInvariant, PTL
=============================================================================

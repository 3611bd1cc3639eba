----------------------- MODULE RouteOptimizerProofs -----------------------
(***************************************************************************)
(* Proofs about RouteOptimizer, for any bins, distances and lists.         *)
(***************************************************************************)
EXTENDS RouteOptimizer, FiniteSetTheorems, WellFoundedInduction, TLAPS

-----------------------------------------------------------------------------
\* A set of numbers has a least element.
LEMMA LeastOf ==
  ASSUME NEW S \in SUBSET Nat, S # {}
  PROVE  \E m \in S : \A n \in S : m <= n
<1>1. PICK x \in S : \A y \in S : ~(<<y, x>> \in OpToRel(<, Nat))
  BY WFMin, NatLessThanWellFounded
<1>2. \A y \in S : x <= y
  <2> SUFFICES ASSUME NEW y \in S PROVE x <= y
    OBVIOUS
  <2>1. x \in Nat /\ y \in Nat /\ <<y, x>> \in Nat \X Nat
    OBVIOUS
  <2>2. ~(y < x)
    BY <1>1, <2>1 DEF OpToRel
  <2> QED BY <2>1, <2>2
<1> QED BY <1>1, <1>2

-----------------------------------------------------------------------------
(***************************************************************************)
(* Ranks: the k-th element of a finite set in an order.                    *)
(***************************************************************************)

\* R orders I totally.
Ordered(I, R) ==
  /\ \A i, j \in I : <<i, j>> \in R \/ <<j, i>> \in R
  /\ \A i, j \in I : <<i, j>> \in R /\ <<j, i>> \in R => i = j
  /\ \A i, j, k \in I : <<i, j>> \in R /\ <<j, k>> \in R => <<i, k>> \in R

\* The elements of I up to i.
Under(I, R, i) == {j \in I : <<j, i>> \in R}

Rank(I, R) == [i \in I |-> Cardinality(Under(I, R, i))]

Nth(I, R) == [k \in 1 .. Cardinality(I) |-> CHOOSE i \in I : Rank(I, R)[i] = k]

\* A later element has more elements up to it.
LEMMA RankGrows ==
  ASSUME NEW I, IsFiniteSet(I), NEW R, Ordered(I, R),
         NEW i \in I, NEW j \in I, i # j, <<i, j>> \in R
  PROVE  Rank(I, R)[i] < Rank(I, R)[j]
<1>1. IsFiniteSet(Under(I, R, i)) /\ IsFiniteSet(Under(I, R, j))
  BY FS_Subset DEF Under
<1>2. j \notin Under(I, R, i) /\ Under(I, R, i) \cup {j} \subseteq Under(I, R, j)
  BY DEF Under, Ordered
<1>3. Cardinality(Under(I, R, i) \cup {j}) = Cardinality(Under(I, R, i)) + 1
  BY <1>1, <1>2, FS_AddElement
<1>4. Cardinality(Under(I, R, i) \cup {j}) <= Cardinality(Under(I, R, j))
  BY <1>1, <1>2, FS_Subset
<1>5. Cardinality(Under(I, R, i)) \in Nat /\ Cardinality(Under(I, R, j)) \in Nat
  BY <1>1, FS_CardinalityType
<1> QED BY <1>3, <1>4, <1>5 DEF Rank

LEMMA RankType ==
  ASSUME NEW I, IsFiniteSet(I), NEW R, Ordered(I, R)
  PROVE  Rank(I, R) \in [I -> 1 .. Cardinality(I)]
<1> SUFFICES ASSUME NEW i \in I
             PROVE  Cardinality(Under(I, R, i)) \in 1 .. Cardinality(I)
  BY DEF Rank
<1>1. i \in Under(I, R, i) /\ Under(I, R, i) \subseteq I
  BY DEF Under, Ordered
<1>2. IsFiniteSet(Under(I, R, i)) /\ Cardinality(Under(I, R, i)) <= Cardinality(I)
  BY <1>1, FS_Subset
<1>3. Cardinality(Under(I, R, i)) \in Nat /\ Cardinality(Under(I, R, i)) # 0
  BY <1>1, <1>2, FS_CardinalityType, FS_EmptySet
<1>4. Cardinality(I) \in Nat
  BY FS_CardinalityType
<1> QED BY <1>2, <1>3, <1>4

\* Every rank is that of one element.
LEMMA RankBijective ==
  ASSUME NEW I, IsFiniteSet(I), NEW R, Ordered(I, R)
  PROVE  /\ \A i, j \in I : Rank(I, R)[i] = Rank(I, R)[j] => i = j
         /\ \A k \in 1 .. Cardinality(I) : \E i \in I : Rank(I, R)[i] = k
<1> DEFINE f == Rank(I, R)
           n == Cardinality(I)
<1>1. f \in [I -> 1 .. n]
  BY RankType
<1>2. \A i, j \in I : f[i] = f[j] => i = j
  <2> SUFFICES ASSUME NEW i \in I, NEW j \in I, f[i] = f[j], i # j PROVE FALSE
    OBVIOUS
  <2>1. <<i, j>> \in R \/ <<j, i>> \in R
    BY DEF Ordered
  <2>2. f[i] < f[j] \/ f[j] < f[i]
    BY <2>1, RankGrows
  <2>3. f[i] \in 1 .. n /\ f[j] \in 1 .. n
    BY <1>1
  <2> HIDE DEF f
  <2>4. f[i] \in Int /\ f[j] \in Int
    BY <2>3
  <2> QED BY <2>2, <2>4
<1>3. n \in Nat /\ IsFiniteSet(1 .. n) /\ Cardinality(1 .. n) = n
  BY FS_CardinalityType, FS_Interval
<1> HIDE DEF f
<1>4. f \in Injection(I, 1 .. n)
  BY <1>1, <1>2 DEF Injection, IsInjective
<1>5. f \in Surjection(I, 1 .. n)
  <2> HIDE DEF n
  <2>1. Cardinality(I) = Cardinality(1 .. n)
    BY <1>3 DEF n
  <2> QED BY <1>3, <1>4, <2>1, FS_Injection
<1>6. \A k \in 1 .. n : \E i \in I : f[i] = k
  BY <1>5 DEF Surjection
<1> QED BY <1>2, <1>6 DEF f

LEMMA NthFacts ==
  ASSUME NEW I, IsFiniteSet(I), NEW R, Ordered(I, R)
  PROVE  LET n == Cardinality(I)
             N == Nth(I, R)
         IN /\ n \in Nat
            /\ N \in [1 .. n -> I]
            /\ \A i \in I : \E k \in 1 .. n : N[k] = i
            /\ \A k \in 1 .. n : Rank(I, R)[N[k]] = k
            /\ \A k, l \in 1 .. n : k < l => <<N[k], N[l]>> \in R
<1> DEFINE n == Cardinality(I)
           N == Nth(I, R)
           f == Rank(I, R)
<1>0. n \in Nat
  BY FS_CardinalityType
<1>1. \A k \in 1 .. n : N[k] \in I /\ f[N[k]] = k
  BY RankBijective DEF Nth
<1>2. N \in [1 .. n -> I]
  BY <1>1 DEF Nth
<1>3. f \in [I -> 1 .. n] /\ \A i, j \in I : f[i] = f[j] => i = j
  BY RankType, RankBijective
<1>4. ASSUME NEW k \in 1 .. n, NEW l \in 1 .. n, k < l
      PROVE  <<N[k], N[l]>> \in R
  <2>1. N[k] \in I /\ N[l] \in I /\ f[N[k]] = k /\ f[N[l]] = l
    BY <1>1
  <2>2. <<N[k], N[l]>> \in R \/ <<N[l], N[k]>> \in R
    BY <2>1 DEF Ordered
  <2>3. N[k] # N[l] /\ ~(l < k)
    BY <1>4, <2>1
  <2> HIDE DEF N, f, n
  <2> QED BY <2>1, <2>2, <2>3, RankGrows DEF f
<1> HIDE DEF N, f
<1>5. \A i \in I : \E k \in 1 .. n : N[k] = i
  <2> SUFFICES ASSUME NEW i \in I PROVE N[f[i]] = i /\ f[i] \in 1 .. n
    OBVIOUS
  <2> QED BY <1>1, <1>3
<1> QED BY <1>0, <1>1, <1>2, <1>4, <1>5 DEF N, f

\* The order of the numbers.
Upward(I) == {p \in I \X I : p[1] <= p[2]}

LEMMA UpwardOrders ==
  ASSUME NEW I \in SUBSET Nat
  PROVE  /\ Ordered(I, Upward(I))
         /\ \A i, j \in I : <<i, j>> \in Upward(I) <=> i <= j
<1>1. \A i, j \in I : <<i, j>> \in Upward(I) <=> i <= j
  BY DEF Upward
<1>2. \A i \in I : i \in Nat
  OBVIOUS
<1> QED BY <1>1, <1>2 DEF Ordered

\* The elements of a list at some indices are those elements, in their order.
LEMMA AtFacts ==
  ASSUME NEW S, NEW s \in Seq(S), NEW I \in SUBSET DOMAIN s
  PROVE  /\ At(s, I) \in Seq(S) /\ Listed(At(s, I)) = {s[i] : i \in I}
         /\ Len(At(s, I)) = Cardinality(I) /\ Cardinality(I) \in Nat
         /\ \A k, l \in 1 .. Cardinality(I) :
              k < l => \E i, j \in I : i < j /\ At(s, I)[k] = s[i] /\ At(s, I)[l] = s[j]
<1> DEFINE n == Cardinality(I)
           N == Nth(I, Upward(I))
<1>1. DOMAIN s = 1 .. Len(s) /\ Len(s) \in Nat
  OBVIOUS
<1>2. IsFiniteSet(I) /\ I \in SUBSET Nat
  <2>1. IsFiniteSet(1 .. Len(s))
    BY <1>1, FS_Interval
  <2>2. I \in SUBSET (1 .. Len(s)) /\ 1 .. Len(s) \subseteq Nat
    BY <1>1
  <2> QED BY <2>1, <2>2, FS_Subset
<1> DEFINE r == Rank(I, Upward(I))
           nth(k) == CHOOSE i \in I : Cardinality({j \in I : j <= i}) = k
<1>3. Ordered(I, Upward(I)) /\ \A i, j \in I : <<i, j>> \in Upward(I) <=> i <= j
  BY <1>2, UpwardOrders
<1>4. \A i \in I : r[i] = Cardinality({j \in I : j <= i})
  <2> SUFFICES ASSUME NEW i \in I PROVE r[i] = Cardinality({j \in I : j <= i})
    OBVIOUS
  <2>1. Under(I, Upward(I), i) = {j \in I : j <= i}
    BY <1>3 DEF Under
  <2> QED BY <2>1 DEF Rank
<1>5. /\ n \in Nat /\ N \in [1 .. n -> I]
      /\ \A i \in I : \E k \in 1 .. n : N[k] = i
      /\ \A k \in 1 .. n : r[N[k]] = k
      /\ \A k, l \in 1 .. n : k < l => <<N[k], N[l]>> \in Upward(I)
  BY <1>2, <1>3, NthFacts
<1>6. \A i, j \in I : r[i] = r[j] => i = j
  BY <1>2, <1>3, RankBijective
<1> HIDE DEF N, n, r
<1>7. ASSUME NEW k \in 1 .. n PROVE nth(k) = N[k]
  <2>1. N[k] \in I /\ Cardinality({j \in I : j <= N[k]}) = k
    BY <1>4, <1>5
  <2>2. nth(k) \in I /\ Cardinality({j \in I : j <= nth(k)}) = k
    BY <2>1
  <2> HIDE DEF nth
  <2>3. r[nth(k)] = r[N[k]]
    BY <1>4, <2>1, <2>2
  <2> QED BY <1>6, <2>1, <2>2, <2>3
<1>8. At(s, I) = [k \in 1 .. n |-> s[nth(k)]]
  BY DEF At, n
<1> HIDE DEF nth
<1>9. \A k \in 1 .. n : At(s, I)[k] = s[N[k]]
  BY <1>7, <1>8
<1>10. At(s, I) \in [1 .. n -> S]
  BY <1>1, <1>5, <1>7, <1>8
<1>11. At(s, I) \in Seq(S) /\ Len(At(s, I)) = n /\ DOMAIN At(s, I) = 1 .. n
  BY <1>5, <1>10
<1>12. Listed(At(s, I)) = {s[i] : i \in I}
  <2>1. ASSUME NEW k \in 1 .. n PROVE At(s, I)[k] \in {s[i] : i \in I}
    BY <1>5, <1>9
  <2>2. ASSUME NEW i \in I PROVE \E k \in 1 .. n : At(s, I)[k] = s[i]
    BY <1>5, <1>9
  <2> QED BY <1>11, <2>1, <2>2 DEF Listed
<1>13. ASSUME NEW k \in 1 .. n, NEW l \in 1 .. n, k < l
       PROVE  \E i, j \in I : i < j /\ At(s, I)[k] = s[i] /\ At(s, I)[l] = s[j]
  <2>1. N[k] \in I /\ N[l] \in I
    BY <1>5
  <2>2. <<N[k], N[l]>> \in Upward(I)
    BY <1>5, <1>13
  <2>3. N[k] <= N[l]
    BY <1>3, <2>1, <2>2
  <2>4. N[k] # N[l]
    <3>1. k # l
      BY <1>5, <1>13
    <3> QED BY <1>5, <3>1
  <2>5. N[k] < N[l]
    BY <1>2, <2>1, <2>3, <2>4
  <2> QED BY <1>9, <2>1, <2>5
<1> QED BY <1>5, <1>11, <1>12, <1>13 DEF n

LEMMA ListedAppend ==
  ASSUME NEW S, NEW s \in Seq(S), NEW e \in S
  PROVE  Listed(Append(s, e)) = Listed(s) \cup {e} /\ Append(s, e) \in Seq(S)
<1>1. Len(s) \in Nat /\ DOMAIN s = 1 .. Len(s)
  OBVIOUS
<1>2. DOMAIN Append(s, e) = (DOMAIN s) \cup {Len(s) + 1}
  BY <1>1
<1>3. \A i \in DOMAIN s : Append(s, e)[i] = s[i]
  BY <1>1
<1>4. Append(s, e)[Len(s) + 1] = e
  BY <1>1
<1>5. Append(s, e) \in Seq(S)
  OBVIOUS
<1> QED BY <1>2, <1>3, <1>4, <1>5 DEF Listed

LEMMA ListedType ==
  ASSUME NEW S, NEW s \in Seq(S)
  PROVE  Listed(s) \subseteq S
  BY DEF Listed

\* The bins that overflow.
LEMMA OverflowingFacts ==
  ASSUME NEW s \in Seq(Bins)
  PROVE  /\ Where(s, IsOverflowing) \in Seq(Bins)
         /\ Listed(Where(s, IsOverflowing)) =
              {b \in Listed(s) : IsOverflowing(fill_level[b])}
<1> DEFINE I == {i \in DOMAIN s : IsOverflowing(fill_level[s[i]])}
<1>1. Where(s, IsOverflowing) = At(s, I)
  BY DEF Where
<1>2. At(s, I) \in Seq(Bins) /\ Listed(At(s, I)) = {s[i] : i \in I}
  BY AtFacts
<1>3. {s[i] : i \in I} = {b \in Listed(s) : IsOverflowing(fill_level[b])}
  BY DEF Listed
<1> QED BY <1>1, <1>2, <1>3

\* The candidates of a replanning.
LEMMA MergedFacts ==
  ASSUME NEW s \in Seq(Bins), NEW b \in Bins
  PROVE  Merged(s, b) \in Seq(Bins) /\ Listed(Merged(s, b)) = Listed(s) \cup {b}
<1> DEFINE I == {i \in DOMAIN s : \A j \in 1 .. i - 1 : s[j] # s[i]}
           once == At(s, I)
<1>1. once \in Seq(Bins) /\ Listed(once) = {s[i] : i \in I}
  BY AtFacts
<1>2. {s[i] : i \in I} = Listed(s)
  <2> SUFFICES ASSUME NEW k \in DOMAIN s PROVE s[k] \in {s[i] : i \in I}
    BY DEF Listed
  <2> DEFINE same == {i \in DOMAIN s : s[i] = s[k]}
  <2>1. DOMAIN s = 1 .. Len(s) /\ Len(s) \in Nat
    OBVIOUS
  <2>2. same \in SUBSET Nat /\ same # {}
    BY <2>1
  <2>3. PICK i \in same : \A n \in same : i <= n
    <3> HIDE DEF same
    <3> QED BY <2>2, LeastOf
  <2>4. \A j \in 1 .. i - 1 : s[j] # s[i]
    BY <2>1, <2>3
  <2> QED BY <2>3, <2>4
<1> HIDE DEF I
<1>3. Merged(s, b) = IF b \in Listed(s) THEN once ELSE Append(once, b)
  BY DEF Merged, I
<1> HIDE DEF once
<1> QED BY <1>1, <1>2, <1>3, ListedAppend

-----------------------------------------------------------------------------
(***************************************************************************)
(* The bins in the order of their fill levels.                             *)
(***************************************************************************)

\* The fill levels of the list never rise.
Falling(s) == \A i, j \in DOMAIN s : i < j => fill_level[s[i]] >= fill_level[s[j]]

\* The indices of the bins of T.
Picks(s, T) == {i \in DOMAIN s : s[i] \in T}

LEMMA ScoreFollowsLevel ==
  ASSUME NEW f \in Nat, NEW g \in Nat
  PROVE  Score(f) \in Nat /\ (Score(f) >= Score(g) => f >= g)
<1>1. /\ Score(f) = IF f >= 90 THEN 300 + f
                    ELSE IF f >= 80 THEN 200 + f ELSE IF f >= 60 THEN 150 + f ELSE 100 + f
      /\ Score(g) = IF g >= 90 THEN 300 + g
                    ELSE IF g >= 80 THEN 200 + g ELSE IF g >= 60 THEN 150 + g ELSE 100 + g
  BY DEF Score, Priority, priority_weights, CRITICAL_THRESHOLD, HIGH_THRESHOLD,
     MEDIUM_THRESHOLD
<1> QED BY <1>1

\* What overflows is what is routable.
LEMMA TiersAgree ==
  ASSUME NEW f \in Nat
  PROVE  /\ IsRoutable(f) <=> IsOverflowing(f)
         /\ IsOverflowing(f) <=> f >= 80
         /\ IsMedium(f) <=> f >= 60 /\ f < 80
         /\ Priority(f) = "high" \/ Priority(f) = "critical" <=> f >= 80
  BY DEF IsRoutable, IsOverflowing, IsMedium, ROUTABLE_PRIORITIES, overflow_threshold,
     Priority, CRITICAL_THRESHOLD, HIGH_THRESHOLD, MEDIUM_THRESHOLD

\* sort_bins_by_priority compares any two bins of a list.
Ranking(s) == {p \in (DOMAIN s) \X (DOMAIN s) : Before(s, p[1], p[2])}

LEMMA RankingOrders ==
  ASSUME fill_level \in [Bins -> Nat], NEW s \in Seq(Bins)
  PROVE  /\ Ordered(DOMAIN s, Ranking(s))
         /\ \A i, j \in DOMAIN s : <<i, j>> \in Ranking(s) <=> Before(s, i, j)
         /\ \A i, j \in DOMAIN s :
              Before(s, i, j) => fill_level[s[i]] >= fill_level[s[j]]
<1> DEFINE score(i) == Score(fill_level[s[i]])
<1>1. \A i \in DOMAIN s : fill_level[s[i]] \in Nat /\ i \in Nat
  OBVIOUS
<1>2. \A i \in DOMAIN s : score(i) \in Nat
  BY <1>1, ScoreFollowsLevel
<1>3. \A i, j \in DOMAIN s :
        Before(s, i, j) <=> score(i) > score(j) \/ (score(i) = score(j) /\ i <= j)
  BY DEF Before
<1>4. \A i, j \in DOMAIN s : <<i, j>> \in Ranking(s) <=> Before(s, i, j)
  BY DEF Ranking
<1>5. ASSUME NEW i \in DOMAIN s, NEW j \in DOMAIN s, Before(s, i, j)
      PROVE  fill_level[s[i]] >= fill_level[s[j]]
  <2>1. score(i) >= score(j)
    <3> HIDE DEF score
    <3> QED BY <1>2, <1>3, <1>5
  <2> QED BY <1>1, <2>1, ScoreFollowsLevel
<1> HIDE DEF score
<1>6. Ordered(DOMAIN s, Ranking(s))
  <2>1. \A i, j \in DOMAIN s : Before(s, i, j) \/ Before(s, j, i)
    BY <1>1, <1>2, <1>3
  <2>2. \A i, j \in DOMAIN s : Before(s, i, j) /\ Before(s, j, i) => i = j
    BY <1>1, <1>2, <1>3
  <2>3. ASSUME NEW i \in DOMAIN s, NEW j \in DOMAIN s, NEW k \in DOMAIN s,
               Before(s, i, j), Before(s, j, k)
        PROVE  Before(s, i, k)
    <3>1. /\ i \in Nat /\ j \in Nat /\ k \in Nat
          /\ score(i) \in Nat /\ score(j) \in Nat /\ score(k) \in Nat
      BY <1>1, <1>2
    <3>2. /\ score(i) > score(j) \/ (score(i) = score(j) /\ i <= j)
          /\ score(j) > score(k) \/ (score(j) = score(k) /\ j <= k)
      BY <1>3, <2>3
    <3>3. score(i) > score(k) \/ (score(i) = score(k) /\ i <= k)
      BY <3>1, <3>2
    <3> QED BY <1>3, <3>3
  <2> QED BY <1>4, <2>1, <2>2, <2>3 DEF Ordered
<1> QED BY <1>4, <1>5, <1>6

\* Sorting reorders the list, so that its levels never rise.
LEMMA SortedFacts ==
  ASSUME fill_level \in [Bins -> Nat], NEW s \in Seq(Bins)
  PROVE  /\ Sorted(s) \in Seq(Bins) /\ Len(Sorted(s)) = Len(s)
         /\ Listed(Sorted(s)) = Listed(s) /\ Falling(Sorted(s))
         /\ \A T : Cardinality(Picks(Sorted(s), T)) = Cardinality(Picks(s, T))
<1> DEFINE I == DOMAIN s
           R == Ranking(s)
           n == Len(s)
           N == Nth(I, R)
           r == Rank(I, R)
           rk(i) == Cardinality({j \in I : Before(s, j, i)})
           nth(k) == CHOOSE i \in I : rk(i) = k
<1>1. I = 1 .. n /\ n \in Nat
  OBVIOUS
<1>2. IsFiniteSet(I) /\ Cardinality(I) = n
  <2>1. IsFiniteSet(1 .. n) /\ Cardinality(1 .. n) = n
    <3> HIDE DEF n
    <3> QED BY <1>1, FS_Interval
  <2> QED BY <1>1, <2>1
<1>3. /\ Ordered(I, R)
      /\ \A i, j \in I : <<i, j>> \in R <=> Before(s, i, j)
      /\ \A i, j \in I : Before(s, i, j) => fill_level[s[i]] >= fill_level[s[j]]
  BY RankingOrders
<1>4. \A i \in I : r[i] = rk(i)
  <2> SUFFICES ASSUME NEW i \in I PROVE r[i] = rk(i)
    OBVIOUS
  <2>1. Under(I, R, i) = {j \in I : Before(s, j, i)}
    BY <1>3 DEF Under
  <2> QED BY <2>1 DEF Rank
<1>5. /\ N \in [1 .. n -> I]
      /\ \A i \in I : \E k \in 1 .. n : N[k] = i
      /\ \A k \in 1 .. n : r[N[k]] = k
      /\ \A k, l \in 1 .. n : k < l => <<N[k], N[l]>> \in R
  <2> DEFINE m == Cardinality(I)
  <2>1. /\ N \in [1 .. m -> I]
        /\ \A i \in I : \E k \in 1 .. m : N[k] = i
        /\ \A k \in 1 .. m : r[N[k]] = k
        /\ \A k, l \in 1 .. m : k < l => <<N[k], N[l]>> \in R
    BY <1>2, <1>3, NthFacts
  <2>2. m = n
    BY <1>2
  <2> HIDE DEF m, n, N, r, R
  <2> QED BY <2>1, <2>2
<1>6. \A i, j \in I : r[i] = r[j] => i = j
  BY <1>2, <1>3, RankBijective
<1>7. Sorted(s) = [k \in I |-> s[nth(k)]]
  BY DEF Sorted
<1> HIDE DEF N, r, R, rk
<1>8. ASSUME NEW k \in I PROVE nth(k) = N[k]
  <2>1. N[k] \in I /\ rk(N[k]) = k
    BY <1>1, <1>4, <1>5
  <2>2. nth(k) \in I /\ rk(nth(k)) = k
    BY <2>1
  <2> HIDE DEF nth
  <2>3. r[nth(k)] = r[N[k]]
    BY <1>4, <2>1, <2>2
  <2> QED BY <1>6, <2>1, <2>2, <2>3
<1> HIDE DEF nth, I, n
<1>9. \A k \in I : Sorted(s)[k] = s[N[k]] /\ s[N[k]] \in Bins
  <2>1. \A k \in I : N[k] \in I
    BY <1>1, <1>5
  <2>2. \A k \in I : s[N[k]] \in Bins
    BY <2>1 DEF I
  <2> QED BY <1>7, <1>8, <2>2
<1>10. Sorted(s) \in [1 .. n -> Bins]
  BY <1>1, <1>7, <1>8, <1>9
<1>11. Sorted(s) \in Seq(Bins) /\ Len(Sorted(s)) = n /\ DOMAIN Sorted(s) = I
  BY <1>1, <1>10
<1>12. Listed(Sorted(s)) = Listed(s)
  <2>1. \A k \in I : \E i \in I : Sorted(s)[k] = s[i]
    BY <1>1, <1>5, <1>9
  <2>2. \A i \in I : \E k \in I : Sorted(s)[k] = s[i]
    BY <1>1, <1>5, <1>9
  <2>3. Listed(Sorted(s)) = {Sorted(s)[k] : k \in I} /\ Listed(s) = {s[i] : i \in I}
    BY <1>11 DEF Listed, I
  <2> QED BY <2>1, <2>2, <2>3
<1>13. Falling(Sorted(s))
  <2> SUFFICES ASSUME NEW k \in I, NEW l \in I, k < l
               PROVE  fill_level[Sorted(s)[k]] >= fill_level[Sorted(s)[l]]
    BY <1>11 DEF Falling
  <2>1. N[k] \in I /\ N[l] \in I /\ <<N[k], N[l]>> \in R
    BY <1>1, <1>5
  <2> QED BY <1>3, <1>9, <2>1
<1>14. ASSUME NEW T PROVE Cardinality(Picks(Sorted(s), T)) = Cardinality(Picks(s, T))
  <2> DEFINE A == Picks(Sorted(s), T)
             B == Picks(s, T)
             f == [k \in A |-> N[k]]
  <2>1. A = {k \in I : s[N[k]] \in T} /\ B = {i \in I : s[i] \in T}
    BY <1>9, <1>11 DEF Picks, I
  <2>2. IsFiniteSet(A)
    BY <1>2, <2>1, FS_Subset
  <2> HIDE DEF A, B
  <2>3. f \in [A -> B]
    BY <1>1, <1>5, <2>1
  <2>4. \A j, k \in A : f[j] = f[k] => j = k
    BY <1>1, <1>5, <2>1
  <2>5. \A i \in B : \E k \in A : f[k] = i
    BY <1>1, <1>5, <2>1
  <2> HIDE DEF f
  <2>6. f \in Bijection(A, B)
    BY <2>3, <2>4, <2>5 DEF Bijection, Injection, Surjection, IsInjective
  <2>7. Cardinality(B) = Cardinality(A)
    BY <2>2, <2>6, FS_Bijection DEF ExistsBijection
  <2> QED BY <2>7 DEF A, B
<1> QED BY <1>11, <1>12, <1>13, <1>14 DEF n

\* The bins that overflow, and the Medium ones.
Overflowing == {b \in Bins : IsOverflowing(fill_level[b])}
Mediums == {b \in Bins : IsMedium(fill_level[b])}

\* What a filter keeps.
LEMMA PickFacts ==
  ASSUME NEW s \in Seq(Bins), NEW T
  PROVE  LET W == At(s, Picks(s, T))
         IN /\ W \in Seq(Bins) /\ Listed(W) = Listed(s) \cap T
            /\ Len(W) = Cardinality(Picks(s, T))
            /\ Falling(s) => Falling(W)
<1> DEFINE I == Picks(s, T)
           W == At(s, I)
<1>1. I \in SUBSET DOMAIN s /\ {s[i] : i \in I} = Listed(s) \cap T
  BY DEF Picks, Listed
<1> HIDE DEF I
<1>2. /\ W \in Seq(Bins) /\ Listed(W) = {s[i] : i \in I}
      /\ Len(W) = Cardinality(I) /\ Cardinality(I) \in Nat
      /\ \A k, l \in 1 .. Cardinality(I) :
           k < l => \E i, j \in I : i < j /\ W[k] = s[i] /\ W[l] = s[j]
  BY <1>1, AtFacts
<1> HIDE DEF W
<1>3. ASSUME Falling(s), NEW k \in DOMAIN W, NEW l \in DOMAIN W, k < l
      PROVE  fill_level[W[k]] >= fill_level[W[l]]
  <2>1. k \in 1 .. Cardinality(I) /\ l \in 1 .. Cardinality(I)
    BY <1>2
  <2>2. PICK i \in I, j \in I : i < j /\ W[k] = s[i] /\ W[l] = s[j]
    BY <1>2, <1>3, <2>1
  <2> QED BY <1>1, <1>3, <2>2 DEF Falling
<1>4. Falling(s) => Falling(W)
  BY <1>3 DEF Falling
<1> QED BY <1>1, <1>2, <1>4 DEF W, I

LEMMA WherePicks ==
  ASSUME fill_level \in [Bins -> Nat], NEW s \in Seq(Bins)
  PROVE  /\ Where(s, IsOverflowing) = At(s, Picks(s, Overflowing))
         /\ Where(s, IsRoutable) = At(s, Picks(s, Overflowing))
         /\ Where(s, IsMedium) = At(s, Picks(s, Mediums))
<1>1. \A i \in DOMAIN s : s[i] \in Bins /\ fill_level[s[i]] \in Nat
  OBVIOUS
<1>2. {i \in DOMAIN s : IsOverflowing(fill_level[s[i]])} = Picks(s, Overflowing)
  BY <1>1 DEF Picks, Overflowing
<1>3. {i \in DOMAIN s : IsRoutable(fill_level[s[i]])} = Picks(s, Overflowing)
  <2>1. \A i \in DOMAIN s : IsRoutable(fill_level[s[i]]) <=> IsOverflowing(fill_level[s[i]])
    BY <1>1, TiersAgree
  <2> QED BY <1>2, <2>1
<1>4. {i \in DOMAIN s : IsMedium(fill_level[s[i]])} = Picks(s, Mediums)
  BY <1>1 DEF Picks, Mediums
<1> QED BY <1>2, <1>3, <1>4 DEF Where

\* The numbers filter_by_priority compares.
LEMMA TierIndex ==
  ASSUME NEW t \in Tiers
  PROVE  (CHOOSE i \in DOMAIN PRIORITY_ORDER : PRIORITY_ORDER[i] = t) =
           (IF t = "low" THEN 1 ELSE IF t = "medium" THEN 2
            ELSE IF t = "high" THEN 3 ELSE 4)
<1>1. /\ DOMAIN PRIORITY_ORDER = {1, 2, 3, 4}
      /\ PRIORITY_ORDER[1] = "low" /\ PRIORITY_ORDER[2] = "medium"
      /\ PRIORITY_ORDER[3] = "high" /\ PRIORITY_ORDER[4] = "critical"
  BY DEF PRIORITY_ORDER
<1>2. t \in {"low", "medium", "high", "critical"}
  BY <1>1 DEF Tiers
<1> HIDE DEF PRIORITY_ORDER
<1> QED BY <1>1, <1>2

LEMMA AtOrAboveFacts ==
  ASSUME fill_level \in [Bins -> Nat], NEW s \in Seq(Bins)
  PROVE  /\ AtOrAbove(s, "high") = Where(s, IsOverflowing)
         /\ AtOrAbove(s, "medium") = Where(s, LAMBDA f : IsMedium(f) \/ IsRoutable(f))
<1> DEFINE Index(t) == CHOOSE i \in DOMAIN PRIORITY_ORDER : PRIORITY_ORDER[i] = t
           level(i) == fill_level[s[i]]
<1>1. \A i \in DOMAIN s : level(i) \in Nat
  OBVIOUS
<1>2. /\ "low" \in Tiers /\ "medium" \in Tiers /\ "high" \in Tiers /\ "critical" \in Tiers
  <2>1. /\ 1 \in DOMAIN PRIORITY_ORDER /\ 2 \in DOMAIN PRIORITY_ORDER
        /\ 3 \in DOMAIN PRIORITY_ORDER /\ 4 \in DOMAIN PRIORITY_ORDER
        /\ PRIORITY_ORDER[1] = "low" /\ PRIORITY_ORDER[2] = "medium"
        /\ PRIORITY_ORDER[3] = "high" /\ PRIORITY_ORDER[4] = "critical"
    BY DEF PRIORITY_ORDER
  <2> QED BY <2>1 DEF Tiers
<1>3. /\ Index("low") = 1 /\ Index("medium") = 2 /\ Index("high") = 3
      /\ Index("critical") = 4
  BY <1>2, TierIndex
<1> HIDE DEF Index
<1>4. ASSUME NEW i \in DOMAIN s
      PROVE  /\ Index(Priority(level(i))) >= Index("high") <=> IsOverflowing(level(i))
             /\ Index(Priority(level(i))) >= Index("medium")
                  <=> IsMedium(level(i)) \/ IsRoutable(level(i))
  <2>1. PICK f \in Nat : f = level(i)
    BY <1>1
  <2>2. Priority(f) = IF f >= 90 THEN "critical" ELSE IF f >= 80 THEN "high"
                      ELSE IF f >= 60 THEN "medium" ELSE "low"
    BY DEF Priority, CRITICAL_THRESHOLD, HIGH_THRESHOLD, MEDIUM_THRESHOLD
  <2>3. Index(Priority(f)) = IF f >= 90 THEN 4 ELSE IF f >= 80 THEN 3
                             ELSE IF f >= 60 THEN 2 ELSE 1
    BY <1>3, <2>2
  <2>4. /\ Index(Priority(f)) >= Index("high") <=> f >= 80
        /\ Index(Priority(f)) >= Index("medium") <=> f >= 60
    BY <1>3, <2>3
  <2>5. /\ IsOverflowing(f) <=> f >= 80
        /\ IsMedium(f) \/ IsRoutable(f) <=> f >= 60
    BY TiersAgree
  <2> HIDE DEF level
  <2> QED BY <2>1, <2>4, <2>5
<1>5. AtOrAbove(s, "high") =
        At(s, {i \in DOMAIN s : Index(Priority(level(i))) >= Index("high")})
  BY DEF AtOrAbove, Index
<1>6. AtOrAbove(s, "medium") =
        At(s, {i \in DOMAIN s : Index(Priority(level(i))) >= Index("medium")})
  BY DEF AtOrAbove, Index
<1>7. {i \in DOMAIN s : Index(Priority(level(i))) >= Index("high")} =
      {i \in DOMAIN s : IsOverflowing(level(i))}
  BY <1>4
<1>8. {i \in DOMAIN s : Index(Priority(level(i))) >= Index("medium")} =
      {i \in DOMAIN s : IsMedium(level(i)) \/ IsRoutable(level(i))}
  BY <1>4
<1>9. Where(s, IsOverflowing) = At(s, {i \in DOMAIN s : IsOverflowing(level(i))})
  BY DEF Where
<1>10. Where(s, LAMBDA f : IsMedium(f) \/ IsRoutable(f)) =
       At(s, {i \in DOMAIN s : IsMedium(level(i)) \/ IsRoutable(level(i))})
  BY DEF Where
<1> HIDE DEF level
<1> QED BY <1>5, <1>6, <1>7, <1>8, <1>9, <1>10

\* get_priority_distribution counts the overflowing bins.
LEMMA DistributionFacts ==
  ASSUME fill_level \in [Bins -> Nat], NEW s \in Seq(Bins)
  PROVE  Distribution(s)["high"] + Distribution(s)["critical"] =
           Cardinality(Picks(s, Overflowing))
<1> DEFINE Of(t) == {i \in DOMAIN s : Priority(fill_level[s[i]]) = t}
<1>1. "high" \in Tiers /\ "critical" \in Tiers
  <2>1. /\ 3 \in DOMAIN PRIORITY_ORDER /\ 4 \in DOMAIN PRIORITY_ORDER
        /\ PRIORITY_ORDER[3] = "high" /\ PRIORITY_ORDER[4] = "critical"
    BY DEF PRIORITY_ORDER
  <2> QED BY <2>1 DEF Tiers
<1>2. /\ Distribution(s)["high"] = Cardinality(Of("high"))
      /\ Distribution(s)["critical"] = Cardinality(Of("critical"))
  BY <1>1 DEF Distribution
<1>3. \A i \in DOMAIN s : s[i] \in Bins /\ fill_level[s[i]] \in Nat
  OBVIOUS
<1>4. /\ Of("high") \cup Of("critical") = Picks(s, Overflowing)
      /\ Of("high") \cap Of("critical") = {}
  <2>1. \A i \in DOMAIN s : /\ i \in Of("high") \/ i \in Of("critical")
                                 <=> IsOverflowing(fill_level[s[i]])
                            /\ ~(i \in Of("high") /\ i \in Of("critical"))
    BY <1>3, TiersAgree
  <2>2. Picks(s, Overflowing) = {i \in DOMAIN s : IsOverflowing(fill_level[s[i]])}
    BY <1>3 DEF Picks, Overflowing
  <2>3. Of("high") \subseteq DOMAIN s /\ Of("critical") \subseteq DOMAIN s
    OBVIOUS
  <2> HIDE DEF Of
  <2> QED BY <2>1, <2>2, <2>3
<1>5. IsFiniteSet(Of("high")) /\ IsFiniteSet(Of("critical"))
  <2>1. DOMAIN s = 1 .. Len(s) /\ Len(s) \in Nat
    OBVIOUS
  <2>2. IsFiniteSet(DOMAIN s)
    BY <2>1, FS_Interval
  <2>3. Of("high") \subseteq DOMAIN s /\ Of("critical") \subseteq DOMAIN s
    OBVIOUS
  <2> HIDE DEF Of
  <2> QED BY <2>2, <2>3, FS_Subset
<1> HIDE DEF Of
<1>6. Cardinality(Of("high") \cup Of("critical")) =
        Cardinality(Of("high")) + Cardinality(Of("critical")) - Cardinality({})
  BY <1>4, <1>5, FS_Union
<1>7. /\ Cardinality({}) = 0
      /\ Cardinality(Of("high")) \in Nat /\ Cardinality(Of("critical")) \in Nat
  BY <1>5, FS_CardinalityType, FS_EmptySet
<1>8. Cardinality(Of("high") \cup Of("critical")) =
        Cardinality(Of("high")) + Cardinality(Of("critical"))
  BY <1>6, <1>7
<1> QED BY <1>2, <1>4, <1>8

\* get_routable_bins gives the overflowing bins and then Medium ones, fullest first.
LEMMA RoutableFacts ==
  ASSUME fill_level \in [Bins -> Nat], NEW s \in Seq(Bins), NEW n \in Nat
  PROVE  LET full == Where(s, IsOverflowing)
             medium == Where(s, IsMedium)
             r == RoutableBins(s, n)
             head == SubSeq(r, 1, Len(full))
             tail == SubSeq(r, Len(full) + 1, Len(r))
         IN /\ Listed(head) = Listed(full) /\ Falling(head)
            /\ Listed(tail) \subseteq Listed(medium) /\ Falling(tail)
            /\ Len(tail) = (IF n < Len(medium) THEN n ELSE Len(medium))
            /\ \A b \in Listed(medium) \ Listed(tail), c \in Listed(tail) :
                 fill_level[b] <= fill_level[c]
<1> DEFINE full == Where(s, IsOverflowing)
           medium == Where(s, IsMedium)
           t == Sorted(s)
           first == Where(t, IsRoutable)
           rest == Where(t, IsMedium)
           m == IF n < Len(medium) THEN n ELSE Len(medium)
           deferred == SubSeq(rest, 1, m)
           r == RoutableBins(s, n)
           head == SubSeq(r, 1, Len(full))
           tail == SubSeq(r, Len(full) + 1, Len(r))
<1>1. /\ t \in Seq(Bins) /\ Listed(t) = Listed(s) /\ Falling(t)
      /\ Cardinality(Picks(t, Overflowing)) = Cardinality(Picks(s, Overflowing))
      /\ Cardinality(Picks(t, Mediums)) = Cardinality(Picks(s, Mediums))
  BY SortedFacts
<1>2. /\ full = At(s, Picks(s, Overflowing)) /\ medium = At(s, Picks(s, Mediums))
      /\ first = At(t, Picks(t, Overflowing)) /\ rest = At(t, Picks(t, Mediums))
  <2> HIDE DEF t
  <2> QED BY <1>1, WherePicks
<1>3. /\ full \in Seq(Bins) /\ Listed(full) = Listed(s) \cap Overflowing
      /\ Len(full) = Cardinality(Picks(s, Overflowing))
  <2> HIDE DEF full
  <2> QED BY <1>2, PickFacts
<1>4. /\ medium \in Seq(Bins) /\ Listed(medium) = Listed(s) \cap Mediums
      /\ Len(medium) = Cardinality(Picks(s, Mediums))
  <2> HIDE DEF medium
  <2> QED BY <1>2, PickFacts
<1>5. /\ first \in Seq(Bins) /\ Listed(first) = Listed(t) \cap Overflowing
      /\ Len(first) = Cardinality(Picks(t, Overflowing)) /\ Falling(first)
  <2> HIDE DEF first, t
  <2> QED BY <1>1, <1>2, PickFacts
<1>6. /\ rest \in Seq(Bins) /\ Listed(rest) = Listed(t) \cap Mediums
      /\ Len(rest) = Cardinality(Picks(t, Mediums)) /\ Falling(rest)
  <2> HIDE DEF rest, t
  <2> QED BY <1>1, <1>2, PickFacts
<1>7. /\ Listed(first) = Listed(full) /\ Len(first) = Len(full)
      /\ Listed(rest) = Listed(medium) /\ Len(rest) = Len(medium)
  BY <1>1, <1>3, <1>4, <1>5, <1>6
<1>8. r = first \o deferred
  <2>1. Deferred(t, n) = SubSeq(rest, 1, IF n < Len(rest) THEN n ELSE Len(rest))
    BY DEF Deferred
  <2>2. Deferred(t, n) = deferred
    BY <1>7, <2>1
  <2> QED BY <2>2 DEF RoutableBins
<1> HIDE DEF full, medium, t, first, rest, r
<1>9. m \in Nat /\ m <= Len(rest)
  BY <1>4, <1>7
<1> HIDE DEF m
<1>10. /\ deferred \in Seq(Bins) /\ Len(deferred) = m
       /\ \A i \in 1 .. m : deferred[i] = rest[i]
  BY <1>6, <1>9
<1> HIDE DEF deferred
<1>11. head = first
  BY <1>3, <1>5, <1>7, <1>8, <1>10
<1>12. tail = deferred
  BY <1>3, <1>5, <1>7, <1>8, <1>10
<1> HIDE DEF head, tail
<1>13. DOMAIN rest = 1 .. Len(rest) /\ DOMAIN deferred = 1 .. m /\ Len(rest) \in Nat
  BY <1>6, <1>10
<1>14. Listed(deferred) \subseteq Listed(rest) /\ Falling(deferred)
  <2>1. \A i \in 1 .. m : i \in 1 .. Len(rest)
    BY <1>9, <1>13
  <2>2. Listed(deferred) \subseteq Listed(rest)
    BY <1>10, <1>13, <2>1 DEF Listed
  <2>3. Falling(deferred)
    BY <1>6, <1>10, <1>13, <2>1 DEF Falling
  <2> QED BY <2>2, <2>3
<1>15. ASSUME NEW b \in Listed(rest) \ Listed(deferred), NEW c \in Listed(deferred)
       PROVE  fill_level[b] <= fill_level[c]
  <2>1. PICK j \in 1 .. Len(rest) : b = rest[j]
    BY <1>13 DEF Listed
  <2>2. PICK i \in 1 .. m : c = deferred[i]
    BY <1>13 DEF Listed
  <2>3. j \notin 1 .. m
    BY <1>10, <1>13, <1>15, <2>1 DEF Listed
  <2>4. i < j /\ i \in DOMAIN rest /\ j \in DOMAIN rest
    BY <1>9, <1>13, <2>1, <2>2, <2>3
  <2>5. fill_level[rest[i]] >= fill_level[rest[j]]
    BY <1>6, <2>4 DEF Falling
  <2>6. rest[i] \in Bins /\ rest[j] \in Bins
    BY <1>6, <2>4
  <2> QED BY <1>10, <2>1, <2>2, <2>5, <2>6
<1>16. /\ Listed(head) = Listed(full) /\ Falling(head)
       /\ Listed(tail) \subseteq Listed(medium) /\ Falling(tail) /\ Len(tail) = m
       /\ \A b \in Listed(medium) \ Listed(tail), c \in Listed(tail) :
            fill_level[b] <= fill_level[c]
  BY <1>5, <1>7, <1>10, <1>11, <1>12, <1>14, <1>15
<1> QED BY <1>16 DEF head, tail, full, medium, r, m

\* The tiers of the bins agree with the threshold of the routes: all overflowing bins
\* first and by level, then Medium ones by level, as many as there is capacity for, and
\* what is filtered and counted agrees (get_routable_bins).
LEMMA TypedRoutableFirst == TypeOK => RoutableFirst
<1> SUFFICES ASSUME TypeOK, NEW s \in Lists, NEW n \in Spares
             PROVE
               LET full == Where(s, IsOverflowing)
                   medium == Where(s, IsMedium)
                   r == RoutableBins(s, n)
                   head == SubSeq(r, 1, Len(full))
                   tail == SubSeq(r, Len(full) + 1, Len(r))
               IN /\ Listed(head) = Listed(full) /\ Falling(head)
                  /\ Listed(tail) \subseteq Listed(medium) /\ Falling(tail)
                  /\ Len(tail) = (IF n < Len(medium) THEN n ELSE Len(medium))
                  /\ \A b \in Listed(medium) \ Listed(tail), c \in Listed(tail) :
                       fill_level[b] <= fill_level[c]
                  /\ AtOrAbove(s, "high") = full
                  /\ Distribution(s)["high"] + Distribution(s)["critical"] = Len(full)
                  /\ AtOrAbove(s, "medium") =
                       Where(s, LAMBDA f : IsMedium(f) \/ IsRoutable(f))
  BY DEF RoutableFirst, Falling
<1>1. fill_level \in [Bins -> Nat] /\ s \in Seq(Bins) /\ n \in Nat
  BY OptimizerAssumption DEF TypeOK
<1>2. /\ AtOrAbove(s, "high") = Where(s, IsOverflowing)
      /\ AtOrAbove(s, "medium") = Where(s, LAMBDA f : IsMedium(f) \/ IsRoutable(f))
  BY <1>1, AtOrAboveFacts
<1>3. Distribution(s)["high"] + Distribution(s)["critical"] = Len(Where(s, IsOverflowing))
  BY <1>1, DistributionFacts, WherePicks, PickFacts
<1> QED BY <1>1, <1>2, <1>3, RoutableFacts

-----------------------------------------------------------------------------
(***************************************************************************)
(* The length of a route.                                                  *)
(***************************************************************************)

\* f sums up the first n legs of r.
Sums(r, n, f) == f = [i \in 0 .. n |-> IF i = 0 THEN 0 ELSE f[i - 1] + Leg(r, i)]

\* There are such sums, so that Length is what its recursion says.
LEMMA SumsExist ==
  ASSUME NEW r, NEW n \in Nat
  PROVE  \E f : Sums(r, n, f)
<1> DEFINE Bad == {m \in Nat : \A f : ~Sums(r, m, f)}
<1>1. SUFFICES ASSUME n \in Bad PROVE FALSE
  OBVIOUS
<1>2. PICK m \in Bad : \A k \in Bad : m <= k
  <2>1. Bad \in SUBSET Nat /\ Bad # {}
    BY <1>1
  <2> HIDE DEF Bad
  <2> QED BY <2>1, LeastOf
<1>3. m \in Nat /\ \A f : ~Sums(r, m, f)
  BY <1>2
<1>4. CASE m = 0
  <2> DEFINE f == [i \in 0 .. 0 |-> 0]
  <2>1. \A i \in 0 .. 0 : i = 0
    OBVIOUS
  <2>2. f = [i \in 0 .. 0 |-> IF i = 0 THEN 0 ELSE f[i - 1] + Leg(r, i)]
    BY <2>1
  <2>3. Sums(r, 0, f)
    BY <2>2 DEF Sums
  <2> QED BY <1>3, <1>4, <2>3
<1>5. CASE m # 0
  <2>1. m - 1 \in Nat /\ m - 1 \notin Bad
    BY <1>2, <1>3, <1>5
  <2>2. PICK g : Sums(r, m - 1, g)
    BY <2>1
  <2>3. /\ DOMAIN g = 0 .. m - 1
        /\ \A i \in 0 .. m - 1 : g[i] = IF i = 0 THEN 0 ELSE g[i - 1] + Leg(r, i)
    BY <2>2 DEF Sums
  <2> DEFINE f == [i \in 0 .. m |-> IF i = m THEN g[m - 1] + Leg(r, m) ELSE g[i]]
  <2>4. ASSUME NEW i \in 0 .. m
        PROVE  f[i] = IF i = 0 THEN 0 ELSE f[i - 1] + Leg(r, i)
    <3>1. CASE i = m
      <4>1. f[i] = g[m - 1] + Leg(r, m) /\ i # 0
        BY <1>5, <3>1
      <4>2. f[i - 1] = g[m - 1]
        BY <1>3, <1>5, <3>1
      <4> HIDE DEF f
      <4> QED BY <3>1, <4>1, <4>2
    <3>2. CASE i # m
      <4>1. i \in 0 .. m - 1 /\ f[i] = g[i]
        BY <1>3, <3>2
      <4>2. i # 0 => f[i - 1] = g[i - 1]
        BY <1>3, <3>2
      <4> HIDE DEF f
      <4> QED BY <2>3, <4>1, <4>2
    <3> QED BY <3>1, <3>2
  <2>5. f = [i \in 0 .. m |-> f[i]]
    OBVIOUS
  <2>6. Sums(r, m, f)
    <3> HIDE DEF f
    <3> QED BY <2>4, <2>5 DEF Sums
  <2> QED BY <1>3, <2>6
<1> QED BY <1>4, <1>5

\* Sums of the same legs are the same.
LEMMA SumsAgree ==
  ASSUME NEW r, NEW q, NEW n \in Nat, NEW m \in Nat, n <= m, NEW f, NEW g,
         Sums(r, n, f), Sums(q, m, g), \A i \in 1 .. n : Leg(r, i) = Leg(q, i)
  PROVE  f[n] = g[n]
<1> DEFINE Bad == {k \in 0 .. n : f[k] # g[k]}
<1>0. /\ \A i \in 0 .. n : f[i] = IF i = 0 THEN 0 ELSE f[i - 1] + Leg(r, i)
      /\ \A i \in 0 .. m : g[i] = IF i = 0 THEN 0 ELSE g[i - 1] + Leg(q, i)
  BY DEF Sums
<1>1. SUFFICES ASSUME n \in Bad PROVE FALSE
  OBVIOUS
<1>2. PICK k \in Bad : \A j \in Bad : k <= j
  <2>1. Bad \in SUBSET Nat /\ Bad # {}
    BY <1>1
  <2> HIDE DEF Bad
  <2> QED BY <2>1, LeastOf
<1>3. k \in Nat /\ k <= n /\ k \in 0 .. m /\ k \in 0 .. n /\ f[k] # g[k]
  BY <1>2
<1>4. k # 0
  BY <1>0, <1>3
<1>5. k - 1 \in 0 .. n /\ k - 1 \notin Bad /\ k \in 1 .. n
  BY <1>2, <1>3, <1>4
<1>6. f[k - 1] = g[k - 1]
  BY <1>5
<1> QED BY <1>0, <1>3, <1>4, <1>5, <1>6

LEMMA LengthSums ==
  ASSUME NEW r, Len(r) \in Nat
  PROVE  \E f : Sums(r, Len(r), f) /\ Length(r) = f[Len(r)]
<1> DEFINE upto == CHOOSE f : Sums(r, Len(r), f)
<1>1. Sums(r, Len(r), upto)
  BY SumsExist
<1>2. Length(r) = upto[Len(r)]
  BY DEF Length, Sums
<1> QED BY <1>1, <1>2

LEMMA LengthEmpty == Length(<<>>) = 0
<1>1. Len(<<>>) = 0
  OBVIOUS
<1>2. PICK f : Sums(<<>>, 0, f) /\ Length(<<>>) = f[0]
  BY <1>1, LengthSums
<1> QED BY <1>2 DEF Sums

\* One more stop makes the route one leg longer.
LEMMA LengthAppend ==
  ASSUME NEW S, NEW r \in Seq(S), NEW e \in S
  PROVE  Length(Append(r, e)) = Length(r) + Leg(Append(r, e), Len(r) + 1)
<1> DEFINE q == Append(r, e)
           n == Len(r)
<1>1. /\ n \in Nat /\ Len(q) = n + 1
      /\ \A i \in 1 .. n : q[i] = r[i]
  OBVIOUS
<1>2. PICK f : Sums(r, n, f) /\ Length(r) = f[n]
  BY <1>1, LengthSums
<1>3. PICK g : Sums(q, n + 1, g) /\ Length(q) = g[n + 1]
  <2>1. Len(q) \in Nat
    BY <1>1
  <2> HIDE DEF q, n
  <2> QED BY <1>1, <2>1, LengthSums
<1>4. \A i \in 1 .. n : Leg(r, i) = Leg(q, i)
  <2> SUFFICES ASSUME NEW i \in 1 .. n PROVE Leg(r, i) = Leg(q, i)
    OBVIOUS
  <2>1. i # 1 => i - 1 \in 1 .. n
    BY <1>1
  <2> HIDE DEF q, n
  <2> QED BY <1>1, <2>1 DEF Leg
<1> HIDE DEF q, n
<1>5. f[n] = g[n]
  BY <1>1, <1>2, <1>3, <1>4, SumsAgree
<1>6. g[n + 1] = g[n] + Leg(q, n + 1)
  <2>1. n + 1 \in 0 .. n + 1 /\ n + 1 # 0 /\ (n + 1) - 1 = n
    BY <1>1
  <2> QED BY <1>3, <2>1 DEF Sums
<1> QED BY <1>2, <1>3, <1>5, <1>6 DEF q, n

-----------------------------------------------------------------------------
(***************************************************************************)
(* The route that is being computed.                                       *)
(***************************************************************************)

\* The stops are the bins that count as visited, each once.
Toured ==
  /\ \A i, j \in DOMAIN route_bins : route_bins[i] = route_bins[j] => i = j
  /\ Listed(route_bins) = visited_bins
  /\ visited_bins \subseteq Listed(overflowing_bins)

\* The truck stands at the last stop.
Stands ==
  current_position =
    IF Len(route_bins) = 0 THEN Start ELSE route_bins[Len(route_bins)]

\* The distances from where the i-th leg begins.
FromStop(i) == Dist[IF i = 1 THEN Start ELSE route_bins[i - 1]]

\* Each stop was a nearest one among all that were left.
Greedy ==
  \A i \in DOMAIN route_bins, m \in DOMAIN overflowing_bins :
    (\A j \in 1 .. i : route_bins[j] # overflowing_bins[m])
      => \/ FromStop(i)[route_bins[i]] < FromStop(i)[overflowing_bins[m]]
         \/ /\ FromStop(i)[route_bins[i]] = FromStop(i)[overflowing_bins[m]]
            /\ Place(route_bins[i]) < m

\* The plan is the route that was computed last, and it is complete.
Done ==
  pc = "idle" => plan.route_bins = route_bins /\ visited_bins = Listed(overflowing_bins)

\* The distance that is counted is the length of the route so far, and of the plan.
Measured ==
  /\ total_distance = Length(route_bins)
  /\ pc = "idle" => plan.route_distance = total_distance

\* What is to be routed is among the bins to visit.
Wanted ==
  /\ pc = "loop" => wanted \subseteq Listed(overflowing_bins)
  /\ pc = "idle" => wanted \subseteq Listed(plan.route_bins)

Inv == TypeOK /\ Toured /\ Stands /\ Greedy /\ Done /\ Measured /\ Wanted

\* A step that leaves the computation and the plan alone keeps what is said of them.
LEMMA ComputationKept ==
  ASSUME Inv, UNCHANGED <<pc, computing, plan>>
  PROVE  Toured' /\ Stands' /\ Greedy' /\ Done' /\ Measured'
<1>1. UNCHANGED <<overflowing_bins, visited_bins, current_position, route_bins,
                  total_distance>>
  BY DEF computing
<1>2. \A c : Place(c)' = Place(c)
  BY <1>1 DEF Place
<1>3. Toured' /\ Stands'
  BY <1>1 DEF Inv, Toured, Stands
<1>4. Greedy'
  BY <1>1, <1>2 DEF Inv, Greedy, FromStop
<1>5. Done' /\ Measured'
  BY <1>1 DEF Inv, Done, Measured
<1> QED BY <1>3, <1>4, <1>5

LEMMA InvInit == Init => Inv
<1> SUFFICES ASSUME Init PROVE Inv
  OBVIOUS
<1>1. fill_level \in [Bins -> Nat]
  <2>1. Levels \subseteq Nat
    BY OptimizerAssumption
  <2> QED BY <2>1 DEF Init
<1>2. Listed(<<>>) = {}
  BY DEF Listed
<1>3. TypeOK
  BY <1>1 DEF Init, TypeOK
<1>4. Toured /\ Stands /\ Greedy /\ Done /\ Wanted
  BY <1>2 DEF Init, Toured, Stands, Greedy, Done, Wanted
<1>5. Measured
  BY LengthEmpty DEF Init, Measured
<1> QED BY <1>3, <1>4, <1>5 DEF Inv

LEMMA InvSetLevel ==
  ASSUME Inv, NEW b \in Bins, NEW f \in Levels, SetLevel(b, f)
  PROVE  Inv'
<1>1. fill_level' \in [Bins -> Nat]
  BY OptimizerAssumption DEF Inv, TypeOK, SetLevel
<1>2. TypeOK'
  BY <1>1 DEF Inv, TypeOK, SetLevel, computing
<1>3. Wanted'
  BY DEF Inv, Wanted, SetLevel, computing
<1> QED BY <1>2, <1>3, ComputationKept DEF Inv, SetLevel

\* A route begins.
LEMMA InvBegin ==
  ASSUME Inv, NEW s \in Seq(Bins), Begin(s), wanted' \subseteq Bins,
         wanted' \subseteq {b \in Listed(s) : IsOverflowing(fill_level[b])}
  PROVE  Inv'
<1>1. /\ overflowing_bins' \in Seq(Bins)
      /\ Listed(overflowing_bins') = {b \in Listed(s) : IsOverflowing(fill_level[b])}
  BY OverflowingFacts DEF Begin
<1>2. TypeOK'
  BY <1>1 DEF Inv, TypeOK, Begin
<1>3. Listed(<<>>) = {}
  BY DEF Listed
<1>4. Toured' /\ Stands' /\ Greedy' /\ Done' /\ Wanted'
  BY <1>1, <1>3 DEF Begin, Toured, Stands, Greedy, Done, Wanted
<1>5. Measured'
  BY LengthEmpty DEF Begin, Measured
<1> QED BY <1>2, <1>4, <1>5 DEF Inv

LEMMA InvReplan ==
  ASSUME Inv, NEW s \in Seq(Bins), NEW b \in Bins, ReplanOnOverflow(s, b)
  PROVE  Inv'
<1>1. MustRoute(s, b) \subseteq Bins
  BY ListedType DEF MustRoute
<1>2. CASE b \in Listed(plan.route_bins)
  <2>1. wanted' \subseteq Bins /\ wanted' \subseteq Listed(plan.route_bins)
    BY <1>1, <1>2 DEF ReplanOnOverflow, MustRoute
  <2>2. UNCHANGED <<fill_level, pc, computing, plan>> /\ pc = "idle"
    BY <1>2 DEF ReplanOnOverflow
  <2>3. TypeOK' /\ Wanted'
    BY <2>1, <2>2 DEF Inv, TypeOK, Wanted, computing
  <2> QED BY <2>2, <2>3, ComputationKept DEF Inv
<1>3. CASE b \notin Listed(plan.route_bins)
  <2>1. Begin(Merged(s, b)) /\ wanted' = MustRoute(s, b)
    BY <1>3 DEF ReplanOnOverflow
  <2>2. Merged(s, b) \in Seq(Bins) /\ Listed(Merged(s, b)) = Listed(s) \cup {b}
    BY MergedFacts
  <2>3. MustRoute(s, b) \subseteq {c \in Listed(Merged(s, b)) : IsOverflowing(fill_level[c])}
    BY <2>2 DEF MustRoute
  <2> QED BY <1>1, <2>1, <2>2, <2>3, InvBegin
<1> QED BY <1>2, <1>3

\* The stop that is visited next is the first place of its bin.
LEMMA NearestPlace ==
  ASSUME TypeOK, NEW i \in Unvisited, Nearest(i)
  PROVE  Place(overflowing_bins[i]) = i
<1>1. DOMAIN overflowing_bins \subseteq Nat /\ i \in DOMAIN overflowing_bins
  BY DEF TypeOK, Unvisited
<1>2. To(i) \in Nat
  BY OptimizerAssumption, <1>1 DEF To, TypeOK
<1>3. ASSUME NEW n \in DOMAIN overflowing_bins, overflowing_bins[n] = overflowing_bins[i]
      PROVE  i <= n
  <2>1. n \in Unvisited /\ To(n) = To(i)
    BY <1>3 DEF Unvisited, To
  <2> QED BY <1>2, <2>1 DEF Nearest
<1> DEFINE First(m) == /\ m \in DOMAIN overflowing_bins
                       /\ overflowing_bins[m] = overflowing_bins[i]
                       /\ \A n \in DOMAIN overflowing_bins :
                            overflowing_bins[n] = overflowing_bins[i] => m <= n
<1>4. First(i)
  BY <1>1, <1>3
<1>5. First(Place(overflowing_bins[i]))
  BY <1>4 DEF Place
<1>6. Place(overflowing_bins[i]) <= i /\ i <= Place(overflowing_bins[i])
  BY <1>1, <1>3, <1>5
<1>7. Place(overflowing_bins[i]) \in Nat /\ i \in Nat
  BY <1>1, <1>5
<1> QED BY <1>6, <1>7

LEMMA InvVisit == Inv /\ Visit => Inv'
<1> SUFFICES ASSUME Inv, Visit PROVE Inv'
  OBVIOUS
<1>1. PICK i \in Unvisited :
        /\ Nearest(i)
        /\ route_bins' = Append(route_bins, overflowing_bins[i])
        /\ visited_bins' = visited_bins \cup {overflowing_bins[i]}
        /\ total_distance' = total_distance + To(i)
        /\ current_position' = overflowing_bins[i]
  BY DEF Visit
<1> DEFINE b == overflowing_bins[i]
           n == Len(route_bins)
<1>2. /\ i \in DOMAIN overflowing_bins /\ b \in Bins /\ b \notin visited_bins
      /\ DOMAIN overflowing_bins \subseteq Nat
  BY DEF Unvisited, Inv, TypeOK
<1>3. /\ n \in Nat /\ DOMAIN route_bins = 1 .. n /\ route_bins \in Seq(Bins)
      /\ DOMAIN route_bins' = 1 .. n + 1 /\ Len(route_bins') = n + 1
      /\ \A j \in 1 .. n : route_bins'[j] = route_bins[j]
      /\ route_bins'[n + 1] = b
  BY <1>1, <1>2 DEF Inv, TypeOK
<1>4. overflowing_bins' = overflowing_bins /\ pc = "loop" /\ pc' = "loop"
  BY DEF Visit
<1>5. TypeOK'
  <2>1. To(i) \in Nat
    BY <1>2, OptimizerAssumption DEF To, Inv, TypeOK
  <2>2. route_bins' \in Seq(Bins) /\ total_distance' \in Nat
    BY <1>1, <1>2, <1>3, <2>1 DEF Inv, TypeOK
  <2> QED BY <1>1, <1>2, <2>2 DEF Inv, TypeOK, Visit
<1>6. Toured'
  <2>1. Listed(route_bins') = Listed(route_bins) \cup {b}
    BY <1>1, <1>2, <1>3, ListedAppend
  <2>2. \A j \in 1 .. n : route_bins[j] # b
    BY <1>2, <1>3 DEF Inv, Toured, Listed
  <2>3. \A k, j \in DOMAIN route_bins' : route_bins'[k] = route_bins'[j] => k = j
    <3>1. \A k \in 1 .. n + 1 : k \in 1 .. n \/ k = n + 1
      BY <1>3
    <3> HIDE DEF b, n
    <3> QED BY <1>3, <2>2, <3>1 DEF Inv, Toured
  <2>4. visited_bins' \subseteq Listed(overflowing_bins)
    BY <1>1, <1>2 DEF Inv, Toured, Listed
  <2> QED BY <1>1, <1>4, <2>1, <2>3, <2>4 DEF Inv, Toured
<1>7. Stands'
  BY <1>1, <1>3 DEF Stands
<1>8. Greedy'
  <2>1. \A c : Place(c)' = Place(c)
    BY <1>4 DEF Place
  <2> SUFFICES ASSUME NEW a \in 1 .. n + 1, NEW m \in DOMAIN overflowing_bins,
                      \A j \in 1 .. a : route_bins'[j] # overflowing_bins[m]
               PROVE  \/ FromStop(a)'[route_bins'[a]] < FromStop(a)'[overflowing_bins[m]]
                      \/ /\ FromStop(a)'[route_bins'[a]] = FromStop(a)'[overflowing_bins[m]]
                         /\ Place(route_bins'[a]) < m
    BY <1>3, <1>4, <2>1 DEF Greedy
  <2>2. CASE a \in 1 .. n
    <3>1. route_bins'[a] = route_bins[a] /\ a \in DOMAIN route_bins
      BY <1>3, <2>2
    <3>2. FromStop(a)' = FromStop(a)
      <4>1. a # 1 => a - 1 \in 1 .. n
        BY <1>3, <2>2
      <4> QED BY <1>3, <4>1 DEF FromStop
    <3>3. \A j \in 1 .. a : route_bins[j] # overflowing_bins[m]
      <4>1. \A j \in 1 .. a : j \in 1 .. n
        BY <1>3, <2>2
      <4> QED BY <1>3, <4>1
    <3> QED BY <3>1, <3>2, <3>3 DEF Inv, Greedy
  <2>3. CASE a = n + 1
    <3>1. FromStop(a)' = Dist[current_position]
      <4>1. CASE n = 0
        BY <2>3, <4>1 DEF FromStop, Inv, Stands
      <4>2. CASE n # 0
        <5>1. n \in 1 .. n /\ a - 1 = n /\ a # 1
          BY <1>3, <2>3, <4>2
        <5> QED BY <1>3, <4>2, <5>1 DEF FromStop, Inv, Stands
      <4> QED BY <4>1, <4>2
    <3>2. m \in Unvisited /\ m # i
      <4>1. \A j \in 1 .. n : route_bins[j] # overflowing_bins[m]
        <5>1. \A j \in 1 .. n : j \in 1 .. a
          BY <1>3, <2>3
        <5> QED BY <1>3, <5>1
      <4>2. overflowing_bins[m] \notin visited_bins
        BY <1>3, <4>1 DEF Inv, Toured, Listed
      <4>3. a \in 1 .. a
        BY <1>3, <2>3
      <4>4. overflowing_bins[m] # b
        BY <1>3, <2>3, <4>3
      <4> QED BY <4>2, <4>4 DEF Unvisited
    <3>3. To(i) < To(m) \/ (To(i) = To(m) /\ i <= m)
      BY <1>1, <3>2 DEF Nearest
    <3>4. Place(b) = i
      BY <1>1, NearestPlace DEF Inv
    <3>5. i \in Nat /\ m \in Nat
      BY <1>2
    <3>6. To(i) < To(m) \/ (To(i) = To(m) /\ i < m)
      BY <3>2, <3>3, <3>5
    <3> QED BY <1>3, <2>3, <3>1, <3>4, <3>6 DEF To
  <2> QED BY <1>3, <2>2, <2>3
<1>9. Done' /\ Wanted'
  BY <1>4 DEF Inv, Done, Wanted, Visit
<1>10. Measured'
  <2>1. Length(route_bins') = Length(route_bins) + Leg(route_bins', n + 1)
    BY <1>1, <1>2, <1>3, LengthAppend
  <2>2. Leg(route_bins', n + 1) = To(i)
    <3>1. CASE n = 0
      BY <1>3, <3>1 DEF Leg, To, Inv, Stands
    <3>2. CASE n # 0
      <4>1. n + 1 # 1 /\ (n + 1) - 1 = n /\ n \in 1 .. n
        BY <1>3, <3>2
      <4>2. route_bins'[n] = current_position
        BY <1>3, <3>2, <4>1 DEF Inv, Stands
      <4> QED BY <1>3, <4>1, <4>2 DEF Leg, To
    <3> QED BY <3>1, <3>2
  <2> QED BY <1>1, <1>4, <2>1, <2>2 DEF Inv, Measured
<1> QED BY <1>5, <1>6, <1>7, <1>8, <1>9, <1>10 DEF Inv

\* A list does not name more bins than it has places.
LEMMA ListedCardinality ==
  ASSUME NEW S, NEW s \in Seq(S)
  PROVE  IsFiniteSet(Listed(s)) /\ Cardinality(Listed(s)) <= Len(s)
<1> DEFINE f == [i \in 1 .. Len(s) |-> s[i]]
<1>1. Len(s) \in Nat /\ DOMAIN s = 1 .. Len(s)
  OBVIOUS
<1>2. f \in Surjection(1 .. Len(s), Listed(s))
  BY <1>1 DEF Surjection, Listed
<1>3. IsFiniteSet(1 .. Len(s)) /\ Cardinality(1 .. Len(s)) = Len(s)
  BY <1>1, FS_Interval
<1> HIDE DEF f
<1> QED BY <1>2, <1>3, FS_Surjection

\* When the loop ends, no bin is left.
LEMMA FinishedAll ==
  ASSUME Inv, Finished
  PROVE  visited_bins = Listed(overflowing_bins)
<1>1. visited_bins \subseteq Listed(overflowing_bins) /\ overflowing_bins \in Seq(Bins)
  BY DEF Inv, Toured, TypeOK
<1>2. CASE Unvisited = {}
  BY <1>1, <1>2 DEF Unvisited, Listed
<1>3. CASE Cardinality(visited_bins) = Len(overflowing_bins)
  <2>1. /\ IsFiniteSet(Listed(overflowing_bins))
        /\ Cardinality(Listed(overflowing_bins)) <= Len(overflowing_bins)
    BY <1>1, ListedCardinality
  <2>2. Cardinality(visited_bins) <= Cardinality(Listed(overflowing_bins))
    BY <1>1, <2>1, FS_Subset
  <2>3. Cardinality(Listed(overflowing_bins)) \in Nat /\ Len(overflowing_bins) \in Nat
    BY <1>1, <2>1, FS_CardinalityType
  <2>4. Cardinality(visited_bins) = Cardinality(Listed(overflowing_bins))
    BY <1>3, <2>1, <2>2, <2>3
  <2> QED BY <1>1, <2>1, <2>4, FS_Subset
<1> QED BY <1>2, <1>3 DEF Finished

LEMMA InvReturn == Inv /\ Return => Inv'
<1> SUFFICES ASSUME Inv, Return PROVE Inv'
  OBVIOUS
<1>1. visited_bins = Listed(overflowing_bins)
  BY FinishedAll DEF Return
<1>2. plan'.route_bins = route_bins
  BY DEF Return
<1>3. TypeOK'
  BY DEF Inv, TypeOK, Return, computing
<1>4. \A c : Place(c)' = Place(c)
  BY DEF Return, computing, Place
<1>5. Toured' /\ Stands' /\ Greedy'
  BY <1>4 DEF Inv, Toured, Stands, Greedy, FromStop, Return, computing
<1>6. Done' /\ Measured' /\ Wanted'
  BY <1>1, <1>2 DEF Inv, Toured, Done, Measured, Wanted, Return, computing
<1> QED BY <1>3, <1>5, <1>6 DEF Inv

LEMMA InvStep == Inv /\ [Next]_vars => Inv'
<1> SUFFICES ASSUME Inv, [Next]_vars PROVE Inv'
  OBVIOUS
<1>1. CASE UNCHANGED vars
  <2>1. TypeOK' /\ Wanted'
    BY <1>1 DEF Inv, TypeOK, Wanted, vars, computing
  <2> QED BY <1>1, <2>1, ComputationKept DEF Inv, vars
<1>2. ASSUME NEW s \in Lists, ComputeRoute(s) PROVE Inv'
  BY <1>2, InvBegin, OptimizerAssumption DEF ComputeRoute
<1>3. ASSUME NEW s \in Lists, NEW b \in Bins, ReplanOnOverflow(s, b) PROVE Inv'
  BY <1>3, InvReplan, OptimizerAssumption
<1> QED BY <1>1, <1>2, <1>3, InvSetLevel, InvVisit, InvReturn DEF Next

-----------------------------------------------------------------------------
\* Every variable keeps its type (RouteOptimizer).
THEOREM OptimizerTyped == Spec => []TypeOK
<1>1. Inv => TypeOK
  BY DEF Inv
<1> QED BY InvInit, InvStep, <1>1, PTL DEF Spec

\* A plan visits every bin that overflowed when it was computed, each once, and no
\* other, also when the list names a bin twice, and its distance is the length of that
\* route (compute_route).
THEOREM PlanIsTour == Spec => []RouteIsTour
<1>1. Inv => RouteIsTour
  BY DEF Inv, Done, Toured, Measured, IsTour, RouteIsTour
<1> QED BY InvInit, InvStep, <1>1, PTL DEF Spec

\* The first place of a listed bin.
LEMMA PlaceFacts ==
  ASSUME TypeOK, NEW b \in Listed(overflowing_bins)
  PROVE  Place(b) \in DOMAIN overflowing_bins /\ overflowing_bins[Place(b)] = b
<1> DEFINE same == {i \in DOMAIN overflowing_bins : overflowing_bins[i] = b}
<1>1. same \in SUBSET Nat /\ same # {}
  BY DEF Listed, TypeOK
<1>2. \E i \in same : \A n \in same : i <= n
  <2> HIDE DEF same
  <2> QED BY <1>1, LeastOf
<1> QED BY <1>2 DEF Place

\* From every stop a plan goes on to a nearest bin of the rest, the first in the list
\* of those that are equally near (find_nearest_unvisited_bin).
THEOREM GoesToNearest == Spec => []NearestFirst
<1>1. Inv => NearestFirst
  <2> SUFFICES ASSUME Inv, pc = "idle", NEW i \in DOMAIN route_bins,
                      NEW j \in DOMAIN route_bins, i < j
               PROVE  \/ FromStop(i)[route_bins[i]] < FromStop(i)[route_bins[j]]
                      \/ /\ FromStop(i)[route_bins[i]] = FromStop(i)[route_bins[j]]
                         /\ Place(route_bins[i]) < Place(route_bins[j])
    BY DEF NearestFirst, Inv, Done, FromStop
  <2>1. route_bins[j] \in Listed(overflowing_bins)
    BY DEF Inv, Toured, Listed
  <2>2. /\ Place(route_bins[j]) \in DOMAIN overflowing_bins
        /\ overflowing_bins[Place(route_bins[j])] = route_bins[j]
    BY <2>1, PlaceFacts DEF Inv
  <2>3. \A k \in 1 .. i : route_bins[k] # route_bins[j]
    <3>1. DOMAIN route_bins = 1 .. Len(route_bins) /\ Len(route_bins) \in Nat
      BY DEF Inv, TypeOK
    <3>2. \A k \in 1 .. i : k \in DOMAIN route_bins /\ k # j
      BY <3>1
    <3> QED BY <3>2 DEF Inv, Toured
  <2> QED BY <2>2, <2>3 DEF Inv, Greedy
<1> QED BY InvInit, InvStep, <1>1, PTL DEF Spec

\* Replanning routes the bin that began to overflow and the bins of the old route that
\* still do (replan_on_overflow).
THEOREM NewOverflowRouted == Spec => []Rerouted
<1>1. Inv => Rerouted
  BY DEF Inv, Wanted, Rerouted
<1> QED BY InvInit, InvStep, <1>1, PTL DEF Spec

\* The bins get_routable_bins gives are all that overflow, fullest first, and then Medium
\* ones, as many as there is spare capacity for, fullest first; what filter_by_priority
\* keeps and get_priority_distribution counts agrees with it.
THEOREM RoutableByLevel == Spec => []RoutableFirst
<1>1. Inv => RoutableFirst
  BY TypedRoutableFirst DEF Inv
<1> QED BY InvInit, InvStep, <1>1, PTL DEF Spec

-----------------------------------------------------------------------------
(***************************************************************************)
(* The loop ends: what Terminates rests on but for fairness.               *)
(***************************************************************************)

\* The loop can end, or it can visit a bin.
CanGoOn ==
  \/ Finished
  \/ /\ Cardinality(visited_bins) < Len(overflowing_bins)
     /\ \E i \in Unvisited : Nearest(i)

LEMMA UnvisitedFinite == Inv => IsFiniteSet(Unvisited) /\ Unvisited \subseteq Nat
<1> SUFFICES ASSUME Inv PROVE IsFiniteSet(Unvisited) /\ Unvisited \subseteq Nat
  OBVIOUS
<1>1. Len(overflowing_bins) \in Nat /\ DOMAIN overflowing_bins = 1 .. Len(overflowing_bins)
  BY DEF Inv, TypeOK
<1>2. IsFiniteSet(1 .. Len(overflowing_bins))
  BY <1>1, FS_Interval
<1>3. Unvisited \subseteq 1 .. Len(overflowing_bins)
  BY <1>1 DEF Unvisited
<1>4. IsFiniteSet(Unvisited)
  BY <1>2, <1>3, FS_Subset
<1>5. Unvisited \subseteq Nat
  BY <1>1, <1>3
<1> QED BY <1>4, <1>5

\* Of the bins still to visit one is nearest and, of those, listed first.
LEMMA NearestExists ==
  ASSUME Inv, Unvisited # {}
  PROVE  \E i \in Unvisited : Nearest(i)
<1>1. \A i \in Unvisited : i \in Nat /\ To(i) \in Nat
  <2> SUFFICES ASSUME NEW i \in Unvisited PROVE i \in Nat /\ To(i) \in Nat
    OBVIOUS
  <2>1. i \in Nat /\ overflowing_bins[i] \in Bins
    BY DEF Unvisited, Inv, TypeOK
  <2> QED BY <2>1, OptimizerAssumption DEF To, Inv, TypeOK
<1> DEFINE distances == {To(i) : i \in Unvisited}
<1>2. PICK d \in distances : \A e \in distances : d <= e
  <2>1. distances \in SUBSET Nat /\ distances # {}
    BY <1>1
  <2> HIDE DEF distances
  <2> QED BY <2>1, LeastOf
<1> DEFINE closest == {i \in Unvisited : To(i) = d}
<1>3. PICK i \in closest : \A j \in closest : i <= j
  <2>1. closest \in SUBSET Nat /\ closest # {}
    BY <1>1, <1>2
  <2> HIDE DEF closest
  <2> QED BY <2>1, LeastOf
<1>4. ASSUME NEW j \in Unvisited
      PROVE  To(i) < To(j) \/ (To(i) = To(j) /\ i <= j)
  <2>1. To(i) = d /\ d <= To(j) /\ d \in Nat /\ To(j) \in Nat
    BY <1>1, <1>2
  <2>2. To(j) = d => i <= j
    BY <1>3
  <2> QED BY <2>1, <2>2
<1> QED BY <1>4 DEF Nearest

\* The loop is never left with bins to visit and none it can choose, nor past its count
\* with bins left: also when the list names a bin twice (compute_route).
THEOREM LoopNeverStuck == Spec => [](pc = "loop" => CanGoOn)
<1>1. Inv => CanGoOn
  <2> SUFFICES ASSUME Inv, ~Finished PROVE CanGoOn
    BY DEF CanGoOn
  <2>1. Unvisited # {} /\ Cardinality(visited_bins) # Len(overflowing_bins)
    BY DEF Finished
  <2>2. overflowing_bins \in Seq(Bins) /\ visited_bins \subseteq Listed(overflowing_bins)
    BY DEF Inv, TypeOK, Toured
  <2>3. /\ IsFiniteSet(Listed(overflowing_bins))
        /\ Cardinality(Listed(overflowing_bins)) <= Len(overflowing_bins)
    BY <2>2, ListedCardinality
  <2>4. IsFiniteSet(visited_bins)
        /\ Cardinality(visited_bins) <= Cardinality(Listed(overflowing_bins))
    BY <2>2, <2>3, FS_Subset
  <2>5. /\ Cardinality(visited_bins) \in Nat /\ Cardinality(Listed(overflowing_bins)) \in Nat
        /\ Len(overflowing_bins) \in Nat
    BY <2>2, <2>3, <2>4, FS_CardinalityType
  <2>6. Cardinality(visited_bins) < Len(overflowing_bins)
    BY <2>1, <2>3, <2>4, <2>5
  <2> QED BY <2>1, <2>6, NearestExists DEF CanGoOn
<1> QED BY InvInit, InvStep, <1>1, PTL DEF Spec

\* While a route is computed, a step ends the computation, leaves fewer bins to visit, or
\* is the simulation's and changes fill levels only: what Terminates rests on but for the
\* loop being scheduled (compute_route).
THEOREM LoopCountsDown ==
  Spec => [][pc = "loop" =>
               \/ pc' = "idle"
               \/ /\ Cardinality(Unvisited') < Cardinality(Unvisited)
                  /\ Cardinality(Unvisited') \in Nat
               \/ UNCHANGED <<pc, computing, plan, wanted>>]_vars
<1>1. ASSUME Inv, Next, pc = "loop"
      PROVE  \/ pc' = "idle"
             \/ /\ Cardinality(Unvisited') < Cardinality(Unvisited)
                /\ Cardinality(Unvisited') \in Nat
             \/ UNCHANGED <<pc, computing, plan, wanted>>
  <2>1. ASSUME NEW b \in Bins, NEW f \in Levels, SetLevel(b, f)
        PROVE  UNCHANGED <<pc, computing, plan, wanted>>
    BY <2>1 DEF SetLevel
  <2>2. ASSUME NEW s, Begin(s) PROVE FALSE
    BY <1>1, <2>2 DEF Begin
  <2>3. ASSUME NEW s \in Lists, ComputeRoute(s) PROVE FALSE
    BY <2>2, <2>3 DEF ComputeRoute
  <2>4. ASSUME NEW s \in Lists, NEW b \in Bins, ReplanOnOverflow(s, b) PROVE FALSE
    <3>1. CASE b \in Listed(plan.route_bins)
      BY <1>1, <2>4, <3>1 DEF ReplanOnOverflow
    <3>2. CASE b \notin Listed(plan.route_bins)
      BY <2>2, <2>4, <3>2 DEF ReplanOnOverflow
    <3> QED BY <3>1, <3>2
  <2>5. ASSUME Visit
        PROVE  /\ Cardinality(Unvisited') < Cardinality(Unvisited)
               /\ Cardinality(Unvisited') \in Nat
    <3>1. PICK i \in Unvisited : visited_bins' = visited_bins \cup {overflowing_bins[i]}
      BY <2>5 DEF Visit
    <3>2. overflowing_bins' = overflowing_bins
      BY <2>5 DEF Visit
    <3>3. Unvisited' \subseteq Unvisited /\ i \notin Unvisited'
      BY <3>1, <3>2 DEF Unvisited
    <3>4. IsFiniteSet(Unvisited)
      BY <1>1, UnvisitedFinite
    <3>5. Unvisited' # Unvisited
      BY <3>3
    <3>6. /\ IsFiniteSet(Unvisited')
          /\ Cardinality(Unvisited') <= Cardinality(Unvisited)
          /\ Cardinality(Unvisited') # Cardinality(Unvisited)
      BY <3>3, <3>4, <3>5, FS_Subset
    <3>7. Cardinality(Unvisited) \in Nat /\ Cardinality(Unvisited') \in Nat
      BY <3>4, <3>6, FS_CardinalityType
    <3> QED BY <3>6, <3>7
  <2>6. ASSUME Return PROVE pc' = "idle"
    BY <2>6 DEF Return
  <2> QED BY <1>1, <2>1, <2>3, <2>4, <2>5, <2>6 DEF Next
<1> QED BY InvInit, InvStep, <1>1, PTL DEF Spec
=============================================================================

----------------------------- MODULE SearchProofs -----------------------------
(***************************************************************************)
(* What a search answers, for every finite set of screenshots, every limit  *)
(* and every rrfK: the degradation to keywords, and the order of the fused  *)
(* answer.                                                                  *)
(***************************************************************************)
EXTENDS Search, FiniteSetTheorems, SequenceTheorems, TLAPS

(* A sequence of screenshots without a repetition.                          *)
IsRanking(h) ==
    /\ h \in Seq(Ids)
    /\ \A i, j \in 1..Len(h) : h[i] = h[j] => i = j

-----------------------------------------------------------------------------
(* Rankings is the set of them: a ranking of n screenshots is a bijection   *)
(* from 1..n to their set.                                                  *)
LEMMA RankingsAre == ASSUME NEW h PROVE h \in Rankings <=> IsRanking(h)
  <1>1. ASSUME h \in Rankings PROVE IsRanking(h)
    <2>1. PICK S \in SUBSET Ids : h \in SetToSeqs(S)
      BY <1>1 DEF Rankings
    <2>2. Cardinality(S) \in Nat
      BY FS_Subset, FS_CardinalityType, SearchAssumption
    <2>3. /\ h \in [1..Cardinality(S) -> S]
          /\ \A i, j \in 1..Cardinality(S) : i # j => h[i] # h[j]
      BY <2>1 DEF SetToSeqs
    <2>4. h \in Seq(Ids) /\ Len(h) = Cardinality(S)
      BY <2>2, <2>3
    <2> QED
      BY <2>3, <2>4 DEF IsRanking
  <1>2. ASSUME IsRanking(h) PROVE h \in Rankings
    <2> DEFINE S == {h[i] : i \in 1..Len(h)}
    <2>1. h \in Seq(Ids) /\ Len(h) \in Nat /\ S \subseteq Ids
      BY <1>2 DEF IsRanking
    <2>2. h \in [1..Len(h) -> S]
      BY <2>1
    <2>3. h \in Bijection(1..Len(h), S)
      BY <1>2, <2>1, <2>2 DEF IsRanking, Bijection, Injection, Surjection, IsInjective
    <2>4. Cardinality(S) = Len(h)
      BY <2>1, <2>3, FS_CountingElements DEF ExistsBijection
    <2>5. h \in SetToSeqs(S)
      BY <1>2, <2>2, <2>4 DEF IsRanking, SetToSeqs
    <2> QED
      BY <2>1, <2>5 DEF Rankings
  <1> QED
    BY <1>1, <1>2

(* The LIMIT cuts a sequence to its first hits.                             *)
LEMMA LimitedIs ==
    ASSUME NEW X, NEW h \in Seq(X), NEW n \in Nat
    PROVE  /\ Limited(h, n) \in Seq(X)
           /\ Len(Limited(h, n)) = IF n < Len(h) THEN n ELSE Len(h)
           /\ \A i \in 1..Len(Limited(h, n)) : i \in 1..Len(h) /\ Limited(h, n)[i] = h[i]
  <1> DEFINE m == IF n < Len(h) THEN n ELSE Len(h)
  <1>1. Len(h) \in Nat /\ m \in Nat /\ m <= Len(h)
    OBVIOUS
  <1>2. \A i \in 1..m : h[i] \in X
    BY <1>1
  <1>3. SubSeq(h, 1, m) \in Seq(X) /\ Len(SubSeq(h, 1, m)) = m /\ \A i \in 1..m : SubSeq(h, 1, m)[i] = h[i]
    BY <1>1, <1>2
  <1> QED
    BY <1>1, <1>3 DEF Limited

(* A LIMIT leaves a ranking a ranking.                                      *)
LEMMA LimitedRanking ==
    ASSUME NEW h, IsRanking(h), NEW n \in Nat
    PROVE  IsRanking(Limited(h, n))
  BY LimitedIs DEF IsRanking

(* A second, smaller LIMIT is the only one that counts.                     *)
LEMMA LimitedTwice ==
    ASSUME NEW X, NEW h \in Seq(X), NEW n \in Nat, NEW m \in 0..n
    PROVE  Limited(Limited(h, n), m) = Limited(h, m)
  <1> DEFINE once == Limited(h, m)
             twice == Limited(Limited(h, n), m)
  <1>1. Limited(h, n) \in Seq(X) /\ once \in Seq(X) /\ twice \in Seq(X)
    BY LimitedIs
  <1>2. Len(once) = Len(twice)
    BY <1>1, LimitedIs
  <1>3. \A i \in 1..Len(once) : once[i] = twice[i]
    BY <1>1, <1>2, LimitedIs
  <1> QED
    BY <1>1, <1>2, <1>3, SeqEqual

(* A hybrid search fetches at least what it returns.                        *)
LEMMA FetchIsEnough == limit \in Limits => FetchLimit \in Nat /\ limit \in 0..FetchLimit
  BY SearchAssumption DEF FetchLimit

-----------------------------------------------------------------------------
(* The request does not change, and its parts are what Init chose.          *)
RequestTyped ==
    /\ enabled \in BOOLEAN /\ vectors \in {"qdrant", "memory", "none"}
    /\ mode \in {"keyword", "semantic", "hybrid"}
    /\ limit \in Limits
    /\ IsRanking(keyword) /\ IsRanking(semantic)

Kept == UNCHANGED request /\ FetchLimit' = FetchLimit

(* No step changes the request or the rankings it is answered from.         *)
LEMMA RequestStep == [Next]_vars => Kept
  <1> SUFFICES ASSUME [Next]_vars PROVE Kept
    OBVIOUS
  <1>1. UNCHANGED request
    BY DEF vars, request, Next, SearchScreenshots, SemanticSearch, KeywordHits, SemanticHits,
       FailHybrid,
           DegradeHybrid, MergeHybrid, GetScreenshotsByIDs
  <1> QED
    BY <1>1 DEF Kept, request, FetchLimit

(* The request is one that a client may send.                               *)
LEMMA RequestInit == Init => RequestTyped
  BY RankingsAre DEF Init, RequestTyped, OpenVectorStore

(* It stays one.                                                            *)
LEMMA RequestTypedStep == RequestTyped /\ [Next]_vars => RequestTyped'
  <1> SUFFICES ASSUME RequestTyped, [Next]_vars PROVE RequestTyped'
    OBVIOUS
  <1>1. UNCHANGED <<enabled, vectors, mode, limit, keyword, semantic>>
    BY RequestStep DEF Kept, request
  <1> QED
    BY <1>1 DEF RequestTyped, IsRanking

(* What the two goroutines of a hybrid search have found, and whose failure *)
(* is whose.                                                                *)
HalvesInv ==
    /\ kw.done /\ kw.ok => kw.hits = Limited(keyword, FetchLimit)
    /\ kw.done /\ ~kw.ok => dbFailed
    /\ sem.done /\ sem.ok => sem.hits = Limited(semantic, FetchLimit)
    /\ ~kw.done => kw.ok = FALSE

(* Who has failed by the time the request is where it is.                   *)
ProgressInv ==
    /\ pc \in {"keyword", "semantic", "hybrid", "load", "done"}
    /\ pc = "semantic" => mode = "semantic" /\ ~vecFailed
    /\ pc = "hybrid" => mode = "hybrid" /\ ((sem.done => sem.ok) => ~vecFailed)
    /\ pc = "load" => mode \in {"semantic", "hybrid"} /\ ~vecFailed
    /\ pc = "done" /\ answer.status = "error" => dbFailed
    /\ pc = "done" /\ (vecFailed \/ answer.mode = "keyword") =>
           answer \in {Error, Answer("keyword", Limited(keyword, limit))}

(* Neither half has answered.                                               *)
LEMMA HalvesInit == Init => HalvesInv
  BY DEF Init, HalvesInv, Pending

(* A half that answers has its ranking, cut at the fetch limit.             *)
LEMMA HalvesStep == HalvesInv /\ [Next]_vars => HalvesInv'
  <1> SUFFICES ASSUME HalvesInv, [Next]_vars PROVE HalvesInv'
    OBVIOUS
  <1> USE DEF HalvesInv
  <1>0. FetchLimit' = FetchLimit /\ UNCHANGED <<keyword, semantic>>
    BY RequestStep DEF Kept, request
  <1>1. CASE SearchScreenshots
    BY <1>1, <1>0 DEF SearchScreenshots, Answer, Error
  <1>2. CASE SemanticSearch
    BY <1>2, <1>0 DEF SemanticSearch
  <1>3. CASE KeywordHits
    BY <1>3, <1>0 DEF KeywordHits, Ok, Failed
  <1>4. CASE SemanticHits
    BY <1>4, <1>0 DEF SemanticHits, NearestPoints, Ok, Failed
  <1>5. CASE FailHybrid
    BY <1>5, <1>0 DEF FailHybrid, Joined, SearchFails, Error
  <1>6. CASE DegradeHybrid
    BY <1>6, <1>0 DEF DegradeHybrid, Joined, SearchFails, Answer, LimitShots
  <1>7. CASE MergeHybrid
    BY <1>7, <1>0 DEF MergeHybrid, Joined, SearchFails
  <1>8. CASE GetScreenshotsByIDs
    BY <1>8, <1>0 DEF GetScreenshotsByIDs, Answer, Error
  <1>9. CASE UNCHANGED vars
    BY <1>0, <1>9 DEF vars
  <1> QED
    BY <1>1, <1>2, <1>3, <1>4, <1>5, <1>6, <1>7, <1>8, <1>9 DEF Next

(* Nobody has failed and nothing is answered.                               *)
LEMMA ProgressInit == Init => ProgressInv
  BY DEF Init, ProgressInv, Pending

(* Every step leads where its failures and successes should lead.           *)
LEMMA ProgressStep ==
    ASSUME RequestTyped, HalvesInv, ProgressInv, [Next]_vars
    PROVE  ProgressInv'
  <1> USE DEF ProgressInv
  <1>0. UNCHANGED <<mode, limit, keyword, semantic>>
    BY RequestStep DEF Kept, request
  <1>1. CASE SearchScreenshots
    BY <1>1, <1>0 DEF SearchScreenshots, Answer, Error
  <1>2. CASE SemanticSearch
    BY <1>2, <1>0 DEF SemanticSearch
  <1>3. CASE KeywordHits
    BY <1>3, <1>0 DEF KeywordHits, Ok, Failed
  <1>4. CASE SemanticHits
    BY <1>4, <1>0 DEF SemanticHits, NearestPoints, Ok, Failed
  <1>5. CASE FailHybrid
    BY <1>0, <1>5 DEF FailHybrid, Joined, SearchFails, Error, HalvesInv
  <1>6. CASE DegradeHybrid
    <2>1. LimitShots(kw.hits) = Limited(keyword, limit)
      <3>1. kw.hits = Limited(keyword, FetchLimit)
        BY <1>6 DEF DegradeHybrid, Joined, SearchFails, HalvesInv
      <3> QED
        BY <3>1, LimitedTwice, FetchIsEnough DEF LimitShots, RequestTyped, IsRanking
    <2> QED
      BY <1>0, <2>1, <1>6 DEF DegradeHybrid, Joined, SearchFails, Answer
  <1>7. CASE MergeHybrid
    BY <1>7, <1>0 DEF MergeHybrid, Joined, SearchFails
  <1>8. CASE GetScreenshotsByIDs
    BY <1>8, <1>0 DEF GetScreenshotsByIDs, Answer, Error
  <1>9. CASE UNCHANGED vars
    BY <1>0, <1>9 DEF vars
  <1> QED
    BY <1>1, <1>2, <1>3, <1>4, <1>5, <1>6, <1>7, <1>8, <1>9 DEF Next

-----------------------------------------------------------------------------
(* Multiplication by a positive number keeps and reflects an order.         *)
LEMMA TimesKeeps ==
    ASSUME NEW x \in Nat, NEW y \in Nat, NEW z \in Nat \ {0}
    PROVE  /\ x < y <=> x * z < y * z
           /\ x <= y <=> x * z <= y * z
           /\ x * z \in Nat
  OBVIOUS

(* A score: a fraction of positive numbers.                                 *)
Fractions == (Nat \ {0}) \X (Nat \ {0})

(* Fractions are ordered by their values: at most is transitive, and strict *)
(* when one of the two is.                                                  *)
LEMMA LessIsOrder ==
    ASSUME NEW x \in Fractions, NEW y \in Fractions, NEW z \in Fractions,
           ~Less(y, x), ~Less(z, y)
    PROVE  /\ ~Less(z, x)
           /\ Less(x, y) \/ Less(y, z) => Less(x, z)
  <1> PICK a \in Nat \ {0}, b \in Nat \ {0} : x = <<a, b>>
    BY DEF Fractions
  <1> PICK c \in Nat \ {0}, d \in Nat \ {0} : y = <<c, d>>
    BY DEF Fractions
  <1> PICK e \in Nat \ {0}, f \in Nat \ {0} : z = <<e, f>>
    BY DEF Fractions
  <1>0. a * d \in Nat /\ c * b \in Nat /\ c * f \in Nat /\ e * d \in Nat /\ a * f \in Nat /\ e * b \in Nat
    OBVIOUS
  <1>1. /\ Less(x, y) <=> a * d < c * b
        /\ Less(y, x) <=> c * b < a * d
        /\ Less(y, z) <=> c * f < e * d
        /\ Less(z, y) <=> e * d < c * f
        /\ Less(x, z) <=> a * f < e * b
        /\ Less(z, x) <=> e * b < a * f
    BY DEF Less
  <1>2. a * d <= c * b /\ c * f <= e * d
    BY <1>0, <1>1
  <1>3. (a * d) * f <= (c * b) * f /\ (c * f) * b <= (e * d) * b
    BY <1>0, <1>2, TimesKeeps
  <1>4. (a * d) * f = (a * f) * d /\ (c * b) * f = (c * f) * b /\ (e * d) * b = (e * b) * d
    OBVIOUS
  <1>5. (a * f) * d <= (e * b) * d
    BY <1>0, <1>3, <1>4
  <1>6. ~Less(z, x)
    BY <1>0, <1>1, <1>5, TimesKeeps
  <1>7. ASSUME Less(x, y) PROVE Less(x, z)
    <2>1. (a * d) * f < (c * b) * f
      BY <1>0, <1>1, <1>7, TimesKeeps
    <2>2. (a * f) * d < (e * b) * d
      BY <1>0, <1>3, <1>4, <2>1
    <2> QED
      BY <1>0, <1>1, <2>2, TimesKeeps
  <1>8. ASSUME Less(y, z) PROVE Less(x, z)
    <2>1. (c * f) * b < (e * d) * b
      BY <1>0, <1>1, <1>8, TimesKeeps
    <2>2. (a * f) * d < (e * b) * d
      BY <1>0, <1>3, <1>4, <2>1
    <2> QED
      BY <1>0, <1>1, <2>2, TimesKeeps
  <1> QED
    BY <1>6, <1>7, <1>8

(* A fraction is not less than itself, nor less and more than another.      *)
LEMMA LessIsStrict ==
    ASSUME NEW x \in Fractions, NEW y \in Fractions
    PROVE  ~Less(x, x) /\ ~(Less(x, y) /\ Less(y, x))
  <1> PICK a \in Nat \ {0}, b \in Nat \ {0} : x = <<a, b>>
    BY DEF Fractions
  <1> PICK c \in Nat \ {0}, d \in Nat \ {0} : y = <<c, d>>
    BY DEF Fractions
  <1>1. a * d \in Nat /\ c * b \in Nat /\ a * b \in Nat
    OBVIOUS
  <1>2. /\ Less(x, x) <=> a * b < a * b
        /\ Less(x, y) <=> a * d < c * b
        /\ Less(y, x) <=> c * b < a * d
    BY DEF Less
  <1> QED
    BY <1>1, <1>2

(* In a finite set with a strict total order every place 1..n is taken: the *)
(* number of elements before one tells it from the others and orders them.  *)
LEMMA Places ==
    ASSUME NEW S, IsFiniteSet(S), NEW R,
           \A x \in S : <<x, x>> \notin R,
           \A x, y, z \in S : <<x, y>> \in R /\ <<y, z>> \in R => <<x, z>> \in R,
           \A x, y \in S : x # y => <<x, y>> \in R \/ <<y, x>> \in R
    PROVE  /\ \A x \in S : Cardinality({y \in S : <<y, x>> \in R}) \in 0..(Cardinality(S) - 1)
           /\ \A x, y \in S : <<x, y>> \in R <=>
                  Cardinality({u \in S : <<u, x>> \in R}) < Cardinality({u \in S : <<u, y>> \in R})
           /\ \A i \in 1..Cardinality(S) :
                  \E x \in S : Cardinality({y \in S : <<y, x>> \in R}) = i - 1
  <1> DEFINE ahead(x) == {y \in S : <<y, x>> \in R}
             n == Cardinality(S)
  <1>1. n \in Nat
    BY FS_CardinalityType
  <1>2. \A x : IsFiniteSet(ahead(x)) /\ Cardinality(ahead(x)) \in Nat
    <2> TAKE x
    <2>1. ahead(x) \in SUBSET S
      OBVIOUS
    <2>2. IsFiniteSet(ahead(x))
      BY <2>1, FS_Subset
    <2> QED
      BY <2>2, FS_CardinalityType
  <1>3. ASSUME NEW x \in S PROVE Cardinality(ahead(x)) \in 0..(n - 1)
    <2>1. ahead(x) \in SUBSET S /\ ahead(x) # S
      OBVIOUS
    <2>2. Cardinality(ahead(x)) <= n /\ Cardinality(ahead(x)) # n
      BY <2>1, FS_Subset
    <2>3. Cardinality(ahead(x)) \in Nat
      BY <1>2
    <2> HIDE DEF ahead, n
    <2> QED
      BY <1>1, <2>2, <2>3
  <1>4. ASSUME NEW x \in S, NEW y \in S, <<x, y>> \in R
        PROVE  Cardinality(ahead(x)) < Cardinality(ahead(y))
    <2>1. ahead(x) \in SUBSET ahead(y) /\ ahead(x) # ahead(y)
      BY <1>4
    <2>2. Cardinality(ahead(x)) <= Cardinality(ahead(y)) /\ Cardinality(ahead(x)) # Cardinality(ahead(y))
      BY <1>2, <2>1, FS_Subset
    <2>3. Cardinality(ahead(x)) \in Nat /\ Cardinality(ahead(y)) \in Nat
      BY <1>2
    <2> HIDE DEF ahead
    <2> QED
      BY <2>2, <2>3
  <1>5. ASSUME NEW x \in S, NEW y \in S
        PROVE  <<x, y>> \in R <=> Cardinality(ahead(x)) < Cardinality(ahead(y))
    <2>1. Cardinality(ahead(x)) \in Nat /\ Cardinality(ahead(y)) \in Nat
      BY <1>2
    <2>2. CASE x = y
      BY <2>1, <2>2
    <2>3. CASE <<x, y>> \in R
      BY <1>4, <2>3
    <2>4. CASE <<y, x>> \in R
      <3>1. Cardinality(ahead(y)) < Cardinality(ahead(x))
        BY <1>4, <2>4
      <3>2. <<x, y>> \notin R
        BY <2>4
      <3> HIDE DEF ahead
      <3> QED
        BY <2>1, <3>1, <3>2
    <2> QED
      BY <2>2, <2>3, <2>4
  <1>6. \A i \in 1..n : \E x \in S : Cardinality(ahead(x)) = i - 1
    <2> DEFINE f == [x \in S |-> Cardinality(ahead(x)) + 1]
    <2>1. f \in [S -> 1..n]
      <3>1. \A x \in S : Cardinality(ahead(x)) + 1 \in 1..n
        <4> HIDE DEF ahead, n
        <4> QED
          BY <1>1, <1>3
      <3> HIDE DEF ahead, n
      <3> QED
        BY <3>1
    <2>2. ASSUME NEW x \in S, NEW y \in S, f[x] = f[y] PROVE x = y
      <3>1. Cardinality(ahead(x)) \in Nat /\ Cardinality(ahead(y)) \in Nat
        BY <1>2
      <3>2. Cardinality(ahead(x)) = Cardinality(ahead(y))
        <4> HIDE DEF ahead
        <4> QED
          BY <2>2, <3>1
      <3>3. <<x, y>> \notin R /\ <<y, x>> \notin R
        <4>1. ~(Cardinality(ahead(x)) < Cardinality(ahead(y))) /\ ~(Cardinality(ahead(y)) < Cardinality(ahead(x)))
          <5> HIDE DEF ahead
          <5> QED
            BY <3>1, <3>2
        <4> QED
          BY <1>4, <4>1
      <3> QED
        BY <3>3
    <2>3. f \in Injection(S, 1..n)
      <3> HIDE DEF f
      <3> QED
        BY <2>1, <2>2 DEF Injection, IsInjective
    <2>4. IsFiniteSet(1..n) /\ Cardinality(1..n) = n
      BY <1>1, FS_Interval
    <2>5. f \in Surjection(S, 1..n)
      BY <2>3, <2>4, FS_Injection
    <2>6. \A i \in 1..n : \E x \in S : f[x] = i
      <3> HIDE DEF f
      <3> QED
        BY <2>5 DEF Surjection
    <2> SUFFICES ASSUME NEW i \in 1..n PROVE \E x \in S : Cardinality(ahead(x)) = i - 1
      OBVIOUS
    <2>7. PICK x \in S : f[x] = i
      BY <2>6
    <2>8. Cardinality(ahead(x)) + 1 = i /\ Cardinality(ahead(x)) \in Nat
      BY <1>2, <2>7
    <2> HIDE DEF ahead, n
    <2> QED
      BY <2>8
  <1> QED
    BY <1>3, <1>5, <1>6

-----------------------------------------------------------------------------
(* A hit of a ranking has one rank.                                         *)
LEMMA RankIs ==
    ASSUME NEW h, IsRanking(h)
    PROVE  /\ \A x : Holds(h, x) => Rank(h, x) \in 1..Len(h) /\ h[Rank(h, x)] = x
           /\ \A i \in 1..Len(h) : Holds(h, h[i]) /\ Rank(h, h[i]) = i
  <1>1. DOMAIN h = 1..Len(h)
    BY DEF IsRanking
  <1>2. \A x : Holds(h, x) => Rank(h, x) \in 1..Len(h) /\ h[Rank(h, x)] = x
    BY <1>1 DEF Holds, Rank
  <1>3. ASSUME NEW i \in 1..Len(h) PROVE Holds(h, h[i]) /\ Rank(h, h[i]) = i
    <2>1. Holds(h, h[i])
      BY <1>1 DEF Holds
    <2> QED
      BY <1>2, <2>1 DEF IsRanking
  <1> QED
    BY <1>2, <1>3

(* A limited ranking holds the hits of rank at most the limit, at the same  *)
(* ranks.                                                                   *)
LEMMA LimitedHolds ==
    ASSUME NEW h, IsRanking(h), NEW n \in Nat, NEW x
    PROVE  /\ Holds(Limited(h, n), x) <=> Holds(h, x) /\ Rank(h, x) <= n
           /\ Holds(Limited(h, n), x) => Rank(Limited(h, n), x) = Rank(h, x)
  <1> DEFINE l == Limited(h, n)
  <1>1. IsRanking(l)
    BY LimitedRanking
  <1>2. /\ Len(l) = IF n < Len(h) THEN n ELSE Len(h)
        /\ \A i \in 1..Len(l) : i \in 1..Len(h) /\ l[i] = h[i]
        /\ Len(h) \in Nat
    BY LimitedIs DEF IsRanking
  <1> HIDE DEF l
  <1>3. ASSUME Holds(l, x)
        PROVE  Holds(h, x) /\ Rank(h, x) <= n /\ Rank(l, x) = Rank(h, x)
    <2> DEFINE i == Rank(l, x)
    <2>1. i \in 1..Len(l) /\ l[i] = x
      BY <1>1, <1>3, RankIs
    <2> HIDE DEF i
    <2>2. i \in 1..Len(h) /\ h[i] = x /\ i <= n
      BY <1>2, <2>1
    <2>3. Holds(h, x) /\ Rank(h, x) = i
      BY <2>2, RankIs
    <2> QED
      BY <2>2, <2>3 DEF i
  <1>4. ASSUME Holds(h, x), Rank(h, x) <= n PROVE Holds(l, x)
    <2> DEFINE i == Rank(h, x)
    <2>1. i \in 1..Len(h) /\ h[i] = x
      BY <1>4, RankIs
    <2>2. i \in 1..Len(l)
      BY <1>2, <1>4, <2>1
    <2>3. l[i] = x
      BY <1>2, <2>1, <2>2
    <2> QED
      BY <1>1, <2>2, <2>3, RankIs
  <1> QED
    BY <1>3, <1>4 DEF l

(* The share of a rank, and a sum of two, are fractions.                    *)
LEMMA ScoreIs ==
    ASSUME NEW a, IsRanking(a), NEW b, IsRanking(b), NEW x, Holds(a, x) \/ Holds(b, x)
    PROVE  Score(a, b, x) \in Fractions
  <1>1. \A h : IsRanking(h) /\ Holds(h, x) => K + Rank(h, x) \in Nat \ {0}
    <2> TAKE h
    <2> HAVE IsRanking(h) /\ Holds(h, x)
    <2>1. Rank(h, x) \in 1..Len(h) /\ Len(h) \in Nat
      BY RankIs DEF IsRanking
    <2> QED
      BY <2>1, SearchAssumption
  <1>2. \A m, n \in Nat \ {0} : Plus(<<1, m>>, <<1, n>>) \in Fractions
    <2> TAKE m, n \in Nat \ {0}
    <2>1. Plus(<<1, m>>, <<1, n>>) = <<n + m, m * n>>
      BY DEF Plus
    <2>2. n + m \in Nat \ {0} /\ m * n \in Nat \ {0}
      OBVIOUS
    <2> QED
      BY <2>1, <2>2 DEF Fractions
  <1>3. \A m \in Nat \ {0} : <<1, m>> \in Fractions
    BY DEF Fractions
  <1>4. CASE Holds(a, x) /\ Holds(b, x)
    BY <1>1, <1>2, <1>4 DEF Score
  <1>5. CASE Holds(a, x) /\ ~Holds(b, x)
    BY <1>1, <1>3, <1>5 DEF Score
  <1>6. CASE ~Holds(a, x)
    BY <1>1, <1>3, <1>6 DEF Score
  <1> QED
    BY <1>4, <1>5, <1>6

(* Best first, and ids among equals: a strict total order of the hits.      *)
LEMMA BeforeIsOrder ==
    ASSUME NEW a, IsRanking(a), NEW b, IsRanking(b)
    PROVE  LET found == ToSet(a) \cup ToSet(b)
           IN  /\ \A x \in found : ~Before(a, b, x, x)
               /\ \A x, y, z \in found : Before(a, b, x, y) /\ Before(a, b, y, z) => Before(a, b, x, z)
               /\ \A x, y \in found : x # y => Before(a, b, x, y) \/ Before(a, b, y, x)
  <1> DEFINE found == ToSet(a) \cup ToSet(b)
  <1>1. \A x \in found : (Holds(a, x) \/ Holds(b, x)) /\ x \in Nat
    <2>1. found \subseteq Ids
      BY DEF ToSet, IsRanking
    <2>2. \A x \in found : Holds(a, x) \/ Holds(b, x)
      BY DEF ToSet, Holds
    <2> QED
      BY <2>1, <2>2, SearchAssumption
  <1>2. \A x \in found : Score(a, b, x) \in Fractions
    BY <1>1, ScoreIs
  <1>3. ASSUME NEW x \in found PROVE ~Before(a, b, x, x)
    BY <1>1, <1>2, LessIsStrict DEF Before
  <1>4. ASSUME NEW x \in found, NEW y \in found, NEW z \in found, Before(a, b, x, y), Before(a, b, y, z)
        PROVE  Before(a, b, x, z)
    <2>1. ~Less(Score(a, b, x), Score(a, b, y)) /\ ~Less(Score(a, b, y), Score(a, b, z))
      BY <1>2, <1>4, LessIsStrict DEF Before
    <2>2. /\ ~Less(Score(a, b, x), Score(a, b, z))
          /\ Less(Score(a, b, z), Score(a, b, y)) \/ Less(Score(a, b, y), Score(a, b, x))
                 => Less(Score(a, b, z), Score(a, b, x))
      BY <1>2, <2>1, LessIsOrder
    <2>3. CASE Less(Score(a, b, z), Score(a, b, y)) \/ Less(Score(a, b, y), Score(a, b, x))
      BY <2>2, <2>3 DEF Before
    <2>4. CASE x < y /\ y < z
      BY <1>1, <2>2, <2>4 DEF Before
    <2> QED
      BY <1>4, <2>3, <2>4 DEF Before
  <1>5. ASSUME NEW x \in found, NEW y \in found, x # y
        PROVE  Before(a, b, x, y) \/ Before(a, b, y, x)
    BY <1>1, <1>5 DEF Before
  <1> QED
    BY <1>3, <1>4, <1>5

(* rrfMerge: a ranking of what was found in which a hit that comes before   *)
(* one of the answer is in the answer, at an earlier place.                 *)
LEMMA MergeIs ==
    ASSUME NEW a, IsRanking(a), NEW b, IsRanking(b), NEW n \in Nat
    PROVE  LET found == ToSet(a) \cup ToSet(b)
               merged == RRFMerge(a, b, n)
           IN  /\ IsRanking(merged)
               /\ \A i \in 1..Len(merged) :
                   /\ merged[i] \in found
                   /\ \A y \in found : Before(a, b, y, merged[i]) => \E j \in 1..i-1 : merged[j] = y
  <1> DEFINE found == ToSet(a) \cup ToSet(b)
             ahead(x) == {y \in found : Before(a, b, y, x)}
             size == Cardinality(found)
             sorted == [i \in 1..size |-> CHOOSE x \in found : Cardinality(ahead(x)) = i - 1]
             R == {p \in found \X found : Before(a, b, p[1], p[2])}
  <1>1. found \subseteq Ids
    BY DEF ToSet, IsRanking
  <1>2. IsFiniteSet(found) /\ size \in Nat
    BY <1>1, FS_Subset, FS_CardinalityType, SearchAssumption
  <1>3. \A x, y \in found : <<x, y>> \in R <=> Before(a, b, x, y)
    OBVIOUS
  <1>4. \A x \in found : ahead(x) = {y \in found : <<y, x>> \in R}
    BY <1>3
  <1>5. /\ \A x \in found : ~Before(a, b, x, x)
        /\ \A x, y, z \in found : Before(a, b, x, y) /\ Before(a, b, y, z) => Before(a, b, x, z)
        /\ \A x, y \in found : x # y => Before(a, b, x, y) \/ Before(a, b, y, x)
    BY BeforeIsOrder
  <1>6. /\ \A x \in found : <<x, x>> \notin R
        /\ \A x, y, z \in found : <<x, y>> \in R /\ <<y, z>> \in R => <<x, z>> \in R
        /\ \A x, y \in found : x # y => <<x, y>> \in R \/ <<y, x>> \in R
    <2> HIDE DEF R, found
    <2> QED
      BY <1>3, <1>5
  <1> HIDE DEF R
  <1>7. /\ \A x \in found : Cardinality(ahead(x)) \in 0..(size - 1)
        /\ \A x, y \in found : Before(a, b, x, y) <=> Cardinality(ahead(x)) < Cardinality(ahead(y))
        /\ \A i \in 1..size : \E x \in found : Cardinality(ahead(x)) = i - 1
    <2> HIDE DEF found
    <2>1. /\ \A x \in found : Cardinality({y \in found : <<y, x>> \in R}) \in 0..(size - 1)
          /\ \A x, y \in found : <<x, y>> \in R <=>
                 Cardinality({u \in found : <<u, x>> \in R}) < Cardinality({u \in found : <<u, y>> \in R})
          /\ \A i \in 1..size : \E x \in found : Cardinality({y \in found : <<y, x>> \in R}) = i - 1
      BY <1>2, <1>6, Places
    <2> QED
      BY <1>3, <1>4, <2>1
  <1> HIDE DEF found, ahead, size
  <1>8. \A i \in 1..size : sorted[i] \in found /\ Cardinality(ahead(sorted[i])) = i - 1
    BY <1>7
  <1>9. \A x, y \in found : Cardinality(ahead(x)) = Cardinality(ahead(y)) => x = y
    <2> SUFFICES ASSUME NEW x \in found, NEW y \in found, Cardinality(ahead(x)) = Cardinality(ahead(y))
                 PROVE  x = y
      OBVIOUS
    <2>1. Cardinality(ahead(x)) \in Int /\ Cardinality(ahead(y)) \in Int
      BY <1>2, <1>7
    <2>2. ~Before(a, b, x, y) /\ ~Before(a, b, y, x)
      BY <1>7, <2>1
    <2> QED
      BY <1>5, <2>2
  <1>10. sorted \in Seq(Ids) /\ Len(sorted) = size
    BY <1>1, <1>2, <1>8
  <1> HIDE DEF sorted
  <1>11. IsRanking(sorted)
    BY <1>2, <1>8, <1>10 DEF IsRanking
  <1>12. ASSUME NEW i \in 1..size, NEW y \in found, Before(a, b, y, sorted[i])
         PROVE  \E j \in 1..i-1 : sorted[j] = y
    <2> DEFINE j == Cardinality(ahead(y)) + 1
    <2>1. Cardinality(ahead(y)) < i - 1
      BY <1>7, <1>8, <1>12
    <2>2. Cardinality(ahead(y)) \in 0..(size - 1)
      BY <1>7
    <2>3. j \in 1..i-1 /\ j \in 1..size /\ j - 1 = Cardinality(ahead(y))
      BY <1>2, <2>1, <2>2
    <2> HIDE DEF j
    <2>4. Cardinality(ahead(sorted[j])) = Cardinality(ahead(y)) /\ sorted[j] \in found
      BY <1>8, <2>3
    <2>5. sorted[j] = y
      BY <1>9, <2>4
    <2> QED
      BY <2>3, <2>5
  <1> DEFINE merged == RRFMerge(a, b, n)
  <1>13. merged = Limited(sorted, n)
    BY DEF RRFMerge, sorted, found, ahead, size
  <1>14. IsRanking(merged)
    BY <1>11, <1>13, LimitedRanking
  <1>15. \A i \in 1..Len(merged) : i \in 1..size /\ merged[i] = sorted[i]
    BY <1>10, <1>13, LimitedIs
  <1>16. Len(merged) \in Nat
    BY <1>14 DEF IsRanking
  <1> HIDE DEF merged
  <1>17. ASSUME NEW i \in 1..Len(merged)
         PROVE  /\ merged[i] \in found
                /\ \A y \in found : Before(a, b, y, merged[i]) => \E j \in 1..i-1 : merged[j] = y
    <2>1. merged[i] \in found
      BY <1>8, <1>15
    <2>2. ASSUME NEW y \in found, Before(a, b, y, merged[i]) PROVE \E j \in 1..i-1 : merged[j] = y
      <3>1. PICK j \in 1..i-1 : sorted[j] = y
        BY <1>12, <1>15, <2>2
      <3>2. j \in 1..Len(merged)
        BY <1>16
      <3> QED
        BY <1>15, <3>1, <3>2
    <2> QED
      BY <2>1, <2>2
  <1> QED
    BY <1>14, <1>17 DEF merged, found

-----------------------------------------------------------------------------
(* A score is greater when a rank is smaller, and when there is one more.   *)
LEMMA SmallerRanksScoreMore ==
    ASSUME NEW p \in Nat \ {0}, NEW q \in Nat \ {0}, NEW u \in Nat \ {0}, NEW v \in Nat \ {0}, p < u
    PROVE  /\ Less(<<1, u>>, <<1, p>>)
           /\ Less(<<1, u>>, Plus(<<1, p>>, <<1, q>>))
           /\ Less(<<1, u>>, Plus(<<1, q>>, <<1, p>>))
           /\ q < v => Less(Plus(<<1, u>>, <<1, v>>), Plus(<<1, p>>, <<1, q>>))
  <1>1. p * q < u * q /\ u * q \in Nat /\ u * p \in Nat /\ p * q \in Nat
    BY TimesKeeps
  <1>2. Less(<<1, u>>, <<1, p>>)
    BY DEF Less
  <1>3. Plus(<<1, p>>, <<1, q>>) = <<q + p, p * q>> /\ Plus(<<1, q>>, <<1, p>>) = <<p + q, q * p>>
        /\ Plus(<<1, u>>, <<1, v>>) = <<v + u, u * v>>
    BY DEF Plus
  <1>4. (q + p) * u = u * q + u * p /\ (p + q) * u = u * q + u * p /\ q * p = p * q
    OBVIOUS
  <1>5. 1 * (p * q) < (q + p) * u /\ 1 * (q * p) < (p + q) * u
    BY <1>1, <1>4
  <1>6. Less(<<1, u>>, Plus(<<1, p>>, <<1, q>>)) /\ Less(<<1, u>>, Plus(<<1, q>>, <<1, p>>))
    BY <1>3, <1>5 DEF Less
  <1>7. ASSUME q < v PROVE Less(Plus(<<1, u>>, <<1, v>>), Plus(<<1, p>>, <<1, q>>))
    <2> DEFINE pq == p * q
               uv == u * v
    <2>1. v * pq = (p * v) * q /\ u * pq = (u * p) * q /\ q * uv = (u * v) * q /\ p * uv = (u * p) * v
      OBVIOUS
    <2>2. p * v < u * v /\ p * v \in Nat /\ u * v \in Nat
      BY TimesKeeps
    <2>3. (p * v) * q < (u * v) * q /\ (p * v) * q \in Nat /\ (u * v) * q \in Nat
      BY <2>2, TimesKeeps
    <2>4. q * (u * p) < v * (u * p) /\ q * (u * p) \in Nat /\ v * (u * p) \in Nat
      <3>1. u * p \in Nat \ {0}
        OBVIOUS
      <3> QED
        BY <1>7, <3>1, TimesKeeps
    <2>5. (u * p) * q = q * (u * p) /\ (u * p) * v = v * (u * p)
      OBVIOUS
    <2>6. (v + u) * pq = v * pq + u * pq /\ (q + p) * uv = q * uv + p * uv
      OBVIOUS
    <2>7. v * pq + u * pq < q * uv + p * uv
      <3> HIDE DEF pq, uv
      <3> QED
        BY <2>1, <2>3, <2>4, <2>5
    <2>8. (v + u) * pq < (q + p) * uv
      BY <2>6, <2>7
    <2> QED
      BY <1>3, <2>8 DEF Less
  <1> QED
    BY <1>2, <1>6, <1>7

(* The hits that a hybrid search fuses.                                     *)
FetchedKeyword == Limited(keyword, FetchLimit)
FetchedSemantic == Limited(semantic, FetchLimit)
Fetched == ToSet(FetchedKeyword) \cup ToSet(FetchedSemantic)

(* A hit that both searches prefer to a fetched one is fetched too, and     *)
(* scores more: what a LIMIT cuts off is behind what it leaves.             *)
LEMMA PreferredIsBefore ==
    ASSUME RequestTyped, NEW x \in Fetched, NEW y \in Ids, Dominates(y, x)
    PROVE  y \in Fetched /\ Before(FetchedKeyword, FetchedSemantic, y, x)
  <1> DEFINE a == FetchedKeyword
             b == FetchedSemantic
             rank(h, z) == K + Rank(h, z)
  <1>1. FetchLimit \in Nat
    BY FetchIsEnough DEF RequestTyped
  <1>2. IsRanking(a) /\ IsRanking(b)
    BY <1>1, LimitedRanking DEF RequestTyped, FetchedKeyword, FetchedSemantic
  <1>3. \A h, z : IsRanking(h) /\ Holds(h, z) => Rank(h, z) \in Nat /\ rank(h, z) \in Nat \ {0}
    <2> TAKE h, z
    <2> HAVE IsRanking(h) /\ Holds(h, z)
    <2>1. Rank(h, z) \in 1..Len(h) /\ Len(h) \in Nat
      BY RankIs DEF IsRanking
    <2> QED
      BY <2>1, SearchAssumption
  <1>4. /\ Holds(keyword, x) => Holds(keyword, y) /\ Rank(keyword, y) < Rank(keyword, x)
        /\ Holds(semantic, x) => Holds(semantic, y) /\ Rank(semantic, y) < Rank(semantic, x)
    BY DEF Dominates
  <1>5. \A h : IsRanking(h) /\ Holds(Limited(h, FetchLimit), x) /\ Holds(h, y) /\ Rank(h, y) < Rank(h, x)
               => /\ Holds(Limited(h, FetchLimit), y)
                  /\ rank(Limited(h, FetchLimit), y) < rank(Limited(h, FetchLimit), x)
    <2> TAKE h
    <2> HAVE IsRanking(h) /\ Holds(Limited(h, FetchLimit), x) /\ Holds(h, y) /\ Rank(h, y) < Rank(h, x)
    <2>1. /\ Holds(h, x) /\ Rank(h, x) <= FetchLimit
          /\ Rank(Limited(h, FetchLimit), x) = Rank(h, x)
      BY <1>1, LimitedHolds
    <2>2. Rank(h, x) \in Nat /\ Rank(h, y) \in Nat
      BY <1>3, <2>1
    <2>3. Rank(h, y) <= FetchLimit
      BY <1>1, <2>1, <2>2
    <2>4. Holds(Limited(h, FetchLimit), y) /\ Rank(Limited(h, FetchLimit), y) = Rank(h, y)
      BY <1>1, <2>3, LimitedHolds
    <2> QED
      BY <2>1, <2>2, <2>4, SearchAssumption
  <1>6. Holds(a, x) => Holds(a, y) /\ rank(a, y) < rank(a, x)
    BY <1>1, <1>4, <1>5, LimitedHolds DEF RequestTyped, FetchedKeyword
  <1>7. Holds(b, x) => Holds(b, y) /\ rank(b, y) < rank(b, x)
    BY <1>1, <1>4, <1>5, LimitedHolds DEF RequestTyped, FetchedSemantic
  <1>8. Holds(a, x) \/ Holds(b, x)
    BY DEF Fetched, ToSet, Holds
  <1>9. y \in Fetched
    BY <1>6, <1>7, <1>8 DEF Fetched, ToSet, Holds
  <1> HIDE DEF a, b, rank
  <1>10. \A z : Score(a, b, z) = IF Holds(a, z) /\ Holds(b, z) THEN Plus(<<1, rank(a, z)>>, <<1, rank(b, z)>>)
                                 ELSE IF Holds(a, z) THEN <<1, rank(a, z)>> ELSE <<1, rank(b, z)>>
    BY DEF Score, rank
  <1>11. Less(Score(a, b, x), Score(a, b, y))
    <2>1. CASE Holds(a, x) /\ Holds(b, x)
      BY <1>2, <1>3, <1>6, <1>7, <1>10, <2>1, SmallerRanksScoreMore
    <2>2. CASE Holds(a, x) /\ ~Holds(b, x)
      BY <1>2, <1>3, <1>6, <1>10, <2>2, SmallerRanksScoreMore
    <2>3. CASE ~Holds(a, x) /\ Holds(b, x)
      BY <1>2, <1>3, <1>7, <1>10, <2>3, SmallerRanksScoreMore
    <2> QED
      BY <1>8, <2>1, <2>2, <2>3
  <1> QED
    BY <1>9, <1>11 DEF Before, a, b

(* The fused answer is the merge of what both halves fetched.               *)
FusedInv ==
    /\ pc = "load" /\ mode = "hybrid" => ids = RRFMerge(FetchedKeyword, FetchedSemantic, limit)
    /\ answer.mode = "hybrid" => answer.items = RRFMerge(FetchedKeyword, FetchedSemantic, limit)

(* Nothing is merged.                                                       *)
LEMMA FusedInit == Init => FusedInv
  BY DEF Init, FusedInv, NoAnswer

(* Only MergeHybrid merges, and loading the rows keeps the order.           *)
LEMMA FusedStep ==
    ASSUME HalvesInv, ProgressInv, FusedInv, [Next]_vars
    PROVE  FusedInv'
  <1> DEFINE M == RRFMerge(FetchedKeyword, FetchedSemantic, limit)
  <1>0. M' = M /\ mode' = mode
    <2>1. UNCHANGED <<keyword, semantic, limit, mode>> /\ FetchLimit' = FetchLimit
      BY RequestStep DEF Kept, request
    <2> QED
      BY <2>1 DEF FetchedKeyword, FetchedSemantic, RRFMerge, Before, Score
  <1>a. Joined /\ kw.ok /\ sem.ok => RRFMerge(kw.hits, sem.hits, limit) = M
    BY DEF Joined, HalvesInv, FetchedKeyword, FetchedSemantic
  <1> HIDE DEF M
  <1> SUFFICES /\ pc' = "load" /\ mode' = "hybrid" => ids' = M
               /\ answer'.mode = "hybrid" => answer'.items = M
    BY <1>0 DEF FusedInv, M
  <1>b. /\ pc = "load" /\ mode = "hybrid" => ids = M
        /\ answer.mode = "hybrid" => answer.items = M
    BY DEF FusedInv, M
  <1>1. CASE SearchScreenshots
    BY <1>1, <1>0, <1>b DEF SearchScreenshots, Answer, Error
  <1>2. CASE SemanticSearch
    BY <1>0, <1>b, <1>2 DEF SemanticSearch, ProgressInv
  <1>3. CASE KeywordHits
    BY <1>3, <1>0, <1>b DEF KeywordHits, Ok, Failed
  <1>4. CASE SemanticHits
    BY <1>4, <1>0, <1>b DEF SemanticHits, NearestPoints, Ok, Failed
  <1>5. CASE FailHybrid
    BY <1>5, <1>0, <1>b DEF FailHybrid, Joined, SearchFails, Error
  <1>6. CASE DegradeHybrid
    BY <1>6, <1>0, <1>b DEF DegradeHybrid, Joined, SearchFails, Answer, LimitShots
  <1>7. CASE MergeHybrid
    BY <1>0, <1>a, <1>b, <1>7 DEF MergeHybrid, SearchFails
  <1>8. CASE GetScreenshotsByIDs
    BY <1>8, <1>0, <1>b DEF GetScreenshotsByIDs, Answer, Error
  <1>9. CASE UNCHANGED vars
    BY <1>0, <1>b, <1>9 DEF vars
  <1> QED
    BY <1>1, <1>2, <1>3, <1>4, <1>5, <1>6, <1>7, <1>8, <1>9 DEF Next
-----------------------------------------------------------------------------
(* The types of what a search produces.                                     *)
Answers == [status : {"none", "ok", "error"},
            mode : {"none", "keyword", "semantic", "hybrid"}, items : Rankings]
ResultsTyped == kw \in Results /\ sem \in Results /\ ids \in Rankings /\ answer \in Answers
HistoryTyped == dbFailed \in BOOLEAN /\ vecFailed \in BOOLEAN

(* Finding nothing is a ranking.                                            *)
LEMMA NoHitsIsRanking == <<>> \in Rankings
  <1>1. IsRanking(<<>>)
    BY DEF IsRanking
  <1> QED
    BY <1>1, RankingsAre

(* A cut of a ranking, and the merge of two, are rankings.                  *)
LEMMA AnswersAreRankings ==
    /\ \A h \in Rankings : \A n \in Nat : Limited(h, n) \in Rankings
    /\ \A a, b \in Rankings : \A n \in Nat : RRFMerge(a, b, n) \in Rankings
  BY RankingsAre, LimitedRanking, MergeIs

(* A goroutine's result and an answer are records of these types.           *)
LEMMA RecordsAreTyped ==
    /\ Pending \in Results /\ Failed \in Results
    /\ \A h \in Rankings : Ok(h) \in Results
    /\ NoAnswer \in Answers /\ Error \in Answers
    /\ \A h \in Rankings : \A m \in {"keyword", "semantic", "hybrid"} : Answer(m, h) \in Answers
  <1>1. Pending \in Results /\ Failed \in Results
    BY NoHitsIsRanking, Zenon DEF Pending, Failed, Results
  <1>2. \A h \in Rankings : Ok(h) \in Results
    BY Zenon DEF Ok, Results
  <1>3. NoAnswer \in Answers /\ Error \in Answers
    BY NoHitsIsRanking DEF NoAnswer, Error, Answers
  <1>4. \A h \in Rankings : \A m \in {"keyword", "semantic", "hybrid"} : Answer(m, h) \in Answers
    BY DEF Answer, Answers
  <1> QED
    BY <1>1, <1>2, <1>3, <1>4

(* Nothing is found, answered or failed.                                    *)
LEMMA ResultsInit == Init => ResultsTyped /\ HistoryTyped
  <1>1. Init => ResultsTyped
    BY NoHitsIsRanking, RecordsAreTyped DEF Init, ResultsTyped
  <1>2. Init => HistoryTyped
    BY Zenon DEF Init, HistoryTyped
  <1> QED
    BY <1>1, <1>2

(* The two history variables are only ever set.                             *)
LEMMA HistoryStep == HistoryTyped /\ [Next]_vars => HistoryTyped'
  BY Zenon DEF HistoryTyped, vars, Next, SearchScreenshots, SemanticSearch, KeywordHits,
     SemanticHits, FailHybrid,
     DegradeHybrid, MergeHybrid, GetScreenshotsByIDs

(* What is found, fused and answered is a ranking.                          *)
LEMMA ResultsStep ==
    ASSUME RequestTyped, ProgressInv, ResultsTyped, [Next]_vars
    PROVE  ResultsTyped'
  <1> USE DEF ResultsTyped
  <1>0. /\ keyword \in Rankings /\ semantic \in Rankings /\ FetchLimit \in Nat /\ limit \in Nat
        /\ mode \in {"keyword", "semantic", "hybrid"}
    BY RankingsAre, FetchIsEnough, SearchAssumption DEF RequestTyped
  <1>a. kw.hits \in Rankings /\ sem.hits \in Rankings
    BY DEF Results
  <1>1. CASE SearchScreenshots
    BY <1>1, <1>0, RecordsAreTyped, AnswersAreRankings DEF SearchScreenshots
  <1>2. CASE SemanticSearch
    BY <1>2, <1>0, AnswersAreRankings DEF SemanticSearch, NearestPoints
  <1>3. CASE KeywordHits
    BY <1>3, <1>0, RecordsAreTyped, AnswersAreRankings DEF KeywordHits
  <1>4. CASE SemanticHits
    BY <1>4, <1>0, RecordsAreTyped, AnswersAreRankings DEF SemanticHits, NearestPoints
  <1>5. CASE FailHybrid
    BY <1>5, RecordsAreTyped DEF FailHybrid
  <1>6. CASE DegradeHybrid
    BY <1>6, <1>0, <1>a, RecordsAreTyped, AnswersAreRankings DEF DegradeHybrid, LimitShots
  <1>7. CASE MergeHybrid
    BY <1>7, <1>0, <1>a, AnswersAreRankings DEF MergeHybrid
  <1>8. CASE GetScreenshotsByIDs
    BY <1>8, <1>0, RecordsAreTyped DEF GetScreenshotsByIDs
  <1>9. CASE UNCHANGED vars
    BY <1>9 DEF vars
  <1> QED
    BY <1>1, <1>2, <1>3, <1>4, <1>5, <1>6, <1>7, <1>8, <1>9 DEF Next

-----------------------------------------------------------------------------
(* What a search has found, who has failed, and what it answers agree in    *)
(* every reachable state.                                                   *)
SearchInv == RequestTyped /\ HalvesInv /\ ProgressInv /\ FusedInv /\ ResultsTyped /\ HistoryTyped

(* The inductive invariant of a search.                                     *)
THEOREM SearchInvariant == Spec => []SearchInv
  <1>1. Init => SearchInv
    BY RequestInit, HalvesInit, ProgressInit, FusedInit, ResultsInit DEF SearchInv
  <1>2. SearchInv /\ [Next]_vars => SearchInv'
    BY RequestTypedStep, HalvesStep, ProgressStep, FusedStep, ResultsStep, HistoryStep DEF SearchInv
  <1> QED
    BY <1>1, <1>2, PTL DEF Spec

(* TypeOK: every variable keeps its type; the fused answer is a ranking.    *)
THEOREM TypeCorrect == Spec => []TypeOK
  <1>1. SearchInv => TypeOK
    BY RankingsAre DEF SearchInv, RequestTyped, ProgressInv, ResultsTyped, HistoryTyped, Answers,
       TypeOK
  <1> QED
    BY SearchInvariant, <1>1, PTL

(* DegradesToKeyword: a search fails only with MySQL, and without vectors   *)
(* it answers what mode=keyword would.                                      *)
THEOREM Degradation == Spec => []DegradesToKeyword
  <1>1. SearchInv => DegradesToKeyword
    BY DEF SearchInv, ProgressInv, DegradesToKeyword
  <1> QED
    BY SearchInvariant, <1>1, PTL

(* FusionKeepsAgreedOrder: a hit that both searches prefer to one of the    *)
(* fused answer is in the answer, before it.                                *)
THEOREM FusionOrder == Spec => []FusionKeepsAgreedOrder
  <1>1. SearchInv => FusionKeepsAgreedOrder
    <2> SUFFICES ASSUME SearchInv, answer.mode = "hybrid",
                        NEW i \in DOMAIN answer.items, NEW y \in Ids, Dominates(y, answer.items[i])
                 PROVE  \E j \in 1..i-1 : answer.items[j] = y
      BY DEF FusionKeepsAgreedOrder
    <2> DEFINE M == RRFMerge(FetchedKeyword, FetchedSemantic, limit)
    <2>1. answer.items = M
      BY DEF SearchInv, FusedInv
    <2>2. FetchLimit \in Nat /\ limit \in Nat
      BY FetchIsEnough, SearchAssumption DEF SearchInv, RequestTyped
    <2>3. IsRanking(FetchedKeyword) /\ IsRanking(FetchedSemantic)
      BY <2>2, LimitedRanking DEF SearchInv, RequestTyped, FetchedKeyword, FetchedSemantic
    <2>4. /\ IsRanking(M)
          /\ \A k \in 1..Len(M) :
              /\ M[k] \in Fetched
              /\ \A z \in Fetched : Before(FetchedKeyword, FetchedSemantic, z, M[k]) => \E j \in 1..k-1 : M[j] = z
      BY <2>2, <2>3, MergeIs DEF Fetched
    <2> HIDE DEF M
    <2>5. i \in 1..Len(M) /\ M[i] \in Fetched
      BY <2>1, <2>4 DEF IsRanking
    <2>6. y \in Fetched /\ Before(FetchedKeyword, FetchedSemantic, y, M[i])
      BY <2>1, <2>5, PreferredIsBefore DEF SearchInv
    <2> QED
      BY <2>1, <2>4, <2>5, <2>6
  <1> QED
    BY SearchInvariant, <1>1, PTL

=============================================================================

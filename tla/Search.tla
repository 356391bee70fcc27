-------------------------------- MODULE Search --------------------------------
(***************************************************************************)
(* GET /v1/search (internal/httpapi/search.go): one request, in the modes   *)
(* keyword, semantic and hybrid, with the two goroutines of the hybrid      *)
(* search, reciprocal rank fusion and the ways in which a search without     *)
(* vectors degrades.                                                        *)
(*                                                                         *)
(* A screenshot is the number of its id in the order of the ids.  What      *)
(* MySQL and the vector store would answer without a LIMIT is chosen once:  *)
(* a request makes one keyword query, so the order that MySQL picks among   *)
(* rows of one second (ORDER BY created_at alone) is a part of that choice. *)
(* Scores are exact fractions.                                              *)
(***************************************************************************)
EXTENDS Integers, Sequences, SequencesExt

CONSTANTS Ids,       (* the screenshots of the device                         *)
          Limits,    (* the limits that requests ask for                      *)
          K,         (* rrfK, 60 in the code                                  *)
          MinFetch   (* the least number of hits a hybrid search fetches (20) *)

ASSUME SearchAssumption ==
    /\ Ids \subseteq Nat /\ IsFiniteSet(Ids)
    /\ Limits \subseteq Nat \ {0}
    /\ K \in Nat
    /\ MinFetch \in Nat

VARIABLES
    enabled,  \* QDRANT_ENABLED
    vectors,  \* what openVectorStore made of it
    mode, limit,         \* of the request
    keyword, semantic,   \* every hit of either search, best first
    pc,
    kw, sem,  \* results of the two goroutines
    ids,      \* the ranked ids whose rows are to be read
    answer,
    dbFailed, vecFailed  \* history: a statement failed; the vector search did

vars == <<enabled, vectors, mode, limit, keyword, semantic, pc, kw, sem, ids, answer,
          dbFailed, vecFailed>>

request == <<enabled, vectors, mode, limit, keyword, semantic>>

Rankings == UNION {SetToSeqs(S) : S \in SUBSET Ids}

Pending == [done |-> FALSE, ok |-> FALSE, hits |-> <<>>]
Ok(hits) == [done |-> TRUE, ok |-> TRUE, hits |-> hits]
Failed == [done |-> TRUE, ok |-> FALSE, hits |-> <<>>]

NoAnswer == [status |-> "none", mode |-> "none", items |-> <<>>]
Answer(m, items) == [status |-> "ok", mode |-> m, items |-> items]
Error == [status |-> "error", mode |-> "none", items |-> <<>>]

Results == [done : BOOLEAN, ok : BOOLEAN, hits : Rankings]

TypeOK ==
    /\ enabled \in BOOLEAN
    /\ vectors \in {"qdrant", "memory", "none"}
    /\ mode \in {"keyword", "semantic", "hybrid"}
    /\ limit \in Limits
    /\ keyword \in Rankings /\ semantic \in Rankings
    /\ pc \in {"keyword", "semantic", "hybrid", "load", "done"}
    /\ kw \in Results /\ sem \in Results
    /\ ids \in Rankings
    /\ answer \in [status : {"none", "ok", "error"},
                   mode : {"none", "keyword", "semantic", "hybrid"}, items : Rankings]
    /\ dbFailed \in BOOLEAN /\ vecFailed \in BOOLEAN

(* openVectorStore: a disabled Qdrant is replaced by the in-memory store.   *)
OpenVectorStore == IF enabled THEN {"qdrant", "none"} ELSE {"memory"}

Init ==
    /\ enabled \in BOOLEAN
    /\ vectors \in OpenVectorStore
    /\ mode \in {"keyword", "semantic", "hybrid"}
    /\ limit \in Limits
    /\ keyword \in Rankings /\ semantic \in Rankings
    /\ pc = mode
    /\ kw = Pending /\ sem = Pending
    /\ ids = <<>>
    /\ answer = NoAnswer
    /\ dbFailed = FALSE /\ vecFailed = FALSE

-----------------------------------------------------------------------------
Limited(hits, n) == SubSeq(hits, 1, IF n < Len(hits) THEN n ELSE Len(hits))

FetchLimit == IF 2 * limit < MinFetch THEN MinFetch ELSE 2 * limit

Rank(hits, id) == CHOOSE i \in DOMAIN hits : hits[i] = id
Holds(hits, id) == \E i \in DOMAIN hits : hits[i] = id

-----------------------------------------------------------------------------
(* Deliberately wrong variants of definitions below; none is part of Spec.  *)

(* A later list's share replaces an earlier one's (= for +=).               *)
LastScore(a, b, id) ==
    IF Holds(b, id) THEN <<1, K + Rank(b, id)>> ELSE <<1, K + Rank(a, id)>>

(* The two lists one after the other.                                       *)
ConcatMerge(a, b, n) == Limited(a \o b, n)

(* The hits are returned as they were fetched.                              *)
LimitNothing(hits) == hits

-----------------------------------------------------------------------------
(* rrfMerge. *)

Plus(x, y) == <<x[1] * y[2] + y[1] * x[2], x[2] * y[2]>>
Less(x, y) == x[1] * y[2] < y[1] * x[2]

(* The sum of 1 / (k + rank) over the lists that hold the id.               *)
Score(a, b, id) ==
    LET share(hits) == <<1, K + Rank(hits, id)>>
    IN  IF Holds(a, id) /\ Holds(b, id) THEN Plus(share(a), share(b))
        ELSE IF Holds(a, id) THEN share(a) ELSE share(b)

(* Best score first, equal scores by id.                                    *)
Before(a, b, x, y) ==
    \/ Less(Score(a, b, y), Score(a, b, x))
    \/ ~Less(Score(a, b, x), Score(a, b, y)) /\ x < y

(* A hit's place is the number of the hits that come before it.             *)
RRFMerge(a, b, n) ==
    LET found == ToSet(a) \cup ToSet(b)
        ahead(x) == {y \in found : Before(a, b, y, x)}
    IN  Limited([i \in 1..Cardinality(found) |->
                    CHOOSE x \in found : Cardinality(ahead(x)) = i - 1], n)

LimitShots(hits) == Limited(hits, limit)

-----------------------------------------------------------------------------
(* mode=keyword, and what a semantic search falls back on.                  *)
SearchScreenshots ==
    /\ pc = "keyword"
    /\ \/ answer' = Answer("keyword", Limited(keyword, limit)) /\ UNCHANGED dbFailed
       \/ answer' = Error /\ dbFailed' = TRUE
    /\ pc' = "done"
    /\ UNCHANGED <<request, kw, sem, ids, vecFailed>>

(* semanticRankedIDs: the nearest of the device's points, once the query    *)
(* has a vector (which takes the embedding API).                            *)
NearestPoints(n) == Limited(semantic, n)

(* mode=semantic.                                                           *)
SemanticSearch ==
    /\ pc = "semantic"
    /\ \/ /\ vectors # "none"
          /\ ids' = NearestPoints(limit)
          /\ pc' = "load"
          /\ UNCHANGED vecFailed
       \/ /\ vecFailed' = TRUE
          /\ pc' = "keyword"
          /\ UNCHANGED ids
    /\ UNCHANGED <<request, kw, sem, answer, dbFailed>>

(* The goroutines of hybridSearch. *)
KeywordHits ==
    /\ pc = "hybrid" /\ ~kw.done
    /\ \/ kw' = Ok(Limited(keyword, FetchLimit)) /\ UNCHANGED dbFailed
       \/ kw' = Failed /\ dbFailed' = TRUE
    /\ UNCHANGED <<request, pc, sem, ids, answer, vecFailed>>

SemanticHits ==
    /\ pc = "hybrid" /\ ~sem.done
    /\ \/ vectors # "none" /\ sem' = Ok(NearestPoints(FetchLimit)) /\ UNCHANGED vecFailed
       \/ sem' = Failed /\ vecFailed' = TRUE
    /\ UNCHANGED <<request, pc, kw, ids, answer, dbFailed>>

(* wg.Wait(): a failed keyword search is the request's failure, a failed    *)
(* semantic one is not.                                                     *)
SearchFails == ~kw.ok

Joined == pc = "hybrid" /\ kw.done /\ sem.done

FailHybrid ==
    /\ Joined
    /\ SearchFails
    /\ answer' = Error
    /\ pc' = "done"
    /\ UNCHANGED <<request, kw, sem, ids, dbFailed, vecFailed>>

DegradeHybrid ==
    /\ Joined
    /\ ~SearchFails /\ ~sem.ok
    /\ answer' = Answer("keyword", LimitShots(kw.hits))
    /\ pc' = "done"
    /\ UNCHANGED <<request, kw, sem, ids, dbFailed, vecFailed>>

MergeHybrid ==
    /\ Joined
    /\ ~SearchFails /\ sem.ok
    /\ ids' = RRFMerge(kw.hits, sem.hits, limit)
    /\ pc' = "load"
    /\ UNCHANGED <<request, kw, sem, answer, dbFailed, vecFailed>>

(* The rows in the order of the ids: a point's row is never deleted.  When  *)
(* the statement fails, a semantic search tries the keywords.               *)
GetScreenshotsByIDs ==
    /\ pc = "load"
    /\ \/ answer' = Answer(mode, ids) /\ pc' = "done" /\ UNCHANGED dbFailed
       \/ /\ dbFailed' = TRUE
          /\ \/ mode = "semantic" /\ pc' = "keyword" /\ UNCHANGED answer
             \/ mode = "hybrid" /\ pc' = "done" /\ answer' = Error
    /\ UNCHANGED <<request, kw, sem, ids, vecFailed>>

Next ==
    \/ SearchScreenshots \/ SemanticSearch
    \/ KeywordHits \/ SemanticHits
    \/ FailHybrid \/ DegradeHybrid \/ MergeHybrid
    \/ GetScreenshotsByIDs

Spec == Init /\ [][Next]_vars

-----------------------------------------------------------------------------
(* Qdrant or the embedding API can be down without consequences for the     *)
(* core: a search fails only if a statement of MySQL does, and one whose     *)
(* vector half failed answers what mode=keyword would, to the last item,    *)
(* although the hybrid search fetched more.  The order is one that          *)
(* mode=keyword may give: two queries may order the rows of a second apart. *)
DegradesToKeyword ==
    pc = "done" =>
        /\ answer.status = "error" => dbFailed
        /\ vecFailed \/ answer.mode = "keyword" =>
            answer \in {Error, Answer("keyword", Limited(keyword, limit))}

(* b is nowhere behind a, and somewhere before it (a missing id is behind). *)
Dominates(b, a) ==
    LET notBehind(hits) == Holds(hits, a) => Holds(hits, b) /\ Rank(hits, b) < Rank(hits, a)
        ahead(hits) == Holds(hits, b) /\ notBehind(hits)
    IN  /\ notBehind(keyword) /\ notBehind(semantic)
        /\ ahead(keyword) \/ ahead(semantic)

(* The fused answer never puts a hit before, or in the place of, one that   *)
(* both searches prefer to it: neither the fusion nor the limits of what    *)
(* is fetched and returned turn an agreed order round.                      *)
FusionKeepsAgreedOrder ==
    pc = "done" /\ answer.mode = "hybrid" =>
        \A i \in DOMAIN answer.items :
            \A b \in Ids : Dominates(b, answer.items[i]) =>
                \E j \in 1..i-1 : answer.items[j] = b
=============================================================================

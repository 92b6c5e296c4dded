----------------------------- MODULE Retrieval -----------------------------
(***************************************************************************)
(* What a search of the knowledge base finds: Retriever.search of          *)
(* rag/retriever.py with its two back ends, and rag/rerank.py.  A search   *)
(* reads the chunks in one statement, so one committed base, and the rest  *)
(* of it depends on nothing that changes: it is an operator on `chunks`.   *)
(* One query is looked at; how well a piece of text answers it is a        *)
(* constant.  Rows with equal scores come in any order.                    *)
(*                                                                         *)
(* PostgreSQL answers the native query by sorting the rows, "pgvector", or *)
(* from an approximate index, "hnsw".  Migration 0002 makes one for the    *)
(* default dimension; with it either may happen.                           *)
(***************************************************************************)
EXTENDS Knowledge

CONSTANTS
    Serving,    \* the setting the API runs with
    Model,      \* [Settings -> models]
    Dim,        \* [models -> dimensions]
    Cosine,     \* [models -> [pieces -> percent]]: similarity with the query as
                \* Serving's model embeds it
    Terms,      \* [pieces -> Nat]: the BM25 sum over the query's terms
    Coverage,   \* [pieces -> percent]: share of the query's words in the piece
    MinScore, CandidatePool

ChunkTexts == UNION {{Pieces[x][i] : i \in DOMAIN Pieces[x]} : x \in DOMAIN Pieces}

ASSUME ScoresAssumption ==
    /\ \A t \in ChunkTexts : Terms[t] \in Nat /\ Coverage[t] \in Nat
    /\ \A s \in Settings, t \in ChunkTexts : Cosine[Model[s]][t] \in Int
ASSUME ServingAssumption == Serving \in Settings
ASSUME PoolAssumption == CandidatePool \in Nat \ {0} /\ MinScore \in 1..100

Products == {Product[t] : t \in Texts} \cup {None}
Categories == {Category[t] : t \in Texts} \cup {None}
BackEnds == {"bm25", "cosine", "pgvector", "hnsw"}
Native == {"pgvector", "hnsw"}

Matching(rows, product, category) ==
    {r \in rows : /\ product = None \/ r.product \in {product, None}
                  /\ category = None \/ r.category = category}

Dimension(r) == Dim[Model[r.setting]]

Largest(S) == CHOOSE n \in S : \A k \in S : k <= n

\* The best row scores 100 if it has any term of the query.
BM25(rows) ==
    LET best == Largest({Terms[r.piece] : r \in rows})
    IN  [r \in rows |-> IF best > 0 THEN (100 * Terms[r.piece]) \div best ELSE 0]

Similarity(rows) == [r \in rows |-> Cosine[Model[r.setting]][r.piece]]

\* The ways of taking the n first when sorted by score, as sets.
Best(S, n, score) ==
    {T \in SUBSET S :
        /\ Cardinality(T) = IF Cardinality(S) < n THEN Cardinality(S) ELSE n
        /\ \A r \in T, x \in S \ T : score[r] >= score[x]}

Clearing(rows, score) == {r \in rows : score[r] >= MinScore}

\* lexical_rerank: 0.7 and 0.3.
Blended(pool, score) == [r \in pool |-> 7 * score[r] + 3 * Coverage[r.piece]]

\* A plausible bug: no more candidates than results.
PoolOfK(k) == k

PoolSize(k) == IF k > CandidatePool THEN k ELSE CandidatePool

Scores(backend, rows) == IF backend = "bm25" THEN BM25(rows) ELSE Similarity(rows)

Near(rows) == {r \in rows : Dimension(r) = Dim[Model[Serving]]}

\* In process, a row of another dimension than the query's is an error.
Raises(backend, rows) == backend = "cosine" /\ Near(rows) # rows

\* The database leaves such rows out, applies the threshold and stops at the pool's size.
\* The index yields some of the nearest rows, and they are filtered after that: it may
\* miss any of the others.
Pools(backend, rows, k) ==
    LET scored == IF backend \in Native THEN Near(rows) ELSE rows
        score == Scores(backend, scored)
        clear == Clearing(scored, score)
    IN  IF scored = {} THEN {{}}
        ELSE IF backend = "hnsw" THEN {T \in SUBSET clear : Cardinality(T) <= PoolSize(k)}
        ELSE Best(clear, PoolSize(k), score)

\* What Retriever.search may return, unless it raises.
Search(backend, reranks, product, category, k) ==
    LET rows == Matching(chunks, product, category)
        score == Scores(backend, rows)
    IN  UNION {Best(pool, k, IF reranks THEN Blended(pool, score) ELSE score) :
                  pool \in Pools(backend, rows, k)}

-----------------------------------------------------------------------------
\* The passages of the files the last committed job read.
Passages ==
    UNION {Chunked(p, source.read[p], source.setting, None) :
              p \in {q \in Paths : source.read[q] # None}}

Relevant(found, fit, k) == found \subseteq fit /\ Cardinality(found) <= k

\* A passage is passed over only for k better ones: better scored, or, when reranking,
\* better blended unless a whole pool of others scores as well.
Answers(found, fit, score, reranks, k) ==
    /\ found \subseteq fit
    /\ Cardinality(found) = k \/ (found = fit /\ Cardinality(fit) < k)
    /\ \A x \in fit \ found :
          IF reranks
          THEN LET blended == Blended(fit, score)
               IN  \/ \A r \in found : blended[r] >= blended[x]
                   \/ \A n \in {k, CandidatePool} :
                         Cardinality({y \in fit \ {x} : score[y] >= score[x]}) >= n
          ELSE \A r \in found : score[r] >= score[x]

FindsBest(backend, k) ==
    \A reranks \in BOOLEAN, product \in Products, category \in Categories :
       LET fit == Matching(Passages, product, category)
           score == Scores(backend, fit)
           clear == Clearing(fit, score)
       IN  /\ ~Raises(backend, Matching(chunks, product, category))
           /\ \A rows \in Search(backend, reranks, product, category, k) :
                 LET found == {[r EXCEPT !.by = None] : r \in rows}
                 IN  IF backend = "hnsw" THEN Relevant(found, clear, k)
                     ELSE Answers(found, clear, score, reranks, k)

FindsNothing(backend, k) ==
    \A reranks \in BOOLEAN, product \in Products, category \in Categories :
       LET rows == Matching(chunks, product, category)
       IN  IF backend = "cosine" /\ rows # {} THEN Raises(backend, rows)
           ELSE Search(backend, reranks, product, category, k) = {{}}

SearchIsTopKFor(k) ==
    source # None =>
        \A backend \in BackEnds :
           /\ backend = "bm25" \/ Model[source.setting] = Model[Serving] => FindsBest(backend, k)
           /\ backend # "bm25" /\ Dim[Model[source.setting]] # Dim[Model[Serving]] =>
                 FindsNothing(backend, k)

\* Once a job has run, every search by a server with the model the base was made with, or
\* that scores words alone, returns the k best of the passages in the files that job
\* read, whatever was skipped, replaced or failed in between: nothing is missed, nothing
\* outlives its file, and with reranking a passage in the pool is not lost to its rank.
\* From the approximate index it may miss some, and returns nothing else.  A server whose
\* model has another dimension is told so in process, and finds nothing in PostgreSQL.
\* (Of another model of the same dimension nothing is said: no back end can tell.)
SearchIsTopK == \A k \in 1..2 : SearchIsTopKFor(k)
=============================================================================

---------------------------- MODULE SearchService ----------------------------
(* SearchService.query in one server process: the candidates, the two         *)
(* rankings, their fusion share by share, the reranker and the results.  The  *)
(* event loop is free only while the thread pools embed the query and score   *)
(* the documents; then other tools and the sync write the cache.              *)
EXTENDS Naturals, Sequences, FiniteSets, SequencesExt

CONSTANTS
    Ids, None,
    Texts, Blank,      \* texts of records, and the empty text
    Relevance(_),      \* the score that the reranker gives a text
    TopKs,             \* what a caller asks for
    Limit,             \* how many each ranking yields (50)
    K, Common          \* RRF's constant (60); a multiple of all K + rank

Records == [text : Texts]
Modes   == {"bm25_only", "vector_only", "hybrid", "hybrid_rerank"}

ASSUME SearchAssumption ==
    /\ None \notin Records \cup Modes
    /\ Blank \in Texts
    /\ \A x \in Texts : Relevance(x) \in Nat
    /\ TopKs \subseteq Nat \ {0} /\ Limit \in Nat
    /\ K \in Nat \ {0} /\ Common \in Nat \ {0}
    /\ \A r \in 0..Limit : \E q \in 1..Common : q * (K + r) = Common

VARIABLES
    cache,       \* [Ids -> record or None]
    pc, mode, topk, bm25, vec, fused, docs,   \* the query and its locals
    scores, rank,  \* rrf_merge: the dictionary, and the rank it has come to
    answer,      \* the results that _assemble_results made
    touched      \* records written since the documents were read (history)

call   == <<mode, topk>>
fusion == <<scores, rank>>
vars   == <<cache, pc, call, bm25, vec, fused, docs, fusion, answer, touched>>

NoScores == [i \in Ids |-> 0]

Init ==
    /\ cache = [i \in Ids |-> None]
    /\ pc = "idle" /\ mode = None /\ topk = 0
    /\ bm25 = <<>> /\ vec = <<>> /\ fused = <<>> /\ docs = <<>>
    /\ scores = NoScores /\ rank = 0
    /\ answer = <<>> /\ touched = {}

Orders(S) == SetToSeqs(S)
FirstOf(s, n) == SubSeq(s, 1, IF Len(s) < n THEN Len(s) ELSE n)

-----------------------------------------------------------------------------
(* The rest of the server writes while the query waits for a thread pool.     *)

Waiting == pc \in {"idle", "embedding", "reranking"}

WriteRecord(i) ==
    /\ Waiting
    /\ \E r \in Records \cup {None} : cache' = [cache EXCEPT ![i] = r]
    /\ touched' = IF pc = "reranking" THEN touched \cup {i} ELSE {}
    /\ UNCHANGED <<pc, call, bm25, vec, fused, docs, fusion, answer>>

-----------------------------------------------------------------------------
(* _assemble_results: what is still cached of the first top_k. *)

\* Wrong variant: a record that is gone is not left out.
AssembleUnchecked(scored, n) ==
    LET first == FirstOf(scored, n)
    IN  [k \in DOMAIN first |->
           [id |-> first[k].id, score |-> first[k].score,
            text |-> IF cache[first[k].id] = None THEN None ELSE cache[first[k].id].text]]

\* Wrong variant: the results end at the first record that is gone.
AssembleUpToGone(scored, n) ==
    LET first == FirstOf(scored, n)
        there == {k \in DOMAIN first : \A j \in 1..k : cache[first[j].id] # None}
    IN  [k \in there |-> [id |-> first[k].id, score |-> first[k].score,
                          text |-> cache[first[k].id].text]]

Ascending(S) == CHOOSE p \in Orders(S) : \A j, k \in DOMAIN p : j < k => p[j] < p[k]

Assemble(scored, n) ==
    LET first == FirstOf(scored, n)
        kept  == Ascending({k \in DOMAIN first : cache[first[k].id] # None})
    IN  [r \in DOMAIN kept |->
           [id |-> first[kept[r]].id, score |-> first[kept[r]].score,
            text |-> cache[first[kept[r]].id].text]]

\* Rankings of ids whose scores the results only pass on.
Unscored(s) == [k \in DOMAIN s |-> [id |-> s[k], score |-> 0]]

-----------------------------------------------------------------------------
(* rrf_merge: every hit of an id adds 1 / (K + rank), times Common here.       *)

RRFScore(r) == Common \div (K + r)
Retrieved == IF pc = "fuse_bm25" THEN bm25 ELSE vec

\* Wrong variant: a hit replaces the score of the id.
AddShareLast ==
    /\ pc \in {"fuse_bm25", "fuse_vec"}
    /\ rank < Len(Retrieved)
    /\ scores' = [scores EXCEPT ![Retrieved[rank + 1]] = RRFScore(rank)]
    /\ rank' = rank + 1
    /\ UNCHANGED <<cache, pc, call, bm25, vec, fused, docs, answer, touched>>

AddShare ==
    /\ pc \in {"fuse_bm25", "fuse_vec"}
    /\ rank < Len(Retrieved)
    /\ scores' = [scores EXCEPT ![Retrieved[rank + 1]] = @ + RRFScore(rank)]
    /\ rank' = rank + 1
    /\ UNCHANGED <<cache, pc, call, bm25, vec, fused, docs, answer, touched>>

NextList ==
    /\ pc = "fuse_bm25" /\ rank = Len(bm25)
    /\ pc' = "fuse_vec" /\ rank' = 0
    /\ UNCHANGED <<cache, call, bm25, vec, fused, docs, scores, answer, touched>>

\* Sorted by score, highest first; the sort is stable, so equal scores keep
\* the order in which the dictionary got their keys.
Place(x, s) == CHOOSE k \in DOMAIN s : s[k] = x /\ \A j \in 1..(k - 1) : s[j] # x
Precedes(x, y) ==
    \/ scores[x] > scores[y]
    \/ /\ scores[x] = scores[y]
       /\ Place(x, bm25 \o vec) < Place(y, bm25 \o vec)
IsMerge(f) == \A j, k \in DOMAIN f : j < k => Precedes(f[j], f[k])
Merge(f) == [k \in DOMAIN f |-> [id |-> f[k], score |-> scores[f[k]]]]

-----------------------------------------------------------------------------
(* query *)

Cached == {i \in Ids : cache[i] # None}

\* search_fts: which of the caller's candidates a phrase matches, and how they
\* rank, is data.
KeywordRankings(n) ==
    UNION {Orders(s) : s \in {s \in SUBSET Cached : Cardinality(s) <= n}}

\* vector.search: its metadata_filter is not used, and it has one hit for each
\* chunk.  A record may have several chunks, and one that is gone may have left
\* some: what the table holds is open here.  A failed search is empty.
VectorRankings(n) == BoundedSeq(Ids, n)

\* No cached record passes the caller's filter.
QueryEmpty(m, n) ==
    /\ pc = "idle"
    /\ mode' = m /\ topk' = n
    /\ pc' = "done"
    /\ UNCHANGED <<cache, bm25, vec, fused, docs, fusion, answer, touched>>

\* The candidates and the keyword ranking are read without an await.
QueryStart(m, n) ==
    /\ pc = "idle"
    /\ Cached # {}
    /\ mode' = m /\ topk' = n
    /\ \E s \in KeywordRankings(IF m = "bm25_only" THEN n ELSE Limit) :
          /\ bm25' = IF m = "vector_only" THEN <<>> ELSE s
          /\ answer' = IF m = "bm25_only" THEN Assemble(Unscored(s), n) ELSE <<>>
    /\ pc' = IF m = "bm25_only" THEN "done" ELSE "embedding"
    /\ UNCHANGED <<cache, vec, fused, docs, fusion, touched>>

\* The call is over, and its locals with it.
Forget ==
    /\ pc' = "idle" /\ mode' = None /\ topk' = 0
    /\ bm25' = <<>> /\ vec' = <<>> /\ fused' = <<>> /\ docs' = <<>>
    /\ scores' = NoScores /\ rank' = 0
    /\ answer' = <<>> /\ touched' = {}

\* An exception of a pool goes to the caller.
QueryRaises ==
    /\ pc \in {"embedding", "reranking"}
    /\ Forget
    /\ UNCHANGED cache

VectorSearch ==
    /\ pc = "embedding"
    /\ \E v \in VectorRankings(IF mode = "vector_only" THEN topk ELSE Limit) :
          /\ vec' = v
          /\ IF mode = "vector_only"
             THEN pc' = "done" /\ answer' = Assemble(Unscored(v), topk)
             ELSE pc' = "fuse_bm25" /\ UNCHANGED answer
    /\ UNCHANGED <<cache, call, bm25, fused, docs, fusion, touched>>

\* Wrong variant: records that are gone give no document.
DocTextsOfPresent(s) ==
    LET present == SelectSeq(s, LAMBDA e : cache[e.id] # None)
    IN  [k \in DOMAIN present |-> cache[present[k].id].text]

DocTexts(s) ==
    [k \in DOMAIN s |-> IF cache[s[k].id] = None THEN Blank ELSE cache[s[k].id].text]

Fuse ==
    /\ pc = "fuse_vec" /\ rank = Len(vec)
    /\ \E f \in Orders(ToSet(bm25) \cup ToSet(vec)) :
          /\ IsMerge(f)
          /\ fused' = FirstOf(Merge(f), 2 * topk)
    /\ IF mode = "hybrid_rerank" /\ fused' # <<>>
       THEN pc' = "reranking" /\ docs' = DocTexts(fused') /\ UNCHANGED answer
       ELSE pc' = "done" /\ answer' = Assemble(fused', topk) /\ UNCHANGED docs
    /\ scores' = NoScores /\ rank' = 0 /\ touched' = {}
    /\ UNCHANGED <<cache, call, bm25, vec>>

\* The documents by descending score, the sort being stable.
IsRerank(p) ==
    \A j, k \in DOMAIN p : j < k =>
        \/ Relevance(docs[p[j]]) > Relevance(docs[p[k]])
        \/ Relevance(docs[p[j]]) = Relevance(docs[p[k]]) /\ p[j] < p[k]

Rerank ==
    /\ pc = "reranking"
    /\ \E p \in Orders(DOMAIN docs) :
          /\ IsRerank(p)
          /\ answer' = Assemble([k \in DOMAIN p |->
                [id |-> fused[p[k]].id, score |-> Relevance(docs[p[k]])]], topk)
    /\ pc' = "done"
    /\ UNCHANGED <<cache, call, bm25, vec, fused, docs, fusion, touched>>

Return ==
    /\ pc = "done"
    /\ Forget
    /\ UNCHANGED cache

Query == \/ \E m \in Modes, n \in TopKs : QueryEmpty(m, n) \/ QueryStart(m, n)
         \/ QueryRaises \/ VectorSearch \/ AddShare \/ NextList
         \/ Fuse \/ Rerank \/ Return

Next == (\E i \in Ids : WriteRecord(i)) \/ Query

Spec == Init /\ [][Next]_vars

-----------------------------------------------------------------------------
Entries == [id : Ids, score : Nat]

TypeOK ==
    /\ cache \in [Ids -> Records \cup {None}]
    /\ pc \in {"idle", "embedding", "fuse_bm25", "fuse_vec", "reranking", "done"}
    /\ mode \in Modes \cup {None} /\ topk \in TopKs \cup {0}
    /\ touched \in SUBSET Ids
    /\ bm25 \in Seq(Ids) /\ vec \in Seq(Ids)
    /\ scores \in [Ids -> Nat] /\ rank \in Nat
    /\ fused \in Seq(Entries) /\ docs \in Seq(Texts)
    /\ answer \in Seq([id : Ids, score : Nat, text : Texts])

\* A reranked result has the score of its own text: the index that the
\* reranker returns leads to the record whose document it scored, though
\* records are deleted and changed before, during and after the scoring.
OwnScore ==
    pc = "done" /\ mode = "hybrid_rerank" =>
        \A k \in DOMAIN answer :
            answer[k].id \notin touched => answer[k].score = Relevance(answer[k].text)

\* How often the first n of a ranking hit x.
Hits(x, s, n) == Cardinality({j \in 1..n : s[j] = x})

\* Every hit of y in a ranking has a hit of x of its own before it.
Ahead(x, y, s) == \A n \in DOMAIN s : Hits(x, s, n) >= Hits(y, s, n)

\* Where the rankings agree, fusion agrees with them: a record that is ahead
\* of a result in both, hit for hit, is a result before it, unless it is no
\* longer cached.  A record of one chunk is overtaken by one behind it that
\* has more: that is a second hit, which has none of the first's before it.
AgreedFirst ==
    pc = "done" /\ mode = "hybrid" =>
        \A k \in DOMAIN answer, x \in Ids :
            /\ x # answer[k].id
            /\ Ahead(x, answer[k].id, bm25) /\ Ahead(x, answer[k].id, vec)
            /\ cache[x] # None
            => \E j \in 1..(k - 1) : answer[j].id = x

\* What the searches found for the query.
Found == ToSet(bm25) \cup ToSet(vec)

\* Chunks outlive their records (a rebuild keeps them, a delete before the
\* first search does nothing to them).  Where keywords have a part in the
\* answer, a record that was found and is gone costs the query one result and
\* no more, however many of its chunks were hit, and also when it goes while
\* the reranker scores its document.  (Of the Limit hits of the vector search,
\* and of all hits in vector_only, each chunk takes one.)
GoneCostsOne ==
    pc = "done" /\ mode # "vector_only" =>
        LET gone == Cardinality({i \in Found : cache[i] = None}) IN
        \/ Len(answer) + gone >= topk
        \/ Len(answer) + gone >= Cardinality(Found)

-----------------------------------------------------------------------------
(* The strengthening that makes them inductive. *)

Distinct(s) == \A j, k \in DOMAIN s : s[j] = s[k] => j = k
IdOf(s) == [k \in DOMAIN s |-> s[k].id]

\* Finitely many records are cached; the keyword ranking lists none of them
\* twice, nor does the fused one; two that are fused have no more than Limit.
RankingsOK ==
    /\ IsFiniteSet(Cached)
    /\ Distinct(bm25) /\ Distinct(IdOf(fused))
    /\ mode \in {"hybrid", "hybrid_rerank"} => Len(bm25) <= Limit /\ Len(vec) <= Limit

\* What the query has not come to is empty.
PhaseOK ==
    /\ pc \in {"embedding", "fuse_bm25", "fuse_vec", "reranking"} =>
          mode # "bm25_only" /\ mode # None
    /\ pc \in {"fuse_bm25", "fuse_vec", "reranking"} => mode # "vector_only"
    /\ pc = "idle" => bm25 = <<>>
    /\ pc \in {"idle", "embedding"} => vec = <<>>
    /\ pc \notin {"reranking", "done"} => fused = <<>> /\ docs = <<>> /\ answer = <<>>
    /\ pc \notin {"fuse_bm25", "fuse_vec"} => scores = NoScores /\ rank = 0

\* After n hits of s, an id that is ahead in both rankings leads by what the
\* hits that it has more will at least be worth, and by something as soon as
\* it was hit, in s or in a ranking before.
Scored(s, n, before) ==
    \A x, y \in Ids :
        x # y /\ Ahead(x, y, bm25) /\ Ahead(x, y, vec) =>
            scores[x] >= scores[y] + (Hits(x, s, n) - Hits(y, s, n)) * RRFScore(n)
                         + (IF x \in before \/ Hits(x, s, n) > 0 THEN 1 ELSE 0)

FusingOK ==
    /\ pc = "fuse_bm25" => rank <= Len(bm25) /\ Scored(bm25, rank, {})
    /\ pc = "fuse_vec"  => rank <= Len(vec) /\ Scored(vec, rank, ToSet(bm25))

\* While the reranker has the documents, each is the text of its record, or
\* empty if there was none, unless the record was written since; they are of
\* all that was found, or of more than enough.
ReadOK ==
    pc = "reranking" =>
        /\ mode = "hybrid_rerank" /\ Len(docs) = Len(fused)
        /\ \A k \in DOMAIN fused :
              /\ fused[k].id \in Found
              /\ fused[k].id \notin touched => docs[k] = DocTexts(fused)[k]
        /\ Len(fused) >= topk \/ Len(fused) = Cardinality(Found)

SearchInv == TypeOK /\ RankingsOK /\ PhaseOK /\ FusingOK /\ ReadOK
=============================================================================

------------------------------- MODULE Recall -------------------------------
(***************************************************************************)
(* Recall: one question travels through store.search (full-text SQL plus a *)
(* vector branch), the hybrid retriever (a second vector channel, fusion,  *)
(* hydration from the cache, filters, reranking), the injection gates      *)
(* (score, safety, token budget), the Hive merge and the post-filters of   *)
(* RecallOrchestrator.recall; or, for brain_recall, straight from          *)
(* store.search to its own filters.  Every channel can fail on its own and *)
(* writers change the rows between two reads.                              *)
(*                                                                         *)
(* A row is its `kind': what decides whether it may be shown.  A question  *)
(* is what it matches: `match' says which rows match its words ("lex") and *)
(* which have an embedding ("emb", the vector channel returns its k        *)
(* nearest rows whatever their distance).  They are numbered by score.     *)
(***************************************************************************)
EXTENDS Naturals, FiniteSets

CONSTANTS Memories,      \* keys of the question's rows, 1 the best score
          Limit,         \* max_inject: rows the retriever returns
          LocalBudget,   \* rows that fit the injection's memory budget
          TotalBudget,   \* rows that fit max_tokens after the Hive merge
          DedupeWindows, \* the dedupe windows a caller passes
          MaxChanges     \* bound: rows a concurrent writer changes

\* The project has finitely many rows; their numbers are places, 1 the best.
ASSUME MemoriesAssumption == Memories \subseteq Nat /\ IsFiniteSet(Memories)

VARIABLES row, match, changes, call, seenRows, lex, vec, pending, local, answer

rcVars == <<row, match, changes, call, seenRows, lex, vec, pending, local, answer>>

(***************************************************************************)
(* What a row is.                                                          *)
(***************************************************************************)
\* good; "stale" saved with that status, "aged", "superseded", "contra" and
\* "source" closed by close_validity (which stamps invalid_at with every
\* status); "expired" by a legacy valid_until; "low" decayed confidence;
\* "weak" composite score; "unsafe" content; "shared" by another agent to a
\* group of ours; "gone".
Kinds == {"good", "stale", "aged", "superseded", "contra", "source", "expired",
          "low", "weak", "unsafe", "shared", "gone"}

Closed == {"aged", "superseded", "contra", "source"}

\* MemoryEntry.is_temporally_valid for the current time.
IsTemporallyValid(kind) == kind \notin Closed \cup {"expired"}

Contradicted(kind) == kind \in {"contra", "source"}

IsConsolidatedSource(kind) == kind = "source"

\* status \in {stale, superseded, archived}; a contradicted row keeps the status
\* "contradicted", which no default filter excludes.
ExcludedStatus(kind) == kind \in {"stale", "aged", "superseded"}

ActiveStatus(kind) == kind \notin {"stale"} \cup Closed

\* the SQL live-row predicate of build_search_sql and build_knn_search_sql.
LiveRow(kind, opts) ==
  /\ kind # "gone"
  /\ "expired" \notin opts => /\ IsTemporallyValid(kind)
                              /\ "stale" \in opts \/ ActiveStatus(kind)

(***************************************************************************)
(* store.search.                                                           *)
(***************************************************************************)
\* _apply_search_filters.
SearchFilter(kind, opts) ==
  /\ "expired" \in opts \/ IsTemporallyValid(kind)
  /\ "contra" \in opts \/ ~Contradicted(kind)

\* PostgresPrivateBackend.search: the rows matching the words, own and shared.
FtsRows(rows, opts) == {k \in Memories : "lex" \in match[k] /\ LiveRow(rows[k], opts)}

\* PostgresPrivateBackend.knn_search.
KnnRows(rows, opts) == {k \in Memories : "emb" \in match[k] /\ LiveRow(rows[k], opts)}

Own(kind) == kind \notin {"shared", "gone"}

(***************************************************************************)
(* The retriever.                                                          *)
(***************************************************************************)
\* _bm25_full_scan, and _like_search when the scorer raises: the cached corpus
\* with the temporal and the contradicted filter.
FullScan(rows) ==
  {k \in Memories : /\ Own(rows[k]) /\ "lex" \in match[k]
                /\ ~Contradicted(rows[k]) /\ IsTemporallyValid(rows[k])}

\* the in-process vector fallback: every live cached row is embedded again.
EmbeddedCorpus(rows) ==
  {k \in Memories : Own(rows[k]) /\ ~Contradicted(rows[k]) /\ IsTemporallyValid(rows[k])}

\* _filter_candidates_to_pending with recall's default options.
PendingFilterLax(kind) ==
  ~IsConsolidatedSource(kind) /\ ~Contradicted(kind) /\ kind # "low"

PendingFilter(kind) ==
  /\ ~IsConsolidatedSource(kind)
  /\ ~ExcludedStatus(kind)
  /\ ~Contradicted(kind)
  /\ IsTemporallyValid(kind)
  /\ kind # "low"

\* A list of rows is a set of items, each with its place in the list.
KeysOf(items) == {m.key : m \in items}

\* The rows of S in score order, those of `first' before the others.
Before(j, k, first) == IF (j \in first) <=> (k \in first) THEN j < k ELSE j \in first
Ranked(S, first, src) ==
  {[key |-> k, src |-> src, at |-> Cardinality({j \in S : Before(j, k, first)})] : k \in S}

\* The first n items.
Top(items, n) == {m \in items : Cardinality({o \in items : o.at < m.at}) < n}

\* The same items n places further down.
Down(items, n) == {[key |-> m.key, src |-> m.src, at |-> m.at + n] : m \in items}

(***************************************************************************)
(* brain_recall.                                                           *)
(***************************************************************************)
\* what brain_recall asks store.search for.
SearchOpts(opts) ==
  (opts \cap {"stale", "contra"}) \cup
  (IF "sources" \in opts THEN {"expired", "contra"} ELSE {})

\* _is_historical_non_source.
HistoricalNonSource(kind) ==
  IF Contradicted(kind) THEN ~IsConsolidatedSource(kind) ELSE kind \in Closed

BrainFilter(kind, opts) ==
  /\ "sources" \in opts =>
       ~HistoricalNonSource(kind) \/ ("contra" \in opts /\ Contradicted(kind))
  /\ "stale" \in opts \/ ~ExcludedStatus(kind)

\* every row brain_recall returns for its lexical and vector rows, before the cut.
BrainAnswer(kinds, found, opts) ==
  {k \in found : SearchFilter(kinds[k], SearchOpts(opts)) /\ BrainFilter(kinds[k], opts)}

-----------------------------------------------------------------------------
NoCall == [op |-> "none", pc |-> "idle", opts |-> {}, window |-> {}, failed |-> FALSE,
           changed |-> FALSE, truncated |-> FALSE, warn |-> FALSE]

Idle ==
  /\ call = NoCall /\ lex = {} /\ vec = {} /\ pending = {} /\ local = {}
  /\ seenRows = [k \in Memories |-> "gone"]
  /\ answer = [items |-> {}, reason |-> "none"]

RcInit ==
  /\ row \in [Memories -> Kinds]
  /\ match \in [Memories -> SUBSET {"lex", "emb"}]
  /\ changes = 0
  /\ Idle

At(pc) == call.pc = pc

Go(pc) == [call EXCEPT !.pc = pc]

Read(S) == [k \in Memories |-> IF k \in S THEN row[k] ELSE seenRows[k]]

\* A call arrives: recall() (no option reaches the retriever) or brain_recall().
StartRecall(window) ==
  /\ At("idle")
  /\ call' = [NoCall EXCEPT !.op = "recall", !.pc = "fts", !.window = window]
  /\ UNCHANGED <<row, match, changes, seenRows, lex, vec, pending, local, answer>>

StartBrainRecall(opts) ==
  /\ At("idle")
  /\ call' = [NoCall EXCEPT !.op = "brain", !.pc = "fts", !.opts = opts]
  /\ UNCHANGED <<row, match, changes, seenRows, lex, vec, pending, local, answer>>

\* The full-text query of store.search.  A failure fails brain_recall; the
\* retriever swallows it and scans the cached corpus.
Fts(ok) ==
  /\ At("fts")
  /\ LET found == IF ok THEN FtsRows(row, SearchOpts(call.opts)) ELSE {} IN
     /\ lex' = found
     /\ seenRows' = Read(found)
  /\ call' = IF ok THEN Go("knn")
             ELSE IF call.op = "brain" THEN [Go("done") EXCEPT !.warn = TRUE]
             ELSE Go("scan")
  /\ UNCHANGED <<row, match, changes, vec, pending, local, answer>>

\* The vector branch of store.search, best effort: no embedder or a failing query
\* leaves the lexical rows; with lexical rows present only vector rows above the
\* similarity floor join them.
StoreKnn(ok, near) ==
  /\ At("knn")
  /\ LET found == IF ok THEN KnnRows(row, SearchOpts(call.opts)) ELSE {}
         joined == IF lex = {} THEN found ELSE found \cap near IN
     /\ lex' = lex \cup joined
     /\ seenRows' = Read(joined)
  /\ call' = Go(IF call.op = "brain" THEN "brain" ELSE "scan")
  /\ UNCHANGED <<row, match, changes, vec, pending, local, answer>>

\* brain_recall filters, scores and cuts what the search returned.
AnswerBrain ==
  /\ At("brain")
  /\ LET all == Ranked(BrainAnswer(seenRows, lex, call.opts), {}, "local")
         cut == Top(all, Limit) IN
     /\ answer' = [items |-> cut, reason |-> "none"]
     /\ call' = [Go("done") EXCEPT !.truncated = cut # all]
  /\ UNCHANGED <<row, match, changes, seenRows, lex, vec, pending, local>>

\* _get_candidates: the search's rows after its filters, or the full scan when it
\* failed or found nothing.
CandidatesNoScan(found) == found

Candidates(found) == IF found = {} THEN FullScan(row) ELSE found

GetCandidates ==
  /\ At("scan")
  /\ lex' = Candidates({k \in lex : SearchFilter(seenRows[k], {})})
  /\ call' = Go("vector")
  /\ UNCHANGED <<row, match, changes, seenRows, vec, pending, local, answer>>

\* _vector_search: nothing without an embedder; the k nearest own rows; the
\* embedded corpus when the query fails or finds nothing.
VectorSearch(embedder, knn) ==
  /\ At("vector")
  /\ LET near == {k \in KnnRows(row, {}) : Own(row[k])} IN
     vec' = CASE ~embedder -> {}
              [] embedder /\ knn /\ near # {} -> near
              [] OTHER -> EmbeddedCorpus(row)
  /\ call' = Go("hydrate")
  /\ UNCHANGED <<row, match, changes, seenRows, lex, pending, local, answer>>

\* Fusion, hydration from the merged cache, the authoritative filters; a failing
\* cache merge fails the search.
Hydrate(ok) ==
  /\ At("hydrate")
  /\ IF ok
     THEN /\ seenRows' = row
          /\ pending' = {k \in lex \cup vec : Own(row[k]) /\ PendingFilter(row[k])}
          /\ call' = Go("rank")
          /\ UNCHANGED answer
     ELSE /\ answer' = [answer EXCEPT !.reason = "search_failed"]
          /\ call' = [Go("hive") EXCEPT !.warn = TRUE, !.failed = TRUE]
          /\ UNCHANGED <<seenRows, pending>>
  /\ UNCHANGED <<row, match, changes, lex, vec, local>>

\* Sort, rerank (_apply_reranker: any part of the candidates first, none when
\* it fails, and the rows it dropped after them), cut.
Rank(first) ==
  /\ At("rank") /\ first \subseteq pending
  /\ LET all == Ranked(pending, first, "local") IN
     /\ local' = Top(all, Limit)
     /\ call' = [Go("inject") EXCEPT !.truncated = local' # all]
  /\ UNCHANGED <<row, match, changes, seenRows, lex, vec, pending, answer>>

\* the reason of an empty injection.
EmptyReason(hits, scored, visible) ==
  CASE hits = {} /\ visible = {} -> "store_empty"
    [] hits = {} /\ visible # {} -> "no_ranked_matches"
    [] hits # {} /\ scored = {} -> "below_score"
    [] OTHER -> "rag_blocked"

\* inject_memories: the score gate, the safety check, the memory budget.
Inject ==
  /\ At("inject")
  /\ LET scored == {m \in local : seenRows[m.key] # "weak"}
         safe == {m \in scored : seenRows[m.key] # "unsafe"}
         visible == {k \in Memories : Own(row[k])} IN
     /\ local' = Top(safe, LocalBudget)
     /\ call' = [Go("hive") EXCEPT !.truncated = @ \/ local' # safe]
     /\ answer' = [answer EXCEPT !.reason =
                     IF safe = {} THEN EmptyReason(local, scored, visible) ELSE "none"]
  /\ UNCHANGED <<row, match, changes, seenRows, lex, vec, pending>>

\* _search_hive and _merge_hive_results: the Hive's rows for keys not found
\* locally, at place p of the merged order; an outage is a warning.
MergeHive(ok, found, p) ==
  /\ At("hive") /\ (p = 0 \/ \E m \in local : p = m.at + 1)
  /\ LET fresh == IF ok THEN found \ KeysOf(local) ELSE {} IN
     answer' = [answer EXCEPT !.items =
       {m \in local : m.at < p} \cup Down(Ranked(fresh, {}, "hive"), p)
         \cup Down({m \in local : m.at >= p}, Cardinality(fresh))]
  /\ call' = [Go("post") EXCEPT !.warn = @ \/ ~ok]
  /\ UNCHANGED <<row, match, changes, seenRows, lex, vec, pending, local>>

Truncated(items) == IF \E m \in items : m.src = "hive" THEN Top(items, TotalBudget) ELSE items

Outside(items, window) == {m \in items : m.key \notin window}

PostFilter(items, window) == Truncated(Outside(items, window))

PostFilterStep ==
  /\ At("post")
  /\ LET out == PostFilter(answer.items, call.window) IN
     /\ answer' = [items |-> out,
                   reason |-> IF out = {} /\ answer.items # {} /\ call.window # {}
                              THEN "post_filter" ELSE answer.reason]
     /\ call' = [Go("done") EXCEPT !.truncated = @ \/ out # Outside(answer.items, call.window)]
  /\ UNCHANGED <<row, match, changes, seenRows, lex, vec, pending, local>>

\* A writer changes a row while the call is on its way.
Change(k, kind) ==
  /\ changes < MaxChanges /\ ~At("idle") /\ ~At("done")
  /\ kind \in {"good", "aged", "contra", "gone"} \ {row[k]}
  /\ row' = [row EXCEPT ![k] = kind]
  /\ changes' = changes + 1
  /\ call' = [call EXCEPT !.changed = TRUE]
  /\ UNCHANGED <<match, seenRows, lex, vec, pending, local, answer>>

RcNext ==
  \/ \E w \in DedupeWindows : StartRecall(w)
  \/ \E o \in SUBSET {"stale", "contra", "sources"} : StartBrainRecall(o)
  \/ \E ok \in BOOLEAN : Fts(ok)
  \/ \E ok \in BOOLEAN, near \in SUBSET Memories : StoreKnn(ok, near)
  \/ AnswerBrain
  \/ GetCandidates
  \/ \E e, n \in BOOLEAN : VectorSearch(e, n)
  \/ \E ok \in BOOLEAN : Hydrate(ok)
  \/ \E first \in SUBSET Memories : Rank(first)
  \/ Inject
  \/ \E ok \in BOOLEAN, found \in SUBSET Memories, p \in 0..Cardinality(Memories) : MergeHive(ok, found, p)
  \/ PostFilterStep
  \/ \E k \in Memories, kind \in Kinds : Change(k, kind)

RcSpec == RcInit /\ [][RcNext]_rcVars

-----------------------------------------------------------------------------
Answered(op) == At("done") /\ call.op = op

LocalKeys == KeysOf({m \in answer.items : m.src = "local"})

\* Whatever failed and whatever changed on the way, a row recall() injects was
\* showable when the retriever hydrated it: live, active, uncontradicted, confident,
\* scored and safe, although the SQL that found it had read an older version of it
\* (the filters of _filter_candidates_to_pending are the authority, not the SQL).
RecallAdmissible == Answered("recall") => \A k \in LocalKeys : seenRows[k] = "good"

\* One failing channel loses nothing: a showable row that matches the question's
\* words is in an untruncated recall whether the full-text query raised, the
\* embedder is missing or the vector query failed (_get_candidates' full scan).
RecallComplete ==
  Answered("recall") /\ ~call.changed /\ ~call.truncated /\ ~call.failed =>
    \A k \in Memories \ call.window :
      row[k] = "good" /\ "lex" \in match[k] => k \in KeysOf(answer.items)
=============================================================================

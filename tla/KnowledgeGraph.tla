--------------------------- MODULE KnowledgeGraph ---------------------------
(***************************************************************************)
(* The knowledge graph and the experience events that feed it              *)
(* (postgres_kg.py, experience.py, services/kg_service.py,                 *)
(* mcp_server/tools_kg.py).                                                *)
(*                                                                         *)
(* Every operation is one Postgres transaction at READ COMMITTED: what it  *)
(* read may be out of date when it writes, and only what the database      *)
(* itself enforces - the unique index on active triples, the foreign keys, *)
(* the WHERE clause of an UPDATE - is decided on the current rows.  So an  *)
(* operation that reads and then writes is two steps, and one that is a    *)
(* single statement is one.                                                *)
(*                                                                         *)
(* An entity is named by its (type, canonical name); an edge by its        *)
(* position in `edges`, where the UUID of the code stands.                 *)
(***************************************************************************)
EXTENDS Integers, Sequences, FiniteSets

CONSTANTS
    Names,      \* entity names
    Triples,    \* the <<subject, predicate, object>> the workload asserts
    EventLists, \* the lists of events the workload records
    Actors,     \* concurrent callers
    NoOne,      \* no entity, no predicate limit
    Strict,     \* kg.strict_predicates
    MaxEntries, \* private_memories cap
    Fanout,     \* TAPPS_BRAIN_KG_EXPLAIN_BRANCHING_FACTOR
    KOps,       \* the workload
    MaxWindows, \* bound: debounce windows
    MaxCalls    \* bound: operations begun

Preds == {t[2] : t \in Triples}
AllKOps == {"entity", "edge", "supersede", "stale", "contradict", "reinforce", "helpful",
            "misleading", "predicate", "record", "batch", "perEvent", "resolve"}

ASSUME KnowledgeGraphAssumption ==
    /\ IsFiniteSet(Names) /\ IsFiniteSet(Triples)
    /\ \A t \in Triples : t[1] \in Names /\ t[3] \in Names
    /\ Strict \in BOOLEAN /\ KOps \subseteq AllKOps
    /\ \A r \in EventLists : Len(r) \in Nat /\ \A i \in 1..Len(r) :
          r[i].names \subseteq Names /\ r[i].edge \in Triples \cup {NoOne}
    /\ MaxEntries \in Nat \ {0} /\ Fanout \in Nat \ {0} /\ MaxWindows \in Nat /\ MaxCalls \in Nat

VARIABLES
    ents,    \* kg_entities: per name, whether the row exists and its aliases
    edges,   \* kg_edges
    preds,   \* kg_predicates: NoOne when unregistered, 0 when unbounded, else max_count
    events,  \* experience_events with their cross-references
    mems,    \* this agent's private_memories, oldest first
    kloc,    \* what each caller is doing
    window,  \* debounce windows of 60 s gone by
    calls    \* operations begun

kgvars == <<ents, edges, preds, events, mems, kloc, window, calls>>

Idle == [pc |-> "idle"]
EdgeIds == 1..Len(edges)
KeysOf(ms) == {ms[i] : i \in 1..Len(ms)}
Edge(t) == [t |-> t, status |-> "active", by |-> 0, contra |-> FALSE,
            cnt |-> 0, last |-> -1, pos |-> 0, neg |-> 0, flag |-> FALSE]

\* GET_ACTIVE_EDGE_SQL and the partial unique index speak of the same rows.
ActiveIn(es, t) == {i \in 1..Len(es) : es[i].t = t /\ es[i].status = "active"}
ActiveEdges(t) == ActiveIn(edges, t)
ObjectsIn(es, s, p) ==
    {es[i].t[3] : i \in {j \in 1..Len(es) : es[j].status = "active" /\ es[j].t[1] = s /\ es[j].t[2] = p}}
CountActiveObjects(s, p) == Cardinality(ObjectsIn(edges, s, p))

KgInit ==
    /\ ents = [n \in Names |-> [on |-> FALSE, aka |-> {}]]
    /\ edges = << >> /\ events = << >> /\ mems = << >>
    /\ preds = [p \in Preds |-> NoOne]
    /\ kloc = [a \in Actors |-> Idle]
    /\ window = 0 /\ calls = 0

\* A caller starts an operation of the workload.
Call(a, op) ==
    /\ op \in KOps /\ kloc[a] = Idle /\ calls < MaxCalls
    /\ calls' = calls + 1
SetCaller(a, s) == kloc' = [kloc EXCEPT ![a] = s]
SetEdge(i, e) == edges' = [edges EXCEPT ![i] = e]

-----------------------------------------------------------------------------
(* Entities and predicates.                                                *)

\* upsert_entity: the aliases are replaced, never merged.
UpsertIn(es, n, aka) == [es EXCEPT ![n] = [on |-> TRUE, aka |-> aka]]

UpsertEntity(a, n, aka) ==
    /\ Call(a, "entity")
    /\ ents' = UpsertIn(ents, n, aka)
    /\ UNCHANGED <<edges, preds, events, mems, kloc, window>>

\* resolve_entity of the store: the canonical name first, then the aliases; of
\* several rows that carry the alias the most confident one is taken.
ResolveName(n) ==
    IF ents[n].on THEN {n}
    ELSE {m \in Names : ents[m].on /\ n \in ents[m].aka}

\* resolve_entity of the service, and get_neighbors with entity_refs: look the
\* name up and create it, in a transaction of its own, when nothing matched.
ResolveEntity(a, n) ==
    /\ Call(a, "resolve")
    /\ SetCaller(a, IF ResolveName(n) = {} THEN [pc |-> "create", n |-> n] ELSE Idle)
    /\ UNCHANGED <<ents, edges, preds, events, mems, window>>

ResolveCreate(a) ==
    /\ kloc[a].pc = "create"
    /\ ents' = UpsertIn(ents, kloc[a].n, {})
    /\ SetCaller(a, Idle)
    /\ UNCHANGED <<edges, preds, events, mems, window, calls>>

\* register_predicate: a later declaration replaces an earlier one; the edges
\* already there are left alone.  0 at the tool is "unbounded".
RegisterPredicate(a, p, m) ==
    /\ Call(a, "predicate")
    /\ preds' = [preds EXCEPT ![p] = m]
    /\ UNCHANGED <<ents, edges, events, mems, kloc, window>>

-----------------------------------------------------------------------------
(* Cardinality: the check of the write path and the ledger check.          *)

\* _assert_cardinality_allows
CardinalityAllows(s, p) ==
    CASE preds[p] = NoOne -> ~Strict
      [] preds[p] = 0     -> TRUE
      [] OTHER            -> CountActiveObjects(s, p) < preds[p]

-----------------------------------------------------------------------------
(* Edges.                                                                  *)

DebounceDropped(e) == [e EXCEPT !.cnt = e.cnt + 1, !.last = window]

\* REINFORCE_EDGE_SQL: the 60-second debounce is in the WHERE clause, so it is
\* decided on the current row.  The status is not looked at.
Reinforced(e) == IF e.last = window THEN e ELSE [e EXCEPT !.cnt = e.cnt + 1, !.last = window]

\* upsert_edge, its reads: an active triple is reinforced and a new one must be
\* allowed by the predicate.  `old` is the edge a supersede_edge replaces.
EdgeRead(a, t, old) ==
    /\ Call(a, IF old = 0 THEN "edge" ELSE "supersede")
    /\ old = 0 \/ old \in EdgeIds
    /\ ents[t[1]].on /\ ents[t[3]].on
    /\ SetCaller(a, IF ActiveEdges(t) = {} /\ ~CardinalityAllows(t[1], t[2]) THEN Idle
                 ELSE [pc |-> "edge", t |-> t, old |-> old,
                       hit |-> IF ActiveEdges(t) = {} THEN 0 ELSE CHOOSE i \in ActiveEdges(t) : TRUE])
    /\ UNCHANGED <<ents, edges, preds, events, mems, window>>

AppendAlways(es, t) == <<Append(es, Edge(t)), TRUE>>

\* INSERT_EDGE_SQL under the unique index on active triples: <<rows, accepted>>.
InsertIn(es, t) == IF ActiveIn(es, t) # {} THEN <<es, FALSE>> ELSE <<Append(es, Edge(t)), TRUE>>

\* ... and its write: a rejected insert raises and ends the operation.
EdgeWrite(a) ==
    LET c == kloc[a]
        new == IF c.hit > 0 THEN c.hit ELSE Len(edges) + 1
    IN /\ c.pc = "edge"
       /\ edges' = IF c.hit > 0 THEN [edges EXCEPT ![c.hit] = Reinforced(edges[c.hit])]
                   ELSE InsertIn(edges, c.t)[1]
       /\ SetCaller(a, IF c.old > 0 /\ (c.hit > 0 \/ InsertIn(edges, c.t)[2])
                    THEN [pc |-> "supersede", old |-> c.old, new |-> new] ELSE Idle)
       /\ UNCHANGED <<ents, preds, events, mems, window, calls>>

SupersedeAlways(a) ==
    LET c == kloc[a]
    IN /\ c.pc = "supersede"
       /\ SetEdge(c.old, [edges[c.old] EXCEPT !.status = "superseded", !.by = c.new])
       /\ SetCaller(a, Idle)
       /\ UNCHANGED <<ents, preds, events, mems, window, calls>>

\* supersede_edge, second transaction: the old edge is closed if still active.
SupersedePoint(a) ==
    LET c == kloc[a]
    IN /\ c.pc = "supersede"
       /\ IF edges[c.old].status = "active"
          THEN SetEdge(c.old, [edges[c.old] EXCEPT !.status = "superseded", !.by = c.new])
          ELSE UNCHANGED edges
       /\ SetCaller(a, Idle)
       /\ UNCHANGED <<ents, preds, events, mems, window, calls>>

EdgeOnly == UNCHANGED <<ents, preds, events, mems, window>>

MarkEdgeStale(a, i) ==
    /\ Call(a, "stale") /\ edges[i].status = "active"
    /\ SetEdge(i, [edges[i] EXCEPT !.status = "stale"])
    /\ EdgeOnly /\ UNCHANGED kloc

\* contradict_edge does not look at the status: a superseded edge becomes
\* stale and keeps its pointer.
ContradictEdge(a, i) ==
    /\ Call(a, "contradict")
    /\ SetEdge(i, [edges[i] EXCEPT !.status = "stale", !.contra = TRUE])
    /\ EdgeOnly /\ UNCHANGED kloc

\* reinforce_edge reads the stability and difficulty it updates, then writes.
ReinforceRead(a, i) ==
    /\ Call(a, "reinforce")
    /\ SetCaller(a, [pc |-> "reinforce", e |-> i])
    /\ EdgeOnly /\ UNCHANGED edges

ReinforceWrite(a) ==
    /\ kloc[a].pc = "reinforce"
    /\ SetEdge(kloc[a].e, Reinforced(edges[kloc[a].e]))
    /\ SetCaller(a, Idle)
    /\ EdgeOnly /\ UNCHANGED calls

\* apply_edge_feedback, edge_helpful: the counters, then reinforce_edge in a
\* transaction of its own.
EdgeHelpful(a, i) ==
    /\ Call(a, "helpful")
    /\ SetEdge(i, [edges[i] EXCEPT !.pos = @ + 1])
    /\ SetCaller(a, [pc |-> "reinforce", e |-> i])
    /\ EdgeOnly

\* APPLY_EDGE_MISLEADING_SQL flags on the count it is about to store.
ReviewFlag(e) == IF e.neg + 1 > 3 * e.pos THEN TRUE ELSE e.flag

EdgeMisleading(a, i) ==
    /\ Call(a, "misleading")
    /\ SetEdge(i, [edges[i] EXCEPT !.neg = @ + 1, !.flag = ReviewFlag(edges[i])])
    /\ EdgeOnly /\ UNCHANGED kloc

-----------------------------------------------------------------------------
(* Experience events.                                                      *)

\* One event is a record: `names` it upserts, `bad` those of them whose upsert
\* fails, the `edge` it asserts (`keyed`: endpoints given as keys of this event,
\* else as ids) and the memory `mem` it writes.

\* _build_entity_lookup and _resolve_edge_endpoint: a key names an entity this
\* event upserted with success.
ResolveKey(spec, n) == IF n \in spec.names \ spec.bad THEN n ELSE NoOne

\* _ensure_memory_capacity: decided on the rows counted when the transaction
\* read them (`had`), so that two recorders may both find room for one more.
WithCapacity(ms, had, k) ==
    LET own == Len(ms) - Len(mems)
    IN IF k \in KeysOf(ms) THEN ms
       ELSE IF k \in KeysOf(had) \/ Len(had) + own < MaxEntries THEN Append(ms, k)
            ELSE Append(IF ms = << >> THEN ms ELSE Tail(ms), k)

\* The rows a transaction works on, and whether it can still commit.
Db == [ents |-> ents, edges |-> edges, events |-> events, mems |-> mems, ok |-> TRUE]

\* _upsert_edges for one spec.  `seen` are the active edges its SELECT returned;
\* later rows may be this transaction's own.  There is no cardinality check.
\* <<rows, edge id or 0, accepted, warned>>
UpsertEdges(db, spec, seen) ==
    IF spec.edge = NoOne THEN <<db.edges, 0, TRUE, FALSE>>
    ELSE LET t == spec.edge
             ends == IF spec.keyed THEN {ResolveKey(spec, t[1]), ResolveKey(spec, t[3])}
                     ELSE {t[1], t[3]}
             mine == {i \in ActiveIn(db.edges, t) : i > Len(edges)}
             hits == {i \in seen \cup mine : db.edges[i].t = t}
         IN IF NoOne \in ends THEN <<db.edges, 0, TRUE, TRUE>>
            ELSE IF hits # {}
                 THEN LET i == CHOOSE i \in hits : TRUE
                      IN <<[db.edges EXCEPT ![i] = Reinforced(db.edges[i])], i, TRUE, FALSE>>
                 ELSE LET r == InsertIn(db.edges, t)
                      IN <<r[1], Len(db.edges) + 1,
                           r[2] /\ \A n \in {t[1], t[3]} : db.ents[n].on, FALSE>>

\* The event row with its cross-references, and the warnings of the answer.
EventRow(spec, e) == [spec |-> spec, ent |-> spec.names \ spec.bad, edge |-> e[2], warned |-> e[4]]

\* _upsert_entities: each upsert behind a savepoint, a failed one is skipped.
UpsertEntities(es, spec) ==
    [n \in Names |-> IF n \in spec.names \ spec.bad THEN [on |-> TRUE, aka |-> {}] ELSE es[n]]

\* ExperienceEventRecorder.record, the body of the transaction: event row,
\* memory, entities, edges, cross-references.
RecordIn(db, spec, saw) ==
    LET up == UpsertEntities(db.ents, spec)
        e == UpsertEdges([db EXCEPT !.ents = up], spec, saw.edges)
    IN IF ~db.ok \/ ~e[3] THEN [db EXCEPT !.ok = FALSE]
       ELSE [db EXCEPT
              !.ents = up, !.edges = e[1],
              !.mems = IF spec.mem = NoOne THEN @ ELSE WithCapacity(@, saw.mems, spec.mem),
              !.events = Append(@, EventRow(spec, e))]

\* record_many: all events of a batch in one transaction (record: a batch of one).
RecordMany(specs, saw) ==
    LET after[n \in 0..Len(specs)] ==
            IF n = 0 THEN Db ELSE RecordIn(after[n-1], specs[n], saw)
    IN after[Len(specs)]

\* What a transaction's SELECTs return.
Snapshot == [edges |-> {i \in EdgeIds : edges[i].status = "active"}, mems |-> mems]

\* record_event and record_events_batch: embeddings first, then the transaction;
\* its SELECTs run before its INSERTs, and other callers may commit in between.
RecordBegin(a, specs) ==
    /\ Call(a, IF Len(specs) = 1 THEN "record" ELSE "batch")
    /\ SetCaller(a, [pc |-> "record", specs |-> specs, saw |-> Snapshot])
    /\ UNCHANGED <<ents, edges, preds, events, mems, window>>

Commit(db) ==
    IF db.ok
    THEN /\ ents' = db.ents /\ edges' = db.edges
         /\ events' = db.events /\ mems' = db.mems
    ELSE UNCHANGED <<ents, edges, events, mems>>

RecordCommit(a) ==
    /\ kloc[a].pc = "record"
    /\ Commit(RecordMany(kloc[a].specs, kloc[a].saw))
    /\ SetCaller(a, Idle)
    /\ UNCHANGED <<preds, window, calls>>

\* brain_record_events_batch: events whose edge ids are no UUIDs are set aside,
\* the others go to the service.
PerEventBegin(a, specs, malformed) ==
    /\ Call(a, "perEvent")
    /\ SetCaller(a, [pc |-> "perEvent", specs |-> specs, todo |-> (1..Len(specs)) \ malformed])
    /\ UNCHANGED <<ents, edges, preds, events, mems, window>>

\* record_events_batch_per_event_tx and _process_one_event: one transaction per
\* event; a failure is only reported and the loop goes on.
PerEventStep(a) ==
    LET c == kloc[a]
        first == CHOOSE i \in c.todo : \A j \in c.todo : i <= j
    IN /\ c.pc = "perEvent" /\ c.todo # {}
       /\ Commit(RecordMany(<<c.specs[first]>>, Snapshot))
       /\ SetCaller(a, [c EXCEPT !.todo = @ \ {first}])
       /\ UNCHANGED <<preds, window, calls>>

PerEventAnswer(a) ==
    /\ kloc[a].pc = "perEvent" /\ kloc[a].todo = {}
    /\ SetCaller(a, Idle)
    /\ UNCHANGED <<ents, edges, preds, events, mems, window, calls>>

NextWindow ==
    /\ window < MaxWindows /\ window' = window + 1
    /\ UNCHANGED <<ents, edges, preds, events, mems, kloc, calls>>

-----------------------------------------------------------------------------
(* Reading the graph.                                                      *)

\* get_neighbors(direction = both): the active edges, a row for each of their two
\* ends.
NeighborRows == {r \in EdgeIds \X {1, 3} : edges[r[1]].status = "active"}
RowsAt(R, n) == {r \in R : edges[r[1]].t[r[2]] = n}
Crowded(n) == Cardinality(RowsAt(NeighborRows, n)) > Fanout

\* The names at the other ends of a name's rows.
Near(R, n) == Names \cap {edges[r[1]].t[4 - r[2]] : r \in RowsAt(R, n)}
View(R) == [n \in Names |-> Near(R, n)]

\* What it answers on the names a search asks about, each once: of more rows than
\* its limit, as many, by confidence, which is not modelled: any of them.
Views ==
    LET crowd == {n \in Names : Crowded(n)}
        cut == {r \in NeighborRows : edges[r[1]].t[r[2]] \in crowd}
    IN {View((NeighborRows \ cut) \cup R) :
            R \in {C \in SUBSET cut : \A n \in crowd : Cardinality(RowsAt(C, n)) = Fanout}}

ExplainOneHopShort(view, s, o, maxHops) ==
    IF s = o THEN 0 ELSE IF maxHops > 1 /\ o \in view[s] THEN 1 ELSE -1

\* explain_connection: breadth first, one level per hop, each name expanded with
\* at most Fanout of its edges, stopping when the object is met, the frontier is
\* empty or max_hops is used up.  The answer is the hop count, or -1 when no path
\* was found.
ExplainConnection(view, s, o, maxHops) ==
    LET bfs[h \in 0..maxHops] ==
            IF h = 0 THEN [queue |-> {s}, visited |-> {s}]
            ELSE LET last == bfs[h-1]
                     next == (UNION {view[n] : n \in last.queue}) \ last.visited
                 IN [queue |-> next, visited |-> last.visited \cup next]
        found == {h \in 0..maxHops : o \in bfs[h].queue}
    IN IF found = {} THEN -1 ELSE CHOOSE h \in found : TRUE

KgNext ==
    \/ \E a \in Actors :
        \/ \E n \in Names : \E aka \in {{}, Names \ {n}} : UpsertEntity(a, n, aka)
        \/ \E n \in Names : ResolveEntity(a, n)
        \/ \E p \in Preds, m \in 0..1 : RegisterPredicate(a, p, m)
        \/ \E t \in Triples, old \in 0..Len(edges) : EdgeRead(a, t, old)
        \/ \E i \in EdgeIds : \/ MarkEdgeStale(a, i) \/ ContradictEdge(a, i)
                             \/ ReinforceRead(a, i)
                             \/ EdgeHelpful(a, i) \/ EdgeMisleading(a, i)
        \/ \E r \in EventLists : \/ RecordBegin(a, r)
                              \/ \E bad \in SUBSET (1..Len(r)) : PerEventBegin(a, r, bad)
        \/ ResolveCreate(a) \/ EdgeWrite(a) \/ SupersedePoint(a) \/ ReinforceWrite(a)
        \/ RecordCommit(a) \/ PerEventStep(a) \/ PerEventAnswer(a)
    \/ NextWindow

KgSpec == KgInit /\ [][KgNext]_kgvars

-----------------------------------------------------------------------------
(* Properties.                                                             *)

\* However upserts, events and supersessions interleave, a triple is asserted by
\* at most one active edge, and both of its ends are entities (upsert_edge reads
\* and then inserts; the index and the foreign keys decide).
ActiveTripleUnique ==
    /\ \A t \in Triples : Cardinality(ActiveEdges(t)) <= 1
    /\ \A i \in EdgeIds : ents[edges[i].t[1]].on /\ ents[edges[i].t[3]].on

\* Reinforcement is debounced: within a 60-second window an edge is reinforced
\* once, whichever of upsert_edge, an event, reinforce_edge or helpful feedback
\* comes, and however many callers read the edge before the first one wrote it.
OncePerWindow == \A i \in EdgeIds : edges[i].cnt <= edges[i].last + 1

PathOf(view, s, o, h) ==
    \E w \in [0..h -> Names] : w[0] = s /\ w[h] = o /\ \A i \in 1..h : w[i] \in view[w[i-1]]

\* r is the length of a shortest path of a view, or -1 for none within mh hops.
Shortest(view, s, o, mh, r) ==
    IF r = -1 THEN \A h \in 0..mh : ~PathOf(view, s, o, h)
    ELSE PathOf(view, s, o, r) /\ \A h \in 0..(r-1) : ~PathOf(view, s, o, h)

\* explain_connection answers with a path of active edges, and it is a shortest
\* one of the edges get_neighbors lets the search see; it finds none only when
\* these have none within max_hops.  Where no entity has more active edges than
\* the fan-out cap these are the whole graph; where one has, the search may miss a
\* path, or take a longer one.
ExplainIsShortest ==
    LET graph == View(NeighborRows)
        crowded == \E n \in Names : Crowded(n)
    IN \A view \in Views :
        /\ crowded \/ view = graph
        /\ \A s, o \in Names, mh \in 1..2 :
            LET r == ExplainConnection(view, s, o, mh)
            IN Shortest(view, s, o, mh, r) /\ (r # -1 => PathOf(graph, s, o, r))

\* An edge that was closed stays closed, and a supersession pointer once written
\* is not rewritten: two callers superseding the same edge cannot both win.
ClosedEdgesStayClosed ==
    [][\A i \in EdgeIds : /\ edges[i].status # "active" => edges'[i].status # "active"
                          /\ edges[i].by # 0 => edges'[i].by = edges[i].by]_kgvars
=============================================================================

------------------------------ MODULE Gateway ------------------------------
(***************************************************************************)
(* The doors of the service: the REST routes of http_adapter.py, the MCP   *)
(* tools of mcp_server/, the middleware and the authentication in front of *)
(* them, the project registry behind them.                                 *)
(*                                                                         *)
(* A handler is the sequence of gates a request passes, in the code's      *)
(* order; a request that no gate refuses reaches its service.  A gate that *)
(* looks only at the request (its body, its fields, its origin, ...) may   *)
(* refuse or pass; a gate that looks at shared state - the registry, the   *)
(* store cache, the guard table, the stored responses - is a step of its   *)
(* own, and other requests and administrators act between two of them.     *)
(* What the services do is the subject of the other modules: here a write  *)
(* is an effect in a project.                                              *)
(***************************************************************************)
EXTENDS Integers, Sequences, FiniteSets

CONSTANTS
    Projects,     \* project ids a request may name
    Literals,     \* those that are placeholders: STRICT_REFUSED_PROJECT_LITERALS
    NoProject,    \* the header is absent
    Requests,     \* requests; each is made once
    Replicas,     \* server processes that share the database
    Deployments,  \* the settings: [strict, perTenant, token]
    MaxAdmin,     \* bound: administrator operations
    Nobody        \* nobody holds the guard

ASSUME GatewayAssumption ==
    /\ Literals \subseteq Projects /\ NoProject \notin Projects /\ Nobody \notin Requests
    /\ Deployments \subseteq [strict : BOOLEAN, perTenant : BOOLEAN, token : BOOLEAN]
    /\ MaxAdmin \in Nat

Global == -1     \* the deployment's own token
NoCred == 0      \* no Authorization header

VARIABLES
    deploy,       \* the deployment's settings, fixed at start
    reg,          \* project_profiles: registered, approved, hashed_token (0 = NULL)
    opened,       \* _STORE_CACHE of each replica: projects with an open store
    guards,       \* _idem_guards of each replica: holder per project (one key)
    kept,         \* stored responses: [p, op, by]
    req,          \* the requests
    admin         \* administrator operations so far

gwvars == <<deploy, reg, opened, guards, kept, req, admin>>

-----------------------------------------------------------------------------
(* The wire in front of the handlers.                                      *)

\* OriginAllowlistMiddleware, RestProfileGateMiddleware, then the route's own
\* dependency: the profile is looked at before the credential.
RestWire == <<"origin", "profile", "auth">>

\* McpTenantMiddleware: the deployment's token, the tenant headers, the profile;
\* then the profile gate of tools/call and the tenant context of the tool.
McpWire == <<"origin", "bearer", "tenant", "profile", "toolgate">>

-----------------------------------------------------------------------------
(* REST handlers.                                                          *)

V1Remember == <<"tenant", "identity", "store", "key", "guard", "replay", "body", "fields", "write", "record">>
V1Reinforce == <<"tenant", "store", "key", "guard", "replay", "body", "fields", "write", "record">>
V1RememberBatch == <<"tenant", "store", "key", "guard", "replay", "body", "fields", "write", "record">>
V1ReinforceBatch == <<"tenant", "store", "key", "guard", "replay", "body", "fields", "write", "record">>
V1Forget == <<"tenant", "store", "key", "guard", "replay", "body", "fields", "write", "record">>
V1LearnSuccess == <<"tenant", "store", "key", "guard", "replay", "body", "fields", "write", "record">>
V1LearnFailure == <<"tenant", "store", "key", "guard", "replay", "body", "fields", "write", "record">>

\* Events go to the connection manager: there is no store to open.  An error of the
\* batch is answered at once and not stored.
V1Experience == <<"tenant", "key", "guard", "replay", "body", "fields", "cm", "write", "record">>
V1ExperienceBatch == <<"tenant", "key", "guard", "replay", "body", "fields", "cm", "writeAll", "record">>

V1RecallBatch == <<"tenant", "store", "body", "fields", "read">>
V1Recall == <<"tenant", "store", "body", "fields", "read">>
V1ExperienceQuery == <<"project", "body", "fields", "cm", "read">>
V1ProfileDataSet == <<"project", "body", "fields", "cm", "write">>
V1ProfileDataGet == <<"project", "body", "fields", "cm", "read">>

V1DocumentPut == <<"tenant", "store", "body", "write">>
V1DocumentRead == <<"tenant", "store", "read">>
V1DocumentDelete == <<"tenant", "store", "write">>
V1LearningPromote == <<"tenant", "store", "body", "fields", "write">>
V1LearningDemote == <<"tenant", "store", "body", "fields", "write">>
V1RecallToolPaths == <<"tenant", "store", "body", "read">>
V1MissionSet == <<"tenant", "store", "body", "write">>
V1MissionGet == <<"tenant", "store", "body", "read">>

\* The neighbours of an entity that does not exist yet: it is created first.
V1KgNeighbors == <<"tenant", "body", "fields", "cm", "write", "read">>
V1SnapshotGraph == <<"project", "fields", "cm", "read">>
V1SnapshotHealth == <<"project", "fields", "cm", "read">>
V1KgExplain == <<"project", "body", "fields", "cm", "read">>
V1KgFeedback == <<"tenant", "store", "body", "fields", "write">>
V1PredicatesRegister == <<"tenant", "body", "fields", "cm", "write">>
V1PredicatesList == <<"tenant", "cm", "read">>
V1KgCheck == <<"tenant", "body", "cm", "read">>
V1ResolveEntity == <<"project", "body", "fields", "cm", "write">>
V1ResolveEntities == <<"project", "body", "fields", "cm", "write">>

Rest ==
    [remember |-> V1Remember, reinforce |-> V1Reinforce, remember_batch |-> V1RememberBatch,
     reinforce_batch |-> V1ReinforceBatch, forget |-> V1Forget,
     learn_success |-> V1LearnSuccess, learn_failure |-> V1LearnFailure,
     experience |-> V1Experience, experience_batch |-> V1ExperienceBatch,
     recall_batch |-> V1RecallBatch, recall |-> V1Recall, experience_query |-> V1ExperienceQuery,
     profile_data_set |-> V1ProfileDataSet, profile_data_get |-> V1ProfileDataGet,
     document_put |-> V1DocumentPut, document_read |-> V1DocumentRead,
     document_delete |-> V1DocumentDelete, promote |-> V1LearningPromote,
     demote |-> V1LearningDemote, tool_paths |-> V1RecallToolPaths,
     mission_set |-> V1MissionSet, mission_get |-> V1MissionGet,
     kg_neighbors |-> V1KgNeighbors, snapshot_graph |-> V1SnapshotGraph,
     snapshot_health |-> V1SnapshotHealth, kg_explain |-> V1KgExplain,
     kg_feedback |-> V1KgFeedback, predicates_register |-> V1PredicatesRegister,
     predicates_list |-> V1PredicatesList, kg_check |-> V1KgCheck,
     resolve_entity |-> V1ResolveEntity, resolve_entities |-> V1ResolveEntities]

-----------------------------------------------------------------------------
(* MCP tools: "check" and "note" are _mcp_idempotency_check and _record,   *)
(* with no guard around the tool's body.                                   *)

\* These two open the store before they look for a stored response.
MemorySave == <<"store", "check", "write", "note">>
MemoryReinforce == <<"store", "check", "write", "note">>

MemoryDelete == <<"check", "store", "write", "note">>
MemorySupersede == <<"check", "store", "write", "note">>
MemorySaveMany == <<"check", "store", "write", "note">>
MemoryReinforceMany == <<"check", "store", "write", "note">>
BrainRemember == <<"check", "store", "write", "note">>
BrainForget == <<"check", "store", "write", "note">>
BrainLearnSuccess == <<"check", "store", "write", "note">>
BrainLearnFailure == <<"check", "store", "write", "note">>

\* Tools without a key, by what they touch.
MemoryReads == <<"store", "read">>       \* get, search, list, groups, recall, history, recall_many
MemoryWrites == <<"store", "write">>     \* ingest, index_session, capture, update_tags
BrainReads == <<"store", "read">>        \* recall, status, metrics, export, audit, tool paths
BrainWrites == <<"store", "write">>      \* promote, demote, mission state
FeedbackTools == <<"store", "write">>
DiagnosticsTools == <<"store", "read">>
HiveTools == <<"store", "write">>
AgentTools == <<"write">>
DocumentTools == <<"store", "write">>
ProfileDataSet == <<"fields", "cm", "write">>
ProfileDataGet == <<"cm", "read">>
Resources == <<"store", "read">>
RecordEvent == <<"fields", "cm", "write">>
RecordEventsBatch == <<"fields", "cm", "write">>
QueryEvents == <<"fields", "cm", "read">>
GetNeighbors == <<"fields", "cm", "write", "read">>
V1ExplainConnection == <<"fields", "cm", "read">>
RecordFeedback == <<"fields", "store", "write">>
ResolveEntityTool == <<"fields", "cm", "write">>
RegisterPredicateTool == <<"fields", "cm", "write">>
CheckTool == <<"fields", "cm", "read">>

\* The operator's tools ask first whether this server is an operator's.
OperatorConfig == <<"operator", "store", "write">>
OperatorMaintenance == <<"operator", "store", "write">>
OperatorIo == <<"operator", "store", "write">>

Mcp ==
    [memory_save |-> MemorySave, memory_reinforce |-> MemoryReinforce,
     memory_delete |-> MemoryDelete, memory_supersede |-> MemorySupersede,
     memory_save_many |-> MemorySaveMany, memory_reinforce_many |-> MemoryReinforceMany,
     brain_remember |-> BrainRemember, brain_forget |-> BrainForget,
     brain_learn_success |-> BrainLearnSuccess, brain_learn_failure |-> BrainLearnFailure,
     memory_reads |-> MemoryReads, memory_writes |-> MemoryWrites,
     brain_reads |-> BrainReads, brain_writes |-> BrainWrites,
     feedback |-> FeedbackTools, diagnostics |-> DiagnosticsTools, hive |-> HiveTools,
     agents |-> AgentTools, documents |-> DocumentTools,
     brain_profile_set |-> ProfileDataSet, brain_profile_get |-> ProfileDataGet,
     resources |-> Resources, brain_record_event |-> RecordEvent,
     brain_record_events_batch |-> RecordEventsBatch, brain_query_events |-> QueryEvents,
     brain_get_neighbors |-> GetNeighbors, brain_explain_connection |-> V1ExplainConnection,
     brain_record_feedback |-> RecordFeedback, brain_resolve_entity |-> ResolveEntityTool,
     brain_register_predicate |-> RegisterPredicateTool, brain_kg_check |-> CheckTool,
     maintenance_config |-> OperatorConfig, maintenance |-> OperatorMaintenance,
     maintenance_io |-> OperatorIo]

\* Handlers with the same gates are the same handler here.
RestHandlers == {RestWire \o Rest[r] : r \in DOMAIN Rest}
McpHandlers == {McpWire \o Mcp[r] : r \in DOMAIN Mcp}
Has(h, g) == \E i \in 1..Len(h) : h[i] = g

\* Without a key in the request the idempotency gates do nothing.
KeyGates == {"key", "guard", "replay", "record", "check", "note"}
Unkeyed(g) == g \notin KeyGates
KeyedHandlers == {h \in RestHandlers \union McpHandlers : \E g \in KeyGates : Has(h, g)}
UnkeyedHandlers == {SelectSeq(h, Unkeyed) : h \in RestHandlers \union McpHandlers}
IsRest(h) == h[2] = "profile"

-----------------------------------------------------------------------------
(* Passing the gates.                                                      *)

Shared == {"auth", "store", "guard", "replay", "check", "write", "writeAll", "record", "note"}
Unmade == [pc |-> 0]

Lookups == {"replay", "check"}

\* A REST request meets the credential gate before any gate with shared state.
\* With a key nothing is written or stored before a stored response was looked
\* for; a REST route looks under its guard and stores right after its write.
ASSUME HandlersAssumption ==
    /\ \A h \in KeyedHandlers \union UnkeyedHandlers :
          /\ h \in Seq(STRING)
          /\ IsRest(h) => Len(h) >= 3 /\ h[1] \notin Shared /\ h[3] = "auth"
    /\ \A h \in KeyedHandlers : \A i \in 1..Len(h) :
          /\ h[i] \in {"write", "writeAll", "record", "note"} => \E k \in 1..(i - 1) : h[k] \in Lookups
          /\ IsRest(h) /\ h[i] \in Lookups => \E k \in 1..(i - 1) : h[k] = "guard"
          /\ IsRest(h) /\ h[i] \in {"write", "writeAll"} => i < Len(h) /\ h[i + 1] = "record"

\* A request carries its program's index, what it is about, and what came of it:
\*   ans   "" while under way; then done, refused, failed, broken or replayed
\*   did   the service changed the project
\*   rec   its response was stored
\*   after the answered duplicates with a stored response when it arrived
\*   seen  the project's tokens while it was under way
Underway(q) == req[q].pc > 0 /\ req[q].ans = ""
Made == {q \in Requests : req[q].pc > 0}
At(q, g) == Underway(q) /\ req[q].h[req[q].pc] = g /\ ~req[q].autoreg
Row(p) == IF p = NoProject THEN [on |-> FALSE, appr |-> FALSE, tok |-> 0] ELSE reg[p]

\* resolve_tenant_or_refuse, without its answer about the agent.
TenantOk(p) == p # NoProject /\ ~(deploy.strict /\ p \in Literals)

\* require_data_plane_auth after the per-tenant part, and _check_mcp_auth: with no
\* token configured a strict server refuses and another one is open.
GlobalVerdict(cred) ==
    IF ~deploy.token THEN {TRUE, FALSE} ELSE {cred = Global}

AuthFallsThrough(c) ==
    IF ~deploy.perTenant \/ Row(c.p).tok # c.cred THEN GlobalVerdict(c.cred) ELSE {TRUE}

\* require_data_plane_auth with per-tenant tokens: verify_token answers True, False
\* or None, or cannot answer.
AuthVerdict(c) ==
    IF ~deploy.perTenant THEN GlobalVerdict(c.cred)
    ELSE IF c.p = NoProject \/ c.cred = NoCred THEN {FALSE}
    ELSE {FALSE} \union
         (IF Row(c.p).tok = 0 THEN GlobalVerdict(c.cred) ELSE {Row(c.p).tok = c.cred})

\* The gates that look at nothing shared: which answers each may give.
Verdict(c, g) ==
    CASE g = "tenant"  -> {FALSE} \union {TenantOk(c.p)}
      [] g = "project" -> {c.p # NoProject}
      [] g = "bearer"  -> GlobalVerdict(c.cred)
      [] OTHER         -> {TRUE, FALSE}

\* The first gate with shared state from gate i on, or the end of the handler.
NextShared(prog, i) ==
    CHOOSE j \in i..(Len(prog) + 1) :
        /\ \A k \in i..(j - 1) : prog[k] \notin Shared
        /\ j = Len(prog) + 1 \/ prog[j] \in Shared

\* From gate i on: the next gate with shared state, or an answer.
Walk(c, i) ==
    LET prog == c.h
        stop == NextShared(prog, i)
        pure == i..(stop - 1)
        no   == [c EXCEPT !.pc = i, !.autoreg = FALSE]
    IN  (IF \A k \in pure : TRUE \in Verdict(c, prog[k])
         THEN {[c EXCEPT !.pc = stop, !.autoreg = FALSE,
                         !.ans = IF stop > Len(prog) THEN "done" ELSE ""]}
         ELSE {})
        \union {[no EXCEPT !.ans = IF prog[k] = "read" THEN "failed" ELSE "refused"] :
                    k \in {k \in pure : FALSE \in Verdict(c, prog[k])}}

\* The finally block: whatever the answer, a guard that is held is given up.
GuardsAfter(q, c) ==
    IF c.ans # "" /\ guards[c.rep][c.p] = q
    THEN [guards EXCEPT ![c.rep][c.p] = Nobody] ELSE guards

Become(q, c) == req' = [req EXCEPT ![q] = c] /\ guards' = GuardsAfter(q, c)
GoOn(q, c) == \E d \in Walk(c, c.pc + 1) : Become(q, d)
Answer(q, c, a) == Become(q, [c EXCEPT !.ans = a, !.autoreg = FALSE])

GwInit ==
    /\ deploy \in Deployments
    /\ reg \in [Projects -> [on : BOOLEAN, appr : {FALSE}, tok : {0, MaxAdmin + 1}]]
    /\ \A p \in Projects : (reg[p].on \/ reg[p].tok = 0) /\ (p \in Literals => ~reg[p].on)
    /\ opened = [s \in Replicas |-> {}]
    /\ guards = [s \in Replicas |-> [p \in Projects \union {NoProject} |-> Nobody]]
    /\ kept = {} /\ req = [q \in Requests |-> Unmade] /\ admin = 0

\* A request arrives: the first may be any, the others are its duplicates.
Arrive(q) ==
    /\ req[q] = Unmade
    /\ \E h \in KeyedHandlers \union UnkeyedHandlers, p \in Projects \union {NoProject},
          s \in Replicas, cred \in {NoCred, Global} \union {reg[x].tok : x \in Projects} :
          /\ \A o \in Made : h \in KeyedHandlers /\ req[o].h = h /\ req[o].p = p
          /\ \E c \in Walk([pc |-> 1, h |-> h, p |-> p, cred |-> cred, rep |-> s,
                            ans |-> "", did |-> FALSE, rec |-> FALSE, autoreg |-> FALSE,
                            after |-> {o \in Made : req[o].ans # "" /\ req[o].rec},
                            seen |-> {Row(p).tok}], 1) : Become(q, c)
    /\ UNCHANGED <<deploy, reg, opened, kept, admin>>

Authenticate(q) ==
    /\ At(q, "auth")
    /\ \E ok \in AuthVerdict(req[q]) :
          IF ok THEN GoOn(q, req[q]) ELSE Answer(q, req[q], "refused")
    /\ UNCHANGED <<deploy, reg, opened, kept, admin>>

\* _StoreCache.get_or_create
Open(s, p) == opened' = [opened EXCEPT ![s] = @ \union {p}]

\* _get_store_for_project on a cached store: the registry is not asked.
ReuseStore(q) ==
    /\ At(q, "store") /\ req[q].p \in opened[req[q].rep]
    /\ GoOn(q, req[q])
    /\ UNCHANGED <<deploy, reg, opened, kept, admin>>

\* ProjectRegistry.resolve as a new store asks it.
Resolve(q) ==
    /\ At(q, "store") /\ req[q].p \notin opened[req[q].rep]
    /\ \/ /\ Row(req[q].p).on
          /\ Open(req[q].rep, req[q].p) /\ GoOn(q, req[q])
       \/ /\ ~Row(req[q].p).on /\ deploy.strict
          /\ Answer(q, req[q], "refused") /\ UNCHANGED opened
       \/ /\ ~Row(req[q].p).on /\ ~deploy.strict
          /\ req' = [req EXCEPT ![q].autoreg = TRUE] /\ UNCHANGED <<opened, guards>>
    /\ UNCHANGED <<deploy, reg, kept, admin>>

\* _resolve_profile_from_registry: the registry could not be read, and the store is
\* opened without it, strict or not.
ResolveUnread(q) ==
    /\ At(q, "store") /\ req[q].p \notin opened[req[q].rep]
    /\ Open(req[q].rep, req[q].p)
    /\ GoOn(q, req[q])
    /\ UNCHANGED <<deploy, reg, kept, admin>>

\* register(source="auto"): an upsert, so it overwrites a registration made since.
AutoRegister(q) ==
    /\ Underway(q) /\ req[q].autoreg
    /\ reg' = [reg EXCEPT ![req[q].p].on = TRUE, ![req[q].p].appr = FALSE]
    /\ Open(req[q].rep, req[q].p) /\ GoOn(q, req[q])
    /\ UNCHANGED <<deploy, kept, admin>>

AcquireWithoutWaiting(q) ==
    /\ At(q, "guard")
    /\ \E c \in Walk(req[q], req[q].pc + 1) :
          /\ req' = [req EXCEPT ![q] = c]
          /\ guards' = IF c.ans = "" THEN [guards EXCEPT ![c.rep][c.p] = q] ELSE guards
    /\ UNCHANGED <<deploy, reg, opened, kept, admin>>

\* _acquire_idem_guard
AcquireGuard(q) ==
    /\ At(q, "guard") /\ guards[req[q].rep][req[q].p] = Nobody
    /\ \E c \in Walk(req[q], req[q].pc + 1) :
          /\ req' = [req EXCEPT ![q] = c]
          /\ guards' = IF c.ans = "" THEN [guards EXCEPT ![c.rep][c.p] = q] ELSE guards
    /\ UNCHANGED <<deploy, reg, opened, kept, admin>>

\* _idempotency_check and _mcp_idempotency_check: a stored response of the same
\* operation is the answer; a lookup that fails refuses.
Lookup(q) ==
    /\ At(q, "replay") \/ At(q, "check")
    /\ LET hit == \E k \in kept : k.p = req[q].p /\ k.op = req[q].h
       IN  \/ hit /\ Answer(q, req[q], "replayed")
           \/ ~hit /\ GoOn(q, req[q])
           \/ Answer(q, req[q], "refused")
    /\ UNCHANGED <<deploy, reg, opened, kept, admin>>

\* The service: it writes; or it returns an error, which is a response like another
\* except for the batch of events; or it raises, before or after its write.
Serve(q) ==
    /\ At(q, "write") \/ At(q, "writeAll")
    /\ \/ GoOn(q, [req[q] EXCEPT !.did = TRUE])
       \/ IF At(q, "writeAll") THEN Answer(q, req[q], "failed") ELSE GoOn(q, req[q])
       \/ \E did \in BOOLEAN : Answer(q, [req[q] EXCEPT !.did = @ \/ did], "broken")
    /\ UNCHANGED <<deploy, reg, opened, kept, admin>>

\* IdempotencyStore.save: the first response stays.  When it fails a REST request
\* is answered 503 although it has written; a tool call is answered as if it had not.
Record(q) ==
    /\ At(q, "record") \/ At(q, "note")
    /\ \/ /\ kept' = IF \E k \in kept : k.p = req[q].p /\ k.op = req[q].h THEN kept
                     ELSE kept \union {[p |-> req[q].p, op |-> req[q].h, by |-> q]}
          /\ Answer(q, [req[q] EXCEPT !.rec = TRUE], "done")
       \/ /\ UNCHANGED kept
          /\ Answer(q, req[q], IF At(q, "record") THEN "broken" ELSE "done")
    /\ UNCHANGED <<deploy, reg, opened, admin>>

-----------------------------------------------------------------------------
(* /admin/projects: an administrator that the rate limit and the admin     *)
(* token let through.                                                      *)

Administer(p, row) ==
    /\ admin < MaxAdmin /\ admin' = admin + 1
    /\ reg' = [reg EXCEPT ![p] = row]
    /\ req' = [q \in Requests |-> IF req[q].pc > 0 /\ req[q].p = p /\ req[q].ans = ""
                                  THEN [req[q] EXCEPT !.seen = @ \union {row.tok}] ELSE req[q]]
    /\ UNCHANGED <<deploy, opened, guards, kept>>

AdminRegister(p) ==
    /\ \E appr \in BOOLEAN : Administer(p, [reg[p] EXCEPT !.on = TRUE, !.appr = appr])
AdminApprove(p) ==
    /\ reg[p].on /\ Administer(p, [reg[p] EXCEPT !.appr = TRUE])
AdminDelete(p) ==
    /\ reg[p].on /\ Administer(p, [on |-> FALSE, appr |-> FALSE, tok |-> 0])
RotateToken(p) ==
    /\ reg[p].on /\ Administer(p, [reg[p] EXCEPT !.tok = admin + 1])
RevokeToken(p) ==
    /\ reg[p].on /\ Administer(p, [reg[p] EXCEPT !.tok = 0])

RequestStep(q) ==
    \/ Authenticate(q) \/ ReuseStore(q) \/ Resolve(q) \/ ResolveUnread(q) \/ AutoRegister(q)
    \/ AcquireGuard(q) \/ Lookup(q) \/ Serve(q) \/ Record(q)

GwNext ==
    \/ \E q \in Requests : Arrive(q) \/ RequestStep(q)
    \/ \E p \in Projects : AdminRegister(p) \/ AdminApprove(p) \/ AdminDelete(p)
                           \/ RotateToken(p) \/ RevokeToken(p)

GwSpec == GwInit /\ [][GwNext]_gwvars

-----------------------------------------------------------------------------
(* Properties.                                                             *)

\* With per-tenant tokens a REST write was authorised by the project's own token, or
\* by the deployment's while the project had none, at some moment of the request -
\* rotations and revocations in between included (require_data_plane_auth).
CredentialWasValid ==
    \A q \in Made :
        req[q].did /\ deploy.perTenant /\ IsRest(req[q].h) =>
            \/ req[q].cred \in req[q].seen \ {0}
            \/ 0 \in req[q].seen /\ (req[q].cred = Global \/ ~deploy.token)

\* A duplicate that arrives when the first response is stored does not execute
\* again; and on one replica two REST duplicates never both execute unless the first
\* one's response could not be stored (the guard of TAP-629).  Tools have no guard
\* and replicas do not share theirs: their duplicates execute twice only when they
\* overlap.
DuplicatesExecuteOnce ==
    \A q, o \in Made :
        q # o /\ req[q].did /\ req[o].did /\ req[o].rec =>
            /\ o \notin req[q].after
            /\ IsRest(req[q].h) /\ req[q].rep = req[o].rep =>
                   req[q].ans = "broken"
=============================================================================

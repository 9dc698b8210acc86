--------------------------- MODULE TenancyMigration ---------------------------
(***************************************************************************)
(* The tenancy migration tool (maintenance/tenancy_migrate.py).            *)
(*                                                                         *)
(* Rows filed under a placeholder project or agent (the S3 population) are *)
(* re-homed or archived.  A dry run reads the tables and writes a plan; a  *)
(* later process applies it in one transaction over both tables, row by    *)
(* row, by the identities the plan captured.  The application goes on      *)
(* writing all the while: between the reads of the dry run, between plan   *)
(* and apply, and between the statements of the transaction (READ          *)
(* COMMITTED), where only rows the transaction has changed are locked.     *)
(*                                                                         *)
(* A row is its version with the facts the rules look at; contents are     *)
(* left out.  The tool handles rows in the order of the plan; here any     *)
(* order is possible.                                                      *)
(***************************************************************************)
EXTENDS Integers, FiniteSets, FiniteSetsExt

CONSTANTS
    Keys,      \* row_ids: memory keys, or relation triples
    Projects,  \* project ids in use
    Agents,    \* agent ids in use
    Approvals, \* the sets of projects project_profiles may approve
    Times,     \* updated_at / created_at of the rows that are there
    MaxRows,   \* bound: rows at the start
    MaxWrites, \* bound: writes of the application
    MaxPlans   \* bound: dry runs

S3Projects == {"default", "main"}   \* "api" and "repo-brain" are like "main"
S3Agents == {"unknown"}             \* "default" is like it
Scout == "nlt-ideas-scout"
Legacy == "legacy-unattributed"

ASSUME NamesAssumption ==
    Projects \subseteq STRING /\ Agents \subseteq STRING /\ {"ingest", Legacy} \subseteq Agents
ASSUME ApprovalsAssumption == Approvals \subseteq SUBSET Projects
ASSUME BoundsAssumption ==
    /\ Times \subseteq Nat /\ IsFiniteSet(Keys \X Projects \X Agents)
    /\ \E t \in Times : \A u \in Times : t >= u
    /\ MaxRows \in Nat /\ MaxWrites \in Nat /\ MaxPlans \in Nat

Tables == {"memories", "relations"}
Ids == [table : Tables, project : Projects, agent : Agents, key : Keys]
NoId == "none"

VARIABLES
    base,      \* the committed rows
    live,      \* the rows as the tool's transaction sees them
    archived,  \* archived rows, with the identity they had
    approved,  \* project_profiles
    audit,     \* the earliest save/remember event of a key, or NoAudit
    pc, table, \* where the tool is, and in which table
    plan,      \* the identities captured, each with its target or ToArchive
    count,     \* live_count of each table
    predicted, \* the targets of the plan's collisions
    todo,      \* captured rows of the table still to be re-homed
    snap,      \* snapshot_count
    surprise,  \* a collision was resolved that the plan did not predict
    writes, plans,
    due,       \* history: the versions the application believes stored
    dirty      \* history: it wrote during the transaction

facts == <<approved, audit>>
planVars == <<plan, count, predicted>>
work == <<todo, snap, surprise>>
app == <<writes, due, dirty>>
vars == <<base, live, archived, facts, pc, table, planVars, work, plans, app>>

-----------------------------------------------------------------------------
(* Rows *)

\* _MEMORIES_PREDICATE_SQL; tenants that look like probes are never looked at.
InS3(i) == i.project \in S3Projects \/ i.agent \in S3Agents

\* A version is named by the identity it was written under and the write.
\* maps: the project that agent_project_map gives for the row's source_agent.
\* ingest: unknown source_agent, ingest key, created_at inside the window.
\* Both are looked at in memories outside "default" only; a project that is not
\* approved is like none.
TableRow(i, n, t, m, g) == [ver |-> <<i, n>>, ts |-> t, maps |-> m, ingest |-> g]
NoRow == [ver |-> <<>>, ts |-> 0, maps |-> NoId, ingest |-> FALSE]
RowsAt(i) ==
    LET looked == i.table = "memories" /\ i.project # "default" /\ InS3(i)
    IN {r \in [ver : {<<i, 0>>}, ts : Times, maps : {NoId} \union approved, ingest : BOOLEAN] :
            /\ r.maps # NoId => looked
            /\ r.ingest => looked /\ i.project = Scout}

Present(r) == {i \in Ids : r[i] # NoRow}
Versions(r) == {r[i].ver : i \in Present(r)}

S3Rows(r, t) == {i \in Present(r) : i.table = t /\ InS3(i)}

NoAudit == [project |-> NoId, agent |-> NoId]

Init ==
    /\ approved \in Approvals
    /\ \E n \in 1..MaxRows : \E S \in kSubset(n, Ids) :
        \E f \in [S -> UNION {RowsAt(i) : i \in S}] :
            /\ \A i \in S : f[i] \in RowsAt(i)
            /\ base = [i \in Ids |-> IF i \in S THEN f[i] ELSE NoRow]
    /\ live = base /\ archived = {}
    /\ audit \in [Keys -> {NoAudit} \union [project : approved, agent : {"ingest", "unknown"}]]
    /\ pc = "idle" /\ table = "memories"
    /\ plan = <<>> /\ count = [t \in Tables |-> 0] /\ predicted = {}
    /\ todo = {} /\ snap = 0 /\ surprise = FALSE
    /\ writes = 0 /\ plans = 0
    /\ due = Versions(base) /\ dirty = FALSE

-----------------------------------------------------------------------------
(* The rules: where a row goes *)

ToArchive == [table |-> "archive", project |-> NoId, agent |-> NoId, key |-> NoId]
Home(i, p, a) == [i EXCEPT !.project = p, !.agent = a]

IngestMatch(i, r) == i.project = Scout /\ r.ingest

\* resolve_target_agent
TargetAgent(i, r) ==
    CASE i.agent \notin S3Agents -> i.agent
      [] i.agent \in S3Agents /\ audit[i.key].agent \notin S3Agents \union {NoId}
            -> audit[i.key].agent
      [] OTHER -> IF IngestMatch(i, r) THEN "ingest" ELSE Legacy

R1(i) == i.table = "memories" /\ audit[i.key].project \in approved
R2(i, r) == i.project # "default" /\ r.maps \in approved
R3(i, r) == i.project # "default" /\ IngestMatch(i, r)
R4(i) == i.project \notin S3Projects /\ i.agent \in S3Agents

\* classify_memory_row, classify_relation_row: the first rule that fires.
Classify(i, r) ==
    CASE R1(i) -> Home(i, audit[i.key].project, TargetAgent(i, r))
      [] ~R1(i) /\ R2(i, r) -> Home(i, r.maps, TargetAgent(i, r))
      [] ~R1(i) /\ ~R2(i, r) /\ R3(i, r) -> Home(i, i.project, "ingest")
      [] OTHER -> IF R4(i) THEN Home(i, i.project, Legacy) ELSE ToArchive

-----------------------------------------------------------------------------
(* The dry run: build_plan *)

Goto(l) == pc' = l

\* The transaction rolls back, the archive table included.  The plan is still
\* there: it may be applied again or made anew, which replaces it.
Refuse ==
    /\ Goto("planned") /\ table' = "memories"
    /\ live' = base /\ archived' = {}
    /\ todo' = {} /\ snap' = 0 /\ surprise' = FALSE /\ dirty' = FALSE

\* load_approved_projects, enumerate_*_rows and the classification.  Nothing to
\* do is an error, and so is a row that would stay where it is.
Enumerate ==
    LET rows == S3Rows(base, "memories") \union S3Rows(base, "relations")
        p == [i \in rows |-> Classify(i, base[i])]
    IN /\ pc \in {"idle", "refused", "planned"} /\ plans < MaxPlans
       /\ plans' = plans + 1
       /\ plan' = p
       /\ IF rows = {} \/ \E i \in rows : p[i] = i THEN Goto("refused") ELSE Goto("count")
       /\ UNCHANGED <<base, live, archived, facts, table, count, predicted, work, writes, due, dirty>>

Planned(t) == {i \in DOMAIN plan : i.table = t}

\* live_predicate_count must agree with what was enumerated.
CountLive ==
    /\ pc = "count"
    /\ count' = [t \in Tables |-> Cardinality(S3Rows(base, t))]
    /\ Goto(IF \A t \in Tables : count'[t] = Cardinality(Planned(t)) THEN "collisions" ELSE "refused")
    /\ UNCHANGED <<base, live, archived, facts, table, plan, predicted, work, plans, app>>

Rehomed(t) == {i \in Planned(t) : plan[i] # ToArchive}

\* _detect_collisions: a target that is taken, or that two rows converge on.
DetectCollisions ==
    /\ pc = "collisions"
    /\ predicted' = {plan[i] : i \in {j \in DOMAIN plan : plan[j] # ToArchive /\
            (base[plan[j]] # NoRow \/ \E k \in DOMAIN plan \ {j} : plan[k] = plan[j])}}
    /\ Goto("planned")
    /\ UNCHANGED <<base, live, archived, facts, table, plan, count, work, plans, app>>

-----------------------------------------------------------------------------
(* apply_plan, in one transaction: the memories first, then the relations *)

BeginApply ==
    /\ pc = "planned"
    /\ Goto("check")
    /\ UNCHANGED <<base, live, archived, facts, table, planVars, work, plans, app>>

Archival(i) == [id |-> i, row |-> live[i]]
InTransaction == pc \in {"check", "snapshot", "rehome", "commit"}

\* _apply_table: a different number of rows than planned is a stale plan.
CheckStale ==
    /\ pc = "check"
    /\ IF Cardinality(S3Rows(live, table)) # count[table]
       THEN Refuse
       ELSE Goto("snapshot") /\ UNCHANGED <<live, archived, table, work, dirty>>
    /\ UNCHANGED <<base, facts, planVars, plans, writes, due>>

\* CREATE TABLE ... AS SELECT, then the count of it.
Snapshot ==
    /\ pc = "snapshot"
    /\ archived' = archived \union {Archival(i) : i \in S3Rows(live, table)}
    /\ snap' = Cardinality(S3Rows(live, table))
    /\ todo' = Rehomed(table) /\ surprise' = FALSE
    /\ Goto("rehome")
    /\ UNCHANGED <<base, live, facts, table, planVars, plans, app>>

\* Mutant: a row that loses its place is overwritten.
RehomeOverwrites ==
    /\ pc = "rehome"
    /\ \E i \in todo :
        LET to == plan[i]
            wins == live[i] # NoRow /\ (live[to] = NoRow \/ live[i].ts >= live[to].ts)
        IN /\ todo' = todo \ {i}
           /\ surprise' = (surprise \/ (live[to] # NoRow /\ to \notin predicted))
           /\ live' = IF wins THEN [live EXCEPT ![to] = live[i], ![i] = NoRow] ELSE live
    /\ UNCHANGED <<base, archived, facts, pc, table, planVars, snap, plans, app>>

\* Mutant: the source always wins.
RehomeSourceWins ==
    /\ pc = "rehome"
    /\ \E i \in todo :
        LET to == plan[i]
            collides == live[i] # NoRow /\ live[to] # NoRow
        IN /\ todo' = todo \ {i}
           /\ surprise' = (surprise \/ (collides /\ to \notin predicted))
           /\ live' = IF live[i] = NoRow THEN live ELSE [live EXCEPT ![to] = live[i], ![i] = NoRow]
           /\ archived' = IF collides THEN archived \union {Archival(to)} ELSE archived
    /\ UNCHANGED <<base, facts, pc, table, planVars, snap, plans, app>>

\* _apply_one_rehome: the newer row gets the target, a tie goes to the source;
\* an existing row that loses is archived, a source that loses stays for now.
Rehome ==
    /\ pc = "rehome"
    /\ \E i \in todo :
        LET to == plan[i]
            collides == live[i] # NoRow /\ live[to] # NoRow
            wins == live[i] # NoRow /\ (live[to] = NoRow \/ live[i].ts >= live[to].ts)
        IN /\ todo' = todo \ {i}
           /\ surprise' = (surprise \/ (collides /\ to \notin predicted))
           /\ live' = IF wins THEN [live EXCEPT ![to] = live[i], ![i] = NoRow] ELSE live
           /\ archived' = IF wins /\ collides THEN archived \union {Archival(to)} ELSE archived
    /\ UNCHANGED <<base, facts, pc, table, planVars, snap, plans, app>>

\* _bulk_delete_by_identity: by the identities the rows had, whatever is there.
Delete(ids) == [i \in Ids |-> IF i \in ids THEN NoRow ELSE live[i]]

\* After the last row: refuse what was not predicted, delete every captured
\* identity, and verify.  A refusal rolls the whole transaction back.  (A write
\* between the deletes and their verification is refused too: that is Die.)
FinishTable ==
    /\ pc = "rehome" /\ todo = {}
    /\ IF surprise \/ snap # count[table]
       THEN Refuse
       ELSE /\ live' = Delete(Planned(table))
            /\ table' = "relations"
            /\ Goto(IF table = "memories" THEN "check" ELSE "commit")
            /\ UNCHANGED <<archived, work, dirty>>
    /\ UNCHANGED <<base, facts, planVars, plans, writes, due>>

Commit ==
    /\ pc = "commit"
    /\ base' = live
    /\ Goto("committed")
    /\ UNCHANGED <<live, archived, facts, table, planVars, work, plans, app>>

\* The process dies, or a statement fails.
Die ==
    /\ InTransaction
    /\ Refuse
    /\ UNCHANGED <<base, facts, planVars, plans, writes, due>>

-----------------------------------------------------------------------------
(* The application *)

Unlocked(i) == base[i] = live[i]
Wrote(old, new) ==
    /\ writes < MaxWrites /\ writes' = writes + 1
    /\ due' = (due \ {old.ver}) \union new
    /\ dirty' = (dirty \/ InTransaction)
    /\ UNCHANGED <<archived, approved, pc, table, planVars, work, plans>>

\* A save under any identity, which is an audit event too.  The time is of the
\* clock of the process that saves: not always later than what is stored.
Save(i, t) ==
    LET r == TableRow(i, writes + 1, t, NoId, FALSE) IN
    /\ Unlocked(i)
    /\ base' = [base EXCEPT ![i] = r] /\ live' = [live EXCEPT ![i] = r]
    /\ audit' = IF i.table = "memories" /\ audit[i.key] = NoAudit
                THEN [audit EXCEPT ![i.key] = [project |-> i.project, agent |-> i.agent]]
                ELSE audit
    /\ Wrote(base[i], {r.ver})

Remove(i) ==
    /\ Unlocked(i) /\ base[i] # NoRow
    /\ base' = [base EXCEPT ![i] = NoRow] /\ live' = [live EXCEPT ![i] = NoRow]
    /\ Wrote(base[i], {})
    /\ UNCHANGED audit

Tool ==
    \/ Enumerate \/ CountLive \/ DetectCollisions
    \/ BeginApply \/ CheckStale \/ Snapshot \/ Rehome \/ FinishTable \/ Commit \/ Die

Rest ==
    /\ pc = "committed" \/ (pc = "refused" /\ plans = MaxPlans)
    /\ UNCHANGED vars

Next == Tool \/ Rest \/ \E i \in Ids : Remove(i) \/ \E t \in Times \union {Max(Times) + 1} : Save(i, t)
Spec == Init /\ [][Next]_vars

-----------------------------------------------------------------------------
(* Properties *)

\* Whatever the application believes stored is in the tables or in the archive,
\* as long as it did not write during the transaction: no chain of moves, lost
\* collision, refusal or crash makes a row vanish, even if the rows changed
\* between plan and apply.
NothingLost ==
    ~dirty => due \subseteq Versions(base) \union {a.row.ver : a \in archived}

\* No approved project is itself a placeholder.
RealHomes == approved \cap S3Projects = {}

\* A commit leaves at every target the newest of the rows that contended for it.
NewestSurvives ==
    [][pc = "commit" /\ pc' = "committed" /\ ~dirty /\ RealHomes =>
        \A i \in {j \in DOMAIN plan : plan[j] # ToArchive} : \A a \in archived :
            a.id \in {i, plan[i]} => base'[plan[i]] # NoRow /\ base'[plan[i]].ts >= a.row.ts]_vars
===============================================================================

------------------------------ MODULE Sharing ------------------------------
(***************************************************************************)
(* The Hive: what a local save, a push, a relay import or a forget does to *)
(* the shared rows (postgres_hive.py, backends.py, _save_propagation.py,   *)
(* memory_relay.py, hive_service.py), and how a reader waits for a write.  *)
(*                                                                         *)
(* One agent is modelled; its calls run in threads or processes (Workers). *)
(* The rows of a logical key in a namespace are a sequence: element 1 is   *)
(* the row stored under the key itself, later elements are the versions    *)
(* (key-v<timestamp>) that superseding saves add.  A save or an archive is *)
(* one transaction at READ COMMITTED: it reads the tip, then writes.       *)
(***************************************************************************)
EXTENDS Integers, Sequences, FiniteSets

CONSTANTS Workers, Keys, Groups,
          Tiers, PrivateTiers, AutoTiers, PublishTiers,   \* profile.hive
          Expert,        \* the agent declares an expert domain
          None,
          MaxCalls,      \* bound on the calls the workers make
          MaxWaited      \* the same while a reader waits

\* There are finitely many groups.
ASSUME SharingAssumption == IsFiniteSet(Groups)

Universal == "universal"
Profile == "profile"           \* the namespace of agent_scope = "domain"
Namespaces == {Universal, Profile} \cup Groups
Scopes == {"private", "domain", "hive", "group"} \cup Groups   \* group:<name>

VARIABLES
  rows,      \* hive_memories: [Namespaces -> [Keys -> Seq(row)]]
  revision,  \* hive_write_notify.revision
  members,   \* groups the agent is in (hive_group_members)
  declared,  \* MemoryStore._groups
  local,     \* the tier of the private row, or None
  job,       \* what each worker is doing
  waiter,    \* a hive_wait_write call
  calls      \* calls made so far

shVars == <<rows, revision, members, declared, local, job, waiter, calls>>

Row(t) == [live |-> TRUE, next |-> 0, tier |-> t,
                   archived |-> FALSE]
\* What a worker has to do: its entries, the targets of the first, how to write them.
Job(op, items, todo, scope, force, dry) ==
  [op |-> op, items |-> items, todo |-> todo, scope |-> scope, force |-> force, dry |-> dry,
   plan |-> None, selected |-> IF op = "push" THEN Len(items) ELSE 0,
   pushed |-> 0, skipped |-> 0, failed |-> 0]
Idle == Job("idle", <<>>, <<>>, "private", FALSE, FALSE)

ShInit ==
  /\ rows = [n \in Namespaces |-> [k \in Keys |-> <<>>]]
  /\ revision = 0
  /\ declared \in SUBSET Groups
  /\ members = declared          \* _setup_group_memberships
  /\ local = [k \in Keys |-> None]
  /\ job = [w \in Workers |-> Idle]
  /\ waiter = [pc |-> "idle", since |-> 0, listening |-> FALSE, note |-> FALSE,
               changed |-> FALSE]
  /\ calls = 0

---------------------------------------------------------------------------
(* Which namespaces a write goes to.                                       *)

EffectiveScope(scope, tier, force) ==
  IF force THEN scope
  ELSE IF tier \in PrivateTiers THEN "private"
  ELSE IF tier \in AutoTiers /\ scope = "private" THEN "domain"
  ELSE scope

(* The namespace PropagationEngine writes to; None is a refusal: private,
   not a member of the named group, or the bare group left to the fan-out. *)
EngineNamespace(scope, tier, force) ==
  LET eff == EffectiveScope(scope, tier, force)
  IN CASE eff \in Groups -> IF eff \in members THEN eff ELSE None
       [] eff = "hive" -> Universal
       [] eff = "domain" -> Profile
       [] OTHER -> None

Order(S) == CHOOSE s \in [1..Cardinality(S) -> S] : {s[i] : i \in DOMAIN s} = S

GroupFanOut(scope) == IF scope = "group" THEN Order(declared) ELSE <<>>

ExpertPublish(scope, tier) ==
  IF Expert /\ tier \in PublishTiers /\ scope = "private" THEN <<Universal>> ELSE <<>>

(* _postprocess_saved_entry: the engine, then the fan-out, then the experts. *)
AfterSave(scope, tier) == <<"engine">> \o GroupFanOut(scope) \o ExpertPublish(scope, tier)

ReapNamespaces == {Universal, Profile} \cup members

---------------------------------------------------------------------------
(* Rows of one logical key.                                                *)

HiveRows == [live : BOOLEAN, next : Nat, tier : Tiers, archived : BOOLEAN]

(* _follow_live_tip walks from the row stored under the key along superseded_by,
   as long as the row it is at is closed and names a successor.            *)
Continues(s, i) == ~s[i].live /\ s[i].next # 0
Walk(s) == {i \in DOMAIN s : \A C \in SUBSET DOMAIN s :
              1 \in C /\ (\A j \in C : Continues(s, j) => s[j].next \in C) => i \in C}
FollowTip(s) == IF s = <<>> THEN 0 ELSE CHOOSE i \in Walk(s) : ~Continues(s, i)

(* The row hive get() answers with: 0 when there is none. *)
Found(s) == IF s # <<>> /\ s[FollowTip(s)].live THEN FollowTip(s) ELSE 0

(* save() inserts, or marks the tip it read and appends the new version.
   The insert is an upsert: it resets a row committed since the read. *)
SupersedeUnlinked(s, tip, row) == Append([s EXCEPT ![tip].live = FALSE], row)
SupersedeExisting(s, tip, row) ==
  Append([s EXCEPT ![tip].live = FALSE, ![tip].next = Len(s) + 1], row)
WriteEntry(s, row) == IF s = <<>> THEN <<row>> ELSE [s EXCEPT ![1] = row]

Archived(s, tip) ==
  IF tip > 0 /\ s[tip].live
  THEN [s EXCEPT ![tip].live = FALSE, ![tip].archived = TRUE] ELSE s

(* Every committed write bumps the revision and notifies the listeners. *)
Commit(n, k, s) ==
  /\ rows' = [rows EXCEPT ![n][k] = s]
  /\ revision' = revision + 1
  /\ waiter' = [waiter EXCEPT !.note = @ \/ waiter.listening]

---------------------------------------------------------------------------
(* The calls of a worker.                                                  *)

Count(n) ==
  /\ calls' = calls + n
  /\ calls' <= IF waiter.pc = "idle" THEN MaxCalls ELSE MaxWaited
Call(w, n) == job[w].op = "idle" /\ Count(n)

(* MemoryStore.save (AgentBrain.remember too): the private row is durable
   before anything is shared, and the entry saved is what is shared. *)
SaveEntry(w, k, t, scope) ==
  /\ Call(w, 1)
  /\ local' = [local EXCEPT ![k] = t]
  /\ job' = [job EXCEPT ![w] = Job("share", <<<<k, t>>>>, AfterSave(scope, t), scope, FALSE, FALSE)]
  /\ UNCHANGED <<rows, revision, members, declared, waiter>>

(* A relay import saves its items one after the other; an invalid or refused
   one is counted as skipped.                                             *)
ImportRelay(w, items) ==
  /\ Call(w, Len(items))
  /\ job' = [job EXCEPT ![w] = Job("relay", items, <<>>, "private", FALSE, FALSE)]
  /\ UNCHANGED <<rows, revision, members, declared, local, waiter>>

RelayItem(w, ok) ==
  /\ job[w].op = "relay" /\ job[w].todo = <<>> /\ job[w].items # <<>>
  /\ LET e == Head(job[w].items)
     IN IF ok
        THEN /\ local' = [local EXCEPT ![e[1]] = e[2]]
             /\ job' = [job EXCEPT ![w].todo = AfterSave("private", e[2])]
        ELSE /\ job' = [job EXCEPT ![w].items = Tail(@), ![w].skipped = @ + 1]
             /\ UNCHANGED local
  /\ UNCHANGED <<rows, revision, members, declared, waiter, calls>>

(* hive_push over the selected entries. *)
HivePush(w, items, scope, force, dry) ==
  /\ Call(w, Len(items))
  /\ scope # "private"
  /\ \A i \in DOMAIN items : local[items[i][1]] = items[i][2]
  /\ job' = [job EXCEPT ![w] = Job("push", items, <<"engine">>, scope, force, dry)]
  /\ UNCHANGED <<rows, revision, members, declared, local, waiter>>

(* hive_propagate: the same for one key, as it is now. *)
HivePropagate(w, k, scope, force, dry) ==
  local[k] # None /\ HivePush(w, <<<<k, local[k]>>>>, scope, force, dry)

(* brain_forget deletes the private row, then archives the shared copies in
   every namespace the agent can name now.                                *)
Forget(w, k) ==
  /\ Call(w, 1)
  /\ local[k] # None
  /\ local' = [local EXCEPT ![k] = None]
  /\ job' = [job EXCEPT ![w] = Job("reap", <<<<k, local[k]>>>>, Order(ReapNamespaces), "private", FALSE, FALSE)]
  /\ UNCHANGED <<rows, revision, members, declared, waiter>>

(* A worker goes on with its next namespace, or with the next item. *)
Advance(j) ==
  IF Len(j.todo) > 1 THEN [j EXCEPT !.todo = Tail(@), !.plan = None]
  ELSE IF Len(j.items) > 1
  THEN [j EXCEPT !.items = Tail(@), !.plan = None,
                 !.todo = IF j.op = "push" THEN <<"engine">> ELSE <<>>]
  ELSE [j EXCEPT !.items = <<>>, !.todo = <<>>, !.plan = None]

Note(j, what) ==
  IF j.op # "push" THEN j
  ELSE CASE what = "pushed" -> [j EXCEPT !.pushed = @ + 1]
         [] what = "skipped" -> [j EXCEPT !.skipped = @ + 1]
         [] OTHER -> [j EXCEPT !.failed = @ + 1]

(* Resolve the namespace and read the tip there: a refusal or a dry run
   ends this target without a transaction. *)
ReadTip(w) ==
  /\ job[w].todo # <<>> /\ job[w].plan = None
  /\ LET k == Head(job[w].items)[1]
         t == Head(job[w].items)[2]
         n == IF Head(job[w].todo) # "engine" THEN Head(job[w].todo)
              ELSE EngineNamespace(job[w].scope, t, job[w].force)
     IN job' = [job EXCEPT ![w] =
          IF n = None THEN Advance(Note(@, "skipped"))
          ELSE IF @.dry THEN Advance(Note(@, "pushed"))
          ELSE [@ EXCEPT !.plan = [ns |-> n, tip |-> FollowTip(rows[n][k]),
                                   tier |-> t, seen |-> rows[n][k]]]]
  /\ UNCHANGED <<rows, revision, members, declared, local, waiter, calls>>

WriteRow(w) ==
  /\ job[w].plan # None /\ job[w].op \in {"share", "relay", "push"}
  /\ LET k == Head(job[w].items)[1]
         p == job[w].plan
         row == Row(p.tier)
     IN /\ Commit(p.ns, k, IF p.tip = 0 THEN WriteEntry(rows[p.ns][k], row)
                           ELSE SupersedeExisting(rows[p.ns][k], p.tip, row))
        /\ job' = [job EXCEPT ![w] = Advance(Note(@, "pushed"))]
  /\ UNCHANGED <<members, declared, local, calls>>

(* The UPDATE of archive_entry tests that the tip is still live. *)
ArchiveRow(w) ==
  /\ job[w].plan # None /\ job[w].op = "reap"
  /\ LET k == Head(job[w].items)[1]
         p == job[w].plan
         s == rows[p.ns][k]
         hit == p.tip > 0 /\ s[p.tip].live
     IN /\ IF hit THEN Commit(p.ns, k, Archived(s, p.tip))
           ELSE UNCHANGED <<rows, revision, waiter>>
        /\ job' = [job EXCEPT ![w] = Advance(@)]
  /\ UNCHANGED <<members, declared, local, calls>>

(* The transaction fails and rolls back: the engine's caller, the fan-out,
   the expert publisher and the reaper each log it and go on. *)
HiveFails(w) ==
  /\ job[w].plan # None
  /\ job' = [job EXCEPT ![w] = Advance(Note(@, "failed"))]
  /\ UNCHANGED <<rows, revision, members, declared, local, waiter, calls>>

Return(w) ==
  /\ job[w].op # "idle" /\ job[w].todo = <<>> /\ job[w].items = <<>>
  /\ job' = [job EXCEPT ![w] = Idle]
  /\ UNCHANGED <<rows, revision, members, declared, local, waiter, calls>>

(* add_group_member, remove_group_member. *)
AddMember(g) ==
  /\ g \notin members /\ Count(1)
  /\ members' = members \cup {g}
  /\ UNCHANGED <<rows, revision, declared, local, job, waiter>>

RemoveMember(g) ==
  /\ g \in members /\ Count(1)
  /\ members' = members \ {g}
  /\ UNCHANGED <<rows, revision, declared, local, job, waiter>>

(* patch_confidence touches the live row stored under the exact key. *)
PatchConfidence(n, k) ==
  /\ Count(1)
  /\ rows[n][k] # <<>> /\ rows[n][k][1].live
  /\ Commit(n, k, rows[n][k])
  /\ UNCHANGED <<members, declared, local, job>>

---------------------------------------------------------------------------
(* hive_wait_write: answer at once when the revision is past the caller's;
   else LISTEN, look again, and block until one notification or the timeout;
   any failure falls back to polling. *)

Answer == waiter' = [waiter EXCEPT !.pc = "done", !.listening = FALSE,
                                   !.changed = revision > waiter.since]

WaitBegin(r) ==
  /\ waiter.pc = "idle" /\ calls = 0
  /\ waiter' = [pc |-> IF revision > r THEN "done" ELSE "listen", since |-> r,
                listening |-> FALSE, note |-> FALSE, changed |-> revision > r]
  /\ UNCHANGED <<rows, revision, members, declared, local, job, calls>>

WaitListen ==
  /\ waiter.pc = "listen"
  /\ waiter' = [waiter EXCEPT !.pc = "check", !.listening = TRUE]
  /\ UNCHANGED <<rows, revision, members, declared, local, job, calls>>

WaitCheck ==
  /\ waiter.pc = "check"
  /\ IF revision > waiter.since THEN Answer ELSE waiter' = [waiter EXCEPT !.pc = "blocked"]
  /\ UNCHANGED <<rows, revision, members, declared, local, job, calls>>

WaitNotified ==
  /\ waiter.pc = "blocked" /\ waiter.note
  /\ Answer
  /\ UNCHANGED <<rows, revision, members, declared, local, job, calls>>

WaitTimeout ==
  /\ waiter.pc \in {"blocked", "poll"}
  /\ Answer
  /\ UNCHANGED <<rows, revision, members, declared, local, job, calls>>

WaitFails ==
  /\ waiter.pc \in {"listen", "check", "blocked"}
  /\ waiter' = [waiter EXCEPT !.pc = "poll", !.listening = FALSE, !.note = FALSE]
  /\ UNCHANGED <<rows, revision, members, declared, local, job, calls>>

(* Polling the state read on the way in. *)
WaitPollCached ==
  /\ waiter.pc = "poll" /\ waiter.changed
  /\ Answer
  /\ UNCHANGED <<rows, revision, members, declared, local, job, calls>>
WaitPoll ==
  /\ waiter.pc = "poll" /\ revision > waiter.since
  /\ Answer
  /\ UNCHANGED <<rows, revision, members, declared, local, job, calls>>

Wait == WaitListen \/ WaitCheck \/ WaitNotified \/ WaitPoll

Entries == Keys \X Tiers
Batches == {<<e>> : e \in Entries}
           \cup {<<e, e>> : e \in Entries}

Work(w) == ReadTip(w) \/ WriteRow(w) \/ ArchiveRow(w) \/ Return(w)

ShNext ==
  \/ \E w \in Workers :
       \/ \E k \in Keys, t \in Tiers, sc \in Scopes : SaveEntry(w, k, t, sc)
       \/ \E b \in Batches : ImportRelay(w, b)
       \/ \E ok \in BOOLEAN : RelayItem(w, ok)
       \/ \E sc \in Scopes, force, dry \in BOOLEAN :
            \/ \E b \in Batches : Len(b) > 1 /\ HivePush(w, b, sc, force, dry)
            \/ \E k \in Keys : HivePropagate(w, k, sc, force, dry)
       \/ \E k \in Keys : Forget(w, k)
       \/ Work(w) \/ HiveFails(w)
  \/ \E g \in Groups : AddMember(g) \/ RemoveMember(g)
  \/ \E n \in Namespaces, k \in Keys : PatchConfidence(n, k)
  \/ \E r \in 0..1 : WaitBegin(r)
  \/ Wait \/ WaitTimeout \/ WaitFails

(* A waiter's thread is scheduled and PostgreSQL delivers a notification to
   a session that listens; no fairness is assumed of the timeout. *)
ShSpec == ShInit /\ [][ShNext]_shVars /\ WF_shVars(Wait)

---------------------------------------------------------------------------
(* Properties.                                                             *)

(* A shared key stays readable: get() finds a live row unless the row its
   chain ends in was archived by a forget.  This holds even when two saves
   read the same tip, because a superseding save links the row it closes to
   the row it adds in one transaction (_supersede_existing). *)
ReadableUnlessArchived ==
  \A n \in Namespaces, k \in Keys :
    rows[n][k] # <<>> /\ Found(rows[n][k]) = 0 => rows[n][k][FollowTip(rows[n][k])].archived

(* Without its timeout, a waiter still answers once the revision has passed
   the one it knows. *)
WakesUp == []<>(waiter.pc \in {"done", "idle"} \/ revision <= waiter.since)
=============================================================================

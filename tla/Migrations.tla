------------------------------ MODULE Migrations ------------------------------
(***************************************************************************)
(* Schema migration runners (postgres_migrations.py) over one version      *)
(* table.  Replicas of old and new binaries, and operators at the command  *)
(* line, apply or roll back migrations at the same time; a session-level   *)
(* advisory lock, given up when the connection closes, serialises them.    *)
(*                                                                         *)
(* Migration files are numbered 1, 2, ...; a binary bundles the first      *)
(* `bundle` of them.  Every up file records its own version row and every  *)
(* down file removes it, in the transaction that runs the file.  File 1    *)
(* creates the version table and its down file drops it.                   *)
(***************************************************************************)
EXTENDS Integers, FiniteSets

CONSTANTS
    Runners,     \* processes that migrate
    Latest,      \* the newest migration any binary bundles
    Bundles,     \* how many migrations the binaries in use bundle
    Roles,       \* what the runners do: subset of AllRoles
    MaxFaults,   \* bound: statements that raise, and processes that die
    MaxRestarts  \* bound: runners started again after a failure

\* maybe_auto_migrate_private, apply_*_migrations, rollback_*_migrations
AllRoles == {"auto", "apply", "rollback"}

\* holder when nobody has the lock
Nobody == "nobody"

ASSUME NobodyAssumption == Nobody \notin Runners
ASSUME LatestAssumption == Latest \in Nat
ASSUME BundlesAssumption == Bundles \subseteq 1..Latest
ASSUME RolesAssumption == Roles \subseteq AllRoles
ASSUME FaultsAssumption == MaxFaults \in Nat /\ MaxRestarts \in Nat

VARIABLES
    role, bundle, target, \* of each runner; target is a rollback's target_version
    pc,
    plan,      \* `pending` / `to_rollback`: the versions still to run
    holder,    \* who has the advisory lock
    recorded,  \* the rows of the version table
    faults, restarts

params == <<role, bundle, target>>
vars == <<params, pc, plan, holder, recorded, faults, restarts>>

Ended == {"ok", "refused", "failed"}
Rollsback(r) == role[r] = "rollback"

Init ==
    /\ role \in [Runners -> Roles]
    /\ bundle \in [Runners -> Bundles]
    /\ target \in [Runners -> 0..Latest]
    /\ \A r \in Runners : ~Rollsback(r) => target[r] = 0
    /\ pc = [r \in Runners |-> "start"]
    /\ plan = [r \in Runners |-> {}]
    /\ holder = Nobody
    /\ \E n \in 0..Latest : recorded = 1..n
    /\ faults = 0 /\ restarts = 0

Goto(r, l) == pc' = [pc EXCEPT ![r] = l]
Plan(r, S) == plan' = [plan EXCEPT ![r] = S]

\* `with psycopg.connect(...)` ends: the connection closes and the lock goes.
Close(r, how) ==
    /\ Goto(r, how)
    /\ Plan(r, {})
    /\ holder' = IF holder = r THEN Nobody ELSE holder

-----------------------------------------------------------------------------
(* Before the lock *)

\* The downgrade gate of maybe_auto_migrate_private, from a status read of its own.
CheckStatus(r) ==
    /\ pc[r] = "start" /\ role[r] = "auto"
    /\ Goto(r, IF \E v \in recorded : v > bundle[r] THEN "refused" ELSE "lock")
    /\ UNCHANGED <<params, plan, holder, recorded, faults, restarts>>

StartApply(r) ==
    /\ pc[r] = "start" /\ role[r] = "apply"
    /\ Goto(r, "lock")
    /\ UNCHANGED <<params, plan, holder, recorded, faults, restarts>>

\* _rollback_migrations reads the version table and plans before it locks.
PlanRollback(r) ==
    LET down == {v \in 1..bundle[r] : v > target[r] /\ v \in recorded} IN
    /\ pc[r] = "start" /\ Rollsback(r)
    /\ Plan(r, down)
    /\ Goto(r, IF down = {} THEN "ok" ELSE "lock")
    /\ UNCHANGED <<params, holder, recorded, faults, restarts>>

-----------------------------------------------------------------------------
(* Under the lock *)

\* pg_advisory_lock
Lock(r) ==
    /\ pc[r] = "lock" /\ holder = Nobody
    /\ holder' = r
    /\ Goto(r, IF Rollsback(r) THEN "run" ELSE "read")
    /\ UNCHANGED <<params, plan, recorded, faults, restarts>>

\* _apply_migrations: the bundled versions that have no row.
ReadApplied(r) ==
    /\ pc[r] = "read"
    /\ Plan(r, (1..bundle[r]) \ recorded)
    /\ Goto(r, "run")
    /\ UNCHANGED <<params, holder, recorded, faults, restarts>>

Oldest(S) == {v \in S : \A w \in S : v <= w}
Newest(S) == {v \in S : \A w \in S : v >= w}
\* The file a runner executes next.
NextFile(r) == IF Rollsback(r) THEN Newest(plan[r]) ELSE Oldest(plan[r])

\* Every file but the first needs the version table to be there.
Runnable(v) == v = 1 \/ 1 \in recorded

\* Mutant: pending files run in the order the directory lists them.
UpAnyOrder(r) ==
    /\ pc[r] = "run" /\ ~Rollsback(r)
    /\ \E v \in plan[r] : recorded' = recorded \union {v} /\ Plan(r, plan[r] \ {v})
    /\ UNCHANGED <<params, pc, holder, faults, restarts>>

\* Run the oldest pending file and commit.
Up(r) ==
    /\ pc[r] = "run" /\ ~Rollsback(r)
    /\ \E v \in NextFile(r) :
        /\ Runnable(v)
        /\ recorded' = recorded \union {v}
        /\ Plan(r, plan[r] \ {v})
    /\ UNCHANGED <<params, pc, holder, faults, restarts>>

\* Run the newest planned down file and commit; it takes its row along, the
\* first one takes the table.
Down(r) ==
    /\ pc[r] = "run" /\ Rollsback(r)
    /\ \E v \in NextFile(r) :
        /\ Runnable(v)
        /\ recorded' = IF v = 1 THEN {} ELSE recorded \ {v}
        /\ Plan(r, plan[r] \ {v})
    /\ UNCHANGED <<params, pc, holder, faults, restarts>>

\* Nothing is left to run.
Complete(r) ==
    /\ pc[r] = "run" /\ plan[r] = {}
    /\ Close(r, "ok")
    /\ UNCHANGED <<params, recorded, faults, restarts>>

\* Mutant: a statement that raises is retried from the lock on, without limit.
StatementRetried(r) ==
    /\ pc[r] = "run" /\ plan[r] # {}
    /\ Close(r, "lock")
    /\ UNCHANGED <<params, recorded, faults, restarts>>

\* A statement raises: its transaction rolls back and the connection closes.
StatementRaises(r) ==
    /\ pc[r] = "run" /\ plan[r] # {}
    /\ \/ faults < MaxFaults /\ faults' = faults + 1
       \/ (\E v \in NextFile(r) : ~Runnable(v)) /\ UNCHANGED faults
    /\ Close(r, "failed")
    /\ UNCHANGED <<params, recorded, restarts>>

-----------------------------------------------------------------------------
\* The process dies; the server closes its session.
Die(r) ==
    /\ pc[r] \notin Ended
    /\ faults < MaxFaults /\ faults' = faults + 1
    /\ Close(r, "failed")
    /\ UNCHANGED <<params, recorded, restarts>>

\* A failed runner is started again.
Restart(r) ==
    /\ pc[r] = "failed" /\ restarts < MaxRestarts
    /\ restarts' = restarts + 1
    /\ Goto(r, "start")
    /\ UNCHANGED <<params, plan, holder, recorded, faults>>

Run(r) ==
    \/ CheckStatus(r) \/ StartApply(r) \/ PlanRollback(r)
    \/ Lock(r) \/ ReadApplied(r) \/ Up(r) \/ Down(r) \/ Complete(r) \/ StatementRaises(r)

AllEnded == \A r \in Runners : pc[r] \in Ended
Finished == AllEnded /\ UNCHANGED vars

Next == Finished \/ \E r \in Runners : Run(r) \/ Die(r) \/ Restart(r)

\* A live runner is scheduled, and Postgres grants a free lock to a waiter.
Fairness == \A r \in Runners : WF_vars(Run(r))
Spec == Init /\ [][Next]_vars /\ Fairness

-----------------------------------------------------------------------------
(* Properties *)

\* Types; whoever is inside the locked section holds the lock.
TypeOK ==
    /\ role \in [Runners -> AllRoles] /\ bundle \in [Runners -> 1..Latest]
    /\ target \in [Runners -> 0..Latest]
    /\ pc \in [Runners -> {"start", "lock", "read", "run"} \union Ended]
    /\ plan \in [Runners -> SUBSET (1..Latest)]
    /\ recorded \subseteq 1..Latest
    /\ faults \in Nat /\ restarts \in Nat
    /\ \A r \in Runners : pc[r] \in {"read", "run"} => holder = r

\* Runners of one kind: a deployment that migrates forward, or operators who
\* all roll back.
NobodyRollsBack == \A r \in Runners : ~Rollsback(r)
\* The recorded versions are always 1..n as long as nobody rolls back: no
\* deployment order of old and new binaries, no failure and no restart leaves a gap.
PrefixRecorded == NobodyRollsBack => \E n \in 0..Latest : recorded = 1..n

\* As long as nobody rolls back, a runner that reported success left every
\* migration it bundles recorded, whoever applied it.
CompletedMeansMigrated ==
    NobodyRollsBack => \A r \in Runners : pc[r] = "ok" => 1..bundle[r] \subseteq recorded

\* As long as nobody rolls back, no migration file is executed again once its
\* version is recorded.
Executes(r) == pc[r] = "run" /\ plan'[r] # plan[r] /\ pc'[r] = "run"
NeverRerun ==
    [][NobodyRollsBack => \A r \in Runners : Executes(r) => plan[r] \cap recorded = {}]_vars

\* The downgrade gate holds although it is read before the lock: as long as nobody
\* rolls back, no runner executes a migration on a schema newer than its binary.
NoDowngradeWrite ==
    [][NobodyRollsBack => \A r \in Runners : Executes(r) => \A v \in recorded : v <= bundle[r]]_vars

\* Every runner that set out ends; none waits for ever behind a lock left by a failed one.
EveryRunnerEnds == []<>(\A r \in Runners : pc[r] \in Ended \cup {"start"})

\* A down file runs only for a version that the table records.
OnlyRecordedRolledBack ==
    [][\A r \in Runners : Executes(r) /\ Rollsback(r) => NextFile(r) \subseteq recorded]_vars
===============================================================================

---------------------------- MODULE Maintenance ----------------------------
(***************************************************************************)
(* The maintenance daemon. Once per interval it runs a cycle: the passes   *)
(* over the served tenant, the feedback pass of every tenant, and one      *)
(* transaction that creates the partitions of experience_events ahead of   *)
(* time, drops the old ones and writes the heartbeat. A pass that raises   *)
(* ends the cycle; the loop sleeps and tries again. The probes read the    *)
(* partitions and the heartbeat.                                           *)
(***************************************************************************)
EXTENDS Integers, FiniteSets

CONSTANTS Tenants,        \* tenants with feedback events
          TicksPerMonth,  \* intervals of the daemon in a month
          MonthsAhead,    \* partition_months_ahead
          Window,         \* migration 020 creates the partitions 0 .. Window
          Retention,      \* TAPPS_BRAIN_EVENTS_RETENTION_MONTHS
          MaxTick         \* bound on time

ASSUME MaintenanceAssumption ==
  /\ TicksPerMonth \in Nat \ {0} /\ MonthsAhead \in Nat \ {0}
  /\ Window \in Nat /\ Retention \in Nat \ {0} /\ MaxTick \in Nat

VARIABLES tick, parts,     \* the months that have a partition
          stored,          \* months with event rows in their own partition
          overflow,        \* months with event rows in experience_events_default
          behind,          \* tenants with unprocessed feedback
          daemon,          \* the loop: alive, due, dry_run
          cycle,           \* the cycle under way
          lastOk,          \* state.last_cycle_ok
          heartbeat        \* the newest heartbeat row: its time and mode

mtVars == <<tick, parts, stored, overflow, behind, daemon, cycle, lastOk, heartbeat>>

MonthOf(t) == t \div TicksPerMonth
Month == MonthOf(tick)

Asleep == [pc |-> "sleep", todo |-> {}]

-----------------------------------------------------------------------------
(* The cycle *)

\* The wake-up. Nothing else of the daemon runs meanwhile: a cycle is shorter
\* than the interval.
DaemonWakes ==
  /\ daemon.alive /\ daemon.due /\ cycle = Asleep
  /\ cycle' = [Asleep EXCEPT !.pc = "single"]
  /\ UNCHANGED <<tick, parts, stored, overflow, behind, daemon, lastOk, heartbeat>>

\* A pass raised: the rest of the cycle is not run, the loop sleeps.
CycleFails ==
  /\ lastOk' = FALSE
  /\ cycle' = Asleep
  /\ daemon' = [daemon EXCEPT !.due = FALSE]

\* _run_single_tenant_passes: consolidation, feedback, decay, demotion, gc and
\* their audit rows (modelled by Lifecycle and Flywheel); the first to raise
\* ends the cycle.
SingleTenantPasses(ok) ==
  /\ cycle.pc = "single"
  /\ IF ok THEN /\ cycle' = [cycle EXCEPT !.pc = IF daemon.dry THEN "cross" ELSE "list"]
                /\ UNCHANGED <<daemon, lastOk>>
           ELSE CycleFails
  /\ UNCHANGED <<tick, parts, stored, overflow, behind, heartbeat>>

\* list_feedback_tenants; dry runs skip the pass.
ListTenants(ok) ==
  /\ cycle.pc = "list"
  /\ IF ok THEN /\ cycle' = [cycle EXCEPT !.pc = "tenants", !.todo = behind]
                /\ UNCHANGED <<daemon, lastOk>>
           ELSE CycleFails
  /\ UNCHANGED <<tick, parts, stored, overflow, behind, heartbeat>>

\* _run_flywheel_passes, one tenant: what process_feedback raises is noted and
\* the next tenant is run; a store that cannot be opened ends the cycle.
FeedbackPass(t, opened, ok) ==
  /\ cycle.pc = "tenants" /\ t \in cycle.todo
  /\ IF opened THEN /\ behind' = IF ok THEN behind \ {t} ELSE behind
                    /\ cycle' = [cycle EXCEPT !.todo = @ \ {t}]
                    /\ UNCHANGED <<daemon, lastOk>>
               ELSE CycleFails /\ UNCHANGED behind
  /\ UNCHANGED <<tick, parts, stored, overflow, heartbeat>>

TenantsDone ==
  /\ cycle.pc = "tenants" /\ cycle.todo = {}
  /\ cycle' = [cycle EXCEPT !.pc = "cross"]
  /\ UNCHANGED <<tick, parts, stored, overflow, behind, daemon, lastOk, heartbeat>>

\* Only the month at the end of the window.
ToCreateLast == {Month + MonthsAhead} \ parts

\* pre_create_partitions: the months of the window that have no partition.
ToCreate == (Month .. Month + MonthsAhead) \ parts

\* drop_old_partitions: their whole range is before the cutoff.
ToDrop == {m \in parts : m + 1 <= Month - Retention}

\* CREATE TABLE ... PARTITION OF fails while the default partition holds a row
\* of the new range.
CreateRefused == ToCreate \cap overflow # {}

\* record_heartbeat: the row says whether the cycle ran dry.
Heartbeat == [at |-> tick, dry |-> daemon.dry]

\* _run_cross_tenant_passes, one transaction: a dry run only writes the
\* heartbeat, a failure takes everything back.
CrossTenantPasses(ok) ==
  /\ cycle.pc = "cross"
  /\ \/ /\ ok /\ (daemon.dry \/ ~CreateRefused)
        /\ parts' = IF daemon.dry THEN parts ELSE (parts \cup ToCreate) \ ToDrop
        /\ stored' = IF daemon.dry THEN stored ELSE stored \ ToDrop
        /\ heartbeat' = Heartbeat
        /\ lastOk' = TRUE
        /\ cycle' = Asleep
        /\ daemon' = [daemon EXCEPT !.due = FALSE]
     \/ /\ ~ok \/ (~daemon.dry /\ CreateRefused)
        /\ CycleFails
        /\ UNCHANGED <<parts, stored, heartbeat>>
  /\ UNCHANGED <<tick, overflow, behind>>

-----------------------------------------------------------------------------
(* Everybody else *)

\* An interval passes. The loop is not late: a due cycle is run first.
PassTime ==
  /\ tick < MaxTick
  /\ daemon.alive => ~daemon.due /\ cycle = Asleep
  /\ tick' = tick + 1
  /\ daemon' = [daemon EXCEPT !.due = TRUE]
  /\ UNCHANGED <<parts, stored, overflow, behind, cycle, lastOk, heartbeat>>

\* An experience event is inserted with event_time = now().
RecordEvent ==
  /\ IF Month \in parts
       THEN stored' = stored \cup {Month} /\ UNCHANGED overflow
       ELSE overflow' = overflow \cup {Month} /\ UNCHANGED stored
  /\ UNCHANGED <<tick, parts, behind, daemon, cycle, lastOk, heartbeat>>

\* Feedback of t arrives; a cycle that has listed the tenants may miss it.
RecordFeedback(t) ==
  /\ behind' = behind \cup {t}
  /\ UNCHANGED <<tick, parts, stored, overflow, daemon, cycle, lastOk, heartbeat>>

\* The container stops (a cycle under way is lost) and is started again,
\* perhaps with TAPPS_BRAIN_MAINTENANCE_DRY_RUN changed.
StopDaemon ==
  /\ daemon.alive
  /\ daemon' = [daemon EXCEPT !.alive = FALSE]
  /\ cycle' = Asleep
  /\ UNCHANGED <<tick, parts, stored, overflow, behind, lastOk, heartbeat>>

StartDaemon(dry) ==
  /\ ~daemon.alive
  /\ daemon' = [alive |-> TRUE, due |-> TRUE, dry |-> dry]
  /\ UNCHANGED <<tick, parts, stored, overflow, behind, cycle, lastOk, heartbeat>>

-----------------------------------------------------------------------------
MtInit ==
  /\ tick = 0 /\ parts = 0 .. Window /\ stored = {} /\ overflow = {}
  /\ behind = {} /\ cycle = Asleep /\ lastOk = FALSE
  /\ daemon = [alive |-> FALSE, due |-> FALSE, dry |-> FALSE]
  /\ heartbeat = [at |-> -1, dry |-> TRUE]

CycleStep ==
  \/ DaemonWakes \/ TenantsDone
  \/ \E ok \in BOOLEAN : \/ SingleTenantPasses(ok) \/ ListTenants(ok) \/ CrossTenantPasses(ok)
                         \/ \E t \in Tenants, opened \in BOOLEAN : FeedbackPass(t, opened, ok)

MtNext ==
  \/ CycleStep \/ PassTime \/ RecordEvent \/ StopDaemon
  \/ \E t \in Tenants : RecordFeedback(t)
  \/ \E dry \in BOOLEAN : StartDaemon(dry)

\* The loop's thread runs.
MtSpec == MtInit /\ [][MtNext]_mtVars /\ WF_mtVars(CycleStep)

-----------------------------------------------------------------------------
(* The probes *)

\* check_partition_horizon: the upper bound of the newest partition only.
HorizonOk == \E m \in parts : m + 1 >= Month + MonthsAhead

-----------------------------------------------------------------------------
(* Properties *)

\* The cheap check is enough: when the newest partition is far enough out,
\* every month from this one to the end of the promised horizon has its own
\* partition, whatever cycles failed, were missed or ran dry before.
HorizonHonest == HorizonOk => (Month .. Month + MonthsAhead - 1) \subseteq parts
=============================================================================

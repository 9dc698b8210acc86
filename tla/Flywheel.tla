------------------------------ MODULE Flywheel ------------------------------
(***************************************************************************)
(* The feedback flywheel: agents record feedback events, and               *)
(* process_feedback applies their deltas, which are not idempotent, to the *)
(* entries, remembering how far it got in a cursor. A run reads the cursor *)
(* and the events after it once, applies them one by one and saves the     *)
(* cursor every FlushEvery events and at its end. Runs of the daemon, the  *)
(* CLI and the MCP tool are not excluded from each other; a run may fail   *)
(* or die anywhere. Some events are mirrored to the Hive, where            *)
(* process_hive_feedback lowers an entry that enough projects rated badly. *)
(***************************************************************************)
EXTENDS Integers, FiniteSets

CONSTANTS Processors,      \* processes that may run process_feedback
          Daemon,       \* the one of them that runs it every interval, with no since
          LastEvent,    \* events are 1 .. LastEvent, in (timestamp, id) order
          Project,      \* event -> the project it comes from
          FlushEvery,   \* _CURSOR_FLUSH_INTERVAL
          Threshold,    \* hive_negative_project_threshold
          MaxStops,     \* bound on failed, killed and overlapping runs
          MaxConf       \* confidence of the Hive entry at the start

ASSUME FlywheelAssumption == FlushEvery \in Nat \ {0} /\ LastEvent \in Nat

VARIABLES visible,    \* committed rows of feedback_events
          cursor,     \* flywheel_meta["feedback_cursor"], 0 when there is none
          applied,    \* event -> how often its deltas were applied
          run,        \* Runners -> the run in progress
          stops,      \* runs that stopped early
          overlaps,   \* runs that began while another was under way
          late,       \* events committed after a run had read past them
          deferred,   \* events passed over because of since
          mirrored,   \* events mirrored to the Hive
          hiveConf    \* confidence of the Hive entry the mirrored events rate

fwVars == <<visible, cursor, applied, run, stops, overlaps, late, deferred, mirrored,
            hiveConf>>

FbEvents == 1 .. LastEvent

\* Two events to a timestamp: the id breaks the tie.
Timestamp(e) == (e + 1) \div 2

\* todo: the events read and not yet handled, which go in order.
NoRun == [pc |-> "idle", todo |-> {}, done |-> 0, last |-> 0, since |-> 0]

\* What the cursor, an earlier run or a run under way stands for having read.
BeenRead == {cursor} \cup {e \in FbEvents : applied[e] > 0}
                     \cup UNION {run[r].todo \cup {run[r].last} : r \in Processors}

-----------------------------------------------------------------------------
(* Recording *)

\* _propagate_feedback_to_hive: best effort, and only with a Hive and an entry
\* this session recalled from it.
Mirror(e, mirror) == IF mirror THEN mirrored \cup {e} ELSE mirrored

\* rate_recall, report_gap, report_issue, record_feedback: the timestamp is
\* taken when the event is made, the row is committed at any later time.
Record(e, mirror) ==
  /\ e \notin visible
  /\ visible' = visible \cup {e}
  /\ late' = IF \E x \in BeenRead : e < x THEN late \cup {e} ELSE late
  /\ mirrored' = Mirror(e, mirror)
  /\ UNCHANGED <<cursor, applied, run, stops, overlaps, deferred, hiveConf>>

-----------------------------------------------------------------------------
(* process_feedback *)

\* _event_after_cursor
AfterCursor(e, c) ==
  \/ c = 0
  \/ Timestamp(e) > Timestamp(c)
  \/ Timestamp(e) = Timestamp(c) /\ e > c

\* query_feedback(since = the cursor's timestamp), both ends included.
Fetched(c) == {e \in visible : c = 0 \/ Timestamp(e) >= Timestamp(c)}

\* Reads the cursor and the events, once for the whole run.
BeginRun(r, since) ==
  /\ run[r] = NoRun
  /\ LET todo == {e \in Fetched(cursor) : AfterCursor(e, cursor)}
         busy == \E q \in Processors : run[q] # NoRun
     IN /\ todo # {}
        /\ busy => overlaps + stops < MaxStops
        /\ overlaps' = overlaps + (IF busy THEN 1 ELSE 0)
        /\ run' = [run EXCEPT ![r] = [pc |-> "apply", todo |-> todo, done |-> 0,
                                      last |-> 0, since |-> since]]
  /\ UNCHANGED <<visible, cursor, applied, stops, late, deferred, mirrored, hiveConf>>

\* One event: its deltas (none for a "partial" rating or an entry that is gone)
\* are written with update_fields, unless it is older than since.
ApplyEvent(r) ==
  LET q == run[r] IN
  /\ q.pc = "apply"
  /\ \E e \in q.todo :
       LET skip == Timestamp(e) < q.since IN
       /\ \A x \in q.todo : e <= x
       /\ applied' = [applied EXCEPT ![e] = IF skip THEN @ ELSE @ + 1]
       /\ deferred' = IF skip THEN deferred \cup {e} ELSE deferred
       /\ run' = [run EXCEPT ![r] =
            [pc |-> IF ~skip /\ q.done % FlushEvery = FlushEvery - 1 THEN "flush" ELSE "apply",
             todo |-> q.todo \ {e}, done |-> q.done + 1, last |-> IF skip THEN q.last ELSE e,
             since |-> q.since]]
  /\ UNCHANGED <<visible, cursor, stops, overlaps, late, mirrored, hiveConf>>

\* Saves where the run is, without a look at what was applied.
FlushAhead(r) ==
  /\ run[r].pc = "flush"
  /\ cursor' \in {run[r].last} \cup run[r].todo
  /\ \A x \in {run[r].last} \cup run[r].todo : x <= cursor'
  /\ run' = [run EXCEPT ![r].pc = "apply"]
  /\ UNCHANGED <<visible, applied, stops, overlaps, late, deferred, mirrored, hiveConf>>

\* _persist_cursor, every FlushEvery events.
Flush(r) ==
  /\ run[r].pc = "flush"
  /\ cursor' = run[r].last
  /\ run' = [run EXCEPT ![r].pc = "apply"]
  /\ UNCHANGED <<visible, applied, stops, overlaps, late, deferred, mirrored, hiveConf>>

\* The last flush, if anything was applied.
EndRun(r) ==
  /\ run[r].pc = "apply" /\ run[r].todo = {}
  /\ cursor' = IF run[r].last = 0 THEN cursor ELSE run[r].last
  /\ run' = [run EXCEPT ![r] = NoRun]
  /\ UNCHANGED <<visible, applied, stops, overlaps, late, deferred, mirrored, hiveConf>>

\* update_fields, the audit row or the cursor write raises, or the process
\* dies: what was applied since the last flush stays applied.
Stop(r) ==
  /\ run[r] # NoRun
  /\ stops + overlaps < MaxStops
  /\ stops' = stops + 1
  /\ run' = [run EXCEPT ![r] = NoRun]
  /\ UNCHANGED <<visible, cursor, applied, overlaps, late, deferred, mirrored, hiveConf>>

-----------------------------------------------------------------------------
(* The Hive *)

\* aggregate_hive_feedback: distinct projects with a negative rating.
NegativeProjects == Cardinality({Project[e] : e \in mirrored})

\* process_hive_feedback: no cursor, so every run lowers the entry again.
Penalize ==
  /\ NegativeProjects >= Threshold
  /\ hiveConf > 0
  /\ hiveConf' = hiveConf - 1
  /\ UNCHANGED <<visible, cursor, applied, run, stops, overlaps, late, deferred, mirrored>>

-----------------------------------------------------------------------------
FwInit ==
  /\ visible = {} /\ cursor = 0 /\ stops = 0 /\ overlaps = 0
  /\ late = {} /\ deferred = {} /\ mirrored = {}
  /\ applied = [e \in FbEvents |-> 0]
  /\ run = [r \in Processors |-> NoRun]
  /\ hiveConf = MaxConf

RunStep(r) == ApplyEvent(r) \/ Flush(r) \/ EndRun(r)

FwNext ==
  \/ \E e \in FbEvents, mirror \in BOOLEAN : Record(e, mirror)
  \/ \E r \in Processors :
       \/ \E since \in (IF r = Daemon THEN {0} ELSE {0, 2}) : BeginRun(r, since)
       \/ RunStep(r) \/ Stop(r)
  \/ Penalize

\* The daemon starts a run every interval, and a run that does not fail goes on.
FwFairness == WF_fwVars(BeginRun(Daemon, 0)) /\ \A r \in Processors : WF_fwVars(RunStep(r))

FwSpec == FwInit /\ [][FwNext]_fwVars /\ FwFairness

-----------------------------------------------------------------------------
(* Properties *)

\* No feedback is lost by accident: an event the cursor has passed without
\* applying it was committed after a run had read beyond its timestamp, or a
\* run was told with since to leave it.
NothingSkipped ==
  \A e \in visible : (applied[e] = 0 /\ e <= cursor) => e \in late \cup deferred
=============================================================================

----------------------------- MODULE Lifecycle -----------------------------
(***************************************************************************)
(* The life of a memory row: validity, status, promotion, garbage          *)
(* collection and consolidation (store.py, _save_conflict.py, gc.py,       *)
(* decay.py, promotion.py, auto_consolidation.py, consolidation.py).       *)
(*                                                                         *)
(* `rows` is what one MemoryStore serves; that its cache agrees with       *)
(* Postgres is the subject of StoreCache, so here a write and its persist  *)
(* are one step, and a persist that fails leaves the row as it was.        *)
(* Everything the code does between two locked sections is a step of its   *)
(* own: the threads interleave between a scan and the writes it decides,   *)
(* between a check and the write it guards, between archive and delete.    *)
(*                                                                         *)
(* updated_at is `ver`, drawn from a clock; a caller that passes an old    *)
(* updated_at writes an old `ver` back.  Whether a row has decayed (to its *)
(* floor, below a threshold, unvalidated too long) depends on the clock    *)
(* and on floating-point curves: the scans choose freely among the rows    *)
(* the other conditions admit.                                             *)
(***************************************************************************)
EXTENDS Integers, FiniteSets

CONSTANTS
    Sources,    \* keys of ordinary memories
    Threads,
    None, Conflict,  \* no key, and the reason text of a save-time conflict
    LOps,       \* the workload
    MaxOps,     \* bound: operations begun
    MaxFail     \* bound: backend failures in a behaviour

\* A merged row's key is a hash of its sorted source keys and a successor's key
\* is derived from the key it replaces: both are named by the set of keys they
\* come from.
LKeys == Sources \cup ((SUBSET Sources) \ {{}})
Successor(k) == {k}
MergedKey(g) == g
AllLOps == {"save", "undoConflict", "promote", "demote", "supersede",
            "gc", "refresh", "decay", "merge", "scan", "undoMerge", "forget"}

ASSUME LifecycleAssumption ==
    /\ IsFiniteSet(Sources) /\ LOps \subseteq AllLOps
    /\ \A k \in Sources, g \in SUBSET Sources : k # g     \* a key names one thing
    /\ \A k \in LKeys : k # None
    /\ MaxOps \in Nat /\ MaxFail \in Nat

VARIABLES
    rows,       \* _entries
    clock,      \* the source of updated_at
    loc,        \* what each thread is doing
    merging,    \* _consolidation_in_progress
    merges,     \* last consolidation_merge audit row per key: its source keys
    archive,    \* gc_archive: payloads <<key, ver>>
    removed,    \* keys a caller or a sweep removed on purpose
    warned,     \* keys whose clean-up failed and was logged
    overlap,    \* merged keys that two merges, or a merge and an undo, worked on at once
    budget      \* operations and failures left

lvars == <<rows, clock, loc, merging, merges, archive, removed, warned, overlap, budget>>

Row(v, n) == [val |-> v, ver |-> n, status |-> "active", inv |-> FALSE,
              by |-> None, contra |-> FALSE, why |-> None, promo |-> "candidate"]
Gone == [Row(0, 0) EXCEPT !.status = "gone"]
Live(k) == rows[k] # Gone
MergedVal == 9
Idle == [op |-> "idle", pc |-> "idle", k |-> None, v |-> 0,
         snap |-> [k \in LKeys |-> Gone], todo |-> {}, done |-> {}, cl |-> {},
         nk |-> None, at |-> FALSE]

LifecycleInit ==
    /\ rows = [k \in LKeys |-> IF k \in Sources THEN Row(1, 1) ELSE Gone]
    /\ clock = 1
    /\ loc = [t \in Threads |-> Idle]
    /\ merging = FALSE
    /\ merges = [k \in LKeys |-> {}]
    /\ archive = {}
    /\ removed = {}
    /\ warned = {}
    /\ overlap = {}
    /\ budget = [ops |-> MaxOps, fails |-> MaxFail]

-----------------------------------------------------------------------------
(* One thread's control, and the store's write primitives *)

At(t, o, p) == loc[t].op = o /\ loc[t].pc = p
Go(t, p) == loc' = [loc EXCEPT ![t].pc = p]
Done(t) == loc' = [loc EXCEPT ![t] = Idle]
Fails == budget.fails > 0 /\ budget' = [budget EXCEPT !.fails = @ - 1]
Holds == UNCHANGED budget

\* A write of row r under k, stamped with a new updated_at.
Put(k, r) ==
    /\ clock' = clock + 1
    /\ rows' = [rows EXCEPT ![k] = [r EXCEPT !.ver = clock + 1]]
\* A write that passes the updated_at it read earlier.
PutAt(k, r, n) ==
    /\ rows' = [rows EXCEPT ![k] = [r EXCEPT !.ver = n]]
    /\ UNCHANGED clock
NoWrite == UNCHANGED <<rows, clock>>
Drop(k) == rows' = [rows EXCEPT ![k] = Gone] /\ UNCHANGED clock

\* _CLOSE_VALIDITY_STATUS.
StatusOf(reason) ==
    CASE reason \in {"contradiction", "consolidation"} -> "contradicted"
      [] reason = "supersession" -> "superseded"
      [] reason = "age" -> "stale"

\* _close_validity_updates applied to r.
Closed(r, reason, succ, detail) ==
    [r EXCEPT !.inv = TRUE,
              !.status = StatusOf(reason),
              !.by = IF succ = None THEN @ ELSE succ,
              !.contra = IF StatusOf(reason) = "contradicted" THEN TRUE ELSE @,
              !.why = IF StatusOf(reason) = "contradicted" THEN detail ELSE @]

\* Mutant: the status write of the closer is not undone.
ReopenedButStatus(r) ==
    [r EXCEPT !.inv = FALSE, !.by = None, !.contra = FALSE, !.why = None]

\* What undo and the merge roll-back write back.
Reopened(r) ==
    [r EXCEPT !.inv = FALSE, !.status = "active", !.by = None,
              !.contra = FALSE, !.why = None]

\* _construct_memory_entry over the existing row e: validity, status and
\* contradiction are carried over, unless a new opening bound revives the row;
\* new content resets the promotion (_resolve_promotion_fields).
Construct(e, v, revive) ==
    LET base == IF revive /\ e.inv THEN Reopened(e) ELSE e IN
    IF e = Gone THEN Row(v, 0)
    ELSE [base EXCEPT !.val = v, !.promo = IF v = e.val THEN @ ELSE "candidate"]

Begin(t, o, k, v, p) ==
    /\ loc[t] = Idle
    /\ o \in LOps
    /\ budget.ops > 0
    /\ budget' = [budget EXCEPT !.ops = @ - 1]
    /\ loc' = [loc EXCEPT ![t] = [Idle EXCEPT !.op = o, !.k = k, !.v = v, !.pc = p]]
    /\ NoWrite
    /\ UNCHANGED <<merging, merges, archive, removed, warned, overlap>>

\* A step of t that only reads, or only moves on.
Skip == NoWrite /\ Holds
Logs == UNCHANGED <<merges, archive, removed, warned, overlap>>
Quiet == Logs /\ UNCHANGED merging

-----------------------------------------------------------------------------
(* save: same-key dedup, save-time conflicts, the write *)

SaveBegin(t) == \E k \in Sources, v \in {1, 2} : Begin(t, "save", k, v, "dedup")

\* _handle_dedup: the same value under the same key only reinforces the row.
SaveDedup(t) ==
    LET k == loc[t].k IN
    /\ At(t, "save", "dedup")
    /\ IF Live(k) /\ rows[k].val = loc[t].v
       THEN Put(k, rows[k]) /\ Done(t)
       ELSE NoWrite /\ Go(t, "plan")
    /\ Holds /\ Quiet

\* detect_save_conflicts: other rows that are similar, differ, and are open.
ConflictHits(k) == SUBSET {j \in Sources \ {k} : Live(j) /\ ~rows[j].inv}

\* plan_conflicts over a snapshot.
SavePlan(t) ==
    /\ At(t, "save", "plan")
    /\ \E hits \in ConflictHits(loc[t].k) :
        loc' = [loc EXCEPT ![t].todo = hits, ![t].at = hits # {}, ![t].pc = "conflicts"]
    /\ Skip /\ Quiet

\* One conflicting row, re-read under the lock.  A persist that fails abandons
\* the plan: the rows already closed stay closed, and none is reported.
SaveConflict(t) ==
    /\ At(t, "save", "conflicts")
    /\ \E j \in loc[t].todo :
        \/ /\ IF Live(j) /\ ~rows[j].inv
              THEN /\ Put(j, Closed(rows[j], "contradiction", None, Conflict))
                   /\ loc' = [loc EXCEPT ![t].todo = @ \ {j}, ![t].done = @ \cup {j}]
              ELSE NoWrite /\ loc' = [loc EXCEPT ![t].todo = @ \ {j}]
           /\ Holds
        \/ /\ Live(j) /\ ~rows[j].inv /\ Fails
           /\ loc' = [loc EXCEPT ![t].todo = {}, ![t].done = {}, ![t].at = FALSE]
           /\ NoWrite
    /\ Quiet

\* The write.  With consolidation enabled the thread goes on to
\* _maybe_consolidate with the entry it wrote.
SaveWrite(t) ==
    LET k == loc[t].k
        r == Construct(rows[k], loc[t].v, loc[t].at)
    IN
    /\ At(t, "save", "conflicts") /\ loc[t].todo = {}
    /\ \/ /\ Put(k, r) /\ Holds
          /\ removed' = removed \ {k}
          /\ IF "merge" \in LOps
             THEN loc' = [loc EXCEPT ![t] =
                    [Idle EXCEPT !.op = "merge", !.pc = "enter", !.k = k,
                                 !.snap = [Idle.snap EXCEPT ![k] = r]]]
             ELSE Done(t)
       \/ Fails /\ NoWrite /\ Done(t) /\ UNCHANGED removed
    /\ UNCHANGED <<merging, merges, archive, warned, overlap>>

-----------------------------------------------------------------------------
(* Single-row operations: a read that decides, then a write *)

ReadBegin(t) ==
    \E o \in {"undoConflict", "promote", "demote", "forget", "supersede"}, k \in LKeys :
        /\ Live(k) /\ (o = "supersede" => k \in Sources)
        /\ Begin(t, o, k, 2, "read")

\* What the read must find for the operation to go on.
ReadAdmits(o, r) ==
    CASE o = "undoConflict" -> r.contra /\ r.why = Conflict
      [] o = "promote"      -> r.promo # "approved"
      [] OTHER              -> TRUE

Read(t) ==
    LET k == loc[t].k IN
    /\ loc[t].pc = "read"
    /\ IF Live(k) /\ ReadAdmits(loc[t].op, rows[k])
       THEN loc' = [loc EXCEPT ![t].snap[k] = rows[k], ![t].pc = "write"]
       ELSE Done(t)
    /\ Skip /\ Quiet

\* update_fields with the updated_at of the row read: a write in between keeps
\* its content and loses its stamp.
FieldUpdate(t, r) ==
    LET k == loc[t].k IN
    /\ \/ Live(k) /\ PutAt(k, r, loc[t].snap[k].ver) /\ Holds
       \/ ~Live(k) /\ Skip
       \/ Live(k) /\ Fails /\ NoWrite
    /\ Done(t) /\ Quiet

\* The closing bound stays: only the contradiction is withdrawn.
UndoSaveConflict(t) ==
    /\ At(t, "undoConflict", "write")
    /\ FieldUpdate(t, [rows[loc[t].k] EXCEPT !.contra = FALSE, !.why = None,
                                             !.status = "active"])
PromoteLearning(t) ==
    /\ At(t, "promote", "write")
    /\ FieldUpdate(t, [rows[loc[t].k] EXCEPT !.promo = "approved"])
DemoteLearning(t) ==
    /\ At(t, "demote", "write")
    /\ FieldUpdate(t, [rows[loc[t].k] EXCEPT !.promo = "demoted"])

\* brain_forget: archive what was read (best effort), then delete the key.
ForgetArchive(t) ==
    LET k == loc[t].k IN
    /\ At(t, "forget", "write")
    /\ \/ archive' = archive \cup {<<k, loc[t].snap[k].ver>>} /\ Holds
       \/ UNCHANGED archive /\ Fails
    /\ Go(t, "delete") /\ NoWrite /\ UNCHANGED <<merging, merges, removed, warned, overlap>>
ForgetDelete(t) ==
    /\ At(t, "forget", "delete")
    /\ Drop(loc[t].k) /\ removed' = removed \cup {loc[t].k}
    /\ Done(t) /\ Holds /\ UNCHANGED <<merging, merges, archive, warned, overlap>>

-----------------------------------------------------------------------------
(* supersede *)

\* Under the lock: refused when already closed, else closed in favour of a
\* successor that does not exist yet.
SupersedeClose(t) ==
    LET k == loc[t].k IN
    /\ At(t, "supersede", "write")
    /\ LET e == IF Live(k) THEN rows[k] ELSE loc[t].snap[k] IN
        \/ e.inv /\ Skip /\ Done(t)
        \/ /\ ~e.inv /\ Holds
           /\ IF Live(k) THEN Put(k, Closed(e, "supersession", Successor(k), None)) ELSE NoWrite
           /\ loc' = [loc EXCEPT ![t].snap[k] = e, ![t].pc = "create"]
        \/ ~e.inv /\ Fails /\ NoWrite /\ Done(t)
    /\ Quiet

\* save(new_key); a rejected, redirected or failed save takes the old row back.
SupersedeCreate(t) ==
    LET n == Successor(loc[t].k)
        r == Construct(rows[n], loc[t].v, FALSE)
    IN
    /\ At(t, "supersede", "create")
    /\ \/ /\ Put(n, r) /\ Holds
          /\ removed' = removed \ {n}
          /\ loc' = [loc EXCEPT ![t].snap[n] = [r EXCEPT !.ver = clock + 1], ![t].pc = "stamp"]
       \/ Fails /\ NoWrite /\ Go(t, "restore") /\ UNCHANGED removed
    /\ UNCHANGED <<merging, merges, archive, warned, overlap>>

\* Mutant: the failed successor is reported and the old row stays closed.
SupersedeNoRestore(t) ==
    At(t, "supersede", "restore") /\ Skip /\ Done(t) /\ Quiet

\* The pre-image goes back whatever happened to the row meanwhile.
SupersedeRestore(t) ==
    LET k == loc[t].k IN
    /\ At(t, "supersede", "restore")
    /\ PutAt(k, loc[t].snap[k], loc[t].snap[k].ver)
    /\ Done(t) /\ Holds /\ Quiet

\* valid_at goes on the successor, written over the entry save() returned.
SupersedeStamp(t) ==
    LET n == Successor(loc[t].k) IN
    /\ At(t, "supersede", "stamp")
    /\ \/ Live(n) /\ PutAt(n, loc[t].snap[n], loc[t].snap[n].ver) /\ Holds
       \/ ~Live(n) /\ Skip
       \/ Live(n) /\ Fails /\ NoWrite
    /\ Done(t) /\ Quiet

-----------------------------------------------------------------------------
(* gc and refresh_decay: scan, archive one by one, then delete *)

\* _archive_reasons: rows under review or in a supersession chain are exempt.
Archivable(r) == r # Gone /\ r.status \notin {"stale", "superseded"} /\ r.by = None

SweepBegin(t) == \E o \in {"gc", "refresh", "decay"} : Begin(t, o, None, 0, "scan")

GcScan(t) ==
    /\ At(t, "gc", "scan")
    /\ \E c \in SUBSET {k \in LKeys : Archivable(rows[k])} :
        loc' = [loc EXCEPT ![t].todo = c, ![t].snap = rows, ![t].pc = "archive"]
    /\ Skip /\ Quiet

\* One candidate: skipped when it is gone or changed since the scan; demoted a
\* tier instead when the profile says so (_gc_demote_entry); else archived, and
\* kept for deletion only when the archive confirms it.
GcArchive(t) ==
    /\ At(t, "gc", "archive")
    /\ \E k \in loc[t].todo :
        LET same == Live(k) /\ rows[k].ver = loc[t].snap[k].ver IN
        \/ ~same /\ Skip /\ loc' = [loc EXCEPT ![t].todo = @ \ {k}] /\ UNCHANGED archive
        \/ /\ same /\ Put(k, rows[k]) /\ Holds
           /\ loc' = [loc EXCEPT ![t].todo = @ \ {k}] /\ UNCHANGED archive
        \/ /\ same /\ Skip
           /\ archive' = archive \cup {<<k, rows[k].ver>>}
           /\ loc' = [loc EXCEPT ![t].todo = @ \ {k}, ![t].done = @ \cup {k}]
        \/ /\ same /\ Fails /\ NoWrite
           /\ loc' = [loc EXCEPT ![t].todo = @ \ {k}] /\ UNCHANGED archive
    /\ UNCHANGED <<merging, merges, removed, warned, overlap>>

\* The archived keys are deleted after the loop, without another look.
SweepDelete(t) ==
    /\ loc[t].op \in {"gc", "refresh"} /\ loc[t].pc = "archive" /\ loc[t].todo = {}
    /\ \E k \in loc[t].done :
        /\ Drop(k)
        /\ removed' = removed \cup {k}
        /\ loc' = [loc EXCEPT ![t].done = @ \ {k}]
    /\ Holds /\ UNCHANGED <<merging, merges, archive, warned, overlap>>

SweepEnd(t) ==
    /\ loc[t].op \in {"gc", "refresh", "decay"} /\ loc[t].pc \in {"archive", "demote"}
    /\ loc[t].todo = {} /\ loc[t].done = {} /\ loc[t].cl = {}
    /\ Done(t) /\ Skip /\ Quiet

\* identify_decay_refresh: open, active rows outside a supersession chain.
RefreshScan(t) ==
    LET open == {k \in LKeys : Live(k) /\ rows[k].status = "active"
                                /\ ~rows[k].inv /\ rows[k].by = None} IN
    /\ At(t, "refresh", "scan")
    /\ \E a \in SUBSET open : \E c \in SUBSET (open \ a) :
        loc' = [loc EXCEPT ![t].todo = a, ![t].cl = c, ![t].pc = "archive"]
    /\ Skip /\ Quiet

\* _archive_and_delete: whatever the row is now.
RefreshArchive(t) ==
    /\ At(t, "refresh", "archive")
    /\ \E k \in loc[t].todo :
        /\ \/ ~Live(k) /\ Holds /\ UNCHANGED archive
              /\ loc' = [loc EXCEPT ![t].todo = @ \ {k}]
           \/ /\ Live(k) /\ Holds
              /\ archive' = archive \cup {<<k, rows[k].ver>>}
              /\ loc' = [loc EXCEPT ![t].todo = @ \ {k}, ![t].done = @ \cup {k}]
           \/ /\ Live(k) /\ Fails /\ UNCHANGED archive
              /\ loc' = [loc EXCEPT ![t].todo = @ \ {k}]
        /\ NoWrite
    /\ UNCHANGED <<merging, merges, removed, warned, overlap>>

\* close_validity(age) for the rows that are only stale; a failure ends the pass.
RefreshClose(t) ==
    /\ At(t, "refresh", "archive") /\ loc[t].todo = {} /\ loc[t].done = {}
    /\ \E k \in loc[t].cl :
        \/ /\ IF Live(k) THEN Put(k, Closed(rows[k], "age", None, None)) ELSE NoWrite
           /\ loc' = [loc EXCEPT ![t].cl = @ \ {k}] /\ Holds
        \/ Live(k) /\ Fails /\ NoWrite /\ Done(t)
    /\ Quiet

\* identify_learning_demotions: every contradicted learning, and candidates that
\* decayed or went unvalidated.
DecayScan(t) ==
    LET learning == {k \in LKeys : Live(k) /\ rows[k].promo # "demoted"} IN
    /\ At(t, "decay", "scan")
    /\ \E s \in SUBSET {k \in learning : rows[k].promo = "candidate" /\ ~rows[k].contra} :
        loc' = [loc EXCEPT ![t].todo = s \cup {k \in learning : rows[k].contra},
                           ![t].snap = rows, ![t].pc = "demote"]
    /\ Skip /\ Quiet

\* demote_learning of each; a key that vanished is skipped.
DecayDemote(t) ==
    /\ At(t, "decay", "demote")
    /\ \E k \in loc[t].todo :
        \/ /\ IF Live(k) THEN PutAt(k, [rows[k] EXCEPT !.promo = "demoted"], rows[k].ver)
              ELSE NoWrite
           /\ loc' = [loc EXCEPT ![t].todo = @ \ {k}] /\ Holds
        \/ Live(k) /\ Fails /\ NoWrite /\ Done(t)
    /\ Quiet

-----------------------------------------------------------------------------
(* Consolidation *)

ScanBegin(t) == Begin(t, "scan", None, 0, "pick")
UndoBegin(t) == \E g \in {g \in LKeys \ Sources : merges[g] # {}} :
                    Begin(t, "undoMerge", g, 0, "undo")

\* The on-save path runs one merge at a time; the periodic scan does not ask.
MergeEnter(t) ==
    /\ At(t, "merge", "enter")
    /\ IF merging THEN Done(t) /\ UNCHANGED merging
       ELSE merging' = TRUE /\ Go(t, "pick")
    /\ Skip /\ Logs

\* Whatever the outcome, the flag goes (finally).
MergeEnd(t) ==
    /\ Done(t)
    /\ merging' = (merging /\ loc[t].op # "merge")

\* should_consolidate, and the filter of the periodic scan.
Mergeable(r) ==
    r # Gone /\ ~r.contra /\ r.by = None /\ r.status \notin {"stale", "superseded"}

\* The rows of group g as they are now; the entry just saved as it was written.
Snapshot(s, own, g) ==
    [j \in LKeys |-> IF j \in own THEN s[j] ELSE IF j \in g THEN rows[j] ELSE Gone]

\* The group, and the snapshots its merged value is computed from.  The entry
\* just saved is a member whatever its state.
PickGroup(t, own, g) ==
    /\ own \subseteq g /\ Cardinality(g) >= 2
    /\ \A j \in g \ own : Mergeable(rows[j])
    /\ loc' = [loc EXCEPT ![t].nk = MergedKey(g), ![t].todo = g, ![t].pc = "save",
                          ![t].snap = Snapshot(loc[t].snap, own, g)]
    /\ UNCHANGED merging

\* No group, or a merged value that would keep too little of its sources, ends
\* the merge before any write.
MergePick(t) ==
    /\ loc[t].op \in {"merge", "scan"} /\ loc[t].pc = "pick"
    /\ \/ \E g \in SUBSET Sources :
            PickGroup(t, IF loc[t].op = "merge" THEN {loc[t].k} ELSE {}, g)
       \/ MergeEnd(t)
    /\ Skip /\ Logs

MergeSave(t) ==
    LET n == loc[t].nk IN
    /\ loc[t].pc = "save"
    /\ \/ /\ Put(n, Construct(rows[n], MergedVal, FALSE)) /\ Holds
          /\ Go(t, "carry") /\ removed' = removed \ {n} /\ UNCHANGED merging
          /\ overlap' = overlap \cup {loc[u].nk : u \in {u \in Threads \ {t} :
                                loc[u].nk = n /\ loc[u].pc # "save"}}
       \/ Fails /\ NoWrite /\ MergeEnd(t) /\ UNCHANGED <<removed, overlap>>
    /\ UNCHANGED <<merges, archive, warned>>

\* _resolve_consolidated_promotion_state: approved wins, then demoted.
Inherited(snaps) ==
    LET states == {r.promo : r \in snaps} IN
    CASE "approved" \in states -> "approved"
      [] "approved" \notin states /\ "demoted" \in states -> "demoted"
      [] OTHER -> "candidate"

\* The promotion the sources had is written on the merged row.
MergeCarry(t) ==
    LET n == loc[t].nk
        p == Inherited({loc[t].snap[j] : j \in n})
    IN
    /\ loc[t].pc = "carry"
    /\ \/ /\ IF p # "candidate" /\ Live(n) THEN Put(n, [rows[n] EXCEPT !.promo = p]) ELSE NoWrite
          /\ Holds /\ Go(t, "check")
       \/ p # "candidate" /\ Fails /\ NoWrite /\ Go(t, "rollback")
    /\ Quiet

\* The lost-update guard: a source that is gone or has new content aborts.
MergeCheck(t) ==
    /\ loc[t].pc = "check"
    /\ \E j \in loc[t].todo :
        IF Live(j) /\ rows[j].val = loc[t].snap[j].val
        THEN loc' = [loc EXCEPT ![t].k = j, ![t].pc = "close"]
        ELSE loc' = [loc EXCEPT ![t].todo = loc[t].nk, ![t].pc = "rollback"]
    /\ Skip /\ Quiet

MergeClose(t) ==
    LET j == loc[t].k
        n == loc[t].nk
        fail == loc' = [loc EXCEPT ![t].todo = n, ![t].pc = "rollback"]
    IN
    /\ loc[t].pc = "close"
    /\ \/ /\ Live(j) /\ Put(j, Closed(rows[j], "consolidation", n, n)) /\ Holds
          /\ loc' = [loc EXCEPT ![t].todo = @ \ {j},
                                ![t].pc = IF loc[t].todo = {j} THEN "audit" ELSE "check"]
       \/ ~Live(j) /\ Skip /\ fail
       \/ Live(j) /\ Fails /\ NoWrite /\ fail
    /\ Quiet

MergeAudit(t) ==
    /\ loc[t].pc = "audit"
    /\ merges' = [merges EXCEPT ![loc[t].nk] = loc[t].nk]
    /\ MergeEnd(t) /\ Skip /\ UNCHANGED <<archive, removed, warned, overlap>>

\* Roll-back: every source is reopened, marked by this merge or not; a source
\* that cannot be is logged and left.
MergeRollback(t) ==
    /\ loc[t].pc = "rollback"
    /\ \E j \in loc[t].todo :
        /\ loc' = [loc EXCEPT ![t].todo = @ \ {j}]
        /\ \/ Live(j) /\ Put(j, Reopened(rows[j])) /\ Holds /\ UNCHANGED warned
           \/ ~Live(j) /\ Skip /\ UNCHANGED warned
           \/ Live(j) /\ Fails /\ NoWrite /\ warned' = warned \cup {loc[t].nk}
    /\ UNCHANGED <<merging, merges, archive, removed, overlap>>

\* Then the merged row is detached from its relations and deleted.
MergeDrop(t) ==
    /\ loc[t].pc = "rollback" /\ loc[t].todo = {}
    /\ \/ Drop(loc[t].nk) /\ Holds /\ UNCHANGED warned
       \/ Fails /\ NoWrite /\ warned' = warned \cup {loc[t].nk}
    /\ MergeEnd(t) /\ UNCHANGED <<merges, archive, removed, overlap>>

\* undo_consolidation_merge, under the lock for its whole length.
UndoMerge(t) ==
    LET n == loc[t].k
        mine(j) == Live(j) /\ rows[j].contra /\ rows[j].by = n /\ rows[j].why = n
    IN
    /\ At(t, "undoMerge", "undo")
    /\ IF Live(n) /\ \A j \in merges[n] : mine(j)
       THEN \/ /\ clock' = clock + 1
               /\ rows' = [j \in LKeys |->
                    IF j = n THEN Gone
                    ELSE IF j \in merges[n] THEN [Reopened(rows[j]) EXCEPT !.ver = clock + 1]
                    ELSE rows[j]]
               /\ overlap' = overlap \cup {loc[u].nk : u \in {u \in Threads : loc[u].nk = n}}
               /\ Holds
            \/ Fails /\ NoWrite /\ UNCHANGED overlap
       ELSE Skip /\ UNCHANGED overlap
    /\ Done(t) /\ UNCHANGED <<merging, merges, archive, removed, warned>>

-----------------------------------------------------------------------------

SaveStep(t) == SaveBegin(t) \/ SaveDedup(t) \/ SavePlan(t) \/ SaveConflict(t) \/ SaveWrite(t)
RowStep(t) == \/ ReadBegin(t) \/ Read(t) \/ UndoSaveConflict(t) \/ PromoteLearning(t)
              \/ DemoteLearning(t) \/ ForgetArchive(t) \/ ForgetDelete(t)
SupersedeStep(t) == \/ SupersedeClose(t) \/ SupersedeCreate(t) \/ SupersedeRestore(t)
                    \/ SupersedeStamp(t)
SweepStep(t) == \/ SweepBegin(t) \/ GcScan(t) \/ GcArchive(t) \/ SweepDelete(t) \/ SweepEnd(t)
                \/ RefreshScan(t) \/ RefreshArchive(t) \/ RefreshClose(t)
                \/ DecayScan(t) \/ DecayDemote(t)
MergeStep(t) == \/ ScanBegin(t) \/ MergeEnter(t) \/ MergePick(t) \/ MergeSave(t)
                \/ MergeCarry(t) \/ MergeCheck(t) \/ MergeClose(t) \/ MergeAudit(t)
                \/ MergeRollback(t) \/ MergeDrop(t) \/ UndoBegin(t) \/ UndoMerge(t)

\* Nothing is left to do.
LifecycleEnd ==
    /\ \A t \in Threads : loc[t] = Idle
    /\ budget.ops = 0
    /\ UNCHANGED lvars

LifecycleNext ==
    \/ \E t \in Threads : SaveStep(t) \/ RowStep(t) \/ SupersedeStep(t)
                          \/ SweepStep(t) \/ MergeStep(t)
    \/ LifecycleEnd

LifecycleSpec == LifecycleInit /\ [][LifecycleNext]_lvars

-----------------------------------------------------------------------------
(* Properties *)

\* A row without a closing bound is open on every axis recall reads: active, not
\* contradicted, superseded by nothing.  Closing, reviving, undoing and rolling
\* back each touch several of these columns (TAP-5616, TAP-6697).
OpenMeansOpen ==
    \A k \in LKeys : Live(k) /\ ~rows[k].inv =>
        rows[k].status = "active" /\ ~rows[k].contra /\ rows[k].by = None

Quiescent == \A t \in Threads : loc[t] = Idle

\* The rows that point to a successor that is not there, and that nobody removed.
Dangling ==
    {k \in LKeys : /\ Live(k) /\ rows[k].by # None /\ ~Live(rows[k].by)
                   /\ rows[k].by \notin removed \cup warned}

\* When nothing is under way, a row that points to a successor points to a row
\* that exists, unless someone removed that row, a failed clean-up was logged, or
\* two merges of the same group (or a merge and
\* an undo) overlapped: a supersede or a merge that gives up
\* leaves no pointer to a row it never made.
SuccessorExists ==
    Quiescent => \A k \in Dangling : rows[k].by \in overlap
=============================================================================

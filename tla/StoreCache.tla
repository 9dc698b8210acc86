----------------------------- MODULE StoreCache -----------------------------
(***************************************************************************)
(* The write-through cache of MemoryStore (store.py, _store_query.py).     *)
(*                                                                         *)
(* A MemoryStore keeps a bounded dictionary `_entries` in front of the     *)
(* Postgres table private_memories.  A plain lock serialises the short     *)
(* sections that touch the dictionary; the Postgres round trips run        *)
(* outside the lock, so the operations of two threads interleave between   *)
(* them.  Every `with self._serialized()` block and every unlocked round   *)
(* trip is one action here; an operation is the sequence of actions its    *)
(* thread's `pc` walks through.                                            *)
(*                                                                         *)
(* An entry is a version number, unique per key: each model_copy in the    *)
(* code makes a new object, and `is` comparisons compare versions.  0      *)
(* (Absent) stands for "no entry".  The confidence of an entry decides     *)
(* only which key is evicted or trimmed, so any key may be the lowest.     *)
(***************************************************************************)
EXTENDS Integers, FiniteSets, FiniteSetsExt

CONSTANTS
    Keys,           \* memory keys
    Threads,        \* threads that share one MemoryStore
    Cap,            \* max_entries
    TombstoneLimit, \* 4096 in _note_removed_locked
    Ops,            \* the workload: which operations the threads call
    Embedding,      \* an embedding provider is configured
    MaxOps,         \* bound: operations begun in a behaviour
    MaxFail         \* bound: backend calls that fail within one operation

AllOps == {"save", "saveUnchecked", "get", "update", "reinforce", "delete",
           "list", "pass", "crash"}

ASSUME CapAssumption == Cap \in Nat \ {0}
ASSUME BoundsAssumption == MaxOps \in Nat /\ MaxFail \in Nat /\ TombstoneLimit \in Nat
ASSUME WorkloadAssumption == Ops \subseteq AllOps /\ Embedding \in BOOLEAN
ASSUME KeysAssumption == IsFiniteSet(Keys) /\ Keys # {}

VARIABLES
    cache,      \* _entries: the version cached under a key, or Absent
    durable,    \* private_memories: the version stored under a key, or Absent
    epoch,      \* _removal_epoch
    removedAt,  \* _removed_at: the epoch a key was last removed at, or 0
    ver,        \* the last version made for a key
    pc, op, key,\* what each thread is doing, and to which key
    snap,       \* snapshot_epoch of a hydration in flight
    seen,       \* the rows a load_one / load_all returned to the thread
    old,        \* the pre-image a rollback restores (`existing`, `entry`, `removed`)
    new,        \* the entry the thread assigned and will persist
    pre,        \* pre_existing of a maintenance pass
    fail,       \* backend failures the thread's operation may still meet
    left,       \* operations that may still begin
    acked       \* keys whose last write returned with the row durable, and
                \* that nobody asked to remove since

shared  == <<cache, durable, epoch, removedAt, ver>>
locals  == <<pc, op, key, snap, seen, old, new, pre, fail>>
vars    == <<shared, locals, left, acked>>

Absent == 0
Present(m) == {k \in Keys : m[k] # Absent}
Only(m, S) == [k \in Keys |-> IF k \in S THEN m[k] ELSE Absent]
NoRows == [k \in Keys |-> Absent]
SomeKey == CHOOSE k \in Keys : TRUE

Pcs == {"idle", "snapshot", "loadAll", "merge", "ensure", "loadOne", "fill",
        "act", "embed", "persist", "rollback", "drop", "promote",
        "durableDelete", "undoDelete", "deleteRelations", "undoRelations",
        "resave", "noteRemoved", "preExisting", "trim"}

\* The row sets load_all(limit) may return: the newest rows, `limit` of them.
LoadAllSets(limit) ==
    {S \in SUBSET Present(durable) :
        Cardinality(S) = Min({limit, Cardinality(Present(durable))})}

(***************************************************************************)
(* Cold start (_load_cold_start_state): the cache is the newest Cap rows.  *)
(* Rows written by other processes may exceed the cap.                     *)
(***************************************************************************)
ColdStart(c) == \E S \in LoadAllSets(Cap) : c = Only(durable, S)

Init ==
    /\ durable \in [Keys -> {Absent, 1}]
    /\ ver = durable
    /\ ColdStart(cache)
    /\ epoch = 0
    /\ removedAt = NoRows
    /\ pc = [t \in Threads |-> "idle"]
    /\ op = [t \in Threads |-> "list"]
    /\ key \in [Threads -> {SomeKey}]
    /\ snap = [t \in Threads |-> 0]
    /\ seen = [t \in Threads |-> NoRows]
    /\ old = [t \in Threads |-> Absent]
    /\ new = [t \in Threads |-> Absent]
    /\ pre = [t \in Threads |-> {}]
    /\ fail = [t \in Threads |-> 0]
    /\ left = MaxOps
    /\ acked = {}

-----------------------------------------------------------------------------
(* Control flow of one thread *)

Goto(t, l) == pc' = [pc EXCEPT ![t] = l]

\* The operation returns or raises; its locals are dead.
Finish(t) ==
    /\ Goto(t, "idle")
    /\ op' = [op EXCEPT ![t] = "list"]
    /\ key' = [key EXCEPT ![t] = SomeKey]
    /\ snap' = [snap EXCEPT ![t] = 0]
    /\ seen' = [seen EXCEPT ![t] = NoRows]
    /\ old' = [old EXCEPT ![t] = Absent]
    /\ new' = [new EXCEPT ![t] = Absent]
    /\ pre' = [pre EXCEPT ![t] = {}]
    /\ fail' = [fail EXCEPT ![t] = 0]

\* The operation goes on at l with nothing but its pc changed.
Continue(t, l) ==
    Goto(t, l) /\ UNCHANGED <<op, key, snap, seen, old, new, pre, fail>>

\* A backend call of t raises: one of the failures its operation may meet.
CanFail(t) == fail[t] > 0
FailTo(t, l) ==
    /\ CanFail(t)
    /\ fail' = [fail EXCEPT ![t] = @ - 1]
    /\ Goto(t, l)
    /\ UNCHANGED <<op, key, snap, seen, old, new, pre>>
FailOut(t) == CanFail(t) /\ Finish(t)

EntryPoint(o) ==
    CASE o \in {"save", "list"} -> "snapshot"
      [] o = "pass"             -> "preExisting"
      [] o = "update"           -> "act"
      [] OTHER                  -> "ensure"

\* save() with conflict_check merges durable overflow first (_handle_conflicts);
\* "saveUnchecked" is save(conflict_check=False).
Begin(t) ==
    /\ pc[t] = "idle"
    /\ left > 0
    /\ left' = left - 1
    /\ \E o \in Ops \ {"crash"}, k \in Keys :
        /\ op' = [op EXCEPT ![t] = o]
        /\ key' = [key EXCEPT ![t] = k]
        /\ Goto(t, EntryPoint(o))
    /\ fail' = [fail EXCEPT ![t] = MaxFail]
    /\ UNCHANGED <<shared, acked, snap, seen, old, new, pre>>

IsSave(t) == op[t] \in {"save", "saveUnchecked"}

-----------------------------------------------------------------------------
(* _merge_durable_entries *)

MergeDone(t) ==
    \/ op[t] = "save" /\ Continue(t, "ensure")
    \/ op[t] = "pass" /\ Continue(t, "trim")
    \/ op[t] \notin {"save", "pass"} /\ Finish(t)

Room == Cap - Cardinality(Present(cache))

\* Under the lock: remember the epoch; a bounded merge returns when there is no room.
MergeSnapshot(t) ==
    /\ pc[t] = "snapshot"
    /\ IF op[t] # "pass" /\ Room <= 0
       THEN MergeDone(t)
       ELSE /\ snap' = [snap EXCEPT ![t] = epoch]
            /\ Goto(t, "loadAll")
            /\ UNCHANGED <<op, key, seen, old, new, pre, fail>>
    /\ UNCHANGED <<shared, left, acked>>

\* Outside the lock: at most Cap rows, all of them for a maintenance pass.
LoadAll(t) ==
    /\ pc[t] = "loadAll"
    /\ \/ /\ \E S \in (IF op[t] = "pass" THEN {Present(durable)} ELSE LoadAllSets(Cap)) :
                seen' = [seen EXCEPT ![t] = Only(durable, S)]
          /\ Goto(t, "merge")
          /\ UNCHANGED <<op, key, snap, old, new, pre, fail>>
       \/ FailOut(t)
    /\ UNCHANGED <<shared, left, acked>>

\* The rows a merge may add: loaded, not cached, not removed since the snapshot.
Mergeable(t) ==
    {k \in Present(seen[t]) : cache[k] = Absent /\ removedAt[k] <= snap[t]}

\* Under the lock again: the room is read afresh; the newest rows win.
Merge(t) ==
    /\ pc[t] = "merge"
    /\ \E S \in SUBSET Mergeable(t) :
        /\ IF op[t] = "pass"
           THEN S = Mergeable(t)
           ELSE Cardinality(S) = Min({Max({Room, 0}), Cardinality(Mergeable(t))})
        /\ cache' = [k \in Keys |-> IF k \in S THEN seen[t][k] ELSE cache[k]]
    /\ MergeDone(t)
    /\ UNCHANGED <<durable, epoch, removedAt, ver, left, acked>>

-----------------------------------------------------------------------------
(* _durable_view: a maintenance pass over the whole durable set.  The pass *)
(* itself is a read (verify_integrity, integrity counters).                *)

PreExisting(t) ==
    /\ pc[t] = "preExisting"
    /\ pre' = [pre EXCEPT ![t] = Present(cache)]
    /\ Goto(t, "snapshot")
    /\ UNCHANGED <<shared, left, acked, op, key, snap, seen, old, new, fail>>

\* _trim_cache_to_cap: rows the pass brought in go first; nothing durable changes.
Trim(t) ==
    /\ pc[t] = "trim"
    /\ \E D \in SUBSET Present(cache) :
        /\ Cardinality(D) = Max({0, Cardinality(Present(cache)) - Cap})
        /\ LET fresh == Present(cache) \ pre[t] IN D \subseteq fresh \/ fresh \subseteq D
        /\ cache' = [k \in Keys |-> IF k \in D THEN Absent ELSE cache[k]]
    /\ Finish(t)
    /\ UNCHANGED <<durable, epoch, removedAt, ver, left, acked>>

-----------------------------------------------------------------------------
(* _ensure_entry_cached *)

\* What a caller does with the entry _ensure_entry_cached returned: everyone
\* but save() gives up on None.
Hydrated(t, e) ==
    IF e = Absent /\ ~IsSave(t)
    THEN Finish(t)
    ELSE /\ old' = [old EXCEPT ![t] = e]
         /\ Goto(t, "act")
         /\ UNCHANGED <<op, key, snap, seen, new, pre, fail>>

Ensure(t) ==
    /\ pc[t] = "ensure"
    /\ IF cache[key[t]] # Absent
       THEN Hydrated(t, cache[key[t]])
       ELSE /\ snap' = [snap EXCEPT ![t] = epoch]
            /\ Goto(t, "loadOne")
            /\ UNCHANGED <<op, key, seen, old, new, pre, fail>>
    /\ UNCHANGED <<shared, left, acked>>

LoadOne(t) ==
    /\ pc[t] = "loadOne"
    /\ \/ /\ durable[key[t]] = Absent
          /\ Hydrated(t, Absent)
       \/ /\ durable[key[t]] # Absent
          /\ seen' = [seen EXCEPT ![t] = Only(durable, {key[t]})]
          /\ Goto(t, "fill")
          /\ UNCHANGED <<op, key, snap, old, new, pre, fail>>
       \/ FailOut(t)
    /\ UNCHANGED <<shared, left, acked>>

\* There is no cap check here: a hydration may take the cache past Cap.
Fill(t) ==
    LET k == key[t] IN
    /\ pc[t] = "fill"
    /\ IF cache[k] # Absent
       THEN Hydrated(t, cache[k]) /\ UNCHANGED cache
       ELSE IF removedAt[k] > snap[t]
       THEN Hydrated(t, Absent) /\ UNCHANGED cache
       ELSE Hydrated(t, seen[t][k]) /\ cache' = [cache EXCEPT ![k] = seen[t][k]]
    /\ UNCHANGED <<durable, epoch, removedAt, ver, left, acked>>

-----------------------------------------------------------------------------
(* Removal tombstones and eviction *)

\* _note_removed_locked: past the limit only the newer half survives.
NoteRemoved(k) ==
    LET marked == [removedAt EXCEPT ![k] = epoch + 1]
        Older(j) == {i \in Present(marked) : marked[i] < marked[j]}
        n == Cardinality(Present(marked))
    IN /\ epoch' = epoch + 1
       /\ removedAt' =
            IF n > TombstoneLimit
            THEN Only(marked, {j \in Present(marked) : Cardinality(Older(j)) > n \div 2})
            ELSE marked

\* save(): a new key at the cap first evicts the lowest-confidence one.
MustEvict(t) == cache[key[t]] = Absent /\ Cardinality(Present(cache)) >= Cap

\* Assign a fresh version of key[t] into the cache c; the pre-image is e.
Assign(t, c, e, l) ==
    LET k == key[t] IN
    /\ ver' = [ver EXCEPT ![k] = @ + 1]
    /\ cache' = [c EXCEPT ![k] = ver[k] + 1]
    /\ old' = [old EXCEPT ![t] = e]
    /\ new' = [new EXCEPT ![t] = ver[k] + 1]
    /\ Goto(t, l)
    /\ UNCHANGED <<op, key, snap, seen, pre, fail, left>>

AfterAssign == IF Embedding THEN "embed" ELSE "persist"

\* Mutant: the pre-image is not kept.
SaveAssignBlind(t) ==
    /\ pc[t] = "act" /\ IsSave(t) /\ ~MustEvict(t)
    /\ Assign(t, cache, Absent, AfterAssign)
    /\ UNCHANGED <<durable, epoch, removedAt, acked>>

\* _build_and_assign_entry, no eviction needed.
SaveAssign(t) ==
    /\ pc[t] = "act" /\ IsSave(t) /\ ~MustEvict(t)
    /\ Assign(t, cache, cache[key[t]], AfterAssign)
    /\ UNCHANGED <<durable, epoch, removedAt, acked>>

\* Mutant: the victim's row goes, its cache entry stays.
SaveEvictNoPop(t) ==
    /\ pc[t] = "act" /\ IsSave(t) /\ MustEvict(t)
    /\ \E v \in Present(cache) :
        /\ Assign(t, cache, Absent, AfterAssign)
        /\ durable' = [durable EXCEPT ![v] = Absent]
        /\ NoteRemoved(v)
        /\ acked' = acked \ {v}

\* The same with _evict_entry_key: pop, durable delete, relations, tombstone,
\* all under the lock.
SaveEvict(t) ==
    /\ pc[t] = "act" /\ IsSave(t) /\ MustEvict(t)
    /\ \E v \in Present(cache) :
        /\ Assign(t, [cache EXCEPT ![v] = Absent], Absent, AfterAssign)
        /\ durable' = [durable EXCEPT ![v] = Absent]
        /\ NoteRemoved(v)
        /\ acked' = acked \ {v}

\* The eviction fails and the save raises.  A failed durable delete leaves
\* everything; failed relation clean-up re-saves the victim, best effort.
SaveEvictFails(t) ==
    /\ pc[t] = "act" /\ IsSave(t) /\ MustEvict(t)
    /\ FailOut(t)
    /\ \/ UNCHANGED durable
       \/ \E v \in Present(cache) :
            \/ durable' = [durable EXCEPT ![v] = cache[v]]
            \/ fail[t] > 1 /\ durable' = [durable EXCEPT ![v] = Absent]
    /\ UNCHANGED <<cache, epoch, removedAt, ver, left, acked>>

\* _embed_entry: merge the vector into whatever is cached now; a key that is
\* gone is not re-inserted.  A provider that raises leaves the entry as it is.
EmbedEntry(t) ==
    LET k == key[t] IN
    /\ pc[t] = "embed"
    /\ \/ /\ ver' = [ver EXCEPT ![k] = @ + 1]
          /\ new' = [new EXCEPT ![t] = ver[k] + 1]
          /\ cache' = IF cache[k] = Absent THEN cache ELSE [cache EXCEPT ![k] = ver[k] + 1]
       \/ UNCHANGED <<ver, new, cache>>
    /\ Goto(t, "persist")
    /\ UNCHANGED <<durable, epoch, removedAt, op, key, snap, seen, old, pre, fail, left, acked>>

-----------------------------------------------------------------------------
(* Read-modify-write operations *)

\* get, record_access, update_tags, backfill_embeddings: nothing to do for a
\* key that vanished after the hydration.
Touch(t) ==
    /\ pc[t] = "act" /\ op[t] = "get"
    /\ IF cache[key[t]] = Absent
       THEN Finish(t) /\ UNCHANGED <<cache, ver, left>>
       ELSE Assign(t, cache, cache[key[t]], "persist")
    /\ UNCHANGED <<durable, epoch, removedAt, acked>>

\* update_fields hydrates under the lock it assigns under.
UpdateFields(t) ==
    LET e == IF cache[key[t]] # Absent THEN cache[key[t]] ELSE durable[key[t]] IN
    /\ pc[t] = "act" /\ op[t] = "update"
    /\ \/ e = Absent /\ Finish(t) /\ UNCHANGED <<cache, ver, left>>
       \/ e # Absent /\ Assign(t, cache, e, "persist")
       \/ cache[key[t]] = Absent /\ FailOut(t) /\ UNCHANGED <<cache, ver, left>>
    /\ UNCHANGED <<durable, epoch, removedAt, acked>>

\* reinforce (and set_embeddings) fall back to the entry they hydrated when the
\* cache no longer has it.
Reinforce(t) ==
    LET e == IF cache[key[t]] # Absent THEN cache[key[t]] ELSE old[t] IN
    /\ pc[t] = "act" /\ op[t] = "reinforce"
    /\ Assign(t, cache, e, "persist")
    /\ UNCHANGED <<durable, epoch, removedAt, acked>>

\* _maybe_promote_after_reinforce assigns without looking at the cache.
Promote(t) ==
    /\ pc[t] = "promote"
    /\ Assign(t, cache, new[t], "persist")
    /\ UNCHANGED <<durable, epoch, removedAt, acked>>

\* The write-through upsert, outside the lock; it carries no version check.
Persist(t) ==
    /\ pc[t] = "persist"
    /\ \/ durable' = [durable EXCEPT ![key[t]] = new[t]] /\ Continue(t, "drop")
       \/ FailTo(t, "rollback") /\ UNCHANGED durable
    /\ UNCHANGED <<cache, epoch, removedAt, ver, left, acked>>

\* save() restores unconditionally; the others only if the slot is still theirs.
Rollback(t) ==
    LET k == key[t] IN
    /\ pc[t] = "rollback"
    /\ cache' = IF IsSave(t) \/ cache[k] = new[t]
                THEN [cache EXCEPT ![k] = old[t]] ELSE cache
    /\ Finish(t)
    /\ UNCHANGED <<durable, epoch, removedAt, ver, left, acked>>

\* Mutant: an entry that another thread replaced counts as removed.
DropIfReplaced(t) ==
    LET k == key[t] IN
    /\ pc[t] = "drop"
    /\ durable' = IF cache[k] # new[t] THEN [durable EXCEPT ![k] = Absent] ELSE durable
    /\ acked' = IF cache[k] = Absent THEN acked ELSE acked \union {k}
    /\ Finish(t)
    /\ UNCHANGED <<cache, epoch, removedAt, ver, left>>

\* _drop_if_concurrently_removed: under the lock, a key that is no longer
\* cached loses the row just persisted (best effort).  A reinforce may then
\* promote.
DropIfConcurrentlyRemoved(t) ==
    LET k == key[t] IN
    /\ pc[t] = "drop"
    /\ IF cache[k] = Absent
       THEN /\ \/ durable' = [durable EXCEPT ![k] = Absent]
               \/ CanFail(t) /\ UNCHANGED durable
            /\ UNCHANGED acked
       ELSE /\ acked' = IF durable[k] # Absent THEN acked \union {k} ELSE acked
            /\ UNCHANGED durable
    /\ \/ Finish(t)
       \/ /\ op[t] = "reinforce"
          /\ op' = [op EXCEPT ![t] = "get"]
          /\ Goto(t, "promote")
          /\ UNCHANGED <<key, snap, seen, old, new, pre, fail>>
    /\ UNCHANGED <<cache, epoch, removedAt, ver, left>>

-----------------------------------------------------------------------------
(* delete *)

DeletePop(t) ==
    LET k == key[t] IN
    /\ pc[t] = "act" /\ op[t] = "delete"
    /\ cache' = [cache EXCEPT ![k] = Absent]
    /\ old' = [old EXCEPT ![t] = IF cache[k] # Absent THEN cache[k] ELSE @]
    /\ acked' = acked \ {k}
    /\ Goto(t, "durableDelete")
    /\ UNCHANGED <<durable, epoch, removedAt, ver, op, key, snap, seen, new, pre, fail, left>>

DurableDelete(t) ==
    /\ pc[t] = "durableDelete"
    /\ \/ durable' = [durable EXCEPT ![key[t]] = Absent] /\ Continue(t, "deleteRelations")
       \/ FailTo(t, "undoDelete") /\ UNCHANGED durable
    /\ UNCHANGED <<cache, epoch, removedAt, ver, left, acked>>

UndoDelete(t) ==
    /\ pc[t] = "undoDelete"
    /\ cache' = [cache EXCEPT ![key[t]] = old[t]]
    /\ Finish(t)
    /\ UNCHANGED <<durable, epoch, removedAt, ver, left, acked>>

DeleteRelations(t) ==
    /\ pc[t] = "deleteRelations"
    /\ Continue(t, "noteRemoved") \/ FailTo(t, "undoRelations")
    /\ UNCHANGED <<shared, left, acked>>

UndoRelations(t) ==
    /\ pc[t] = "undoRelations"
    /\ cache' = [cache EXCEPT ![key[t]] = old[t]]
    /\ Continue(t, "resave")
    /\ UNCHANGED <<durable, epoch, removedAt, ver, left, acked>>

\* Restoring the durable row is best effort; delete() raises either way.
Resave(t) ==
    /\ pc[t] = "resave"
    /\ durable' = [durable EXCEPT ![key[t]] = old[t]] \/ (CanFail(t) /\ UNCHANGED durable)
    /\ Finish(t)
    /\ UNCHANGED <<cache, epoch, removedAt, ver, left, acked>>

\* The tombstone is written in a lock section of its own, after the durable delete.
DeleteNote(t) ==
    /\ pc[t] = "noteRemoved"
    /\ NoteRemoved(key[t])
    /\ Finish(t)
    /\ UNCHANGED <<cache, durable, ver, left, acked>>

-----------------------------------------------------------------------------
(* The process dies and a new one starts cold on the same database. *)
Crash ==
    /\ "crash" \in Ops /\ left > 0
    /\ left' = left - 1
    /\ ColdStart(cache')
    /\ epoch' = 0 /\ removedAt' = NoRows
    /\ pc' = [t \in Threads |-> "idle"]
    /\ op' = [t \in Threads |-> "list"]
    /\ key' = [t \in Threads |-> SomeKey]
    /\ snap' = [t \in Threads |-> 0]
    /\ seen' = [t \in Threads |-> NoRows]
    /\ old' = [t \in Threads |-> Absent]
    /\ new' = [t \in Threads |-> Absent]
    /\ pre' = [t \in Threads |-> {}]
    /\ fail' = [t \in Threads |-> 0]
    /\ UNCHANGED <<durable, ver, acked>>

Step(t) ==
    \/ Begin(t)
    \/ MergeSnapshot(t) \/ LoadAll(t) \/ Merge(t)
    \/ PreExisting(t) \/ Trim(t)
    \/ Ensure(t) \/ LoadOne(t) \/ Fill(t)
    \/ SaveAssign(t) \/ SaveEvict(t) \/ SaveEvictFails(t) \/ EmbedEntry(t)
    \/ Touch(t) \/ UpdateFields(t) \/ Reinforce(t) \/ Promote(t)
    \/ Persist(t) \/ Rollback(t) \/ DropIfConcurrentlyRemoved(t)
    \/ DeletePop(t) \/ DurableDelete(t) \/ UndoDelete(t)
    \/ DeleteRelations(t) \/ UndoRelations(t) \/ Resave(t) \/ DeleteNote(t)

AllIdle == \A t \in Threads : pc[t] = "idle"

\* The workload is exhausted.  Anywhere else a state without a step is a
\* thread stuck in the middle of an operation.
Done == left = 0 /\ AllIdle /\ UNCHANGED vars

Next == Crash \/ Done \/ \E t \in Threads : Step(t)

Spec == Init /\ [][Next]_vars

-----------------------------------------------------------------------------
(* Properties *)

\* Types, and the facts a version number carries: nothing is cached, stored,
\* loaded or in flight that was not made before, and no tombstone is newer
\* than the removal epoch.
TypeOK ==
    /\ cache \in [Keys -> Nat] /\ durable \in [Keys -> Nat] /\ ver \in [Keys -> Nat]
    /\ epoch \in Nat /\ removedAt \in [Keys -> Nat]
    /\ pc \in [Threads -> Pcs] /\ op \in [Threads -> AllOps] /\ key \in [Threads -> Keys]
    /\ snap \in [Threads -> Nat] /\ seen \in [Threads -> [Keys -> Nat]]
    /\ old \in [Threads -> Nat] /\ new \in [Threads -> Nat]
    /\ pre \in [Threads -> SUBSET Keys] /\ fail \in [Threads -> Nat]
    /\ left \in Nat /\ acked \in SUBSET Keys
    /\ \A k \in Keys : cache[k] <= ver[k] /\ durable[k] <= ver[k] /\ removedAt[k] <= epoch

\* A write that returned with its row in place stays durable until somebody
\* asks for its removal (an eviction or a delete), whatever the other threads'
\* hydrations, evictions and clean-ups of orphaned rows do in between, and
\* across a restart.
NoLostKey == acked \subseteq Present(durable)

\* A cached entry has a durable row, or a thread that is about to write one:
\* the cache never goes on serving a row that no longer exists.
Writing(k) == \E t \in Threads :
    key[t] = k /\ pc[t] \in {"act", "embed", "persist", "rollback", "promote",
                            "undoDelete", "undoRelations", "resave"}
NoPhantom == \A k \in Present(cache) : durable[k] # Absent \/ Writing(k)

\* Write-through consistency: with no operation in flight, what the cache holds
\* for a key is what the database holds, failures and roll-backs included.
WriteThrough == AllIdle => \A k \in Present(cache) : cache[k] = durable[k]

\* A merge on a read or save path (not a maintenance pass) never takes the cache
\* past max_entries, although the room was first measured before an unlocked
\* load_all during which other threads insert and evict.
MergesNow(t) == pc[t] = "merge" /\ op[t] # "pass" /\ pc'[t] # "merge"
BoundedMerge ==
    [][\A t \in Threads : MergesNow(t) /\ cache' # cache
            => Cardinality(Present(cache')) <= Cap]_vars
=============================================================================

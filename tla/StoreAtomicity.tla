--------------------------- MODULE StoreAtomicity ---------------------------
(***************************************************************************)
(* With one caller, the write-through cache implements AtomicStore.  A     *)
(* write counts from the moment its row is durable, a delete from the      *)
(* moment the relations are gone too; until then a reader of the promise   *)
(* sees the pre-image.                                                     *)
(***************************************************************************)
EXTENDS StoreCache

\* The thread is between changing the cache and knowing that the change holds.
Unsettled(t, k) ==
    key[t] = k /\ pc[t] \in {"embed", "persist", "rollback", "durableDelete", "undoDelete",
                             "deleteRelations", "undoRelations", "resave"}

View(k) == IF cache[k] # Absent THEN cache[k] ELSE durable[k]

kvBar == [k \in Keys |->
    IF \E t \in Threads : Unsettled(t, k)
    THEN old[CHOOSE t \in Threads : Unsettled(t, k)] ELSE View(k)]

\* An unpublished version is not used yet.
usedBar == [k \in Keys |->
    IF \E t \in Threads : Unsettled(t, k) /\ new[t] # Absent
    THEN new[CHOOSE t \in Threads : Unsettled(t, k)] - 1 ELSE ver[k]]

Atomic == INSTANCE AtomicStore WITH kv <- kvBar, used <- usedBar

\* Every operation of a single caller is all-or-nothing, restarts and one
\* backend failure per operation included.
AtomicOperations == Atomic!Spec
=============================================================================

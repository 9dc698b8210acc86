-------------------------- MODULE StoreCache_proofs --------------------------
(***************************************************************************)
(* Proofs about StoreCache, for every set of keys and threads, every cap   *)
(* and every workload the theorem names; that for one caller it implements *)
(* AtomicStore; and, at the end, about the hashes of Integrity and about   *)
(* what Recall answers, for every set of rows and every limit.             *)
(***************************************************************************)
EXTENDS StoreAtomicity, Integrity, Recall, FiniteSetTheorems, TLAPS

(***************************************************************************)
(* Type correctness.  TypeOK is not inductive: that the cache and the      *)
(* database hold only versions made before needs the same of what the      *)
(* threads carry, and an idle thread must carry nothing, because Begin     *)
(* gives it another key.                                                   *)
(***************************************************************************)
Carried ==
    \A t \in Threads :
        /\ old[t] <= ver[key[t]] /\ new[t] <= ver[key[t]]
        /\ \A k \in Keys : seen[t][k] <= ver[k]
        /\ pc[t] = "idle" => old[t] = Absent /\ new[t] = Absent

TypeInv == TypeOK /\ Carried

LEMMA SomeKeyInKeys == SomeKey \in Keys
BY KeysAssumption DEF SomeKey

LEMMA OnlyType ==
    ASSUME NEW m \in [Keys -> Nat], NEW S
    PROVE  Only(m, S) \in [Keys -> Nat] /\ \A k \in Keys : Only(m, S)[k] <= m[k]
BY DEF Only, Absent

\* The thread's locals after Finish are those of an idle thread.
LEMMA FinishType ==
    ASSUME TypeInv, NEW t \in Threads, Finish(t)
    PROVE  /\ pc' \in [Threads -> Pcs] /\ op' \in [Threads -> AllOps]
           /\ key' \in [Threads -> Keys] /\ snap' \in [Threads -> Nat]
           /\ seen' \in [Threads -> [Keys -> Nat]]
           /\ old' \in [Threads -> Nat] /\ new' \in [Threads -> Nat]
           /\ pre' \in [Threads -> SUBSET Keys] /\ fail' \in [Threads -> Nat]
           /\ \A u \in Threads : (u = t \/ (u # t /\ pc'[u] = pc[u] /\ key'[u] = key[u]
                    /\ old'[u] = old[u] /\ new'[u] = new[u] /\ seen'[u] = seen[u]))
           /\ old'[t] = 0 /\ new'[t] = 0 /\ key'[t] \in Keys
           /\ \A k \in Keys : seen'[t][k] = 0
<1>1. NoRows \in [Keys -> Nat] /\ \A k \in Keys : NoRows[k] = 0
  BY DEF NoRows, Absent
<1>2. QED
  BY <1>1, SomeKeyInKeys DEF TypeInv, TypeOK, Finish, Goto, Pcs, AllOps, Absent


LEMMA NoteRemovedType ==
    ASSUME TypeInv, NEW k \in Keys, NoteRemoved(k)
    PROVE  epoch' \in Nat /\ removedAt' \in [Keys -> Nat]
           /\ \A j \in Keys : removedAt'[j] <= epoch'
<1> DEFINE marked == [removedAt EXCEPT ![k] = epoch + 1]
<1>1. marked \in [Keys -> Nat] /\ \A j \in Keys : marked[j] <= epoch + 1
  BY DEF TypeInv, TypeOK
<1>2. epoch' = epoch + 1 /\ (removedAt' = marked \/ \E S : removedAt' = Only(marked, S))
  BY DEF NoteRemoved
<1> HIDE DEF marked
<1>3. CASE removedAt' = marked
  BY <1>1, <1>2, <1>3 DEF TypeInv, TypeOK
<1>4. CASE \E S : removedAt' = Only(marked, S)
  <2>1. PICK S : removedAt' = Only(marked, S)
    BY <1>4
  <2>2. removedAt' \in [Keys -> Nat] /\ \A j \in Keys : removedAt'[j] <= marked[j]
    BY <2>1, <1>1, OnlyType
  <2>3. QED
    BY <2>2, <1>1, <1>2 DEF TypeInv, TypeOK
<1>5. QED
  BY <1>2, <1>3, <1>4

\* An assignment of a fresh version into a cache that is typed.
LEMMA AssignType ==
    ASSUME TypeInv, NEW t \in Threads, NEW STATE c, c \in [Keys -> Nat], NEW STATE e, e \in Nat,
           NEW l \in Pcs \ {"idle"}, e <= ver[key[t]],
           \A k \in Keys : c[k] <= ver[k], Assign(t, c, e, l),
           durable' \in [Keys -> Nat], \A k \in Keys : durable'[k] <= ver[k],
           epoch' \in Nat, removedAt' \in [Keys -> Nat],
           \A k \in Keys : removedAt'[k] <= epoch', acked' \in SUBSET Keys
    PROVE  TypeInv'
<1>1. key[t] \in Keys /\ ver \in [Keys -> Nat]
  BY DEF TypeInv, TypeOK
<1>2. /\ ver' \in [Keys -> Nat] /\ cache' \in [Keys -> Nat]
      /\ \A k \in Keys : ver[k] <= ver'[k] /\ cache'[k] <= ver'[k]
      /\ ver'[key[t]] = ver[key[t]] + 1
  BY <1>1 DEF Assign
<1>3. \A k \in Keys : durable'[k] <= ver'[k]
  BY <1>1, <1>2
<1>4. /\ pc' \in [Threads -> Pcs] /\ old' \in [Threads -> Nat] /\ new' \in [Threads -> Nat]
      /\ old'[t] = e /\ new'[t] = ver[key[t]] + 1 /\ pc'[t] # "idle"
      /\ \A u \in Threads \ {t} : old'[u] = old[u] /\ new'[u] = new[u] /\ pc'[u] = pc[u]
  BY <1>1 DEF TypeInv, TypeOK, Assign, Goto
<1>5. key' = key /\ seen' = seen /\ op' = op /\ snap' = snap /\ pre' = pre /\ fail' = fail
      /\ left' = left
  BY DEF Assign
<1>6. TypeOK'
  BY <1>2, <1>3, <1>4, <1>5 DEF TypeInv, TypeOK
<1>7. Carried'
  <2> SUFFICES ASSUME NEW u \in Threads
               PROVE  /\ old'[u] <= ver'[key[u]] /\ new'[u] <= ver'[key[u]]
                      /\ \A k \in Keys : seen[u][k] <= ver'[k]
                      /\ pc'[u] = "idle" => old'[u] = Absent /\ new'[u] = Absent
    BY <1>5 DEF Carried
  <2>1. key[u] \in Keys /\ seen[u] \in [Keys -> Nat] /\ old[u] \in Nat /\ new[u] \in Nat
    BY DEF TypeInv, TypeOK
  <2>2. old[u] <= ver[key[u]] /\ new[u] <= ver[key[u]] /\ \A k \in Keys : seen[u][k] <= ver[k]
    BY DEF TypeInv, Carried
  <2>3. \A k \in Keys : seen[u][k] <= ver'[k]
    BY <2>1, <2>2, <1>1, <1>2
  <2>4. CASE u = t
    BY <2>1, <2>3, <2>4, <1>1, <1>2, <1>4
  <2>5. CASE u # t
    BY <2>1, <2>2, <2>3, <2>5, <1>1, <1>2, <1>4 DEF TypeInv, Carried
  <2>6. QED
    BY <2>4, <2>5
<1>8. QED
  BY <1>6, <1>7 DEF TypeInv

LEMMA InitType == Init => TypeInv
<1> SUFFICES ASSUME Init PROVE TypeInv
  OBVIOUS
<1>1. durable \in [Keys -> Nat] /\ ver = durable
  BY DEF Init, Absent
<1>2. cache \in [Keys -> Nat] /\ \A k \in Keys : cache[k] <= durable[k]
  BY <1>1, OnlyType DEF Init, ColdStart
<1>3. NoRows \in [Keys -> Nat] /\ \A k \in Keys : NoRows[k] = 0
  BY DEF NoRows, Absent
<1>4. key \in [Threads -> Keys]
  BY SomeKeyInKeys DEF Init
<1>5. QED
  BY <1>1, <1>2, <1>3, <1>4, BoundsAssumption
     DEF Init, TypeInv, TypeOK, Carried, Absent, Pcs, AllOps

\* The shared state stays typed in a step that makes no version.
SharedTyped ==
    /\ ver' = ver
    /\ cache' \in [Keys -> Nat] /\ durable' \in [Keys -> Nat]
    /\ epoch' \in Nat /\ removedAt' \in [Keys -> Nat]
    /\ left' \in Nat /\ acked' \in SUBSET Keys
    /\ \A k \in Keys : cache'[k] <= ver[k] /\ durable'[k] <= ver[k] /\ removedAt'[k] <= epoch'

LEMMA SharedSame ==
    ASSUME TypeInv, UNCHANGED <<shared, left, acked>>
    PROVE  SharedTyped
BY DEF TypeInv, TypeOK, SharedTyped, shared

LEMMA FinishStep ==
    ASSUME TypeInv, NEW t \in Threads, Finish(t), SharedTyped
    PROVE  TypeInv'
<1>1. TypeOK'
  BY FinishType DEF TypeInv, TypeOK, SharedTyped
<1>2. Carried'
  <2> SUFFICES ASSUME NEW u \in Threads
               PROVE  /\ old'[u] <= ver'[key'[u]] /\ new'[u] <= ver'[key'[u]]
                      /\ \A k \in Keys : seen'[u][k] <= ver'[k]
                      /\ pc'[u] = "idle" => old'[u] = Absent /\ new'[u] = Absent
    BY DEF Carried
  <2>1. ver' = ver /\ ver \in [Keys -> Nat]
    BY DEF SharedTyped, TypeInv, TypeOK
  <2>2. CASE u = t
    <3>1. /\ old'[t] = 0 /\ new'[t] = 0 /\ key'[t] \in Keys
          /\ \A k \in Keys : seen'[t][k] = 0
      BY FinishType
    <3>2. \A k \in Keys : 0 <= ver'[k]
      BY <2>1
    <3>3. QED
      BY <3>1, <3>2, <2>2 DEF Absent
  <2>3. CASE u # t
    <3>1. /\ pc'[u] = pc[u] /\ key'[u] = key[u] /\ old'[u] = old[u] /\ new'[u] = new[u]
          /\ seen'[u] = seen[u]
      BY <2>3, FinishType
    <3>2. QED
      BY <3>1, <2>1 DEF TypeInv, Carried
  <2>4. QED
    BY <2>2, <2>3
<1>3. QED
  BY <1>1, <1>2 DEF TypeInv

\* A step that leaves keys alone and keeps what the threads carry in bounds.
LEMMA LocalStep ==
    ASSUME TypeInv, SharedTyped, key' = key,
           pc' \in [Threads -> Pcs], op' \in [Threads -> AllOps],
           snap' \in [Threads -> Nat], seen' \in [Threads -> [Keys -> Nat]],
           old' \in [Threads -> Nat], new' \in [Threads -> Nat],
           pre' \in [Threads -> SUBSET Keys], fail' \in [Threads -> Nat],
           \A u \in Threads : \A k \in Keys : seen'[u][k] <= ver[k],
           \A u \in Threads : old'[u] <= ver[key[u]] /\ new'[u] <= ver[key[u]],
           \A u \in Threads : pc'[u] = "idle" =>
                pc[u] = "idle" /\ old'[u] = old[u] /\ new'[u] = new[u]
    PROVE  TypeInv'
<1>1. TypeOK'
  BY DEF TypeInv, TypeOK, SharedTyped
<1>2. Carried'
  BY DEF TypeInv, Carried, SharedTyped
<1>3. QED
  BY <1>1, <1>2 DEF TypeInv

\* Continue and FailTo change pc and the failure budget only.
LEMMA ContinueStep ==
    ASSUME TypeInv, SharedTyped, NEW t \in Threads, NEW l \in Pcs \ {"idle"},
           Continue(t, l) \/ FailTo(t, l)
    PROVE  TypeInv'
<1>1. key' = key /\ op' = op /\ snap' = snap /\ seen' = seen /\ old' = old /\ new' = new
      /\ pre' = pre
  BY DEF Continue, FailTo
<1>2. fail' \in [Threads -> Nat]
  <2>1. fail \in [Threads -> Nat]
    BY DEF TypeInv, TypeOK
  <2>2. CASE Continue(t, l)
    BY <2>1, <2>2 DEF Continue
  <2>3. CASE FailTo(t, l)
    BY <2>1, <2>3 DEF FailTo, CanFail
  <2> QED
    BY <2>2, <2>3
<1>3. pc' \in [Threads -> Pcs] /\ \A u \in Threads : pc'[u] = "idle" => pc[u] = "idle"
  BY DEF TypeInv, TypeOK, Continue, FailTo, Goto
<1>4. QED
  BY <1>1, <1>2, <1>3, LocalStep DEF TypeInv, TypeOK, Carried

\* _ensure_entry_cached returns e to its caller.
LEMMA HydratedStep ==
    ASSUME TypeInv, SharedTyped, NEW t \in Threads, NEW STATE e, e \in Nat,
           e <= ver[key[t]], Hydrated(t, e)
    PROVE  TypeInv'
<1>1. CASE e = Absent /\ ~IsSave(t)
  BY <1>1, FinishStep DEF Hydrated
<1>2. CASE ~(e = Absent /\ ~IsSave(t))
  <2>1. /\ old' = [old EXCEPT ![t] = e] /\ Goto(t, "act")
        /\ UNCHANGED <<op, key, snap, seen, new, pre, fail>>
    BY <1>2 DEF Hydrated
  <2>2. pc' \in [Threads -> Pcs] /\ \A u \in Threads : pc'[u] = "idle" => pc[u] = "idle" /\ u # t
    BY <2>1 DEF TypeInv, TypeOK, Goto, Pcs
  <2>3. old' \in [Threads -> Nat] /\ \A u \in Threads : old'[u] <= ver[key[u]]
    BY <2>1 DEF TypeInv, TypeOK, Carried
  <2>4. \A u \in Threads : u # t => old'[u] = old[u]
    BY <2>1 DEF TypeInv, TypeOK
  <2>5. QED
    BY <2>1, <2>2, <2>3, <2>4, LocalStep DEF TypeInv, TypeOK, Carried
<1>3. QED
  BY <1>1, <1>2

\* What a load returns to a thread is in bounds because the database is.
LEMMA SeenType ==
    ASSUME TypeInv, NEW t \in Threads, NEW STATE S,
           seen' = [seen EXCEPT ![t] = Only(durable, S)]
    PROVE  /\ seen' \in [Threads -> [Keys -> Nat]]
           /\ \A u \in Threads : \A k \in Keys : seen'[u][k] <= ver[k]
<1>1. /\ Only(durable, S) \in [Keys -> Nat]
      /\ \A k \in Keys : Only(durable, S)[k] <= durable[k]
  BY DEF TypeInv, TypeOK, Only, Absent
<1> DEFINE rows == Only(durable, S)
<1> HIDE DEF rows
<1>2. rows \in [Keys -> Nat] /\ \A k \in Keys : rows[k] <= ver[k]
  BY <1>1 DEF rows, TypeInv, TypeOK
<1>3. seen' = [seen EXCEPT ![t] = rows]
  BY DEF rows
<1>4. QED
  BY <1>2, <1>3 DEF TypeInv, TypeOK, Carried

LEMMA MergeDoneStep ==
    ASSUME TypeInv, SharedTyped, NEW t \in Threads, MergeDone(t)
    PROVE  TypeInv'
<1>1. CASE Finish(t)
  BY <1>1, FinishStep
<1>2. CASE Continue(t, "ensure")
  BY <1>2, ContinueStep DEF Pcs
<1>3. CASE Continue(t, "trim")
  BY <1>3, ContinueStep DEF Pcs
<1>4. QED
  BY <1>1, <1>2, <1>3 DEF MergeDone

LEMMA TypeStep == TypeInv /\ [Next]_vars => TypeInv'
<1> SUFFICES ASSUME TypeInv, [Next]_vars PROVE TypeInv'
  OBVIOUS
<1>1. CASE UNCHANGED vars
  BY <1>1 DEF vars, shared, locals, TypeInv, TypeOK, Carried
<1>2. CASE Crash
  <2>1. durable \in [Keys -> Nat] /\ \A k \in Keys : durable[k] <= ver[k]
    BY DEF TypeInv, TypeOK
  <2>2. cache' \in [Keys -> Nat] /\ \A k \in Keys : cache'[k] <= durable[k]
    BY <1>2, <2>1, OnlyType DEF Crash, ColdStart
  <2>3. NoRows \in [Keys -> Nat] /\ \A k \in Keys : NoRows[k] = 0
    BY DEF NoRows, Absent
  <2>4. TypeOK'
    BY <1>2, <2>1, <2>2, <2>3, SomeKeyInKeys DEF Crash, TypeInv, TypeOK, Pcs, AllOps, Absent
  <2>5. Carried'
    BY <1>2, <2>3, SomeKeyInKeys DEF Crash, TypeInv, TypeOK, Carried, Absent
  <2>6. QED
    BY <2>4, <2>5 DEF TypeInv
<1>3. CASE Done
  BY <1>3, <1>1 DEF Done
<1>4. ASSUME NEW t \in Threads, Step(t) PROVE TypeInv'
  <2>0. /\ key[t] \in Keys /\ ver \in [Keys -> Nat] /\ cache \in [Keys -> Nat]
        /\ durable \in [Keys -> Nat] /\ seen[t] \in [Keys -> Nat]
        /\ old[t] \in Nat /\ new[t] \in Nat
        /\ old[t] <= ver[key[t]] /\ new[t] <= ver[key[t]]
        /\ \A k \in Keys : /\ cache[k] <= ver[k] /\ durable[k] <= ver[k]
                            /\ seen[t][k] <= ver[k]
    BY DEF TypeInv, TypeOK, Carried
  <2>1. CASE Begin(t)
    <3>1. SharedTyped
      BY <2>1 DEF Begin, TypeInv, TypeOK, SharedTyped, shared
    <3>2. PICK o \in Ops \ {"crash"}, k \in Keys :
            /\ op' = [op EXCEPT ![t] = o] /\ key' = [key EXCEPT ![t] = k]
            /\ Goto(t, EntryPoint(o))
      BY <2>1 DEF Begin
    <3>3. EntryPoint(o) \in Pcs \ {"idle"}
      BY DEF EntryPoint, Pcs
    <3>4. TypeOK'
      BY <2>1, <3>1, <3>2, <3>3, WorkloadAssumption, BoundsAssumption
         DEF Begin, TypeInv, TypeOK, SharedTyped, Goto
    <3>5. Carried'
      <4> SUFFICES ASSUME NEW u \in Threads
                   PROVE  /\ old[u] <= ver[key'[u]] /\ new[u] <= ver[key'[u]]
                          /\ \A j \in Keys : seen[u][j] <= ver[j]
                          /\ pc'[u] = "idle" => old[u] = Absent /\ new[u] = Absent
        BY <2>1 DEF Begin, Carried, shared
      <4>1. \A j \in Keys : seen[u][j] <= ver[j]
        BY DEF TypeInv, Carried
      <4>2. CASE u = t
        BY <2>0, <2>1, <3>2, <4>1, <4>2 DEF Begin, TypeInv, TypeOK, Carried, Absent
      <4>3. CASE u # t
        BY <3>2, <4>1, <4>3 DEF TypeInv, TypeOK, Carried, Goto
      <4>4. QED
        BY <4>2, <4>3
    <3>6. QED
      BY <3>4, <3>5 DEF TypeInv
  <2>2. CASE MergeSnapshot(t)
    <3>1. SharedTyped
      BY <2>2, SharedSame DEF MergeSnapshot
    <3>2. CASE MergeDone(t)
      BY <3>1, <3>2, MergeDoneStep
    <3>3. CASE /\ snap' = [snap EXCEPT ![t] = epoch] /\ Goto(t, "loadAll")
               /\ UNCHANGED <<op, key, seen, old, new, pre, fail>>
      <4>1. pc' \in [Threads -> Pcs] /\ \A u \in Threads : pc'[u] = "idle" => pc[u] = "idle"
        BY <3>3 DEF TypeInv, TypeOK, Goto, Pcs
      <4>2. QED
        BY <3>1, <3>3, <4>1, LocalStep DEF TypeInv, TypeOK, Carried
    <3>4. QED
      BY <2>2, <3>2, <3>3 DEF MergeSnapshot
  <2>3. CASE LoadAll(t)
    <3>1. SharedTyped
      BY <2>3, SharedSame DEF LoadAll
    <3>2. CASE FailOut(t)
      BY <3>1, <3>2, FinishStep DEF FailOut
    <3>3. ASSUME NEW S, seen' = [seen EXCEPT ![t] = Only(durable, S)], Goto(t, "merge"),
                 UNCHANGED <<op, key, snap, old, new, pre, fail>>
          PROVE  TypeInv'
      <4>2. seen' \in [Threads -> [Keys -> Nat]] /\ \A u \in Threads : \A k \in Keys : seen'[u][k] <= ver[k]
        BY <3>3, SeenType
      <4>3. pc' \in [Threads -> Pcs] /\ \A u \in Threads : pc'[u] = "idle" => pc[u] = "idle"
        BY <3>3 DEF TypeInv, TypeOK, Goto, Pcs
      <4>4. QED
        BY <3>1, <3>3, <4>2, <4>3, LocalStep DEF TypeInv, TypeOK, Carried
    <3>4. QED
      BY <2>3, <3>2, <3>3 DEF LoadAll
  <2>4. CASE Merge(t)
    <3>1. PICK S \in SUBSET Mergeable(t) :
            cache' = [k \in Keys |-> IF k \in S THEN seen[t][k] ELSE cache[k]]
      BY <2>4 DEF Merge
    <3>2. cache' \in [Keys -> Nat] /\ \A k \in Keys : cache'[k] <= ver[k]
      BY <2>0, <3>1
    <3>3. SharedTyped
      BY <2>4, <3>2 DEF Merge, SharedTyped, TypeInv, TypeOK
    <3>4. QED
      BY <2>4, <3>3, MergeDoneStep DEF Merge
  <2>5. CASE PreExisting(t)
    <3>1. SharedTyped
      BY <2>5, SharedSame DEF PreExisting
    <3>2. pc' \in [Threads -> Pcs] /\ \A u \in Threads : pc'[u] = "idle" => pc[u] = "idle"
      BY <2>5 DEF PreExisting, TypeInv, TypeOK, Goto, Pcs
    <3>3. pre' \in [Threads -> SUBSET Keys]
      BY <2>5 DEF PreExisting, TypeInv, TypeOK, Present
    <3>4. QED
      BY <2>5, <3>1, <3>2, <3>3, LocalStep DEF PreExisting, TypeInv, TypeOK, Carried
  <2>6. CASE Trim(t)
    <3>1. PICK D : cache' = [k \in Keys |-> IF k \in D THEN Absent ELSE cache[k]]
      BY <2>6 DEF Trim
    <3>2. cache' \in [Keys -> Nat] /\ \A k \in Keys : cache'[k] <= ver[k]
      BY <2>0, <3>1 DEF Absent
    <3>3. SharedTyped
      BY <2>6, <3>2 DEF Trim, SharedTyped, TypeInv, TypeOK
    <3>4. QED
      BY <2>6, <3>3, FinishStep DEF Trim
  <2>7. CASE Ensure(t)
    <3>1. SharedTyped
      BY <2>7, SharedSame DEF Ensure
    <3>2. CASE Hydrated(t, cache[key[t]])
      BY <2>0, <3>1, <3>2, HydratedStep
    <3>3. CASE /\ snap' = [snap EXCEPT ![t] = epoch] /\ Goto(t, "loadOne")
               /\ UNCHANGED <<op, key, seen, old, new, pre, fail>>
      <4>1. pc' \in [Threads -> Pcs] /\ \A u \in Threads : pc'[u] = "idle" => pc[u] = "idle"
        BY <3>3 DEF TypeInv, TypeOK, Goto, Pcs
      <4>2. QED
        BY <3>1, <3>3, <4>1, LocalStep DEF TypeInv, TypeOK, Carried
    <3>4. QED
      BY <2>7, <3>2, <3>3 DEF Ensure
  <2>8. CASE LoadOne(t)
    <3>1. SharedTyped
      BY <2>8, SharedSame DEF LoadOne
    <3>2. CASE FailOut(t)
      BY <3>1, <3>2, FinishStep DEF FailOut
    <3>3. CASE Hydrated(t, Absent)
      BY <2>0, <3>1, <3>3, HydratedStep DEF Absent
    <3>4. CASE /\ seen' = [seen EXCEPT ![t] = Only(durable, {key[t]})] /\ Goto(t, "fill")
               /\ UNCHANGED <<op, key, snap, old, new, pre, fail>>
      <4>2. seen' \in [Threads -> [Keys -> Nat]] /\ \A u \in Threads : \A k \in Keys : seen'[u][k] <= ver[k]
        BY <3>4, SeenType
      <4>3. pc' \in [Threads -> Pcs] /\ \A u \in Threads : pc'[u] = "idle" => pc[u] = "idle"
        BY <3>4 DEF TypeInv, TypeOK, Goto, Pcs
      <4>4. QED
        BY <3>1, <3>4, <4>2, <4>3, LocalStep DEF TypeInv, TypeOK, Carried
    <3>5. QED
      BY <2>8, <3>2, <3>3, <3>4 DEF LoadOne
  <2>9. CASE Fill(t)
    <3>1. cache' \in [Keys -> Nat] /\ \A k \in Keys : cache'[k] <= ver[k]
      BY <2>0, <2>9 DEF Fill
    <3>2. SharedTyped
      BY <2>9, <3>1 DEF Fill, SharedTyped, TypeInv, TypeOK
    <3>3. CASE Hydrated(t, cache[key[t]])
      BY <2>0, <3>2, <3>3, HydratedStep
    <3>4. CASE Hydrated(t, Absent)
      BY <2>0, <3>2, <3>4, HydratedStep DEF Absent
    <3>5. CASE Hydrated(t, seen[t][key[t]])
      BY <2>0, <3>2, <3>5, HydratedStep
    <3>6. QED
      BY <2>9, <3>3, <3>4, <3>5 DEF Fill
  <2>10. CASE SaveAssign(t)
    <3>1. AfterAssign \in Pcs \ {"idle"}
      BY DEF AfterAssign, Pcs
    <3>2. Assign(t, cache, cache[key[t]], AfterAssign)
      BY <2>10 DEF SaveAssign
    <3>3. UNCHANGED <<durable, epoch, removedAt, acked>>
      BY <2>10 DEF SaveAssign
    <3>4. QED
      BY <2>0, <3>1, <3>2, <3>3, AssignType DEF TypeInv, TypeOK
  <2>11. CASE SaveEvict(t)
    <3>1. AfterAssign \in Pcs \ {"idle"}
      BY DEF AfterAssign, Pcs
    <3>2. PICK v \in Present(cache) :
            /\ Assign(t, [cache EXCEPT ![v] = Absent], Absent, AfterAssign)
            /\ durable' = [durable EXCEPT ![v] = Absent]
            /\ NoteRemoved(v)
            /\ acked' = acked \ {v}
      BY <2>11 DEF SaveEvict
    <3>3. v \in Keys
      BY DEF Present
    <3>4. /\ [cache EXCEPT ![v] = Absent] \in [Keys -> Nat]
          /\ \A k \in Keys : [cache EXCEPT ![v] = Absent][k] <= ver[k]
      BY <2>0, <3>3 DEF Absent
    <3>5. durable' \in [Keys -> Nat] /\ \A k \in Keys : durable'[k] <= ver[k]
      BY <2>0, <3>2, <3>3 DEF Absent
    <3>6. /\ epoch' \in Nat /\ removedAt' \in [Keys -> Nat]
          /\ \A k \in Keys : removedAt'[k] <= epoch'
      BY <3>2, <3>3, NoteRemovedType
    <3>7. acked' \in SUBSET Keys
      BY <3>2 DEF TypeInv, TypeOK
    <3>8. Absent \in Nat /\ Absent <= ver[key[t]]
      BY <2>0 DEF Absent
    <3>9. QED
      BY <3>1, <3>2, <3>4, <3>5, <3>6, <3>7, <3>8, AssignType
  <2>12. CASE SaveEvictFails(t)
    <3>1. durable' \in [Keys -> Nat] /\ \A k \in Keys : durable'[k] <= ver[k]
      BY <2>0, <2>12 DEF SaveEvictFails, Present, Absent
    <3>2. SharedTyped
      BY <2>12, <3>1 DEF SaveEvictFails, SharedTyped, TypeInv, TypeOK
    <3>3. QED
      BY <2>12, <3>2, FinishStep DEF SaveEvictFails, FailOut
  <2>13. CASE EmbedEntry(t)
    <3>1. pc' \in [Threads -> Pcs] /\ \A u \in Threads : pc'[u] = "idle" => pc[u] = "idle" /\ u # t
      BY <2>13 DEF EmbedEntry, TypeInv, TypeOK, Goto, Pcs
    <3>2. CASE UNCHANGED <<ver, new, cache>>
      <4>1. SharedTyped
        BY <2>13, <3>2 DEF EmbedEntry, SharedTyped, TypeInv, TypeOK
      <4>2. QED
        BY <2>13, <3>1, <3>2, <4>1, LocalStep DEF EmbedEntry, TypeInv, TypeOK, Carried
    <3>3. CASE /\ ver' = [ver EXCEPT ![key[t]] = @ + 1]
               /\ new' = [new EXCEPT ![t] = ver[key[t]] + 1]
               /\ cache' = IF cache[key[t]] = Absent THEN cache
                           ELSE [cache EXCEPT ![key[t]] = ver[key[t]] + 1]
      <4>1. /\ ver' \in [Keys -> Nat] /\ cache' \in [Keys -> Nat]
            /\ \A k \in Keys : ver[k] <= ver'[k] /\ cache'[k] <= ver'[k]
            /\ ver'[key[t]] = ver[key[t]] + 1
        BY <2>0, <3>3
      <4>2. \A k \in Keys : durable[k] <= ver'[k]
        BY <2>0, <4>1
      <4>3. /\ new' \in [Threads -> Nat] /\ new'[t] = ver[key[t]] + 1
            /\ \A u \in Threads \ {t} : new'[u] = new[u]
        BY <2>0, <3>3 DEF TypeInv, TypeOK
      <4>4. TypeOK'
        BY <2>13, <3>1, <4>1, <4>2, <4>3 DEF EmbedEntry, TypeInv, TypeOK
      <4>5. Carried'
        <5> SUFFICES ASSUME NEW u \in Threads
                     PROVE  /\ old[u] <= ver'[key[u]] /\ new'[u] <= ver'[key[u]]
                            /\ \A k \in Keys : seen[u][k] <= ver'[k]
                            /\ pc'[u] = "idle" => old[u] = Absent /\ new'[u] = Absent
          BY <2>13 DEF EmbedEntry, Carried
        <5>1. /\ key[u] \in Keys /\ seen[u] \in [Keys -> Nat] /\ old[u] \in Nat /\ new[u] \in Nat
              /\ old[u] <= ver[key[u]] /\ new[u] <= ver[key[u]]
              /\ \A k \in Keys : seen[u][k] <= ver[k]
          BY DEF TypeInv, TypeOK, Carried
        <5>2. \A k \in Keys : seen[u][k] <= ver'[k]
          BY <2>0, <4>1, <5>1
        <5>3. old[u] <= ver'[key[u]] /\ new'[u] <= ver'[key[u]]
          BY <2>0, <4>1, <4>3, <5>1
        <5>4. pc'[u] = "idle" => old[u] = Absent /\ new'[u] = Absent
          BY <3>1, <4>3 DEF TypeInv, Carried
        <5>5. QED
          BY <5>2, <5>3, <5>4
      <4>6. QED
        BY <4>4, <4>5 DEF TypeInv
    <3>4. QED
      BY <2>13, <3>2, <3>3 DEF EmbedEntry
  <2>14. CASE Touch(t)
    <3>1. CASE cache[key[t]] = Absent
      <4>1. SharedTyped
        BY <2>14, <3>1, SharedSame DEF Touch, shared
      <4>2. QED
        BY <2>14, <3>1, <4>1, FinishStep DEF Touch
    <3>2. CASE cache[key[t]] # Absent
      <4>1. Assign(t, cache, cache[key[t]], "persist") /\ "persist" \in Pcs \ {"idle"}
        BY <2>14, <3>2 DEF Touch, Pcs
      <4>2. QED
        BY <2>0, <2>14, <4>1, AssignType DEF Touch, TypeInv, TypeOK
    <3>3. QED
      BY <3>1, <3>2
  <2>15. CASE UpdateFields(t)
    <3> DEFINE e == IF cache[key[t]] # Absent THEN cache[key[t]] ELSE durable[key[t]]
    <3>1. CASE Finish(t) /\ UNCHANGED <<cache, ver, left>>
      <4>1. SharedTyped
        BY <2>15, <3>1, SharedSame DEF UpdateFields, shared
      <4>2. QED
        BY <3>1, <4>1, FinishStep
    <3>2. CASE Assign(t, cache, e, "persist")
      <4>1. e \in Nat /\ e <= ver[key[t]] /\ "persist" \in Pcs \ {"idle"}
        BY <2>0 DEF Pcs
      <4>2. UNCHANGED <<durable, epoch, removedAt, acked>>
        BY <2>15 DEF UpdateFields
      <4> HIDE DEF e
      <4>3. QED
        BY <2>0, <3>2, <4>1, <4>2, AssignType DEF TypeInv, TypeOK
    <3>3. QED
      BY <2>15, <3>1, <3>2 DEF UpdateFields, FailOut
  <2>16. CASE Reinforce(t)
    <3> DEFINE e == IF cache[key[t]] # Absent THEN cache[key[t]] ELSE old[t]
    <3>1. e \in Nat /\ e <= ver[key[t]] /\ "persist" \in Pcs \ {"idle"}
      BY <2>0 DEF Pcs
    <3>2. Assign(t, cache, e, "persist") /\ UNCHANGED <<durable, epoch, removedAt, acked>>
      BY <2>16 DEF Reinforce
    <3> HIDE DEF e
    <3>3. QED
      BY <2>0, <3>1, <3>2, AssignType DEF TypeInv, TypeOK
  <2>17. CASE Promote(t)
    <3>1. "persist" \in Pcs \ {"idle"}
      BY DEF Pcs
    <3>2. QED
      BY <2>0, <2>17, <3>1, AssignType DEF Promote, TypeInv, TypeOK
  <2>18. CASE Persist(t)
    <3>1. durable' \in [Keys -> Nat] /\ \A k \in Keys : durable'[k] <= ver[k]
      BY <2>0, <2>18 DEF Persist
    <3>2. SharedTyped
      BY <2>18, <3>1 DEF Persist, SharedTyped, TypeInv, TypeOK
    <3>3. QED
      BY <2>18, <3>2, ContinueStep DEF Persist, Pcs
  <2>19. CASE Rollback(t)
    <3>1. cache' \in [Keys -> Nat] /\ \A k \in Keys : cache'[k] <= ver[k]
      BY <2>0, <2>19 DEF Rollback
    <3>2. SharedTyped
      BY <2>19, <3>1 DEF Rollback, SharedTyped, TypeInv, TypeOK
    <3>3. QED
      BY <2>19, <3>2, FinishStep DEF Rollback
  <2>20. CASE DropIfConcurrentlyRemoved(t)
    <3>1. durable' \in [Keys -> Nat] /\ \A k \in Keys : durable'[k] <= ver[k]
      BY <2>0, <2>20 DEF DropIfConcurrentlyRemoved, Absent
    <3>2. acked' \in SUBSET Keys
      BY <2>0, <2>20 DEF DropIfConcurrentlyRemoved, TypeInv, TypeOK
    <3>3. SharedTyped
      BY <2>20, <3>1, <3>2 DEF DropIfConcurrentlyRemoved, SharedTyped, TypeInv, TypeOK
    <3>4. CASE Finish(t)
      BY <3>3, <3>4, FinishStep
    <3>5. CASE /\ op' = [op EXCEPT ![t] = "get"] /\ Goto(t, "promote")
               /\ UNCHANGED <<key, snap, seen, old, new, pre, fail>>
      <4>1. pc' \in [Threads -> Pcs] /\ \A u \in Threads : pc'[u] = "idle" => pc[u] = "idle"
        BY <3>5 DEF TypeInv, TypeOK, Goto, Pcs
      <4>2. op' \in [Threads -> AllOps]
        BY <3>5 DEF TypeInv, TypeOK, AllOps
      <4>3. QED
        BY <3>3, <3>5, <4>1, <4>2, LocalStep DEF TypeInv, TypeOK, Carried
    <3>6. QED
      BY <2>20, <3>4, <3>5 DEF DropIfConcurrentlyRemoved
  <2>21. CASE DeletePop(t)
    <3>1. cache' \in [Keys -> Nat] /\ \A k \in Keys : cache'[k] <= ver[k]
      BY <2>0, <2>21 DEF DeletePop, Absent
    <3>2. SharedTyped
      BY <2>21, <3>1 DEF DeletePop, SharedTyped, TypeInv, TypeOK
    <3>3. /\ pc' \in [Threads -> Pcs]
          /\ \A u \in Threads : pc'[u] = "idle" => pc[u] = "idle" /\ u # t
      BY <2>21 DEF DeletePop, TypeInv, TypeOK, Goto, Pcs
    <3>4. /\ old' \in [Threads -> Nat] /\ \A u \in Threads : old'[u] <= ver[key[u]]
          /\ \A u \in Threads : u # t => old'[u] = old[u]
      BY <2>0, <2>21 DEF DeletePop, TypeInv, TypeOK, Carried
    <3>5. QED
      BY <2>21, <3>2, <3>3, <3>4, LocalStep DEF DeletePop, TypeInv, TypeOK, Carried
  <2>22. CASE DurableDelete(t)
    <3>1. durable' \in [Keys -> Nat] /\ \A k \in Keys : durable'[k] <= ver[k]
      BY <2>0, <2>22 DEF DurableDelete, Absent
    <3>2. SharedTyped
      BY <2>22, <3>1 DEF DurableDelete, SharedTyped, TypeInv, TypeOK
    <3>3. QED
      BY <2>22, <3>2, ContinueStep DEF DurableDelete, Pcs
  <2>23. CASE UndoDelete(t)
    <3>1. cache' \in [Keys -> Nat] /\ \A k \in Keys : cache'[k] <= ver[k]
      BY <2>0, <2>23 DEF UndoDelete
    <3>2. SharedTyped
      BY <2>23, <3>1 DEF UndoDelete, SharedTyped, TypeInv, TypeOK
    <3>3. QED
      BY <2>23, <3>2, FinishStep DEF UndoDelete
  <2>24. CASE DeleteRelations(t)
    <3>1. SharedTyped
      BY <2>24, SharedSame DEF DeleteRelations
    <3>2. QED
      BY <2>24, <3>1, ContinueStep DEF DeleteRelations, Pcs
  <2>25. CASE UndoRelations(t)
    <3>1. cache' \in [Keys -> Nat] /\ \A k \in Keys : cache'[k] <= ver[k]
      BY <2>0, <2>25 DEF UndoRelations
    <3>2. SharedTyped
      BY <2>25, <3>1 DEF UndoRelations, SharedTyped, TypeInv, TypeOK
    <3>3. QED
      BY <2>25, <3>2, ContinueStep DEF UndoRelations, Pcs
  <2>26. CASE Resave(t)
    <3>1. durable' \in [Keys -> Nat] /\ \A k \in Keys : durable'[k] <= ver[k]
      BY <2>0, <2>26 DEF Resave
    <3>2. SharedTyped
      BY <2>26, <3>1 DEF Resave, SharedTyped, TypeInv, TypeOK
    <3>3. QED
      BY <2>26, <3>2, FinishStep DEF Resave
  <2>27. CASE DeleteNote(t)
    <3>1. /\ epoch' \in Nat /\ removedAt' \in [Keys -> Nat]
          /\ \A j \in Keys : removedAt'[j] <= epoch'
      BY <2>0, <2>27, NoteRemovedType DEF DeleteNote
    <3>2. SharedTyped
      BY <2>27, <3>1 DEF DeleteNote, SharedTyped, TypeInv, TypeOK
    <3>3. QED
      BY <2>27, <3>2, FinishStep DEF DeleteNote
  <2>28. QED
    BY <1>4, <2>1, <2>2, <2>3, <2>4, <2>5, <2>6, <2>7, <2>8, <2>9, <2>10, <2>11, <2>12,
       <2>13, <2>14, <2>15, <2>16, <2>17, <2>18, <2>19, <2>20, <2>21, <2>22, <2>23, <2>24,
       <2>25, <2>26, <2>27 DEF Step
<1>5. QED
  BY <1>1, <1>2, <1>3, <1>4 DEF Next

\* The store's state is always well formed, for every workload, thread count,
\* cap and failure budget: in particular neither the cache nor private_memories
\* ever holds an entry that no operation produced, and a tombstone is never
\* ahead of the removal epoch.
THEOREM TypeCorrect == Spec => []TypeOK
<1>1. TypeInv => TypeOK
  BY DEF TypeInv
<1>2. QED
  BY <1>1, InitType, TypeStep, PTL DEF Spec

-----------------------------------------------------------------------------
(* No acknowledged write is lost while nothing fails, nobody deletes and no *)
(* maintenance pass trims the cache.  Control says which code those         *)
(* workloads never reach.  NoLostKey alone is not inductive: the clean-up   *)
(* of an orphaned row deletes by key, so one needs that a key with an       *)
(* acknowledged row is cached whenever some thread is on its way to that    *)
(* clean-up.                                                                *)

QuietWorkload == Ops \intersect {"delete", "pass"} = {} /\ MaxFail = 0

QuietPcs == {"idle", "snapshot", "loadAll", "merge", "ensure", "loadOne", "fill",
             "act", "embed", "persist", "drop", "promote"}
Control == \A t \in Threads :
    fail[t] = 0 /\ op[t] \notin {"delete", "pass"} /\ pc[t] \in QuietPcs

Persisting(t) == pc[t] \in {"embed", "persist", "drop"}

AckedIsCached == \A k \in acked : cache[k] = Absent =>
    \A t \in Threads : key[t] = k => ~Persisting(t)

HasEntry == \A t \in Threads : Persisting(t) => new[t] # Absent

QuietInv == TypeInv /\ Control /\ NoLostKey /\ AckedIsCached /\ HasEntry

LEMMA QuietInit == QuietWorkload /\ Init => QuietInv
<1> SUFFICES ASSUME QuietWorkload, Init PROVE QuietInv
  OBVIOUS
<1>1. Control
  BY DEF Init, Control, QuietPcs
<1>2. NoLostKey /\ AckedIsCached
  BY DEF Init, NoLostKey, AckedIsCached
<1>3. HasEntry
  BY DEF Init, HasEntry, Persisting
<1>4. QED
  BY <1>1, <1>2, <1>3, InitType DEF QuietInv

\* The other threads are untouched and t is at l or idle.
Moves(t) ==
    /\ \A u \in Threads \ {t} : /\ pc'[u] = pc[u] /\ op'[u] = op[u] /\ key'[u] = key[u]
                                 /\ fail'[u] = fail[u] /\ new'[u] = new[u]
    /\ fail'[t] = 0 /\ op'[t] \notin {"delete", "pass"} /\ pc'[t] \in QuietPcs

\* A step that uncaches nothing, deletes nothing and acknowledges nothing is
\* safe if the thread starts persisting only a key it has just cached.
LEMMA MoveStep ==
    ASSUME QuietInv, TypeInv', NEW t \in Threads, Moves(t), acked' = acked,
           \A k \in Keys : cache'[k] = Absent => cache[k] = Absent,
           \A k \in Keys : durable'[k] = Absent => durable[k] = Absent,
           Persisting(t)' =>
              /\ new'[t] # Absent
              /\ (Persisting(t) /\ key'[t] = key[t]) \/ cache'[key'[t]] # Absent
    PROVE  QuietInv'
<1>1. Control'
  BY DEF Moves, QuietInv, Control
<1>2. NoLostKey'
  BY DEF QuietInv, NoLostKey, Present
<1>3. HasEntry'
  BY DEF Moves, QuietInv, HasEntry, Persisting
<1>4. AckedIsCached'
  <2> SUFFICES ASSUME NEW k \in acked', cache'[k] = Absent,
                      NEW u \in Threads, key'[u] = k, Persisting(u)'
               PROVE  FALSE
    BY DEF AckedIsCached
  <2>1. k \in acked /\ k \in Keys /\ cache[k] = Absent
    BY DEF QuietInv, TypeInv, TypeOK
  <2>2. CASE u = t
    BY <2>1, <2>2 DEF QuietInv, AckedIsCached
  <2>3. CASE u # t
    BY <2>1, <2>3 DEF QuietInv, AckedIsCached, Moves, Persisting
  <2>4. QED
    BY <2>2, <2>3
<1>5. QED
  BY <1>1, <1>2, <1>3, <1>4 DEF QuietInv

LEMMA FinishMoves ==
    ASSUME QuietInv, NEW t \in Threads, Finish(t)
    PROVE  Moves(t) /\ ~Persisting(t)'
BY DEF QuietInv, Control, TypeInv, TypeOK, Finish, Goto, Moves, Persisting, QuietPcs

LEMMA ContinueMoves ==
    ASSUME QuietInv, NEW t \in Threads, NEW l \in QuietPcs, Continue(t, l)
    PROVE  Moves(t) /\ pc'[t] = l /\ key'[t] = key[t] /\ new'[t] = new[t]
BY DEF QuietInv, Control, TypeInv, TypeOK, Continue, Goto, Moves

LEMMA HydratedMoves ==
    ASSUME QuietInv, NEW t \in Threads, NEW STATE e, Hydrated(t, e)
    PROVE  Moves(t) /\ ~Persisting(t)'
<1>1. CASE Finish(t)
  BY <1>1, FinishMoves
<1>2. CASE Goto(t, "act") /\ UNCHANGED <<op, key, snap, seen, new, pre, fail>>
  BY <1>2 DEF QuietInv, Control, TypeInv, TypeOK, Goto, Moves, Persisting, QuietPcs
<1>3. QED
  BY <1>1, <1>2 DEF Hydrated

LEMMA AssignMoves ==
    ASSUME QuietInv, NEW t \in Threads, NEW STATE c, c \in [Keys -> Nat], NEW STATE e,
           NEW l \in {"embed", "persist"}, Assign(t, c, e, l)
    PROVE  /\ Moves(t) /\ key'[t] = key[t] /\ key[t] \in Keys
           /\ new'[t] # Absent /\ cache'[key[t]] # Absent
           /\ \A k \in Keys : cache'[k] = Absent => c[k] = Absent
<1>1. key[t] \in Keys /\ ver[key[t]] \in Nat
  BY DEF QuietInv, TypeInv, TypeOK
<1>2. /\ new'[t] # Absent /\ cache'[key[t]] # Absent
      /\ \A k \in Keys : cache'[k] = Absent => c[k] = Absent
  BY <1>1 DEF Assign, Absent, QuietInv, TypeInv, TypeOK
<1>3. Moves(t) /\ key'[t] = key[t]
  BY DEF Assign, Moves, Goto, QuietInv, Control, TypeInv, TypeOK, QuietPcs
<1>4. QED
  BY <1>1, <1>2, <1>3

LEMMA QuietStep == QuietWorkload /\ QuietInv /\ [Next]_vars => QuietInv'
<1> SUFFICES ASSUME QuietWorkload, QuietInv, [Next]_vars PROVE QuietInv'
  OBVIOUS
<1>0. TypeInv'
  BY TypeStep DEF QuietInv
<1>1. CASE UNCHANGED vars
  BY <1>0, <1>1 DEF vars, shared, locals, QuietInv, Control, NoLostKey, Present,
     AckedIsCached, HasEntry, Persisting
<1>2. CASE Crash
  <2>1. Control' /\ \A t \in Threads : ~Persisting(t)'
    BY <1>2 DEF Crash, Control, Persisting, QuietPcs
  <2>2. NoLostKey'
    BY <1>2 DEF Crash, QuietInv, NoLostKey, Present
  <2>3. QED
    BY <1>0, <2>1, <2>2 DEF QuietInv, AckedIsCached, HasEntry
<1>3. CASE Done
  BY <1>1, <1>3 DEF Done
<1>4. ASSUME NEW t \in Threads, Step(t) PROVE QuietInv'
  <2>0. /\ key[t] \in Keys /\ cache \in [Keys -> Nat] /\ durable \in [Keys -> Nat]
        /\ seen[t] \in [Keys -> Nat] /\ ver \in [Keys -> Nat]
        /\ fail[t] = 0 /\ op[t] \notin {"delete", "pass"} /\ pc[t] \in QuietPcs
    BY DEF QuietInv, TypeInv, TypeOK, Control
  <2> USE <1>0
  <2>1. ~FailOut(t) /\ ~CanFail(t) /\ \A l : ~FailTo(t, l)
    BY <2>0 DEF FailOut, FailTo, CanFail
  <2>2. CASE Begin(t)
    <3>1. PICK o \in Ops \ {"crash"} : op' = [op EXCEPT ![t] = o] /\ Goto(t, EntryPoint(o))
      BY <2>2 DEF Begin
    <3>2. o \notin {"delete", "pass"}
      BY DEF QuietWorkload
    <3>3. EntryPoint(o) \in QuietPcs \ {"embed", "persist", "drop"}
      BY <3>2 DEF EntryPoint, QuietPcs
    <3>4. /\ pc'[t] \notin {"embed", "persist", "drop"} /\ pc'[t] \in QuietPcs
          /\ \A u \in Threads \ {t} : pc'[u] = pc[u]
      BY <3>1, <3>3 DEF Goto, QuietInv, TypeInv, TypeOK
    <3>5. Moves(t) /\ ~Persisting(t)'
      BY <2>2, <3>1, <3>2, <3>4 DEF Begin, Moves, Persisting, QuietWorkload, QuietInv, TypeInv, TypeOK
    <3>6. QED
      BY <2>2, <3>5, MoveStep DEF Begin, shared
  <2>3. CASE MergeSnapshot(t)
    <3>1. CASE MergeDone(t)
      <4>1. Moves(t) /\ ~Persisting(t)'
        BY <2>0, <3>1, FinishMoves, ContinueMoves DEF MergeDone, QuietPcs, Persisting
      <4>2. QED
        BY <2>3, <4>1, MoveStep DEF MergeSnapshot, shared
    <3>2. CASE Goto(t, "loadAll") /\ UNCHANGED <<op, key, seen, old, new, pre, fail>>
      <4>1. Moves(t) /\ ~Persisting(t)'
        BY <2>0, <3>2 DEF Goto, Moves, Persisting, QuietPcs, QuietInv, TypeInv, TypeOK
      <4>2. QED
        BY <2>3, <4>1, MoveStep DEF MergeSnapshot, shared
    <3>3. QED
      BY <2>3, <3>1, <3>2 DEF MergeSnapshot
  <2>4. CASE LoadAll(t)
    <3>1. Goto(t, "merge") /\ UNCHANGED <<op, key, new, fail>>
      BY <2>1, <2>4 DEF LoadAll
    <3>2. Moves(t) /\ ~Persisting(t)'
      BY <2>0, <3>1 DEF Goto, Moves, Persisting, QuietPcs, QuietInv, TypeInv, TypeOK
    <3>3. QED
      BY <2>4, <3>2, MoveStep DEF LoadAll, shared
  <2>5. CASE Merge(t)
    <3>1. PICK S \in SUBSET Mergeable(t) :
            cache' = [k \in Keys |-> IF k \in S THEN seen[t][k] ELSE cache[k]]
      BY <2>5 DEF Merge
    <3>2. \A k \in Keys : cache'[k] = Absent => cache[k] = Absent
      BY <3>1 DEF Mergeable, Present
    <3>3. Moves(t) /\ ~Persisting(t)'
      BY <2>0, <2>5, FinishMoves, ContinueMoves DEF Merge, MergeDone, QuietPcs, Persisting
    <3>4. QED
      BY <2>5, <3>2, <3>3, MoveStep DEF Merge
  <2>6. CASE Ensure(t)
    <3>1. CASE Hydrated(t, cache[key[t]])
      <4>1. Moves(t) /\ ~Persisting(t)'
        BY <3>1, HydratedMoves
      <4>2. QED
        BY <2>6, <4>1, MoveStep DEF Ensure, shared
    <3>2. CASE Goto(t, "loadOne") /\ UNCHANGED <<op, key, seen, old, new, pre, fail>>
      <4>1. Moves(t) /\ ~Persisting(t)'
        BY <2>0, <3>2 DEF Goto, Moves, Persisting, QuietPcs, QuietInv, TypeInv, TypeOK
      <4>2. QED
        BY <2>6, <4>1, MoveStep DEF Ensure, shared
    <3>3. QED
      BY <2>6, <3>1, <3>2 DEF Ensure
  <2>7. CASE LoadOne(t)
    <3>1. CASE Hydrated(t, Absent)
      <4>1. Moves(t) /\ ~Persisting(t)'
        BY <3>1, HydratedMoves
      <4>2. QED
        BY <2>7, <4>1, MoveStep DEF LoadOne, shared
    <3>2. CASE Goto(t, "fill") /\ UNCHANGED <<op, key, snap, old, new, pre, fail>>
      <4>1. Moves(t) /\ ~Persisting(t)'
        BY <2>0, <3>2 DEF Goto, Moves, Persisting, QuietPcs, QuietInv, TypeInv, TypeOK
      <4>2. QED
        BY <2>7, <4>1, MoveStep DEF LoadOne, shared
    <3>3. QED
      BY <2>1, <2>7, <3>1, <3>2 DEF LoadOne
  <2>8. CASE Fill(t)
    <3>1. \A k \in Keys : cache'[k] = Absent => cache[k] = Absent
      BY <2>0, <2>8 DEF Fill
    <3>2. Moves(t) /\ ~Persisting(t)'
      BY <2>8, HydratedMoves DEF Fill
    <3>3. QED
      BY <2>8, <3>1, <3>2, MoveStep DEF Fill
  <2>9. CASE SaveAssign(t)
    <3>1. AfterAssign \in {"embed", "persist"}
      BY DEF AfterAssign
    <3>2. Assign(t, cache, cache[key[t]], AfterAssign)
      BY <2>9 DEF SaveAssign
    <3>3. QED
      BY <2>0, <2>9, <3>1, <3>2, AssignMoves, MoveStep DEF SaveAssign
  <2>10. CASE SaveEvict(t)
    <3>1. AfterAssign \in {"embed", "persist"}
      BY DEF AfterAssign
    <3>2. PICK v \in Present(cache) :
            /\ Assign(t, [cache EXCEPT ![v] = Absent], Absent, AfterAssign)
            /\ durable' = [durable EXCEPT ![v] = Absent]
            /\ acked' = acked \ {v}
      BY <2>10 DEF SaveEvict
    <3>3. v \in Keys /\ [cache EXCEPT ![v] = Absent] \in [Keys -> Nat]
      BY <2>0 DEF Present, Absent
    <3>4. /\ Moves(t) /\ key'[t] = key[t]
          /\ new'[t] # Absent /\ cache'[key[t]] # Absent
          /\ \A k \in Keys : cache'[k] = Absent => [cache EXCEPT ![v] = Absent][k] = Absent
      <4> DEFINE c == [cache EXCEPT ![v] = Absent]
      <4>1. c \in [Keys -> Nat] /\ Assign(t, c, Absent, AfterAssign)
        BY <3>2, <3>3
      <4> HIDE DEF c
      <4>2. /\ Moves(t) /\ key'[t] = key[t]
            /\ new'[t] # Absent /\ cache'[key[t]] # Absent
            /\ \A k \in Keys : cache'[k] = Absent => c[k] = Absent
        BY <3>1, <4>1, AssignMoves
      <4>3. QED
        BY <4>2 DEF c
    <3>5. \A k \in Keys \ {v} : /\ cache'[k] = Absent => cache[k] = Absent
                                 /\ durable'[k] = durable[k]
      BY <2>0, <3>2, <3>3, <3>4
    <3>6. Control'
      BY <3>4 DEF Moves, QuietInv, Control
    <3>7. NoLostKey'
      BY <3>2, <3>5 DEF QuietInv, NoLostKey, Present
    <3>8. HasEntry'
      BY <3>4 DEF Moves, QuietInv, HasEntry, Persisting
    <3>9. AckedIsCached'
      <4> SUFFICES ASSUME NEW k \in acked', cache'[k] = Absent,
                          NEW u \in Threads, key'[u] = k, Persisting(u)'
                   PROVE  FALSE
        BY DEF AckedIsCached
      <4>1. k \in acked /\ k \in Keys \ {v} /\ cache[k] = Absent
        BY <3>2, <3>5 DEF QuietInv, TypeInv, TypeOK
      <4>2. u # t
        BY <3>4
      <4>3. QED
        BY <4>1, <4>2, <3>4 DEF QuietInv, AckedIsCached, Moves, Persisting
    <3>10. QED
      BY <3>6, <3>7, <3>8, <3>9 DEF QuietInv
  <2>11. CASE SaveEvictFails(t)
    BY <2>1, <2>11 DEF SaveEvictFails
  <2>12. CASE EmbedEntry(t)
    <3>1. Moves(t) /\ key'[t] = key[t] /\ Persisting(t)
      BY <2>0, <2>12 DEF EmbedEntry, Goto, Moves, Persisting, QuietPcs, QuietInv, TypeInv, TypeOK
    <3>2. \A k \in Keys : cache'[k] = Absent => cache[k] = Absent
      BY <2>0, <2>12 DEF EmbedEntry, Absent
    <3>3. new'[t] # Absent
      BY <2>0, <2>12, <3>1 DEF EmbedEntry, Absent, QuietInv, HasEntry, TypeInv, TypeOK
    <3>4. QED
      BY <2>12, <3>1, <3>2, <3>3, MoveStep DEF EmbedEntry
  <2>13. CASE Touch(t)
    <3>1. CASE Finish(t) /\ UNCHANGED <<cache, ver, left>>
      BY <2>13, <3>1, FinishMoves, MoveStep DEF Touch
    <3>2. CASE Assign(t, cache, cache[key[t]], "persist")
      BY <2>0, <2>13, <3>2, AssignMoves, MoveStep DEF Touch
    <3>3. QED
      BY <2>13, <3>1, <3>2 DEF Touch
  <2>14. CASE UpdateFields(t)
    <3> DEFINE e == IF cache[key[t]] # Absent THEN cache[key[t]] ELSE durable[key[t]]
    <3>1. CASE Finish(t) /\ UNCHANGED <<cache, ver, left>>
      BY <2>14, <3>1, FinishMoves, MoveStep DEF UpdateFields
    <3>2. CASE Assign(t, cache, e, "persist")
      <4>1. UNCHANGED <<durable, acked>>
        BY <2>14 DEF UpdateFields
      <4> HIDE DEF e
      <4>2. QED
        BY <2>0, <3>2, <4>1, AssignMoves, MoveStep
    <3>3. QED
      BY <2>1, <2>14, <3>1, <3>2 DEF UpdateFields
  <2>15. CASE Reinforce(t)
    <3> DEFINE e == IF cache[key[t]] # Absent THEN cache[key[t]] ELSE old[t]
    <3>1. Assign(t, cache, e, "persist") /\ UNCHANGED <<durable, acked>>
      BY <2>15 DEF Reinforce
    <3> HIDE DEF e
    <3>2. QED
      BY <2>0, <3>1, AssignMoves, MoveStep
  <2>16. CASE Promote(t)
    BY <2>0, <2>16, AssignMoves, MoveStep DEF Promote
  <2>17. CASE Persist(t)
    <3>1. durable' = [durable EXCEPT ![key[t]] = new[t]] /\ Continue(t, "drop")
      BY <2>1, <2>17 DEF Persist
    <3>2. Moves(t) /\ key'[t] = key[t] /\ new'[t] = new[t]
      BY <3>1, ContinueMoves DEF QuietPcs
    <3>3. Persisting(t) /\ new[t] # Absent
      BY <2>17 DEF Persist, Persisting, QuietInv, HasEntry
    <3>4. \A k \in Keys : durable'[k] = Absent => durable[k] = Absent
      BY <2>0, <3>1, <3>3
    <3>5. QED
      BY <2>17, <3>2, <3>3, <3>4, MoveStep DEF Persist
  <2>18. CASE DropIfConcurrentlyRemoved(t)
    <3>1. Moves(t) /\ ~Persisting(t)' /\ cache' = cache
      <4>1. CASE Finish(t)
        BY <2>18, <4>1, FinishMoves DEF DropIfConcurrentlyRemoved
      <4>2. CASE /\ op' = [op EXCEPT ![t] = "get"] /\ Goto(t, "promote")
                 /\ UNCHANGED <<key, snap, seen, old, new, pre, fail>>
        BY <2>0, <2>18, <4>2 DEF DropIfConcurrentlyRemoved, Goto, Moves, Persisting, QuietPcs,
           QuietInv, TypeInv, TypeOK
      <4>3. QED
        BY <2>18, <4>1, <4>2 DEF DropIfConcurrentlyRemoved
    <3>2. Control' /\ HasEntry'
      BY <3>1 DEF Moves, QuietInv, Control, HasEntry, Persisting
    <3>3. CASE cache[key[t]] = Absent
      <4>1. acked' = acked /\ key[t] \notin acked
        BY <2>18, <3>3 DEF DropIfConcurrentlyRemoved, QuietInv, AckedIsCached, Persisting
      <4>2. \A k \in Keys \ {key[t]} : durable'[k] = durable[k]
        BY <2>0, <2>18 DEF DropIfConcurrentlyRemoved
      <4>3. NoLostKey'
        BY <4>1, <4>2 DEF QuietInv, NoLostKey, Present
      <4>4. AckedIsCached'
        BY <3>1, <4>1 DEF QuietInv, AckedIsCached, Moves, Persisting
      <4>5. QED
        BY <3>2, <4>3, <4>4 DEF QuietInv
    <3>4. CASE cache[key[t]] # Absent
      <4>1. /\ durable' = durable
            /\ acked' = acked \/ (durable[key[t]] # Absent /\ acked' = acked \union {key[t]})
        BY <2>18, <3>4 DEF DropIfConcurrentlyRemoved
      <4>2. NoLostKey'
        BY <2>0, <4>1 DEF QuietInv, NoLostKey, Present
      <4>3. AckedIsCached'
        BY <3>1, <3>4, <4>1 DEF QuietInv, AckedIsCached, Moves, Persisting
      <4>4. QED
        BY <3>2, <4>2, <4>3 DEF QuietInv
    <3>5. QED
      BY <3>3, <3>4
  <2>19. ~(\/ PreExisting(t) \/ Trim(t) \/ Rollback(t) \/ DeletePop(t) \/ DurableDelete(t)
           \/ UndoDelete(t) \/ DeleteRelations(t) \/ UndoRelations(t) \/ Resave(t)
           \/ DeleteNote(t))
    BY <2>0 DEF PreExisting, Trim, Rollback, DeletePop, DurableDelete, UndoDelete,
       DeleteRelations, UndoRelations, Resave, DeleteNote, QuietPcs
  <2>20. QED
    BY <1>4, <2>2, <2>3, <2>4, <2>5, <2>6, <2>7, <2>8, <2>9, <2>10, <2>11, <2>12, <2>13,
       <2>14, <2>15, <2>16, <2>17, <2>18, <2>19 DEF Step
<1>5. QED
  BY <1>1, <1>2, <1>3, <1>4 DEF Next

\* However many threads save, read, update, reinforce, list and restart, a write
\* that returned with its row durable is lost to nothing but an eviction: the
\* orphan clean-up (_drop_if_concurrently_removed) never hits it.
THEOREM NoWriteLost == QuietWorkload => (Spec => []NoLostKey)
<1> SUFFICES ASSUME QuietWorkload PROVE Spec => []NoLostKey
  OBVIOUS
<1>1. Init => QuietInv
  BY QuietInit
<1>2. QuietInv /\ [Next]_vars => QuietInv'
  BY QuietStep
<1>3. QuietInv => NoLostKey
  BY DEF QuietInv
<1>4. QED
  BY <1>1, <1>2, <1>3, PTL DEF Spec

-----------------------------------------------------------------------------
(* Bounded merges, in every workload. *)

\* The bounds of a merge are those of its two numbers.
LEMMA MinOfTwo ==
    ASSUME NEW a \in Int, NEW b \in Int
    PROVE  Min({a, b}) \in {a, b} /\ Min({a, b}) <= a /\ Min({a, b}) <= b
<1>1. \E x \in {a, b} : \A y \in {a, b} : x <= y
  OBVIOUS
<1>2. Min({a, b}) \in {a, b} /\ \A y \in {a, b} : Min({a, b}) <= y
  BY <1>1 DEF Min
<1>3. QED
  BY <1>2

LEMMA MaxOfTwo ==
    ASSUME NEW a \in Int, NEW b \in Int
    PROVE  Max({a, b}) \in {a, b} /\ Max({a, b}) >= a /\ Max({a, b}) >= b
<1>1. \E x \in {a, b} : \A y \in {a, b} : x >= y
  OBVIOUS
<1>2. Max({a, b}) \in {a, b} /\ \A y \in {a, b} : Max({a, b}) >= y
  BY <1>1 DEF Max
<1>3. QED
  BY <1>2

LEMMA PresentFinite ==
    ASSUME NEW m
    PROVE  IsFiniteSet(Present(m)) /\ Cardinality(Present(m)) \in Nat
BY KeysAssumption, FS_Subset, FS_CardinalityType DEF Present

\* What a bounded merge adds fits in the room it finds when it has the lock again.
LEMMA MergeFits ==
    ASSUME TypeInv, NEW t \in Threads, Merge(t), op[t] # "pass"
    PROVE  \E S \in SUBSET Mergeable(t) :
                /\ cache' = [k \in Keys |-> IF k \in S THEN seen[t][k] ELSE cache[k]]
                /\ IsFiniteSet(S)
                /\ S = {} \/ Cardinality(S) + Cardinality(Present(cache)) <= Cap
<1>1. PICK S \in SUBSET Mergeable(t) :
         /\ cache' = [k \in Keys |-> IF k \in S THEN seen[t][k] ELSE cache[k]]
         /\ Cardinality(S) = Min({Max({Room, 0}), Cardinality(Mergeable(t))})
  BY DEF Merge
<1>2. IsFiniteSet(Mergeable(t)) /\ IsFiniteSet(S)
  BY KeysAssumption, FS_Subset DEF Mergeable, Present
<1>3. Cardinality(Mergeable(t)) \in Nat /\ Cardinality(S) \in Nat
  BY <1>2, FS_CardinalityType
<1>4. Cardinality(Present(cache)) \in Nat /\ Cap \in Nat /\ Room \in Int
  BY PresentFinite, CapAssumption DEF Room
<1>5. Max({Room, 0}) \in {Room, 0}
  <2>1. 0 \in Int
    OBVIOUS
  <2>2. QED
    BY <1>4, <2>1, MaxOfTwo, Zenon
<1>6. Cardinality(S) <= Max({Room, 0})
  <2> DEFINE m == Max({Room, 0})
  <2>1. m \in Int
    BY <1>4, <1>5
  <2>2. Cardinality(S) = Min({m, Cardinality(Mergeable(t))})
    BY <1>1
  <2> HIDE DEF m
  <2>3. Min({m, Cardinality(Mergeable(t))}) <= m
    <3>1. Cardinality(Mergeable(t)) \in Int
      BY <1>3
    <3>2. QED
      BY <2>1, <3>1, MinOfTwo, Zenon
  <2>4. QED
    BY <2>2, <2>3 DEF m
<1>7. CASE Max({Room, 0}) = 0
  <2>1. Cardinality(S) = 0
    BY <1>3, <1>6, <1>7
  <2>2. S = {}
    BY <1>2, <2>1, FS_EmptySet
  <2>3. QED
    BY <1>1, <1>2, <2>2
<1>8. CASE Max({Room, 0}) = Room
  BY <1>1, <1>2, <1>3, <1>4, <1>6, <1>8 DEF Room
<1>9. QED
  BY <1>5, <1>7, <1>8

\* Nobody but t moves t's program counter.
LEMMA OthersKeepPc ==
    ASSUME TypeInv, NEW t \in Threads, NEW u \in Threads, u # t, Step(u)
    PROVE  pc'[t] = pc[t]
<1>1. \E l : pc' = [pc EXCEPT ![u] = l]
  <2>1. ASSUME Finish(u) PROVE \E l : pc' = [pc EXCEPT ![u] = l]
    BY <2>1 DEF Finish, Goto
  <2>2. ASSUME NEW e, Hydrated(u, e) PROVE \E l : pc' = [pc EXCEPT ![u] = l]
    BY <2>1, <2>2 DEF Hydrated, Goto
  <2>3. ASSUME NEW c, NEW e, NEW l, Assign(u, c, e, l) PROVE \E m : pc' = [pc EXCEPT ![u] = m]
    BY <2>3 DEF Assign, Goto
  <2>4. ASSUME NEW l, Continue(u, l) \/ FailTo(u, l) PROVE \E m : pc' = [pc EXCEPT ![u] = m]
    BY <2>4 DEF Continue, FailTo, Goto
  <2>5. ASSUME MergeDone(u) \/ FailOut(u) PROVE \E l : pc' = [pc EXCEPT ![u] = l]
    BY <2>1, <2>4, <2>5 DEF MergeDone, FailOut
  <2>6. CASE Begin(u) \/ PreExisting(u) \/ EmbedEntry(u) \/ DeletePop(u)
    BY <2>6 DEF Begin, PreExisting, EmbedEntry, DeletePop, Goto
  <2>7. CASE MergeSnapshot(u) \/ LoadAll(u) \/ Merge(u)
    BY <2>5, <2>7 DEF MergeSnapshot, LoadAll, Merge, Goto
  <2>8. CASE Ensure(u) \/ LoadOne(u) \/ Fill(u)
    BY <2>2, <2>5, <2>8 DEF Ensure, LoadOne, Fill, Goto
  <2>9. CASE SaveAssign(u) \/ SaveEvict(u) \/ SaveEvictFails(u)
    BY <2>3, <2>5, <2>9 DEF SaveAssign, SaveEvict, SaveEvictFails
  <2>10. CASE Touch(u) \/ UpdateFields(u) \/ Reinforce(u) \/ Promote(u)
    BY <2>1, <2>3, <2>5, <2>10 DEF Touch, UpdateFields, Reinforce, Promote
  <2>11. CASE Persist(u) \/ DurableDelete(u) \/ DeleteRelations(u) \/ UndoRelations(u)
    BY <2>4, <2>11 DEF Persist, DurableDelete, DeleteRelations, UndoRelations
  <2>12. CASE Rollback(u) \/ DropIfConcurrentlyRemoved(u) \/ Trim(u) \/ UndoDelete(u)
              \/ Resave(u) \/ DeleteNote(u)
    BY <2>1, <2>12 DEF Rollback, DropIfConcurrentlyRemoved, Trim, UndoDelete, Resave,
       DeleteNote, Goto
  <2>13. QED
    BY <2>6, <2>7, <2>8, <2>9, <2>10, <2>11, <2>12 DEF Step
<1>2. QED
  BY <1>1 DEF TypeInv, TypeOK

LEMMA BoundedMergeStep ==
    ASSUME TypeInv, [Next]_vars, NEW t \in Threads, MergesNow(t), cache' # cache
    PROVE  Cardinality(Present(cache')) <= Cap
<1>1. CASE UNCHANGED vars \/ Done
  BY <1>1 DEF Done, vars, shared
<1>2. CASE Crash
  <2>1. PICK S \in SUBSET Present(durable) :
           /\ cache' = Only(durable, S)
           /\ Cardinality(S) = Min({Cap, Cardinality(Present(durable))})
    BY <1>2 DEF Crash, ColdStart, LoadAllSets
  <2>2. Present(cache') = S
    <3>1. \A k \in Keys : cache'[k] = IF k \in S THEN durable[k] ELSE Absent
      BY <2>1 DEF Only
    <3>2. \A k \in S : k \in Keys /\ durable[k] # Absent
      BY <2>1 DEF Present
    <3>3. \A k \in Keys : cache'[k] # Absent <=> k \in S
      BY <3>1, <3>2
    <3>4. QED
      BY <3>2, <3>3 DEF Present
  <2>3. QED
    <3>1. Cap \in Int /\ Cardinality(Present(durable)) \in Int
      BY PresentFinite, CapAssumption
    <3>2. Min({Cap, Cardinality(Present(durable))}) <= Cap
      BY <3>1, MinOfTwo, Zenon
    <3>3. Cardinality(Present(cache')) = Min({Cap, Cardinality(Present(durable))})
      BY <2>1, <2>2, Zenon
    <3>4. QED
      BY <3>2, <3>3, Zenon
<1>3. ASSUME NEW u \in Threads, Step(u) PROVE Cardinality(Present(cache')) <= Cap
  <2>1. u = t
    BY <1>3, OthersKeepPc DEF MergesNow
  <2>2. Merge(t)
    <3>1. pc[t] = "merge"
      BY DEF MergesNow
    <3>2. QED
      BY <1>3, <2>1, <3>1 DEF Step, Begin, MergeSnapshot, LoadAll, PreExisting, Trim, Ensure,
         LoadOne, Fill, SaveAssign, SaveEvict, SaveEvictFails, EmbedEntry, Touch, UpdateFields,
         Reinforce, Promote, Persist, Rollback, DropIfConcurrentlyRemoved, DeletePop,
         DurableDelete, UndoDelete, DeleteRelations, UndoRelations, Resave, DeleteNote
  <2>3. PICK S \in SUBSET Mergeable(t) :
           /\ cache' = [k \in Keys |-> IF k \in S THEN seen[t][k] ELSE cache[k]]
           /\ IsFiniteSet(S)
           /\ S = {} \/ Cardinality(S) + Cardinality(Present(cache)) <= Cap
    BY <2>2, MergeFits DEF MergesNow
  <2>4. cache \in [Keys -> Nat]
    BY DEF TypeInv, TypeOK
  <2>5. S # {}
    BY <2>3, <2>4
  <2>6. Present(cache') = Present(cache) \cup S /\ Present(cache) \cap S = {}
    BY <2>3 DEF Present, Mergeable
  <2>7. Cardinality(Present(cache')) = Cardinality(Present(cache)) + Cardinality(S)
    <3>1. Cardinality(Present(cache) \cap S) = 0
      BY <2>6, FS_EmptySet
    <3>2. Cardinality(S) \in Nat /\ Cardinality(Present(cache)) \in Nat
      BY <2>3, PresentFinite, FS_CardinalityType
    <3>3. Cardinality(Present(cache) \cup S)
            = Cardinality(Present(cache)) + Cardinality(S) - Cardinality(Present(cache) \cap S)
      BY <2>3, PresentFinite, FS_Union
    <3>4. QED
      BY <2>6, <3>1, <3>2, <3>3
  <2>8. Cardinality(S) \in Nat /\ Cardinality(Present(cache)) \in Nat /\ Cap \in Nat
    BY <2>3, PresentFinite, FS_CardinalityType, CapAssumption
  <2>9. QED
    BY <2>3, <2>5, <2>7, <2>8
<1>4. QED
  BY <1>1, <1>2, <1>3 DEF Next

\* A bounded merge never takes the cache past max_entries, in any workload: the
\* room that counts is the one read after the unlocked load_all, not the one that
\* let the merge begin.
THEOREM MergesStayBounded == Spec => BoundedMerge
<1>1. TypeInv /\ [Next]_vars =>
         [\A t \in Threads : MergesNow(t) /\ cache' # cache
              => Cardinality(Present(cache')) <= Cap]_vars
  BY BoundedMergeStep
<1>2. QED
  BY <1>1, InitType, TypeStep, PTL DEF Spec, BoundedMerge

-----------------------------------------------------------------------------
(* No phantom entry, in the same workloads.  NoPhantom needs two facts      *)
(* about the first eviction.  Before it (epoch 0) nothing has been deleted: *)
(* the rows a thread has loaded are still there, and a key being persisted  *)
(* is still cached.  From then on the cache is full for good, so a merge    *)
(* adds nothing, however stale the rows it loaded are; a point hydration    *)
(* may still add a row that is gone, but its caller goes on to write it.    *)

WritesKey(t, k) ==
    key[t] = k /\ pc[t] \in {"act", "embed", "persist", "rollback", "promote",
                             "undoDelete", "undoRelations", "resave"}

NothingGoneYet == epoch = 0 =>
    \A t \in Threads : /\ \A k \in Keys : seen[t][k] # Absent => durable[k] # Absent
                       /\ Persisting(t) => cache[key[t]] # Absent
FullOnceEvicted == epoch > 0 => Cardinality(Present(cache)) >= Cap

PhantomInv == QuietInv /\ NoPhantom /\ NothingGoneYet /\ FullOnceEvicted

LEMMA WritingMeans == \A k : Writing(k) <=> \E t \in Threads : WritesKey(t, k)
BY DEF Writing, WritesKey

LEMMA ColdStartBacked ==
    ASSUME NEW c, ColdStart(c), NEW k \in Keys, c[k] # Absent
    PROVE  durable[k] # Absent
BY DEF ColdStart, LoadAllSets, Only, Present, Absent

LEMMA PhantomInit == QuietWorkload /\ Init => PhantomInv
<1> SUFFICES ASSUME QuietWorkload, Init PROVE PhantomInv
  OBVIOUS
<1>1. QuietInv
  BY QuietInit
<1>2. NoPhantom
  BY ColdStartBacked DEF Init, NoPhantom, Present
<1>3. NothingGoneYet /\ FullOnceEvicted
  BY DEF Init, NothingGoneYet, FullOnceEvicted, Persisting, NoRows
<1>4. QED
  BY <1>1, <1>2, <1>3 DEF PhantomInv

LEMMA GrowingStaysFull ==
    ASSUME PhantomInv, epoch' = epoch, \A k \in Keys : cache'[k] = Absent => cache[k] = Absent
    PROVE  FullOnceEvicted'
<1>1. Present(cache) \in SUBSET Present(cache')
  BY DEF Present
<1>2. Cardinality(Present(cache)) <= Cardinality(Present(cache'))
  BY <1>1, PresentFinite, FS_Subset
<1>3. /\ Cardinality(Present(cache)) \in Nat /\ Cardinality(Present(cache')) \in Nat
      /\ Cap \in Nat
  BY PresentFinite, CapAssumption
<1>4. QED
  BY <1>2, <1>3 DEF PhantomInv, FullOnceEvicted

\* A step of t that removes no row and no entry, and leaves what it adds to the
\* cache, and what it stops writing, with a row.
LEMMA BackedStep ==
    ASSUME PhantomInv, QuietInv', NEW t \in Threads, Moves(t), epoch' = epoch,
           \A u \in Threads \ {t} : seen'[u] = seen[u],
           \A k \in Keys : cache'[k] = Absent => cache[k] = Absent,
           \A k \in Keys : durable'[k] = Absent => durable[k] = Absent,
           \A k \in Keys : seen'[t][k] # Absent => seen[t][k] # Absent \/ durable[k] # Absent,
           Persisting(t)' => (Persisting(t) /\ key'[t] = key[t]) \/ cache'[key'[t]] # Absent,
           \A k \in Keys : cache[k] = Absent /\ cache'[k] # Absent
                => durable'[k] # Absent \/ WritesKey(t, k)',
           \A k \in Keys : WritesKey(t, k) /\ cache'[k] # Absent
                => durable'[k] # Absent \/ WritesKey(t, k)'
    PROVE  PhantomInv'
<1>1. NoPhantom'
  <2> SUFFICES ASSUME NEW k \in Keys, cache'[k] # Absent, durable'[k] = Absent
               PROVE  \E u \in Threads : WritesKey(u, k)'
    BY WritingMeans DEF NoPhantom, Present, Writing, WritesKey
  <2>1. durable[k] = Absent
    OBVIOUS
  <2>2. CASE cache[k] = Absent
    BY <2>2
  <2>3. CASE cache[k] # Absent
    <3>1. PICK u \in Threads : WritesKey(u, k)
      BY <2>1, <2>3, WritingMeans DEF PhantomInv, NoPhantom, Present
    <3>2. CASE u = t
      BY <3>1, <3>2
    <3>3. CASE u # t
      BY <3>1, <3>3 DEF WritesKey, Moves
    <3>4. QED
      BY <3>2, <3>3
  <2>4. QED
    BY <2>2, <2>3
<1>2. NothingGoneYet'
  <2> SUFFICES ASSUME epoch = 0, NEW u \in Threads
               PROVE  /\ \A k \in Keys : seen'[u][k] # Absent => durable'[k] # Absent
                      /\ Persisting(u)' => cache'[key'[u]] # Absent
    BY DEF NothingGoneYet
  <2>1. \A k \in Keys : seen'[u][k] # Absent => durable'[k] # Absent
    <3>1. CASE u = t
      BY <3>1 DEF PhantomInv, NothingGoneYet
    <3>2. CASE u # t
      BY <3>2 DEF PhantomInv, NothingGoneYet
    <3>3. QED
      BY <3>1, <3>2
  <2>2. ASSUME Persisting(u)' PROVE cache'[key'[u]] # Absent
    <3>1. key[u] \in Keys
      BY DEF PhantomInv, QuietInv, TypeInv, TypeOK
    <3>2. CASE u = t
      BY <2>2, <3>1, <3>2 DEF PhantomInv, NothingGoneYet
    <3>3. CASE u # t
      BY <2>2, <3>1, <3>3 DEF PhantomInv, NothingGoneYet, Moves, Persisting
    <3>4. QED
      BY <3>2, <3>3
  <2>3. QED
    BY <2>1, <2>2
<1>3. FullOnceEvicted'
  BY GrowingStaysFull
<1>4. QED
  BY <1>1, <1>2, <1>3 DEF PhantomInv

\* The thread's loaded rows are forgotten when its operation ends.
LEMMA FinishForgets ==
    ASSUME TypeInv, NEW t \in Threads, Finish(t)
    PROVE  /\ \A u \in Threads \ {t} : seen'[u] = seen[u]
           /\ \A k \in Keys : seen'[t][k] = Absent
           /\ pc'[t] = "idle"
BY DEF Finish, Goto, TypeInv, TypeOK, NoRows

LEMMA HydratedTo ==
    ASSUME TypeInv, NEW t \in Threads, NEW STATE e, Hydrated(t, e)
    PROVE  /\ \A u \in Threads \ {t} : seen'[u] = seen[u]
           /\ \A k \in Keys : seen'[t][k] # Absent => seen[t][k] # Absent
           /\ e # Absent => pc'[t] = "act" /\ key'[t] = key[t]
<1>1. CASE e = Absent /\ ~IsSave(t)
  BY <1>1, FinishForgets DEF Hydrated
<1>2. CASE ~(e = Absent /\ ~IsSave(t))
  BY <1>2 DEF Hydrated, Goto, TypeInv, TypeOK
<1>3. QED
  BY <1>1, <1>2

\* An assignment caches the thread's key and leaves the thread writing it.
LEMMA AssignBacked ==
    ASSUME PhantomInv, QuietInv', NEW t \in Threads, NEW STATE e, NEW l \in {"embed", "persist"},
           Assign(t, cache, e, l), UNCHANGED <<durable, epoch>>
    PROVE  PhantomInv'
<1>1. QuietInv /\ cache \in [Keys -> Nat] /\ key[t] \in Keys /\ ver[key[t]] \in Nat
  BY DEF PhantomInv, QuietInv, TypeInv, TypeOK
<1>2. /\ Moves(t) /\ key'[t] = key[t] /\ cache'[key[t]] # Absent
      /\ \A k \in Keys : cache'[k] = Absent => cache[k] = Absent
  BY <1>1, AssignMoves
<1>3. /\ \A k \in Keys : k # key[t] => cache'[k] = cache[k]
      /\ seen' = seen /\ pc'[t] = l
  BY <1>1 DEF Assign, Goto, PhantomInv, QuietInv, TypeInv, TypeOK
<1>4. WritesKey(t, key[t])'
  BY <1>2, <1>3 DEF WritesKey
<1>5. \A k \in Keys : WritesKey(t, k) => k = key[t]
  BY DEF WritesKey
<1>6. QED
  BY <1>1, <1>2, <1>3, <1>4, <1>5, BackedStep

LEMMA MergeAddsBacked ==
    ASSUME PhantomInv, NEW t \in Threads, Merge(t),
           NEW k \in Keys, cache[k] = Absent, cache'[k] # Absent
    PROVE  durable[k] # Absent
<1>1. TypeInv /\ op[t] # "pass"
  BY DEF PhantomInv, QuietInv, Control
<1>2. PICK S \in SUBSET Mergeable(t) :
         /\ cache' = [j \in Keys |-> IF j \in S THEN seen[t][j] ELSE cache[j]]
         /\ IsFiniteSet(S)
         /\ S = {} \/ Cardinality(S) + Cardinality(Present(cache)) <= Cap
  BY <1>1, MergeFits
<1>3. k \in S /\ seen[t][k] # Absent
  BY <1>2
<1>4. Cardinality(S) \in Nat \ {0} /\ Cardinality(Present(cache)) \in Nat /\ Cap \in Nat
  <2>1. Cardinality(S) \in Nat /\ Cardinality(S) # 0
    BY <1>2, <1>3, FS_CardinalityType, FS_EmptySet
  <2>2. QED
    BY <2>1, PresentFinite, CapAssumption
<1>5. epoch = 0
  <2>1. Cardinality(Present(cache)) < Cap
    BY <1>2, <1>3, <1>4
  <2>2. QED
    BY <1>1, <1>4, <2>1 DEF PhantomInv, FullOnceEvicted, TypeInv, TypeOK
<1>6. QED
  BY <1>3, <1>5 DEF PhantomInv, NothingGoneYet

\* An eviction swaps one key for another: the cache stays full.
LEMMA EvictBacked ==
    ASSUME PhantomInv, QuietInv', NEW t \in Threads, SaveEvict(t)
    PROVE  PhantomInv'
<1>1. /\ QuietInv /\ cache \in [Keys -> Nat] /\ durable \in [Keys -> Nat]
      /\ key[t] \in Keys /\ ver[key[t]] \in Nat /\ epoch \in Nat
  BY DEF PhantomInv, QuietInv, TypeInv, TypeOK
<1>2. PICK v \in Present(cache) :
        /\ Assign(t, [cache EXCEPT ![v] = Absent], Absent, AfterAssign)
        /\ durable' = [durable EXCEPT ![v] = Absent]
        /\ NoteRemoved(v)
  BY DEF SaveEvict
<1>3. v \in Keys /\ cache[v] # Absent /\ cache[key[t]] = Absent /\ v # key[t]
      /\ Cardinality(Present(cache)) >= Cap
  BY DEF SaveEvict, MustEvict, Present
<1>4. epoch' = epoch + 1
  BY <1>2 DEF NoteRemoved
<1>5. /\ cache'[key[t]] # Absent /\ cache'[v] = Absent
      /\ \A k \in Keys : k # v /\ k # key[t] => cache'[k] = cache[k]
  BY <1>1, <1>2, <1>3 DEF Assign, Absent
<1>6. AfterAssign \in {"embed", "persist"}
  BY DEF AfterAssign
<1>7. pc'[t] = AfterAssign /\ key' = key /\ \A u \in Threads \ {t} : pc'[u] = pc[u]
  BY <1>2 DEF Assign, Goto, PhantomInv, QuietInv, TypeInv, TypeOK
<1>8. NoPhantom'
  <2> SUFFICES ASSUME NEW k \in Keys, cache'[k] # Absent, durable'[k] = Absent
               PROVE  \E u \in Threads : WritesKey(u, k)'
    BY DEF NoPhantom, Present, Writing, WritesKey
  <2>1. CASE k = key[t]
    BY <1>6, <1>7, <2>1 DEF WritesKey
  <2>2. CASE k # key[t]
    <3>1. k # v /\ cache[k] # Absent /\ durable[k] = Absent
      BY <1>1, <1>2, <1>5, <2>2
    <3>2. PICK u \in Threads : WritesKey(u, k)
      BY <3>1, WritingMeans DEF PhantomInv, NoPhantom, Present
    <3>3. u # t
      BY <2>2, <3>2 DEF WritesKey
    <3>4. QED
      BY <1>7, <3>2, <3>3 DEF WritesKey
  <2>3. QED
    BY <2>1, <2>2
<1>9. NothingGoneYet'
  BY <1>1, <1>4 DEF NothingGoneYet
<1>10. FullOnceEvicted'
  <2> DEFINE rest == Present(cache) \ {v}
  <2>1. Present(cache') = rest \cup {key[t]}
    BY <1>1, <1>3, <1>5 DEF Present
  <2>2. IsFiniteSet(rest) /\ Cardinality(rest) = Cardinality(Present(cache)) - 1
    BY PresentFinite, FS_RemoveElement
  <2>3. key[t] \notin rest
    BY <1>3 DEF Present
  <2> HIDE DEF rest
  <2>4. Cardinality(rest \cup {key[t]}) = Cardinality(rest) + 1
    BY <2>2, <2>3, FS_AddElement
  <2>5. Cardinality(Present(cache)) \in Nat
    BY PresentFinite
  <2>6. Cardinality(Present(cache')) = Cardinality(Present(cache))
    BY <2>1, <2>2, <2>4, <2>5
  <2>7. QED
    BY <1>3, <2>6 DEF FullOnceEvicted
<1>11. QED
  BY <1>8, <1>9, <1>10 DEF PhantomInv

\* The orphan clean-up deletes the row of a key that is not cached.
LEMMA DropBacked ==
    ASSUME PhantomInv, QuietInv', NEW t \in Threads, DropIfConcurrentlyRemoved(t)
    PROVE  PhantomInv'
<1>1. /\ QuietInv /\ durable \in [Keys -> Nat] /\ key[t] \in Keys /\ epoch \in Nat
      /\ pc[t] = "drop" /\ cache' = cache /\ epoch' = epoch
  BY DEF PhantomInv, QuietInv, TypeInv, TypeOK, DropIfConcurrentlyRemoved
<1>2. /\ \A u \in Threads \ {t} : pc'[u] = pc[u] /\ key'[u] = key[u] /\ seen'[u] = seen[u]
      /\ \A k \in Keys : seen'[t][k] # Absent => seen[t][k] # Absent
      /\ pc'[t] \in {"idle", "promote"}
  BY DEF DropIfConcurrentlyRemoved, Finish, Goto, NoRows, PhantomInv, QuietInv, TypeInv, TypeOK
<1>3. \A k \in Keys : durable'[k] = Absent /\ durable[k] # Absent
         => k = key[t] /\ cache[k] = Absent
  BY <1>1 DEF DropIfConcurrentlyRemoved
<1>4. NoPhantom'
  <2> SUFFICES ASSUME NEW k \in Keys, cache[k] # Absent, durable'[k] = Absent
               PROVE  \E u \in Threads : WritesKey(u, k)'
    BY <1>1 DEF NoPhantom, Present, Writing, WritesKey
  <2>1. durable[k] = Absent
    BY <1>3
  <2>2. PICK u \in Threads : WritesKey(u, k)
    BY <2>1, WritingMeans DEF PhantomInv, NoPhantom, Present
  <2>3. u # t
    BY <1>1, <2>2 DEF WritesKey
  <2>4. QED
    BY <1>2, <2>2, <2>3 DEF WritesKey
<1>5. NothingGoneYet'
  <2> SUFFICES ASSUME epoch = 0, NEW u \in Threads
               PROVE  /\ \A k \in Keys : seen'[u][k] # Absent => durable'[k] # Absent
                      /\ Persisting(u)' => cache'[key'[u]] # Absent
    BY <1>1 DEF NothingGoneYet
  <2>1. cache[key[t]] # Absent
    BY <1>1 DEF PhantomInv, NothingGoneYet, Persisting
  <2>2. \A k \in Keys : durable'[k] = Absent => durable[k] = Absent
    BY <1>3, <2>1
  <2>3. CASE u = t
    BY <1>2, <2>2, <2>3 DEF PhantomInv, NothingGoneYet, Persisting
  <2>4. CASE u # t
    BY <1>1, <1>2, <2>2, <2>4 DEF PhantomInv, NothingGoneYet, Persisting
  <2>5. QED
    BY <2>3, <2>4
<1>6. FullOnceEvicted'
  BY <1>1, GrowingStaysFull
<1>7. QED
  BY <1>4, <1>5, <1>6 DEF PhantomInv

\* A step of t that touches neither the cache nor the database, and ends no write.
LEMMA UntouchedStep ==
    ASSUME PhantomInv, QuietInv', NEW t \in Threads, Moves(t), UNCHANGED <<cache, durable, epoch>>,
           \A u \in Threads \ {t} : seen'[u] = seen[u],
           \A k \in Keys : seen'[t][k] # Absent => seen[t][k] # Absent \/ durable[k] # Absent,
           ~Persisting(t)',
           \A k \in Keys : WritesKey(t, k) => cache[k] = Absent
    PROVE  PhantomInv'
BY BackedStep

LEMMA PhantomStep == QuietWorkload /\ PhantomInv /\ [Next]_vars => PhantomInv'
<1> SUFFICES ASSUME QuietWorkload, PhantomInv, [Next]_vars PROVE PhantomInv'
  OBVIOUS
<1>0. QuietInv' /\ QuietInv /\ TypeInv
  BY QuietStep DEF PhantomInv, QuietInv
<1>1. CASE UNCHANGED vars \/ Done
  BY <1>0, <1>1 DEF Done, vars, shared, locals, PhantomInv, NoPhantom, Present, Writing,
     NothingGoneYet, Persisting, FullOnceEvicted
<1>2. CASE Crash
  <2>1. NoPhantom'
    <3>1. durable' = durable /\ ColdStart(cache')
      BY <1>2 DEF Crash
    <3>2. \A k \in Keys : cache'[k] # Absent => durable[k] # Absent
      BY <3>1, ColdStartBacked
    <3>3. QED
      BY <3>1, <3>2 DEF NoPhantom, Present
  <2>2. NothingGoneYet' /\ FullOnceEvicted'
    BY <1>2 DEF Crash, NothingGoneYet, FullOnceEvicted, Persisting, NoRows
  <2>3. QED
    BY <1>0, <2>1, <2>2 DEF PhantomInv
<1>3. ASSUME NEW t \in Threads, Step(t) PROVE PhantomInv'
  <2>0. /\ key[t] \in Keys /\ cache \in [Keys -> Nat] /\ durable \in [Keys -> Nat]
        /\ seen \in [Threads -> [Keys -> Nat]] /\ ver \in [Keys -> Nat]
        /\ fail[t] = 0 /\ op[t] \notin {"delete", "pass"} /\ pc[t] \in QuietPcs
    BY <1>0 DEF QuietInv, TypeInv, TypeOK, Control
  <2> USE <1>0
  <2>1. ~FailOut(t) /\ ~CanFail(t) /\ \A l : ~FailTo(t, l)
    BY <2>0 DEF FailOut, FailTo, CanFail
  <2>2. CASE Begin(t)
    <3>1. PICK o \in Ops \ {"crash"} : op' = [op EXCEPT ![t] = o] /\ Goto(t, EntryPoint(o))
      BY <2>2 DEF Begin
    <3>2. o \notin {"delete", "pass"}
      BY DEF QuietWorkload
    <3>3. EntryPoint(o) \in QuietPcs \ {"embed", "persist", "drop"}
      BY <3>2 DEF EntryPoint, QuietPcs
    <3>4. /\ pc'[t] \notin {"embed", "persist", "drop"} /\ pc'[t] \in QuietPcs
          /\ \A u \in Threads \ {t} : pc'[u] = pc[u]
      BY <3>1, <3>3 DEF Goto, TypeInv, TypeOK
    <3>5. Moves(t) /\ ~Persisting(t)'
      BY <2>2, <3>1, <3>2, <3>4 DEF Begin, Moves, Persisting, QuietWorkload, TypeInv, TypeOK
    <3>6. UNCHANGED <<cache, durable, epoch, seen>> /\ \A k \in Keys : ~WritesKey(t, k)
      BY <2>2 DEF Begin, shared, WritesKey
    <3>7. QED
      BY <3>5, <3>6, UntouchedStep
  <2>3. CASE MergeSnapshot(t)
    <3>1. UNCHANGED <<cache, durable, epoch>> /\ \A k \in Keys : ~WritesKey(t, k)
      BY <2>3 DEF MergeSnapshot, shared, WritesKey
    <3>2. CASE MergeDone(t)
      <4>1. Moves(t) /\ ~Persisting(t)'
        BY <2>0, <3>2, FinishMoves, ContinueMoves DEF MergeDone, QuietPcs, Persisting
      <4>2. /\ \A u \in Threads \ {t} : seen'[u] = seen[u]
            /\ \A k \in Keys : seen'[t][k] # Absent => seen[t][k] # Absent
        BY <3>2, FinishForgets DEF MergeDone, Continue
      <4>3. QED
        BY <3>1, <4>1, <4>2, UntouchedStep
    <3>3. CASE Goto(t, "loadAll") /\ UNCHANGED <<op, key, seen, old, new, pre, fail>>
      <4>1. Moves(t) /\ ~Persisting(t)'
        BY <2>0, <3>3 DEF Goto, Moves, Persisting, QuietPcs, TypeInv, TypeOK
      <4>2. QED
        BY <3>1, <3>3, <4>1, UntouchedStep
    <3>4. QED
      BY <2>3, <3>2, <3>3 DEF MergeSnapshot
  <2>4. CASE LoadAll(t)
    <3>1. Goto(t, "merge") /\ UNCHANGED <<op, key, new, fail>>
      BY <2>1, <2>4 DEF LoadAll
    <3>2. Moves(t) /\ ~Persisting(t)'
      BY <2>0, <3>1 DEF Goto, Moves, Persisting, QuietPcs, TypeInv, TypeOK
    <3>3. UNCHANGED <<cache, durable, epoch>> /\ \A k \in Keys : ~WritesKey(t, k)
      BY <2>4 DEF LoadAll, shared, WritesKey
    <3>4. PICK S : seen' = [seen EXCEPT ![t] = Only(durable, S)]
      BY <2>1, <2>4 DEF LoadAll
    <3>5. /\ \A u \in Threads \ {t} : seen'[u] = seen[u]
          /\ \A k \in Keys : seen'[t][k] # Absent => durable[k] # Absent
      BY <2>0, <3>4 DEF Only
    <3>6. QED
      BY <3>2, <3>3, <3>5, UntouchedStep
  <2>5. CASE Merge(t)
    <3>1. PICK S \in SUBSET Mergeable(t) :
            cache' = [k \in Keys |-> IF k \in S THEN seen[t][k] ELSE cache[k]]
      BY <2>5 DEF Merge
    <3>2. \A k \in Keys : cache'[k] = Absent => cache[k] = Absent
      BY <3>1 DEF Mergeable, Present
    <3>3. Moves(t) /\ ~Persisting(t)'
      BY <2>0, <2>5, FinishMoves, ContinueMoves DEF Merge, MergeDone, QuietPcs, Persisting
    <3>4. /\ \A u \in Threads \ {t} : seen'[u] = seen[u]
          /\ \A k \in Keys : seen'[t][k] # Absent => seen[t][k] # Absent
      BY <2>5, FinishForgets DEF Merge, MergeDone, Continue
    <3>5. UNCHANGED <<durable, epoch>> /\ \A k \in Keys : ~WritesKey(t, k)
      BY <2>5 DEF Merge, WritesKey
    <3>6. \A k \in Keys : cache[k] = Absent /\ cache'[k] # Absent => durable'[k] # Absent
      BY <2>5, <3>5, MergeAddsBacked
    <3>7. QED
      BY <3>2, <3>3, <3>4, <3>5, <3>6, BackedStep
  <2>6. CASE Ensure(t)
    <3>1. UNCHANGED <<cache, durable, epoch>> /\ \A k \in Keys : ~WritesKey(t, k)
      BY <2>6 DEF Ensure, shared, WritesKey
    <3>2. CASE Hydrated(t, cache[key[t]])
      BY <3>1, <3>2, HydratedMoves, HydratedTo, UntouchedStep
    <3>3. CASE Goto(t, "loadOne") /\ UNCHANGED <<op, key, seen, old, new, pre, fail>>
      <4>1. Moves(t) /\ ~Persisting(t)'
        BY <2>0, <3>3 DEF Goto, Moves, Persisting, QuietPcs, TypeInv, TypeOK
      <4>2. QED
        BY <3>1, <3>3, <4>1, UntouchedStep
    <3>4. QED
      BY <2>6, <3>2, <3>3 DEF Ensure
  <2>7. CASE LoadOne(t)
    <3>1. UNCHANGED <<cache, durable, epoch>> /\ \A k \in Keys : ~WritesKey(t, k)
      BY <2>7 DEF LoadOne, shared, WritesKey
    <3>2. CASE Hydrated(t, Absent)
      BY <3>1, <3>2, HydratedMoves, HydratedTo, UntouchedStep
    <3>3. CASE /\ seen' = [seen EXCEPT ![t] = Only(durable, {key[t]})] /\ Goto(t, "fill")
               /\ UNCHANGED <<op, key, snap, old, new, pre, fail>>
      <4>1. Moves(t) /\ ~Persisting(t)'
        BY <2>0, <3>3 DEF Goto, Moves, Persisting, QuietPcs, TypeInv, TypeOK
      <4>2. /\ \A u \in Threads \ {t} : seen'[u] = seen[u]
            /\ \A k \in Keys : seen'[t][k] # Absent => durable[k] # Absent
        BY <2>0, <3>3 DEF Only
      <4>3. QED
        BY <3>1, <4>1, <4>2, UntouchedStep
    <3>4. QED
      BY <2>1, <2>7, <3>2, <3>3 DEF LoadOne
  <2>8. CASE Fill(t)
    <3>1. PICK e : Hydrated(t, e) /\ (cache' = cache \/ (cache' = [cache EXCEPT ![key[t]] = e]
                                                           /\ cache[key[t]] = Absent))
      BY <2>8 DEF Fill
    <3>2. UNCHANGED <<durable, epoch>> /\ \A k \in Keys : ~WritesKey(t, k)
      BY <2>8 DEF Fill, WritesKey
    <3>3. Moves(t) /\ ~Persisting(t)'
      BY <3>1, HydratedMoves
    <3>4. /\ \A u \in Threads \ {t} : seen'[u] = seen[u]
          /\ \A k \in Keys : seen'[t][k] # Absent => seen[t][k] # Absent
          /\ e # Absent => pc'[t] = "act" /\ key'[t] = key[t]
      BY <3>1, HydratedTo
    <3>5. \A k \in Keys : cache'[k] = Absent => cache[k] = Absent
      BY <2>0, <3>1
    <3>6. \A k \in Keys : cache[k] = Absent /\ cache'[k] # Absent => WritesKey(t, k)'
      BY <2>0, <3>1, <3>4 DEF WritesKey
    <3>7. QED
      BY <3>2, <3>3, <3>4, <3>5, <3>6, BackedStep
  <2>9. CASE SaveAssign(t)
    <3>1. AfterAssign \in {"embed", "persist"}
      BY DEF AfterAssign
    <3>2. Assign(t, cache, cache[key[t]], AfterAssign) /\ UNCHANGED <<durable, epoch>>
      BY <2>9 DEF SaveAssign
    <3>3. QED
      BY <3>1, <3>2, AssignBacked
  <2>10. CASE SaveEvict(t)
    BY <2>10, EvictBacked
  <2>11. CASE SaveEvictFails(t)
    BY <2>1, <2>11 DEF SaveEvictFails
  <2>12. CASE EmbedEntry(t)
    <3>1. Moves(t) /\ key'[t] = key[t] /\ Persisting(t) /\ pc'[t] = "persist"
      BY <2>0, <2>12 DEF EmbedEntry, Goto, Moves, Persisting, QuietPcs, TypeInv, TypeOK
    <3>2. \A k \in Keys : cache'[k] = Absent <=> cache[k] = Absent
      BY <2>0, <2>12 DEF EmbedEntry, Absent
    <3>3. UNCHANGED <<durable, epoch, seen>>
      BY <2>12 DEF EmbedEntry
    <3>4. \A k \in Keys : WritesKey(t, k) => WritesKey(t, k)'
      BY <3>1 DEF WritesKey
    <3>5. QED
      BY <3>1, <3>2, <3>3, <3>4, BackedStep
  <2>13. CASE Touch(t)
    <3>1. CASE cache[key[t]] = Absent
      <4>1. Finish(t) /\ UNCHANGED <<cache, durable, epoch>>
        BY <2>13, <3>1 DEF Touch
      <4>2. \A k \in Keys : WritesKey(t, k) => cache[k] = Absent
        BY <3>1 DEF WritesKey
      <4>3. QED
        BY <4>1, <4>2, FinishMoves, FinishForgets, UntouchedStep
    <3>2. CASE Assign(t, cache, cache[key[t]], "persist")
      BY <2>13, <3>2, AssignBacked DEF Touch
    <3>3. QED
      BY <2>13, <3>1, <3>2 DEF Touch
  <2>14. CASE UpdateFields(t)
    <3> DEFINE e == IF cache[key[t]] # Absent THEN cache[key[t]] ELSE durable[key[t]]
    <3>1. CASE e = Absent /\ Finish(t) /\ UNCHANGED <<cache, ver, left>>
      <4>1. UNCHANGED <<cache, durable, epoch>>
        BY <2>14, <3>1 DEF UpdateFields
      <4>2. \A k \in Keys : WritesKey(t, k) => cache[k] = Absent
        BY <3>1 DEF WritesKey
      <4>3. QED
        BY <3>1, <4>1, <4>2, FinishMoves, FinishForgets, UntouchedStep
    <3>2. CASE Assign(t, cache, e, "persist")
      <4>1. UNCHANGED <<durable, epoch>>
        BY <2>14 DEF UpdateFields
      <4> HIDE DEF e
      <4>2. QED
        BY <3>2, <4>1, AssignBacked
    <3>3. QED
      BY <2>1, <2>14, <3>1, <3>2 DEF UpdateFields
  <2>15. CASE Reinforce(t)
    <3> DEFINE e == IF cache[key[t]] # Absent THEN cache[key[t]] ELSE old[t]
    <3>1. Assign(t, cache, e, "persist") /\ UNCHANGED <<durable, epoch>>
      BY <2>15 DEF Reinforce
    <3> HIDE DEF e
    <3>2. QED
      BY <3>1, AssignBacked
  <2>16. CASE Promote(t)
    BY <2>16, AssignBacked DEF Promote
  <2>17. CASE Persist(t)
    <3>1. durable' = [durable EXCEPT ![key[t]] = new[t]] /\ Continue(t, "drop")
      BY <2>1, <2>17 DEF Persist
    <3>2. Moves(t) /\ key'[t] = key[t] /\ seen' = seen /\ UNCHANGED <<cache, epoch>>
      BY <2>17, <3>1, ContinueMoves DEF QuietPcs, Continue, Persist
    <3>3. Persisting(t) /\ new[t] # Absent
      BY <2>17 DEF Persist, Persisting, QuietInv, HasEntry
    <3>4. \A k \in Keys : durable'[k] = Absent => durable[k] = Absent
      BY <2>0, <3>1, <3>3
    <3>5. \A k \in Keys : WritesKey(t, k) => durable'[k] # Absent
      BY <2>0, <3>1, <3>3 DEF WritesKey
    <3>6. QED
      BY <3>2, <3>3, <3>4, <3>5, BackedStep
  <2>18. CASE DropIfConcurrentlyRemoved(t)
    BY <2>18, DropBacked
  <2>19. ~(\/ PreExisting(t) \/ Trim(t) \/ Rollback(t) \/ DeletePop(t) \/ DurableDelete(t)
           \/ UndoDelete(t) \/ DeleteRelations(t) \/ UndoRelations(t) \/ Resave(t)
           \/ DeleteNote(t))
    BY <2>0 DEF PreExisting, Trim, Rollback, DeletePop, DurableDelete, UndoDelete,
       DeleteRelations, UndoRelations, Resave, DeleteNote, QuietPcs
  <2>20. QED
    BY <1>3, <2>2, <2>3, <2>4, <2>5, <2>6, <2>7, <2>8, <2>9, <2>10, <2>11, <2>12, <2>13,
       <2>14, <2>15, <2>16, <2>17, <2>18, <2>19 DEF Step
<1>4. QED
  BY <1>1, <1>2, <1>3 DEF Next

\* However many threads save, read, update, reinforce, list and restart, and however
\* small the tombstone table, the cache never goes on serving a row that is gone: a
\* stale hydration can only bring back a key that its own thread then writes.
THEOREM NoPhantomEntry == QuietWorkload => (Spec => []NoPhantom)
<1> SUFFICES ASSUME QuietWorkload PROVE Spec => []NoPhantom
  OBVIOUS
<1>1. Init => PhantomInv
  BY PhantomInit
<1>2. PhantomInv /\ [Next]_vars => PhantomInv'
  BY PhantomStep
<1>3. PhantomInv => NoPhantom
  BY DEF PhantomInv
<1>4. QED
  BY <1>1, <1>2, <1>3, PTL DEF Spec

(***************************************************************************)
(* A caller who is alone with the store: the write-through cache           *)
(* implements AtomicStore.  What a reader of the promise sees is the       *)
(* database, except while a delete may still be undone; that the cache     *)
(* agrees with the database is the heart of the invariant, and what the    *)
(* caller knows of its key at each label carries it from step to step.     *)
(***************************************************************************)
\* One caller, and one backend failure per operation at most.
SoleCaller == (\E t : Threads = {t}) /\ MaxFail <= 1
Me == CHOOSE t : t \in Threads

WritePcs == {"embed", "persist", "rollback"}
UndoPcs == {"deleteRelations", "undoRelations", "resave"}
UnsettledPcs == WritePcs \cup {"durableDelete", "undoDelete"} \cup UndoPcs

\* Where the caller is, and what it then knows of the key it works on.
AtWrite == pc[Me] \in WritePcs =>
    /\ new[Me] = ver[key[Me]] /\ new[Me] # 0
    /\ cache[key[Me]] = new[Me] /\ durable[key[Me]] = old[Me]
AtWritten == pc[Me] \in {"drop", "promote"} =>
    new[Me] # 0 /\ cache[key[Me]] = new[Me] /\ durable[key[Me]] = new[Me]
AtDelete == pc[Me] \in {"durableDelete", "undoDelete"} =>
    cache[key[Me]] = 0 /\ durable[key[Me]] = old[Me] /\ old[Me] # 0
AtUndo == pc[Me] \in UndoPcs =>
    /\ durable[key[Me]] = 0 /\ old[Me] # 0
    /\ cache[key[Me]] = IF pc[Me] = "resave" THEN old[Me] ELSE 0
    /\ pc[Me] # "deleteRelations" => fail[Me] = 0
AtAct == pc[Me] = "act" /\ op[Me] # "update" =>
    cache[key[Me]] # 0 \/ (IsSave(Me) /\ durable[key[Me]] = 0)
AtLoad ==
    /\ pc[Me] \in {"loadOne", "fill"} => cache[key[Me]] = 0 /\ snap[Me] = epoch
    /\ pc[Me] = "fill" => seen[Me][key[Me]] = durable[key[Me]] /\ durable[key[Me]] # 0
    /\ pc[Me] = "merge" => \A k \in Keys : seen[Me][k] # 0 => seen[Me][k] = durable[k]
NothingMade == pc[Me] \notin WritePcs \cup {"drop", "promote"} => new[Me] = 0
Coherent == \A k \in Keys :
    cache[k] = 0 \/ cache[k] = durable[k] \/ (k = key[Me] /\ pc[Me] \in UnsettledPcs)
SoleInv == /\ TypeInv /\ fail[Me] <= MaxFail
           /\ AtWrite /\ AtWritten /\ AtDelete /\ AtUndo /\ AtAct /\ AtLoad /\ NothingMade
           /\ Coherent

LEMMA MeAlone == SoleCaller => Threads = {Me} /\ Me \in Threads /\ MaxFail <= 1
BY DEF SoleCaller, Me

\* The mapping for one caller.
Pending(k) == k = key[Me] /\ pc[Me] \in UndoPcs
KvOf(k) == IF Pending(k) THEN old[Me] ELSE durable[k]
UsedOf(k) == IF k = key[Me] /\ pc[Me] \in WritePcs THEN ver[k] - 1 ELSE ver[k]

LEMMA BarIs ==
    ASSUME SoleCaller, SoleInv
    PROVE  /\ kvBar = [k \in Keys |-> KvOf(k)]
           /\ usedBar = [k \in Keys |-> UsedOf(k)]
<1>1. Threads = {Me}
  BY MeAlone
<1>2. ASSUME NEW k \in Keys
      PROVE  /\ (\E t \in Threads : Unsettled(t, k)) <=> (k = key[Me] /\ pc[Me] \in UnsettledPcs)
             /\ (\E t \in Threads : Unsettled(t, k) /\ new[t] # Absent)
                  <=> (k = key[Me] /\ pc[Me] \in WritePcs)
             /\ (\E t \in Threads : Unsettled(t, k)) => (CHOOSE t \in Threads : Unsettled(t, k)) = Me
  <2>1. Unsettled(Me, k) <=> (k = key[Me] /\ pc[Me] \in UnsettledPcs)
    BY DEF Unsettled, UnsettledPcs, WritePcs, UndoPcs
  <2>2. pc[Me] \in UnsettledPcs => (new[Me] # Absent <=> pc[Me] \in WritePcs)
    BY DEF SoleInv, AtWrite, NothingMade, UnsettledPcs, WritePcs, UndoPcs, Absent
  <2>3. pc[Me] \in WritePcs => pc[Me] \in UnsettledPcs
    BY DEF UnsettledPcs
  <2> HIDE DEF Unsettled
  <2>4. QED
    BY <1>1, <2>1, <2>2, <2>3
<1>3. ASSUME NEW k \in Keys
      PROVE  (IF \E t \in Threads : Unsettled(t, k)
              THEN old[CHOOSE t \in Threads : Unsettled(t, k)] ELSE View(k)) = KvOf(k)
  <2>1. k = key[Me] /\ pc[Me] \in WritePcs \cup {"durableDelete", "undoDelete"} => old[Me] = durable[k]
    BY DEF SoleInv, AtWrite, AtDelete, WritePcs
  <2>2. ~(k = key[Me] /\ pc[Me] \in UnsettledPcs) => View(k) = durable[k]
    BY DEF SoleInv, Coherent, View, Absent
  <2>3. QED
    BY <1>2, <2>1, <2>2 DEF KvOf, Pending, UnsettledPcs
<1>4. ASSUME NEW k \in Keys
      PROVE  (IF \E t \in Threads : Unsettled(t, k) /\ new[t] # Absent
              THEN new[CHOOSE t \in Threads : Unsettled(t, k)] - 1 ELSE ver[k]) = UsedOf(k)
  <2>1. k = key[Me] /\ pc[Me] \in WritePcs => new[Me] = ver[k] /\ pc[Me] \in UnsettledPcs
    BY DEF SoleInv, AtWrite, UnsettledPcs
  <2> DEFINE c == CHOOSE t \in Threads : Unsettled(t, k)
             w == \E t \in Threads : Unsettled(t, k) /\ new[t] # Absent
  <2>2. (w <=> k = key[Me] /\ pc[Me] \in WritePcs) /\ (w => c = Me)
    BY <1>2, <2>1
  <2> HIDE DEF c, w
  <2>3. (IF w THEN new[c] - 1 ELSE ver[k]) = UsedOf(k)
    BY <2>2, <2>1 DEF UsedOf
  <2>4. QED
    BY <2>3 DEF c, w
<1>5. QED
  BY <1>3, <1>4 DEF kvBar, usedBar

LEMMA BarIsNext ==
    ASSUME SoleCaller, SoleInv'
    PROVE  /\ kvBar' = [k \in Keys |-> KvOf(k)']
           /\ usedBar' = [k \in Keys |-> UsedOf(k)']
<1>1. Threads = {Me}
  BY MeAlone
<1>2. ASSUME NEW k \in Keys
      PROVE  /\ (\E t \in Threads : Unsettled(t, k)') <=> (k = key'[Me] /\ pc'[Me] \in UnsettledPcs)
             /\ (\E t \in Threads : Unsettled(t, k)' /\ new'[t] # Absent)
                  <=> (k = key'[Me] /\ pc'[Me] \in WritePcs)
             /\ (\E t \in Threads : Unsettled(t, k)') => (CHOOSE t \in Threads : Unsettled(t, k)') = Me
  <2>1. Unsettled(Me, k)' <=> (k = key'[Me] /\ pc'[Me] \in UnsettledPcs)
    BY DEF Unsettled, UnsettledPcs, WritePcs, UndoPcs
  <2>2. pc'[Me] \in UnsettledPcs => (new'[Me] # Absent <=> pc'[Me] \in WritePcs)
    BY DEF SoleInv, AtWrite, NothingMade, UnsettledPcs, WritePcs, UndoPcs, Absent
  <2>3. pc'[Me] \in WritePcs => pc'[Me] \in UnsettledPcs
    BY DEF UnsettledPcs
  <2>4. QED
    BY <1>1, <2>1, <2>2, <2>3
<1>3. ASSUME NEW k \in Keys
      PROVE  (IF \E t \in Threads : Unsettled(t, k)'
              THEN old'[CHOOSE t \in Threads : Unsettled(t, k)'] ELSE View(k)') = KvOf(k)'
  <2>1. k = key'[Me] /\ pc'[Me] \in WritePcs \cup {"durableDelete", "undoDelete"} => old'[Me] = durable'[k]
    BY DEF SoleInv, AtWrite, AtDelete, WritePcs
  <2>2. ~(k = key'[Me] /\ pc'[Me] \in UnsettledPcs) => View(k)' = durable'[k]
    BY DEF SoleInv, Coherent, View, Absent
  <2>3. QED
    BY <1>2, <2>1, <2>2 DEF KvOf, Pending, UnsettledPcs
<1>4. ASSUME NEW k \in Keys
      PROVE  (IF \E t \in Threads : Unsettled(t, k)' /\ new'[t] # Absent
              THEN new'[CHOOSE t \in Threads : Unsettled(t, k)'] - 1 ELSE ver'[k]) = UsedOf(k)'
  <2>1. k = key'[Me] /\ pc'[Me] \in WritePcs => new'[Me] = ver'[k] /\ pc'[Me] \in UnsettledPcs
    BY DEF SoleInv, AtWrite, UnsettledPcs
  <2> DEFINE c == CHOOSE t \in Threads : Unsettled(t, k)'
             w == \E t \in Threads : Unsettled(t, k)' /\ new'[t] # Absent
  <2>2. (w <=> k = key'[Me] /\ pc'[Me] \in WritePcs) /\ (w => c = Me)
    BY <1>2, <2>1
  <2> HIDE DEF c, w
  <2>3. (IF w THEN new'[c] - 1 ELSE ver'[k]) = UsedOf(k)'
    BY <2>2, <2>1 DEF UsedOf
  <2>4. QED
    BY <2>3 DEF c, w
<1>5. QED
  BY <1>3, <1>4 DEF kvBar, usedBar

-----------------------------------------------------------------------------
(* What a step shows: nothing, a removal, or a new version.                *)

LEMMA Burned ==
    ASSUME SoleCaller, SoleInv, SoleInv',
           \A k \in Keys : KvOf(k)' = KvOf(k) /\ UsedOf(k) <= UsedOf(k)'
    PROVE  Atomic!Next
<1>1. kvBar' = kvBar /\ \A j \in Keys : usedBar[j] <= usedBar'[j]
  <2>1. kvBar = [k \in Keys |-> KvOf(k)] /\ usedBar = [k \in Keys |-> UsedOf(k)]
    BY BarIs
  <2>2. kvBar' = [k \in Keys |-> KvOf(k)'] /\ usedBar' = [k \in Keys |-> UsedOf(k)']
    BY BarIsNext
  <2>3. \A j \in Keys : usedBar[j] = UsedOf(j) /\ usedBar'[j] = UsedOf(j)'
    BY <2>1, <2>2
  <2>4. kvBar' = kvBar
    BY <2>1, <2>2
  <2>5. QED
    BY <2>3, <2>4
<1>2. QED
  BY <1>1 DEF Atomic!Next, Atomic!Burn

LEMMA Removed ==
    ASSUME SoleCaller, SoleInv, SoleInv', NEW v \in Keys, KvOf(v)' = 0,
           \A k \in Keys : (k # v => KvOf(k)' = KvOf(k)) /\ UsedOf(k) <= UsedOf(k)'
    PROVE  Atomic!Next
<1>1. kvBar' = [kvBar EXCEPT ![v] = 0] /\ \A j \in Keys : usedBar[j] <= usedBar'[j]
  <2>1. kvBar = [k \in Keys |-> KvOf(k)] /\ usedBar = [k \in Keys |-> UsedOf(k)]
    BY BarIs
  <2>2. kvBar' = [k \in Keys |-> KvOf(k)'] /\ usedBar' = [k \in Keys |-> UsedOf(k)']
    BY BarIsNext
  <2>3. \A j \in Keys : usedBar[j] = UsedOf(j) /\ usedBar'[j] = UsedOf(j)'
    BY <2>1, <2>2
  <2>4. [kvBar EXCEPT ![v] = 0] = [k \in Keys |-> IF k = v THEN 0 ELSE KvOf(k)]
    BY <2>1
  <2>5. kvBar' = [kvBar EXCEPT ![v] = 0]
    BY <2>2, <2>4
  <2>6. QED
    BY <2>3, <2>5
<1>2. QED
  BY <1>1 DEF Atomic!Next, Atomic!Remove

LEMMA PutShown ==
    ASSUME SoleCaller, SoleInv, SoleInv', NEW v \in Keys,
           UsedOf(v) < UsedOf(v)', KvOf(v)' = UsedOf(v)',
           \A k \in Keys \ {v} : KvOf(k)' = KvOf(k) /\ UsedOf(k)' = UsedOf(k)
    PROVE  Atomic!Next
<1>1. /\ usedBar[v] < usedBar'[v] /\ kvBar'[v] = usedBar'[v]
      /\ \A j \in Keys \ {v} : kvBar'[j] = kvBar[j] /\ usedBar'[j] = usedBar[j]
  <2>1. kvBar = [k \in Keys |-> KvOf(k)] /\ usedBar = [k \in Keys |-> UsedOf(k)]
    BY BarIs
  <2>2. kvBar' = [k \in Keys |-> KvOf(k)'] /\ usedBar' = [k \in Keys |-> UsedOf(k)']
    BY BarIsNext
  <2>3. \A j \in Keys : /\ usedBar[j] = UsedOf(j) /\ usedBar'[j] = UsedOf(j)'
                        /\ kvBar[j] = KvOf(j) /\ kvBar'[j] = KvOf(j)'
    BY <2>1, <2>2
  <2>4. QED
    BY <2>3
<1>2. QED
  BY <1>1 DEF Atomic!Next, Atomic!Put

\* Neither the database nor the versions change, and nothing hangs over the key.
LEMMA NothingShown ==
    ASSUME SoleCaller, SoleInv, SoleInv', durable' = durable, ver' = ver,
           pc[Me] \notin UndoPcs, pc'[Me] \notin UndoPcs \cup WritePcs
    PROVE  Atomic!Next
<1>1. \A k \in Keys : ver[k] \in Nat
  BY DEF SoleInv, TypeInv, TypeOK
<1>2. \A k \in Keys : KvOf(k)' = KvOf(k) /\ UsedOf(k) <= UsedOf(k)'
  BY <1>1 DEF KvOf, UsedOf, Pending
<1>3. QED
  BY <1>2, Burned

-----------------------------------------------------------------------------
(* The invariant, step by step.                                            *)

BusyPcs == UnsettledPcs \cup {"drop", "promote"}

LEMMA Settled ==
    ASSUME TypeInv', \A k \in Keys : cache'[k] = 0 \/ cache'[k] = durable'[k],
           pc'[Me] \notin BusyPcs, new'[Me] = 0, fail'[Me] <= MaxFail, AtAct', AtLoad'
    PROVE  SoleInv'
BY DEF SoleInv, AtWrite, AtWritten, AtDelete, AtUndo, NothingMade, Coherent, BusyPcs, UnsettledPcs,
       WritePcs, UndoPcs

LEMMA Finished ==
    ASSUME SoleCaller, SoleInv, TypeInv', Finish(Me),
           \A k \in Keys : cache'[k] = 0 \/ cache'[k] = durable'[k]
    PROVE  SoleInv' /\ pc'[Me] = "idle"
<1>1. pc'[Me] = "idle" /\ new'[Me] = 0 /\ fail'[Me] = 0
  BY MeAlone DEF SoleInv, TypeInv, TypeOK, Finish, Goto, Absent
<1>2. AtAct' /\ AtLoad' /\ "idle" \notin BusyPcs
  BY <1>1 DEF AtAct, AtLoad, BusyPcs, UnsettledPcs, WritePcs, UndoPcs
<1>3. QED
  BY <1>1, <1>2, Settled, BoundsAssumption

\* Between operations and before an assignment the cache agrees with the database.
LEMMA QuietFacts ==
    ASSUME SoleCaller, SoleInv, pc[Me] \notin BusyPcs
    PROVE  /\ new[Me] = 0 /\ key[Me] \in Keys
           /\ \A k \in Keys : cache[k] = 0 \/ cache[k] = durable[k]
BY MeAlone DEF SoleInv, TypeInv, TypeOK, NothingMade, Coherent, BusyPcs, UnsettledPcs

LEMMA HydratedSole ==
    ASSUME SoleCaller, SoleInv, TypeInv', NEW STATE e, Hydrated(Me, e), pc[Me] \notin BusyPcs,
           \A k \in Keys : cache'[k] = 0 \/ cache'[k] = durable'[k],
           e # 0 => cache'[key[Me]] # 0,
           e = 0 => durable'[key[Me]] = 0
    PROVE  SoleInv' /\ pc'[Me] \in {"idle", "act"}
<1>1. CASE e = Absent /\ ~IsSave(Me)
  BY <1>1, Finished DEF Hydrated
<1>2. CASE ~(e = Absent /\ ~IsSave(Me))
  <2>1. /\ pc'[Me] = "act" /\ key' = key /\ op' = op /\ new' = new /\ fail' = fail
    BY <1>2, MeAlone DEF Hydrated, Goto, SoleInv, TypeInv, TypeOK
  <2>2. AtAct'
    BY <1>2, <2>1 DEF AtAct, IsSave, Absent
  <2>3. AtLoad' /\ pc'[Me] \notin BusyPcs
    BY <2>1 DEF AtLoad, BusyPcs, UnsettledPcs, WritePcs, UndoPcs
  <2>4. QED
    BY <2>1, <2>2, <2>3, Settled, QuietFacts DEF SoleInv
<1>3. QED
  BY <1>1, <1>2

\* A step of the thread at one of these labels that leaves what it made.
LEMMA ContinueSole ==
    ASSUME SoleCaller, SoleInv, TypeInv', NEW l, pc' = [pc EXCEPT ![Me] = l],
           pc[Me] \notin BusyPcs, new' = new, fail' = fail,
           \A k \in Keys : cache'[k] = 0 \/ cache'[k] = durable'[k],
           l \in {"snapshot", "loadAll", "ensure", "trim", "preExisting"}
    PROVE  SoleInv' /\ pc'[Me] = l
<1>1. pc'[Me] = l
  BY MeAlone DEF SoleInv, TypeInv, TypeOK
<1>2. AtAct' /\ AtLoad' /\ pc'[Me] \notin BusyPcs
  BY <1>1 DEF AtAct, AtLoad, BusyPcs, UnsettledPcs, WritePcs, UndoPcs
<1>3. QED
  BY <1>1, <1>2, Settled, QuietFacts DEF SoleInv

LEMMA MergeDoneSole ==
    ASSUME SoleCaller, SoleInv, TypeInv', MergeDone(Me), pc[Me] \notin BusyPcs,
           \A k \in Keys : cache'[k] = 0 \/ cache'[k] = durable'[k]
    PROVE  SoleInv' /\ pc'[Me] \in {"idle", "ensure", "trim"}
<1>1. CASE Continue(Me, "ensure")
  BY <1>1, ContinueSole DEF Continue, Goto
<1>2. CASE Continue(Me, "trim")
  BY <1>2, ContinueSole DEF Continue, Goto
<1>3. CASE Finish(Me)
  BY <1>3, Finished
<1>4. QED
  BY <1>1, <1>2, <1>3 DEF MergeDone

LEMMA FailOutSole ==
    ASSUME SoleCaller, SoleInv, TypeInv', FailOut(Me),
           \A k \in Keys : cache'[k] = 0 \/ cache'[k] = durable'[k]
    PROVE  SoleInv' /\ pc'[Me] = "idle"
BY Finished DEF FailOut

LEMMA BeginSole ==
    ASSUME SoleCaller, SoleInv, TypeInv', Begin(Me)
    PROVE  SoleInv' /\ Atomic!Next
<1>1. PICK o \in Ops \ {"crash"}, k \in Keys :
         op' = [op EXCEPT ![Me] = o] /\ key' = [key EXCEPT ![Me] = k] /\ Goto(Me, EntryPoint(o))
  BY DEF Begin
<1>2. /\ pc[Me] = "idle" /\ pc'[Me] = EntryPoint(o) /\ op'[Me] = o /\ fail'[Me] = MaxFail
      /\ new' = new /\ cache' = cache /\ durable' = durable /\ ver' = ver
  BY <1>1, MeAlone DEF Begin, Goto, shared, SoleInv, TypeInv, TypeOK
<1>3. EntryPoint(o) \in {"snapshot", "preExisting", "ensure"} \/ (o = "update" /\ EntryPoint(o) = "act")
  BY DEF EntryPoint
<1>4. pc[Me] \notin BusyPcs /\ pc'[Me] \notin BusyPcs
  BY <1>2, <1>3 DEF BusyPcs, UnsettledPcs, WritePcs, UndoPcs
<1>5. AtAct' /\ AtLoad'
  BY <1>2, <1>3 DEF AtAct, AtLoad
<1>6. MaxFail <= MaxFail
  BY BoundsAssumption
<1>7. SoleInv'
  BY <1>2, <1>4, <1>5, <1>6, QuietFacts, Settled
<1>8. QED
  BY <1>2, <1>4, <1>7, NothingShown DEF BusyPcs, UnsettledPcs

LEMMA MergeSnapshotSole ==
    ASSUME SoleCaller, SoleInv, TypeInv', MergeSnapshot(Me)
    PROVE  SoleInv' /\ Atomic!Next
<1>1. pc[Me] = "snapshot" /\ pc[Me] \notin BusyPcs
  BY DEF MergeSnapshot, BusyPcs, UnsettledPcs, WritePcs, UndoPcs
<1>2. cache' = cache /\ durable' = durable /\ ver' = ver
  BY DEF MergeSnapshot, shared
<1>3. \A k \in Keys : cache'[k] = 0 \/ cache'[k] = durable'[k]
  BY <1>1, <1>2, QuietFacts
<1>4. SoleInv' /\ pc'[Me] \in {"idle", "ensure", "trim", "loadAll"}
  <2>1. CASE MergeDone(Me)
    BY <1>1, <1>3, <2>1, MergeDoneSole
  <2>2. CASE ~MergeDone(Me)
    <3>1. pc' = [pc EXCEPT ![Me] = "loadAll"] /\ new' = new /\ fail' = fail
      BY <2>2 DEF MergeSnapshot, Goto
    <3>2. QED
      BY <1>1, <1>3, <3>1, ContinueSole
  <2>3. QED
    BY <2>1, <2>2
<1>5. QED
  BY <1>1, <1>2, <1>4, NothingShown DEF UndoPcs, WritePcs

LEMMA LoadAllSole ==
    ASSUME SoleCaller, SoleInv, TypeInv', LoadAll(Me)
    PROVE  SoleInv' /\ Atomic!Next
<1>1. pc[Me] = "loadAll" /\ pc[Me] \notin BusyPcs
  BY DEF LoadAll, BusyPcs, UnsettledPcs, WritePcs, UndoPcs
<1>2. cache' = cache /\ durable' = durable /\ ver' = ver
  BY DEF LoadAll, shared
<1>3. \A k \in Keys : cache'[k] = 0 \/ cache'[k] = durable'[k]
  BY <1>1, <1>2, QuietFacts
<1>4. SoleInv' /\ pc'[Me] \in {"idle", "merge"}
  <2>1. CASE FailOut(Me)
    BY <1>3, <2>1, FailOutSole
  <2>2. ASSUME NEW S, seen' = [seen EXCEPT ![Me] = Only(durable, S)], Goto(Me, "merge"),
               new' = new, fail' = fail
        PROVE  SoleInv' /\ pc'[Me] = "merge"
    <3>1. pc'[Me] = "merge" /\ seen'[Me] = Only(durable, S)
      BY <2>2, MeAlone DEF Goto, SoleInv, TypeInv, TypeOK
    <3>2. AtAct' /\ AtLoad' /\ pc'[Me] \notin BusyPcs
      BY <1>2, <3>1 DEF AtAct, AtLoad, Only, Absent, BusyPcs, UnsettledPcs, WritePcs, UndoPcs
    <3>3. QED
      BY <1>1, <1>3, <2>2, <3>1, <3>2, Settled, QuietFacts DEF SoleInv
  <2>3. QED
    BY <2>1, <2>2 DEF LoadAll
<1>5. QED
  BY <1>1, <1>2, <1>4, NothingShown DEF UndoPcs, WritePcs

LEMMA MergeSole ==
    ASSUME SoleCaller, SoleInv, TypeInv', Merge(Me)
    PROVE  SoleInv' /\ Atomic!Next
<1>1. pc[Me] = "merge" /\ pc[Me] \notin BusyPcs
  BY DEF Merge, BusyPcs, UnsettledPcs, WritePcs, UndoPcs
<1>2. durable' = durable /\ ver' = ver /\ MergeDone(Me)
  BY DEF Merge
<1>3. PICK S \in SUBSET Mergeable(Me) :
         cache' = [k \in Keys |-> IF k \in S THEN seen[Me][k] ELSE cache[k]]
  BY DEF Merge
<1>4. \A k \in S : seen[Me][k] = durable[k]
  BY <1>1, <1>3 DEF Mergeable, Present, Absent, SoleInv, AtLoad
<1>5. \A k \in Keys : cache'[k] = 0 \/ cache'[k] = durable'[k]
  BY <1>1, <1>2, <1>3, <1>4, QuietFacts
<1>6. QED
  BY <1>1, <1>2, <1>5, MergeDoneSole, NothingShown DEF UndoPcs, WritePcs

LEMMA PassSole ==
    ASSUME SoleCaller, SoleInv, TypeInv', PreExisting(Me) \/ Trim(Me)
    PROVE  SoleInv' /\ Atomic!Next
<1>1. pc[Me] \in {"preExisting", "trim"} /\ pc[Me] \notin BusyPcs
  BY DEF PreExisting, Trim, BusyPcs, UnsettledPcs, WritePcs, UndoPcs
<1>2. durable' = durable /\ ver' = ver
  BY DEF PreExisting, Trim, shared
<1>3. \A k \in Keys : cache'[k] = 0 \/ cache'[k] = durable'[k]
  <2>1. \A k \in Keys : cache'[k] = cache[k] \/ cache'[k] = 0
    BY MeAlone DEF PreExisting, Trim, shared, Absent, SoleInv, TypeInv, TypeOK
  <2>2. QED
    BY <1>1, <1>2, <2>1, QuietFacts
<1>4. SoleInv' /\ pc'[Me] \in {"snapshot", "idle"}
  <2>1. CASE PreExisting(Me)
    BY <1>1, <1>3, <2>1, ContinueSole DEF PreExisting, Goto
  <2>2. CASE Trim(Me)
    BY <1>3, <2>2, Finished DEF Trim
  <2>3. QED
    BY <2>1, <2>2
<1>5. QED
  BY <1>1, <1>2, <1>4, NothingShown DEF UndoPcs, WritePcs

LEMMA EnsureSole ==
    ASSUME SoleCaller, SoleInv, TypeInv', Ensure(Me)
    PROVE  SoleInv' /\ Atomic!Next
<1>1. pc[Me] = "ensure" /\ pc[Me] \notin BusyPcs
  BY DEF Ensure, BusyPcs, UnsettledPcs, WritePcs, UndoPcs
<1>2. cache' = cache /\ durable' = durable /\ ver' = ver /\ epoch' = epoch
  BY DEF Ensure, shared
<1>3. \A k \in Keys : cache'[k] = 0 \/ cache'[k] = durable'[k]
  BY <1>1, <1>2, QuietFacts
<1>4. SoleInv' /\ pc'[Me] \in {"idle", "act", "loadOne"}
  <2>1. CASE cache[key[Me]] # Absent
    <3>1. Hydrated(Me, cache[key[Me]])
      BY <2>1 DEF Ensure
    <3>2. QED
      BY <1>1, <1>2, <1>3, <2>1, <3>1, HydratedSole DEF Absent
  <2>2. CASE cache[key[Me]] = Absent
    <3>1. /\ snap'[Me] = epoch /\ pc'[Me] = "loadOne" /\ key' = key /\ new' = new /\ fail' = fail
      BY <2>2, MeAlone DEF Ensure, Goto, SoleInv, TypeInv, TypeOK
    <3>2. AtAct' /\ AtLoad' /\ pc'[Me] \notin BusyPcs
      BY <1>2, <2>2, <3>1 DEF AtAct, AtLoad, Absent, BusyPcs, UnsettledPcs, WritePcs, UndoPcs
    <3>3. QED
      BY <1>1, <1>3, <3>1, <3>2, Settled, QuietFacts DEF SoleInv
  <2>3. QED
    BY <2>1, <2>2
<1>5. QED
  BY <1>1, <1>2, <1>4, NothingShown DEF UndoPcs, WritePcs

LEMMA LoadOneSole ==
    ASSUME SoleCaller, SoleInv, TypeInv', LoadOne(Me)
    PROVE  SoleInv' /\ Atomic!Next
<1>1. pc[Me] = "loadOne" /\ pc[Me] \notin BusyPcs
  BY DEF LoadOne, BusyPcs, UnsettledPcs, WritePcs, UndoPcs
<1>2. cache' = cache /\ durable' = durable /\ ver' = ver /\ epoch' = epoch
  BY DEF LoadOne, shared
<1>3. \A k \in Keys : cache'[k] = 0 \/ cache'[k] = durable'[k]
  BY <1>1, <1>2, QuietFacts
<1>4. SoleInv' /\ pc'[Me] \in {"idle", "act", "fill"}
  <2>1. CASE durable[key[Me]] = Absent /\ Hydrated(Me, Absent)
    <3>1. durable'[key[Me]] = 0
      BY <1>2, <2>1 DEF Absent
    <3>2. Hydrated(Me, 0)
      BY <2>1 DEF Absent
    <3>3. QED
      BY <1>1, <1>3, <3>1, <3>2, HydratedSole
  <2>2. CASE FailOut(Me)
    BY <1>3, <2>2, FailOutSole
  <2>3. ASSUME durable[key[Me]] # Absent, seen' = [seen EXCEPT ![Me] = Only(durable, {key[Me]})],
               Goto(Me, "fill"), key' = key, snap' = snap, new' = new, fail' = fail
        PROVE  SoleInv' /\ pc'[Me] = "fill"
    <3>1. pc'[Me] = "fill" /\ seen'[Me] = Only(durable, {key[Me]})
      BY <2>3, MeAlone DEF Goto, SoleInv, TypeInv, TypeOK
    <3>2. seen'[Me][key[Me]] = durable[key[Me]]
      BY <1>1, <3>1, QuietFacts DEF Only
    <3>3. cache[key[Me]] = 0 /\ snap[Me] = epoch
      BY <1>1 DEF SoleInv, AtLoad
    <3>4. AtLoad'
      BY <1>2, <2>3, <3>1, <3>2, <3>3 DEF AtLoad, Absent
    <3>5. AtAct' /\ pc'[Me] \notin BusyPcs
      BY <3>1 DEF AtAct, BusyPcs, UnsettledPcs, WritePcs, UndoPcs
    <3>6. QED
      BY <1>1, <1>3, <2>3, <3>1, <3>4, <3>5, Settled, QuietFacts DEF SoleInv
  <2>4. QED
    BY <2>1, <2>2, <2>3 DEF LoadOne
<1>5. QED
  BY <1>1, <1>2, <1>4, NothingShown DEF UndoPcs, WritePcs

LEMMA FillSole ==
    ASSUME SoleCaller, SoleInv, TypeInv', Fill(Me)
    PROVE  SoleInv' /\ Atomic!Next
<1> DEFINE K == key[Me]
           r == seen[Me][K]
<1>1. pc[Me] = "fill" /\ pc[Me] \notin BusyPcs
  BY DEF Fill, BusyPcs, UnsettledPcs, WritePcs, UndoPcs
<1>2. durable' = durable /\ ver' = ver
  BY DEF Fill
<1>3. cache[K] = 0 /\ snap[Me] = epoch /\ r = durable[K] /\ r # 0
  BY <1>1 DEF SoleInv, AtLoad
<1>4. K \in Keys /\ ~(removedAt[K] > snap[Me])
  BY <1>3, MeAlone DEF SoleInv, TypeInv, TypeOK
<1>5. Hydrated(Me, r) /\ cache' = [cache EXCEPT ![K] = r]
  BY <1>3, <1>4 DEF Fill, Absent
<1>6. cache'[K] = r /\ \A k \in Keys \ {K} : cache'[k] = cache[k]
  BY <1>4, <1>5 DEF SoleInv, TypeInv, TypeOK
<1> HIDE DEF r
<1>7. \A k \in Keys : cache'[k] = 0 \/ cache'[k] = durable'[k]
  BY <1>1, <1>2, <1>3, <1>6, QuietFacts
<1>8. SoleInv' /\ pc'[Me] \in {"idle", "act"}
  BY <1>1, <1>3, <1>5, <1>6, <1>7, HydratedSole
<1>9. QED
  BY <1>1, <1>2, <1>8, NothingShown DEF UndoPcs, WritePcs

-----------------------------------------------------------------------------
\* The versions a reader sees stay until the row is written.
LEMMA AssignSole ==
    ASSUME SoleCaller, SoleInv, TypeInv', NEW STATE c, NEW STATE e, NEW l \in {"embed", "persist"},
           c \in [Keys -> Nat], Assign(Me, c, e, l), pc[Me] \notin UnsettledPcs,
           durable'[key[Me]] = e,
           \A k \in Keys \ {key[Me]} : c[k] = 0 \/ c[k] = durable'[k]
    PROVE  /\ SoleInv'
           /\ \A k \in Keys : /\ UsedOf(k)' = UsedOf(k)
                              /\ KvOf(k)' = durable'[k] /\ KvOf(k) = durable[k]
<1> DEFINE K == key[Me]
<1>1. /\ K \in Keys /\ ver \in [Keys -> Nat] /\ Me \in Threads /\ fail[Me] <= MaxFail
      /\ pc \in [Threads -> Pcs] /\ old \in [Threads -> Nat] /\ new \in [Threads -> Nat]
  BY MeAlone DEF SoleInv, TypeInv, TypeOK
<1>2. /\ ver' = [ver EXCEPT ![K] = ver[K] + 1] /\ cache' = [c EXCEPT ![K] = ver[K] + 1]
      /\ old'[Me] = e /\ new'[Me] = ver[K] + 1 /\ pc'[Me] = l /\ key' = key /\ fail' = fail
  BY <1>1 DEF Assign, Goto
<1>3. /\ ver'[K] = ver[K] + 1 /\ cache'[K] = ver[K] + 1 /\ ver[K] \in Nat
      /\ \A k \in Keys \ {K} : ver'[k] = ver[k] /\ cache'[k] = c[k]
  BY <1>1, <1>2
<1>4. pc'[Me] \in WritePcs /\ pc'[Me] \in UnsettledPcs /\ pc'[Me] \notin UndoPcs
      /\ pc'[Me] \notin {"drop", "promote", "durableDelete", "undoDelete", "act", "loadOne", "fill", "merge"}
  BY <1>2 DEF WritePcs, UnsettledPcs, UndoPcs
<1>5. new'[Me] # 0 /\ new'[Me] = ver'[K] /\ cache'[K] = new'[Me] /\ durable'[K] = old'[Me]
  BY <1>2, <1>3
<1>6. SoleInv'
  BY <1>1, <1>2, <1>3, <1>4, <1>5
     DEF SoleInv, AtWrite, AtWritten, AtDelete, AtUndo, AtAct, AtLoad, NothingMade, Coherent
<1>7. \A k \in Keys : UsedOf(k)' = UsedOf(k)
  <2>1. \A k \in Keys : UsedOf(k) = ver[k]
    BY DEF UsedOf, UnsettledPcs
  <2>2. \A k \in Keys : UsedOf(k)' = ver[k]
    BY <1>1, <1>2, <1>3, <1>4 DEF UsedOf
  <2>3. QED
    BY <2>1, <2>2
<1>8. \A k \in Keys : KvOf(k)' = durable'[k] /\ KvOf(k) = durable[k]
  BY <1>4 DEF KvOf, Pending, UnsettledPcs
<1>9. QED
  BY <1>6, <1>7, <1>8

\* The same when the database does not change.
LEMMA AssignInPlace ==
    ASSUME SoleCaller, SoleInv, TypeInv', NEW STATE e, NEW l \in {"embed", "persist"},
           Assign(Me, cache, e, l), pc[Me] \notin UnsettledPcs, durable' = durable,
           durable[key[Me]] = e
    PROVE  SoleInv' /\ Atomic!Next
<1>1. cache \in [Keys -> Nat] /\ \A k \in Keys : UsedOf(k) \in Int
  BY DEF SoleInv, TypeInv, TypeOK, UsedOf
<1>2. \A k \in Keys \ {key[Me]} : cache[k] = 0 \/ cache[k] = durable'[k]
  BY DEF SoleInv, Coherent
<1>3. /\ SoleInv'
      /\ \A k \in Keys : /\ UsedOf(k)' = UsedOf(k)
                         /\ KvOf(k)' = durable'[k] /\ KvOf(k) = durable[k]
  BY <1>1, <1>2, AssignSole
<1>4. \A k \in Keys : KvOf(k)' = KvOf(k) /\ UsedOf(k) <= UsedOf(k)'
  BY <1>1, <1>3
<1>5. QED
  BY <1>3, <1>4, Burned

LEMMA SaveAssignSole ==
    ASSUME SoleCaller, SoleInv, TypeInv', SaveAssign(Me)
    PROVE  SoleInv' /\ Atomic!Next
<1>1. pc[Me] = "act" /\ pc[Me] \notin BusyPcs /\ IsSave(Me) /\ durable' = durable
      /\ Assign(Me, cache, cache[key[Me]], AfterAssign)
  BY DEF SaveAssign, BusyPcs, UnsettledPcs, WritePcs, UndoPcs
<1>2. durable[key[Me]] = cache[key[Me]]
  <2>1. op[Me] # "update"
    BY <1>1 DEF IsSave
  <2>2. cache[key[Me]] # 0 \/ durable[key[Me]] = 0
    BY <1>1, <2>1 DEF SoleInv, AtAct
  <2>3. QED
    BY <1>1, <2>2, QuietFacts
<1>3. AfterAssign \in {"embed", "persist"}
  BY DEF AfterAssign
<1>4. QED
  BY <1>1, <1>2, <1>3, AssignInPlace DEF BusyPcs

LEMMA SaveEvictSole ==
    ASSUME SoleCaller, SoleInv, TypeInv', SaveEvict(Me)
    PROVE  SoleInv' /\ Atomic!Next
<1>1. pc[Me] = "act" /\ pc[Me] \notin BusyPcs /\ IsSave(Me) /\ MustEvict(Me)
  BY DEF SaveEvict, BusyPcs, UnsettledPcs, WritePcs, UndoPcs
<1>2. PICK v \in Present(cache) : /\ Assign(Me, [cache EXCEPT ![v] = Absent], Absent, AfterAssign)
                                  /\ durable' = [durable EXCEPT ![v] = Absent]
  BY DEF SaveEvict
<1>3. cache[key[Me]] = 0 /\ durable[key[Me]] = 0
  <2>1. op[Me] # "update"
    BY <1>1 DEF IsSave
  <2>2. QED
    BY <1>1, <2>1 DEF SoleInv, AtAct, MustEvict, Absent
<1> DEFINE c == [cache EXCEPT ![v] = Absent]
<1>4. /\ v \in Keys /\ v # key[Me] /\ key[Me] \in Keys /\ c \in [Keys -> Nat]
      /\ \A k \in Keys : c[k] = (IF k = v THEN 0 ELSE cache[k])
                         /\ durable'[k] = (IF k = v THEN 0 ELSE durable[k])
  BY <1>1, <1>2, <1>3, QuietFacts DEF Present, Absent, SoleInv, TypeInv, TypeOK
<1> HIDE DEF c
<1>5. durable'[key[Me]] = 0 /\ \A k \in Keys \ {key[Me]} : c[k] = 0 \/ c[k] = durable'[k]
  BY <1>1, <1>3, <1>4, QuietFacts
<1>6. Assign(Me, c, 0, AfterAssign)
  BY <1>2 DEF c, Absent
<1>7. /\ SoleInv'
      /\ \A k \in Keys : /\ UsedOf(k)' = UsedOf(k)
                         /\ KvOf(k)' = durable'[k] /\ KvOf(k) = durable[k]
  <2>1. AfterAssign \in {"embed", "persist"} /\ pc[Me] \notin UnsettledPcs
    BY <1>1 DEF AfterAssign, BusyPcs
  <2>2. QED
    BY <1>4, <1>5, <1>6, <2>1, AssignSole
<1>8. \A k \in Keys : (k # v => KvOf(k)' = KvOf(k)) /\ UsedOf(k) <= UsedOf(k)'
  <2>1. \A k \in Keys : UsedOf(k) \in Int
    BY DEF SoleInv, TypeInv, TypeOK, UsedOf
  <2>2. QED
    BY <1>4, <1>7, <2>1
<1>9. KvOf(v)' = 0
  BY <1>4, <1>7
<1>10. QED
  BY <1>4, <1>7, <1>8, <1>9, Removed

LEMMA SaveEvictFailsSole ==
    ASSUME SoleCaller, SoleInv, TypeInv', SaveEvictFails(Me)
    PROVE  SoleInv' /\ Atomic!Next
<1>1. pc[Me] = "act" /\ pc[Me] \notin BusyPcs /\ cache' = cache /\ ver' = ver /\ FailOut(Me)
  BY DEF SaveEvictFails, BusyPcs, UnsettledPcs, WritePcs, UndoPcs
<1>2. durable' = durable
  <2>1. ~(fail[Me] > 1) /\ durable \in [Keys -> Nat]
    BY MeAlone, BoundsAssumption DEF SoleInv, TypeInv, TypeOK
  <2>2. ASSUME NEW v \in Present(cache), durable' = [durable EXCEPT ![v] = cache[v]]
        PROVE  durable' = durable
    BY <1>1, <2>1, <2>2, QuietFacts DEF Present, Absent
  <2>3. QED
    BY <2>1, <2>2 DEF SaveEvictFails
<1>3. \A k \in Keys : cache'[k] = 0 \/ cache'[k] = durable'[k]
  BY <1>1, <1>2, QuietFacts
<1>4. SoleInv' /\ pc'[Me] = "idle"
  BY <1>1, <1>3, FailOutSole
<1>5. QED
  BY <1>1, <1>2, <1>4, NothingShown DEF UndoPcs, WritePcs

LEMMA EmbedSole ==
    ASSUME SoleCaller, SoleInv, TypeInv', EmbedEntry(Me)
    PROVE  SoleInv' /\ Atomic!Next
<1> DEFINE K == key[Me]
<1>1. /\ pc[Me] = "embed" /\ durable' = durable /\ key' = key /\ old' = old /\ fail' = fail
      /\ pc' = [pc EXCEPT ![Me] = "persist"]
      /\ \/ /\ ver' = [ver EXCEPT ![K] = ver[K] + 1] /\ new' = [new EXCEPT ![Me] = ver[K] + 1]
            /\ cache' = IF cache[K] = 0 THEN cache ELSE [cache EXCEPT ![K] = ver[K] + 1]
         \/ UNCHANGED <<ver, new, cache>>
  BY DEF EmbedEntry, Goto, Absent
<1>2. /\ K \in Keys /\ ver \in [Keys -> Nat] /\ cache \in [Keys -> Nat] /\ Me \in Threads
      /\ pc \in [Threads -> Pcs] /\ new \in [Threads -> Nat]
  BY MeAlone DEF SoleInv, TypeInv, TypeOK
<1>3. new[Me] = ver[K] /\ new[Me] # 0 /\ cache[K] = new[Me] /\ durable[K] = old[Me]
  BY <1>1 DEF SoleInv, AtWrite, WritePcs
<1>4. /\ new'[Me] = ver'[K] /\ new'[Me] # 0 /\ cache'[K] = new'[Me] /\ durable'[K] = old'[Me]
      /\ \A k \in Keys \ {K} : ver'[k] = ver[k] /\ cache'[k] = cache[k]
      /\ ver[K] \in Nat /\ ver'[K] \in Nat /\ ver[K] <= ver'[K] /\ pc'[Me] = "persist"
  BY <1>1, <1>2, <1>3
<1>5. SoleInv'
  BY <1>1, <1>4
     DEF SoleInv, AtWrite, AtWritten, AtDelete, AtUndo, AtAct, AtLoad, NothingMade, Coherent,
         UnsettledPcs, WritePcs, UndoPcs
<1>6. \A k \in Keys : KvOf(k)' = KvOf(k) /\ UsedOf(k) <= UsedOf(k)'
  BY <1>1, <1>2, <1>4 DEF KvOf, Pending, UsedOf, UndoPcs, WritePcs
<1>7. QED
  BY <1>5, <1>6, Burned

LEMMA ModifySole ==
    ASSUME SoleCaller, SoleInv, TypeInv', Touch(Me) \/ UpdateFields(Me) \/ Reinforce(Me) \/ Promote(Me)
    PROVE  SoleInv' /\ Atomic!Next
<1> DEFINE K == key[Me]
<1>1. /\ pc[Me] \in {"act", "promote"} /\ pc[Me] \notin UnsettledPcs /\ durable' = durable
  BY DEF Touch, UpdateFields, Reinforce, Promote, UnsettledPcs, WritePcs, UndoPcs
<1>2. \A k \in Keys : cache[k] = 0 \/ cache[k] = durable[k]
  BY <1>1 DEF SoleInv, Coherent
<1>3. K \in Keys
  BY MeAlone DEF SoleInv, TypeInv, TypeOK
<1>4. ASSUME Finish(Me), cache' = cache, ver' = ver PROVE SoleInv' /\ Atomic!Next
  <2>1. SoleInv' /\ pc'[Me] = "idle"
    BY <1>1, <1>2, <1>4, Finished
  <2>2. QED
    BY <1>1, <1>4, <2>1, NothingShown DEF UndoPcs, WritePcs, UnsettledPcs
<1>5. CASE Touch(Me)
  <2>1. cache[K] # 0 => durable[K] = cache[K]
    BY <1>2, <1>3
  <2>2. (Finish(Me) /\ UNCHANGED <<cache, ver>>) \/ (cache[K] # 0 /\ Assign(Me, cache, cache[K], "persist"))
    BY <1>5 DEF Touch, Absent
  <2>3. QED
    BY <1>1, <1>4, <2>1, <2>2, AssignInPlace
<1>6. CASE UpdateFields(Me)
  <2> DEFINE e == IF cache[K] # Absent THEN cache[K] ELSE durable[K]
  <2>1. durable[K] = e
    BY <1>2, <1>3 DEF Absent
  <2>2. (Finish(Me) /\ UNCHANGED <<cache, ver>>) \/ Assign(Me, cache, e, "persist")
    BY <1>6 DEF UpdateFields, FailOut
  <2> HIDE DEF e
  <2>3. QED
    BY <1>1, <1>4, <2>1, <2>2, AssignInPlace
<1>7. CASE Reinforce(Me)
  <2> DEFINE e == IF cache[K] # Absent THEN cache[K] ELSE old[Me]
  <2>1. op[Me] = "reinforce" /\ pc[Me] = "act"
    BY <1>7 DEF Reinforce
  <2>2. cache[K] # 0
    BY <2>1 DEF SoleInv, AtAct, IsSave
  <2>3. durable[K] = e
    BY <1>2, <1>3, <2>2 DEF Absent
  <2>4. Assign(Me, cache, e, "persist")
    BY <1>7 DEF Reinforce
  <2> HIDE DEF e
  <2>5. QED
    BY <1>1, <2>3, <2>4, AssignInPlace
<1>8. CASE Promote(Me)
  <2>1. pc[Me] = "promote" /\ Assign(Me, cache, new[Me], "persist")
    BY <1>8 DEF Promote
  <2>2. durable[K] = new[Me]
    BY <2>1 DEF SoleInv, AtWritten
  <2>3. QED
    BY <1>1, <2>1, <2>2, AssignInPlace
<1>9. QED
  BY <1>5, <1>6, <1>7, <1>8

LEMMA PersistSole ==
    ASSUME SoleCaller, SoleInv, TypeInv', Persist(Me)
    PROVE  SoleInv' /\ Atomic!Next
<1> DEFINE K == key[Me]
<1>1. /\ pc[Me] = "persist" /\ cache' = cache /\ ver' = ver /\ new' = new /\ old' = old /\ key' = key
      /\ \/ durable' = [durable EXCEPT ![K] = new[Me]] /\ pc' = [pc EXCEPT ![Me] = "drop"] /\ fail' = fail
         \/ /\ pc' = [pc EXCEPT ![Me] = "rollback"] /\ durable' = durable
            /\ CanFail(Me) /\ fail' = [fail EXCEPT ![Me] = @ - 1]
  BY DEF Persist, Continue, FailTo, Goto
<1>2. /\ K \in Keys /\ ver \in [Keys -> Nat] /\ durable \in [Keys -> Nat] /\ Me \in Threads
      /\ pc \in [Threads -> Pcs] /\ fail \in [Threads -> Nat] /\ fail[Me] <= MaxFail /\ MaxFail \in Nat
  BY MeAlone, BoundsAssumption DEF SoleInv, TypeInv, TypeOK
<1>3. /\ new[Me] = ver[K] /\ new[Me] # 0 /\ cache[K] = new[Me] /\ durable[K] = old[Me]
      /\ \A k \in Keys \ {K} : cache[k] = 0 \/ cache[k] = durable[k]
  BY <1>1 DEF SoleInv, AtWrite, WritePcs, Coherent
<1>4. CASE pc' = [pc EXCEPT ![Me] = "drop"]
  <2>1. pc'[Me] = "drop" /\ durable'[K] = new[Me] /\ (\A k \in Keys \ {K} : durable'[k] = durable[k])
        /\ fail' = fail
    BY <1>1, <1>2, <1>4
  <2>2. SoleInv'
    BY <1>1, <1>2, <1>3, <2>1
       DEF SoleInv, AtWrite, AtWritten, AtDelete, AtUndo, AtAct, AtLoad, NothingMade, Coherent,
           UnsettledPcs, WritePcs, UndoPcs
  <2>0. PICK v \in Keys : v = K
    BY <1>2
  <2>3. UsedOf(v) = ver[v] - 1 /\ UsedOf(v)' = ver[v] /\ KvOf(v)' = ver[v] /\ ver[v] \in Nat
    BY <1>1, <1>2, <1>3, <2>0, <2>1 DEF UsedOf, KvOf, Pending, WritePcs, UndoPcs
  <2>4. \A k \in Keys \ {v} : KvOf(k)' = KvOf(k) /\ UsedOf(k)' = UsedOf(k)
    BY <1>1, <2>0, <2>1 DEF UsedOf, KvOf, Pending
  <2>5. UsedOf(v) < UsedOf(v)' /\ KvOf(v)' = UsedOf(v)'
    BY <2>3
  <2>6. QED
    BY <2>2, <2>4, <2>5, PutShown
<1>5. CASE pc' # [pc EXCEPT ![Me] = "drop"]
  <2>1. pc'[Me] = "rollback" /\ durable' = durable /\ fail'[Me] <= MaxFail
    BY <1>1, <1>2, <1>5
  <2>2. SoleInv'
    BY <1>1, <1>2, <1>3, <2>1
       DEF SoleInv, AtWrite, AtWritten, AtDelete, AtUndo, AtAct, AtLoad, NothingMade, Coherent,
           UnsettledPcs, WritePcs, UndoPcs
  <2>3. \A k \in Keys : KvOf(k)' = KvOf(k) /\ UsedOf(k)' = UsedOf(k) /\ UsedOf(k) \in Int
    BY <1>1, <1>2, <2>1 DEF UsedOf, KvOf, Pending, WritePcs, UndoPcs
  <2>4. \A k \in Keys : KvOf(k)' = KvOf(k) /\ UsedOf(k) <= UsedOf(k)'
    BY <2>3
  <2>5. QED
    BY <2>2, <2>4, Burned
<1>6. QED
  BY <1>4, <1>5

LEMMA RollbackSole ==
    ASSUME SoleCaller, SoleInv, TypeInv', Rollback(Me)
    PROVE  SoleInv' /\ Atomic!Next
<1> DEFINE K == key[Me]
<1>1. /\ pc[Me] = "rollback" /\ durable' = durable /\ ver' = ver /\ Finish(Me)
      /\ (cache[K] = new[Me] => cache' = [cache EXCEPT ![K] = old[Me]])
  BY DEF Rollback
<1>2. cache[K] = new[Me] /\ durable[K] = old[Me] /\ \A k \in Keys \ {K} : cache[k] = 0 \/ cache[k] = durable[k]
  BY <1>1 DEF SoleInv, AtWrite, WritePcs, Coherent
<1>3. \A k \in Keys : cache'[k] = 0 \/ cache'[k] = durable'[k]
  BY <1>1, <1>2 DEF SoleInv, TypeInv, TypeOK
<1>4. SoleInv' /\ pc'[Me] = "idle"
  BY <1>1, <1>3, Finished
<1>5. QED
  BY <1>1, <1>4, NothingShown DEF UndoPcs, WritePcs

LEMMA DropSole ==
    ASSUME SoleCaller, SoleInv, TypeInv', DropIfConcurrentlyRemoved(Me)
    PROVE  SoleInv' /\ Atomic!Next
<1>1. /\ pc[Me] = "drop" /\ cache' = cache /\ ver' = ver
      /\ \/ Finish(Me)
         \/ /\ pc' = [pc EXCEPT ![Me] = "promote"]
            /\ UNCHANGED <<key, snap, seen, old, new, pre, fail>>
  BY DEF DropIfConcurrentlyRemoved, Goto
<1>2. new[Me] # 0 /\ cache[key[Me]] = new[Me] /\ durable[key[Me]] = new[Me]
  BY <1>1 DEF SoleInv, AtWritten
<1>3. durable' = durable
  BY <1>2 DEF DropIfConcurrentlyRemoved, Absent
<1>4. \A k \in Keys : cache'[k] = 0 \/ cache'[k] = durable'[k]
  BY <1>1, <1>3 DEF SoleInv, Coherent, UnsettledPcs, WritePcs, UndoPcs
<1>5. SoleInv' /\ pc'[Me] \in {"idle", "promote"}
  <2>1. CASE Finish(Me)
    BY <1>4, <2>1, Finished
  <2>2. CASE pc' = [pc EXCEPT ![Me] = "promote"] /\ UNCHANGED <<key, snap, seen, old, new, pre, fail>>
    <3>1. pc'[Me] = "promote"
      BY <2>2, MeAlone DEF SoleInv, TypeInv, TypeOK
    <3>2. QED
      BY <1>1, <1>2, <1>3, <1>4, <2>2, <3>1
         DEF SoleInv, AtWrite, AtWritten, AtDelete, AtUndo, AtAct, AtLoad, NothingMade, Coherent,
             UnsettledPcs, WritePcs, UndoPcs
  <2>3. QED
    BY <1>1, <2>1, <2>2
<1>6. QED
  BY <1>1, <1>3, <1>5, NothingShown DEF UndoPcs, WritePcs

-----------------------------------------------------------------------------
LEMMA DeletePopSole ==
    ASSUME SoleCaller, SoleInv, TypeInv', DeletePop(Me)
    PROVE  SoleInv' /\ Atomic!Next
<1> DEFINE K == key[Me]
<1>1. /\ pc[Me] = "act" /\ op[Me] = "delete" /\ cache' = [cache EXCEPT ![K] = 0] /\ durable' = durable
      /\ ver' = ver /\ key' = key /\ new' = new /\ fail' = fail
      /\ old' = [old EXCEPT ![Me] = IF cache[K] # 0 THEN cache[K] ELSE @]
      /\ pc' = [pc EXCEPT ![Me] = "durableDelete"]
  BY DEF DeletePop, Goto, Absent
<1>2. pc[Me] \notin BusyPcs
  BY <1>1 DEF BusyPcs, UnsettledPcs, WritePcs, UndoPcs
<1>3. K \in Keys /\ Me \in Threads /\ cache \in [Keys -> Nat] /\ pc \in [Threads -> Pcs] /\ old \in [Threads -> Nat]
  BY MeAlone DEF SoleInv, TypeInv, TypeOK
<1>4. cache[K] # 0 /\ durable[K] = cache[K] /\ new[Me] = 0
  <2>1. cache[K] # 0
    BY <1>1 DEF SoleInv, AtAct, IsSave
  <2>2. QED
    BY <1>2, <1>3, <2>1, QuietFacts
<1>5. /\ cache'[K] = 0 /\ old'[Me] = cache[K] /\ pc'[Me] = "durableDelete"
      /\ \A k \in Keys \ {K} : cache'[k] = cache[k]
  BY <1>1, <1>3, <1>4
<1>6. SoleInv'
  BY <1>1, <1>2, <1>3, <1>4, <1>5, QuietFacts
     DEF SoleInv, AtWrite, AtWritten, AtDelete, AtUndo, AtAct, AtLoad, NothingMade, Coherent,
         UnsettledPcs, WritePcs, UndoPcs
<1>7. QED
  BY <1>1, <1>5, <1>6, NothingShown DEF UndoPcs, WritePcs

LEMMA DurableDeleteSole ==
    ASSUME SoleCaller, SoleInv, TypeInv', DurableDelete(Me)
    PROVE  SoleInv' /\ Atomic!Next
<1> DEFINE K == key[Me]
<1>1. /\ pc[Me] = "durableDelete" /\ cache' = cache /\ ver' = ver /\ new' = new /\ old' = old /\ key' = key
      /\ \/ durable' = [durable EXCEPT ![K] = 0] /\ pc' = [pc EXCEPT ![Me] = "deleteRelations"] /\ fail' = fail
         \/ /\ pc' = [pc EXCEPT ![Me] = "undoDelete"] /\ durable' = durable
            /\ CanFail(Me) /\ fail' = [fail EXCEPT ![Me] = @ - 1]
  BY DEF DurableDelete, Continue, FailTo, Goto, Absent
<1>2. /\ K \in Keys /\ ver \in [Keys -> Nat] /\ durable \in [Keys -> Nat] /\ Me \in Threads
      /\ pc \in [Threads -> Pcs] /\ fail \in [Threads -> Nat] /\ fail[Me] <= MaxFail /\ MaxFail \in Nat
  BY MeAlone, BoundsAssumption DEF SoleInv, TypeInv, TypeOK
<1>3. /\ new[Me] = 0 /\ cache[K] = 0 /\ durable[K] = old[Me] /\ old[Me] # 0
      /\ \A k \in Keys \ {K} : cache[k] = 0 \/ cache[k] = durable[k]
  BY <1>1 DEF SoleInv, AtDelete, Coherent, NothingMade, WritePcs
<1>4. \/ /\ pc'[Me] = "deleteRelations" /\ durable'[K] = 0 /\ fail'[Me] <= MaxFail
         /\ \A k \in Keys \ {K} : durable'[k] = durable[k]
      \/ pc'[Me] = "undoDelete" /\ durable' = durable /\ fail'[Me] <= MaxFail
  BY <1>1, <1>2
<1>5. SoleInv'
  BY <1>1, <1>2, <1>3, <1>4
     DEF SoleInv, AtWrite, AtWritten, AtDelete, AtUndo, AtAct, AtLoad, NothingMade, Coherent,
         UnsettledPcs, WritePcs, UndoPcs
<1>6. \A k \in Keys : KvOf(k)' = KvOf(k) /\ UsedOf(k)' = UsedOf(k) /\ UsedOf(k) \in Int
  BY <1>1, <1>2, <1>3, <1>4 DEF UsedOf, KvOf, Pending, WritePcs, UndoPcs
<1>7. \A k \in Keys : KvOf(k)' = KvOf(k) /\ UsedOf(k) <= UsedOf(k)'
  BY <1>6
<1>8. QED
  BY <1>5, <1>7, Burned

LEMMA UndoDeleteSole ==
    ASSUME SoleCaller, SoleInv, TypeInv', UndoDelete(Me)
    PROVE  SoleInv' /\ Atomic!Next
<1> DEFINE K == key[Me]
<1>1. /\ pc[Me] = "undoDelete" /\ durable' = durable /\ ver' = ver /\ Finish(Me)
      /\ cache' = [cache EXCEPT ![K] = old[Me]]
  BY DEF UndoDelete
<1>2. durable[K] = old[Me] /\ \A k \in Keys \ {K} : cache[k] = 0 \/ cache[k] = durable[k]
  BY <1>1 DEF SoleInv, AtDelete, Coherent
<1>3. \A k \in Keys : cache'[k] = 0 \/ cache'[k] = durable'[k]
  BY <1>1, <1>2 DEF SoleInv, TypeInv, TypeOK
<1>4. SoleInv' /\ pc'[Me] = "idle"
  BY <1>1, <1>3, Finished
<1>5. QED
  BY <1>1, <1>4, NothingShown DEF UndoPcs, WritePcs

LEMMA DeleteRelationsSole ==
    ASSUME SoleCaller, SoleInv, TypeInv', DeleteRelations(Me)
    PROVE  SoleInv' /\ Atomic!Next
<1> DEFINE K == key[Me]
<1>1. /\ pc[Me] = "deleteRelations" /\ cache' = cache /\ durable' = durable /\ ver' = ver
      /\ new' = new /\ old' = old /\ key' = key
      /\ \/ pc' = [pc EXCEPT ![Me] = "noteRemoved"] /\ fail' = fail
         \/ /\ pc' = [pc EXCEPT ![Me] = "undoRelations"]
            /\ CanFail(Me) /\ fail' = [fail EXCEPT ![Me] = @ - 1]
  BY DEF DeleteRelations, Continue, FailTo, Goto, shared
<1>2. /\ K \in Keys /\ ver \in [Keys -> Nat] /\ Me \in Threads /\ durable \in [Keys -> Nat]
      /\ pc \in [Threads -> Pcs] /\ fail \in [Threads -> Nat] /\ fail[Me] <= MaxFail /\ MaxFail <= 1
      /\ MaxFail \in Nat
  BY MeAlone, BoundsAssumption DEF SoleInv, TypeInv, TypeOK
<1>3. /\ new[Me] = 0 /\ cache[K] = 0 /\ durable[K] = 0 /\ old[Me] # 0
      /\ \A k \in Keys \ {K} : cache[k] = 0 \/ cache[k] = durable[k]
  BY <1>1 DEF SoleInv, AtUndo, Coherent, NothingMade, WritePcs, UndoPcs
<1>4. \/ pc'[Me] = "noteRemoved" /\ fail'[Me] <= MaxFail
      \/ pc'[Me] = "undoRelations" /\ fail'[Me] <= MaxFail /\ fail'[Me] = 0
  BY <1>1, <1>2 DEF CanFail
<1>5. SoleInv'
  BY <1>1, <1>2, <1>3, <1>4
     DEF SoleInv, AtWrite, AtWritten, AtDelete, AtUndo, AtAct, AtLoad, NothingMade, Coherent,
         UnsettledPcs, WritePcs, UndoPcs
<1>6. \A k \in Keys : UsedOf(k)' = UsedOf(k) /\ UsedOf(k) \in Int
  BY <1>1, <1>2, <1>4 DEF UsedOf, WritePcs
<1>7. \A k \in Keys : UsedOf(k) <= UsedOf(k)'
  BY <1>6
<1>8. CASE pc'[Me] = "noteRemoved"
  <2>0. PICK v \in Keys : v = K
    BY <1>2
  <2>1. KvOf(v)' = 0 /\ \A k \in Keys : k # v => KvOf(k)' = KvOf(k)
    BY <1>1, <1>3, <1>8, <2>0 DEF KvOf, Pending, UndoPcs
  <2>2. QED
    BY <1>2, <1>5, <1>7, <2>1, Removed
<1>9. CASE pc'[Me] = "undoRelations"
  <2>1. \A k \in Keys : KvOf(k)' = KvOf(k)
    BY <1>1, <1>9 DEF KvOf, Pending, UndoPcs
  <2>2. QED
    BY <1>5, <1>7, <2>1, Burned
<1>10. QED
  BY <1>4, <1>8, <1>9

LEMMA UndoRelationsSole ==
    ASSUME SoleCaller, SoleInv, TypeInv', UndoRelations(Me)
    PROVE  SoleInv' /\ Atomic!Next
<1> DEFINE K == key[Me]
<1>1. /\ pc[Me] = "undoRelations" /\ durable' = durable /\ ver' = ver /\ cache' = [cache EXCEPT ![K] = old[Me]]
      /\ new' = new /\ old' = old /\ key' = key /\ fail' = fail /\ pc' = [pc EXCEPT ![Me] = "resave"]
  BY DEF UndoRelations, Continue, Goto
<1>2. /\ K \in Keys /\ ver \in [Keys -> Nat] /\ Me \in Threads /\ cache \in [Keys -> Nat]
      /\ pc \in [Threads -> Pcs] /\ fail[Me] <= MaxFail
  BY MeAlone DEF SoleInv, TypeInv, TypeOK
<1>3. /\ new[Me] = 0 /\ durable[K] = 0 /\ old[Me] # 0 /\ fail[Me] = 0
      /\ \A k \in Keys \ {K} : cache[k] = 0 \/ cache[k] = durable[k]
  BY <1>1 DEF SoleInv, AtUndo, Coherent, NothingMade, WritePcs, UndoPcs
<1>4. pc'[Me] = "resave" /\ cache'[K] = old[Me] /\ \A k \in Keys \ {K} : cache'[k] = cache[k]
  BY <1>1, <1>2
<1>5. SoleInv'
  BY <1>1, <1>2, <1>3, <1>4
     DEF SoleInv, AtWrite, AtWritten, AtDelete, AtUndo, AtAct, AtLoad, NothingMade, Coherent,
         UnsettledPcs, WritePcs, UndoPcs
<1>6. \A k \in Keys : KvOf(k)' = KvOf(k) /\ UsedOf(k)' = UsedOf(k) /\ UsedOf(k) \in Int
  BY <1>1, <1>2, <1>4 DEF UsedOf, KvOf, Pending, WritePcs, UndoPcs
<1>7. \A k \in Keys : KvOf(k)' = KvOf(k) /\ UsedOf(k) <= UsedOf(k)'
  BY <1>6
<1>8. QED
  BY <1>5, <1>7, Burned

LEMMA ResaveSole ==
    ASSUME SoleCaller, SoleInv, TypeInv', Resave(Me)
    PROVE  SoleInv' /\ Atomic!Next
<1> DEFINE K == key[Me]
<1>1. pc[Me] = "resave" /\ cache' = cache /\ ver' = ver /\ Finish(Me)
  BY DEF Resave
<1>2. /\ durable[K] = 0 /\ old[Me] # 0 /\ cache[K] = old[Me] /\ fail[Me] = 0
      /\ \A k \in Keys \ {K} : cache[k] = 0 \/ cache[k] = durable[k]
  BY <1>1 DEF SoleInv, AtUndo, Coherent, UndoPcs
<1>3. durable' = [durable EXCEPT ![K] = old[Me]]
  BY <1>2 DEF Resave, CanFail
<1>4. K \in Keys /\ ver \in [Keys -> Nat] /\ durable \in [Keys -> Nat] /\ cache \in [Keys -> Nat]
  BY MeAlone DEF SoleInv, TypeInv, TypeOK
<1>5. durable'[K] = old[Me] /\ \A k \in Keys \ {K} : durable'[k] = durable[k]
  BY <1>3, <1>4
<1>6. \A k \in Keys : cache'[k] = 0 \/ cache'[k] = durable'[k]
  BY <1>1, <1>2, <1>5
<1>7. SoleInv' /\ pc'[Me] = "idle"
  BY <1>1, <1>6, Finished
<1>8. \A k \in Keys : KvOf(k)' = KvOf(k) /\ UsedOf(k)' = UsedOf(k) /\ UsedOf(k) \in Int
  BY <1>1, <1>4, <1>5, <1>7 DEF UsedOf, KvOf, Pending, WritePcs, UndoPcs
<1>9. \A k \in Keys : KvOf(k)' = KvOf(k) /\ UsedOf(k) <= UsedOf(k)'
  BY <1>8
<1>10. QED
  BY <1>7, <1>9, Burned

LEMMA DeleteNoteSole ==
    ASSUME SoleCaller, SoleInv, TypeInv', DeleteNote(Me)
    PROVE  SoleInv' /\ Atomic!Next
<1>1. pc[Me] = "noteRemoved" /\ cache' = cache /\ durable' = durable /\ ver' = ver /\ Finish(Me)
  BY DEF DeleteNote
<1>2. pc[Me] \notin BusyPcs
  BY <1>1 DEF BusyPcs, UnsettledPcs, WritePcs, UndoPcs
<1>3. SoleInv' /\ pc'[Me] = "idle"
  BY <1>1, <1>2, QuietFacts, Finished
<1>4. QED
  BY <1>1, <1>3, NothingShown DEF UndoPcs, WritePcs

\* A restart settles what hung over a key: a delete whose row is gone stays one.
LEMMA CrashSole ==
    ASSUME SoleCaller, SoleInv, TypeInv', Crash
    PROVE  SoleInv' /\ Atomic!Next
<1>1. /\ durable' = durable /\ ver' = ver /\ pc'[Me] = "idle" /\ new'[Me] = 0 /\ fail'[Me] = 0
      /\ \E S : cache' = Only(durable', S)
  BY MeAlone DEF Crash, ColdStart, Absent
<1>2. \A k \in Keys : cache'[k] = 0 \/ cache'[k] = durable'[k]
  BY <1>1 DEF Only, Absent
<1>3. SoleInv'
  <2>1. AtAct' /\ AtLoad' /\ pc'[Me] \notin BusyPcs
    BY <1>1 DEF AtAct, AtLoad, BusyPcs, UnsettledPcs, WritePcs, UndoPcs
  <2>2. QED
    BY <1>1, <1>2, <2>1, Settled, BoundsAssumption
<1>4. key[Me] \in Keys /\ \A k \in Keys : ver[k] \in Nat
  BY MeAlone DEF SoleInv, TypeInv, TypeOK
<1>5. \A k \in Keys : UsedOf(k) <= UsedOf(k)'
  BY <1>1, <1>4 DEF UsedOf, WritePcs
<1>6. CASE pc[Me] \in UndoPcs
  <2>1. durable[key[Me]] = 0
    BY <1>6 DEF SoleInv, AtUndo
  <2>2. PICK v \in Keys : v = key[Me]
    BY <1>4
  <2>3. KvOf(v)' = 0 /\ \A k \in Keys : k # v => KvOf(k)' = KvOf(k)
    BY <1>1, <2>1, <2>2 DEF KvOf, Pending, UndoPcs
  <2>4. QED
    BY <1>3, <1>5, <2>3, Removed
<1>7. CASE pc[Me] \notin UndoPcs
  BY <1>1, <1>3, <1>7, NothingShown DEF UndoPcs, WritePcs
<1>8. QED
  BY <1>6, <1>7

-----------------------------------------------------------------------------
LEMMA InitSole == SoleCaller /\ Init => SoleInv /\ Atomic!Init
<1> SUFFICES ASSUME SoleCaller, Init PROVE SoleInv /\ Atomic!Init
  OBVIOUS
<1>1. TypeInv
  BY InitType
<1>2. pc[Me] = "idle" /\ new[Me] = 0 /\ fail[Me] = 0 /\ ver = durable /\ durable \in [Keys -> {0, 1}]
  BY MeAlone DEF Init, Absent
<1>3. \A k \in Keys : cache[k] = 0 \/ cache[k] = durable[k]
  BY DEF Init, ColdStart, Only, Absent
<1>4. SoleInv
  BY <1>1, <1>2, <1>3, BoundsAssumption
     DEF SoleInv, AtWrite, AtWritten, AtDelete, AtUndo, AtAct, AtLoad, NothingMade, Coherent,
         UnsettledPcs, WritePcs, UndoPcs
<1>5. \A k \in Keys : KvOf(k) = durable[k] /\ UsedOf(k) = durable[k]
  BY <1>2 DEF KvOf, UsedOf, Pending, WritePcs, UndoPcs
<1>6. kvBar = [k \in Keys |-> KvOf(k)] /\ usedBar = [k \in Keys |-> UsedOf(k)]
  BY <1>4, BarIs
<1>7. kvBar \in [Keys -> {0, 1}] /\ usedBar = kvBar
  BY <1>2, <1>5, <1>6
<1>8. QED
  BY <1>4, <1>7 DEF Atomic!Init

LEMMA StepSole ==
    SoleCaller /\ SoleInv /\ [Next]_vars => SoleInv' /\ [Atomic!Next]_<<kvBar, usedBar>>
<1> SUFFICES ASSUME SoleCaller, SoleInv, [Next]_vars
             PROVE  SoleInv' /\ [Atomic!Next]_<<kvBar, usedBar>>
  OBVIOUS
<1>1. TypeInv'
  BY TypeStep DEF SoleInv
<1>2. CASE UNCHANGED vars
  <2>1. SoleInv'
    BY <1>1, <1>2
       DEF vars, shared, locals, SoleInv, AtWrite, AtWritten, AtDelete, AtUndo, AtAct, AtLoad,
           NothingMade, Coherent, IsSave
  <2>2. UNCHANGED <<kvBar, usedBar>>
    BY <1>2 DEF vars, shared, locals, kvBar, usedBar, Unsettled, View
  <2>3. QED
    BY <2>1, <2>2
<1>3. CASE Crash
  BY <1>1, <1>3, CrashSole
<1>4. CASE \E t \in Threads : Step(t)
  <2>1. Step(Me)
    BY <1>4, MeAlone
  <2>2. QED
    BY <1>1, <2>1, BeginSole, MergeSnapshotSole, LoadAllSole, MergeSole, PassSole, EnsureSole,
       LoadOneSole, FillSole, SaveAssignSole, SaveEvictSole, SaveEvictFailsSole, EmbedSole,
       ModifySole, PersistSole, RollbackSole, DropSole, DeletePopSole, DurableDeleteSole,
       UndoDeleteSole, DeleteRelationsSole, UndoRelationsSole, ResaveSole, DeleteNoteSole DEF Step
<1>5. QED
  BY <1>2, <1>3, <1>4 DEF Next, Done

\* A caller who is alone with the store, for every set of keys, every cap and every
\* workload: each operation takes effect at once or not at all, in the cache and in the
\* database together, restarts and one backend failure per operation included.
THEOREM ImplementsAtomicStore == SoleCaller => (Spec => AtomicOperations)
<1> SUFFICES ASSUME SoleCaller PROVE Spec => AtomicOperations
  OBVIOUS
<1>1. Init => SoleInv /\ Atomic!Init
  BY InitSole
<1>2. SoleInv /\ [Next]_vars => SoleInv' /\ [Atomic!Next]_<<kvBar, usedBar>>
  BY StepSole
<1>3. QED
  BY <1>1, <1>2, PTL DEF Spec, AtomicOperations, Atomic!Spec

\* The cache of a caller who is alone agrees with the database whenever the caller is
\* at rest, failed calls and restarts included: it takes two threads to part them.
THEOREM SoleWriteThrough == SoleCaller => (Spec => []WriteThrough)
<1> SUFFICES ASSUME SoleCaller PROVE Spec => []WriteThrough
  OBVIOUS
<1>1. Init => SoleInv
  BY InitSole
<1>2. SoleInv /\ [Next]_vars => SoleInv'
  BY StepSole
<1>3. SoleInv => WriteThrough
  BY MeAlone DEF SoleInv, Coherent, WriteThrough, AllIdle, Present, Absent, UnsettledPcs, WritePcs,
                 UndoPcs
<1>4. QED
  BY <1>1, <1>2, <1>3, PTL DEF Spec

(***************************************************************************)
(* Integrity: what verify_integrity vouches for.  The invariant says of    *)
(* every entry, wherever a copy of it is, what its hash covers: the        *)
(* content once written, or the text a legacy hash covered.                *)
(***************************************************************************)
KeyVals == Int \cup {Nothing, ShortFile}
Texts == Contents \cup {Pipe[c] : c \in Contents}
Hashes == [key : KeyVals, form : {1, 2}, text : Texts]
SignedEntry == [content : Contents, hash : Hashes \cup {Nothing}, version : {1, 2},
                written : Contents, old : BOOLEAN, touched : BOOLEAN,
                by : {"saver", "keeper", "load"}]

\* What a hash says of the content once written, whatever became of the content:
\* a current one covers it, or the text a legacy hash had covered before it.
Covers(e) ==
  e.hash # Nothing =>
     \/ e.hash.form = 1 /\ e.old /\ e.hash.text = Pipe[e.written]
     \/ e.hash.form = 2 /\ e.hash.text = e.written
     \/ e.hash.form = 2 /\ e.old /\ Pipe[e.hash.text] = Pipe[e.written]
SoundEntry == {e \in SignedEntry : Covers(e)}
MaybeEntry == {Nothing} \cup SoundEntry
Genuine(e) == e.content = e.written \/ (e.old /\ Pipe[e.content] = Pipe[e.written])

SaverRecord == [at : {"key", "generate", "cache", "sign", "persist"}, entry : Entries,
                key : KeyVals, new : SoundEntry, old : MaybeEntry]
KeeperRecord == [at : {"next", "key", "generate", "cache", "sign", "persist"},
                 kind : {"verify", "rehash", "resign"}, todo : SUBSET Entries,
                 seen : [Entries -> MaybeEntry] \cup {Nothing}, entry : Entries \cup {Nothing},
                 key : KeyVals, new : MaybeEntry, old : MaybeEntry]
AtEntry(t) ==
  /\ t.entry \in Entries /\ t.old \in SoundEntry
  /\ t.kind # "resign" => t.old.hash # Nothing
  /\ t.kind = "rehash" => t.old.version = 1
SaverOk(t) ==
  t.at # "idle" => t \in SaverRecord /\ (t.at # "persist" => t.new.content = t.new.written)
KeeperOk(t) ==
  t.at # "idle" => /\ t \in KeeperRecord
                   /\ t.kind = "verify" => t.seen \in [Entries -> MaybeEntry]
                   /\ t.at # "next" => AtEntry(t)
KeysOk == file \in KeyVals /\ cachedKey \in KeyVals /\ keys \in Nat /\ envKey \in {Nothing, 0, -1}
TablesOk == entry \in [Entries -> MaybeEntry] /\ signedRow \in [Entries -> MaybeEntry]
VerdictsOk ==
  /\ DOMAIN verdicts = Entries
  /\ \A k \in Entries : verdicts[k] # Nothing /\ verdicts[k].ok => Genuine(verdicts[k].of)
IgInv == KeysOk /\ TablesOk /\ SaverOk(saver) /\ KeeperOk(keeper) /\ VerdictsOk

-----------------------------------------------------------------------------
\* A stamp covers the content: sound when that is what was written, or when it has the
\* text of the legacy hash it replaces.
LEMMA StampSound ==
    ASSUME NEW e \in SignedEntry, NEW k \in KeyVals, Genuine(e)
    PROVE  Stamped(e, k) \in SoundEntry
<1> DEFINE h == [key |-> k, form |-> 2, text |-> e.content]
           s == Stamped(e, k)
<1>1. s = [e EXCEPT !.hash = h, !.version = 2] /\ h \in Hashes
  BY DEF Stamped, HashOf, Hashes, Texts, SignedEntry
<1>2. s \in SignedEntry /\ s.hash = h /\ s.old = e.old /\ s.written = e.written
  BY <1>1 DEF SignedEntry
<1>3. h.form = 2 /\ h.text = e.content
  OBVIOUS
<1> HIDE DEF h, s
<1>4. QED
  BY <1>2, <1>3 DEF SoundEntry, Covers, Genuine, s

\* A hash that verifies is over what was written, or over its legacy text.
LEMMA VerifiedGenuine ==
    ASSUME NEW e \in SoundEntry, NEW k, e.hash # Nothing, Verifies(e, k)
    PROVE  Genuine(e) /\ (e.version = 1 => e.old)
<1>1. e \in SignedEntry /\ Covers(e)
  BY DEF SoundEntry
<1>2. e.version \in {1, 2} /\ e.hash = HashOf(k, e.version, e.content)
  BY <1>1 DEF SignedEntry, Verifies
<1>3. e.hash.form = e.version /\ e.hash.text = IF e.version = 1 THEN Pipe[e.content] ELSE e.content
  BY <1>2 DEF HashOf
<1>4. QED
  BY <1>1, <1>2, <1>3 DEF Covers, Genuine

LEMMA ByAnyone ==
    ASSUME NEW e \in SoundEntry, NEW b \in {"saver", "keeper", "load"}
    PROVE  [e EXCEPT !.by = b] \in SoundEntry
<1> DEFINE f == [e EXCEPT !.by = b]
<1>1. e \in SignedEntry /\ Covers(e)
  BY DEF SoundEntry
<1>2. f \in SignedEntry /\ f.hash = e.hash /\ f.old = e.old /\ f.written = e.written
  BY <1>1 DEF SignedEntry
<1> HIDE DEF f
<1>3. QED
  BY <1>1, <1>2 DEF SoundEntry, Covers, f

LEMMA NewEntrySound ==
    ASSUME NEW c \in Contents
    PROVE  NewEntry(c) \in SoundEntry /\ NewEntry(c).content = NewEntry(c).written
<1>1. NewEntry(c) \in SignedEntry /\ NewEntry(c).hash = Nothing
  BY DEF NewEntry, SignedEntry
<1>2. QED
  BY <1>1 DEF SoundEntry, Covers, NewEntry

LEMMA LegacyRowSound ==
    ASSUME NEW c \in Contents, NEW hashed \in BOOLEAN
    PROVE  LegacyRow(c, hashed) \in SoundEntry
<1> DEFINE h == IF hashed THEN HashOf(1, 1, c) ELSE Nothing
           r == LegacyRow(c, hashed)
<1>1. h \in Hashes \cup {Nothing} /\ (h # Nothing => hashed /\ h.form = 1 /\ h.text = Pipe[c])
  BY DEF HashOf, Hashes, Texts, KeyVals
<1> HIDE DEF h
<1> DEFINE n == NewEntry(c)
<1>2. n \in SignedEntry /\ n.written = c
  BY NewEntrySound DEF NewEntry, SoundEntry
<1>3. r \in SignedEntry /\ r.hash = h /\ r.old = hashed /\ r.written = c
  <2>1. r = [n EXCEPT !.hash = h, !.old = hashed, !.by = "load"]
    BY DEF LegacyRow, h
  <2> HIDE DEF n, r
  <2>2. QED
    BY <1>1, <1>2, <2>1 DEF SignedEntry
<1> HIDE DEF r
<1>4. QED
  BY <1>1, <1>3 DEF SoundEntry, Covers, r

\* What a pass puts in place of an entry is sound: an upgrade only after the legacy
\* hash verified, a new signature with the operator's word for the content.
LEMMA RewrittenSound ==
    ASSUME NEW e \in SoundEntry, NEW kind \in {"rehash", "resign"}, KeysOk,
           kind = "rehash" => e.hash # Nothing
    PROVE  Rewritten(e, kind) \in SoundEntry
<1> DEFINE v == Vouched(e, kind)
<1>1. e \in SignedEntry /\ cachedKey \in KeyVals
  BY DEF SoundEntry, KeysOk
<1>2. SUFFICES ASSUME ~(kind = "rehash" /\ ~Verifies(e, cachedKey))
               PROVE  [Stamped(v, cachedKey) EXCEPT !.by = "keeper"] \in SoundEntry
  BY DEF Rewritten
<1>3. v \in SignedEntry /\ Genuine(v)
  <2>1. CASE kind = "rehash"
    BY <1>1, <1>2, <2>1, VerifiedGenuine DEF Vouched
  <2>2. CASE kind = "resign"
    <3>1. v = [e EXCEPT !.written = e.content, !.touched = FALSE]
      BY <2>2 DEF Vouched
    <3> HIDE DEF v
    <3>2. v \in SignedEntry /\ v.written = e.content /\ v.content = e.content
      BY <1>1, <3>1 DEF SignedEntry
    <3>3. QED
      BY <3>2 DEF Genuine
  <2>3. QED
    BY <2>1, <2>2
<1> HIDE DEF v
<1>4. Stamped(v, cachedKey) \in SoundEntry
  BY <1>1, <1>3, StampSound
<1>5. QED
  BY <1>4, ByAnyone

-----------------------------------------------------------------------------
LEMMA IgInitOk == IgInit => IgInv
<1> SUFFICES ASSUME IgInit PROVE IgInv
  OBVIOUS
<1>1. KeysOk
  BY DEF IgInit, KeysOk, KeyVals
<1>2. signedRow \in [Entries -> MaybeEntry]
  <2>1. CASE signedRow = [k \in Entries |-> Nothing]
    BY <2>1 DEF MaybeEntry
  <2>2. CASE signedRow \in [Entries -> {LegacyRow(c, hashed) : c \in Contents, hashed \in BOOLEAN}]
    BY <2>2, LegacyRowSound DEF MaybeEntry
  <2>3. QED
    BY <2>1, <2>2 DEF IgInit
<1>3. QED
  BY <1>1, <1>2 DEF IgInit, IgInv, TablesOk, SaverOk, KeeperOk, VerdictsOk, Resting

\* The records of a thread after a step of the key's loading.
KeyMoved(t, u) ==
  \E a \in {"generate", "cache", "sign"}, k \in KeyVals :
     u = [t EXCEPT !.at = a] \/ u = [t EXCEPT !.at = a, !.key = k]

LEMMA KeyStepRecord ==
    ASSUME KeysOk, NEW t, t.at \in {"key", "generate", "cache"}, t.key \in KeyVals, KeyStep(t)
    PROVE  /\ file' \in KeyVals /\ cachedKey' \in KeyVals /\ keys' \in Nat
           /\ AfterKeyStep(t) = Resting \/ KeyMoved(t, AfterKeyStep(t))
<1>1. CASE t.at = "key"
  <2>1. UNCHANGED <<file, cachedKey, keys>>
    BY <1>1 DEF KeyStep, FindKey, GenerateKey, CacheKey
  <2>2. AfterKeyStep(t) = KeyLookup(t)
    BY <1>1 DEF AfterKeyStep
  <2>3. \/ KeyLookup(t) = Resting \/ KeyLookup(t) = [t EXCEPT !.at = "sign"]
        \/ KeyLookup(t) = [t EXCEPT !.at = "cache", !.key = 0]
        \/ KeyLookup(t) = [t EXCEPT !.at = "cache", !.key = file]
        \/ KeyLookup(t) = [t EXCEPT !.at = "generate", !.key = file]
    BY DEF KeyLookup, KeysOk
  <2>4. 0 \in KeyVals /\ file \in KeyVals
    BY DEF KeysOk, KeyVals
  <2>5. KeyLookup(t) = Resting \/ KeyMoved(t, KeyLookup(t))
    BY <2>3, <2>4, Zenon DEF KeyMoved
  <2>6. QED
    BY <2>1, <2>2, <2>5 DEF KeysOk
<1>2. CASE t.at = "generate"
  <2>1. keys' = keys + 1 /\ file' = keys + 1 /\ cachedKey' = cachedKey
    BY <1>2 DEF KeyStep, FindKey, GenerateKey, CacheKey
  <2>2. AfterKeyStep(t) = [t EXCEPT !.at = "cache", !.key = keys + 1]
    BY <1>2 DEF AfterKeyStep
  <2>3. keys + 1 \in Nat /\ keys + 1 \in KeyVals
    BY DEF KeysOk, KeyVals
  <2>4. KeyMoved(t, AfterKeyStep(t))
    BY <2>2, <2>3, Zenon DEF KeyMoved
  <2>5. QED
    BY <2>1, <2>3, <2>4 DEF KeysOk
<1>3. CASE t.at = "cache"
  <2>1. cachedKey' = t.key /\ UNCHANGED <<file, keys>>
    BY <1>3 DEF KeyStep, FindKey, GenerateKey, CacheKey
  <2>2. AfterKeyStep(t) = [t EXCEPT !.at = "sign"]
    BY <1>3 DEF AfterKeyStep
  <2>3. QED
    BY <2>1, <2>2 DEF KeysOk, KeyMoved
<1>4. QED
  BY <1>1, <1>2, <1>3

LEMMA SaverKeyStepOk ==
    ASSUME IgInv, SaverKeyStep
    PROVE  IgInv'
<1> DEFINE t == saver
<1>1. t \in SaverRecord /\ t.at \in {"key", "generate", "cache"} /\ t.key \in KeyVals
      /\ t.new.content = t.new.written
  BY DEF IgInv, SaverOk, SaverKeyStep, SaverRecord
<1>2. KeyStep(t) /\ saver' = AfterKeyStep(t) /\ UNCHANGED <<envKey, entry, signedRow, keeper, verdicts>>
  BY DEF SaverKeyStep
<1>0. /\ file' \in KeyVals /\ cachedKey' \in KeyVals /\ keys' \in Nat
      /\ AfterKeyStep(t) = Resting \/ KeyMoved(t, AfterKeyStep(t))
  <2>1. KeysOk /\ t.at \in {"key", "generate", "cache"} /\ t.key \in KeyVals /\ KeyStep(t)
    BY <1>1, <1>2 DEF IgInv
  <2> HIDE DEF t
  <2>2. QED
    BY <2>1, KeyStepRecord DEF KeyStep, FindKey, GenerateKey, CacheKey
<1>3. KeysOk'
  BY <1>0, <1>2 DEF IgInv, KeysOk
<1>4. SaverOk(saver)'
  <2>1. CASE saver' = Resting
    BY <2>1 DEF SaverOk, Resting
  <2>2. CASE saver' # Resting
    <3>0. KeyMoved(t, saver') /\ Nothing \in KeyVals
      BY <1>0, <1>2, <2>2 DEF KeyVals
    <3>1. PICK a \in {"generate", "cache", "sign"}, k \in KeyVals :
             saver' = [t EXCEPT !.at = a] \/ saver' = [t EXCEPT !.at = a, !.key = k]
      BY <3>0, Zenon DEF KeyMoved
    <3>2. saver' \in SaverRecord /\ saver'.new = t.new
      BY <1>1, <3>1 DEF SaverRecord
    <3>3. QED
      BY <1>1, <3>2 DEF SaverOk
  <2>3. QED
    BY <2>1, <2>2
<1>5. QED
  BY <1>2, <1>3, <1>4 DEF IgInv, TablesOk, KeeperOk, AtEntry, VerdictsOk

LEMMA KeeperKeyStepOk ==
    ASSUME IgInv, KeeperKeyStep
    PROVE  IgInv'
<1> DEFINE t == keeper
<1>1. t \in KeeperRecord /\ t.at \in {"key", "generate", "cache"} /\ t.key \in KeyVals /\ AtEntry(t)
      /\ (t.kind = "verify" => t.seen \in [Entries -> MaybeEntry])
  BY DEF IgInv, KeeperOk, KeeperKeyStep, KeeperRecord
<1>2. KeyStep(t) /\ keeper' = AfterKeyStep(t) /\ UNCHANGED <<envKey, entry, signedRow, saver, verdicts>>
  BY DEF KeeperKeyStep
<1>0. /\ file' \in KeyVals /\ cachedKey' \in KeyVals /\ keys' \in Nat
      /\ AfterKeyStep(t) = Resting \/ KeyMoved(t, AfterKeyStep(t))
  <2>1. KeysOk /\ t.at \in {"key", "generate", "cache"} /\ t.key \in KeyVals /\ KeyStep(t)
    BY <1>1, <1>2 DEF IgInv
  <2> HIDE DEF t
  <2>2. QED
    BY <2>1, KeyStepRecord DEF KeyStep, FindKey, GenerateKey, CacheKey
<1>3. KeysOk'
  BY <1>0, <1>2 DEF IgInv, KeysOk
<1>4. KeeperOk(keeper)'
  <2>1. CASE keeper' = Resting
    BY <2>1 DEF KeeperOk, Resting
  <2>2. CASE keeper' # Resting
    <3>0. KeyMoved(t, keeper') /\ Nothing \in KeyVals
      BY <1>0, <1>2, <2>2 DEF KeyVals
    <3>1. PICK a \in {"generate", "cache", "sign"}, k \in KeyVals :
             keeper' = [t EXCEPT !.at = a] \/ keeper' = [t EXCEPT !.at = a, !.key = k]
      BY <3>0, Zenon DEF KeyMoved
    <3>2. keeper' \in KeeperRecord
      BY <1>1, <3>1 DEF KeeperRecord
    <3>3. /\ keeper'.seen = t.seen /\ keeper'.kind = t.kind /\ keeper'.entry = t.entry
          /\ keeper'.old = t.old
      BY <1>1, <3>1 DEF KeeperRecord
    <3>4. QED
      BY <1>1, <3>2, <3>3 DEF KeeperOk, AtEntry
  <2>3. QED
    BY <2>1, <2>2
<1>5. QED
  BY <1>2, <1>3, <1>4 DEF IgInv, TablesOk, SaverOk, VerdictsOk

LEMMA SaveOk ==
    ASSUME IgInv, (\E k \in Entries, c \in Contents : BeginSave(k, c)) \/ AssignSave
    PROVE  IgInv'
<1>1. ASSUME NEW k \in Entries, NEW c \in Contents, BeginSave(k, c) PROVE IgInv'
  <2>1. entry[k] \in MaybeEntry /\ Nothing \in KeyVals
    BY DEF IgInv, TablesOk, KeyVals
  <2>2. SaverOk(saver)'
    <3>1. saver' = [at |-> "key", entry |-> k, key |-> Nothing, new |-> NewEntry(c), old |-> entry[k]]
      BY <1>1 DEF BeginSave
    <3>2. saver' \in SaverRecord /\ saver'.new = NewEntry(c)
      BY <2>1, <3>1, NewEntrySound DEF SaverRecord
    <3>3. QED
      BY <3>2, NewEntrySound DEF SaverOk
  <2>3. QED
    BY <1>1, <2>2 DEF BeginSave, IgInv, KeysOk, TablesOk, KeeperOk, AtEntry, VerdictsOk
<1>2. ASSUME AssignSave PROVE IgInv'
  <2> DEFINE e == Stamped(saver.new, cachedKey)
  <2>1. saver \in SaverRecord /\ saver.new.content = saver.new.written /\ cachedKey \in KeyVals
    BY <1>2 DEF AssignSave, IgInv, SaverOk, KeysOk
  <2>2. e \in SoundEntry
    BY <2>1, StampSound DEF SaverRecord, SoundEntry, Genuine
  <2>3. entry' = [entry EXCEPT ![saver.entry] = e] /\ saver' = [saver EXCEPT !.at = "persist", !.new = e]
    BY <1>2 DEF AssignSave
  <2> HIDE DEF e
  <2>4. entry' \in [Entries -> MaybeEntry]
    BY <2>2, <2>3 DEF IgInv, TablesOk, MaybeEntry
  <2>5. SaverOk(saver)'
    BY <2>1, <2>2, <2>3 DEF SaverOk, SaverRecord
  <2>6. QED
    BY <1>2, <2>4, <2>5 DEF AssignSave, IgInv, KeysOk, TablesOk, KeeperOk, AtEntry, VerdictsOk
<1>3. QED
  BY <1>1, <1>2

\* A row is written or an entry put back.
LEMMA PersistedOk ==
    ASSUME TablesOk, NEW t, NEW who, t.entry \in Entries, t.new \in MaybeEntry, t.old \in MaybeEntry,
           Persisted(t, who)
    PROVE  TablesOk'
BY DEF TablesOk, Persisted

LEMMA PersistOk ==
    ASSUME IgInv, PersistSave \/ PersistOne
    PROVE  IgInv'
<1>1. CASE PersistSave
  <2>1. saver \in SaverRecord
    BY <1>1 DEF PersistSave, IgInv, SaverOk
  <2>2. saver.entry \in Entries /\ saver.new \in MaybeEntry /\ saver.old \in MaybeEntry
    BY <2>1 DEF SaverRecord, MaybeEntry
  <2>3. TablesOk'
    BY <1>1, <2>2, PersistedOk DEF PersistSave, IgInv
  <2>4. SaverOk(saver)'
    BY <1>1 DEF PersistSave, SaverOk, Resting
  <2>5. QED
    BY <1>1, <2>3, <2>4 DEF PersistSave, IgInv, KeysOk, KeeperOk, AtEntry, VerdictsOk
<1>2. CASE PersistOne
  <2>1. keeper \in KeeperRecord /\ AtEntry(keeper) /\ keeper' = [keeper EXCEPT !.at = "next"]
        /\ (keeper.kind = "verify" => keeper.seen \in [Entries -> MaybeEntry])
    BY <1>2 DEF PersistOne, IgInv, KeeperOk
  <2>2. keeper.entry \in Entries /\ keeper.new \in MaybeEntry /\ keeper.old \in MaybeEntry
    BY <2>1 DEF KeeperRecord, AtEntry
  <2>3. TablesOk'
    BY <1>2, <2>2, PersistedOk DEF PersistOne, IgInv
  <2>4. KeeperOk(keeper)'
    BY <2>1 DEF KeeperOk, KeeperRecord
  <2>5. QED
    BY <1>2, <2>3, <2>4 DEF PersistOne, IgInv, KeysOk, SaverOk, VerdictsOk
<1>3. QED
  BY <1>1, <1>2

LEMMA PassOk ==
    ASSUME IgInv, (\E kind \in {"verify", "rehash", "resign"} : BeginPass(kind)) \/ EndPass
    PROVE  IgInv'
<1>1. ASSUME NEW kind \in {"verify", "rehash", "resign"}, BeginPass(kind) PROVE IgInv'
  <2>1. keeper' = [at |-> "next", kind |-> kind, todo |-> {k \in Entries : entry[k] # Nothing},
                   seen |-> IF kind = "verify" THEN entry ELSE Nothing, entry |-> Nothing,
                   key |-> Nothing, new |-> Nothing, old |-> Nothing]
    BY <1>1 DEF BeginPass
  <2>2. entry \in [Entries -> MaybeEntry] /\ Nothing \in KeyVals /\ Nothing \in MaybeEntry
    BY DEF IgInv, TablesOk, KeyVals, MaybeEntry
  <2>3. keeper' \in KeeperRecord
    BY <2>1, <2>2 DEF KeeperRecord
  <2>4. KeeperOk(keeper)'
    BY <2>1, <2>2, <2>3 DEF KeeperOk
  <2>5. QED
    BY <1>1, <2>4 DEF BeginPass, IgInv, KeysOk, TablesOk, SaverOk, VerdictsOk
<1>2. CASE EndPass
  BY <1>2 DEF EndPass, Resting, IgInv, KeysOk, TablesOk, SaverOk, KeeperOk, VerdictsOk
<1>3. QED
  BY <1>1, <1>2

LEMMA ReadNextOk ==
    ASSUME IgInv, NEW k \in Entries, ReadNext(k)
    PROVE  IgInv'
<1> DEFINE e == IF keeper.kind = "verify" THEN keeper.seen[k] ELSE entry[k]
           skip == \/ e = Nothing
                   \/ keeper.kind # "resign" /\ e.hash = Nothing
                   \/ keeper.kind = "rehash" /\ e.version >= 2
<1>1. /\ keeper \in KeeperRecord /\ keeper.at = "next"
      /\ (keeper.kind = "verify" => keeper.seen \in [Entries -> MaybeEntry])
  BY DEF ReadNext, IgInv, KeeperOk
<1>2. e \in MaybeEntry
  BY <1>1 DEF IgInv, TablesOk
<1>3. keeper' = IF skip THEN [keeper EXCEPT !.todo = @ \ {k}]
                ELSE [keeper EXCEPT !.at = "key", !.todo = @ \ {k}, !.entry = k, !.old = e]
  BY DEF ReadNext
<1> HIDE DEF e
<1>4. KeeperOk(keeper)'
  <2>1. CASE skip
    <3>1. keeper' = [keeper EXCEPT !.todo = @ \ {k}]
      BY <1>3, <2>1
    <3>2. QED
      BY <1>1, <3>1 DEF KeeperOk, KeeperRecord
  <2>2. CASE ~skip
    <3>1. keeper' = [keeper EXCEPT !.at = "key", !.todo = @ \ {k}, !.entry = k, !.old = e]
      BY <1>3, <2>2
    <3>2. keeper' \in KeeperRecord
      BY <1>1, <1>2, <3>1 DEF KeeperRecord
    <3>3. keeper'.seen = keeper.seen /\ keeper'.kind = keeper.kind /\ keeper'.entry = k /\ keeper'.old = e
      BY <1>1, <3>1 DEF KeeperRecord
    <3>4. e \in SoundEntry
      BY <1>2, <2>2 DEF MaybeEntry
    <3>5. e.version \in {1, 2}
      BY <3>4 DEF SoundEntry, SignedEntry
    <3>6. (keeper.kind # "resign" => e.hash # Nothing) /\ (keeper.kind = "rehash" => e.version = 1)
      BY <2>2, <3>5
    <3>7. AtEntry(keeper')
      BY <3>3, <3>4, <3>6 DEF AtEntry
    <3>8. QED
      BY <1>1, <3>2, <3>3, <3>7 DEF KeeperOk, AtEntry
  <2>3. QED
    BY <2>1, <2>2
<1>5. QED
  BY <1>4 DEF ReadNext, IgInv, KeysOk, TablesOk, SaverOk, VerdictsOk

LEMMA VerifyOneOk ==
    ASSUME IgInv, VerifyOne
    PROVE  IgInv'
<1> DEFINE v == [of |-> keeper.old, key |-> cachedKey, ok |-> Verifies(keeper.old, cachedKey)]
<1>1. /\ keeper \in KeeperRecord /\ AtEntry(keeper) /\ keeper.kind = "verify"
      /\ keeper.seen \in [Entries -> MaybeEntry] /\ keeper' = [keeper EXCEPT !.at = "next"]
  BY DEF VerifyOne, IgInv, KeeperOk
<1>2. v.ok => Genuine(v.of)
  BY <1>1, VerifiedGenuine DEF AtEntry
<1>3. verdicts' = [verdicts EXCEPT ![keeper.entry] = v]
  BY DEF VerifyOne
<1> HIDE DEF v
<1>4. VerdictsOk'
  BY <1>2, <1>3 DEF IgInv, VerdictsOk, Genuine
<1>5. KeeperOk(keeper)'
  BY <1>1 DEF KeeperOk, KeeperRecord
<1>6. QED
  BY <1>4, <1>5 DEF VerifyOne, IgInv, KeysOk, TablesOk, SaverOk

LEMMA RewriteOneOk ==
    ASSUME IgInv, RewriteOne
    PROVE  IgInv'
<1> DEFINE e == Rewritten(keeper.old, keeper.kind)
<1>1. /\ keeper \in KeeperRecord /\ AtEntry(keeper) /\ keeper.kind \in {"rehash", "resign"}
  BY DEF RewriteOne, IgInv, KeeperOk, KeeperRecord
<1>2. e \in SoundEntry
  BY <1>1, RewrittenSound DEF AtEntry, IgInv
<1>3. \/ keeper' = [keeper EXCEPT !.at = "next"] /\ UNCHANGED entry
      \/ /\ entry' = [entry EXCEPT ![keeper.entry] = e]
         /\ keeper' = [keeper EXCEPT !.at = "persist", !.new = e]
  BY DEF RewriteOne
<1> HIDE DEF e
<1>4. entry' \in [Entries -> MaybeEntry]
  BY <1>2, <1>3 DEF IgInv, TablesOk, MaybeEntry
<1>5. /\ keeper' \in KeeperRecord /\ keeper'.kind = keeper.kind
      /\ keeper'.entry = keeper.entry /\ keeper'.old = keeper.old
  BY <1>1, <1>2, <1>3 DEF KeeperRecord, MaybeEntry
<1>6. KeeperOk(keeper)'
  BY <1>1, <1>5 DEF KeeperOk, AtEntry
<1>7. QED
  BY <1>4, <1>6 DEF RewriteOne, IgInv, KeysOk, TablesOk, SaverOk, VerdictsOk

LEMMA SurroundingsOk ==
    ASSUME IgInv, \/ \E k \in Entries, c \in Contents : Tamper(k, c)
                  \/ Truncate
                  \/ \E env \in {Nothing, 0, -1}, flag \in BOOLEAN : Boot(env, flag)
    PROVE  IgInv'
<1>1. ASSUME NEW k \in Entries, NEW c \in Contents, Tamper(k, c) PROVE IgInv'
  <2> DEFINE r == signedRow[k]
             s == [r EXCEPT !.content = c, !.touched = TRUE]
  <2>1. r \in SignedEntry /\ Covers(r)
    BY <1>1 DEF Tamper, IgInv, TablesOk, MaybeEntry, SoundEntry
  <2>2. s \in SignedEntry /\ s.hash = r.hash /\ s.old = r.old /\ s.written = r.written
    BY <2>1 DEF SignedEntry
  <2>3. signedRow' = [signedRow EXCEPT ![k] = s]
    BY <1>1 DEF Tamper
  <2> HIDE DEF r, s
  <2>4. s \in MaybeEntry
    BY <2>1, <2>2 DEF Covers, SoundEntry, MaybeEntry
  <2>5. signedRow' \in [Entries -> MaybeEntry]
    BY <2>3, <2>4 DEF IgInv, TablesOk
  <2>6. QED
    BY <1>1, <2>5 DEF Tamper, IgInv, KeysOk, TablesOk, SaverOk, KeeperOk, AtEntry, VerdictsOk
<1>2. CASE Truncate
  BY <1>2 DEF Truncate, KeyVals, IgInv, KeysOk, TablesOk, SaverOk, KeeperOk, AtEntry, VerdictsOk
<1>3. ASSUME NEW env \in {Nothing, 0, -1}, NEW flag \in BOOLEAN, Boot(env, flag) PROVE IgInv'
  <2>1. entry' \in [Entries -> MaybeEntry]
    <3>1. \A k \in Entries : signedRow[k] # Nothing => [signedRow[k] EXCEPT !.by = "load"] \in SoundEntry
      BY ByAnyone DEF IgInv, TablesOk, MaybeEntry
    <3>2. QED
      BY <1>3, <3>1 DEF Boot, MaybeEntry
  <2>2. KeysOk'
    BY <1>3 DEF Boot, IgInv, KeysOk, KeyVals
  <2>3. SaverOk(saver)' /\ KeeperOk(keeper)'
    BY <1>3 DEF Boot, Resting, SaverOk, KeeperOk
  <2>4. QED
    BY <1>3, <2>1, <2>2, <2>3 DEF Boot, IgInv, TablesOk, VerdictsOk
<1>4. QED
  BY <1>1, <1>2, <1>3

LEMMA IgStepOk == IgInv /\ [IgNext]_igVars => IgInv'
<1> SUFFICES ASSUME IgInv, [IgNext]_igVars PROVE IgInv'
  OBVIOUS
<1>1. CASE UNCHANGED igVars
  BY <1>1 DEF igVars, IgInv, KeysOk, TablesOk, SaverOk, KeeperOk, AtEntry, VerdictsOk
<1>2. QED
  BY <1>1, SaveOk, SaverKeyStepOk, PersistOk, PassOk, ReadNextOk, KeeperKeyStepOk, VerifyOneOk,
     RewriteOneOk, SurroundingsOk DEF IgNext

\* For any contents and any legacy text: whatever is saved, changed in the database,
\* upgraded, re-signed or restarted meanwhile, an entry that verify_integrity vouches
\* for has the content that was written, or one its legacy hash could not tell from it.
THEOREM NoLaundering == IgSpec => []VouchedIsGenuine
<1>1. IgInv => VouchedIsGenuine
  BY DEF IgInv, VerdictsOk, VouchedIsGenuine, Genuine
<1>2. QED
  BY <1>1, IgInitOk, IgStepOk, PTL DEF IgSpec

(***************************************************************************)
(* Recall, for every finite set of rows, every limit and budget and every  *)
(* number of concurrent changes. The inductive invariant follows a row     *)
(* through the steps of the call: JudgedInv says how far the retriever has *)
(* judged what it carries, ReachedInv where a showable row that matches    *)
(* the words must be by now.                                               *)
(***************************************************************************)
\* A call as a record with its fields.
CallForm(c) ==
  c = [op |-> c.op, pc |-> c.pc, opts |-> c.opts, window |-> c.window, failed |-> c.failed,
       changed |-> c.changed, truncated |-> c.truncated, warn |-> c.warn]

\* The call c has moved on to d, which stands at s.
Moved(c, d, s) ==
  CallForm(d) /\ d.op = c.op /\ d.pc = s /\ d.opts = c.opts /\ d.window = c.window

Undisturbed(c, d) == (d.changed <=> c.changed) /\ (d.failed <=> c.failed)

Steps == {"idle", "fts", "knn", "scan", "vector", "hydrate", "rank", "inject", "hive", "post", "done"}

\* Nothing has been ranked yet.
Early == {"idle", "fts", "knn", "scan", "vector", "hydrate", "rank"}

RcTypeOK ==
  /\ row \in [Memories -> Kinds] /\ seenRows \in [Memories -> Kinds]
  /\ lex \subseteq Memories /\ vec \subseteq Memories /\ pending \subseteq Memories
  /\ CallForm(call) /\ answer = [items |-> answer.items, reason |-> answer.reason]
  /\ call.op = "recall" => call.pc \in Steps /\ call.opts = {}
  /\ \A m \in local : m.key \in Memories /\ m.src = "local" /\ m.at \in Nat
  /\ call.pc \in Early => local = {} /\ ~call.truncated

\* What the retriever has let through may be shown as far as it was judged.
JudgedInv ==
  call.op = "recall" =>
    /\ At("rank") => \A k \in pending : Own(seenRows[k]) /\ PendingFilter(seenRows[k])
    /\ At("inject") => \A m \in local : Own(seenRows[m.key]) /\ PendingFilter(seenRows[m.key])
    /\ At("hive") => \A m \in local : seenRows[m.key] = "good"
    /\ At("post") \/ At("done") => \A m \in answer.items : m.src = "local" => seenRows[m.key] = "good"

\* How far a showable row that matches the words has come.
Reached(k) ==
  /\ At("knn") => k \in lex /\ seenRows[k] = "good"
  /\ At("scan") => lex = {} \/ (k \in lex /\ seenRows[k] = "good")
  /\ At("vector") \/ At("hydrate") => k \in lex
  /\ At("rank") => k \in pending /\ seenRows[k] = "good"
  /\ At("inject") => k \in KeysOf(local) /\ seenRows[k] = "good"
  /\ At("hive") => k \in KeysOf(local)
  /\ At("post") => k \in KeysOf(answer.items)
  /\ At("done") => k \in call.window \/ k \in KeysOf(answer.items)

ReachedInv ==
  call.op = "recall" /\ ~call.changed /\ ~call.truncated /\ ~call.failed =>
    \A k \in Memories : row[k] = "good" /\ "lex" \in match[k] => Reached(k)

RcInv == RcTypeOK /\ JudgedInv /\ ReachedInv

\* A step of the call, alone or with one of its flags.
LEMMA StepOfCall ==
  ASSUME NEW c, CallForm(c), NEW s, NEW d, d = [c EXCEPT !.pc = s]
  PROVE  Moved(c, d, s) /\ Undisturbed(c, d) /\ (d.truncated <=> c.truncated)
BY DEF CallForm, Moved, Undisturbed

LEMMA WithWarning ==
  ASSUME NEW c, NEW g, NEW d, NEW s, Moved(c, g, s), Undisturbed(c, g), NEW b, d = [g EXCEPT !.warn = b]
  PROVE  Moved(c, d, s) /\ Undisturbed(c, d) /\ (d.truncated <=> g.truncated)
BY DEF CallForm, Moved, Undisturbed

LEMMA WithCut ==
  ASSUME NEW c, NEW g, NEW d, NEW s, Moved(c, g, s), Undisturbed(c, g), NEW b \in BOOLEAN,
         d = [g EXCEPT !.truncated = b]
  PROVE  Moved(c, d, s) /\ Undisturbed(c, d) /\ (d.truncated <=> b)
BY DEF CallForm, Moved, Undisturbed

LEMMA WithFailure ==
  ASSUME NEW c, NEW g, NEW d, NEW s, Moved(c, g, s), d = [g EXCEPT !.warn = TRUE, !.failed = TRUE]
  PROVE  Moved(c, d, s) /\ d.failed
BY DEF CallForm, Moved

\* The best rows of a list are rows of it, and a list has the keys it was made of.
LEMMA ListFacts ==
  ASSUME NEW S \in SUBSET Memories, NEW first, NEW src
  PROVE  /\ KeysOf(Ranked(S, first, src)) = S
         /\ \A m \in Ranked(S, first, src) : m.key \in S /\ m.src = src /\ m.at \in Nat
<1>1. ASSUME NEW k PROVE Cardinality({j \in S : Before(j, k, first)}) \in Nat
  BY MemoriesAssumption, FS_Subset, FS_CardinalityType
<1>2. ASSUME NEW m \in Ranked(S, first, src)
      PROVE  m.key \in S /\ m.src = src /\ m.at \in Nat
  <2>1. PICK k \in S : m = [key |-> k, src |-> src, at |-> Cardinality({j \in S : Before(j, k, first)})]
    BY <1>2, Zenon DEF Ranked
  <2> QED
    BY <1>1, <2>1
<1>3. ASSUME NEW k \in S PROVE k \in KeysOf(Ranked(S, first, src))
  <2> DEFINE item == [key |-> k, src |-> src, at |-> Cardinality({j \in S : Before(j, k, first)})]
  <2>1. item \in Ranked(S, first, src)
    BY DEF Ranked
  <2>2. item.key = k
    OBVIOUS
  <2> QED
    BY <2>1, <2>2 DEF KeysOf
<1> QED
  BY <1>2, <1>3 DEF KeysOf

LEMMA TopIsPart == ASSUME NEW items, NEW n PROVE Top(items, n) \subseteq items
BY DEF Top

LEMMA RcInitHolds == RcInit => RcInv
<1> SUFFICES ASSUME RcInit PROVE RcInv
  OBVIOUS
<1>1. call.op = "none" /\ call.pc = "idle" /\ CallForm(call) /\ ~call.truncated
  BY DEF RcInit, Idle, NoCall, CallForm
<1> QED
  BY <1>1 DEF RcInit, Idle, RcInv, RcTypeOK, JudgedInv, ReachedInv, Kinds

LEMMA StartKeeps ==
  ASSUME RcInv, NEW w, StartRecall(w) \/ StartBrainRecall(w) PROVE RcInv'
<1>1. CASE StartRecall(w)
  <2>1. call' = [op |-> "recall", pc |-> "fts", opts |-> {}, window |-> w, failed |-> FALSE,
                 changed |-> FALSE, truncated |-> FALSE, warn |-> FALSE]
    BY <1>1 DEF StartRecall, NoCall
  <2>2. CallForm(call') /\ call'.op = "recall" /\ call'.pc = "fts" /\ call'.opts = {}
      /\ ~call'.truncated
    BY <2>1 DEF CallForm
  <2>3. RcTypeOK'
    BY <1>1, <2>2 DEF StartRecall, RcInv, RcTypeOK, At, Steps, Early
  <2> QED
    BY <2>2, <2>3 DEF RcInv, JudgedInv, ReachedInv, Reached, At
<1>2. CASE StartBrainRecall(w)
  <2>1. call' = [op |-> "brain", pc |-> "fts", opts |-> w, window |-> {}, failed |-> FALSE,
                 changed |-> FALSE, truncated |-> FALSE, warn |-> FALSE]
    BY <1>2 DEF StartBrainRecall, NoCall
  <2>2. CallForm(call') /\ call'.op = "brain" /\ call'.pc = "fts" /\ ~call'.truncated
    BY <2>1 DEF CallForm
  <2> QED
    BY <1>2, <2>2 DEF StartBrainRecall, RcInv, RcTypeOK, JudgedInv, ReachedInv, At, Early
<1> QED
  BY <1>1, <1>2

\* The full-text query.
LEMMA FtsKeeps ==
  ASSUME RcInv, NEW ok \in BOOLEAN, Fts(ok) PROVE RcInv'
<1> DEFINE found == IF ok THEN FtsRows(row, SearchOpts(call.opts)) ELSE {}
<1>1. /\ At("fts") /\ lex' = found /\ seenRows' = Read(found)
      /\ UNCHANGED <<row, match, changes, vec, pending, local, answer>>
      /\ ok => call' = Go("knn")
      /\ ~ok /\ call.op = "brain" => call' = [Go("done") EXCEPT !.warn = TRUE]
      /\ ~ok /\ call.op # "brain" => call' = Go("scan")
  BY DEF Fts
<1>2. found \subseteq Memories
  BY DEF FtsRows
<1>3. seenRows' \in [Memories -> Kinds]
  BY <1>1 DEF Read, RcInv, RcTypeOK
<1>4. ASSUME call.op = "recall", ok, NEW k \in Memories, row[k] = "good", "lex" \in match[k]
      PROVE k \in found
  BY <1>4 DEF FtsRows, SearchOpts, LiveRow, IsTemporallyValid, ActiveStatus, Closed, RcInv, RcTypeOK
<1>5. ASSUME call.op = "recall", ok, NEW k \in Memories, row[k] = "good", "lex" \in match[k]
      PROVE k \in lex' /\ seenRows'[k] = "good"
  BY <1>1, <1>4, <1>5 DEF Read
<1>6. ~ok => lex' = {}
  BY <1>1
<1>7. lex' \subseteq Memories
  BY <1>1, <1>2
<1> HIDE DEF found
<1>8. CallForm(call)
  BY DEF RcInv, RcTypeOK
<1>9. CASE ok
  <2>1. Moved(call, call', "knn") /\ Undisturbed(call, call') /\ (call'.truncated <=> call.truncated)
    BY <1>1, <1>8, <1>9, StepOfCall DEF Go
  <2> QED
    BY <1>1, <1>3, <1>5, <1>7, <1>9, <2>1
    DEF RcInv, RcTypeOK, JudgedInv, ReachedInv, Moved, Undisturbed, At, Steps, Early, Reached
<1>10. CASE ~ok /\ call.op = "brain"
  <2>1. Moved(call, Go("done"), "done") /\ Undisturbed(call, Go("done"))
    BY <1>8, StepOfCall DEF Go
  <2>2. Moved(call, call', "done")
    BY <1>1, <1>10, <2>1, WithWarning, Zenon
  <2> QED
    BY <1>1, <1>3, <1>7, <1>10, <2>2
    DEF RcInv, RcTypeOK, JudgedInv, ReachedInv, Moved, At, Early
<1>11. CASE ~ok /\ call.op # "brain"
  <2>1. Moved(call, call', "scan") /\ Undisturbed(call, call') /\ (call'.truncated <=> call.truncated)
    BY <1>1, <1>8, <1>11, StepOfCall DEF Go
  <2> QED
    BY <1>1, <1>3, <1>6, <1>7, <1>11, <2>1
    DEF RcInv, RcTypeOK, JudgedInv, ReachedInv, Moved, Undisturbed, At, Steps, Early, Reached
<1> QED
  BY <1>9, <1>10, <1>11

\* The vector branch of the search.
LEMMA KnnKeeps ==
  ASSUME RcInv, NEW ok \in BOOLEAN, NEW near, StoreKnn(ok, near) PROVE RcInv'
<1>1. PICK joined \in SUBSET Memories : lex' = lex \cup joined /\ seenRows' = Read(joined)
  BY DEF StoreKnn, KnnRows
<1>2. seenRows' \in [Memories -> Kinds] /\ lex' \subseteq Memories
  BY <1>1 DEF Read, RcInv, RcTypeOK
<1>3. \A k \in Memories : k \in lex /\ seenRows[k] = "good" /\ row[k] = "good"
                          => k \in lex' /\ seenRows'[k] = "good"
  BY <1>1 DEF Read
<1>4. /\ At("knn") /\ UNCHANGED <<row, match, changes, vec, pending, local, answer>>
      /\ call.op = "brain" => call' = Go("brain")
      /\ call.op # "brain" => call' = Go("scan")
  BY DEF StoreKnn
<1>5. CallForm(call)
  BY DEF RcInv, RcTypeOK
<1>6. CASE call.op = "brain"
  <2>1. Moved(call, call', "brain")
    BY <1>4, <1>5, <1>6, StepOfCall DEF Go
  <2> QED
    BY <1>2, <1>4, <1>6, <2>1 DEF RcInv, RcTypeOK, JudgedInv, ReachedInv, Moved, At, Early
<1>7. CASE call.op # "brain"
  <2>1. Moved(call, call', "scan") /\ Undisturbed(call, call') /\ (call'.truncated <=> call.truncated)
    BY <1>4, <1>5, <1>7, StepOfCall DEF Go
  <2> QED
    BY <1>2, <1>3, <1>4, <2>1
    DEF RcInv, RcTypeOK, JudgedInv, ReachedInv, Moved, Undisturbed, At, Steps, Early, Reached
<1> QED
  BY <1>6, <1>7

LEMMA BrainKeeps == ASSUME RcInv, AnswerBrain, call.op # "recall" PROVE RcInv'
<1>1. CallForm(call)
  BY DEF RcInv, RcTypeOK
<1>2. PICK b \in BOOLEAN : call' = [Go("done") EXCEPT !.truncated = b]
  BY DEF AnswerBrain
<1>3. Moved(call, Go("done"), "done") /\ Undisturbed(call, Go("done"))
  BY <1>1, StepOfCall DEF Go
<1>4. Moved(call, call', "done")
  BY <1>2, <1>3, WithCut, Zenon
<1>5. answer' = [items |-> answer'.items, reason |-> answer'.reason]
      /\ UNCHANGED <<row, match, changes, seenRows, lex, vec, pending, local>>
  BY DEF AnswerBrain
<1> QED
  BY <1>4, <1>5 DEF AnswerBrain, RcInv, RcTypeOK, JudgedInv, ReachedInv, Moved, At, Early

\* The candidates: what the search found, or the cached corpus.
LEMMA CandidatesKeep == ASSUME RcInv, GetCandidates PROVE RcInv'
<1> DEFINE found == {k \in lex : SearchFilter(seenRows[k], {})}
<1>1. lex' = (IF found = {} THEN FullScan(row) ELSE found)
  BY DEF GetCandidates, Candidates
<1>2. lex' \subseteq Memories
  BY <1>1 DEF FullScan, RcInv, RcTypeOK
<1>3. ASSUME NEW k \in Memories, row[k] = "good", "lex" \in match[k],
             lex = {} \/ (k \in lex /\ seenRows[k] = "good")
      PROVE  k \in lex'
  <2>1. k \in FullScan(row)
    BY <1>3 DEF FullScan, Own, Contradicted, IsTemporallyValid, Closed
  <2>2. k \in lex => k \in found
    BY <1>3 DEF SearchFilter, IsTemporallyValid, Contradicted, Closed
  <2> QED
    BY <1>1, <1>3, <2>1, <2>2
<1> HIDE DEF found
<1>4. At("scan") /\ call' = Go("vector")
      /\ UNCHANGED <<row, match, changes, seenRows, vec, pending, local, answer>>
  BY DEF GetCandidates
<1>5. CallForm(call)
  BY DEF RcInv, RcTypeOK
<1>6. Moved(call, call', "vector") /\ Undisturbed(call, call') /\ (call'.truncated <=> call.truncated)
  BY <1>4, <1>5, StepOfCall DEF Go
<1> QED
  BY <1>2, <1>3, <1>4, <1>6
  DEF RcInv, RcTypeOK, JudgedInv, ReachedInv, Moved, Undisturbed, At, Steps, Early, Reached

LEMMA VectorKeeps ==
  ASSUME RcInv, NEW e \in BOOLEAN, NEW n \in BOOLEAN, VectorSearch(e, n) PROVE RcInv'
<1>1. vec' \subseteq Memories
  BY DEF VectorSearch, KnnRows, EmbeddedCorpus
<1>2. At("vector") /\ call' = Go("hydrate")
      /\ UNCHANGED <<row, match, changes, seenRows, lex, pending, local, answer>>
  BY DEF VectorSearch
<1>3. CallForm(call)
  BY DEF RcInv, RcTypeOK
<1>4. Moved(call, call', "hydrate") /\ Undisturbed(call, call') /\ (call'.truncated <=> call.truncated)
  BY <1>2, <1>3, StepOfCall DEF Go
<1> QED
  BY <1>1, <1>2, <1>4
  DEF RcInv, RcTypeOK, JudgedInv, ReachedInv, Moved, Undisturbed, At, Steps, Early, Reached

\* Hydration: from here on the version read now is the one that is judged.
LEMMA HydrateKeeps == ASSUME RcInv, NEW ok \in BOOLEAN, Hydrate(ok) PROVE RcInv'
<1>1. At("hydrate") /\ UNCHANGED <<row, match, changes, lex, vec, local>>
  BY DEF Hydrate
<1>2. CallForm(call)
  BY DEF RcInv, RcTypeOK
<1>3. CASE ok
  <2>1. /\ seenRows' = row /\ call' = Go("rank") /\ answer' = answer
        /\ pending' = {k \in lex \cup vec : Own(row[k]) /\ PendingFilter(row[k])}
    BY <1>3 DEF Hydrate
  <2>2. Moved(call, call', "rank") /\ Undisturbed(call, call') /\ (call'.truncated <=> call.truncated)
    BY <1>2, <2>1, StepOfCall DEF Go
  <2>3. \A k \in pending' : Own(seenRows'[k]) /\ PendingFilter(seenRows'[k])
    BY <2>1
  <2>4. \A k \in lex : row[k] = "good" => k \in pending' /\ seenRows'[k] = "good"
    BY <2>1 DEF Own, PendingFilter, IsConsolidatedSource, ExcludedStatus, Contradicted,
                IsTemporallyValid, Closed
  <2>5. pending' \subseteq Memories
    BY <2>1 DEF RcInv, RcTypeOK
  <2> QED
    BY <1>1, <2>1, <2>2, <2>3, <2>4, <2>5
    DEF RcInv, RcTypeOK, JudgedInv, ReachedInv, Moved, Undisturbed, At, Steps, Early, Reached
<1>4. CASE ~ok
  <2>1. /\ call' = [Go("hive") EXCEPT !.warn = TRUE, !.failed = TRUE]
        /\ answer' = [answer EXCEPT !.reason = "search_failed"]
        /\ UNCHANGED <<seenRows, pending>>
    BY <1>4 DEF Hydrate
  <2>2. Moved(call, Go("hive"), "hive")
    BY <1>2, StepOfCall DEF Go
  <2>3. Moved(call, call', "hive") /\ call'.failed
    BY <2>1, <2>2, WithFailure, Zenon
  <2>4. answer' = [items |-> answer'.items, reason |-> answer'.reason]
    BY <2>1 DEF RcInv, RcTypeOK
  <2> QED
    BY <1>1, <2>1, <2>3, <2>4
    DEF RcInv, RcTypeOK, JudgedInv, ReachedInv, Moved, At, Steps, Early
<1> QED
  BY <1>3, <1>4

\* Ranking and the cut.
LEMMA RankKeeps ==
  ASSUME RcInv, NEW first \in SUBSET Memories, Rank(first) PROVE RcInv'
<1> DEFINE all == Ranked(pending, first, "local")
<1>1. /\ At("rank") /\ local' = Top(all, Limit)
      /\ call' = [Go("inject") EXCEPT !.truncated = local' # all]
      /\ UNCHANGED <<row, match, changes, seenRows, lex, vec, pending, answer>>
  BY DEF Rank
<1>2. CallForm(call) /\ pending \in SUBSET Memories
  BY DEF RcInv, RcTypeOK
<1>3. KeysOf(all) = pending /\ \A m \in all : m.key \in pending /\ m.src = "local" /\ m.at \in Nat
  BY <1>2, ListFacts
<1>4. local' \subseteq all
  BY <1>1, TopIsPart
<1> HIDE DEF all
<1>5. Moved(call, Go("inject"), "inject") /\ Undisturbed(call, Go("inject"))
  BY <1>2, StepOfCall DEF Go
<1>6. Moved(call, call', "inject") /\ Undisturbed(call, call') /\ (call'.truncated <=> local' # all)
  <2> DEFINE cut == local' # all
  <2>1. cut \in BOOLEAN /\ call' = [Go("inject") EXCEPT !.truncated = cut]
    BY <1>1
  <2> HIDE DEF cut
  <2>2. Moved(call, call', "inject") /\ Undisturbed(call, call') /\ (call'.truncated <=> cut)
    BY <1>5, <2>1, WithCut
  <2> QED
    BY <2>2 DEF cut
<1>7. \A m \in local' : m.key \in pending /\ m.src = "local" /\ m.at \in Nat
  BY <1>3, <1>4
<1>8. ~call'.truncated => KeysOf(local') = pending
  BY <1>3, <1>6
<1>9. RcTypeOK'
  BY <1>1, <1>2, <1>6, <1>7 DEF RcInv, RcTypeOK, Moved, At, Steps, Early
<1>10. JudgedInv'
  BY <1>1, <1>6, <1>7 DEF RcInv, JudgedInv, Moved, At
<1>11. call.op = "recall" /\ ~call.changed /\ ~call.failed =>
         \A k \in Memories : row[k] = "good" /\ "lex" \in match[k] => k \in pending /\ seenRows[k] = "good"
  BY <1>1 DEF ReachedInv, Reached, RcInv, RcTypeOK, Early, At
<1>12. ReachedInv'
  BY <1>1, <1>6, <1>8, <1>11 DEF ReachedInv, Reached, Moved, Undisturbed, At
<1> QED
  BY <1>9, <1>10, <1>12 DEF RcInv

\* What passes every filter and both injection checks is good.
LEMMA InjectedIsGood ==
  ASSUME NEW kind \in Kinds, Own(kind), PendingFilter(kind), kind # "weak", kind # "unsafe"
  PROVE  kind = "good"
BY DEF Kinds, Own, PendingFilter, IsConsolidatedSource, ExcludedStatus, Contradicted,
       IsTemporallyValid, Closed

LEMMA InjectKeeps == ASSUME RcInv, Inject PROVE RcInv'
<1> DEFINE scored == {m \in local : seenRows[m.key] # "weak"}
           safe == {m \in scored : seenRows[m.key] # "unsafe"}
           flag == call.truncated \/ local' # safe
<1>1. /\ At("inject") /\ local' = Top(safe, LocalBudget)
      /\ UNCHANGED <<row, match, changes, seenRows, lex, vec, pending>>
  BY DEF Inject
<1>2. PICK reason : answer' = [answer EXCEPT !.reason = reason]
  BY DEF Inject
<1>3. call' = [Go("hive") EXCEPT !.truncated = flag] /\ flag \in BOOLEAN
  <2>1. Go("hive").truncated = call.truncated
    BY DEF Go, RcInv, RcTypeOK, CallForm
  <2>2. call' = [Go("hive") EXCEPT !.truncated = Go("hive").truncated \/ local' # safe]
    BY DEF Inject
  <2> QED
    BY <2>1, <2>2
<1>4. CallForm(call)
  BY DEF RcInv, RcTypeOK
<1>5. Moved(call, Go("hive"), "hive") /\ Undisturbed(call, Go("hive"))
  BY <1>4, StepOfCall DEF Go
<1> HIDE DEF flag
<1>6. Moved(call, call', "hive") /\ Undisturbed(call, call') /\ (call'.truncated <=> flag)
  BY <1>3, <1>5, WithCut
<1>7. answer' = [items |-> answer'.items, reason |-> answer'.reason]
  BY <1>2 DEF RcInv, RcTypeOK
<1>8. local' \subseteq safe
  BY <1>1, TopIsPart
<1>9. RcTypeOK'
  BY <1>1, <1>6, <1>7, <1>8 DEF RcInv, RcTypeOK, Moved, At, Steps, Early
<1>10. JudgedInv'
  <2>1. ASSUME call.op = "recall", NEW m \in local' PROVE seenRows[m.key] = "good"
    <3>1. m \in local /\ seenRows[m.key] # "weak" /\ seenRows[m.key] # "unsafe"
      BY <1>8, <2>1
    <3>2. seenRows[m.key] \in Kinds
      BY <3>1 DEF RcInv, RcTypeOK
    <3>3. Own(seenRows[m.key]) /\ PendingFilter(seenRows[m.key])
      BY <1>1, <2>1, <3>1 DEF RcInv, JudgedInv
    <3> QED
      BY <3>1, <3>2, <3>3, InjectedIsGood
  <2> QED
    BY <1>1, <1>6, <2>1 DEF JudgedInv, Moved, At
<1>11. ASSUME call.op = "recall", ~call'.changed, ~call'.truncated, ~call'.failed,
              NEW k \in Memories, row[k] = "good", "lex" \in match[k]
       PROVE  k \in KeysOf(local')
  <2>1. ~call.truncated /\ local' = safe
    BY <1>6, <1>11 DEF flag
  <2>2. k \in KeysOf(local) /\ seenRows[k] = "good"
    BY <1>1, <1>6, <1>11, <2>1 DEF RcInv, ReachedInv, Reached, Undisturbed
  <2>3. PICK m \in local : m.key = k
    BY <2>2 DEF KeysOf
  <2>4. m \in safe
    BY <2>2, <2>3
  <2> QED
    BY <2>1, <2>3, <2>4 DEF KeysOf
<1>12. ReachedInv'
  BY <1>1, <1>6, <1>11 DEF ReachedInv, Reached, Moved, Undisturbed, At
<1> QED
  BY <1>9, <1>10, <1>12 DEF RcInv

\* Moving a list down keeps its rows.
LEMMA DownFacts ==
  ASSUME NEW items, NEW n
  PROVE  /\ \A m \in items : \E o \in Down(items, n) : o.key = m.key
         /\ \A o \in Down(items, n) : \E m \in items : o.key = m.key /\ o.src = m.src
<1>1. ASSUME NEW m \in items PROVE \E o \in Down(items, n) : o.key = m.key
  <2> DEFINE o == [key |-> m.key, src |-> m.src, at |-> m.at + n]
  <2>1. o \in Down(items, n) /\ o.key = m.key
    BY DEF Down
  <2> QED
    BY <2>1
<1>2. ASSUME NEW o \in Down(items, n) PROVE \E m \in items : o.key = m.key /\ o.src = m.src
  <2>1. PICK m \in items : o = [key |-> m.key, src |-> m.src, at |-> m.at + n]
    BY DEF Down
  <2> QED
    BY <2>1
<1> QED
  BY <1>1, <1>2

\* The Hive's rows join the injected ones.
LEMMA HiveKeeps ==
  ASSUME RcInv, NEW ok \in BOOLEAN, NEW found \in SUBSET Memories, NEW p \in Nat, MergeHive(ok, found, p)
  PROVE  RcInv'
<1> DEFINE fresh == IF ok THEN found \ KeysOf(local) ELSE {}
           above == {m \in local : m.at < p}
           below == {m \in local : m.at >= p}
           joined == above \cup Down(Ranked(fresh, {}, "hive"), p) \cup Down(below, Cardinality(fresh))
<1>1. /\ At("hive") /\ answer' = [answer EXCEPT !.items = joined]
      /\ UNCHANGED <<row, match, changes, seenRows, lex, vec, pending, local>>
  BY DEF MergeHive
<1>2. PICK b : call' = [Go("post") EXCEPT !.warn = b]
  BY DEF MergeHive
<1>3. CallForm(call) /\ fresh \in SUBSET Memories
  BY DEF RcInv, RcTypeOK
<1>4. Moved(call, Go("post"), "post") /\ Undisturbed(call, Go("post"))
      /\ (Go("post").truncated <=> call.truncated)
  BY <1>3, StepOfCall DEF Go
<1>5. Moved(call, call', "post") /\ Undisturbed(call, call') /\ (call'.truncated <=> call.truncated)
  <2> DEFINE g == Go("post")
  <2>1. call' = [g EXCEPT !.warn = b]
    BY <1>2
  <2>2. Moved(call, g, "post") /\ Undisturbed(call, g) /\ (g.truncated <=> call.truncated)
    BY <1>4
  <2> HIDE DEF g
  <2>3. Moved(call, call', "post") /\ Undisturbed(call, call') /\ (call'.truncated <=> g.truncated)
    BY <2>1, <2>2, WithWarning
  <2> QED
    BY <2>2, <2>3
<1>6. \A m \in Ranked(fresh, {}, "hive") : m.src = "hive"
  BY <1>3, ListFacts
<1>7. \A m \in Down(Ranked(fresh, {}, "hive"), p) : m.src = "hive"
  BY <1>6, DownFacts
<1>8. \A m \in Down(below, Cardinality(fresh)) : \E o \in local : m.key = o.key
  <2>1. \A m \in Down(below, Cardinality(fresh)) : \E o \in below : m.key = o.key
    BY DownFacts
  <2> QED
    BY <2>1
<1>9. ASSUME NEW m \in joined, m.src = "local" PROVE \E o \in local : m.key = o.key
  BY <1>7, <1>8, <1>9
<1>10. ASSUME NEW o \in local PROVE \E m \in joined : m.key = o.key
  <2>1. o.at \in Nat
    BY DEF RcInv, RcTypeOK
  <2>2. o \in above \/ o \in below
    BY <2>1
  <2>3. CASE o \in below
    <3>1. PICK m \in Down(below, Cardinality(fresh)) : m.key = o.key
      BY <2>3, DownFacts
    <3> QED
      BY <3>1
  <2> QED
    BY <2>2, <2>3
<1> HIDE DEF joined
<1>11. answer'.items = joined /\ answer' = [items |-> answer'.items, reason |-> answer'.reason]
  BY <1>1 DEF RcInv, RcTypeOK
<1>12. RcTypeOK'
  BY <1>1, <1>5, <1>11 DEF RcInv, RcTypeOK, Moved, At, Steps, Early
<1>13. JudgedInv'
  BY <1>1, <1>5, <1>9, <1>11 DEF RcInv, JudgedInv, Moved, At
<1>14. \A k \in KeysOf(local) : k \in KeysOf(answer'.items)
  BY <1>10, <1>11 DEF KeysOf
<1>15. ReachedInv'
  BY <1>1, <1>5, <1>14 DEF RcInv, ReachedInv, Reached, Moved, Undisturbed, At
<1> QED
  BY <1>12, <1>13, <1>15 DEF RcInv

\* The dedupe window and the total budget.
LEMMA PostKeeps == ASSUME RcInv, PostFilterStep PROVE RcInv'
<1> DEFINE out == PostFilter(answer.items, call.window)
           kept == Outside(answer.items, call.window)
           flag == call.truncated \/ out # kept
<1>1. /\ At("post") /\ UNCHANGED <<row, match, changes, seenRows, lex, vec, pending, local>>
      /\ \E reason : answer' = [items |-> out, reason |-> reason]
  BY DEF PostFilterStep
<1>2. call' = [Go("done") EXCEPT !.truncated = flag] /\ flag \in BOOLEAN
  <2>1. Go("done").truncated = call.truncated
    BY DEF Go, RcInv, RcTypeOK, CallForm
  <2>2. call' = [Go("done") EXCEPT !.truncated = Go("done").truncated \/ out # kept]
    BY DEF PostFilterStep
  <2> QED
    BY <2>1, <2>2
<1>3. CallForm(call)
  BY DEF RcInv, RcTypeOK
<1>4. Moved(call, Go("done"), "done") /\ Undisturbed(call, Go("done"))
  BY <1>3, StepOfCall DEF Go
<1> HIDE DEF flag
<1>5. Moved(call, call', "done") /\ Undisturbed(call, call') /\ (call'.truncated <=> flag)
  BY <1>2, <1>4, WithCut
<1>6. answer'.items = out /\ answer' = [items |-> answer'.items, reason |-> answer'.reason]
  BY <1>1
<1>7. out \subseteq kept /\ kept \subseteq answer.items
  BY TopIsPart DEF PostFilter, Truncated, Outside
<1>8. RcTypeOK'
  BY <1>1, <1>5, <1>6 DEF RcInv, RcTypeOK, Moved, At, Steps, Early
<1>9. JudgedInv'
  BY <1>1, <1>5, <1>6, <1>7 DEF RcInv, JudgedInv, Moved, At
<1>10. ASSUME call.op = "recall", ~call'.changed, ~call'.truncated, ~call'.failed,
              NEW k \in Memories, row[k] = "good", "lex" \in match[k]
       PROVE  k \in call.window \/ k \in KeysOf(answer'.items)
  <2>1. ~call.truncated /\ out = kept
    BY <1>5, <1>10 DEF flag
  <2>2. k \in KeysOf(answer.items)
    BY <1>1, <1>5, <1>10, <2>1 DEF RcInv, ReachedInv, Reached, Undisturbed
  <2>3. PICK m \in answer.items : m.key = k
    BY <2>2 DEF KeysOf
  <2>4. k \notin call.window => m \in kept
    BY <2>3 DEF Outside
  <2> QED
    BY <1>6, <2>1, <2>3, <2>4 DEF KeysOf
<1>11. ReachedInv'
  BY <1>1, <1>5, <1>10 DEF ReachedInv, Reached, Moved, Undisturbed, At
<1> QED
  BY <1>8, <1>9, <1>11 DEF RcInv

\* A concurrent writer: only the promise of completeness is off.
LEMMA ChangeKeeps ==
  ASSUME RcInv, NEW k \in Memories, NEW kind \in Kinds, Change(k, kind) PROVE RcInv'
<1>1. /\ row' = [row EXCEPT ![k] = kind] /\ call' = [call EXCEPT !.changed = TRUE]
      /\ UNCHANGED <<match, seenRows, lex, vec, pending, local, answer>>
  BY DEF Change
<1>2. CallForm(call)
  BY DEF RcInv, RcTypeOK
<1>3. Moved(call, call', call.pc) /\ (call'.truncated <=> call.truncated) /\ call'.changed
  BY <1>1, <1>2 DEF Moved, CallForm
<1> QED
  BY <1>1, <1>3 DEF RcInv, RcTypeOK, JudgedInv, ReachedInv, Moved, At

LEMMA RcNextKeeps == RcInv /\ [RcNext]_rcVars => RcInv'
<1> SUFFICES ASSUME RcInv, [RcNext]_rcVars PROVE RcInv'
  OBVIOUS
<1>1. ASSUME NEW w \in DedupeWindows, StartRecall(w) PROVE RcInv'
  BY <1>1, StartKeeps
<1>2. ASSUME NEW o \in SUBSET {"stale", "contra", "sources"}, StartBrainRecall(o) PROVE RcInv'
  BY <1>2, StartKeeps
<1>3. ASSUME NEW ok \in BOOLEAN, Fts(ok) PROVE RcInv'
  BY <1>3, FtsKeeps
<1>4. ASSUME NEW ok \in BOOLEAN, NEW near \in SUBSET Memories, StoreKnn(ok, near) PROVE RcInv'
  BY <1>4, KnnKeeps
<1>5. ASSUME AnswerBrain PROVE RcInv'
  <2>1. call.op # "recall"
    BY <1>5 DEF AnswerBrain, RcInv, RcTypeOK, At, Steps
  <2> QED
    BY <1>5, <2>1, BrainKeeps
<1>6. ASSUME NEW e \in BOOLEAN, NEW n \in BOOLEAN, VectorSearch(e, n) PROVE RcInv'
  BY <1>6, VectorKeeps
<1>7. ASSUME NEW ok \in BOOLEAN, Hydrate(ok) PROVE RcInv'
  BY <1>7, HydrateKeeps
<1>8. ASSUME NEW first \in SUBSET Memories, Rank(first) PROVE RcInv'
  BY <1>8, RankKeeps
<1>9. ASSUME NEW ok \in BOOLEAN, NEW found \in SUBSET Memories, NEW p \in 0..Cardinality(Memories),
             MergeHive(ok, found, p)
      PROVE  RcInv'
  <2>1. p \in Nat
    BY MemoriesAssumption, FS_CardinalityType
  <2> QED
    BY <1>9, <2>1, HiveKeeps
<1>10. ASSUME NEW k \in Memories, NEW kind \in Kinds, Change(k, kind) PROVE RcInv'
  BY <1>10, ChangeKeeps
<1>11. CASE UNCHANGED rcVars
  BY <1>11 DEF rcVars, RcInv, RcTypeOK, JudgedInv, ReachedInv, Reached, At
<1> QED
  BY <1>1, <1>2, <1>3, <1>4, <1>5, <1>6, <1>7, <1>8, <1>9, <1>10, <1>11,
     CandidatesKeep, InjectKeeps, PostKeeps DEF RcNext

\* Recall.RecallAdmissible.  Whatever channel failed and whatever a writer changed
\* in between, recall() injects only rows that were showable when the retriever
\* hydrated them (_filter_candidates_to_pending, then inject_memories' checks).
THEOREM OnlyShowableIsInjected == RcSpec => []RecallAdmissible
<1>1. RcInv => RecallAdmissible
  <2> SUFFICES ASSUME RcInv, Answered("recall") PROVE \A k \in LocalKeys : seenRows[k] = "good"
    BY DEF RecallAdmissible
  <2>1. \A m \in answer.items : m.src = "local" => seenRows[m.key] = "good"
    BY DEF RcInv, JudgedInv, Answered
  <2> QED
    BY <2>1 DEF LocalKeys, KeysOf
<1> QED
  BY <1>1, RcInitHolds, RcNextKeeps, PTL DEF RcSpec

\* Recall.RecallComplete.  No single failing channel loses a showable row that
\* matches the words of the question.
THEOREM NoChannelLosesARow == RcSpec => []RecallComplete
<1>1. RcInv => RecallComplete
  <2> SUFFICES ASSUME RcInv, Answered("recall"), ~call.changed, ~call.truncated, ~call.failed,
                      NEW k \in Memories \ call.window, row[k] = "good", "lex" \in match[k]
               PROVE  k \in KeysOf(answer.items)
    BY DEF RecallComplete
  <2> QED
    BY DEF RcInv, ReachedInv, Reached, Answered
<1> QED
  BY <1>1, RcInitHolds, RcNextKeeps, PTL DEF RcSpec

=============================================================================

------------------------- MODULE Idempotency_proofs -------------------------
(***************************************************************************)
(* Proofs about the guarded write routes, for any number of requests,      *)
(* replicas and routes and any number of failures and expiries; and, at    *)
(* the end, about the chains of versions in the shared memory of Sharing.  *)
(***************************************************************************)
EXTENDS Idempotency, Sharing, WellFoundedInduction, FiniteSetTheorems, SequenceTheorems, TLAPS

(***************************************************************************)
(* The guard table.  That the table counts its requests is not inductive:  *)
(* a release frees the lock the table names now, so the requests must sit  *)
(* on that lock, the one that runs must own it, and no two replicas may    *)
(* share one.                                                              *)
(***************************************************************************)
InHandler(r) == pc[r] \in {"check", "execute", "save", "release"}

RegisteredWhileBusy ==
    \A r \in Requests : pc[r] \in {"new", "done"} <=> lockOf[r] = NoLock

OwnsItsLock == \A r \in Requests : InHandler(r) => owner[lockOf[r]] = r

EntryIsLive ==
    \A p \in Replicas :
        \/ guards[p] = NoGuard
        \/ guards[p].refs > 0 /\ guards[p].lock \in Locks

LocksApart ==
    \A p, q \in Replicas :
        p # q /\ guards[p] # NoGuard => guards[p].lock # guards[q].lock

GuardInv ==
    /\ TypeOK /\ GuardTableExact
    /\ RegisteredWhileBusy /\ OwnsItsLock /\ EntryIsLive /\ LocksApart

LEMMA GuardInit == Init => GuardInv
<1> SUFFICES ASSUME Init PROVE GuardInv
  OBVIOUS
<1>1. \A p \in Replicas : Registered(p) = {}
  BY DEF Init, Registered, NoLock
<1>2. TypeOK
  BY DEF Init, TypeOK, NoGuard, NoLock
<1>3. GuardTableExact
  BY <1>1, FS_EmptySet DEF Init, GuardTableExact, NoGuard
<1>4. RegisteredWhileBusy /\ OwnsItsLock /\ EntryIsLive /\ LocksApart
  BY DEF Init, RegisteredWhileBusy, OwnsItsLock, EntryIsLive, LocksApart, InHandler, NoLock
<1>5. QED
  BY <1>2, <1>3, <1>4 DEF GuardInv

\* The registered requests of a replica are finitely many.
LEMMA RegisteredFinite ==
    ASSUME NEW p PROVE IsFiniteSet(Registered(p)) /\ Cardinality(Registered(p)) \in Nat
<1>1. Registered(p) \in SUBSET Requests
  BY DEF Registered
<1>2. QED
  BY <1>1, RequestsAssumption, FS_Subset, FS_CardinalityType

\* A request that goes on inside the handler leaves the guards alone.
LEMMA StaysInHandler ==
    ASSUME GuardInv, TypeOK', NEW r \in Requests, InHandler(r),
           NEW l \in {"check", "execute", "save", "release"},
           pc' = [pc EXCEPT ![r] = l], UNCHANGED <<requestVars, lockVars>>
    PROVE  GuardInv'
<1>1. /\ guards' = guards /\ lockOf' = lockOf /\ owner' = owner /\ replica' = replica
      /\ \A s \in Requests : s # r => pc'[s] = pc[s]
      /\ pc'[r] = l
  BY DEF GuardInv, TypeOK, requestVars, lockVars
<1>2. \A p : Registered(p)' = Registered(p)
  BY <1>1 DEF Registered
<1>3. GuardTableExact' /\ EntryIsLive' /\ LocksApart'
  BY <1>1, <1>2 DEF GuardInv, GuardTableExact, EntryIsLive, LocksApart, Locks
<1>4. RegisteredWhileBusy' /\ OwnsItsLock'
  BY <1>1 DEF GuardInv, RegisteredWhileBusy, OwnsItsLock, InHandler
<1>5. QED
  BY <1>3, <1>4 DEF GuardInv

\* The registration of one more request: the table gains it and nothing else.
LEMMA RegisterOne ==
    ASSUME GuardInv, NEW r \in Requests, NEW l \in Nat \ {0},
           lockOf[r] = NoLock, replica' = replica,
           lockOf' = [lockOf EXCEPT ![r] = l],
           guards' = [guards EXCEPT ![replica[r]] = [lock |-> l, refs |-> @.refs + 1]],
           guards[replica[r]] = NoGuard \/ guards[replica[r]].lock = l
    PROVE  GuardTableExact'
<1> DEFINE p == replica[r]
<1>1. p \in Replicas /\ lockOf'[r] = l /\ \A s \in Requests : s # r => lockOf'[s] = lockOf[s]
  BY DEF GuardInv, TypeOK
<1>2. /\ guards'[p].refs = guards[p].refs + 1 /\ guards'[p].lock = l
      /\ \A q \in Replicas : q # p => guards'[q] = guards[q]
  BY <1>1 DEF GuardInv, TypeOK
<1>3. Registered(p)' = Registered(p) \cup {r} /\ r \notin Registered(p)
  BY <1>1 DEF Registered, NoLock
<1>4. Cardinality(Registered(p)') = Cardinality(Registered(p)) + 1
  BY <1>3, RegisteredFinite, FS_AddElement
<1>5. \A q \in Replicas : q # p => Registered(q)' = Registered(q)
  BY <1>1 DEF Registered
<1>6. \A s \in Registered(p)' : lockOf'[s] = l
  <2> SUFFICES ASSUME NEW s \in Registered(p)', s # r PROVE lockOf'[s] = l
    BY <1>1
  <2>1. s \in Registered(p) /\ s \in Requests
    BY <1>3 DEF Registered
  <2>2. lockOf[s] = guards[p].lock /\ guards[p].refs = Cardinality(Registered(p))
    BY <1>1, <2>1 DEF GuardInv, GuardTableExact
  <2>3. Registered(p) # {}
    BY <2>1
  <2>4. Cardinality(Registered(p)) # 0
    BY <2>3, RegisteredFinite, FS_EmptySet
  <2>5. guards[p] # NoGuard
    BY <2>2, <2>4 DEF NoGuard
  <2>6. QED
    BY <1>1, <2>1, <2>2, <2>5
<1>7. ASSUME NEW q \in Replicas, q # p
      PROVE  /\ guards'[q].refs = Cardinality(Registered(q)')
             /\ \A s \in Registered(q)' : lockOf'[s] = guards'[q].lock
  <2>1. r \notin Registered(q) /\ Registered(q) \subseteq Requests
    BY <1>7 DEF Registered
  <2>2. QED
    BY <1>1, <1>2, <1>5, <1>7, <2>1 DEF GuardInv, GuardTableExact
<1>8. guards'[p].refs = Cardinality(Registered(p)')
  BY <1>1, <1>2, <1>4 DEF GuardInv, GuardTableExact
<1>9. QED
  BY <1>2, <1>6, <1>7, <1>8 DEF GuardTableExact

\* ... and of one less: the entry goes with the last request.
LEMMA UnregisterOne ==
    ASSUME GuardInv, NEW r \in Requests, lockOf[r] # NoLock, replica' = replica, Unregister(r)
    PROVE  /\ GuardTableExact'
           /\ \A p \in Replicas :
                \/ guards'[p] = NoGuard
                \/ guards'[p].refs > 0 /\ guards'[p].lock = guards[p].lock /\ guards[p] # NoGuard
<1> DEFINE p == replica[r]
<1>1. p \in Replicas /\ lockOf'[r] = NoLock /\ \A s \in Requests : s # r => lockOf'[s] = lockOf[s]
  BY DEF GuardInv, TypeOK, Unregister, NoLock
<1>2. Registered(p)' = Registered(p) \ {r} /\ r \in Registered(p)
  BY <1>1 DEF Registered
<1>3. /\ guards[p].refs = Cardinality(Registered(p)) /\ guards[p].refs \in Nat
      /\ guards[p].lock \in Nat /\ \A s \in Registered(p) : lockOf[s] = guards[p].lock
      /\ guards[p] \in [lock : Nat, refs : Nat]
  BY <1>1 DEF GuardInv, GuardTableExact, TypeOK
<1>4. Cardinality(Registered(p)') = guards[p].refs - 1 /\ IsFiniteSet(Registered(p)')
  BY <1>2, <1>3, RegisteredFinite, FS_RemoveElement
<1>5. guards[p].refs > 0 /\ guards[p] # NoGuard
  <2>1. Cardinality(Registered(p)) # 0
    BY <1>2, RegisteredFinite, FS_EmptySet
  <2>2. QED
    BY <1>3, <2>1 DEF NoGuard
<1>6. /\ guards'[p] = IF guards[p].refs <= 1 THEN NoGuard
                      ELSE [lock |-> guards[p].lock, refs |-> guards[p].refs - 1]
      /\ \A q \in Replicas : q # p => guards'[q] = guards[q]
  <2> DEFINE left == IF guards[p].refs <= 1 THEN NoGuard
                     ELSE [lock |-> guards[p].lock, refs |-> guards[p].refs - 1]
  <2>1. guards' = [guards EXCEPT ![p] = left]
    BY DEF Unregister
  <2> HIDE DEF left
  <2>2. guards'[p] = left /\ \A q \in Replicas : q # p => guards'[q] = guards[q]
    BY <1>1, <2>1 DEF GuardInv, TypeOK
  <2>3. QED
    BY <2>2 DEF left
<1>7. /\ guards'[p].refs = Cardinality(Registered(p)')
      /\ \A s \in Registered(p)' : lockOf'[s] = guards'[p].lock
  <2>1. CASE guards[p].refs <= 1
    <3>1. guards'[p] = NoGuard /\ Cardinality(Registered(p)') = 0
      BY <1>3, <1>4, <1>5, <1>6, <2>1
    <3>2. Registered(p)' = {}
      BY <1>4, <3>1, FS_EmptySet
    <3>3. QED
      BY <3>1, <3>2 DEF NoGuard
  <2>2. CASE guards[p].refs > 1
    <3>1. guards'[p].refs = guards[p].refs - 1 /\ guards'[p].lock = guards[p].lock
      BY <1>3, <1>6, <2>2
    <3>2. \A s \in Registered(p)' : s \in Requests /\ s # r /\ s \in Registered(p)
      BY <1>2 DEF Registered
    <3>3. QED
      BY <1>1, <1>3, <1>4, <3>1, <3>2
  <2>3. QED
    BY <1>3, <2>1, <2>2
<1>8. ASSUME NEW q \in Replicas, q # p
      PROVE  /\ guards'[q].refs = Cardinality(Registered(q)')
             /\ \A s \in Registered(q)' : lockOf'[s] = guards'[q].lock
  <2>1. Registered(q)' = Registered(q) /\ \A s \in Registered(q) : s \in Requests /\ s # r
    BY <1>1, <1>8 DEF Registered
  <2>2. QED
    BY <1>1, <1>6, <1>8, <2>1 DEF GuardInv, GuardTableExact
<1>9. GuardTableExact'
  BY <1>7, <1>8 DEF GuardTableExact
<1>10. ASSUME NEW q \in Replicas
       PROVE  \/ guards'[q] = NoGuard
              \/ guards'[q].refs > 0 /\ guards'[q].lock = guards[q].lock /\ guards[q] # NoGuard
  <2>1. CASE q = p
    BY <1>3, <1>5, <1>6, <2>1 DEF NoGuard
  <2>2. CASE q # p
    BY <1>6, <2>2 DEF GuardInv, EntryIsLive
  <2>3. QED
    BY <2>1, <2>2
<1>11. QED
  BY <1>9, <1>10

\* A registered request sits on the lock its replica's table names.
LEMMA RegisteredOnTheLock ==
    ASSUME GuardInv, NEW s \in Requests, lockOf[s] # NoLock
    PROVE  /\ guards[replica[s]] # NoGuard /\ lockOf[s] = guards[replica[s]].lock
           /\ lockOf[s] \in Locks /\ replica[s] \in Replicas
<1>1. replica[s] \in Replicas /\ s \in Registered(replica[s])
  BY DEF GuardInv, TypeOK, Registered
<1>2. Cardinality(Registered(replica[s])) # 0
  BY <1>1, RegisteredFinite, FS_EmptySet
<1>3. guards[replica[s]] # NoGuard
  BY <1>1, <1>2 DEF GuardInv, GuardTableExact, NoGuard
<1>4. QED
  BY <1>1, <1>3 DEF GuardInv, GuardTableExact, EntryIsLive

\* A lock changes hands: still a sequence of owners, of the same length.
LEMMA NewOwner ==
    ASSUME NEW S, NEW s \in Seq(S), NEW l, NEW e \in S
    PROVE  /\ [s EXCEPT ![l] = e] \in Seq(S) /\ Len([s EXCEPT ![l] = e]) = Len(s)
           /\ \A i \in 1..Len(s) : [s EXCEPT ![l] = e][i] = IF i = l THEN e ELSE s[i]
<1>1. s \in [1..Len(s) -> S] /\ Len(s) \in Nat
  BY LenProperties
<1>2. [s EXCEPT ![l] = e] \in [1..Len(s) -> S]
  BY <1>1
<1>3. [s EXCEPT ![l] = e] \in Seq(S) /\ Len([s EXCEPT ![l] = e]) = Len(s)
  BY <1>1, <1>2, IsASeq, LenProperties
<1>4. QED
  BY <1>1, <1>3

\* Where a step around the lock takes a request; the others stay where they are.
LEMMA QueueMoves ==
  ASSUME TypeOK, NEW r \in Requests, Arrive(r) \/ Wake(r) \/ Cancel(r) \/ Release(r)
  PROVE  /\ pc'[r] \in {"check", "waiting", "done"}
         /\ \A s \in Requests : s # r => pc'[s] = pc[s]
<1>1. DOMAIN pc = Requests
  BY DEF TypeOK
<1>2. \/ pc' = [pc EXCEPT ![r] = "check"] \/ pc' = [pc EXCEPT ![r] = "waiting"]
      \/ pc' = [pc EXCEPT ![r] = "done"]
  <2>1. CASE Arrive(r)
    BY <2>1, ZenonT(30) DEF Arrive
  <2>2. CASE Wake(r) \/ Cancel(r) \/ Release(r)
    BY <2>2 DEF Wake, Cancel, Release
  <2> QED
    BY <2>1, <2>2
<1> QED
  BY <1>1, <1>2

LEMMA TypeStep == TypeOK /\ [Next]_vars => TypeOK'
<1> SUFFICES ASSUME TypeOK, [Next]_vars PROVE TypeOK'
  OBVIOUS
<1> USE DEF TypeOK, requestVars, lockVars, tableVars
<1>1. CASE UNCHANGED vars
  BY <1>1 DEF vars
<1>2. ASSUME NEW r \in Requests, Arrive(r) PROVE TypeOK'
  <2> DEFINE p == replica[r]
             l == IF guards[p] = NoGuard THEN Len(owner) + 1 ELSE guards[p].lock
  <2>1. p \in Replicas /\ l \in Nat /\ guards[p].refs \in Nat
    OBVIOUS
  <2>2. /\ lockOf' = [lockOf EXCEPT ![r] = l]
        /\ guards' = [guards EXCEPT ![p] = [lock |-> l, refs |-> guards[p].refs + 1]]
    BY <1>2 DEF Arrive
  <2>3. pc' \in [Requests -> {"new", "waiting", "check", "execute", "save", "release", "done"}]
    BY <1>2, ZenonT(60) DEF Arrive
  <2>4. owner' \in Seq(Requests \union {Nobody})
    <3>1. CASE owner' = Append(owner, r)
      BY <3>1
    <3>2. CASE owner' = [owner EXCEPT ![l] = r]
      BY <3>2, NewOwner
    <3>3. CASE owner' = owner
      BY <3>3
    <3>4. QED
      BY <1>2, <3>1, <3>2, <3>3 DEF Arrive
  <2> HIDE DEF l
  <2>5. lockOf' \in [Requests -> Nat] /\ guards' \in [Replicas -> [lock : Nat, refs : Nat]]
    BY <2>1, <2>2
  <2>6. QED
    BY <1>2, <2>3, <2>4, <2>5 DEF Arrive
<1>3. ASSUME NEW r \in Requests, Wake(r) PROVE TypeOK'
  <2>1. owner' \in Seq(Requests \union {Nobody})
    BY <1>3, NewOwner DEF Wake
  <2>2. QED
    BY <1>3, <2>1 DEF Wake
<1>4. ASSUME NEW r \in Requests, Unregister(r)
      PROVE  lockOf' \in [Requests -> Nat] /\ guards' \in [Replicas -> [lock : Nat, refs : Nat]]
  <2> DEFINE p == replica[r]
             g == IF guards[p].refs <= 1 THEN NoGuard
                  ELSE [lock |-> guards[p].lock, refs |-> guards[p].refs - 1]
  <2>1. g \in [lock : Nat, refs : Nat]
    BY DEF NoGuard
  <2>2. guards' = [guards EXCEPT ![p] = g]
    BY <1>4 DEF Unregister
  <2> HIDE DEF g
  <2>3. QED
    BY <1>4, <2>1, <2>2 DEF Unregister, NoLock
<1>5. ASSUME NEW r \in Requests, Cancel(r) PROVE TypeOK'
  BY <1>4, <1>5 DEF Cancel
<1>6. ASSUME NEW r \in Requests, Release(r) PROVE TypeOK'
  <2>1. owner' \in Seq(Requests \union {Nobody})
    <3> DEFINE S == Requests \union {Nobody}
    <3>0. owner \in Seq(S) /\ Nobody \in S
      OBVIOUS
    <3> HIDE DEF S
    <3>4. \A l : [owner EXCEPT ![l] = Nobody] \in Seq(S)
      BY <3>0, NewOwner, Zenon
    <3>1. CASE owner' = [owner EXCEPT ![guards[replica[r]].lock] = Nobody]
      BY <3>1, <3>4 DEF S
    <3>2. CASE owner' = owner
      BY <3>2
    <3>3. QED
      BY <1>6, <3>1, <3>2 DEF Release
  <2>2. lockOf' \in [Requests -> Nat] /\ guards' \in [Replicas -> [lock : Nat, refs : Nat]]
    <3>1. CASE Unregister(r)
      BY <1>4, <3>1
    <3>2. CASE lockOf' = [lockOf EXCEPT ![r] = NoLock] /\ UNCHANGED guards
      BY <3>2 DEF NoLock
    <3>3. QED
      BY <1>6, <3>1, <3>2 DEF Release
  <2>3. QED
    BY <1>6, <2>1, <2>2 DEF Release
<1>7. ASSUME NEW r \in Requests, Check(r) \/ Reject(r) PROVE TypeOK'
  BY <1>7 DEF Check, Reject, Ends
<1>11. ASSUME NEW r \in Requests, Execute(r) PROVE TypeOK'
  BY <1>11 DEF Execute
<1>12. ASSUME NEW r \in Requests, Store(r) PROVE TypeOK'
  <2>1. row' \in [Routes -> {"none", "fresh", "expired"}] /\ saveFails' \in Nat
    <3>1. CASE row' = [row EXCEPT ![route[r]] = IF @ = "none" THEN "fresh" ELSE @]
                /\ UNCHANGED saveFails
      BY <3>1
    <3>2. CASE UNCHANGED <<row, saveFails>>
      BY <3>2
    <3>3. CASE saveFails' = saveFails + 1 /\ UNCHANGED row
      BY <3>3
    <3>4. QED
      BY <1>12, <3>1, <3>2, <3>3 DEF Store
  <2>2. QED
    BY <1>12, <2>1 DEF Store, Ends
<1>8. ASSUME NEW o \in Routes, Age(o) PROVE TypeOK'
  BY <1>8 DEF Age
<1>9. CASE SweepExpired
  BY <1>9 DEF SweepExpired
<1>10. QED
  BY <1>1, <1>2, <1>3, <1>5, <1>6, <1>7, <1>8, <1>9, <1>11, <1>12 DEF Next, Handle, Finished

LEMMA ArriveStep ==
    ASSUME GuardInv, TypeOK', NEW r \in Requests, Arrive(r)
    PROVE  GuardInv'
<1> DEFINE p == replica[r]
           isNew == guards[p] = NoGuard
           l == IF isNew THEN Len(owner) + 1 ELSE guards[p].lock
<1>1. /\ p \in Replicas /\ owner \in Seq(Requests \union {Nobody}) /\ Len(owner) \in Nat
      /\ Nobody \notin Requests
      /\ guards \in [Replicas -> [lock : Nat, refs : Nat]]
      /\ pc \in [Requests -> {"new", "waiting", "check", "execute", "save", "release", "done"}]
  <2>1. TypeOK
    BY DEF GuardInv
  <2>2. Len(owner) \in Nat
    BY <2>1, LenProperties DEF TypeOK
  <2>3. QED
    BY <2>1, <2>2, RequestsAssumption DEF TypeOK, Nobody
<1>2. /\ lockOf' = [lockOf EXCEPT ![r] = l] /\ UNCHANGED replica
      /\ guards' = [guards EXCEPT ![p] = [lock |-> l, refs |-> @.refs + 1]]
  BY DEF Arrive, requestVars
<1>3. pc[r] = "new" /\ lockOf[r] = NoLock
  BY DEF Arrive, GuardInv, RegisteredWhileBusy
<1>4. l \in Nat \ {0} /\ (isNew \/ l \in Locks) /\ (isNew \/ guards[p].lock = l)
  BY <1>1 DEF GuardInv, EntryIsLive, Locks
<1>5. /\ Len(owner') \in Nat /\ Len(owner) <= Len(owner') /\ l \in 1..Len(owner')
      /\ \A i \in Locks : i # l => owner'[i] = owner[i]
      /\ pc'[r] \in {"check", "waiting"} /\ (pc'[r] = "check" => owner'[l] = r)
      /\ pc'[r] = "waiting" => owner' = owner
      /\ pc'[r] = "check" => isNew \/ owner[l] = Nobody
      /\ \A s \in Requests : s # r => pc'[s] = pc[s]
  <2>1. CASE isNew
    <3>1. owner' = Append(owner, r) /\ pc' = [pc EXCEPT ![r] = "check"] /\ l = Len(owner) + 1
      BY <2>1 DEF Arrive
    <3>2. /\ Len(owner') = Len(owner) + 1 /\ owner'[Len(owner) + 1] = r
          /\ \A i \in 1..Len(owner) : owner'[i] = owner[i]
      BY <1>1, <3>1, AppendProperties
    <3> HIDE DEF l
    <3>3. QED
      BY <1>1, <2>1, <3>1, <3>2 DEF Locks
  <2>2. CASE ~isNew /\ Free(l)
    <3>1. /\ owner' = [owner EXCEPT ![l] = r] /\ pc' = [pc EXCEPT ![r] = "check"]
          /\ owner[l] = Nobody
      BY <2>2 DEF Arrive, Free
    <3> HIDE DEF l
    <3>2. /\ Len(owner') = Len(owner) /\ owner'[l] = r
          /\ \A i \in 1..Len(owner) : i # l => owner'[i] = owner[i]
      BY <1>1, <1>4, <2>2, <3>1, NewOwner DEF Locks
    <3>3. QED
      BY <1>1, <1>4, <2>2, <3>1, <3>2 DEF Locks
  <2>3. CASE ~isNew /\ ~Free(l)
    <3>1. owner' = owner /\ pc' = [pc EXCEPT ![r] = "waiting"]
      BY <2>3 DEF Arrive
    <3> HIDE DEF l
    <3>2. QED
      BY <1>1, <1>4, <2>3, <3>1 DEF Locks
  <2>4. QED
    BY <2>1, <2>2, <2>3
<1> HIDE DEF l
<1>6. GuardTableExact'
  BY <1>2, <1>3, <1>4, RegisterOne
<1>7. RegisteredWhileBusy'
  BY <1>2, <1>3, <1>4, <1>5, SMTT(30) DEF GuardInv, RegisteredWhileBusy, NoLock, TypeOK
<1>8. OwnsItsLock'
  <2> SUFFICES ASSUME NEW s \in Requests, InHandler(s)' PROVE owner'[lockOf'[s]] = s
    BY DEF OwnsItsLock
  <2>1. CASE s = r
    BY <1>1, <1>2, <1>5, <2>1 DEF InHandler, GuardInv, TypeOK
  <2>2. CASE s # r
    <3>1. InHandler(s) /\ lockOf'[s] = lockOf[s]
      BY <1>2, <1>5, <2>2 DEF InHandler, GuardInv, TypeOK
    <3>2. lockOf[s] # NoLock /\ owner[lockOf[s]] = s
      BY <3>1 DEF InHandler, GuardInv, RegisteredWhileBusy, OwnsItsLock
    <3>3. lockOf[s] \in Locks
      BY <3>2, RegisteredOnTheLock
    <3>4. CASE lockOf[s] # l
      BY <1>5, <3>1, <3>2, <3>3, <3>4
    <3>5. CASE lockOf[s] = l /\ pc'[r] = "waiting"
      BY <1>5, <3>1, <3>2, <3>5
    <3>6. CASE lockOf[s] = l /\ pc'[r] = "check"
      <4>1. CASE isNew
        BY <1>1, <3>3, <3>6, <4>1 DEF l, Locks
      <4>2. CASE owner[l] = Nobody
        BY <1>1, <3>2, <3>6, <4>2
      <4>3. QED
        BY <1>5, <3>6, <4>1, <4>2
    <3>7. QED
      BY <1>5, <3>4, <3>5, <3>6
  <2>3. QED
    BY <2>1, <2>2
<1>9. guards'[p].lock = l /\ guards'[p].refs > 0 /\ \A q \in Replicas : q # p => guards'[q] = guards[q]
  BY <1>1, <1>2
<1>10. EntryIsLive'
  <2> SUFFICES ASSUME NEW q \in Replicas, guards'[q] # NoGuard
               PROVE  guards'[q].refs > 0 /\ guards'[q].lock \in 1..Len(owner')
    BY DEF EntryIsLive, Locks
  <2>1. CASE q = p
    BY <1>5, <1>9, <2>1
  <2>2. CASE q # p
    BY <1>1, <1>5, <1>9, <2>2 DEF GuardInv, EntryIsLive, Locks
  <2>3. QED
    BY <2>1, <2>2
<1>11. LocksApart'
  <2>1. \A q \in Replicas : q # p => guards[q].lock # l
    <3> SUFFICES ASSUME NEW q \in Replicas, q # p PROVE guards[q].lock # l
      OBVIOUS
    <3>1. guards[q].lock \in 0..Len(owner)
      BY <1>1 DEF GuardInv, EntryIsLive, Locks, NoGuard
    <3>2. CASE isNew
      BY <1>1, <3>1, <3>2 DEF l
    <3>3. CASE ~isNew
      BY <1>1, <1>4, <3>3 DEF GuardInv, LocksApart
    <3>4. QED
      BY <3>2, <3>3
  <2>2. QED
    BY <1>9, <2>1 DEF GuardInv, LocksApart
<1>12. QED
  BY <1>6, <1>7, <1>8, <1>10, <1>11 DEF GuardInv

LEMMA WakeStep ==
    ASSUME GuardInv, TypeOK', NEW r \in Requests, Wake(r)
    PROVE  GuardInv'
<1> DEFINE l == lockOf[r]
<1>1. TypeOK /\ Nobody \notin Requests
  BY RequestsAssumption DEF GuardInv, Nobody
<1>2. lockOf[r] # NoLock /\ l \in Locks
  <2>1. lockOf[r] # NoLock
    BY DEF Wake, GuardInv, RegisteredWhileBusy
  <2>2. QED
    BY <2>1, RegisteredOnTheLock
<1>3. /\ owner[l] = Nobody /\ owner' = [owner EXCEPT ![l] = r]
      /\ pc' = [pc EXCEPT ![r] = "check"] /\ pc[r] = "waiting"
      /\ replica' = replica /\ guards' = guards /\ lockOf' = lockOf
  BY DEF Wake, requestVars
<1>4. /\ Len(owner') = Len(owner) /\ owner'[l] = r
      /\ \A i \in Locks : i # l => owner'[i] = owner[i]
  BY <1>1, <1>2, <1>3, NewOwner DEF TypeOK, Locks
<1>5. GuardTableExact' /\ EntryIsLive' /\ LocksApart'
  <2>1. \A p : Registered(p)' = Registered(p)
    BY <1>3 DEF Registered
  <2>2. QED
    BY <1>3, <1>4, <2>1 DEF GuardInv, GuardTableExact, EntryIsLive, LocksApart, Locks
<1>6. RegisteredWhileBusy'
  BY <1>1, <1>3 DEF GuardInv, RegisteredWhileBusy, TypeOK
<1>7. OwnsItsLock'
  <2> SUFFICES ASSUME NEW s \in Requests, InHandler(s)', s # r PROVE owner'[lockOf'[s]] = s
    BY <1>3, <1>4 DEF OwnsItsLock
  <2>1. InHandler(s)
    BY <1>1, <1>3 DEF InHandler, TypeOK
  <2>2. lockOf[s] # NoLock /\ owner[lockOf[s]] = s
    BY <2>1 DEF InHandler, GuardInv, RegisteredWhileBusy, OwnsItsLock
  <2>3. lockOf[s] \in Locks /\ lockOf[s] # l
    BY <1>1, <1>3, <2>2, RegisteredOnTheLock
  <2>4. QED
    BY <1>3, <1>4, <2>2, <2>3
<1>8. QED
  BY <1>5, <1>6, <1>7 DEF GuardInv

\* A request that leaves: of the others, those in the handler keep their locks.
LEMMA LeaveStep ==
    ASSUME GuardInv, TypeOK', NEW r \in Requests, lockOf[r] # NoLock, Unregister(r),
           replica' = replica, pc' = [pc EXCEPT ![r] = "done"], Len(owner') = Len(owner),
           \A s \in Requests : s # r /\ InHandler(s) => owner'[lockOf[s]] = s
    PROVE  GuardInv'
<1>1. TypeOK
  BY DEF GuardInv
<1>2. /\ GuardTableExact'
      /\ \A p \in Replicas :
           \/ guards'[p] = NoGuard
           \/ guards'[p].refs > 0 /\ guards'[p].lock = guards[p].lock /\ guards[p] # NoGuard
  BY UnregisterOne
<1>3. lockOf'[r] = NoLock /\ \A s \in Requests : s # r => lockOf'[s] = lockOf[s] /\ pc'[s] = pc[s]
  BY <1>1 DEF Unregister, TypeOK, NoLock
<1>4. pc'[r] = "done"
  BY <1>1 DEF TypeOK
<1>5. RegisteredWhileBusy'
  BY <1>3, <1>4 DEF GuardInv, RegisteredWhileBusy
<1>6. OwnsItsLock'
  BY <1>3, <1>4 DEF OwnsItsLock, InHandler
<1>7. EntryIsLive'
  BY <1>2 DEF GuardInv, EntryIsLive, Locks
<1>8. LocksApart'
  <2> SUFFICES ASSUME NEW p \in Replicas, NEW q \in Replicas, p # q, guards'[p] # NoGuard
               PROVE  guards'[p].lock # guards'[q].lock
    BY DEF LocksApart
  <2>1. guards'[p].lock = guards[p].lock /\ guards[p] # NoGuard
    BY <1>2
  <2>2. guards[p].lock # 0
    BY <1>1, <2>1 DEF GuardInv, EntryIsLive, Locks
  <2>3. CASE guards'[q] = NoGuard
    BY <2>1, <2>2, <2>3 DEF NoGuard
  <2>4. CASE guards'[q].lock = guards[q].lock
    BY <2>1, <2>4 DEF GuardInv, LocksApart
  <2>5. QED
    BY <1>2, <2>3, <2>4
<1>9. QED
  BY <1>2, <1>5, <1>6, <1>7, <1>8 DEF GuardInv

LEMMA GuardStep == GuardInv /\ [Next]_vars => GuardInv'
<1> SUFFICES ASSUME GuardInv, [Next]_vars PROVE GuardInv'
  OBVIOUS
<1>0. TypeOK /\ TypeOK'
  BY TypeStep DEF GuardInv
<1> USE <1>0
<1>1. ASSUME UNCHANGED <<requestVars, pc, lockVars>> PROVE GuardInv'
  <2>1. \A p : Registered(p)' = Registered(p)
    BY <1>1 DEF Registered, requestVars, lockVars
  <2>2. QED
    BY <1>1, <2>1 DEF GuardInv, GuardTableExact, RegisteredWhileBusy, OwnsItsLock, InHandler,
       EntryIsLive, LocksApart, Locks, requestVars, lockVars
<1>2. ASSUME NEW r \in Requests, Arrive(r) PROVE GuardInv'
  BY <1>2, ArriveStep
<1>3. ASSUME NEW r \in Requests, Wake(r) PROVE GuardInv'
  BY <1>3, WakeStep
<1>4. ASSUME NEW r \in Requests, Cancel(r) PROVE GuardInv'
  <2>1. lockOf[r] # NoLock
    BY <1>4 DEF Cancel, GuardInv, RegisteredWhileBusy
  <2>2. /\ Unregister(r) /\ replica' = replica /\ pc' = [pc EXCEPT ![r] = "done"]
        /\ owner' = owner
    BY <1>4 DEF Cancel, requestVars
  <2>3. QED
    BY <2>1, <2>2, LeaveStep DEF GuardInv, OwnsItsLock
<1>5. ASSUME NEW r \in Requests, Release(r) PROVE GuardInv'
  <2> DEFINE p == replica[r]
  <2>1. InHandler(r) /\ lockOf[r] # NoLock
    BY <1>5 DEF Release, GuardInv, RegisteredWhileBusy, InHandler
  <2>2. /\ guards[p] # NoGuard /\ lockOf[r] = guards[p].lock /\ lockOf[r] \in Locks
        /\ owner[lockOf[r]] = r
    BY <2>1, RegisteredOnTheLock DEF GuardInv, OwnsItsLock
  <2>3. /\ owner' = [owner EXCEPT ![lockOf[r]] = Nobody] /\ Unregister(r)
        /\ replica' = replica /\ pc' = [pc EXCEPT ![r] = "done"]
    BY <1>5, <2>2 DEF Release, requestVars
  <2>4. Len(owner') = Len(owner) /\ \A i \in Locks : i # lockOf[r] => owner'[i] = owner[i]
    BY <2>2, <2>3, NewOwner DEF TypeOK, Locks
  <2>5. ASSUME NEW s \in Requests, s # r, InHandler(s) PROVE owner'[lockOf[s]] = s
    <3>1. lockOf[s] # NoLock /\ owner[lockOf[s]] = s
      BY <2>5 DEF InHandler, GuardInv, RegisteredWhileBusy, OwnsItsLock
    <3>2. lockOf[s] \in Locks /\ lockOf[s] # lockOf[r]
      BY <2>2, <2>5, <3>1, RegisteredOnTheLock
    <3>3. QED
      BY <2>4, <3>1, <3>2
  <2>6. QED
    BY <2>1, <2>3, <2>4, <2>5, LeaveStep
<1>6. ASSUME NEW r \in Requests, Check(r) \/ Reject(r) \/ Execute(r) \/ Store(r) PROVE GuardInv'
  <2>1. InHandler(r) /\ UNCHANGED <<requestVars, lockVars>>
    BY <1>6 DEF InHandler, Check, Reject, Execute, Store
  <2>2. \E l \in {"check", "execute", "save", "release"} : pc' = [pc EXCEPT ![r] = l]
    BY <1>6 DEF Check, Reject, Execute, Store, Ends
  <2>3. QED
    BY <2>1, <2>2, StaysInHandler
<1>7. CASE UNCHANGED vars
  BY <1>1, <1>7 DEF vars, requestVars, lockVars
<1>8. ASSUME NEW o \in Routes, Age(o) PROVE GuardInv'
  BY <1>1, <1>8 DEF Age
<1>9. CASE SweepExpired
  BY <1>1, <1>9 DEF SweepExpired
<1>10. QED
  BY <1>2, <1>3, <1>4, <1>5, <1>6, <1>7, <1>8, <1>9 DEF Next, Handle, Finished

LEMMA GuardInvariant == Spec => []GuardInv
BY GuardInit, GuardStep, PTL DEF Spec

\* The per-key guard table never drops an entry under a queued duplicate and
\* never keeps one for nobody, whatever is cancelled, refused or fails.
THEOREM GuardsCounted == Spec => []GuardTableExact
<1>1. GuardInv => GuardTableExact
  BY DEF GuardInv
<1>2. QED
  BY <1>1, GuardInvariant, PTL

LEMMA HandlerExclusive == GuardInv => OneInHandler
<1> SUFFICES ASSUME GuardInv, NEW r \in Requests, NEW s \in Requests, r # s,
                    replica[r] = replica[s], InHandler(r), InHandler(s)
             PROVE  FALSE
  BY DEF OneInHandler, InHandler
<1>1. lockOf[r] # NoLock /\ lockOf[s] # NoLock
  BY DEF GuardInv, RegisteredWhileBusy, InHandler
<1>2. lockOf[r] = lockOf[s]
  BY <1>1, RegisteredOnTheLock
<1>3. QED
  BY <1>2 DEF GuardInv, OwnsItsLock

\* The guard serialises the duplicates of a replica: between the lookup of the
\* key and the end of the response there is one of them at a time.
THEOREM Serialised == Spec => []OneInHandler
BY GuardInvariant, HandlerExclusive, PTL

-----------------------------------------------------------------------------
(* One server process: the guard of a replica serialises all duplicates. *)

OneProcess == \A p, q \in Replicas : p = q

\* Nobody but r is in the handler.
LEMMA AloneInHandler ==
    ASSUME OneProcess, GuardInv, NEW r \in Requests, InHandler(r),
           NEW s \in Requests, InHandler(s)
    PROVE  r = s
<1>1. replica[r] = replica[s]
  BY DEF OneProcess, GuardInv, TypeOK
<1>2. QED
  BY <1>1, HandlerExclusive DEF OneInHandler, InHandler

LEMMA WindowStep ==
    OneProcess /\ GuardInv /\ AtMostOncePerWindow /\ [Next]_vars => AtMostOncePerWindow'
<1> SUFFICES ASSUME OneProcess, GuardInv, AtMostOncePerWindow, [Next]_vars,
                    NEW r \in Requests, pc'[r] \in {"execute", "save"}
             PROVE  row'[route'[r]] # "fresh"
  BY DEF AtMostOncePerWindow
<1>1. TypeOK /\ route' = route
  BY DEF GuardInv, Next, Handle, Arrive, Wake, Cancel, Release, Check, Reject, Execute, Store,
     Age, SweepExpired, Finished, vars, requestVars
<1>2. ASSUME row' = row, pc'[r] = pc[r] PROVE row'[route'[r]] # "fresh"
  BY <1>1, <1>2 DEF AtMostOncePerWindow
<1>3. ASSUME NEW s \in Requests, Arrive(s) \/ Wake(s) \/ Cancel(s) \/ Release(s) \/ Reject(s)
      PROVE  row'[route'[r]] # "fresh"
  BY <1>1, <1>2, <1>3, SMTT(30) DEF Arrive, Wake, Cancel, Release, Reject, Ends, tableVars, TypeOK
<1>4. ASSUME NEW s \in Requests, Check(s) PROVE row'[route'[r]] # "fresh"
  <2>1. CASE s = r
    BY <1>1, <1>4, <2>1 DEF Check, Ends, TypeOK
  <2>2. CASE s # r
    BY <1>1, <1>2, <1>4, <2>2 DEF Check, Ends, TypeOK
  <2>3. QED
    BY <2>1, <2>2
<1>5. ASSUME NEW s \in Requests, Execute(s) PROVE row'[route'[r]] # "fresh"
  <2>1. CASE s = r
    BY <1>1, <1>5, <2>1 DEF Execute, AtMostOncePerWindow
  <2>2. CASE s # r
    BY <1>1, <1>2, <1>5, <2>2 DEF Execute, TypeOK
  <2>3. QED
    BY <2>1, <2>2
<1>6. ASSUME NEW s \in Requests, Store(s) PROVE row'[route'[r]] # "fresh"
  <2>1. s # r /\ InHandler(s)
    BY <1>1, <1>6 DEF Store, Ends, TypeOK, InHandler
  <2>2. pc'[r] = pc[r]
    BY <1>1, <1>6, <2>1 DEF Store, Ends, TypeOK
  <2>3. QED
    BY <2>1, <2>2, AloneInHandler DEF InHandler
<1>7. ASSUME NEW o \in Routes, Age(o) PROVE row'[route'[r]] # "fresh"
  BY <1>1, <1>7 DEF Age, AtMostOncePerWindow, TypeOK
<1>8. CASE SweepExpired
  BY <1>1, <1>8 DEF SweepExpired, AtMostOncePerWindow, TypeOK
<1>9. CASE UNCHANGED vars
  BY <1>1, <1>2, <1>9 DEF vars
<1>10. QED
  BY <1>3, <1>4, <1>5, <1>6, <1>7, <1>8, <1>9 DEF Next, Handle, Finished

\* With one server process a stored response bars every further execution of its
\* route until it expires, however many duplicates arrive, wait, are cancelled or
\* meet an unavailable table.
THEOREM OncePerWindow == OneProcess => (Spec => []AtMostOncePerWindow)
<1> SUFFICES ASSUME OneProcess PROVE Spec => []AtMostOncePerWindow
  OBVIOUS
<1>1. Init => AtMostOncePerWindow
  BY DEF Init, AtMostOncePerWindow
<1>2. GuardInv /\ AtMostOncePerWindow /\ [Next]_vars => AtMostOncePerWindow'
  BY WindowStep
<1>3. QED
  BY <1>1, <1>2, GuardInvariant, PTL DEF Spec

-----------------------------------------------------------------------------
(* Answers are about writes that happened. *)

ExecutedBeforeStored ==
    /\ \A o \in Routes : row[o] # "none" => execs[o] > 0
    /\ \A r \in Requests : pc[r] = "save" => execs[route[r]] > 0

\* A response that says executed, or is replayed, names a write that was done,
\* on any number of replicas.
THEOREM AnswersAreReal == Spec => []ReplayIsReal
<1> DEFINE Inv == TypeOK /\ ExecutedBeforeStored /\ ReplayIsReal
<1>1. Init => Inv
  <2>1. Init => TypeOK
    BY GuardInit DEF GuardInv
  <2>2. QED
    BY <2>1 DEF Init, ExecutedBeforeStored, ReplayIsReal
<1>2. Inv /\ [Next]_vars => Inv'
  <2> SUFFICES ASSUME Inv, [Next]_vars PROVE Inv'
    OBVIOUS
  <2>0. TypeOK /\ TypeOK'
    BY TypeStep
  <2>1. ASSUME UNCHANGED <<route, outcome, row, execs>>,
               \A r \in Requests : pc'[r] = "save" => pc[r] = "save"
        PROVE  Inv'
    BY <2>0, <2>1 DEF ExecutedBeforeStored, ReplayIsReal
  <2>2. ASSUME NEW r \in Requests, Arrive(r) \/ Wake(r) \/ Release(r) PROVE Inv'
    <3>1. UNCHANGED <<route, outcome, row, execs>>
      BY <2>2 DEF Arrive, Wake, Release, requestVars, tableVars
    <3>2. pc'[r] # "save" /\ \A s \in Requests : s # r => pc'[s] = pc[s]
      BY <2>0, <2>2, QueueMoves
    <3>3. \A s \in Requests : pc'[s] = "save" => pc[s] = "save"
      BY <3>2
    <3> QED
      BY <2>1, <3>1, <3>3
  <2>3. ASSUME NEW r \in Requests, NEW how, Ends(r, how), UNCHANGED <<route, row, execs>>,
               how \in {"executed", "replayed"} => execs[route[r]] > 0
        PROVE  Inv'
    <3>1. \A s \in Requests : pc'[s] = "save" => pc[s] = "save"
      BY <2>0, <2>3 DEF Ends, TypeOK
    <3>2. \A s \in Requests : outcome'[s] = outcome[s] \/ (s = r /\ outcome'[s] = how)
      BY <2>0, <2>3 DEF Ends, TypeOK
    <3>3. QED
      BY <2>0, <2>3, <3>1, <3>2 DEF ExecutedBeforeStored, ReplayIsReal
  <2>4. ASSUME NEW r \in Requests, Cancel(r) PROVE Inv'
    <3>1. \A s \in Requests : pc'[s] = "save" => pc[s] = "save"
      BY <2>0, <2>4 DEF Cancel, TypeOK
    <3>2. /\ UNCHANGED <<route, row, execs>>
          /\ \A s \in Requests : outcome'[s] = outcome[s] \/ outcome'[s] = "cancelled"
      BY <2>0, <2>4 DEF Cancel, TypeOK, requestVars, tableVars
    <3>3. QED
      BY <2>0, <3>1, <3>2 DEF ExecutedBeforeStored, ReplayIsReal
  <2>5. ASSUME NEW r \in Requests, Check(r) PROVE Inv'
    <3>1. UNCHANGED <<route, row, execs>>
      BY <2>5 DEF Check, requestVars
    <3>2. CASE row[route[r]] = "fresh" /\ Ends(r, "replayed")
      <4>1. route[r] \in Routes
        BY <2>0 DEF TypeOK
      <4>2. execs[route[r]] > 0
        BY <3>2, <4>1 DEF ExecutedBeforeStored
      <4>3. QED
        BY <2>3, <3>1, <3>2, <4>2
    <3>3. CASE pc' = [pc EXCEPT ![r] = "execute"] /\ UNCHANGED outcome
      BY <2>0, <2>1, <3>1, <3>3 DEF TypeOK
    <3>4. CASE Ends(r, "unavailable")
      BY <2>3, <3>1, <3>4
    <3>5. QED
      BY <2>5, <3>2, <3>3, <3>4 DEF Check
  <2>6. ASSUME NEW r \in Requests, Reject(r) PROVE Inv'
    <3>1. Ends(r, "rejected") /\ UNCHANGED <<route, row, execs>>
      BY <2>6 DEF Reject, requestVars, tableVars
    <3>2. QED
      BY <2>3, <3>1
  <2>7. ASSUME NEW r \in Requests, Execute(r) PROVE Inv'
    <3>1. /\ UNCHANGED <<route, outcome, row>> /\ pc' = [pc EXCEPT ![r] = "save"]
          /\ execs' = [execs EXCEPT ![route[r]] = @ + 1] /\ route[r] \in Routes
      BY <2>0, <2>7 DEF Execute, requestVars, TypeOK
    <3>2. /\ execs'[route[r]] > 0
          /\ \A o \in Routes : execs[o] > 0 => execs'[o] > 0
      BY <2>0, <3>1 DEF TypeOK
    <3>3. ASSUME NEW s \in Requests
          PROVE  /\ pc'[s] = "save" => execs'[route'[s]] > 0
                 /\ outcome'[s] \in {"executed", "replayed"} => execs'[route'[s]] > 0
      <4>1. route[s] \in Routes
        BY <2>0 DEF TypeOK
      <4>2. QED
        <5>1. route'[s] = route[s] /\ outcome'[s] = outcome[s]
          BY <3>1
        <5>2. execs[route[s]] > 0 => execs'[route[s]] > 0
          BY <3>2, <4>1
        <5>3. pc'[s] = "save" => s = r \/ pc[s] = "save"
          BY <2>0, <3>1 DEF TypeOK
        <5>4. pc[s] = "save" \/ outcome[s] \in {"executed", "replayed"} => execs[route[s]] > 0
          BY DEF ExecutedBeforeStored, ReplayIsReal
        <5> QED
          BY <3>2, <5>1, <5>2, <5>3, <5>4
    <3>4. QED
      BY <2>0, <3>1, <3>2, <3>3 DEF ExecutedBeforeStored, ReplayIsReal
  <2>8. ASSUME NEW r \in Requests, Store(r) PROVE Inv'
    <3>1. UNCHANGED <<route, execs>> /\ pc[r] = "save" /\ execs[route[r]] > 0
      BY <2>8 DEF Store, requestVars, ExecutedBeforeStored
    <3>2. \E how : Ends(r, how)
      BY <2>8 DEF Store
    <3>3. \A o \in Routes : row'[o] # "none" => execs'[o] > 0
      BY <2>0, <2>8, <3>1 DEF Store, TypeOK, ExecutedBeforeStored
    <3>4. ASSUME NEW s \in Requests
          PROVE  /\ pc'[s] = "save" => pc[s] = "save"
                 /\ s # r => outcome'[s] = outcome[s]
      BY <2>0, <3>2 DEF Ends, TypeOK
    <3>5. QED
      BY <2>0, <3>1, <3>3, <3>4 DEF ExecutedBeforeStored, ReplayIsReal
  <2>9. ASSUME NEW o \in Routes, Age(o) PROVE Inv'
    BY <2>0, <2>9 DEF Age, TypeOK, ExecutedBeforeStored, ReplayIsReal, requestVars
  <2>10. CASE SweepExpired
    BY <2>0, <2>10 DEF SweepExpired, TypeOK, ExecutedBeforeStored, ReplayIsReal, requestVars
  <2>11. CASE UNCHANGED vars
    BY <2>1, <2>11 DEF vars
  <2>12. QED
    BY <2>2, <2>4, <2>5, <2>6, <2>7, <2>8, <2>9, <2>10, <2>11 DEF Next, Handle, Finished
<1>3. QED
  BY <1>1, <1>2, PTL DEF Spec

-----------------------------------------------------------------------------
(* When every response can be stored and none expires, a write happens once. *)

Lossless == OneProcess /\ SaveFails = 0 /\ ~CanOversize /\ Ages = 0

\* An execution is on record: its response is stored, or is about to be.
OnRecord ==
    /\ ages = 0 /\ saveFails = 0
    /\ \A o \in Routes : /\ row[o] # "expired"
                         /\ execs[o] <= 1
                         /\ execs[o] = 1 => \/ row[o] = "fresh"
                                            \/ \E r \in Requests : pc[r] = "save" /\ route[r] = o

LEMMA RecordStep ==
    Lossless /\ GuardInv /\ AtMostOncePerWindow /\ OnRecord /\ [Next]_vars => OnRecord'
<1> SUFFICES ASSUME Lossless, GuardInv, AtMostOncePerWindow, OnRecord, [Next]_vars PROVE OnRecord'
  OBVIOUS
<1>0. TypeOK /\ TypeOK' /\ OneProcess
  BY TypeStep DEF GuardInv, Lossless
<1>1. ASSUME UNCHANGED <<route, execs, row, ages, saveFails>>,
             \A r \in Requests : pc[r] = "save" => pc'[r] = "save"
      PROVE  OnRecord'
  BY <1>1 DEF OnRecord
<1>2. ASSUME NEW r \in Requests, Arrive(r) \/ Wake(r) \/ Cancel(r) \/ Release(r) \/ Reject(r)
      PROVE  OnRecord'
  <2>1. UNCHANGED <<route, execs, row, ages, saveFails>>
    BY <1>2 DEF Arrive, Wake, Cancel, Release, Reject, requestVars, tableVars
  <2>2. \A s \in Requests : pc[s] = "save" => pc'[s] = "save"
    <3>1. pc[r] # "save"
      BY <1>2 DEF Arrive, Wake, Cancel, Release, Reject
    <3>2. \A s \in Requests : s # r => pc'[s] = pc[s]
      <4>1. CASE Reject(r)
        BY <1>0, <4>1 DEF Reject, Ends, TypeOK
      <4>2. QED
        BY <1>0, <1>2, <4>1, QueueMoves
    <3>3. QED
      BY <3>1, <3>2
  <2>3. QED
    BY <1>1, <2>1, <2>2
<1>3. ASSUME NEW r \in Requests, Check(r) PROVE OnRecord'
  <2>1. UNCHANGED <<route, execs, row, ages, saveFails>>
    BY <1>3 DEF Check, requestVars
  <2>2. \A s \in Requests : pc[s] = "save" => pc'[s] = "save"
    BY <1>0, <1>3 DEF Check, Ends, TypeOK
  <2>3. QED
    BY <1>1, <2>1, <2>2
<1>4. ASSUME NEW r \in Requests, Execute(r) PROVE OnRecord'
  <2>1. /\ UNCHANGED <<route, row, ages, saveFails>> /\ pc[r] = "execute"
        /\ pc' = [pc EXCEPT ![r] = "save"] /\ execs' = [execs EXCEPT ![route[r]] = @ + 1]
        /\ route[r] \in Routes
    BY <1>0, <1>4 DEF Execute, requestVars, TypeOK
  <2>2. \A s \in Requests : pc[s] # "save"
    <3> SUFFICES ASSUME NEW s \in Requests, pc[s] = "save" PROVE FALSE
      OBVIOUS
    <3>1. r = s
      BY <1>0, <2>1, AloneInHandler DEF InHandler
    <3>2. QED
      BY <2>1, <3>1
  <2>3. execs[route[r]] = 0
    <3>1. row[route[r]] # "fresh"
      BY <2>1 DEF AtMostOncePerWindow
    <3>2. execs[route[r]] # 1 /\ execs[route[r]] <= 1 /\ execs[route[r]] \in Nat
      BY <1>0, <2>1, <2>2, <3>1 DEF OnRecord, TypeOK
    <3>3. QED
      BY <3>2
  <2>4. pc'[r] = "save" /\ execs'[route[r]] = 1 /\ \A o \in Routes : o # route[r] => execs'[o] = execs[o]
    BY <1>0, <2>1, <2>3 DEF TypeOK
  <2>5. QED
    BY <2>1, <2>2, <2>4 DEF OnRecord
<1>5. ASSUME NEW r \in Requests, Store(r) PROVE OnRecord'
  <2>1. /\ UNCHANGED <<route, execs, ages, saveFails>> /\ pc[r] = "save"
        /\ row' = [row EXCEPT ![route[r]] = IF @ = "none" THEN "fresh" ELSE @]
        /\ Ends(r, "executed") /\ route[r] \in Routes
    BY <1>0, <1>5 DEF Store, requestVars, Lossless, OnRecord, TypeOK
  <2>2. row[route[r]] # "fresh"
    BY <2>1 DEF AtMostOncePerWindow
  <2>3. \A s \in Requests : s # r => pc'[s] = pc[s]
    BY <1>0, <2>1 DEF Ends, TypeOK
  <2>4. \A o \in Routes : o # route[r] => row'[o] = row[o]
    BY <1>0, <2>1 DEF TypeOK
  <2>5. row[route[r]] = "none" => row'[route[r]] = "fresh"
    BY <1>0, <2>1 DEF TypeOK
  <2>6. row[route[r]] = "none"
    <3>1. row[route[r]] \in {"none", "fresh", "expired"} /\ row[route[r]] # "expired"
      BY <1>0, <2>1 DEF TypeOK, OnRecord
    <3>2. QED
      BY <2>2, <3>1
  <2>7. QED
    BY <2>1, <2>3, <2>4, <2>5, <2>6 DEF OnRecord
<1>6. ASSUME NEW o \in Routes, Age(o) PROVE OnRecord'
  BY <1>6 DEF Age, OnRecord, Lossless
<1>7. CASE SweepExpired
  BY <1>7 DEF SweepExpired, OnRecord
<1>8. CASE UNCHANGED vars
  BY <1>1, <1>8 DEF vars
<1>9. QED
  BY <1>2, <1>3, <1>4, <1>5, <1>6, <1>7, <1>8 DEF Next, Handle, Finished

\* A key is used once: with one server process, as long as no response fails to be
\* stored, is too large to be, or outlives its day, a route's handler runs at most
\* once for the key, however its requests interleave, are rejected or cancelled, and
\* however often the lookup finds the table unavailable.
THEOREM KeyUsedOnce == Lossless => (Spec => []ReusedKeyDeduplicated)
<1> DEFINE Inv == GuardInv /\ AtMostOncePerWindow /\ OnRecord
<1> SUFFICES ASSUME Lossless PROVE Spec => []ReusedKeyDeduplicated
  OBVIOUS
<1>0. OneProcess
  BY DEF Lossless
<1>1. Init => Inv
  <2> SUFFICES ASSUME Init PROVE Inv
    OBVIOUS
  <2>1. GuardInv
    BY GuardInit
  <2>2. AtMostOncePerWindow /\ OnRecord
    BY DEF Init, AtMostOncePerWindow, OnRecord
  <2>3. QED
    BY <2>1, <2>2
<1>2. Inv /\ [Next]_vars => Inv'
  BY <1>0, GuardStep, WindowStep, RecordStep
<1>3. Inv => ReusedKeyDeduplicated
  BY DEF OnRecord, ReusedKeyDeduplicated
<1>4. QED
  BY <1>1, <1>2, <1>3, PTL DEF Spec

(***************************************************************************)
(* The shared memory, for any number of workers, keys and finitely many    *)
(* groups. The inductive invariant: the versions of a key form a chain     *)
(* whose links lead forward and whose closed rows were archived or name a  *)
(* later version (ChainOk); what a worker has read may be stale, but it    *)
(* names a version that is there (PlanOk), because versions are only       *)
(* added.                                                                  *)
(***************************************************************************)
\* The versions of a key: a closed row was archived or names a later version.
ChainOk(s) ==
  /\ s \in Seq(HiveRows)
  /\ \A i \in 1..Len(s) : /\ s[i].next = 0 \/ (i < s[i].next /\ s[i].next <= Len(s))
                          /\ s[i].live \/ s[i].archived \/ s[i].next # 0

Targets == Namespaces \cup {"engine"}
JobFields == {"op", "items", "todo", "scope", "force", "dry", "plan", "selected", "pushed",
              "skipped", "failed"}

\* What a worker has to do is about entries, and it writes at a version that is there.
PlanOk(j, R) ==
  /\ j.items # <<>> /\ j.plan.ns \in Namespaces /\ j.plan.tier \in Tiers
  /\ j.plan.tip \in 0..Len(R[j.plan.ns][Head(j.items)[1]])

JobOk(j, R) ==
  /\ DOMAIN j = JobFields
  /\ j.items \in Seq(Keys \X Tiers) /\ j.todo \in Seq(Targets)
  /\ j.todo # <<>> => j.items # <<>>
  /\ j.plan # None => j.todo # <<>> /\ PlanOk(j, R)

ShInv ==
  /\ rows \in [Namespaces -> [Keys -> Seq(HiveRows)]]
  /\ \A n \in Namespaces, k \in Keys : ChainOk(rows[n][k])
  /\ members \subseteq Groups /\ declared \subseteq Groups
  /\ local \in [Keys -> Tiers \cup {None}]
  /\ DOMAIN job = Workers /\ \A w \in Workers : JobOk(job[w], rows)

(***************************************************************************)
(* The walk.                                                               *)
(***************************************************************************)
LEMMA LastOf ==
  ASSUME NEW n \in Nat, NEW S \in SUBSET (1..n), S # {} PROVE \E m \in S : \A i \in S : i <= m
<1> DEFINE T == {n - i : i \in S}
<1>1. T \subseteq Nat /\ T # {}
  <2>1. ASSUME NEW i \in S PROVE n - i \in Nat
    OBVIOUS
  <2> QED
    BY <2>1
<1>2. PICK x \in T : \A y \in T : ~(<<y, x>> \in OpToRel(<, Nat))
  BY <1>1, WFMin, NatLessThanWellFounded
<1>3. \A y \in T : ~(y < x)
  <2> SUFFICES ASSUME NEW y \in T, y < x PROVE FALSE
    OBVIOUS
  <2>1. <<y, x>> \in Nat \X Nat /\ <<y, x>>[1] = y /\ <<y, x>>[2] = x
    BY <1>1
  <2>2. <<y, x>> \in OpToRel(<, Nat)
    BY <2>1 DEF OpToRel
  <2> QED
    BY <1>2, <2>2
<1>4. PICK m \in S : x = n - m
  OBVIOUS
<1>5. ASSUME NEW i \in S PROVE i <= m
  <2>1. n - i \in T
    OBVIOUS
  <2> QED
    BY <1>3, <1>4, <2>1
<1> QED
  BY <1>5

\* The walk of a sound chain ends, at one of its rows.
LEMMA WalkEnds ==
  ASSUME NEW s, ChainOk(s), s # <<>>
  PROVE  FollowTip(s) \in 1..Len(s) /\ ~Continues(s, FollowTip(s))
<1>1. DOMAIN s = 1..Len(s) /\ Len(s) \in Nat /\ 1 \in 1..Len(s)
  BY DEF ChainOk
<1>2. Walk(s) \subseteq 1..Len(s) /\ 1 \in Walk(s)
  BY <1>1 DEF Walk
<1>3. ASSUME NEW j \in Walk(s), Continues(s, j) PROVE s[j].next \in Walk(s)
  <2>1. j \in 1..Len(s) /\ s[j].next \in 1..Len(s)
    <3>1. s[j] \in HiveRows /\ j \in 1..Len(s) /\ s[j].next # 0
      BY <1>1, <1>2, <1>3 DEF ChainOk, Continues
    <3>2. s[j].next \in Nat
      BY <3>1 DEF HiveRows
    <3> QED
      BY <1>1, <3>1, <3>2 DEF ChainOk
  <2>2. ASSUME NEW C \in SUBSET DOMAIN s, 1 \in C, \A i \in C : Continues(s, i) => s[i].next \in C
        PROVE  s[j].next \in C
    <3>1. j \in C
      BY <2>2 DEF Walk
    <3> QED
      BY <1>3, <2>2, <3>1
  <2> QED
    BY <1>1, <2>1, <2>2 DEF Walk
<1>4. \E i \in Walk(s) : ~Continues(s, i)
  <2>1. PICK m \in Walk(s) : \A i \in Walk(s) : i <= m
    BY <1>1, <1>2, LastOf
  <2>2. SUFFICES ASSUME Continues(s, m) PROVE FALSE
    BY <2>1
  <2>3. s[m].next \in Walk(s) /\ m < s[m].next
    BY <1>1, <1>2, <1>3, <2>2 DEF ChainOk, Continues
  <2> QED
    BY <1>1, <1>2, <2>1, <2>3
<1>5. FollowTip(s) \in Walk(s) /\ ~Continues(s, FollowTip(s))
  BY <1>4 DEF FollowTip
<1> QED
  BY <1>2, <1>5

LEMMA RowClosed ==
  ASSUME NEW q \in HiveRows, NEW m \in Nat, NEW r, r = [q EXCEPT !.live = FALSE, !.next = m]
  PROVE  r \in HiveRows /\ r.next = m
BY DEF HiveRows

LEMMA RowArchived ==
  ASSUME NEW q \in HiveRows, NEW r, r = [q EXCEPT !.live = FALSE, !.archived = TRUE]
  PROVE  r \in HiveRows /\ r.next = q.next /\ r.archived
BY DEF HiveRows

LEMMA TipInRange == ASSUME NEW s, ChainOk(s) PROVE FollowTip(s) \in 0..Len(s)
<1>1. Len(s) \in Nat
  BY DEF ChainOk
<1>2. CASE s = <<>>
  BY <1>1, <1>2 DEF FollowTip
<1>3. CASE s # <<>>
  BY <1>1, <1>3, WalkEnds
<1> QED
  BY <1>2, <1>3

\* A new version closes the tip and is named by it, a first one opens the chain,
\* an archived tip says so.
LEMMA SupersedeKeepsChain ==
  ASSUME NEW s, ChainOk(s), NEW tip \in 1..Len(s), NEW t \in Tiers
  PROVE  ChainOk(SupersedeExisting(s, tip, Row(t))) /\ Len(s) <= Len(SupersedeExisting(s, tip, Row(t)))
<1> DEFINE r == [s[tip] EXCEPT !.live = FALSE, !.next = Len(s) + 1]
           closed == [s EXCEPT ![tip] = r]
           after == Append(closed, Row(t))
<1>1. s \in Seq(HiveRows) /\ Len(s) \in Nat /\ s[tip] \in HiveRows
  BY DEF ChainOk
<1>2. r \in HiveRows /\ r.next = Len(s) + 1
  <2> DEFINE q == s[tip]
             m == Len(s) + 1
  <2>1. q \in HiveRows /\ m \in Nat
    BY <1>1
  <2>2. r = [q EXCEPT !.live = FALSE, !.next = m]
    OBVIOUS
  <2> HIDE DEF q, m, r
  <2>3. r \in HiveRows /\ r.next = m
    BY <2>1, <2>2, RowClosed
  <2> QED
    BY <2>3 DEF m
<1>3. Row(t) \in HiveRows /\ Row(t).live /\ Row(t).next = 0
  BY DEF Row, HiveRows
<1>4. SupersedeExisting(s, tip, Row(t)) = after
  BY <1>1 DEF SupersedeExisting
<1> HIDE DEF r
<1>5. closed \in Seq(HiveRows) /\ Len(closed) = Len(s)
      /\ \A i \in 1..Len(s) : closed[i] = IF i = tip THEN r ELSE s[i]
  BY <1>1, <1>2
<1> HIDE DEF closed
<1>6. after \in Seq(HiveRows) /\ Len(after) = Len(s) + 1
      /\ \A i \in 1..Len(s) : after[i] = closed[i]
      /\ after[Len(s) + 1] = Row(t)
  BY <1>1, <1>3, <1>5
<1> HIDE DEF after
<1>7. ASSUME NEW i \in 1..Len(after)
      PROVE  /\ after[i].next = 0 \/ (i < after[i].next /\ after[i].next <= Len(after))
             /\ after[i].live \/ after[i].archived \/ after[i].next # 0
  <2>1. CASE i = Len(s) + 1
    BY <1>3, <1>6, <2>1
  <2>2. CASE i # Len(s) + 1 /\ i = tip
    <3>1. after[i] = r
      BY <1>1, <1>5, <1>6, <2>2
    <3> QED
      BY <1>1, <1>2, <1>6, <2>2, <3>1
  <2>3. CASE i # Len(s) + 1 /\ i # tip
    <3>1. after[i] = s[i] /\ i \in 1..Len(s) /\ s[i] \in HiveRows
      BY <1>1, <1>5, <1>6, <2>3
    <3>2. s[i].next \in Nat
      BY <3>1 DEF HiveRows
    <3> QED
      BY <1>1, <1>6, <3>1, <3>2 DEF ChainOk
  <2> QED
    BY <2>1, <2>2, <2>3
<1> QED
  BY <1>1, <1>4, <1>6, <1>7 DEF ChainOk

LEMMA InsertKeepsChain ==
  ASSUME NEW s, ChainOk(s), NEW t \in Tiers
  PROVE  ChainOk(WriteEntry(s, Row(t))) /\ Len(s) <= Len(WriteEntry(s, Row(t)))
<1>1. s \in Seq(HiveRows) /\ Len(s) \in Nat
  BY DEF ChainOk
<1>2. Row(t) \in HiveRows /\ Row(t).live /\ Row(t).next = 0
  BY DEF Row, HiveRows
<1>3. CASE s = <<>>
  <2>1. WriteEntry(s, Row(t)) = <<Row(t)>>
    BY <1>3 DEF WriteEntry
  <2>2. <<Row(t)>> \in Seq(HiveRows) /\ Len(<<Row(t)>>) = 1 /\ <<Row(t)>>[1] = Row(t)
    BY <1>2
  <2>3. \A i \in 1..1 : i = 1
    OBVIOUS
  <2>4. Len(s) = 0
    BY <1>3
  <2> DEFINE q == <<Row(t)>>
  <2> HIDE DEF q
  <2>5. q \in Seq(HiveRows) /\ Len(q) = 1 /\ q[1].next = 0 /\ q[1].live
    BY <1>2, <2>2 DEF q
  <2> QED
    BY <2>1, <2>3, <2>4, <2>5 DEF ChainOk, q
<1>4. CASE s # <<>>
  <2> DEFINE after == [s EXCEPT ![1] = Row(t)]
  <2>1. WriteEntry(s, Row(t)) = after
    BY <1>4 DEF WriteEntry
  <2>2. after \in Seq(HiveRows) /\ Len(after) = Len(s)
        /\ \A i \in 1..Len(s) : after[i] = IF i = 1 THEN Row(t) ELSE s[i]
    <3>1. 1 \in 1..Len(s)
      BY <1>1, <1>4
    <3> QED
      BY <1>1, <1>2, <3>1
  <2> HIDE DEF after
  <2> QED
    BY <1>1, <1>2, <2>1, <2>2 DEF ChainOk
<1> QED
  BY <1>3, <1>4

LEMMA ArchiveKeepsChain ==
  ASSUME NEW s, ChainOk(s), NEW tip \in 1..Len(s), s[tip].live
  PROVE  ChainOk(Archived(s, tip)) /\ Len(s) <= Len(Archived(s, tip))
<1> DEFINE r == [s[tip] EXCEPT !.live = FALSE, !.archived = TRUE]
           after == [s EXCEPT ![tip] = r]
<1>1. s \in Seq(HiveRows) /\ Len(s) \in Nat /\ s[tip] \in HiveRows
  BY DEF ChainOk
<1>2. r \in HiveRows /\ r.next = s[tip].next /\ r.archived
  BY <1>1, RowArchived
<1>3. Archived(s, tip) = after
  <2>1. tip > 0
    BY <1>1
  <2>2. Archived(s, tip) = [s EXCEPT ![tip].live = FALSE, ![tip].archived = TRUE]
    BY <2>1, Zenon DEF Archived
  <2> QED
    BY <1>1, <2>2
<1> HIDE DEF r
<1>4. after \in Seq(HiveRows) /\ Len(after) = Len(s)
      /\ \A i \in 1..Len(s) : after[i] = IF i = tip THEN r ELSE s[i]
  BY <1>1, <1>2
<1> HIDE DEF after
<1> QED
  BY <1>1, <1>2, <1>3, <1>4 DEF ChainOk

(***************************************************************************)
(* What a worker has to do.                                                *)
(***************************************************************************)
\* An enumeration of a finite set lists members of it.
LEMMA OrderLists == ASSUME NEW S, IsFiniteSet(S) PROVE Order(S) \in Seq(S)
<1>1. Cardinality(S) \in Nat /\ ExistsBijection(1..Cardinality(S), S)
  BY FS_CardinalityType
<1>2. PICK f : f \in Bijection(1..Cardinality(S), S)
  BY <1>1 DEF ExistsBijection
<1>3. f \in [1..Cardinality(S) -> S] /\ {f[i] : i \in DOMAIN f} = S
  BY <1>2 DEF Bijection, Surjection
<1>4. Order(S) \in [1..Cardinality(S) -> S]
  BY <1>3 DEF Order
<1> QED
  BY <1>1, <1>4, SeqDef

LEMMA NewJobOk ==
  ASSUME NEW op, NEW items \in Seq(Keys \X Tiers), NEW todo \in Seq(Targets), NEW scope, NEW force,
         NEW dry, NEW R, todo # <<>> => items # <<>>
  PROVE  JobOk(Job(op, items, todo, scope, force, dry), R)
<1> DEFINE j == Job(op, items, todo, scope, force, dry)
<1>1. DOMAIN j = JobFields /\ j.items = items /\ j.todo = todo /\ j.plan = None
  BY DEF Job, JobFields
<1> QED
  BY <1>1 DEF JobOk

LEMMA NoteKeeps ==
  ASSUME NEW j, NEW R, JobOk(j, R), NEW what
  PROVE  /\ JobOk(Note(j, what), R)
         /\ Note(j, what).items = j.items /\ Note(j, what).todo = j.todo
<1>1. Note(j, what) \in {j, [j EXCEPT !.pushed = @ + 1], [j EXCEPT !.skipped = @ + 1],
                         [j EXCEPT !.failed = @ + 1]}
  BY Zenon DEF Note
<1>2. DOMAIN Note(j, what) = DOMAIN j /\ Note(j, what).items = j.items
      /\ Note(j, what).todo = j.todo /\ Note(j, what).plan = j.plan
  BY <1>1 DEF JobOk, JobFields
<1> QED
  BY <1>2 DEF JobOk, PlanOk

LEMMA AdvanceKeeps ==
  ASSUME NEW j, NEW R, JobOk(j, R) PROVE JobOk(Advance(j), R)
<1>1. j.items \in Seq(Keys \X Tiers) /\ j.todo \in Seq(Targets) /\ DOMAIN j = JobFields
  BY DEF JobOk
<1>2. CASE Len(j.todo) > 1
  <2>1. Advance(j) = [j EXCEPT !.todo = Tail(@), !.plan = None]
    BY <1>2 DEF Advance
  <2>2. DOMAIN Advance(j) = JobFields /\ Advance(j).items = j.items
        /\ Advance(j).todo = Tail(j.todo) /\ Advance(j).plan = None
    BY <1>1, <2>1 DEF JobFields
  <2>3. Tail(j.todo) \in Seq(Targets) /\ j.todo # <<>>
    BY <1>1, <1>2
  <2> QED
    BY <1>1, <2>2, <2>3 DEF JobOk
<1>3. CASE ~(Len(j.todo) > 1) /\ Len(j.items) > 1
  <2> DEFINE todo == IF j.op = "push" THEN <<"engine">> ELSE <<>>
  <2>1. Advance(j) = [j EXCEPT !.items = Tail(@), !.plan = None, !.todo = todo]
    BY <1>3 DEF Advance
  <2>2. DOMAIN Advance(j) = JobFields /\ Advance(j).items = Tail(j.items)
        /\ Advance(j).todo = todo /\ Advance(j).plan = None
    BY <1>1, <2>1 DEF JobFields
  <2>3. Tail(j.items) \in Seq(Keys \X Tiers) /\ Tail(j.items) # <<>>
    <3>1. Tail(j.items) \in Seq(Keys \X Tiers) /\ Len(Tail(j.items)) = Len(j.items) - 1
      BY <1>1, <1>3
    <3> DEFINE t == Tail(j.items)
    <3> HIDE DEF t
    <3>2. t \in Seq(Keys \X Tiers) /\ Len(t) > 0
      BY <1>1, <1>3, <3>1 DEF t
    <3>3. t # <<>>
      BY <3>2
    <3> QED
      BY <3>2, <3>3 DEF t
  <2>4. todo \in Seq(Targets)
    <3>1. <<"engine">> \in Seq(Targets) /\ <<>> \in Seq(Targets)
      BY DEF Targets
    <3> QED
      BY <3>1
  <2> HIDE DEF todo
  <2> QED
    BY <2>2, <2>3, <2>4 DEF JobOk
<1>4. CASE ~(Len(j.todo) > 1) /\ ~(Len(j.items) > 1)
  <2>1. Advance(j) = [j EXCEPT !.items = <<>>, !.todo = <<>>, !.plan = None]
    BY <1>4 DEF Advance
  <2>2. DOMAIN Advance(j) = JobFields /\ Advance(j).items = <<>>
        /\ Advance(j).todo = <<>> /\ Advance(j).plan = None
    BY <1>1, <2>1 DEF JobFields
  <2> QED
    BY <2>2 DEF JobOk
<1> QED
  BY <1>2, <1>3, <1>4

\* Rows are only added: a plan made before stays one.
Grown(R, T) == \A n \in Namespaces, k \in Keys : Len(R[n][k]) <= Len(T[n][k])

LEMMA JobOutlivesRows ==
  ASSUME NEW R, NEW T, Grown(R, T), NEW j, JobOk(j, R),
         \A n \in Namespaces, k \in Keys : Len(R[n][k]) \in Nat /\ Len(T[n][k]) \in Nat
  PROVE  JobOk(j, T)
<1> DEFINE key == Head(j.items)[1]
<1>1. j.items # <<>> => Head(j.items)[1] \in Keys
  <2>1. j.items # <<>> => Head(j.items) \in Keys \X Tiers
    BY DEF JobOk
  <2> QED
    BY <2>1
<1>2. ASSUME j.plan # None PROVE PlanOk(j, T)
  <2>1. j.items # <<>> /\ j.plan.ns \in Namespaces /\ j.plan.tier \in Tiers
        /\ j.plan.tip \in 0..Len(R[j.plan.ns][key])
    BY <1>2 DEF JobOk, PlanOk
  <2>2. key \in Keys
    BY <1>1, <2>1
  <2>3. Len(R[j.plan.ns][key]) <= Len(T[j.plan.ns][key])
        /\ Len(R[j.plan.ns][key]) \in Nat /\ Len(T[j.plan.ns][key]) \in Nat
    BY <2>1, <2>2 DEF Grown
  <2> DEFINE m == Len(R[j.plan.ns][key])
             n == Len(T[j.plan.ns][key])
  <2>4. j.plan.tip \in 0..n
    <3>1. m <= n /\ m \in Nat /\ n \in Nat /\ j.plan.tip \in 0..m
      BY <2>1, <2>3
    <3> HIDE DEF m, n
    <3> QED
      BY <3>1
  <2> QED
    BY <2>1, <2>4 DEF PlanOk
<1> QED
  BY <1>2 DEF JobOk

(***************************************************************************)
(* The steps.                                                              *)
(***************************************************************************)
LEMMA ShInitHolds == ShInit => ShInv
<1> SUFFICES ASSUME ShInit PROVE ShInv
  OBVIOUS
<1>1. <<>> \in Seq(Keys \X Tiers) /\ <<>> \in Seq(Targets) /\ <<>> \in Seq(HiveRows) /\ Len(<<>>) = 0
  OBVIOUS
<1>2. \A w \in Workers : JobOk(job[w], rows)
  <2>1. JobOk(Idle, rows)
    BY <1>1, NewJobOk, Zenon DEF Idle
  <2> QED
    BY <2>1 DEF ShInit
<1>3. ChainOk(<<>>)
  BY <1>1 DEF ChainOk
<1> QED
  BY <1>1, <1>2, <1>3 DEF ShInit, ShInv

LEMMA WorkerMoves ==
  ASSUME ShInv, NEW w \in Workers, NEW j, JobOk(j, rows), job' = [job EXCEPT ![w] = j],
         UNCHANGED <<rows, members, declared>>, local' \in [Keys -> Tiers \cup {None}]
  PROVE  ShInv'
<1>1. DOMAIN job' = Workers /\ \A v \in Workers : job'[v] = IF v = w THEN j ELSE job[v]
  BY DEF ShInv
<1>2. \A v \in Workers : JobOk(job'[v], rows)
  BY <1>1 DEF ShInv
<1>3. rows' = rows
  OBVIOUS
<1>4. \A v \in Workers : JobOk(job'[v], rows')
  BY <1>2, <1>3
<1> QED
  BY <1>1, <1>4 DEF ShInv

\* A committed transaction.
LEMMA Committed ==
  ASSUME ShInv, NEW n \in Namespaces, NEW k \in Keys, NEW s, ChainOk(s), Len(rows[n][k]) <= Len(s),
         Commit(n, k, s)
  PROVE  /\ rows' \in [Namespaces -> [Keys -> Seq(HiveRows)]]
         /\ \A m \in Namespaces, i \in Keys : ChainOk(rows'[m][i])
         /\ \A v \in Workers : JobOk(job[v], rows')
         /\ \A j : JobOk(j, rows) => JobOk(j, rows')
<1>1. rows' = [rows EXCEPT ![n][k] = s] /\ s \in Seq(HiveRows)
  BY DEF Commit, ChainOk
<1>2. \A m \in Namespaces, i \in Keys : rows'[m][i] = IF m = n /\ i = k THEN s ELSE rows[m][i]
  BY <1>1 DEF ShInv
<1>3. rows' \in [Namespaces -> [Keys -> Seq(HiveRows)]]
  BY <1>1 DEF ShInv
<1>4. \A m \in Namespaces, i \in Keys : ChainOk(rows'[m][i])
  BY <1>2 DEF ShInv
<1>5. \A m \in Namespaces, i \in Keys : rows[m][i] \in Seq(HiveRows) /\ rows'[m][i] \in Seq(HiveRows)
  BY <1>3 DEF ShInv
<1>6. \A m \in Namespaces, i \in Keys : Len(rows[m][i]) \in Nat /\ Len(rows'[m][i]) \in Nat
  BY <1>5
<1>7. Grown(rows, rows')
  BY <1>2, <1>6 DEF Grown
<1>8. \A j : JobOk(j, rows) => JobOk(j, rows')
  BY <1>6, <1>7, JobOutlivesRows
<1>9. \A v \in Workers : JobOk(job[v], rows)
  BY DEF ShInv
<1> QED
  BY <1>3, <1>4, <1>8, <1>9

LEMMA WorkerCommits ==
  ASSUME ShInv, NEW n \in Namespaces, NEW k \in Keys, NEW s, ChainOk(s), Len(rows[n][k]) <= Len(s),
         Commit(n, k, s), NEW w \in Workers, NEW j, JobOk(j, rows), job' = [job EXCEPT ![w] = j],
         UNCHANGED <<members, declared, local>>
  PROVE  ShInv'
<1>1. DOMAIN job' = Workers /\ \A v \in Workers : job'[v] = IF v = w THEN j ELSE job[v]
  BY DEF ShInv
<1>2. \A v \in Workers : JobOk(job'[v], rows')
  BY <1>1, Committed
<1> QED
  BY <1>1, <1>2, Committed DEF ShInv

LEMMA TargetsOfASave ==
  ASSUME ShInv, NEW scope, NEW t PROVE AfterSave(scope, t) \in Seq(Targets)
<1>1. <<"engine">> \in Seq(Targets) /\ <<>> \in Seq(Targets) /\ <<Universal>> \in Seq(Targets)
  BY DEF Targets, Namespaces
<1>2. IsFiniteSet(declared) /\ declared \subseteq Targets
  BY SharingAssumption, FS_Subset DEF ShInv, Targets, Namespaces
<1>3. Order(declared) \in Seq(declared)
  BY <1>2, OrderLists
<1>4. Order(declared) \in Seq(Targets)
  BY <1>2, <1>3
<1>5. GroupFanOut(scope) \in Seq(Targets) /\ ExpertPublish(scope, t) \in Seq(Targets)
  BY <1>1, <1>4 DEF GroupFanOut, ExpertPublish
<1> QED
  BY <1>1, <1>5 DEF AfterSave

LEMMA ReapedNamespaces == ASSUME ShInv PROVE Order(ReapNamespaces) \in Seq(Targets)
<1>1. IsFiniteSet(ReapNamespaces)
  <2>1. IsFiniteSet(members) /\ IsFiniteSet({Universal, Profile})
    <3>1. IsFiniteSet({Universal})
      BY FS_Singleton
    <3>2. {Universal, Profile} = {Universal} \cup {Profile}
      OBVIOUS
    <3>3. IsFiniteSet(members)
      BY SharingAssumption, FS_Subset DEF ShInv
    <3> QED
      BY <3>1, <3>2, <3>3, FS_AddElement
  <2> QED
    BY <2>1, FS_Union DEF ReapNamespaces
<1>2. ReapNamespaces \subseteq Targets
  BY DEF ShInv, ReapNamespaces, Targets, Namespaces
<1>3. Order(ReapNamespaces) \in Seq(ReapNamespaces)
  BY <1>1, OrderLists
<1> QED
  BY <1>2, <1>3

\* Calls that only give a worker something to do.
LEMMA CallsKeep ==
  ASSUME ShInv, NEW w \in Workers,
         \/ \E k \in Keys, t \in Tiers, sc \in Scopes : SaveEntry(w, k, t, sc)
         \/ \E b \in Batches : ImportRelay(w, b)
         \/ \E sc \in Scopes, force, dry \in BOOLEAN :
              \/ \E b \in Batches : Len(b) > 1 /\ HivePush(w, b, sc, force, dry)
              \/ \E k \in Keys : HivePropagate(w, k, sc, force, dry)
         \/ \E k \in Keys : Forget(w, k)
  PROVE  ShInv'
<1>1. local \in [Keys -> Tiers \cup {None}]
  BY DEF ShInv
<1>2. \A k \in Keys, t \in Tiers : <<<<k, t>>>> \in Seq(Keys \X Tiers) /\ <<<<k, t>>>> # <<>>
  OBVIOUS
<1>3. \A b \in Batches : b \in Seq(Keys \X Tiers) /\ b # <<>>
  <2>1. ASSUME NEW e \in Keys \X Tiers
        PROVE  /\ <<e>> \in Seq(Keys \X Tiers) /\ <<e>> # <<>>
               /\ <<e, e>> \in Seq(Keys \X Tiers) /\ <<e, e>> # <<>>
    OBVIOUS
  <2>2. \A b \in Batches : \E e \in Keys \X Tiers : b = <<e>> \/ b = <<e, e>>
    BY DEF Batches, Entries
  <2> QED
    BY <2>1, <2>2
<1>4. <<"engine">> \in Seq(Targets) /\ <<>> \in Seq(Targets)
  BY DEF Targets
<1>5. ASSUME NEW k \in Keys, NEW t \in Tiers, NEW sc, SaveEntry(w, k, t, sc) PROVE ShInv'
  <2> DEFINE j == Job("share", <<<<k, t>>>>, AfterSave(sc, t), sc, FALSE, FALSE)
  <2>1. JobOk(j, rows)
    BY <1>2, TargetsOfASave, NewJobOk
  <2>2. /\ job' = [job EXCEPT ![w] = j] /\ UNCHANGED <<rows, members, declared>>
        /\ local' = [local EXCEPT ![k] = t]
    BY <1>5 DEF SaveEntry
  <2> HIDE DEF j
  <2>3. local' \in [Keys -> Tiers \cup {None}]
    BY <1>1, <2>2
  <2> QED
    BY <2>1, <2>2, <2>3, WorkerMoves
<1>6. ASSUME NEW b \in Batches, ImportRelay(w, b) PROVE ShInv'
  <2> DEFINE j == Job("relay", b, <<>>, "private", FALSE, FALSE)
  <2>1. JobOk(j, rows)
    BY <1>3, <1>4, NewJobOk
  <2>2. job' = [job EXCEPT ![w] = j] /\ UNCHANGED <<rows, members, declared, local>>
    BY <1>6 DEF ImportRelay
  <2> HIDE DEF j
  <2> QED
    BY <1>1, <2>1, <2>2, WorkerMoves
<1>7. ASSUME NEW b \in Seq(Keys \X Tiers), b # <<>>, NEW sc, NEW force, NEW dry,
             HivePush(w, b, sc, force, dry)
      PROVE  ShInv'
  <2> DEFINE j == Job("push", b, <<"engine">>, sc, force, dry)
  <2>1. JobOk(j, rows)
    BY <1>4, <1>7, NewJobOk
  <2>2. job' = [job EXCEPT ![w] = j] /\ UNCHANGED <<rows, members, declared, local>>
    BY <1>7 DEF HivePush
  <2> HIDE DEF j
  <2> QED
    BY <1>1, <2>1, <2>2, WorkerMoves
<1>8. ASSUME NEW k \in Keys, NEW sc, NEW force, NEW dry, HivePropagate(w, k, sc, force, dry)
      PROVE  ShInv'
  <2>1. local[k] \in Tiers /\ HivePush(w, <<<<k, local[k]>>>>, sc, force, dry)
    BY <1>1, <1>8 DEF HivePropagate
  <2> QED
    BY <1>2, <1>7, <2>1
<1>9. ASSUME NEW k \in Keys, Forget(w, k) PROVE ShInv'
  <2> DEFINE j == Job("reap", <<<<k, local[k]>>>>, Order(ReapNamespaces), "private", FALSE, FALSE)
  <2>1. local[k] \in Tiers
    BY <1>1, <1>9 DEF Forget
  <2>2. JobOk(j, rows)
    BY <1>2, <2>1, ReapedNamespaces, NewJobOk
  <2>3. /\ job' = [job EXCEPT ![w] = j] /\ UNCHANGED <<rows, members, declared>>
        /\ local' = [local EXCEPT ![k] = None]
    BY <1>9 DEF Forget
  <2> HIDE DEF j
  <2>4. local' \in [Keys -> Tiers \cup {None}]
    BY <1>1, <2>3
  <2> QED
    BY <2>2, <2>3, <2>4, WorkerMoves
<1> QED
  BY <1>3, <1>5, <1>6, <1>7, <1>8, <1>9

LEMMA RelayKeeps ==
  ASSUME ShInv, NEW w \in Workers, NEW ok \in BOOLEAN, RelayItem(w, ok) PROVE ShInv'
<1> DEFINE j == job[w]
           e == Head(j.items)
<1>1. JobOk(j, rows) /\ local \in [Keys -> Tiers \cup {None}]
  BY DEF ShInv
<1>2. j.todo = <<>> /\ j.items # <<>> /\ UNCHANGED <<rows, members, declared>>
  BY DEF RelayItem
<1>3. e \in Keys \X Tiers
  BY <1>1, <1>2 DEF JobOk
<1>4. CASE ok
  <2> DEFINE d == [j EXCEPT !.todo = AfterSave("private", e[2])]
  <2>1. job' = [job EXCEPT ![w] = d] /\ local' = [local EXCEPT ![e[1]] = e[2]]
    BY <1>4 DEF RelayItem
  <2>2. e[1] \in Keys /\ e[2] \in Tiers
    BY <1>3
  <2>3. AfterSave("private", e[2]) \in Seq(Targets)
    BY TargetsOfASave
  <2> HIDE DEF e
  <2>4. DOMAIN d = JobFields /\ d.items = j.items /\ d.plan = j.plan
        /\ d.todo = AfterSave("private", e[2])
    BY <1>1 DEF JobOk, JobFields
  <2>5. j.plan = None
    BY <1>1, <1>2 DEF JobOk
  <2>6. JobOk(d, rows)
    BY <1>1, <1>2, <2>3, <2>4, <2>5 DEF JobOk
  <2>7. local' \in [Keys -> Tiers \cup {None}]
    BY <1>1, <2>1, <2>2
  <2> HIDE DEF d
  <2> QED
    BY <1>2, <2>1, <2>6, <2>7, WorkerMoves
<1>5. CASE ~ok
  <2> DEFINE d == [j EXCEPT !.items = Tail(@), !.skipped = @ + 1]
  <2>1. job' = [job EXCEPT ![w] = d] /\ UNCHANGED local
    <3>1. job' = [job EXCEPT ![w].items = Tail(@), ![w].skipped = @ + 1] /\ UNCHANGED local
      BY <1>5 DEF RelayItem
    <3> QED
      BY <3>1 DEF ShInv
  <2>2. DOMAIN d = JobFields /\ d.items = Tail(j.items) /\ d.plan = j.plan /\ d.todo = j.todo
    BY <1>1 DEF JobOk, JobFields
  <2>3. j.plan = None /\ Tail(j.items) \in Seq(Keys \X Tiers)
    BY <1>1, <1>2 DEF JobOk
  <2>4. JobOk(d, rows)
    BY <1>1, <1>2, <2>2, <2>3 DEF JobOk
  <2> HIDE DEF d
  <2> QED
    BY <1>1, <1>2, <2>1, <2>4, WorkerMoves
<1> QED
  BY <1>4, <1>5

LEMMA PlanMade ==
  ASSUME NEW j, NEW R, JobOk(j, R), j.todo # <<>>, NEW p, NEW d, d = [j EXCEPT !.plan = p],
         p.ns \in Namespaces, p.tier \in Tiers, p.tip \in 0..Len(R[p.ns][Head(j.items)[1]])
  PROVE  JobOk(d, R)
<1>1. DOMAIN d = JobFields /\ d.items = j.items /\ d.todo = j.todo /\ d.plan = p
  BY DEF JobOk, JobFields
<1> QED
  BY <1>1 DEF JobOk, PlanOk

LEMMA EngineWritesToANamespace ==
  ASSUME ShInv, NEW scope, NEW t, NEW force, EngineNamespace(scope, t, force) # None
  PROVE  EngineNamespace(scope, t, force) \in Namespaces
BY DEF ShInv, EngineNamespace, Namespaces

\* What is read may be out of date when it is used, but it names a row.
LEMMA ReadKeeps == ASSUME ShInv, NEW w \in Workers, ReadTip(w) PROVE ShInv'
<1> DEFINE j == job[w]
           k == Head(j.items)[1]
           t == Head(j.items)[2]
           n == IF Head(j.todo) # "engine" THEN Head(j.todo) ELSE EngineNamespace(j.scope, t, j.force)
           p == [ns |-> n, tip |-> FollowTip(rows[n][k]), tier |-> t, seen |-> rows[n][k]]
           d == IF n = None THEN Advance(Note(j, "skipped"))
                ELSE IF j.dry THEN Advance(Note(j, "pushed"))
                ELSE [j EXCEPT !.plan = p]
<1>1. /\ JobOk(j, rows) /\ local \in [Keys -> Tiers \cup {None}] /\ j.todo # <<>>
      /\ UNCHANGED <<rows, members, declared, local>>
  BY DEF ShInv, ReadTip
<1>2. job' = [job EXCEPT ![w] = d]
  BY DEF ReadTip, ShInv
<1>3. Head(j.items) \in Keys \X Tiers /\ Head(j.todo) \in Targets
  BY <1>1 DEF JobOk
<1>4. k \in Keys /\ t \in Tiers
  BY <1>3
<1>5. n # None => n \in Namespaces
  BY <1>3, EngineWritesToANamespace DEF Targets
<1>6. JobOk(Advance(Note(j, "skipped")), rows) /\ JobOk(Advance(Note(j, "pushed")), rows)
  BY <1>1, NoteKeeps, AdvanceKeeps
<1>7. n # None => JobOk([j EXCEPT !.plan = p], rows)
  <2> SUFFICES ASSUME n # None PROVE JobOk([j EXCEPT !.plan = p], rows)
    OBVIOUS
  <2> DEFINE s == rows[n][k]
  <2>1. ChainOk(s)
    BY <1>4, <1>5 DEF ShInv
  <2>3. FollowTip(s) \in 0..Len(s)
    BY <2>1, TipInRange
  <2>4. p.ns = n /\ p.tier = t /\ p.tip = FollowTip(s)
    OBVIOUS
  <2>5. n \in Namespaces
    BY <1>5
  <2> HIDE DEF p, n, k, t
  <2>6. p.tip \in 0..Len(rows[p.ns][Head(j.items)[1]])
    BY <2>3, <2>4 DEF k
  <2>7. p.ns \in Namespaces /\ p.tier \in Tiers
    BY <1>4, <2>4, <2>5
  <2> HIDE DEF j
  <2> QED
    BY <1>1, <2>6, <2>7, PlanMade
<1>8. JobOk(d, rows)
  BY <1>6, <1>7
<1> HIDE DEF d
<1> QED
  BY <1>1, <1>2, <1>8, WorkerMoves

LEMMA WriteKeeps == ASSUME ShInv, NEW w \in Workers, WriteRow(w) PROVE ShInv'
<1> DEFINE j == job[w]
           k == Head(j.items)[1]
           p == j.plan
           s == rows[p.ns][k]
           new == IF p.tip = 0 THEN WriteEntry(s, Row(p.tier)) ELSE SupersedeExisting(s, p.tip, Row(p.tier))
           d == Advance(Note(j, "pushed"))
<1>1. JobOk(j, rows) /\ p # None
  BY DEF ShInv, WriteRow
<1>2. Commit(p.ns, k, new) /\ job' = [job EXCEPT ![w] = d] /\ UNCHANGED <<members, declared, local>>
  BY DEF WriteRow, ShInv
<1>3. /\ j.items # <<>> /\ p.ns \in Namespaces /\ p.tier \in Tiers /\ p.tip \in 0..Len(s)
      /\ j.items \in Seq(Keys \X Tiers)
  BY <1>1 DEF JobOk, PlanOk
<1>4. k \in Keys
  <2>1. Head(j.items) \in Keys \X Tiers
    BY <1>3
  <2> QED
    BY <2>1
<1>5. ChainOk(s)
  BY <1>3, <1>4 DEF ShInv
<1>6. JobOk(d, rows)
  BY <1>1, NoteKeeps, AdvanceKeeps
<1> HIDE DEF d, k, p, s
<1>7. ChainOk(new) /\ Len(s) <= Len(new)
  <2>1. CASE p.tip = 0
    BY <1>3, <1>5, <2>1, InsertKeepsChain
  <2>2. CASE p.tip # 0
    <3>1. Len(s) \in Nat
      BY <1>5 DEF ChainOk
    <3>2. p.tip \in 1..Len(s)
      BY <1>3, <2>2, <3>1
    <3> QED
      BY <1>3, <1>5, <2>2, <3>2, SupersedeKeepsChain
  <2> QED
    BY <2>1, <2>2
<1> HIDE DEF new
<1>8. Len(rows[p.ns][k]) <= Len(new)
  BY <1>7 DEF s
<1> QED
  BY <1>2, <1>3, <1>4, <1>6, <1>7, <1>8, WorkerCommits

LEMMA ReapKeeps == ASSUME ShInv, NEW w \in Workers, ArchiveRow(w) PROVE ShInv'
<1> DEFINE j == job[w]
           k == Head(j.items)[1]
           p == j.plan
           s == rows[p.ns][k]
           d == Advance(j)
<1>1. JobOk(j, rows) /\ p # None /\ local \in [Keys -> Tiers \cup {None}]
  BY DEF ShInv, ArchiveRow
<1>2. /\ job' = [job EXCEPT ![w] = d] /\ UNCHANGED <<members, declared, local>>
      /\ IF p.tip > 0 /\ s[p.tip].live THEN Commit(p.ns, k, Archived(s, p.tip)) ELSE UNCHANGED rows
  BY DEF ArchiveRow, ShInv
<1>3. /\ j.items # <<>> /\ p.ns \in Namespaces /\ p.tip \in 0..Len(s)
      /\ j.items \in Seq(Keys \X Tiers)
  BY <1>1 DEF JobOk, PlanOk
<1>4. k \in Keys
  <2>1. Head(j.items) \in Keys \X Tiers
    BY <1>3
  <2> QED
    BY <2>1
<1>5. ChainOk(s)
  BY <1>3, <1>4 DEF ShInv
<1>6. JobOk(d, rows)
  BY <1>1, AdvanceKeeps
<1> HIDE DEF d, k, p, s
<1>7. CASE p.tip > 0 /\ s[p.tip].live
  <2>1. p.tip \in 1..Len(s)
    <3>1. Len(s) \in Nat
      BY <1>5 DEF ChainOk
    <3> QED
      BY <1>3, <1>7, <3>1
  <2> DEFINE new == Archived(s, p.tip)
  <2>2. ChainOk(new) /\ Len(s) <= Len(new)
    BY <1>5, <1>7, <2>1, ArchiveKeepsChain
  <2>3. Commit(p.ns, k, new)
    BY <1>2, <1>7
  <2> HIDE DEF new
  <2>4. Len(rows[p.ns][k]) <= Len(new)
    BY <2>2 DEF s
  <2> QED
    BY <1>2, <1>3, <1>4, <1>6, <2>2, <2>3, <2>4, WorkerCommits
<1>8. CASE ~(p.tip > 0 /\ s[p.tip].live)
  BY <1>1, <1>2, <1>6, <1>8, WorkerMoves
<1> QED
  BY <1>7, <1>8

LEMMA OthersKeep ==
  ASSUME ShInv, NEW w \in Workers, HiveFails(w) \/ Return(w) PROVE ShInv'
<1>1. JobOk(job[w], rows) /\ local \in [Keys -> Tiers \cup {None}]
  BY DEF ShInv
<1>2. JobOk(Advance(Note(job[w], "failed")), rows)
  BY <1>1, NoteKeeps, AdvanceKeeps
<1>3. JobOk(Idle, rows)
  <2>1. <<>> \in Seq(Keys \X Tiers) /\ <<>> \in Seq(Targets)
    OBVIOUS
  <2> QED
    BY <2>1, NewJobOk, Zenon DEF Idle
<1>4. CASE HiveFails(w)
  <2>1. job' = [job EXCEPT ![w] = Advance(Note(job[w], "failed"))]
        /\ UNCHANGED <<rows, members, declared, local>>
    BY <1>4 DEF HiveFails, ShInv
  <2> QED
    BY <1>1, <1>2, <2>1, WorkerMoves
<1>5. CASE Return(w)
  <2>1. job' = [job EXCEPT ![w] = Idle] /\ UNCHANGED <<rows, members, declared, local>>
    BY <1>5 DEF Return
  <2> QED
    BY <1>1, <1>3, <2>1, WorkerMoves
<1> QED
  BY <1>4, <1>5

LEMMA ShNextKeeps == ShInv /\ [ShNext]_shVars => ShInv'
<1> SUFFICES ASSUME ShInv, [ShNext]_shVars PROVE ShInv'
  OBVIOUS
<1>1. ASSUME NEW w \in Workers,
             \/ \E k \in Keys, t \in Tiers, sc \in Scopes : SaveEntry(w, k, t, sc)
             \/ \E b \in Batches : ImportRelay(w, b)
             \/ \E sc \in Scopes, force, dry \in BOOLEAN :
                  \/ \E b \in Batches : Len(b) > 1 /\ HivePush(w, b, sc, force, dry)
                  \/ \E k \in Keys : HivePropagate(w, k, sc, force, dry)
             \/ \E k \in Keys : Forget(w, k)
      PROVE  ShInv'
  BY <1>1, CallsKeep
<1>2. ASSUME NEW w \in Workers, (\E ok \in BOOLEAN : RelayItem(w, ok)) \/ Work(w) \/ HiveFails(w)
      PROVE  ShInv'
  BY <1>2, RelayKeeps, ReadKeeps, WriteKeeps, ReapKeeps, OthersKeep DEF Work
<1>3. ASSUME NEW g \in Groups, AddMember(g) \/ RemoveMember(g) PROVE ShInv'
  <2>1. members' \subseteq Groups /\ UNCHANGED <<rows, declared, local, job>>
    BY <1>3 DEF AddMember, RemoveMember, ShInv
  <2> QED
    BY <2>1 DEF ShInv
<1>4. ASSUME NEW n \in Namespaces, NEW k \in Keys, PatchConfidence(n, k) PROVE ShInv'
  <2>1. Commit(n, k, rows[n][k]) /\ UNCHANGED <<members, declared, local, job>>
    BY <1>4 DEF PatchConfidence
  <2>2. ChainOk(rows[n][k])
    BY DEF ShInv
  <2>3. Len(rows[n][k]) <= Len(rows[n][k])
    <3>1. Len(rows[n][k]) \in Nat
      BY <2>2 DEF ChainOk
    <3> QED
      BY <3>1
  <2>4. /\ rows' \in [Namespaces -> [Keys -> Seq(HiveRows)]]
        /\ \A m \in Namespaces, i \in Keys : ChainOk(rows'[m][i])
        /\ \A v \in Workers : JobOk(job[v], rows')
    BY <2>1, <2>2, <2>3, Committed
  <2> QED
    BY <2>1, <2>4 DEF ShInv
<1>5. CASE (\E r \in 0..1 : WaitBegin(r)) \/ Wait \/ WaitTimeout \/ WaitFails
  <2>1. UNCHANGED <<rows, members, declared, local, job>>
    BY <1>5 DEF WaitBegin, Wait, WaitListen, WaitCheck, WaitNotified, WaitPoll, WaitTimeout, WaitFails
  <2> QED
    BY <2>1 DEF ShInv
<1>6. CASE UNCHANGED shVars
  BY <1>6 DEF shVars, ShInv
<1> QED
  BY <1>1, <1>2, <1>3, <1>4, <1>5, <1>6 DEF ShNext

\* Sharing.ReadableUnlessArchived.  A reader that follows superseded_by from the
\* row stored under the key comes to a live row, or to one that a forget archived
\* (_follow_live_tip over what _supersede_existing, _write_entry and archive_entry
\* leave, with any number of them interleaved and any of them acting on a stale tip).
THEOREM SharedKeysStayReadable == ShSpec => []ReadableUnlessArchived
<1>1. ShInv => ReadableUnlessArchived
  <2> SUFFICES ASSUME ShInv, NEW n \in Namespaces, NEW k \in Keys, rows[n][k] # <<>>,
                      Found(rows[n][k]) = 0
               PROVE  rows[n][k][FollowTip(rows[n][k])].archived
    BY DEF ReadableUnlessArchived
  <2> DEFINE s == rows[n][k]
             tip == FollowTip(s)
  <2>1. ChainOk(s)
    BY DEF ShInv
  <2>2. tip \in 1..Len(s) /\ ~Continues(s, tip)
    BY <2>1, WalkEnds
  <2>3. ~s[tip].live
    <3>1. Len(s) \in Nat
      BY <2>1 DEF ChainOk
    <3>2. tip # 0
      BY <2>2, <3>1
    <3> QED
      BY <3>2 DEF Found
  <2> HIDE DEF s, tip
  <2>4. s[tip].archived
    BY <2>1, <2>2, <2>3 DEF ChainOk, Continues
  <2> QED
    BY <2>4 DEF s, tip
<1> QED
  BY <1>1, ShInitHolds, ShNextKeeps, PTL DEF ShSpec

=============================================================================

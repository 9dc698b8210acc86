----------------------------- MODULE Idempotency -----------------------------
(***************************************************************************)
(* Idempotent write routes of the HTTP adapter (http_adapter.py) over the  *)
(* idempotency_keys table (idempotency.py).                                *)
(*                                                                         *)
(* All requests here carry the same project and the same                   *)
(* X-Idempotency-Key: other keys share neither a guard nor a row.  A       *)
(* request takes the per-key guard of its replica, looks the key up,       *)
(* executes the route's handler on a miss, stores the response and lets    *)
(* the guard go.  Every await is a point where the event loop switches     *)
(* requests, so each stretch between two awaits is one action.             *)
(***************************************************************************)
EXTENDS Integers, Sequences, FiniteSets

CONSTANTS
    Requests,      \* requests bearing the key
    Replicas,      \* server processes in front of one database
    Routes,        \* write routes (the operation column)
    CheckFails,    \* bound: lookups that find the table unavailable
    SaveFails,     \* bound: stores that find the table unavailable
    Ages,          \* bound: times a stored row outlives its 24 hours
    CanOversize    \* a response may exceed _MAX_RESPONSE_BYTES

ASSUME BoundsAssumption == CheckFails \in Nat /\ SaveFails \in Nat /\ Ages \in Nat
ASSUME OversizeAssumption == CanOversize \in BOOLEAN
ASSUME RequestsAssumption == IsFiniteSet(Requests) /\ "nobody" \notin Requests

VARIABLES
    route, replica, \* of each request
    pc, outcome,    \* where a request is and how it ended
    guards,         \* _idem_guards of each replica: [lock, refs] or NoGuard
    lockOf,         \* the asyncio.Lock a request registered on
    owner, queue,   \* of each asyncio.Lock ever made
    row,            \* idempotency_keys row of each route
    execs,          \* handler executions per route
    checkFails, saveFails, ages \* failures and expiries so far

vars == <<route, replica, pc, outcome, guards, lockOf, owner, queue, row, execs,
          checkFails, saveFails, ages>>
requestVars == <<route, replica>>
lockVars == <<guards, lockOf, owner, queue>>
tableVars == <<row, execs, checkFails, saveFails, ages>>

Nobody == "nobody"
NoGuard == [lock |-> 0, refs |-> 0]
NoLock == 0
Locks == 1..Len(owner)
Registered(p) == {r \in Requests : replica[r] = p /\ lockOf[r] # NoLock}

Init ==
    /\ route \in [Requests -> Routes]
    /\ replica \in [Requests -> Replicas]
    /\ pc = [r \in Requests |-> "new"]
    /\ outcome = [r \in Requests |-> "none"]
    /\ guards = [p \in Replicas |-> NoGuard]
    /\ lockOf = [r \in Requests |-> NoLock]
    /\ owner = <<>> /\ queue = <<>>
    /\ row = [o \in Routes |-> "none"]
    /\ execs = [o \in Routes |-> 0]
    /\ checkFails = 0 /\ saveFails = 0 /\ ages = 0

-----------------------------------------------------------------------------
(* asyncio.Lock: first come, first served *)

Free(l) == owner[l] = Nobody /\ queue[l] = <<>>

\* _acquire_idem_guard: setdefault, count, and acquire or wait.
Arrive(r) ==
    LET p == replica[r]
        isNew == guards[p] = NoGuard
        l == IF isNew THEN Len(owner) + 1 ELSE guards[p].lock
    IN /\ pc[r] = "new"
       /\ lockOf' = [lockOf EXCEPT ![r] = l]
       /\ guards' = [guards EXCEPT ![p] = [lock |-> l, refs |-> @.refs + 1]]
       /\ IF isNew
          THEN /\ owner' = Append(owner, r) /\ queue' = Append(queue, <<>>)
               /\ pc' = [pc EXCEPT ![r] = "check"]
          ELSE IF Free(l)
          THEN /\ owner' = [owner EXCEPT ![l] = r] /\ UNCHANGED queue
               /\ pc' = [pc EXCEPT ![r] = "check"]
          ELSE /\ queue' = [queue EXCEPT ![l] = Append(@, r)] /\ UNCHANGED owner
               /\ pc' = [pc EXCEPT ![r] = "waiting"]
       /\ UNCHANGED <<requestVars, outcome, tableVars>>

\* The event loop resumes the first waiter of a released lock.
Wake(r) ==
    LET l == lockOf[r] IN
    /\ pc[r] = "waiting"
    /\ owner[l] = Nobody /\ Head(queue[l]) = r
    /\ owner' = [owner EXCEPT ![l] = r]
    /\ queue' = [queue EXCEPT ![l] = Tail(@)]
    /\ pc' = [pc EXCEPT ![r] = "check"]
    /\ UNCHANGED <<requestVars, outcome, guards, lockOf, tableVars>>

\* The entry leaves the table with the last request registered on it.
Unregister(r) ==
    LET p == replica[r] IN
    /\ guards' = [guards EXCEPT ![p] = IF @.refs <= 1 THEN NoGuard
                                      ELSE [lock |-> @.lock, refs |-> @.refs - 1]]
    /\ lockOf' = [lockOf EXCEPT ![r] = NoLock]

\* A request cancelled while it waits counts itself out.
Cancel(r) ==
    LET l == lockOf[r] IN
    /\ pc[r] = "waiting"
    /\ queue' = [queue EXCEPT ![l] = SelectSeq(@, LAMBDA s : s # r)]
    /\ Unregister(r)
    /\ pc' = [pc EXCEPT ![r] = "done"]
    /\ outcome' = [outcome EXCEPT ![r] = "cancelled"]
    /\ UNCHANGED <<requestVars, owner, tableVars>>

\* Mutant: a request that failed leaves its guard behind.
ReleaseUnlessFailed(r) ==
    LET p == replica[r] IN
    /\ pc[r] = "release"
    /\ pc' = [pc EXCEPT ![r] = "done"]
    /\ IF outcome[r] = "unavailable" \/ guards[p] = NoGuard
       THEN UNCHANGED <<owner, guards, lockOf>>
       ELSE owner' = [owner EXCEPT ![guards[p].lock] = Nobody] /\ Unregister(r)
    /\ UNCHANGED <<requestVars, outcome, queue, tableVars>>

\* _release_idem_guard, in the handler's finally: it releases the lock that is
\* in the table now.
Release(r) ==
    LET p == replica[r] IN
    /\ pc[r] = "release"
    /\ IF guards[p] = NoGuard
       THEN /\ lockOf' = [lockOf EXCEPT ![r] = NoLock]
            /\ UNCHANGED <<owner, guards>>
       ELSE /\ owner' = [owner EXCEPT ![guards[p].lock] = Nobody]
            /\ Unregister(r)
    /\ pc' = [pc EXCEPT ![r] = "done"]
    /\ UNCHANGED <<requestVars, outcome, queue, tableVars>>

-----------------------------------------------------------------------------
(* The guarded part of a handler *)

Ends(r, how) ==
    /\ pc' = [pc EXCEPT ![r] = "release"]
    /\ outcome' = [outcome EXCEPT ![r] = how]

\* Mutant: an unavailable table counts as a miss.
CheckFailsOpen(r) ==
    /\ pc[r] = "check"
    /\ \/ row[route[r]] = "fresh" /\ Ends(r, "replayed") /\ UNCHANGED checkFails
       \/ /\ pc' = [pc EXCEPT ![r] = "execute"] /\ UNCHANGED outcome
          /\ \/ row[route[r]] # "fresh" /\ UNCHANGED checkFails
             \/ checkFails < CheckFails /\ checkFails' = checkFails + 1
    /\ UNCHANGED <<requestVars, lockVars, row, execs, saveFails, ages>>

\* IdempotencyStore.check: a fresh row is replayed; an unavailable table is a
\* 503, never a write.
Check(r) ==
    /\ pc[r] = "check"
    /\ \/ row[route[r]] = "fresh" /\ Ends(r, "replayed") /\ UNCHANGED checkFails
       \/ row[route[r]] # "fresh"
          /\ pc' = [pc EXCEPT ![r] = "execute"] /\ UNCHANGED <<outcome, checkFails>>
       \/ checkFails < CheckFails /\ checkFails' = checkFails + 1 /\ Ends(r, "unavailable")
    /\ UNCHANGED <<requestVars, lockVars, row, execs, saveFails, ages>>

\* A request body the route refuses: 400 or 413, nothing executed, nothing stored.
Reject(r) ==
    /\ pc[r] = "execute"
    /\ Ends(r, "rejected")
    /\ UNCHANGED <<requestVars, lockVars, tableVars>>

\* The service call, on a worker thread.
Execute(r) ==
    /\ pc[r] = "execute"
    /\ execs' = [execs EXCEPT ![route[r]] = @ + 1]
    /\ pc' = [pc EXCEPT ![r] = "save"]
    /\ UNCHANGED <<requestVars, outcome, lockVars, row, checkFails, saveFails, ages>>

\* IdempotencyStore.save: INSERT ... ON CONFLICT DO NOTHING.  A row that is
\* there stays, expired or not.  The write has happened even if storing fails.
Store(r) ==
    /\ pc[r] = "save"
    /\ \/ /\ row' = [row EXCEPT ![route[r]] = IF @ = "none" THEN "fresh" ELSE @]
          /\ Ends(r, "executed") /\ UNCHANGED saveFails
       \/ CanOversize /\ Ends(r, "executed") /\ UNCHANGED <<row, saveFails>>
       \/ saveFails < SaveFails /\ saveFails' = saveFails + 1 /\ Ends(r, "unavailable")
          /\ UNCHANGED row
    /\ UNCHANGED <<requestVars, lockVars, execs, checkFails, ages>>

-----------------------------------------------------------------------------
(* The table as time passes *)

\* 24 hours go by: check() no longer sees the row.
Age(o) ==
    /\ ages < Ages /\ row[o] = "fresh"
    /\ row' = [row EXCEPT ![o] = "expired"]
    /\ ages' = ages + 1
    /\ UNCHANGED <<requestVars, pc, outcome, lockVars, execs, checkFails, saveFails>>

\* sweep_expired, run by maintenance at its own pace.
SweepExpired ==
    /\ \E o \in Routes : row[o] = "expired"
    /\ row' = [o \in Routes |-> IF row[o] = "expired" THEN "none" ELSE row[o]]
    /\ UNCHANGED <<requestVars, pc, outcome, lockVars, execs, checkFails, saveFails, ages>>

Handle(r) == Arrive(r) \/ Wake(r) \/ Check(r) \/ Reject(r) \/ Execute(r) \/ Store(r) \/ Release(r)

AllDone == \A r \in Requests : pc[r] = "done"
Finished == AllDone /\ UNCHANGED vars

Next ==
    \/ \E r \in Requests : Handle(r) \/ Cancel(r)
    \/ \E o \in Routes : Age(o)
    \/ SweepExpired
    \/ Finished

\* The event loop runs every ready request; clients need not cancel.
Fairness == \A r \in Requests : WF_vars(Handle(r))
Spec == Init /\ [][Next]_vars /\ Fairness

-----------------------------------------------------------------------------
(* Properties *)

\* Types: a lock is owned by one request or free, and has one queue.
TypeOK ==
    /\ route \in [Requests -> Routes] /\ replica \in [Requests -> Replicas]
    /\ pc \in [Requests -> {"new", "waiting", "check", "execute", "save", "release", "done"}]
    /\ outcome \in [Requests -> {"none", "replayed", "executed", "rejected", "unavailable",
                                 "cancelled"}]
    /\ guards \in [Replicas -> [lock : Nat, refs : Nat]]
    /\ lockOf \in [Requests -> Nat]
    /\ owner \in Seq(Requests \union {Nobody})
    /\ row \in [Routes -> {"none", "fresh", "expired"}] /\ execs \in [Routes -> Nat]
    /\ ages \in Nat /\ saveFails \in Nat

\* The guard table counts exactly the requests registered on it, they all sit
\* on the lock the table names, and nothing is left once they are gone: the
\* release path cannot drop an entry under a queued duplicate.
GuardTableExact ==
    \A p \in Replicas :
        /\ guards[p].refs = Cardinality(Registered(p))
        /\ \A r \in Registered(p) : lockOf[r] = guards[p].lock

\* Two requests of a replica are never both between lookup and response.
OneInHandler ==
    \A r, s \in Requests :
        /\ r # s /\ replica[r] = replica[s]
        => ~({pc[r], pc[s]} \subseteq {"check", "execute", "save", "release"})

\* From the moment a response is stored until it expires, nobody is executing its
\* route for the key: neither a duplicate that looked the key up earlier, nor one
\* that met an unavailable table.
AtMostOncePerWindow ==
    \A r \in Requests : pc[r] \in {"execute", "save"} => row[route[r]] # "fresh"

\* An expired key may be used anew, and is then deduplicated again: a route is
\* executed once, and once more for each expiry of its response.
ReusedKeyDeduplicated == \A o \in Routes : execs[o] <= 1 + ages

\* A request that was told "executed" or "replayed" names a write that happened.
ReplayIsReal ==
    \A r \in Requests : outcome[r] \in {"executed", "replayed"} => execs[route[r]] > 0

\* Every request that arrived is answered: no guard is left locked behind a failure,
\* a rejection or a cancelled waiter.
EveryRequestAnswered == []<>(\A r \in Requests : pc[r] \in {"new", "done"})
=============================================================================

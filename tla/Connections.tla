---------------------------- MODULE Connections ----------------------------
(***************************************************************************)
(* Connection pools (postgres_connection.py) and the per-process cache of  *)
(* stores that own them (mcp_server/context.py).                           *)
(*                                                                         *)
(* Each store has a connection manager, whose pool is opened on first use  *)
(* under a lock and may be closed at any time: the cache closes the stores *)
(* it evicts, and the loser of two concurrent constructions, while other   *)
(* threads may still use them.  A pooled connection keeps the session      *)
(* variables its borrower set until the pool resets it.                    *)
(***************************************************************************)
EXTENDS Integers, Sequences, FiniteSets

CONSTANTS
    Users,       \* threads that serve requests
    CacheKeys,   \* (project, agent) pairs
    Scopes,      \* session variables a context sets: project, agent, admin, namespace
    CacheMax,    \* _StoreCache.maxsize
    PoolMax,     \* connections of a pool
    MaxUses,     \* bound: requests
    Free         \* nobody holds the lock

ASSUME ConnectionsAssumption ==
    /\ IsFiniteSet(CacheKeys) /\ IsFiniteSet(Scopes) /\ Free \notin Users
    /\ CacheMax \in Nat \ {0} /\ PoolMax \in Nat \ {0} /\ MaxUses \in Nat

VARIABLES
    lru,         \* _StoreCache._entries, least recently used first: [key, store]
    mgr,         \* the managers, one per store: [pool, lock]
    pools,       \* every pool ever opened: [of, up, checked, idle, out]
    user,        \* what each thread is doing
    uses         \* requests so far

connvars == <<lru, mgr, pools, user, uses>>

Resting == [pc |-> "rest"]
UserGoto(u, r) == user' = [user EXCEPT ![u] = r]
To(u, pc) == [user[u] EXCEPT !.pc = pc]
Position(k) == {i \in 1..Len(lru) : lru[i].key = k}
Place(k) == CHOOSE i \in Position(k) : TRUE
MoveToEnd(i) == Append(SubSeq(lru, 1, i - 1) \o SubSeq(lru, i + 1, Len(lru)), lru[i])
TakeLock(m, u) == [mgr EXCEPT ![m].lock = u]

ConnInit ==
    /\ lru = << >> /\ mgr = << >> /\ pools = << >> /\ uses = 0
    /\ user = [u \in Users |-> Resting]

-----------------------------------------------------------------------------
(* The store cache.                                                        *)

\* get_or_create, first lock: a hit moves the entry to the end; a miss builds a
\* store outside the lock.
GetOrCreate(u, k, s) ==
    /\ user[u] = Resting /\ uses < MaxUses /\ uses' = uses + 1
    /\ LET r == [pc |-> "ensure", key |-> k, scope |-> s, store |-> 0, pool |-> 0, sess |-> {}, bye |-> {}]
       IN  IF Position(k) # {}
           THEN UserGoto(u, [r EXCEPT !.store = lru[Place(k)].store]) /\ lru' = MoveToEnd(Place(k))
           ELSE UserGoto(u, [r EXCEPT !.pc = "build"]) /\ UNCHANGED lru
    /\ UNCHANGED <<mgr, pools>>

BuildStore(u) ==
    /\ user[u].pc = "build"
    /\ mgr' = Append(mgr, [pool |-> 0, lock |-> Free])
    /\ UserGoto(u, [user[u] EXCEPT !.pc = "insert", !.store = Len(mgr) + 1])
    /\ UNCHANGED <<lru, pools, uses>>

\* get_or_create, second lock: another thread's store wins; else ours goes in and the
\* oldest ones over the limit come out.
InsertStore(u) ==
    /\ user[u].pc = "insert"
    /\ LET k == user[u].key  mine == user[u].store IN
       IF Position(k) # {}
       THEN /\ lru' = MoveToEnd(Place(k))
            /\ UserGoto(u, [user[u] EXCEPT !.pc = "evict", !.store = lru[Place(k)].store,
                                           !.bye = {mine}])
       ELSE LET all  == Append(lru, [key |-> k, store |-> mine])
                over == IF Len(all) > CacheMax THEN Len(all) - CacheMax ELSE 0
            IN  /\ lru' = SubSeq(all, over + 1, Len(all))
                /\ UserGoto(u, [user[u] EXCEPT !.pc = "evict",
                                           !.bye = {all[i].store : i \in 1..over}])
    /\ UNCHANGED <<mgr, pools, uses>>

\* close() of a victim: the slot is emptied under the manager's lock, and the pool is
\* closed after it.
CloseSwap(u, m) ==
    /\ user[u].pc = "evict" /\ m \in user[u].bye /\ user[u].pool = 0 /\ mgr[m].lock = Free
    /\ mgr' = [mgr EXCEPT ![m].pool = 0]
    /\ UserGoto(u, [user[u] EXCEPT !.bye = @ \ {m}, !.pool = mgr[m].pool])
    /\ UNCHANGED <<lru, pools, uses>>

CloseShut(u) ==
    /\ user[u].pc = "evict" /\ user[u].pool # 0
    /\ pools' = [pools EXCEPT ![user[u].pool].up = FALSE, ![user[u].pool].idle = << >>]
    /\ UserGoto(u, [user[u] EXCEPT !.pool = 0])
    /\ UNCHANGED <<lru, mgr, uses>>

Evicted(u) ==
    /\ user[u].pc = "evict" /\ user[u].bye = {} /\ user[u].pool = 0
    /\ UserGoto(u, IF user[u].store = 0 THEN Resting ELSE To(u, "ensure"))
    /\ UNCHANGED <<lru, mgr, pools, uses>>

\* clear(): every store is taken out and closed.
ClearCache(u) ==
    /\ user[u] = Resting /\ uses < MaxUses /\ uses' = uses + 1
    /\ lru' = << >>
    /\ UserGoto(u, [pc |-> "evict", store |-> 0, pool |-> 0, bye |-> {lru[i].store : i \in 1..Len(lru)}])
    /\ UNCHANGED <<mgr, pools>>

-----------------------------------------------------------------------------
(* Opening the pool.                                                       *)

\* _ensure_pool: an open pool is used without the lock.
EnsureFast(u) ==
    /\ user[u].pc = "ensure" /\ mgr[user[u].store].pool # 0
    /\ UserGoto(u, [user[u] EXCEPT !.pc = "borrow", !.pool = mgr[user[u].store].pool])
    /\ UNCHANGED <<lru, mgr, pools, uses>>

\* The slot was empty: on to the lock, which another thread may hold.
EnsureMiss(u) ==
    /\ user[u].pc = "ensure" /\ mgr[user[u].store].pool = 0 /\ mgr[user[u].store].lock # Free
    /\ UserGoto(u, To(u, "wait"))
    /\ UNCHANGED <<lru, mgr, pools, uses>>

EnsureSlow(u) ==
    /\ user[u].pc \in {"ensure", "wait"} /\ mgr[user[u].store].lock = Free
    /\ user[u].pc = "ensure" => mgr[user[u].store].pool = 0
    /\ mgr' = TakeLock(user[u].store, u)
    /\ UserGoto(u, To(u, "open"))
    /\ UNCHANGED <<lru, pools, uses>>

\* Under the lock: look again, and open the pool.  It is published before the role
\* is checked.
OpenPool(u) ==
    /\ user[u].pc = "open"
    /\ LET m == user[u].store IN
       IF mgr[m].pool # 0
       THEN /\ mgr' = TakeLock(m, Free) /\ UNCHANGED pools
            /\ UserGoto(u, [user[u] EXCEPT !.pc = "borrow", !.pool = mgr[m].pool])
       ELSE /\ pools' = Append(pools, [of |-> m, up |-> TRUE, checked |-> FALSE, idle |-> << >>, out |-> 0])
            /\ mgr' = [mgr EXCEPT ![m].pool = Len(pools) + 1]
            /\ UserGoto(u, [user[u] EXCEPT !.pc = "check", !.pool = Len(pools) + 1])
    /\ UNCHANGED <<lru, uses>>

\* _assert_non_privileged_role, _handle_role_violations: a privileged role closes the
\* pool again and the caller gets the error.
CheckRole(u) ==
    /\ user[u].pc = "check"
    /\ \/ /\ pools' = [pools EXCEPT ![user[u].pool].checked = TRUE]
          /\ mgr' = TakeLock(user[u].store, Free)
          /\ UserGoto(u, To(u, "borrow"))
       \/ /\ pools' = [pools EXCEPT ![user[u].pool].up = FALSE, ![user[u].pool].idle = << >>]
          /\ mgr' = [mgr EXCEPT ![user[u].store] = [pool |-> 0, lock |-> Free]]
          /\ UserGoto(u, Resting)
    /\ UNCHANGED <<lru, uses>>

-----------------------------------------------------------------------------
(* Borrowing a connection.                                                 *)

\* pool.connection(): an idle connection, a new one, or - when the pool is closed,
\* or full for longer than the timeout - an error.
Borrow(u) ==
    /\ user[u].pc = "borrow"
    /\ LET p == pools[user[u].pool] IN
       \/ /\ p.up /\ p.idle # << >>
          /\ pools' = [pools EXCEPT ![user[u].pool].idle = Tail(@), ![user[u].pool].out = @ + 1]
          /\ UserGoto(u, [user[u] EXCEPT !.pc = "set", !.sess = Head(p.idle)])
       \/ /\ p.up /\ p.idle = << >> /\ p.out < PoolMax
          /\ pools' = [pools EXCEPT ![user[u].pool].out = @ + 1]
          /\ UserGoto(u, To(u, "set"))
       \/ /\ ~p.up \/ (p.idle = << >> /\ p.out >= PoolMax)
          /\ UNCHANGED pools /\ UserGoto(u, Resting)
    /\ UNCHANGED <<lru, mgr, uses>>

\* project_context, agent_context, admin_context, namespace_context: SET, which may
\* fail, and then the caller's statements.
SetScope(u) ==
    /\ user[u].pc = "set"
    /\ \/ UserGoto(u, [user[u] EXCEPT !.pc = "query", !.sess = @ \union {user[u].scope}])
       \/ UserGoto(u, To(u, "return"))
    /\ UNCHANGED <<lru, mgr, pools, uses>>

Query(u) ==
    /\ user[u].pc = "query"
    /\ UserGoto(u, To(u, "return"))
    /\ UNCHANGED <<lru, mgr, pools, uses>>

ResetRolledBack(s) == s

\* _RESET_SESSION_VARS_SQL, committed
ResetSessionVars(s) == s \ Scopes

\* The connection goes back through the pool's reset; one that cannot be reset is
\* discarded, and so is one whose pool is closed.
Return(u) ==
    /\ user[u].pc = "return"
    /\ \E resets \in BOOLEAN :
          pools' = [pools EXCEPT
              ![user[u].pool].out = @ - 1,
              ![user[u].pool].idle =
                  IF resets /\ pools[user[u].pool].up
                  THEN Append(@, ResetSessionVars(user[u].sess)) ELSE @]
    /\ UserGoto(u, Resting)
    /\ UNCHANGED <<lru, mgr, uses>>

UserStep(u) ==
    \/ BuildStore(u) \/ InsertStore(u) \/ CloseShut(u) \/ Evicted(u)
    \/ \E m \in 1..Len(mgr) : CloseSwap(u, m)
    \/ EnsureFast(u) \/ EnsureMiss(u) \/ EnsureSlow(u) \/ OpenPool(u) \/ CheckRole(u)
    \/ Borrow(u) \/ SetScope(u) \/ Query(u) \/ Return(u)

ConnNext ==
    \E u \in Users :
        \/ UserStep(u) \/ ClearCache(u)
        \/ \E k \in CacheKeys, s \in Scopes : GetOrCreate(u, k, s)

\* Every thread that has begun goes on; waits have timeouts.
ConnFairness == \A u \in Users : WF_connvars(UserStep(u))
ConnSpec == ConnInit /\ [][ConnNext]_connvars /\ ConnFairness

-----------------------------------------------------------------------------
(* Properties.                                                             *)

\* A borrower's statements run with the session variables it set and no others,
\* whoever used the connection before (TAP-514).
ScopeExact == \A u \in Users : user[u].pc = "query" => user[u].sess = {user[u].scope}

\* No pool is lost: an open pool is its manager's, or a thread is closing it.
NoPoolLeaked ==
    \A i \in 1..Len(pools) :
        pools[i].up =>
            \/ mgr[pools[i].of].pool = i
            \/ \E u \in Users : user[u].pc = "evict" /\ user[u].pool = i

\* The manager's slot never points to a closed pool: a borrower that reads it later
\* finds it open or opens a new one.
SlotIsOpen == \A m \in 1..Len(mgr) : mgr[m].pool # 0 => pools[mgr[m].pool].up
=============================================================================

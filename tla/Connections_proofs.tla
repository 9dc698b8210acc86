------------------------- MODULE Connections_proofs -------------------------
(***************************************************************************)
(* Proofs about Connections: for every number of threads, stores and       *)
(* pools, a statement runs under exactly the scope its thread set, no slot  *)
(* points to a closed pool and no open pool is lost.                       *)
(***************************************************************************)
EXTENDS Connections, SequenceTheorems, TLAPS

(***************************************************************************)
(* The inductive invariant.  ThreadOk(u, r) is what a thread u whose       *)
(* record is r may rely on: the connection it works on carries nothing     *)
(* before SET and its own scope after it; a thread that opens a pool holds *)
(* its manager's lock, and the slot is its own until the role is checked;  *)
(* a thread that closes a pool took it out of its slot before.             *)
(***************************************************************************)
Borrower == [pc : {"build", "insert", "evict", "ensure", "wait", "open", "check", "borrow",
                   "set", "query", "return"},
             key : CacheKeys, scope : Scopes, store : Nat, pool : Nat,
             sess : SUBSET Scopes, bye : SUBSET Nat]
Cleaner == [pc : {"evict"}, store : {0}, pool : Nat, bye : SUBSET Nat]
Manager == [pool : Nat, lock : Users \cup {Free}]
\* An idle connection carries no session variable.
Blank == Seq({{}})
Pool == [of : Nat, up : BOOLEAN, checked : BOOLEAN, idle : Blank, out : Int]

ConnType ==
    /\ mgr \in Seq(Manager) /\ pools \in Seq(Pool)
    /\ lru \in Seq([key : CacheKeys, store : Nat])
    /\ user \in [Users -> {Resting} \cup Borrower \cup Cleaner]

InRange ==
    /\ \A m \in 1..Len(mgr) : mgr[m].pool \in 0..Len(pools)
    /\ \A i \in 1..Len(pools) : pools[i].of \in 1..Len(mgr)
    /\ \A i \in 1..Len(lru) : lru[i].store \in 1..Len(mgr)

SlotOwned ==
    \A m \in 1..Len(mgr) : mgr[m].pool # 0 =>
        pools[mgr[m].pool].of = m /\ pools[mgr[m].pool].up

ThreadIn(ms, ps, u, r) ==
    /\ r \in Borrower /\ r.pc \notin {"query", "return"} => r.sess = {}
    /\ r.pc = "query" => r.sess = {r.scope}
    /\ r.pc \in {"insert", "ensure", "wait", "open", "check"} => r.store \in 1..Len(ms)
    /\ r.pc \in {"build", "insert"} => r.pool = 0
    /\ r.pc = "evict" =>
         /\ r.store \in 0..Len(ms) /\ r.bye \subseteq 1..Len(ms) /\ r.pool \in 0..Len(ps)
         /\ r.pool # 0 => \A m \in 1..Len(ms) : ms[m].pool # r.pool
    /\ r.pc \in {"check", "borrow", "set", "query", "return"} => r.pool \in 1..Len(ps)
    /\ r.pc \in {"open", "check"} => ms[r.store].lock = u
    /\ r.pc = "check" => ms[r.store].pool = r.pool
ThreadOk(u, r) == ThreadIn(mgr, pools, u, r)

ThreadsOk == \A u \in Users : ThreadOk(u, user[u])

ConnInv == ConnType /\ InRange /\ SlotOwned /\ ThreadsOk /\ NoPoolLeaked

\* A thread in the middle of a request has a full record.
LEMMA BorrowerOf ==
    ASSUME ConnType, NEW u \in Users,
           user[u].pc \in {"build", "insert", "ensure", "wait", "open", "check", "borrow", "set",
                           "query", "return"}
    PROVE  user[u] \in Borrower
<1>1. user[u] # Resting /\ user[u] \notin Cleaner
  BY DEF Resting, Cleaner
<1>2. QED
  BY <1>1 DEF ConnType

LEMMA UserType ==
    ASSUME ConnType, NEW u \in Users, NEW r \in {Resting} \cup Borrower \cup Cleaner, UserGoto(u, r)
    PROVE  /\ user' \in [Users -> {Resting} \cup Borrower \cup Cleaner]
           /\ user'[u] = r /\ \A v \in Users \ {u} : user'[v] = user[v]
BY DEF ConnType, UserGoto

\* A step of u that changes neither a manager nor a pool, and closes nothing.
LEMMA LocalStep ==
    ASSUME ConnInv, NEW u \in Users, NEW r \in {Resting} \cup Borrower \cup Cleaner, UserGoto(u, r),
           UNCHANGED <<mgr, pools>>, ThreadOk(u, r), user[u].pc = "evict" => user[u].pool = 0,
           lru' \in Seq([key : CacheKeys, store : Nat]),
           \A i \in 1..Len(lru') : lru'[i].store \in 1..Len(mgr)
    PROVE  ConnInv'
<1>1. /\ user' \in [Users -> {Resting} \cup Borrower \cup Cleaner]
      /\ user'[u] = r /\ \A v \in Users \ {u} : user'[v] = user[v]
  BY UserType DEF ConnInv
<1>2. ConnType' /\ InRange' /\ SlotOwned'
  BY <1>1 DEF ConnInv, ConnType, InRange, SlotOwned
<1>3. ThreadsOk'
  <2> SUFFICES ASSUME NEW v \in Users PROVE ThreadOk(v, user'[v])
    BY DEF ThreadsOk, ThreadOk, ThreadIn
  <2>1. CASE v = u
    BY <1>1, <2>1
  <2>2. CASE v # u
    BY <1>1, <2>2 DEF ConnInv, ThreadsOk
  <2>3. QED
    BY <2>1, <2>2
<1>4. NoPoolLeaked'
  <2> SUFFICES ASSUME NEW i \in 1..Len(pools), pools[i].up, mgr[pools[i].of].pool # i
               PROVE  \E v \in Users : user'[v].pc = "evict" /\ user'[v].pool = i
    BY DEF NoPoolLeaked
  <2>1. PICK v \in Users : user[v].pc = "evict" /\ user[v].pool = i
    BY DEF ConnInv, NoPoolLeaked
  <2>2. v # u
    BY <2>1
  <2>3. QED
    BY <1>1, <2>1, <2>2
<1>5. QED
  BY <1>2, <1>3, <1>4 DEF ConnInv

LEMMA InitOk == ConnInit => ConnInv
<1> SUFFICES ASSUME ConnInit PROVE ConnInv
  OBVIOUS
<1>1. ConnType
  BY DEF ConnInit, ConnType
<1>2. InRange /\ SlotOwned /\ NoPoolLeaked
  BY DEF ConnInit, InRange, SlotOwned, NoPoolLeaked
<1>3. ThreadsOk
  <2>1. Resting \notin Borrower
    BY DEF Resting, Borrower
  <2>2. QED
    BY <2>1 DEF ConnInit, ThreadsOk, ThreadOk, ThreadIn, Resting
<1>4. QED
  BY <1>1, <1>2, <1>3 DEF ConnInv

-----------------------------------------------------------------------------
(* Steps that change neither a manager nor a pool.                         *)

\* A sequence over one set whose elements are in another is a sequence over that one.
LEMMA Retyped ==
    ASSUME NEW S, NEW T, NEW q \in Seq(S), \A i \in 1..Len(q) : q[i] \in T
    PROVE  q \in Seq(T)
<1>1. q \in [1..Len(q) -> S] /\ Len(q) \in Nat
  BY LenProperties
<1>2. q \in [1..Len(q) -> T]
  BY <1>1
<1>3. QED
  BY <1>1, <1>2, SeqDef

\* The entries of the cache, with stores that exist.
Entries == [key : CacheKeys, store : 1..Len(mgr)]

LEMMA EntriesOk ==
    ASSUME ConnType, InRange
    PROVE  /\ lru \in Seq(Entries)
           /\ \A q \in Seq(Entries) : /\ q \in Seq([key : CacheKeys, store : Nat])
                                      /\ \A i \in 1..Len(q) : q[i].store \in 1..Len(mgr)
<1> DEFINE F == [key : CacheKeys, store : Nat]
<1>0. Len(mgr) \in Nat /\ lru \in Seq(F)
  BY DEF ConnType
<1>1. \A e \in F : e.store \in 1..Len(mgr) => e \in Entries
  BY DEF Entries
<1>2. \A e \in Entries : e.store \in 1..Len(mgr) /\ e \in F
  BY <1>0 DEF Entries
<1> HIDE DEF F
<1>3. \A i \in 1..Len(lru) : lru[i] \in F /\ lru[i].store \in 1..Len(mgr)
  BY <1>0, ElementOfSeq DEF InRange
<1>4. lru \in Seq(Entries)
  BY <1>0, <1>1, <1>3, Retyped
<1>5. ASSUME NEW q \in Seq(Entries) PROVE q \in Seq(F) /\ \A i \in 1..Len(q) : q[i].store \in 1..Len(mgr)
  <2>1. \A i \in 1..Len(q) : q[i] \in Entries
    BY <1>5, ElementOfSeq
  <2>2. QED
    BY <1>2, <2>1, Retyped
<1>6. QED
  BY <1>4, <1>5 DEF F

\* Moving an entry to the end keeps the entries' type and their stores.
LEMMA MoveToEndOk ==
    ASSUME ConnType, InRange, NEW j \in 1..Len(lru)
    PROVE  /\ MoveToEnd(j) \in Seq([key : CacheKeys, store : Nat])
           /\ \A i \in 1..Len(MoveToEnd(j)) : MoveToEnd(j)[i].store \in 1..Len(mgr)
<1>1. lru \in Seq(Entries)
  BY EntriesOk
<1>2. SubSeq(lru, 1, j - 1) \in Seq(Entries) /\ SubSeq(lru, j + 1, Len(lru)) \in Seq(Entries)
      /\ lru[j] \in Entries
  BY <1>1
<1>3. MoveToEnd(j) \in Seq(Entries)
  BY <1>2 DEF MoveToEnd
<1>4. QED
  BY <1>3, EntriesOk

LEMMA PlaceOk ==
    ASSUME NEW k, Position(k) # {}
    PROVE  Place(k) \in 1..Len(lru) /\ lru[Place(k)].key = k
BY DEF Place, Position

LEMMA GetOrCreateOk ==
    ASSUME ConnInv, NEW u \in Users, NEW k \in CacheKeys, NEW s \in Scopes, GetOrCreate(u, k, s)
    PROVE  ConnInv'
<1> DEFINE R(pc, st) == [pc |-> pc, key |-> k, scope |-> s, store |-> st, pool |-> 0, sess |-> {}, bye |-> {}]
<1>0. ConnType /\ InRange /\ user[u].pc # "evict" /\ UNCHANGED <<mgr, pools>>
  BY DEF ConnInv, GetOrCreate, Resting
<1>1. CASE Position(k) # {}
  <2>1. Place(k) \in 1..Len(lru)
    BY <1>1, PlaceOk
  <2> DEFINE st == lru[Place(k)].store
  <2>2. st \in 1..Len(mgr) /\ Len(mgr) \in Nat
    BY <1>0, <2>1 DEF InRange, ConnType
  <2>3. UserGoto(u, R("ensure", st)) /\ lru' = MoveToEnd(Place(k))
    BY <1>1 DEF GetOrCreate
  <2> HIDE DEF st
  <2>4. R("ensure", st) \in Borrower
    BY <2>2 DEF Borrower
  <2>5. ThreadOk(u, R("ensure", st))
    BY <2>2 DEF ThreadOk, ThreadIn
  <2>6. QED
    BY <1>0, <2>1, <2>3, <2>4, <2>5, MoveToEndOk, LocalStep
<1>2. CASE Position(k) = {}
  <2>1. UserGoto(u, R("build", 0)) /\ UNCHANGED lru
    BY <1>2 DEF GetOrCreate
  <2>2. R("build", 0) \in Borrower
    BY DEF Borrower
  <2>3. ThreadOk(u, R("build", 0))
    BY DEF ThreadOk, ThreadIn
  <2>4. QED
    BY <1>0, <2>1, <2>2, <2>3, LocalStep DEF ConnType, InRange
<1>3. QED
  BY <1>1, <1>2

LEMMA InsertStoreOk ==
    ASSUME ConnInv, NEW u \in Users, InsertStore(u)
    PROVE  ConnInv'
<1> DEFINE k == user[u].key
           mine == user[u].store
<1>0. ConnType /\ InRange /\ user[u].pc = "insert" /\ UNCHANGED <<mgr, pools>> /\ Len(mgr) \in Nat
  BY DEF ConnInv, InsertStore, ConnType
<1>1. user[u] \in Borrower
  BY <1>0, BorrowerOf
<1>2. mine \in 1..Len(mgr) /\ user[u].pool = 0 /\ user[u].sess = {} /\ k \in CacheKeys
  BY <1>0, <1>1 DEF ConnInv, ThreadsOk, ThreadOk, ThreadIn, Borrower
<1>3. CASE Position(k) # {}
  <2> DEFINE st == lru[Place(k)].store
             r == [user[u] EXCEPT !.pc = "evict", !.store = st, !.bye = {mine}]
  <2>1. Place(k) \in 1..Len(lru)
    BY <1>3, PlaceOk
  <2>2. st \in 1..Len(mgr)
    BY <1>0, <2>1 DEF InRange
  <2>3. UserGoto(u, r) /\ lru' = MoveToEnd(Place(k))
    BY <1>3 DEF InsertStore
  <2> HIDE DEF st, k, mine
  <2>4. r \in Borrower /\ r.pc = "evict" /\ r.store = st /\ r.bye = {mine} /\ r.pool = 0 /\ r.sess = {}
    <3>1. {mine} \in SUBSET Nat /\ st \in Nat
      BY <1>0, <1>2, <2>2
    <3>2. QED
      BY <1>1, <1>2, <3>1 DEF Borrower
  <2> HIDE DEF r
  <2>5. ThreadOk(u, r)
    BY <1>0, <1>2, <2>2, <2>4 DEF ThreadOk, ThreadIn, ConnType
  <2>6. QED
    BY <1>0, <2>1, <2>3, <2>4, <2>5, MoveToEndOk, LocalStep
<1>4. CASE Position(k) = {}
  <2> DEFINE all == Append(lru, [key |-> k, store |-> mine])
             over == IF Len(all) > CacheMax THEN Len(all) - CacheMax ELSE 0
             B == {all[i].store : i \in 1..over}
             r == [user[u] EXCEPT !.pc = "evict", !.bye = B]
  <2>1. lru' = SubSeq(all, over + 1, Len(all)) /\ UserGoto(u, r)
    BY <1>4 DEF InsertStore
  <2> HIDE DEF k, mine
  <2>2. all \in Seq(Entries)
    <3>1. [key |-> k, store |-> mine] \in Entries
      BY <1>2 DEF Entries
    <3>2. QED
      BY <1>0, <3>1, EntriesOk
  <2> HIDE DEF all
  <2>3. over \in 0..Len(all) /\ Len(all) \in Nat
    BY <2>2, ConnectionsAssumption
  <2> HIDE DEF over
  <2>4. lru' \in Seq(Entries)
    BY <2>1, <2>2, <2>3
  <2>5. \A i \in 1..Len(all) : all[i].store \in 1..Len(mgr)
    BY <1>0, <2>2, EntriesOk
  <2>6. B \subseteq 1..Len(mgr)
    BY <2>3, <2>5
  <2> HIDE DEF B
  <2>7. r \in Borrower /\ r.pc = "evict" /\ r.store = mine /\ r.bye = B /\ r.pool = 0 /\ r.sess = {}
    <3>1. B \in SUBSET Nat
      BY <1>0, <2>6
    <3>2. QED
      BY <1>1, <1>2, <3>1 DEF Borrower, mine
  <2> HIDE DEF r
  <2>8. ThreadOk(u, r)
    <3>1. Len(pools) \in Nat
      BY <1>0 DEF ConnType
    <3>2. QED
      BY <1>0, <1>2, <2>6, <2>7, <3>1 DEF ThreadOk, ThreadIn
  <2>9. /\ lru' \in Seq([key : CacheKeys, store : Nat])
        /\ \A i \in 1..Len(lru') : lru'[i].store \in 1..Len(mgr)
    BY <1>0, <2>4, EntriesOk
  <2>10. QED
    BY <1>0, <2>1, <2>7, <2>8, <2>9, LocalStep
<1>5. QED
  BY <1>3, <1>4

LEMMA ClearCacheOk ==
    ASSUME ConnInv, NEW u \in Users, ClearCache(u)
    PROVE  ConnInv'
<1> DEFINE B == {lru[i].store : i \in 1..Len(lru)}
           r == [pc |-> "evict", store |-> 0, pool |-> 0, bye |-> B]
<1>1. UserGoto(u, r) /\ lru' = << >> /\ UNCHANGED <<mgr, pools>> /\ user[u].pc # "evict"
  BY DEF ClearCache, Resting
<1>2. B \subseteq 1..Len(mgr) /\ Len(mgr) \in Nat /\ Len(pools) \in Nat
  BY DEF ConnInv, ConnType, InRange
<1> HIDE DEF B
<1>3. r \in Cleaner /\ r \notin Borrower /\ r.pc = "evict" /\ r.store = 0 /\ r.pool = 0 /\ r.bye = B
  BY <1>2 DEF Cleaner, Borrower
<1> HIDE DEF r
<1>4. ThreadOk(u, r)
  BY <1>2, <1>3 DEF ThreadOk, ThreadIn
<1>5. QED
  BY <1>1, <1>3, <1>4, LocalStep

\* Evicted, the ways into the pool without the lock, SET and the caller's statements.
LEMMA OwnStepsOk ==
    ASSUME ConnInv, NEW u \in Users,
           Evicted(u) \/ EnsureFast(u) \/ EnsureMiss(u) \/ SetScope(u) \/ Query(u)
    PROVE  ConnInv'
<1>0. ConnType /\ InRange /\ ThreadOk(u, user[u]) /\ UNCHANGED <<mgr, pools, lru>>
      /\ Len(mgr) \in Nat /\ Len(pools) \in Nat
  BY DEF ConnInv, ThreadsOk, Evicted, EnsureFast, EnsureMiss, SetScope, Query, ConnType
<1>a. lru' \in Seq([key : CacheKeys, store : Nat]) /\ \A i \in 1..Len(lru') : lru'[i].store \in 1..Len(mgr)
  BY <1>0 DEF ConnType, InRange
<1>b. Resting \notin Borrower /\ ThreadOk(u, Resting)
  BY DEF Resting, Borrower, ThreadOk, ThreadIn
<1>1. ASSUME Evicted(u) PROVE ConnInv'
  <2>1. CASE user[u].store = 0
    BY <1>0, <1>1, <1>a, <1>b, <2>1, LocalStep DEF Evicted
  <2>2. CASE user[u].store # 0
    <3>1. user[u] \in Borrower
      BY <1>0, <1>1, <2>2 DEF ConnType, Cleaner, Resting, Evicted
    <3>2. To(u, "ensure") \in Borrower /\ ThreadOk(u, To(u, "ensure"))
      BY <1>0, <1>1, <2>2, <3>1 DEF To, Borrower, ThreadOk, ThreadIn, Evicted
    <3>3. QED
      BY <1>0, <1>1, <1>a, <2>2, <3>2, LocalStep DEF Evicted
  <2>3. QED
    BY <2>1, <2>2
<1>2. ASSUME EnsureFast(u) PROVE ConnInv'
  <2> DEFINE r == [user[u] EXCEPT !.pc = "borrow", !.pool = mgr[user[u].store].pool]
  <2>1. user[u] \in Borrower /\ user[u].pc = "ensure" /\ UserGoto(u, r)
    BY <1>0, <1>2, BorrowerOf DEF EnsureFast
  <2>2. mgr[user[u].store].pool \in 1..Len(pools)
    BY <1>0, <1>2, <2>1 DEF EnsureFast, ThreadOk, ThreadIn, InRange
  <2>3. r \in Borrower /\ ThreadOk(u, r)
    <3>1. mgr[user[u].store].pool \in Nat
      BY <1>0, <2>2
    <3>2. /\ r \in Borrower /\ r.pc = "borrow" /\ r.sess = user[u].sess
          /\ r.pool = mgr[user[u].store].pool
      BY <2>1, <3>1 DEF Borrower
    <3> HIDE DEF r
    <3>3. QED
      BY <1>0, <2>1, <2>2, <3>2 DEF ThreadOk, ThreadIn
  <2>4. QED
    BY <1>0, <1>a, <2>1, <2>3, LocalStep
<1>3. ASSUME EnsureMiss(u) PROVE ConnInv'
  <2>1. user[u] \in Borrower /\ user[u].pc = "ensure" /\ UserGoto(u, To(u, "wait"))
    BY <1>0, <1>3, BorrowerOf DEF EnsureMiss
  <2>2. To(u, "wait") \in Borrower /\ ThreadOk(u, To(u, "wait"))
    BY <1>0, <2>1 DEF Borrower, ThreadOk, ThreadIn, To
  <2>3. QED
    BY <1>0, <1>a, <2>1, <2>2, LocalStep
<1>4. ASSUME SetScope(u) PROVE ConnInv'
  <2>1. user[u] \in Borrower /\ user[u].pc = "set" /\ user[u].sess = {}
    BY <1>0, <1>4, BorrowerOf DEF SetScope, ThreadOk, ThreadIn
  <2> DEFINE r == [user[u] EXCEPT !.pc = "query", !.sess = user[u].sess \union {user[u].scope}]
  <2>2. r \in Borrower /\ ThreadOk(u, r)
    BY <1>0, <2>1 DEF Borrower, ThreadOk, ThreadIn
  <2>3. To(u, "return") \in Borrower /\ ThreadOk(u, To(u, "return"))
    BY <1>0, <2>1 DEF Borrower, ThreadOk, ThreadIn, To
  <2>4. UserGoto(u, r) \/ UserGoto(u, To(u, "return"))
    BY <1>4 DEF SetScope
  <2> HIDE DEF r
  <2>5. QED
    BY <1>0, <1>a, <2>1, <2>2, <2>3, <2>4, LocalStep
<1>5. ASSUME Query(u) PROVE ConnInv'
  <2>1. user[u] \in Borrower /\ user[u].pc = "query" /\ UserGoto(u, To(u, "return"))
    BY <1>0, <1>5, BorrowerOf DEF Query
  <2>2. To(u, "return") \in Borrower /\ ThreadOk(u, To(u, "return"))
    BY <1>0, <2>1 DEF Borrower, ThreadOk, ThreadIn, To
  <2>3. QED
    BY <1>0, <1>a, <2>1, <2>2, LocalStep
<1>6. QED
  BY <1>1, <1>2, <1>3, <1>4, <1>5

-----------------------------------------------------------------------------
(* Steps on a pool: closing it, borrowing from it, returning to it.        *)

LEMMA PoolStep ==
    ASSUME ConnInv, NEW u \in Users, NEW r \in {Resting} \cup Borrower \cup Cleaner, UserGoto(u, r),
           UNCHANGED <<lru, mgr>>, ThreadOk(u, r),
           NEW p \in 1..Len(pools), NEW q \in Pool, pools' = [pools EXCEPT ![p] = q],
           q.of = pools[p].of,
           \/ q.up = pools[p].up /\ user[u].pc # "evict"
           \/ ~q.up /\ user[u].pc = "evict" /\ user[u].pool = p
    PROVE  ConnInv'
<1>0. ConnType /\ InRange /\ SlotOwned /\ ThreadsOk /\ NoPoolLeaked
  BY DEF ConnInv
<1>1. /\ user' \in [Users -> {Resting} \cup Borrower \cup Cleaner]
      /\ user'[u] = r /\ \A v \in Users \ {u} : user'[v] = user[v]
  BY <1>0, UserType
<1>2. /\ pools' \in Seq(Pool) /\ Len(pools') = Len(pools) /\ pools'[p] = q
      /\ \A i \in 1..Len(pools) : i # p => pools'[i] = pools[i]
  BY <1>0 DEF ConnType
<1>3. ConnType'
  BY <1>0, <1>1, <1>2 DEF ConnType
<1>4. InRange'
  BY <1>0, <1>2 DEF InRange
<1>5. SlotOwned'
  <2> SUFFICES ASSUME NEW m \in 1..Len(mgr), mgr[m].pool # 0
               PROVE  pools'[mgr[m].pool].of = m /\ pools'[mgr[m].pool].up
    BY DEF SlotOwned
  <2>1. mgr[m].pool \in 1..Len(pools) /\ pools[mgr[m].pool].of = m /\ pools[mgr[m].pool].up
    BY <1>0 DEF InRange, SlotOwned
  <2>2. CASE mgr[m].pool # p
    BY <1>2, <2>1, <2>2
  <2>3. CASE mgr[m].pool = p
    <3>1. ~(user[u].pc = "evict" /\ user[u].pool = p)
      BY <1>0, <2>3 DEF ThreadsOk, ThreadOk, ThreadIn
    <3>2. QED
      BY <1>2, <2>1, <2>3, <3>1
  <2>4. QED
    BY <2>2, <2>3
<1>6. ThreadsOk'
  <2> SUFFICES ASSUME NEW v \in Users PROVE ThreadOk(v, user'[v])
    BY <1>2 DEF ThreadsOk, ThreadOk, ThreadIn
  <2>1. QED
    BY <1>0, <1>1 DEF ThreadsOk
<1>7. NoPoolLeaked'
  <2> SUFFICES ASSUME NEW i \in 1..Len(pools), pools'[i].up, mgr[pools'[i].of].pool # i
               PROVE  \E v \in Users : user'[v].pc = "evict" /\ user'[v].pool = i
    BY <1>2 DEF NoPoolLeaked
  <2>1. pools[i].up /\ mgr[pools[i].of].pool # i
    BY <1>2
  <2>2. PICK v \in Users : user[v].pc = "evict" /\ user[v].pool = i
    BY <1>0, <2>1 DEF NoPoolLeaked
  <2>3. v # u
    BY <1>2, <2>2
  <2>4. QED
    BY <1>1, <2>2, <2>3
<1>8. QED
  BY <1>3, <1>4, <1>5, <1>6, <1>7 DEF ConnInv

LEMMA PoolEdit ==
    ASSUME NEW a \in Pool, NEW l \in Blank, NEW n \in Int
    PROVE  LET q == [a EXCEPT !.idle = l, !.out = n]
           IN  q \in Pool /\ q.of = a.of /\ q.up = a.up
BY DEF Pool

LEMMA CloseShutOk ==
    ASSUME ConnInv, NEW u \in Users, CloseShut(u)
    PROVE  ConnInv'
<1> DEFINE p == user[u].pool
           q == [pools[p] EXCEPT !.up = FALSE, !.idle = << >>]
           r == [user[u] EXCEPT !.pool = 0]
<1>1. ConnType /\ ThreadOk(u, user[u]) /\ user[u].pc = "evict" /\ p # 0
  BY DEF ConnInv, ThreadsOk, CloseShut
<1>2. p \in 1..Len(pools) /\ Len(pools) \in Nat
  BY <1>1 DEF ThreadOk, ThreadIn, ConnType
<1>3. pools[p] \in Pool
  BY <1>1, <1>2 DEF ConnType
<1>4. q \in Pool /\ q.of = pools[p].of /\ ~q.up
  <2>1. << >> \in Blank
    BY DEF Blank
  <2>2. QED
    BY <1>3, <2>1 DEF Pool
<1>5. pools' = [pools EXCEPT ![p] = q]
  BY <1>1, <1>2, <1>3 DEF CloseShut, ConnType, Pool
<1>6. r \in Borrower \cup Cleaner /\ ThreadOk(u, r)
  <2>1. CASE user[u] \in Borrower
    BY <1>1, <1>2, <2>1 DEF Borrower, ThreadOk, ThreadIn
  <2>2. CASE user[u] \in Cleaner
    <3>1. r \in Cleaner /\ r.pc = "evict" /\ r.store = user[u].store /\ r.bye = user[u].bye /\ r.pool = 0
      BY <2>2 DEF Cleaner
    <3>2. r \notin Borrower
      BY <2>2 DEF Cleaner, Borrower
    <3>3. QED
      BY <1>1, <1>2, <3>1, <3>2 DEF ThreadOk, ThreadIn
  <2>3. user[u] # Resting
    BY <1>1 DEF Resting
  <2>4. QED
    BY <1>1, <2>1, <2>2, <2>3 DEF ConnType
<1>7. UserGoto(u, r) /\ UNCHANGED <<lru, mgr>>
  BY DEF CloseShut
<1> HIDE DEF q, r
<1>8. QED
  BY <1>1, <1>2, <1>4, <1>5, <1>6, <1>7, PoolStep

LEMMA BorrowOk ==
    ASSUME ConnInv, NEW u \in Users, Borrow(u)
    PROVE  ConnInv'
<1> DEFINE p == user[u].pool
<1>1. ConnType /\ InRange /\ ThreadOk(u, user[u]) /\ user[u].pc = "borrow" /\ UNCHANGED <<lru, mgr>>
  BY DEF ConnInv, ThreadsOk, Borrow
<1>2. p \in 1..Len(pools) /\ user[u] \in Borrower /\ user[u].sess = {}
  BY <1>1, BorrowerOf DEF ThreadOk, ThreadIn
<1>3. pools[p] \in Pool
  BY <1>1, <1>2 DEF ConnType
<1>4. ASSUME pools[p].idle # << >>,
             pools' = [pools EXCEPT ![p].idle = Tail(@), ![p].out = @ + 1],
             UserGoto(u, [user[u] EXCEPT !.pc = "set", !.sess = Head(pools[p].idle)])
      PROVE  ConnInv'
  <2> DEFINE q == [pools[p] EXCEPT !.idle = Tail(pools[p].idle), !.out = pools[p].out + 1]
             r == [user[u] EXCEPT !.pc = "set", !.sess = Head(pools[p].idle)]
  <2>1. pools[p].idle \in Blank /\ pools[p].out \in Int
    BY <1>3 DEF Pool
  <2>2. Head(pools[p].idle) = {} /\ Tail(pools[p].idle) \in Blank
    BY <1>4, <2>1 DEF Blank
  <2>3. q \in Pool /\ q.of = pools[p].of /\ q.up = pools[p].up
    <3>1. pools[p].out + 1 \in Int
      BY <2>1
    <3>2. QED
      BY <1>3, <2>2, <3>1, PoolEdit, Zenon
  <2>4. pools' = [pools EXCEPT ![p] = q]
    BY <1>1, <1>2, <1>3, <1>4 DEF ConnType, Pool
  <2>5. r \in Borrower /\ r.pc = "set" /\ r.sess = {} /\ r.pool = p
    BY <1>2, <2>2 DEF Borrower
  <2> HIDE DEF q, r
  <2>6. ThreadOk(u, r)
    BY <1>2, <2>5 DEF ThreadOk, ThreadIn
  <2>7. QED
    BY <1>1, <1>2, <1>4, <2>3, <2>4, <2>5, <2>6, PoolStep DEF r
<1>5. ASSUME pools' = [pools EXCEPT ![p].out = @ + 1], UserGoto(u, To(u, "set"))
      PROVE  ConnInv'
  <2> DEFINE q == [pools[p] EXCEPT !.out = pools[p].out + 1]
  <2>1. pools[p].out \in Int
    BY <1>3 DEF Pool
  <2>2. q \in Pool /\ q.of = pools[p].of /\ q.up = pools[p].up
    BY <1>3, <2>1 DEF Pool
  <2>3. pools' = [pools EXCEPT ![p] = q]
    BY <1>1, <1>2, <1>3, <1>5 DEF ConnType, Pool
  <2>4. To(u, "set") \in Borrower /\ ThreadOk(u, To(u, "set"))
    BY <1>1, <1>2 DEF Borrower, ThreadOk, ThreadIn, To
  <2> HIDE DEF q
  <2>5. QED
    BY <1>1, <1>2, <1>5, <2>2, <2>3, <2>4, PoolStep
<1>6. ASSUME UNCHANGED pools, UserGoto(u, Resting)
      PROVE  ConnInv'
  <2>1. ThreadOk(u, Resting)
    BY DEF Resting, Borrower, ThreadOk, ThreadIn
  <2>2. QED
    BY <1>1, <1>6, <2>1, LocalStep DEF ConnType, InRange
<1>7. QED
  BY <1>4, <1>5, <1>6 DEF Borrow

\* Every variable a context sets is one the reset clears.
LEMMA ResetClears ==
    ASSUME NEW s \in SUBSET Scopes
    PROVE  ResetSessionVars(s) = {}
BY DEF ResetSessionVars

LEMMA ReturnOk ==
    ASSUME ConnInv, NEW u \in Users, Return(u)
    PROVE  ConnInv'
<1> DEFINE p == user[u].pool
<1>1. ConnType /\ ThreadOk(u, user[u]) /\ user[u].pc = "return" /\ UNCHANGED <<lru, mgr>>
      /\ UserGoto(u, Resting)
  BY DEF ConnInv, ThreadsOk, Return
<1>2. p \in 1..Len(pools) /\ user[u] \in Borrower
  BY <1>1, BorrowerOf DEF ThreadOk, ThreadIn
<1>3. pools[p] \in Pool /\ ResetSessionVars(user[u].sess) = {}
  BY <1>1, <1>2, ResetClears DEF ConnType, Borrower
<1>4. PICK back \in BOOLEAN :
         pools' = [pools EXCEPT ![p].out = @ - 1, ![p].idle = IF back THEN Append(@, {}) ELSE @]
  <2>1. PICK resets \in BOOLEAN :
           pools' = [pools EXCEPT ![p].out = @ - 1,
                         ![p].idle = IF resets /\ pools[p].up
                                     THEN Append(@, ResetSessionVars(user[u].sess)) ELSE @]
    BY DEF Return
  <2> DEFINE both == IF resets /\ pools[p].up THEN TRUE ELSE FALSE
  <2>2. both \in BOOLEAN /\ (both <=> resets /\ pools[p].up)
    OBVIOUS
  <2> HIDE DEF both
  <2>3. QED
    BY <1>3, <2>1, <2>2
<1> DEFINE l == IF back THEN Append(pools[p].idle, {}) ELSE pools[p].idle
           q == [pools[p] EXCEPT !.idle = l, !.out = pools[p].out - 1]
<1>5. pools[p].idle \in Blank /\ pools[p].out \in Int
  BY <1>3 DEF Pool
<1>6. l \in Blank
  BY <1>5 DEF Blank
<1>7. pools' = [pools EXCEPT ![p] = q]
  BY <1>1, <1>2, <1>3, <1>4 DEF ConnType, Pool
<1> HIDE DEF l
<1>8. q \in Pool /\ q.of = pools[p].of /\ q.up = pools[p].up
  <2>1. pools[p].out - 1 \in Int
    BY <1>5
  <2>2. QED
    BY <1>3, <1>6, <2>1, PoolEdit, ZenonT(40)
<1>9. ThreadOk(u, Resting)
  BY DEF Resting, Borrower, ThreadOk, ThreadIn
<1> HIDE DEF q
<1>10. QED
  BY <1>1, <1>2, <1>7, <1>8, <1>9, PoolStep

-----------------------------------------------------------------------------
(* Steps on a manager: its lock and its slot.                              *)

\* What the other threads rely on survives a step that leaves alone the managers they
\* hold and puts into a slot nothing but a new pool.
LEMMA OthersOk ==
    ASSUME ConnInv, NEW u \in Users, NEW r \in {Resting} \cup Borrower \cup Cleaner, UserGoto(u, r),
           mgr' \in Seq(Manager), pools' \in Seq(Pool),
           Len(mgr') >= Len(mgr), Len(pools') >= Len(pools), ThreadIn(mgr', pools', u, r),
           \A v \in Users \ {u} : \A m \in 1..Len(mgr) : mgr[m].lock = v => mgr'[m] = mgr[m],
           \A m \in 1..Len(mgr') :
              \/ mgr'[m].pool = 0 \/ mgr'[m].pool > Len(pools)
              \/ m \in 1..Len(mgr) /\ mgr'[m].pool = mgr[m].pool
    PROVE  ThreadsOk'
<1>0. ConnType /\ ThreadsOk /\ Len(mgr) \in Nat /\ Len(mgr') \in Nat /\ Len(pools) \in Nat
      /\ Len(pools') \in Nat
  BY DEF ConnInv, ConnType
<1>1. user'[u] = r /\ \A v \in Users \ {u} : user'[v] = user[v]
  BY <1>0, UserType
<1> SUFFICES ASSUME NEW v \in Users PROVE ThreadIn(mgr', pools', v, user'[v])
  BY DEF ThreadsOk, ThreadOk
<1>2. CASE v = u
  BY <1>1, <1>2
<1>3. CASE v # u
  <2> DEFINE x == user[v]
  <2>1. user'[v] = x /\ ThreadOk(v, x)
    BY <1>0, <1>1, <1>3 DEF ThreadsOk
  <2> HIDE DEF x
  <2>2. x.pc \in {"open", "check"} => mgr'[x.store] = mgr[x.store]
    BY <1>3, <2>1 DEF ThreadOk, ThreadIn
  <2>3. x.pc = "evict" /\ x.pool # 0 => \A m \in 1..Len(mgr') : mgr'[m].pool # x.pool
    BY <1>0, <2>1 DEF ThreadOk, ThreadIn
  <2>4. ThreadIn(mgr', pools', v, x)
    BY <1>0, <2>1, <2>2, <2>3 DEF ThreadOk, ThreadIn
  <2>5. QED
    BY <2>4, <2>1
<1>4. QED
  BY <1>2, <1>3

LEMMA BuildStoreOk ==
    ASSUME ConnInv, NEW u \in Users, BuildStore(u)
    PROVE  ConnInv'
<1> DEFINE n == Len(mgr)
           a == [pool |-> 0, lock |-> Free]
           r == [user[u] EXCEPT !.pc = "insert", !.store = n + 1]
<1>1. ConnType /\ InRange /\ SlotOwned /\ NoPoolLeaked /\ ThreadOk(u, user[u]) /\ user[u].pc = "build"
  BY DEF ConnInv, ThreadsOk, BuildStore
<1>2. /\ mgr' = Append(mgr, a) /\ UserGoto(u, r) /\ UNCHANGED <<lru, pools>>
      /\ user[u] \in Borrower /\ n \in Nat /\ Len(pools) \in Nat /\ mgr \in Seq(Manager)
  BY <1>1, BorrowerOf DEF BuildStore, ConnType
<1>3. a \in Manager
  BY DEF Manager
<1>4. /\ mgr' \in Seq(Manager) /\ Len(mgr') = n + 1 /\ mgr'[n + 1] = a
      /\ \A m \in 1..n : mgr'[m] = mgr[m]
  BY <1>2, <1>3
<1>5. a.pool = 0
  OBVIOUS
<1> HIDE DEF a
<1>6. /\ r \in Borrower /\ r.pc = "insert" /\ r.store = n + 1 /\ r.pool = 0 /\ r.sess = {}
  <2>1. user[u].pool = 0 /\ user[u].sess = {} /\ n + 1 \in Nat
    BY <1>1, <1>2 DEF ThreadOk, ThreadIn
  <2> HIDE DEF n
  <2>2. QED
    BY <1>2, <2>1 DEF Borrower
<1> HIDE DEF r
<1>7. ThreadIn(mgr', pools', u, r)
  <2>1. r.store \in 1..Len(mgr')
    BY <1>2, <1>4, <1>6
  <2>2. QED
    BY <1>6, <2>1 DEF ThreadIn
<1>8. ThreadsOk'
  <2>1. \A m \in 1..Len(mgr') : mgr'[m].pool = 0 \/ (m \in 1..Len(mgr) /\ mgr'[m].pool = mgr[m].pool)
    BY <1>2, <1>4, <1>5
  <2>2. QED
    BY <1>1, <1>2, <1>4, <1>6, <1>7, <2>1, OthersOk DEF ConnType
<1>9. ConnType'
  BY <1>1, <1>2, <1>4, <1>6, UserType DEF ConnType
<1>10. InRange' /\ SlotOwned'
  BY <1>1, <1>2, <1>4, <1>5 DEF InRange, SlotOwned
<1>11. NoPoolLeaked'
  <2>1. \A v \in Users : user[v].pc = "evict" => user'[v] = user[v]
    BY <1>1, <1>2, <1>6, UserType
  <2>2. QED
    BY <1>1, <1>2, <1>4, <2>1 DEF NoPoolLeaked, InRange
<1>12. QED
  BY <1>8, <1>9, <1>10, <1>11 DEF ConnInv

\* Taking or releasing a manager's lock.
LEMMA LockStep ==
    ASSUME ConnInv, NEW u \in Users, NEW r \in Borrower, UserGoto(u, r), UNCHANGED <<lru, pools>>,
           NEW m \in 1..Len(mgr), NEW l \in Users \cup {Free}, mgr' = [mgr EXCEPT ![m].lock = l],
           mgr[m].lock \in {u, Free}, user[u].pc # "evict", ThreadIn(mgr', pools', u, r)
    PROVE  ConnInv'
<1>1. ConnType /\ InRange /\ SlotOwned /\ NoPoolLeaked
  BY DEF ConnInv
<1>2. /\ mgr' \in Seq(Manager) /\ Len(mgr') = Len(mgr)
      /\ \A j \in 1..Len(mgr) : mgr'[j].pool = mgr[j].pool /\ (j # m => mgr'[j] = mgr[j])
  <2> DEFINE a == [mgr[m] EXCEPT !.lock = l]
  <2>0. mgr \in Seq(Manager) /\ mgr[m] \in Manager
    BY <1>1 DEF ConnType
  <2>1. a \in Manager /\ a.pool = mgr[m].pool
    BY <2>0 DEF Manager
  <2>2. mgr' = [mgr EXCEPT ![m] = a]
    BY <2>0 DEF Manager
  <2> HIDE DEF a
  <2>3. QED
    BY <2>0, <2>1, <2>2
<1>3. ThreadsOk'
  <2>1. \A v \in Users \ {u} : \A j \in 1..Len(mgr) : mgr[j].lock = v => mgr'[j] = mgr[j]
    BY <1>2, ConnectionsAssumption
  <2>2. Len(mgr') >= Len(mgr) /\ Len(pools') >= Len(pools) /\ pools' \in Seq(Pool)
    BY <1>1, <1>2 DEF ConnType
  <2>3. QED
    BY <1>2, <2>1, <2>2, OthersOk
<1>4. ConnType'
  BY <1>1, <1>2, UserType DEF ConnType
<1>5. InRange' /\ SlotOwned'
  BY <1>1, <1>2 DEF InRange, SlotOwned
<1>6. NoPoolLeaked'
  <2>1. \A v \in Users : user[v].pc = "evict" => user'[v] = user[v]
    BY <1>1, UserType
  <2>2. QED
    BY <1>1, <1>2, <2>1 DEF NoPoolLeaked, InRange
<1>7. QED
  BY <1>3, <1>4, <1>5, <1>6 DEF ConnInv

LEMMA EnsureSlowOk ==
    ASSUME ConnInv, NEW u \in Users, EnsureSlow(u)
    PROVE  ConnInv'
<1> DEFINE m == user[u].store
           r == To(u, "open")
<1>1. ConnType /\ ThreadOk(u, user[u]) /\ user[u] \in Borrower /\ user[u].pc \in {"ensure", "wait"}
  BY BorrowerOf DEF ConnInv, ThreadsOk, EnsureSlow
<1>2. m \in 1..Len(mgr) /\ user[u].sess = {}
  BY <1>1 DEF ThreadOk, ThreadIn
<1>3. mgr' = [mgr EXCEPT ![m].lock = u] /\ mgr[m].lock = Free /\ UserGoto(u, r)
      /\ UNCHANGED <<lru, pools>>
  BY DEF EnsureSlow, TakeLock
<1>4. r \in Borrower /\ r.pc = "open" /\ r.store = m /\ r.sess = {}
  BY <1>1, <1>2 DEF To, Borrower
<1> HIDE DEF r
<1>5. mgr'[m].lock = u /\ Len(mgr') = Len(mgr)
  <2>1. mgr[m] \in Manager /\ mgr \in Seq(Manager)
    BY <1>1, <1>2 DEF ConnType
  <2>2. QED
    BY <1>2, <1>3, <2>1 DEF Manager
<1>6. ThreadIn(mgr', pools', u, r)
  BY <1>2, <1>4, <1>5 DEF ThreadIn
<1>7. QED
  BY <1>1, <1>2, <1>3, <1>4, <1>6, LockStep

\* A pool is taken out of its slot by the thread that will close it.
LEMMA CloseSwapOk ==
    ASSUME ConnInv, NEW u \in Users, NEW m \in 1..Len(mgr), CloseSwap(u, m)
    PROVE  ConnInv'
<1> DEFINE p == mgr[m].pool
           r == [user[u] EXCEPT !.bye = user[u].bye \ {m}, !.pool = p]
           a == [mgr[m] EXCEPT !.pool = 0]
<1>1. ConnType /\ InRange /\ SlotOwned /\ NoPoolLeaked /\ ThreadOk(u, user[u])
      /\ user[u].pc = "evict" /\ user[u].pool = 0 /\ mgr[m].lock = Free /\ UNCHANGED <<lru, pools>>
      /\ UserGoto(u, r)
  BY DEF ConnInv, ThreadsOk, CloseSwap
<1>2. mgr \in Seq(Manager) /\ mgr[m] \in Manager /\ p \in 0..Len(pools) /\ Len(pools) \in Nat
      /\ Len(mgr) \in Nat
  BY <1>1 DEF ConnType, InRange
<1>3. a \in Manager /\ a.pool = 0 /\ mgr' = [mgr EXCEPT ![m] = a]
  BY <1>2 DEF CloseSwap, Manager
<1> HIDE DEF a
<1>4. /\ mgr' \in Seq(Manager) /\ Len(mgr') = Len(mgr) /\ mgr'[m].pool = 0
      /\ \A j \in 1..Len(mgr) : j # m => mgr'[j] = mgr[j]
  BY <1>2, <1>3
<1>5. p # 0 => \A j \in 1..Len(mgr) : mgr'[j].pool # p
  BY <1>1, <1>2, <1>4 DEF SlotOwned
<1>6. /\ r \in Borrower \cup Cleaner /\ r.pc = "evict" /\ r.store = user[u].store /\ r.pool = p
      /\ r.bye \subseteq 1..Len(mgr) /\ (r \in Borrower => r.sess = {})
  <2>0. p \in Nat /\ user[u].bye \subseteq 1..Len(mgr)
    BY <1>1, <1>2 DEF ThreadOk, ThreadIn
  <2>1. user[u] # Resting
    BY <1>1 DEF Resting
  <2> HIDE DEF p
  <2>2. CASE user[u] \in Borrower
    <3>1. user[u].sess = {} /\ user[u].bye \ {m} \in SUBSET Nat
      BY <1>1, <2>2 DEF ThreadOk, ThreadIn, Borrower
    <3>2. QED
      BY <1>1, <2>0, <2>2, <3>1 DEF Borrower
  <2>3. CASE user[u] \in Cleaner
    <3>1. user[u].bye \ {m} \in SUBSET Nat
      BY <2>3 DEF Cleaner
    <3>2. r \notin Borrower
      BY <2>3 DEF Cleaner, Borrower
    <3>3. QED
      BY <1>1, <2>0, <2>3, <3>1, <3>2 DEF Cleaner
  <2>4. QED
    BY <1>1, <2>1, <2>2, <2>3 DEF ConnType
<1>7. user[u].store \in 0..Len(mgr)
  BY <1>1 DEF ThreadOk, ThreadIn
<1> HIDE DEF r
<1>8. ThreadIn(mgr', pools', u, r)
  BY <1>1, <1>2, <1>4, <1>5, <1>6, <1>7 DEF ThreadIn
<1>9. ThreadsOk'
  <2>1. \A v \in Users \ {u} : \A j \in 1..Len(mgr) : mgr[j].lock = v => mgr'[j] = mgr[j]
    BY <1>1, <1>4, ConnectionsAssumption
  <2>2. Len(mgr') >= Len(mgr) /\ Len(pools') >= Len(pools) /\ pools' \in Seq(Pool)
    BY <1>1, <1>2, <1>4 DEF ConnType
  <2>3. \A j \in 1..Len(mgr') : mgr'[j].pool = 0 \/ (j \in 1..Len(mgr) /\ mgr'[j].pool = mgr[j].pool)
    BY <1>4
  <2>4. QED
    BY <1>1, <1>4, <1>6, <1>8, <2>1, <2>2, <2>3, OthersOk
<1>10. ConnType'
  BY <1>1, <1>4, <1>6, UserType DEF ConnType
<1>11. InRange' /\ SlotOwned'
  <2>1. \A j \in 1..Len(mgr') : mgr'[j].pool = 0 \/ (j \in 1..Len(mgr) /\ mgr'[j].pool = mgr[j].pool)
    BY <1>4
  <2>2. 0 \in 0..Len(pools)
    BY <1>2
  <2>3. InRange'
    BY <1>1, <1>4, <2>1, <2>2 DEF InRange
  <2>4. SlotOwned'
    BY <1>1, <2>1 DEF SlotOwned
  <2>5. QED
    BY <2>3, <2>4
<1>12. NoPoolLeaked'
  <2>0. user'[u] = r /\ \A v \in Users \ {u} : user'[v] = user[v]
    BY <1>1, <1>6, UserType
  <2> SUFFICES ASSUME NEW i \in 1..Len(pools), pools[i].up, mgr'[pools[i].of].pool # i
               PROVE  \E v \in Users : user'[v].pc = "evict" /\ user'[v].pool = i
    BY <1>1 DEF NoPoolLeaked
  <2>1. CASE mgr[pools[i].of].pool = i
    <3>1. pools[i].of = m
      BY <1>1, <1>4, <2>1 DEF InRange
    <3>2. QED
      BY <1>6, <2>0, <2>1, <3>1
  <2>2. CASE mgr[pools[i].of].pool # i
    <3>1. PICK v \in Users : user[v].pc = "evict" /\ user[v].pool = i
      BY <1>1, <2>2 DEF NoPoolLeaked
    <3>2. v # u
      BY <1>1, <3>1
    <3>3. QED
      BY <2>0, <3>1, <3>2
  <2>3. QED
    BY <2>1, <2>2
<1>13. QED
  BY <1>9, <1>10, <1>11, <1>12 DEF ConnInv

\* Opening under the lock: the slot was filled meanwhile, or a new pool goes into it.
LEMMA OpenPoolOk ==
    ASSUME ConnInv, NEW u \in Users, OpenPool(u)
    PROVE  ConnInv'
<1> DEFINE m == user[u].store
           n == Len(pools)
<1>1. ConnType /\ InRange /\ SlotOwned /\ NoPoolLeaked /\ ThreadOk(u, user[u])
      /\ user[u] \in Borrower /\ user[u].pc = "open" /\ UNCHANGED lru
  BY BorrowerOf DEF ConnInv, ThreadsOk, OpenPool
<1>2. m \in 1..Len(mgr) /\ user[u].sess = {} /\ mgr[m].lock = u
  BY <1>1 DEF ThreadOk, ThreadIn
<1>3. mgr \in Seq(Manager) /\ mgr[m] \in Manager /\ Len(mgr) \in Nat /\ n \in Nat /\ pools \in Seq(Pool)
  BY <1>1, <1>2 DEF ConnType
<1>4. CASE mgr[m].pool # 0
  <2> DEFINE p == mgr[m].pool
             r == [user[u] EXCEPT !.pc = "borrow", !.pool = p]
  <2>1. mgr' = [mgr EXCEPT ![m].lock = Free] /\ UNCHANGED pools /\ UserGoto(u, r)
    BY <1>4 DEF OpenPool, TakeLock
  <2>2. p \in 1..Len(pools) /\ p \in Nat
    BY <1>1, <1>2, <1>3, <1>4 DEF InRange
  <2> HIDE DEF p, m
  <2>3. r \in Borrower /\ r.pc = "borrow" /\ r.pool = p /\ r.sess = {}
    BY <1>1, <1>2, <2>2 DEF Borrower
  <2> HIDE DEF r
  <2>4. ThreadIn(mgr', pools', u, r)
    BY <2>1, <2>2, <2>3 DEF ThreadIn
  <2>5. QED
    BY <1>1, <1>2, <2>1, <2>3, <2>4, LockStep
<1>5. CASE mgr[m].pool = 0
  <2> DEFINE r == [user[u] EXCEPT !.pc = "check", !.pool = n + 1]
             a == [mgr[m] EXCEPT !.pool = n + 1]
             q == [of |-> m, up |-> TRUE, checked |-> FALSE, idle |-> << >>, out |-> 0]
  <2>1. pools' = Append(pools, q) /\ UserGoto(u, r)
    BY <1>5 DEF OpenPool
  <2>2. a \in Manager /\ a.pool = n + 1 /\ a.lock = u /\ mgr' = [mgr EXCEPT ![m] = a]
    <3>1. n + 1 \in Nat
      BY <1>3
    <3>2. mgr' = [mgr EXCEPT ![m].pool = n + 1]
      BY <1>5 DEF OpenPool
    <3> HIDE DEF n, m
    <3>3. a \in Manager /\ a.pool = n + 1 /\ a.lock = u
      BY <1>2, <1>3, <3>1 DEF Manager
    <3>4. mgr' = [mgr EXCEPT ![m] = a]
      BY <1>2, <1>3, <3>2 DEF Manager
    <3>5. QED
      BY <3>3, <3>4
  <2>3. q \in Pool /\ q.of = m /\ q.up
    <3>1. << >> \in Blank
      BY DEF Blank
    <3>2. QED
      BY <1>2, <1>3, <3>1 DEF Pool
  <2>4. r \in Borrower /\ r.pc = "check" /\ r.pool = n + 1 /\ r.sess = {} /\ r.store = m
    <3>1. n + 1 \in Nat
      BY <1>3
    <3> HIDE DEF n
    <3>2. QED
      BY <1>1, <1>2, <3>1 DEF Borrower
  <2> HIDE DEF q, a, r, m
  <2>5. /\ mgr' \in Seq(Manager) /\ Len(mgr') = Len(mgr) /\ mgr'[m] = a
        /\ \A j \in 1..Len(mgr) : j # m => mgr'[j] = mgr[j]
    BY <1>2, <1>3, <2>2
  <2>6. /\ pools' \in Seq(Pool) /\ Len(pools') = n + 1 /\ pools'[n + 1] = q
        /\ \A i \in 1..n : pools'[i] = pools[i]
    BY <1>3, <2>1, <2>3
  <2>7. ThreadIn(mgr', pools', u, r)
    <3>1. r.store \in 1..Len(mgr') /\ r.pool \in 1..Len(pools')
      BY <1>2, <1>3, <2>4, <2>5, <2>6
    <3>2. QED
      BY <2>2, <2>4, <2>5, <3>1 DEF ThreadIn
  <2>8. ThreadsOk'
    <3>1. \A v \in Users \ {u} : \A j \in 1..Len(mgr) : mgr[j].lock = v => mgr'[j] = mgr[j]
      BY <1>2, <2>5
    <3>2. \A j \in 1..Len(mgr') :
             mgr'[j].pool > Len(pools) \/ (j \in 1..Len(mgr) /\ mgr'[j].pool = mgr[j].pool)
      BY <1>3, <2>2, <2>5
    <3>3. Len(mgr') >= Len(mgr) /\ Len(pools') >= Len(pools)
      BY <1>3, <2>5, <2>6
    <3>4. QED
      BY <2>1, <2>4, <2>5, <2>6, <2>7, <3>1, <3>2, <3>3, OthersOk
  <2>9. ConnType'
    BY <1>1, <2>1, <2>4, <2>5, <2>6, UserType DEF ConnType
  <2>10. InRange'
    <3>1. \A j \in 1..Len(mgr') : mgr'[j].pool \in 0..Len(pools')
      BY <1>1, <1>3, <2>2, <2>5, <2>6 DEF InRange
    <3>2. \A i \in 1..Len(pools') : pools'[i].of \in 1..Len(mgr')
      <4> SUFFICES ASSUME NEW i \in 1..(n + 1) PROVE pools'[i].of \in 1..Len(mgr)
        BY <2>5, <2>6
      <4>1. CASE i = n + 1
        BY <1>2, <2>3, <2>6, <4>1 DEF m
      <4>2. CASE i # n + 1
        <5>1. i \in 1..n
          BY <1>3, <4>2
        <5>2. QED
          BY <1>1, <2>6, <5>1 DEF InRange
      <4>3. QED
        BY <4>1, <4>2
    <3>3. \A i \in 1..Len(lru') : lru'[i].store \in 1..Len(mgr')
      BY <1>1, <2>5 DEF InRange
    <3>4. QED
      BY <3>1, <3>2, <3>3 DEF InRange
  <2>11. SlotOwned'
    <3> SUFFICES ASSUME NEW j \in 1..Len(mgr), mgr'[j].pool # 0
                 PROVE  pools'[mgr'[j].pool].of = j /\ pools'[mgr'[j].pool].up
      BY <2>5 DEF SlotOwned
    <3>1. CASE j = m
      BY <2>2, <2>3, <2>5, <2>6, <3>1
    <3>2. CASE j # m
      <4>1. mgr'[j] = mgr[j] /\ mgr[j].pool \in 1..n
        BY <1>1, <1>3, <2>5, <3>2 DEF InRange
      <4>2. QED
        BY <1>1, <2>6, <4>1 DEF SlotOwned
    <3>3. QED
      BY <3>1, <3>2
  <2>12. NoPoolLeaked'
    <3>0. \A v \in Users : user[v].pc = "evict" => user'[v] = user[v]
      BY <1>1, <2>1, <2>4, UserType
    <3> SUFFICES ASSUME NEW i \in 1..(n + 1), pools'[i].up, mgr'[pools'[i].of].pool # i
                 PROVE  \E v \in Users : user'[v].pc = "evict" /\ user'[v].pool = i
      BY <2>6 DEF NoPoolLeaked
    <3>1. i \in 1..n
      BY <1>3, <2>2, <2>3, <2>5, <2>6
    <3>2. pools[i].up /\ mgr[pools[i].of].pool # i
      <4>1. pools'[i] = pools[i] /\ pools[i].of \in 1..Len(mgr) /\ i # 0
        BY <1>1, <1>3, <2>6, <3>1 DEF InRange
      <4>2. CASE pools[i].of = m
        BY <1>5, <4>1, <4>2 DEF m
      <4>3. CASE pools[i].of # m
        BY <2>5, <4>1, <4>3
      <4>4. QED
        BY <4>1, <4>2, <4>3
    <3>3. PICK v \in Users : user[v].pc = "evict" /\ user[v].pool = i
      BY <1>1, <3>1, <3>2 DEF NoPoolLeaked
    <3>4. QED
      BY <3>0, <3>3
  <2>13. QED
    BY <2>8, <2>9, <2>10, <2>11, <2>12 DEF ConnInv
<1>6. QED
  BY <1>4, <1>5

\* The role is checked under the lock: the pool is kept, or closed and its slot emptied.
LEMMA CheckRoleOk ==
    ASSUME ConnInv, NEW u \in Users, CheckRole(u)
    PROVE  ConnInv'
<1> DEFINE m == user[u].store
           p == user[u].pool
<1>1. ConnType /\ InRange /\ SlotOwned /\ NoPoolLeaked /\ ThreadOk(u, user[u])
      /\ user[u] \in Borrower /\ user[u].pc = "check" /\ UNCHANGED lru
  BY BorrowerOf DEF ConnInv, ThreadsOk, CheckRole
<1>2. m \in 1..Len(mgr) /\ p \in 1..Len(pools) /\ user[u].sess = {} /\ mgr[m].lock = u /\ mgr[m].pool = p
  BY <1>1 DEF ThreadOk, ThreadIn
<1>3. mgr \in Seq(Manager) /\ mgr[m] \in Manager /\ Len(mgr) \in Nat /\ Len(pools) \in Nat
      /\ pools \in Seq(Pool) /\ pools[p] \in Pool
  BY <1>1, <1>2 DEF ConnType
<1>4. pools[p].up /\ \A v \in Users : user[v].pc = "evict" => v # u
  BY <1>1, <1>2, <1>3 DEF SlotOwned
\* Both outcomes change one pool and one manager.
<1>5. ASSUME NEW q \in Pool, NEW a \in Manager, NEW r \in {Resting} \cup Borrower,
             pools' = [pools EXCEPT ![p] = q], mgr' = [mgr EXCEPT ![m] = a], UserGoto(u, r),
             q.of = pools[p].of,
             (a.pool = p /\ q.up) \/ (a.pool = 0 /\ ~q.up),
             ThreadIn(mgr', pools', u, r)
      PROVE  ConnInv'
  <2> HIDE DEF m, p
  <2>1. /\ mgr' \in Seq(Manager) /\ Len(mgr') = Len(mgr) /\ mgr'[m] = a
        /\ \A j \in 1..Len(mgr) : j # m => mgr'[j] = mgr[j]
    BY <1>2, <1>3, <1>5
  <2>2. /\ pools' \in Seq(Pool) /\ Len(pools') = Len(pools) /\ pools'[p] = q
        /\ \A i \in 1..Len(pools) : i # p => pools'[i] = pools[i]
    BY <1>2, <1>3, <1>5
  <2>3. \A i \in 1..Len(pools) : pools'[i].of = pools[i].of
    BY <1>5, <2>2
  <2>4. \A j \in 1..Len(mgr) : mgr'[j].pool = 0 \/ mgr'[j].pool = mgr[j].pool
    BY <1>2, <1>5, <2>1
  <2>5. ThreadsOk'
    <3>1. \A v \in Users \ {u} : \A j \in 1..Len(mgr) : mgr[j].lock = v => mgr'[j] = mgr[j]
      BY <1>2, <2>1
    <3>2. Len(mgr') >= Len(mgr) /\ Len(pools') >= Len(pools)
      BY <1>3, <2>1, <2>2
    <3>3. QED
      BY <1>5, <2>1, <2>2, <2>4, <3>1, <3>2, OthersOk
  <2>6. ConnType'
    BY <1>1, <1>5, <2>1, <2>2, UserType DEF ConnType
  <2>7. InRange'
    <3>1. 0 \in 0..Len(pools)
      BY <1>3
    <3>2. QED
      BY <1>1, <2>1, <2>2, <2>3, <2>4, <3>1 DEF InRange
  <2>8. SlotOwned'
    <3> SUFFICES ASSUME NEW j \in 1..Len(mgr), mgr'[j].pool # 0
                 PROVE  pools'[mgr'[j].pool].of = j /\ pools'[mgr'[j].pool].up
      BY <2>1 DEF SlotOwned
    <3>1. mgr'[j].pool = mgr[j].pool /\ mgr[j].pool \in 1..Len(pools)
      BY <1>1, <2>4 DEF InRange
    <3>2. pools[mgr[j].pool].of = j /\ pools[mgr[j].pool].up
      BY <1>1, <3>1 DEF SlotOwned
    <3>3. CASE mgr[j].pool = p
      <4>1. j = m
        BY <1>1, <1>2, <3>1, <3>2, <3>3 DEF SlotOwned
      <4>2. QED
        BY <1>5, <2>1, <2>2, <3>1, <3>2, <3>3, <4>1
    <3>4. CASE mgr[j].pool # p
      BY <2>2, <3>1, <3>2, <3>4
    <3>5. QED
      BY <3>3, <3>4
  <2>9. NoPoolLeaked'
    <3>0. \A v \in Users : user[v].pc = "evict" => user'[v] = user[v]
      BY <1>1, <1>4, <1>5, UserType
    <3> SUFFICES ASSUME NEW i \in 1..Len(pools), pools'[i].up, mgr'[pools'[i].of].pool # i
                 PROVE  \E v \in Users : user'[v].pc = "evict" /\ user'[v].pool = i
      BY <2>2 DEF NoPoolLeaked
    <3>1. pools[p].of = m
      BY <1>1, <1>2, <1>3 DEF SlotOwned
    <3>2. i # p
      BY <1>5, <2>1, <2>2, <3>1
    <3>3. pools[i].up /\ mgr[pools[i].of].pool # i
      <4>1. pools'[i] = pools[i] /\ pools[i].of \in 1..Len(mgr)
        BY <1>1, <2>2, <3>2 DEF InRange
      <4>2. CASE pools[i].of = m
        BY <1>2, <3>2, <4>1, <4>2
      <4>3. CASE pools[i].of # m
        BY <2>1, <4>1, <4>3
      <4>4. QED
        BY <4>1, <4>2, <4>3
    <3>4. PICK v \in Users : user[v].pc = "evict" /\ user[v].pool = i
      BY <1>1, <3>3 DEF NoPoolLeaked
    <3>5. QED
      BY <3>0, <3>4
  <2>10. QED
    BY <2>5, <2>6, <2>7, <2>8, <2>9 DEF ConnInv
<1>6. ASSUME pools' = [pools EXCEPT ![p].checked = TRUE], mgr' = TakeLock(m, Free),
             UserGoto(u, To(u, "borrow"))
      PROVE  ConnInv'
  <2> DEFINE q == [pools[p] EXCEPT !.checked = TRUE]
             a == [mgr[m] EXCEPT !.lock = Free]
             r == To(u, "borrow")
  <2>1. r \in Borrower /\ r.pc = "borrow" /\ r.pool = p /\ r.sess = {}
    BY <1>1, <1>2 DEF To, Borrower
  <2> HIDE DEF m, p
  <2>2. q \in Pool /\ q.of = pools[p].of /\ q.up /\ pools' = [pools EXCEPT ![p] = q]
    BY <1>2, <1>3, <1>4, <1>6 DEF Pool
  <2>3. a \in Manager /\ a.pool = p /\ mgr' = [mgr EXCEPT ![m] = a]
    BY <1>2, <1>3, <1>6 DEF Manager, TakeLock
  <2>3a. UserGoto(u, r)
    BY <1>6
  <2> HIDE DEF q, a, r
  <2>4. Len(pools') = Len(pools)
    BY <1>3, <2>2
  <2>5. ThreadIn(mgr', pools', u, r)
    BY <1>2, <2>1, <2>4 DEF ThreadIn
  <2>6. QED
    BY <1>5, <2>1, <2>2, <2>3, <2>3a, <2>5
<1>7. ASSUME pools' = [pools EXCEPT ![p].up = FALSE, ![p].idle = << >>],
             mgr' = [mgr EXCEPT ![m] = [pool |-> 0, lock |-> Free]], UserGoto(u, Resting)
      PROVE  ConnInv'
  <2> DEFINE q == [pools[p] EXCEPT !.up = FALSE, !.idle = << >>]
             a == [pool |-> 0, lock |-> Free]
  <2> HIDE DEF m, p
  <2>1. q \in Pool /\ q.of = pools[p].of /\ ~q.up /\ pools' = [pools EXCEPT ![p] = q]
    <3>1. << >> \in Blank
      BY DEF Blank
    <3>2. QED
      BY <1>2, <1>3, <1>7, <3>1 DEF Pool
  <2>2. a \in Manager /\ a.pool = 0 /\ mgr' = [mgr EXCEPT ![m] = a]
    BY <1>7 DEF Manager
  <2> HIDE DEF q, a
  <2>3. ThreadIn(mgr', pools', u, Resting)
    BY DEF Resting, Borrower, ThreadIn
  <2>4. QED
    BY <1>5, <1>7, <2>1, <2>2, <2>3
<1>8. QED
  BY <1>6, <1>7 DEF CheckRole

-----------------------------------------------------------------------------
LEMMA ConnStepOk == ConnInv /\ [ConnNext]_connvars => ConnInv'
<1> SUFFICES ASSUME ConnInv, [ConnNext]_connvars PROVE ConnInv'
  OBVIOUS
<1>1. CASE UNCHANGED connvars
  BY <1>1 DEF connvars, ConnInv, ConnType, InRange, SlotOwned, ThreadsOk, ThreadOk, ThreadIn, NoPoolLeaked
<1>2. CASE ConnNext
  <2>1. PICK u \in Users : \/ UserStep(u) \/ ClearCache(u)
                           \/ \E k \in CacheKeys, s \in Scopes : GetOrCreate(u, k, s)
    BY <1>2 DEF ConnNext
  <2>2. CASE UserStep(u)
    BY <2>2, BuildStoreOk, InsertStoreOk, CloseShutOk, OwnStepsOk, CloseSwapOk, EnsureSlowOk,
       OpenPoolOk, CheckRoleOk, BorrowOk, ReturnOk DEF UserStep
  <2>3. QED
    BY <2>1, <2>2, ClearCacheOk, GetOrCreateOk
<1>3. QED
  BY <1>1, <1>2

LEMMA ConnSafe == ConnSpec => []ConnInv
BY InitOk, ConnStepOk, PTL DEF ConnSpec

\* A borrower's statements run under exactly the session variables it set, whatever
\* the connection's earlier borrowers set and however their requests ended: what the
\* pool's reset (TAP-514) is for.
THEOREM ScopeNeverLeaks == ConnSpec => []ScopeExact
<1>1. ConnInv => ScopeExact
  BY DEF ConnInv, ThreadsOk, ThreadOk, ThreadIn, ScopeExact
<1>2. QED
  BY <1>1, ConnSafe, PTL

\* A slot of a manager never points to a closed pool, and a pool that is open is in its
\* manager's slot or in the hands of the thread that closes it: concurrent opens,
\* evictions, lost constructions and role failures leak none.
THEOREM PoolsAccounted == ConnSpec => [](SlotIsOpen /\ NoPoolLeaked)
<1>1. ConnInv => SlotIsOpen /\ NoPoolLeaked
  BY DEF ConnInv, SlotOwned, SlotIsOpen
<1>2. QED
  BY <1>1, ConnSafe, PTL
=============================================================================

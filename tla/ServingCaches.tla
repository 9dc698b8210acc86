---------------------------- MODULE ServingCaches ----------------------------
(***************************************************************************)
(* What the server answers from its time-limited caches: the profile of an *)
(* agent (ProfileResolver), the readiness probes, and the dashboard        *)
(* snapshot; and the tool gate that the resolved profile feeds, on both    *)
(* transports. A cached value is read from the database outside any lock,  *)
(* so requests overlap between the check, the read and the store; only     *)
(* snapshot builds are serialised by a lock. The caches share nothing, so  *)
(* a behaviour is about one of them, the one wanted.                       *)
(***************************************************************************)
EXTENDS Integers, FiniteSets

CONSTANTS Requests,  \* concurrent requests of the process
          Ttl,       \* life of a cached value
          MaxFetch,  \* bound: time between a check and its store
          MaxNow,    \* bound on the clock
          MaxWrites, \* bound on changes of the database
          NoValue    \* nothing cached, nothing served

\* A read of the database takes less than the life of a cached value; a header
\* names a profile.
ASSUME ServingAssumption ==
  Ttl \in Nat /\ MaxFetch \in 0 .. Ttl - 1 /\ NoValue \notin {"coder", "repo-brain"}

VARIABLES now,
          wanted,   \* the cache this behaviour is about
          current,  \* what the database holds
          held,     \* when it last held each value
          cached,   \* [value, expires]
          building, \* holder of the snapshot build lock, or NoValue
          req,      \* Requests -> the request being served
          writes

scVars == <<now, wanted, current, held, cached, building, req, writes>>

-----------------------------------------------------------------------------
(* Profiles. The registry has one column, "profile". agent_create accepts the *)
(* names of memory profiles only, agent_register any name; the tool gate      *)
(* knows the names of tool profiles.                                          *)

Targets == {"profile", "probe", "snapshot"}

Contents == [profile |-> {"none", "coder", "repo-brain"},
             probe |-> {"ready", "pending"},
             snapshot |-> {"before", "after"}]

Default == "full"

\* ProfileRegistry: the tools a profile exposes; two tools are enough to tell
\* the profiles apart.
Allowed == [full |-> {"recall", "gc"}, coder |-> {"recall"}]

Known(profile) == profile \in DOMAIN Allowed

\* tools_for_path: any of a route's equivalent tools authorizes it.
ToolsFor == [recall |-> {"recall", "memory_recall"}, gc |-> {"gc"}]

\* _filtered_call_tool, _profile_gated_request_handler, RestProfileGate: a
\* profile that is not in the registry of tool profiles is refused.
Gate(profile, tool) ==
  /\ Known(profile)
  /\ ToolsFor[tool] \cap Allowed[profile] # {}

-----------------------------------------------------------------------------
NoReader == [pc |-> "idle", tool |-> "recall", header |-> NoValue,
            started |-> 0, value |-> NoValue, at |-> 0]

ReaderAt(r, pc) == req[r].pc = pc

FreshEntry == cached.value # NoValue /\ now < cached.expires

\* ProfileResolver.resolve: an agent with no registration has the default.
Resolved(value) == IF value = "none" THEN Default ELSE value

\* The answer; a tool call is let through to its handler or refused.
Served(q, value) ==
  [q EXCEPT !.value = value, !.at = now,
            !.pc = CASE wanted # "profile" -> "done"
                     [] wanted = "profile" /\ Gate(Resolved(value), q.tool) -> "executed"
                     [] OTHER -> "refused"]

\* A request without a profile header, a probe or a dashboard: the cache is
\* checked first.
Ask(r, tool) ==
  LET q == [NoReader EXCEPT !.tool = tool, !.started = now] IN
  /\ ReaderAt(r, "idle")
  /\ wanted # "profile" => tool = "recall"
  /\ req' = [req EXCEPT ![r] =
       CASE FreshEntry -> Served(q, cached.value)
         [] ~FreshEntry /\ wanted = "snapshot" -> [q EXCEPT !.pc = "queue"]
         [] OTHER -> [q EXCEPT !.pc = "fetch"]]
  /\ UNCHANGED <<now, wanted, current, held, cached, building, writes>>

\* X-Brain-Profile: validated (400 if unknown), and the cache is not touched.
AskWithHeader(r, header, tool) ==
  LET q == [NoReader EXCEPT !.tool = tool, !.header = header] IN
  /\ ReaderAt(r, "idle") /\ wanted = "profile"
  /\ req' = [req EXCEPT ![r] = IF Known(header) THEN Served(q, header)
                                                ELSE [q EXCEPT !.pc = "bad_request"]]
  /\ UNCHANGED <<now, wanted, current, held, cached, building, writes>>

\* _snapshot_build_lock, and the second look at the cache under it.
BuildLocked(r) ==
  /\ ReaderAt(r, "queue") /\ building = NoValue
  /\ IF FreshEntry
     THEN /\ req' = [req EXCEPT ![r] = Served(@, cached.value)]
          /\ UNCHANGED building
     ELSE /\ req' = [req EXCEPT ![r].pc = "fetch", ![r].started = now]
          /\ building' = r
  /\ UNCHANGED <<now, wanted, current, held, cached, writes>>

\* The database is read.
Fetch(r) ==
  /\ ReaderAt(r, "fetch")
  /\ req' = [req EXCEPT ![r].pc = "store", ![r].value = current]
  /\ UNCHANGED <<now, wanted, current, held, cached, building, writes>>

Release(r) == building' = IF building = r THEN NoValue ELSE building

\* The read fails: the probes answer (and cache) "not ready"; a profile lookup
\* or a snapshot build raises, nothing is cached and the lock is released.
FetchFails(r) ==
  /\ ReaderAt(r, "fetch")
  /\ IF wanted = "probe"
     THEN /\ req' = [req EXCEPT ![r].pc = "store", ![r].value = "pending"]
          /\ UNCHANGED building
     ELSE /\ req' = [req EXCEPT ![r].pc = "error"]
          /\ Release(r)
  /\ UNCHANGED <<now, wanted, current, held, cached, writes>>

\* Every cache counts from the store.
ExpiryFromStore(r) == now + Ttl

\* _lookup_cached counts the life of a profile from before its read; the
\* probes and the snapshot from the store.
Expiry(r) == (IF wanted = "profile" THEN req[r].started ELSE now) + Ttl

Store(r) ==
  /\ ReaderAt(r, "store")
  /\ cached' = [value |-> req[r].value, expires |-> Expiry(r)]
  /\ req' = [req EXCEPT ![r] = Served(@, req[r].value)]
  /\ Release(r)
  /\ UNCHANGED <<now, wanted, current, held, writes>>

Leave(r) ==
  /\ req[r].pc \in {"done", "executed", "refused", "error", "bad_request"}
  /\ req' = [req EXCEPT ![r] = NoReader]
  /\ UNCHANGED <<now, wanted, current, held, cached, building, writes>>

-----------------------------------------------------------------------------
(* The database *)

Change(v) ==
  /\ writes < MaxWrites /\ v # current
  /\ writes' = writes + 1
  /\ held' = [held EXCEPT ![current] = now]
  /\ current' = v
  /\ UNCHANGED <<now, wanted, cached, building, req>>

agent_register(p) ==
  wanted = "profile" /\ p # "none" /\ Change(p)

agent_create == wanted = "profile" /\ Change("repo-brain")

agent_delete == wanted = "profile" /\ Change("none")

\* A migration is applied, a memory written.
OtherWrite == wanted # "profile" /\ (\E v \in Contents[wanted] : Change(v))

\* A check is followed by its store within MaxFetch.
Tick ==
  /\ now < MaxNow
  /\ \A r \in Requests : req[r].pc \in {"fetch", "store"} => now < req[r].started + MaxFetch
  /\ now' = now + 1
  /\ UNCHANGED <<wanted, current, held, cached, building, req, writes>>

-----------------------------------------------------------------------------
ScInit ==
  /\ now = 0 /\ writes = 0 /\ building = NoValue
  /\ wanted \in Targets
  /\ current = CHOOSE v \in {"none", "pending", "before"} : v \in Contents[wanted]
  /\ held = [v \in Contents[wanted] |-> -1 - Ttl - MaxFetch]
  /\ cached = [value |-> NoValue, expires |-> 0]
  /\ req = [r \in Requests |-> NoReader]

Serve(r) == Fetch(r) \/ FetchFails(r) \/ Store(r) \/ Leave(r)

ScNext ==
  \/ \E r \in Requests :
       \/ \E tool \in {"recall", "gc"} :
            Ask(r, tool)
       \/ \E h \in {"coder", "repo-brain"} : AskWithHeader(r, h, "gc")
       \/ BuildLocked(r)
       \/ Serve(r)
  \/ \E p \in {"coder", "repo-brain"} : agent_register(p)
  \/ agent_create \/ agent_delete
  \/ OtherWrite
  \/ Tick

\* Database calls end (connect_timeout, the pool's timeout), and asyncio.Lock
\* is first come, first served.
ScFairness == \A r \in Requests : WF_scVars(Serve(r)) /\ SF_scVars(BuildLocked(r))

ScSpec == ScInit /\ [][ScNext]_scVars /\ ScFairness

-----------------------------------------------------------------------------
(* Properties *)

\* The database held v less than d before t.
HeldWithin(v, t, d) == current = v \/ held[v] > t - d

\* What is served without a header was true within the last Ttl, for a
\* profile, and within Ttl and one fetch for the probes and the snapshot, in
\* whatever order overlapping fetches store what they read. (A probe that
\* fails answers "pending" whatever the database holds.)
ServedRecently ==
  \A r \in Requests :
    LET q == req[r] IN
    (q.header = NoValue /\ q.pc \in {"done", "executed", "refused"}
       /\ q.value # "pending")
    => HeldWithin(q.value, q.at, IF wanted = "profile" THEN Ttl ELSE Ttl + MaxFetch)
=============================================================================

----------------------------- MODULE ClientCalls -----------------------------
(***************************************************************************)
(* The client SDK against the MCP endpoint: the initialize handshake, the  *)
(* shared session id, tools/call with retries of transient answers under   *)
(* one idempotency key, one re-initialize on a missing session; and the    *)
(* server's side of a write tool: session check, idempotency check, the    *)
(* write, the record. Several tasks share one client. Requests and answers *)
(* are lost, the server restarts and forgets its sessions, a proxy answers *)
(* 5xx while the handler still runs.                                       *)
(***************************************************************************)
EXTENDS Integers, FiniteSets

CONSTANTS Tasks,            \* tool calls sharing one client
          WritingTasks,          \* those of them that call a write tool
          MaxAttempts,      \* RetryConfig.max_attempts
          NoSession,        \* no session id
          MaxServerRestarts \* bound: server restarts

VARIABLES initialized, session, \* the client's _initialized, _mcp_session_id
          task,                 \* Tasks -> the client's side of the call
          handler,              \* Tasks -> the server's handlers of its attempts, by number
          sessions,             \* session ids the server knows
          issued,               \* session ids handed out
          recordedKeys,         \* idempotency keys (the tasks) with a recorded answer
          sentThen,             \* Tasks -> attempts sent when its answer was recorded
          serverRestarts

clVars == <<initialized, session, task, handler, sessions, issued, recordedKeys,
            sentThen, serverRestarts>>

\* A call posts at most twice its budget: it re-initializes at most once.
Posts == 1 .. 2 * MaxAttempts

FreshCall == [pc |-> "start", attempt |-> 0, sent |-> 0, again |-> FALSE,
          header |-> [n \in Posts |-> NoSession]]

CallAt(t, pc) == task[t].pc = pc

CallGoto(t, pc) == task' = [task EXCEPT ![t].pc = pc]

ServerSame == UNCHANGED <<handler, sessions, issued, recordedKeys, sentThen, serverRestarts>>

-----------------------------------------------------------------------------
(* The client *)

\* remember, forget, learn_*, memory_*: a write tool draws one key for the
\* whole call, and the first call of a client (or calls racing to be first)
\* initialize.
Start(t) ==
  /\ CallAt(t, "start")
  /\ CallGoto(t, IF initialized THEN "post" ELSE "init")
  /\ ServerSame /\ UNCHANGED <<initialized, session>>

\* _do_initialize: a new session, put in the shared attribute.
Initialize(t) ==
  /\ CallAt(t, "init")
  /\ issued' = issued + 1
  /\ sessions' = sessions \cup {issued + 1}
  /\ session' = issued + 1
  /\ initialized' = TRUE
  /\ CallGoto(t, "post")
  /\ UNCHANGED <<handler, recordedKeys, sentThen, serverRestarts>>

InitializeFails(t) ==
  /\ CallAt(t, "init")
  /\ CallGoto(t, "transport_error")
  /\ ServerSame /\ UNCHANGED <<initialized, session>>

\* The header is built from the shared attribute once per _post_tool call; the
\* retries inside it reuse it.
Post(t) ==
  LET n == task[t].sent + 1 IN
  /\ CallAt(t, "post") /\ n \in Posts
  /\ task' = [task EXCEPT ![t].pc = "wait", ![t].sent = n,
                          ![t].header[n] = IF task[t].attempt = 0 THEN session
                                           ELSE task[t].header[n - 1]]
  /\ handler' = [handler EXCEPT ![t][n] = "arriving"]
  /\ UNCHANGED <<initialized, session, sessions, issued, recordedKeys, sentThen, serverRestarts>>

\* A request that is lost on its way (its handler stays "arriving") and one
\* whose answer never comes look the same: TappsBrainTransportError, not retried.
ReadTimeout(t) ==
  /\ CallAt(t, "wait")
  /\ CallGoto(t, "transport_error")
  /\ ServerSame /\ UNCHANGED <<initialized, session>>

Retried(t) == IF task[t].attempt < MaxAttempts - 1
              THEN [task[t] EXCEPT !.pc = "post", !.attempt = @ + 1]
              ELSE [task[t] EXCEPT !.pc = "transient_error"]

\* 429 or 5xx, and the handler is over: it refused, or failed on its way. The
\* same body, with the same key, is sent again.
Transient(t) ==
  /\ CallAt(t, "wait") /\ handler[t][task[t].sent] \in {"arriving", "running", "committed"}
  /\ task' = [task EXCEPT ![t] = Retried(t)]
  /\ handler' = [handler EXCEPT ![t][task[t].sent] = "gone"]
  /\ UNCHANGED <<initialized, session, sessions, issued, recordedKeys, sentThen, serverRestarts>>

\* 502 or 504 from a proxy that gave up waiting: the handler goes on.
GatewayTimeout(t) ==
  /\ CallAt(t, "wait") /\ handler[t][task[t].sent] \in {"arriving", "running", "committed"}
  /\ task' = [task EXCEPT ![t] = Retried(t)]
  /\ ServerSame /\ UNCHANGED <<initialized, session>>

\* The answer to a finished handler.
Success(t) ==
  /\ CallAt(t, "wait") /\ handler[t][task[t].sent] = "answered"
  /\ CallGoto(t, "ok")
  /\ ServerSame /\ UNCHANGED <<initialized, session>>

\* 400 "missing session id": initialize again and retry once, with a new
\* budget of attempts and the same key.
MissingSession(t) ==
  /\ CallAt(t, "wait") /\ handler[t][task[t].sent] = "no_session"
  /\ task' = [task EXCEPT ![t] = IF task[t].again THEN [@ EXCEPT !.pc = "validation_error"]
                                 ELSE [@ EXCEPT !.pc = "init", !.again = TRUE, !.attempt = 0]]
  /\ ServerSame /\ UNCHANGED <<initialized, session>>

-----------------------------------------------------------------------------
(* The server *)

\* An answer that nobody waits for any more is dropped.
Delivered(t, n, answer) == IF CallAt(t, "wait") /\ n = task[t].sent THEN answer ELSE "gone"

\* The check done for the session's first request only.
ArriveUnchecked(t, n) ==
  /\ handler[t][n] = "arriving"
  /\ handler' = [handler EXCEPT ![t][n] =
       CASE task[t].header[n] \notin sessions -> Delivered(t, n, "no_session")
         [] task[t].header[n] \in sessions /\ ((t \in recordedKeys /\ n = 1) \/ t \notin WritingTasks) -> Delivered(t, n, "answered")
         [] OTHER -> "running"]
  /\ UNCHANGED <<initialized, session, task, sessions, issued, recordedKeys,
                 sentThen, serverRestarts>>

\* Session check, then _mcp_idempotency_check: a recorded answer is replayed.
\* A read has no key and is answered.
Arrive(t, n) ==
  /\ handler[t][n] = "arriving"
  /\ handler' = [handler EXCEPT ![t][n] =
       CASE task[t].header[n] \notin sessions -> Delivered(t, n, "no_session")
         [] task[t].header[n] \in sessions /\ (t \in recordedKeys \/ t \notin WritingTasks) -> Delivered(t, n, "answered")
         [] OTHER -> "running"]
  /\ UNCHANGED <<initialized, session, task, sessions, issued, recordedKeys,
                 sentThen, serverRestarts>>

ServerCommit(t, n) ==
  /\ handler[t][n] = "running"
  /\ handler' = [handler EXCEPT ![t][n] = "committed"]
  /\ UNCHANGED <<initialized, session, task, sessions, issued, recordedKeys, sentThen, serverRestarts>>

\* _mcp_idempotency_record never fails the answer of a committed write.
Record(t, n, works) ==
  /\ handler[t][n] = "committed"
  /\ recordedKeys' = IF works THEN recordedKeys \cup {t} ELSE recordedKeys
  /\ sentThen' = [sentThen EXCEPT ![t] = IF works /\ t \notin recordedKeys THEN task[t].sent ELSE @]
  /\ handler' = [handler EXCEPT ![t][n] = Delivered(t, n, "answered")]
  /\ UNCHANGED <<initialized, session, task, sessions, issued, serverRestarts>>

\* Sessions live in the server's memory. Requests in progress die with it.
ServerRestart ==
  /\ serverRestarts < MaxServerRestarts
  /\ serverRestarts' = serverRestarts + 1
  /\ sessions' = {}
  /\ handler' = [t \in Tasks |-> [n \in DOMAIN handler[t] |->
                   IF handler[t][n] \in {"running", "committed"} THEN "gone" ELSE handler[t][n]]]
  /\ UNCHANGED <<initialized, session, task, issued, recordedKeys, sentThen>>

-----------------------------------------------------------------------------
ClInit ==
  /\ initialized = FALSE /\ session = NoSession
  /\ task = [t \in Tasks |-> FreshCall]
  /\ handler = [t \in Tasks |-> [n \in Posts |-> "none"]]
  /\ sessions = {} /\ issued = 0 /\ recordedKeys = {} /\ serverRestarts = 0
  /\ sentThen = [t \in Tasks |-> 0]

ClientStep(t) == \/ Start(t) \/ Initialize(t) \/ InitializeFails(t) \/ Post(t)
                 \/ ReadTimeout(t) \/ Transient(t) \/ GatewayTimeout(t) \/ Success(t)
                 \/ MissingSession(t)

ClNext ==
  \/ \E t \in Tasks :
       \/ ClientStep(t)
       \/ \E n \in Posts :
            \/ Arrive(t, n) \/ ServerCommit(t, n)
            \/ \E works \in BOOLEAN : Record(t, n, works)
  \/ ServerRestart

ClSpec == ClInit /\ [][ClNext]_clVars

-----------------------------------------------------------------------------
(* Properties *)

\* Once the answer of a call is recorded, no attempt sent afterwards executes
\* the write: the key is the one thing that survives retries, the second
\* handshake and a restart. (Attempts already sent may: their check is past.)
NoneAfterRecord ==
  \A t \in recordedKeys : \A n \in Posts :
    handler[t][n] \in {"running", "committed"} => n <= sentThen[t]
=============================================================================

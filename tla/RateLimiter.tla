----------------------------- MODULE RateLimiter -----------------------------
(***************************************************************************)
(* The sliding-window write limiter (rate_limiter.py) that save() consults *)
(* first.  check() reads the clock, then takes the lock, prunes the deque  *)
(* of timestamps from its head, decides, and records an admitted write.    *)
(* Another thread may read a later clock and take the lock earlier, so     *)
(* timestamps need not arrive in order.                                    *)
(***************************************************************************)
EXTENDS Integers, Sequences, FiniteSets

CONSTANTS
    Savers,         \* threads that save
    Limit,          \* writes_per_minute
    LifetimeWarn,   \* lifetime_write_warn_at
    Window,         \* one minute, in ticks
    Enforce,        \* RateLimiterConfig.enforce
    MaxLimiterTime, \* bound: ticks
    MaxChecks       \* bound: calls of check()

\* __post_init__ refuses other limits.
ASSUME LimitsAssumption == Limit \in Nat \ {0} /\ LifetimeWarn \in Nat \ {0}
ASSUME WindowAssumption == Window \in Nat \ {0} /\ Enforce \in BOOLEAN
ASSUME LimiterAssumption == MaxLimiterTime \in Nat /\ MaxChecks \in Nat

VARIABLES
    stamps,                                            \* _timestamps
    lifetime,                                          \* _lifetime_writes
    minuteAnomalies, lifetimeAnomalies, total, exempt, \* _stats
    saverAt, nowOf,                                    \* of each thread: its place and the clock it read
    limiterNow, checks,
    admitted,                                          \* history: the stamps of admitted writes
    horizon                                            \* history: the latest window_start anyone pruned with

stats == <<minuteAnomalies, lifetimeAnomalies, total, exempt>>
limiterVars == <<stamps, lifetime, stats, saverAt, nowOf, limiterNow, checks, admitted, horizon>>

LimiterInit ==
    /\ stamps = <<>> /\ lifetime = 0
    /\ minuteAnomalies = 0 /\ lifetimeAnomalies = 0 /\ total = 0 /\ exempt = 0
    /\ saverAt = [t \in Savers |-> "idle"] /\ nowOf = [t \in Savers |-> 0]
    /\ limiterNow = 0 /\ checks = 0
    /\ admitted = <<>> /\ horizon = -Window

CountAfter(s, w) == Cardinality({i \in 1..Len(s) : s[i] > w})

\* A write inside batch_exempt_scope is only counted.
Exempt(t) ==
    /\ saverAt[t] = "idle" /\ checks < MaxChecks
    /\ checks' = checks + 1
    /\ exempt' = exempt + 1 /\ total' = total + 1
    /\ UNCHANGED <<stamps, lifetime, minuteAnomalies, lifetimeAnomalies, saverAt, nowOf, limiterNow,
                   admitted, horizon>>

\* time.monotonic(), before the lock.
ReadClock(t) ==
    /\ saverAt[t] = "idle" /\ checks < MaxChecks
    /\ checks' = checks + 1
    /\ nowOf' = [nowOf EXCEPT ![t] = limiterNow]
    /\ saverAt' = [saverAt EXCEPT ![t] = "check"]
    /\ UNCHANGED <<stamps, lifetime, stats, limiterNow, admitted, horizon>>

\* Mutant: a stamp on the edge of the window is dropped a tick early.
PruneEarly(s, w) == SelectSeq(s, LAMBDA x : x > w + 1)

\* popleft while the head is outside the window: stops at the first stamp inside.
Prune(s, w) ==
    LET expired == {i \in 1..Len(s) : \A j \in 1..i : s[j] <= w}
    IN SubSeq(s, Cardinality(expired) + 1, Len(s))

\* The locked section: prune, decide, record.
Decide(t) ==
    LET window == Prune(stamps, nowOf[t] - Window)
        exceeded == Len(window) + 1 > Limit
        allowed == ~(Enforce /\ exceeded)
    IN /\ saverAt[t] = "check"
       /\ minuteAnomalies' = IF exceeded THEN minuteAnomalies + 1 ELSE minuteAnomalies
       /\ IF allowed
          THEN /\ stamps' = Append(window, nowOf[t])
               /\ lifetime' = lifetime + 1 /\ total' = total + 1
               /\ lifetimeAnomalies' = IF lifetime + 1 > LifetimeWarn
                                       THEN lifetimeAnomalies + 1 ELSE lifetimeAnomalies
               /\ admitted' = Append(admitted, nowOf[t])
          ELSE /\ stamps' = window
               /\ UNCHANGED <<lifetime, total, lifetimeAnomalies, admitted>>
       /\ horizon' = IF nowOf[t] - Window > horizon THEN nowOf[t] - Window ELSE horizon
       /\ saverAt' = [saverAt EXCEPT ![t] = "idle"] /\ nowOf' = [nowOf EXCEPT ![t] = 0]
       /\ UNCHANGED <<exempt, limiterNow, checks>>

LimiterTick ==
    /\ limiterNow < MaxLimiterTime /\ limiterNow' = limiterNow + 1
    /\ UNCHANGED <<stamps, lifetime, stats, saverAt, nowOf, checks, admitted, horizon>>

CheckDone ==
    /\ limiterNow = MaxLimiterTime /\ checks = MaxChecks /\ \A t \in Savers : saverAt[t] = "idle"
    /\ UNCHANGED limiterVars

LimiterNext == LimiterTick \/ CheckDone \/ \E t \in Savers : Exempt(t) \/ ReadClock(t) \/ Decide(t)
LimiterSpec == LimiterInit /\ [][LimiterNext]_limiterVars

-----------------------------------------------------------------------------
(* Properties *)

\* The limiter forgets no admitted write that is inside the window of every
\* later check, although threads prune with clocks read out of order.
NeverForgets == CountAfter(stamps, horizon) = CountAfter(admitted, horizon)

\* Nothing that was refused leaks into the window or the counters, and with
\* enforcement the window never holds more than the limit.
RefusedLeavesNoTrace ==
    /\ lifetime = Len(admitted) /\ total = lifetime + exempt
    /\ Len(stamps) <= Len(admitted)
    /\ Enforce => Len(stamps) <= Limit
===============================================================================

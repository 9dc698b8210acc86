---------------------------- MODULE QualityCircuit ----------------------------
(***************************************************************************)
(* The four-state circuit breaker that store.diagnostics() drives          *)
(* (diagnostics.py, store.py _apply_diagnostics_circuit).                  *)
(*                                                                         *)
(* Threads run diagnostics on one store; nothing locks the breaker, so     *)
(* the calls of one run interleave with another's.  Each breaker method is *)
(* one action: none of them blocks.  Remedies (consolidation, garbage      *)
(* collection) take time.  Scores are classes of the composite score,      *)
(* split at the thresholds the code compares with; time is in ticks.       *)
(***************************************************************************)
EXTENDS Integers, Sequences

CONSTANTS
    Checkers,        \* callers of store.diagnostics()
    Remedies,       \* tier-1 actions: consolidate, gc, integrity_alert
    Cooldown,       \* cooldown_seconds, in ticks
    Jitter,         \* the jitter added to the cooldown is 0..Jitter ticks
    ProbesRequired, \* probes_required
    MaxTime,        \* bound: ticks
    MaxRuns         \* bound: diagnostics runs

ASSUME CircuitAssumption ==
    /\ Cooldown \in Nat /\ Jitter \in Nat /\ ProbesRequired \in Nat \ {0}
    /\ MaxTime \in Nat /\ MaxRuns \in Nat

\* composite < 0.3, < 0.45, < 0.6, and the rest
Scores == {"critical", "poor", "fair", "good"}
Never == -1

VARIABLES
    state, probes,  \* CircuitBreaker.state, half_open_probes
    halfOpenAt,     \* _last_remediation_mono["half_open"], or Never
    remedyAt,       \* _last_remediation_mono of each remedy, or Never
    weight,         \* _hive_recall_weight_multiplier, in halves
    checkerAt, score, st, nowm, \* of each thread: its place, composite_score, st, nowm
    remediesLeft, busy,     \* of each thread: remedies not yet considered, and under way
    now, runs,
    recovery        \* history: the scores probed since HALF_OPEN was entered

circuit == <<state, probes, halfOpenAt>>
locals == <<score, st, nowm, remediesLeft, busy>>
circuitVars == <<circuit, remedyAt, weight, checkerAt, locals, now, runs, recovery>>

NoRemedy == "none"

CircuitInit ==
    /\ state = "closed" /\ probes = 0 /\ halfOpenAt = Never
    /\ remedyAt = [a \in Remedies |-> Never]
    /\ weight = 2
    /\ checkerAt = [t \in Checkers |-> "idle"]
    /\ score = [t \in Checkers |-> "good"]
    /\ st = [t \in Checkers |-> "closed"]
    /\ nowm = [t \in Checkers |-> 0]
    /\ remediesLeft = [t \in Checkers |-> {}]
    /\ busy = [t \in Checkers |-> NoRemedy]
    /\ now = 0 /\ runs = 0
    /\ recovery = <<>>

CircuitGoto(t, l) == checkerAt' = [checkerAt EXCEPT ![t] = l]

\* hive_recall_multiplier
Multiplier(s) == CASE s = "closed" -> 2 [] s = "open" -> 0 [] OTHER -> 1

\* run_diagnostics: the store's quality is whatever it is.
Observe(t) ==
    /\ checkerAt[t] = "idle" /\ runs < MaxRuns
    /\ runs' = runs + 1
    /\ \E s \in Scores : score' = [score EXCEPT ![t] = s]
    /\ CircuitGoto(t, IF state = "halfOpen" THEN "probe" ELSE "transition")
    /\ UNCHANGED <<circuit, remedyAt, weight, st, nowm, remediesLeft, busy, now, recovery>>

\* record_probe: enough probes and a fair score leave HALF_OPEN.
RecordProbe(t) ==
    /\ checkerAt[t] = "probe"
    /\ probes' = probes + 1
    /\ state' = IF probes + 1 >= ProbesRequired /\ score[t] \in {"fair", "good"}
                THEN "degraded" ELSE state
    /\ recovery' = Append(recovery, score[t])
    /\ CircuitGoto(t, "transition")
    /\ UNCHANGED <<halfOpenAt, remedyAt, weight, locals, now, runs>>

ByScore(s) ==
    CASE s = "good"              -> "closed"
      [] s \in {"fair", "poor"}  -> "degraded"
      [] s = "critical"          -> "open"

\* Mutant: HALF_OPEN is left on the first probe.
NextStateFirstProbe(s) == ByScore(s)

\* CircuitBreaker.transition: HALF_OPEN is kept until enough probes were seen.
NextState(s) ==
    IF state = "halfOpen" /\ s # "critical" /\ probes < ProbesRequired
    THEN "halfOpen" ELSE ByScore(s)

\* Entering OPEN drops the half-open clock.
Transition(t) ==
    /\ checkerAt[t] = "transition"
    /\ state' = NextState(score[t])
    /\ probes' = IF state = "halfOpen" /\ state' # "halfOpen" THEN 0 ELSE probes
    /\ halfOpenAt' = IF state' = "open" /\ state # "open" THEN Never ELSE halfOpenAt
    /\ recovery' = IF state' = "halfOpen" THEN recovery ELSE <<>>
    /\ st' = [st EXCEPT ![t] = state']
    /\ nowm' = [nowm EXCEPT ![t] = now]
    /\ CircuitGoto(t, IF state' = "open" THEN "remediate" ELSE "publish")
    /\ UNCHANGED <<remedyAt, weight, score, remediesLeft, busy, now, runs>>

-----------------------------------------------------------------------------
(* maybe_remediate *)

\* Remedies are considered while the breaker is OPEN, unless the caller asked for
\* none (run_remediation=False).
Remediate(t) ==
    /\ checkerAt[t] = "remediate"
    /\ \E S \in {{}, Remedies} : remediesLeft' = [remediesLeft EXCEPT ![t] = IF state = "open" THEN S ELSE {}]
    /\ CircuitGoto(t, "remedies")
    /\ UNCHANGED <<circuit, remedyAt, weight, score, st, nowm, busy, now, runs, recovery>>

CoolOk(t, a) == remedyAt[a] = Never \/ nowm[t] - remedyAt[a] >= Cooldown

\* A dimension that scores well, or a remedy still cooling down.
SkipRemedy(t) ==
    /\ checkerAt[t] = "remedies" /\ busy[t] = NoRemedy
    /\ \E a \in remediesLeft[t] : remediesLeft' = [remediesLeft EXCEPT ![t] = @ \ {a}]
    /\ UNCHANGED <<circuit, remedyAt, weight, checkerAt, score, st, nowm, busy, now, runs, recovery>>

StartRemedy(t) ==
    /\ checkerAt[t] = "remedies" /\ busy[t] = NoRemedy
    /\ \E a \in remediesLeft[t] :
        /\ CoolOk(t, a)
        /\ busy' = [busy EXCEPT ![t] = a]
        /\ remediesLeft' = [remediesLeft EXCEPT ![t] = @ \ {a}]
    /\ UNCHANGED <<circuit, remedyAt, weight, checkerAt, score, st, nowm, now, runs, recovery>>

\* A remedy that raises is not stamped.
FinishRemedy(t) ==
    /\ checkerAt[t] = "remedies" /\ busy[t] # NoRemedy
    /\ \/ remedyAt' = [remedyAt EXCEPT ![busy[t]] = nowm[t]]
       \/ UNCHANGED remedyAt
    /\ busy' = [busy EXCEPT ![t] = NoRemedy]
    /\ UNCHANGED <<circuit, weight, checkerAt, score, st, nowm, remediesLeft, now, runs, recovery>>

\* enter_half_open_if_cooled, then st is read again.
EnterHalfOpenIfCooled(t) ==
    /\ checkerAt[t] = "remedies" /\ busy[t] = NoRemedy /\ remediesLeft[t] = {}
    /\ \/ /\ state = "open" /\ halfOpenAt # Never
          /\ \E j \in 0..Jitter : nowm[t] - halfOpenAt >= Cooldown + j
          /\ state' = "halfOpen" /\ probes' = 0 /\ halfOpenAt' = nowm[t]
          /\ recovery' = <<>>
       \/ /\ state = "open" /\ halfOpenAt = Never
          /\ halfOpenAt' = nowm[t]
          /\ UNCHANGED <<state, probes, recovery>>
       \/ /\ state = "open" /\ halfOpenAt # Never
          /\ \E j \in 0..Jitter : nowm[t] - halfOpenAt < Cooldown + j
          /\ UNCHANGED <<state, probes, halfOpenAt, recovery>>
       \/ /\ state # "open"
          /\ UNCHANGED <<state, probes, halfOpenAt, recovery>>
    /\ st' = [st EXCEPT ![t] = state']
    /\ CircuitGoto(t, "publish")
    /\ UNCHANGED <<remedyAt, weight, score, nowm, remediesLeft, busy, now, runs>>

\* The recall multiplier is set from the thread's own st.
Publish(t) ==
    /\ checkerAt[t] = "publish"
    /\ weight' = Multiplier(st[t])
    /\ CircuitGoto(t, "idle")
    /\ UNCHANGED <<circuit, remedyAt, locals, now, runs, recovery>>

Tick ==
    /\ now < MaxTime
    /\ now' = now + 1
    /\ UNCHANGED <<circuit, remedyAt, weight, checkerAt, locals, runs, recovery>>

Step(t) ==
    \/ Observe(t) \/ RecordProbe(t) \/ Transition(t)
    \/ Remediate(t) \/ SkipRemedy(t) \/ StartRemedy(t) \/ FinishRemedy(t)
    \/ EnterHalfOpenIfCooled(t) \/ Publish(t)

AllIdle == \A t \in Checkers : checkerAt[t] = "idle"
RunDone == AllIdle /\ runs = MaxRuns /\ now = MaxTime /\ UNCHANGED circuitVars

CircuitNext == Tick \/ RunDone \/ \E t \in Checkers : Step(t)
CircuitSpec == CircuitInit /\ [][CircuitNext]_circuitVars

-----------------------------------------------------------------------------
(* Properties *)

\* HALF_OPEN ends well only after ProbesRequired probes, overlapping runs or not.
RecoveryTakesProbes ==
    [][state = "halfOpen" /\ state' \in {"closed", "degraded"}
        => Len(recovery') >= ProbesRequired \/ Len(recovery) >= ProbesRequired]_circuitVars
===============================================================================

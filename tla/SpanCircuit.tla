----------------------------- MODULE SpanCircuit -----------------------------
(***************************************************************************)
(* The circuit breaker around the span exporter. The lock covers the check *)
(* and the bookkeeping but not the export itself, so exports of several    *)
(* threads (the batch processor, a flush, a shutdown) overlap.             *)
(***************************************************************************)
EXTENDS Integers

CONSTANTS Exporters,     \* threads that export
          MaxFailures,   \* _CB_MAX_FAILURES
          OpenFor,       \* _CB_OPEN_DURATION
          MaxClock,      \* bound on the clock
          Closed         \* _open_until is None

ASSUME SpanAssumption ==
  /\ MaxFailures \in Nat \ {0} /\ OpenFor \in Nat /\ MaxClock \in Nat /\ Closed \notin Int

VARIABLES clock, failures, openUntil,
          export,     \* Exporters -> "idle" or "exporting"
          streak      \* exports that failed since the last success, up to MaxFailures

spVars == <<clock, failures, openUntil, export, streak>>

IsOpen == openUntil # Closed /\ clock < openUntil

\* While open, export() returns FAILURE at once.
Drop(e) ==
  /\ export[e] = "idle" /\ IsOpen
  /\ UNCHANGED spVars

\* The half-open circuit forgets its failures.
TryForgetful(e) ==
  /\ export[e] = "idle" /\ ~IsOpen
  /\ openUntil' = Closed
  /\ failures' = IF openUntil # Closed THEN 0 ELSE failures
  /\ export' = [export EXCEPT ![e] = "exporting"]
  /\ UNCHANGED <<clock, streak>>

\* Closed, or the window is over: half-open, with the failures kept.
Try(e) ==
  /\ export[e] = "idle" /\ ~IsOpen
  /\ openUntil' = Closed
  /\ export' = [export EXCEPT ![e] = "exporting"]
  /\ UNCHANGED <<clock, failures, streak>>

\* The code only compares the count with MaxFailures, so it is capped there.
OneMore(n) == IF n < MaxFailures THEN n + 1 ELSE n

Fail(e) ==
  LET n == OneMore(failures) IN
  /\ export[e] = "exporting"
  /\ failures' = n /\ streak' = OneMore(streak)
  /\ openUntil' = IF n >= MaxFailures THEN clock + OpenFor ELSE openUntil
  /\ export' = [export EXCEPT ![e] = "idle"]
  /\ UNCHANGED clock

\* A success closes the circuit, even one that began before it opened.
Succeed(e) ==
  /\ export[e] = "exporting"
  /\ failures' = 0 /\ streak' = 0 /\ openUntil' = Closed
  /\ export' = [export EXCEPT ![e] = "idle"]
  /\ UNCHANGED clock

Pass == clock < MaxClock /\ clock' = clock + 1 /\ UNCHANGED <<failures, openUntil, export, streak>>

SpInit ==
  /\ clock = 0 /\ failures = 0 /\ openUntil = Closed
  /\ export = [e \in Exporters |-> "idle"] /\ streak = 0

SpNext ==
  \/ \E e \in Exporters : Drop(e) \/ Try(e) \/ Fail(e) \/ Succeed(e)
  \/ Pass

SpSpec == SpInit /\ [][SpNext]_spVars

-----------------------------------------------------------------------------
\* Once MaxFailures exports in a row have failed, and until one succeeds, the
\* collector is left alone: the circuit is open, or a try that its last window
\* allowed is in progress. An outage costs a try per window, not MaxFailures.
TrippedIsOpen ==
  streak >= MaxFailures => openUntil # Closed \/ \E e \in Exporters : export[e] = "exporting"
=============================================================================

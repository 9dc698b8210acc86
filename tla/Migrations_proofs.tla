--------------------------- MODULE Migrations_proofs ---------------------------
(***************************************************************************)
(* Proofs about the migration runners, for any number of runners, any      *)
(* number of migrations, any mix of binaries and any number of failures;   *)
(* about the feedback flywheel, the other job that works through a         *)
(* numbered list and remembers in the database how far it got; about the   *)
(* two session indexes, which are driven by the same calls; and about the  *)
(* documentation validator, whose memory is a stamp among the tags of the  *)
(* entry it validates.                                                     *)
(***************************************************************************)
EXTENDS Migrations, Flywheel, Sessions, DocValidation, FiniteSetTheorems, WellFoundedInduction, TLAPS

-----------------------------------------------------------------------------
(* Type correctness and mutual exclusion *)

\* The state is well typed, and whoever reads the version table to plan or runs
\* migration files holds the advisory lock: `with psycopg.connect` never leaves
\* two runners in the locked section, whatever fails or dies.
THEOREM TypeCorrect == Spec => []TypeOK
<1> USE NobodyAssumption, LatestAssumption, BundlesAssumption, RolesAssumption, FaultsAssumption
<1>1. Init => TypeOK
  <2> SUFFICES ASSUME Init PROVE TypeOK
    OBVIOUS
  <2>1. role \in [Runners -> AllRoles] /\ bundle \in [Runners -> 1..Latest]
    BY DEF Init
  <2>2. recorded \subseteq 1..Latest
    BY DEF Init
  <2> QED
    BY <2>1, <2>2 DEF Init, TypeOK, Ended
<1>2. TypeOK /\ [Next]_vars => TypeOK'
  <2> SUFFICES ASSUME TypeOK, [Next]_vars PROVE TypeOK'
    OBVIOUS
  <2> USE DEF TypeOK, params, Goto, Plan, Ended
  <2>1. CASE UNCHANGED vars
    BY <2>1 DEF vars
  <2>2. CASE Finished
    BY <2>2 DEF Finished, vars
  <2>3. ASSUME NEW r \in Runners, Run(r) PROVE TypeOK'
    <3>1. CASE CheckStatus(r)
      BY <3>1 DEF CheckStatus
    <3>2. CASE StartApply(r)
      BY <3>2 DEF StartApply
    <3>3. CASE PlanRollback(r)
      <4>1. {v \in 1..bundle[r] : v > target[r] /\ v \in recorded} \subseteq 1..Latest
        BY <3>3
      <4> QED
        BY <3>3, <4>1 DEF PlanRollback
    <3>4. CASE Lock(r)
      <4>1. \A q \in Runners : pc[q] \notin {"read", "run"}
        BY <3>4 DEF Lock
      <4> QED
        BY <3>4, <4>1 DEF Lock
    <3>5. CASE ReadApplied(r)
      <4>1. (1..bundle[r]) \ recorded \subseteq 1..Latest
        OBVIOUS
      <4> QED
        BY <3>5, <4>1 DEF ReadApplied
    <3>6. CASE Up(r)
      <4>1. PICK v \in plan[r] : recorded' = recorded \union {v} /\ Plan(r, plan[r] \ {v})
        BY <3>6 DEF Up, NextFile, Oldest
      <4>2. recorded' \subseteq 1..Latest /\ plan' \in [Runners -> SUBSET (1..Latest)]
        BY <4>1
      <4> QED
        BY <3>6, <4>2 DEF Up
    <3>7. CASE Down(r)
      BY <3>7 DEF Down
    <3>8. CASE Complete(r)
      BY <3>8 DEF Complete, Close
    <3>9. CASE StatementRaises(r)
      BY <3>9 DEF StatementRaises, Close
    <3> QED
      BY <2>3, <3>1, <3>2, <3>3, <3>4, <3>5, <3>6, <3>7, <3>8, <3>9 DEF Run
  <2>4. ASSUME NEW r \in Runners, Die(r) PROVE TypeOK'
    BY <2>4 DEF Die, Close
  <2>5. ASSUME NEW r \in Runners, Restart(r) PROVE TypeOK'
    BY <2>5 DEF Restart
  <2> QED
    BY <2>1, <2>2, <2>3, <2>4, <2>5 DEF Next
<1> QED
  BY <1>1, <1>2, PTL DEF Spec

-----------------------------------------------------------------------------
(* Deployments that only migrate forward *)

\* What the lock protects: the plan of the runner inside it is exactly what is
\* missing, because nobody else can record a version meanwhile.
PlanIsExact ==
    \A r \in Runners : pc[r] = "run" => plan[r] = (1..bundle[r]) \ recorded

\* The invariant of a deployment in which nobody rolls back.
ForwardInv ==
    /\ TypeOK
    /\ NobodyRollsBack
    /\ PrefixRecorded
    /\ PlanIsExact
    /\ CompletedMeansMigrated

\* The oldest version missing from 1..n below b is n + 1.
LEMMA OldestMissing ==
    ASSUME NEW n \in Nat, NEW b \in Nat, NEW v \in Oldest((1..b) \ (1..n))
    PROVE  v = n + 1
BY DEF Oldest

\* A step keeps ForwardInv.  Up is the interesting one: it extends the prefix by
\* one and shrinks its own plan by the same version; no other runner has a plan.
LEMMA ForwardStep ==
    ForwardInv /\ TypeOK' /\ [Next]_vars => ForwardInv'
<1> SUFFICES ASSUME ForwardInv, TypeOK', [Next]_vars PROVE ForwardInv'
  OBVIOUS
<1> USE NobodyAssumption, LatestAssumption
<1> USE DEF ForwardInv, NobodyRollsBack, Rollsback
<1>t. TypeOK
  OBVIOUS
<1>1. CASE UNCHANGED vars
  BY <1>1 DEF vars, params, TypeOK, PrefixRecorded, PlanIsExact, CompletedMeansMigrated
<1>2. CASE Finished
  BY <1>2 DEF Finished, vars, params, TypeOK, PrefixRecorded, PlanIsExact, CompletedMeansMigrated
<1>3. ASSUME NEW r \in Runners,
             CheckStatus(r) \/ StartApply(r) \/ Lock(r) \/ Restart(r)
      PROVE  ForwardInv'
  <2>1. /\ UNCHANGED <<role, bundle, target, plan, recorded>>
        /\ \E l \in {"start", "lock", "read", "refused"} : pc' = [pc EXCEPT ![r] = l]
    BY <1>3 DEF CheckStatus, StartApply, Lock, Restart, Goto, params
  <2>2. PlanIsExact' /\ CompletedMeansMigrated'
    BY <2>1 DEF PlanIsExact, CompletedMeansMigrated, TypeOK
  <2> QED
    BY <2>1, <2>2 DEF PrefixRecorded
<1>4. ASSUME NEW r \in Runners, PlanRollback(r) PROVE ForwardInv'
  BY <1>4 DEF PlanRollback
<1>5. ASSUME NEW r \in Runners, Down(r) PROVE ForwardInv'
  BY <1>5 DEF Down
<1>6. ASSUME NEW r \in Runners, ReadApplied(r) PROVE ForwardInv'
  <2>1. /\ UNCHANGED <<role, bundle, target, recorded>>
        /\ pc' = [pc EXCEPT ![r] = "run"]
        /\ plan' = [plan EXCEPT ![r] = (1..bundle[r]) \ recorded]
    BY <1>6 DEF ReadApplied, Goto, Plan, params
  <2>2. PlanIsExact' /\ CompletedMeansMigrated'
    BY <2>1 DEF PlanIsExact, CompletedMeansMigrated, TypeOK
  <2> QED
    BY <2>1, <2>2 DEF PrefixRecorded
<1>7. ASSUME NEW r \in Runners, Up(r) PROVE ForwardInv'
  <2>1. PICK n \in 0..Latest : recorded = 1..n
    BY DEF PrefixRecorded
  <2>2. pc[r] = "run" /\ plan[r] = (1..bundle[r]) \ (1..n)
    BY <1>7, <2>1 DEF Up, PlanIsExact
  <2>3. PICK v \in Oldest(plan[r]) :
            recorded' = recorded \union {v} /\ plan' = [plan EXCEPT ![r] = plan[r] \ {v}]
    BY <1>7 DEF Up, NextFile, Plan
  <2>4. n \in Nat /\ bundle[r] \in Nat /\ bundle[r] <= Latest
    BY DEF TypeOK
  <2>5. v = n + 1
    BY <2>2, <2>3, <2>4, OldestMissing
  <2>6. v \in 1..bundle[r]
    BY <2>2, <2>3 DEF Oldest
  <2>7. recorded' = 1..(n + 1)
    BY <2>1, <2>3, <2>4, <2>5
  <2>8. PrefixRecorded'
    BY <2>4, <2>5, <2>6, <2>7 DEF PrefixRecorded
  <2>9. UNCHANGED <<role, bundle, target, pc>>
    BY <1>7 DEF Up, params
  <2>10. \A q \in Runners : pc[q] = "run" => q = r
    BY <2>2 DEF TypeOK
  <2>11. plan'[r] = (1..bundle[r]) \ recorded'
    BY <2>1, <2>2, <2>3 DEF TypeOK
  <2>12. PlanIsExact'
    BY <2>9, <2>10, <2>11 DEF PlanIsExact
  <2>13. CompletedMeansMigrated'
    BY <2>3, <2>9 DEF CompletedMeansMigrated
  <2> QED
    BY <2>8, <2>9, <2>12, <2>13
<1>8. ASSUME NEW r \in Runners, Complete(r) PROVE ForwardInv'
  <2>1. pc[r] = "run" /\ (1..bundle[r]) \ recorded = {}
    BY <1>8 DEF Complete, PlanIsExact
  <2>2. /\ UNCHANGED <<role, bundle, target, recorded>>
        /\ pc' = [pc EXCEPT ![r] = "ok"] /\ plan' = [plan EXCEPT ![r] = {}]
    BY <1>8 DEF Complete, Close, Goto, Plan, params
  <2>3. PlanIsExact' /\ CompletedMeansMigrated'
    BY <2>1, <2>2 DEF PlanIsExact, CompletedMeansMigrated, TypeOK
  <2> QED
    BY <2>2, <2>3 DEF PrefixRecorded
<1>9. ASSUME NEW r \in Runners, StatementRaises(r) \/ Die(r) PROVE ForwardInv'
  <2>1. /\ UNCHANGED <<role, bundle, target, recorded>>
        /\ pc' = [pc EXCEPT ![r] = "failed"] /\ plan' = [plan EXCEPT ![r] = {}]
    BY <1>9 DEF StatementRaises, Die, Close, Goto, Plan, params
  <2>2. PlanIsExact' /\ CompletedMeansMigrated'
    BY <2>1 DEF PlanIsExact, CompletedMeansMigrated, TypeOK
  <2> QED
    BY <2>1, <2>2 DEF PrefixRecorded
<1> QED
  BY <1>1, <1>2, <1>3, <1>4, <1>5, <1>6, <1>7, <1>8, <1>9 DEF Next, Run

\* Roles do not change, so a deployment stays one in which nobody rolls back.
LEMMA RolesStay == [Next]_vars => UNCHANGED role
BY DEF Next, vars, params, Finished, Run, CheckStatus, StartApply, PlanRollback, Lock, ReadApplied,
       Up, Down, Complete, StatementRaises, Die, Restart

\* ForwardInv holds at the start of such a deployment and therefore always.
LEMMA ForwardInvariant == Spec => [](NobodyRollsBack => ForwardInv)
<1>1. Init /\ TypeOK => (NobodyRollsBack => ForwardInv)
  BY DEF Init, PrefixRecorded, PlanIsExact, CompletedMeansMigrated, ForwardInv
<1>2. Spec => []TypeOK
  BY TypeCorrect
<1>3. (NobodyRollsBack => ForwardInv) /\ TypeOK' /\ [Next]_vars => (NobodyRollsBack => ForwardInv)'
  <2> SUFFICES ASSUME NobodyRollsBack => ForwardInv, TypeOK', [Next]_vars, NobodyRollsBack'
               PROVE  ForwardInv'
    OBVIOUS
  <2>1. NobodyRollsBack
    BY RolesStay DEF NobodyRollsBack, Rollsback
  <2> QED
    BY <2>1, ForwardStep
<1> QED
  BY <1>1, <1>2, <1>3, PTL DEF Spec

\* As long as nobody rolls back, the version table never has a gap, however many
\* replicas of however many releases race, fail and restart.
THEOREM NoGap == Spec => []PrefixRecorded
<1>1. (NobodyRollsBack => ForwardInv) => PrefixRecorded
  BY DEF ForwardInv, PrefixRecorded
<1> QED
  BY <1>1, ForwardInvariant, PTL

\* As long as nobody rolls back, a runner that returned normally left all of its
\* migrations recorded.
THEOREM SuccessMeansMigrated == Spec => []CompletedMeansMigrated
<1>1. (NobodyRollsBack => ForwardInv) => CompletedMeansMigrated
  BY DEF ForwardInv, CompletedMeansMigrated
<1> QED
  BY <1>1, ForwardInvariant, PTL

\* As long as nobody rolls back, no migration file runs a second time, and none
\* runs on a schema newer than the binary that carries it.
THEOREM AppliedOnce == Spec => NeverRerun /\ NoDowngradeWrite
<1>1. (NobodyRollsBack => ForwardInv) /\ [Next]_vars =>
        [NobodyRollsBack => \A r \in Runners : Executes(r) => plan[r] \cap recorded = {}]_vars
  BY DEF ForwardInv, PlanIsExact, Executes
<1>2. (NobodyRollsBack => ForwardInv) /\ [Next]_vars =>
        [NobodyRollsBack => \A r \in Runners : Executes(r) => \A v \in recorded : v <= bundle[r]]_vars
  <2> SUFFICES ASSUME NobodyRollsBack, ForwardInv, [Next]_vars, NEW r \in Runners, Executes(r), NEW v \in recorded
               PROVE  v <= bundle[r]
    OBVIOUS
  <2> USE LatestAssumption DEF ForwardInv
  <2>1. PICK n \in 0..Latest : recorded = 1..n
    BY DEF PrefixRecorded
  <2>2. pc[r] = "run" /\ plan[r] = (1..bundle[r]) \ (1..n)
    BY <2>1 DEF PlanIsExact, Executes
  <2>3. plan[r] # {}
    <3>1. pc'[r] = "run" /\ plan'[r] # plan[r]
      BY DEF Executes
    <3>2. CASE plan[r] = {}
      <4>1. TypeOK
        OBVIOUS
      <4>2. \A q \in Runners : q # r => pc[q] \notin {"read", "run"}
        BY <2>2, <4>1 DEF TypeOK
      <4>3. CASE UNCHANGED vars \/ Finished
        BY <3>1, <4>3 DEF vars, Finished
      <4>4. ASSUME NEW q \in Runners, Run(q) \/ Die(q) \/ Restart(q) PROVE FALSE
        <5>1. CASE q = r
          BY <2>2, <3>1, <3>2, <4>1, <4>4, <5>1 DEF TypeOK, Run, CheckStatus, StartApply, PlanRollback,
             Lock, ReadApplied, Up, Down, NextFile, Oldest, Newest, Complete, StatementRaises,
             Die, Restart, Close, Goto, Plan, Ended
        <5>2. CASE q # r
          BY <2>2, <3>1, <4>1, <4>2, <4>4, <5>2 DEF TypeOK, Run, CheckStatus, StartApply,
             PlanRollback, Lock, ReadApplied, Up, Down, Complete, StatementRaises, Die, Restart,
             Close, Goto, Plan, Ended
        <5> QED
          BY <5>1, <5>2
      <4> QED
        BY <4>3, <4>4 DEF Next
    <3> QED
      BY <3>2
  <2>4. bundle[r] \in Nat /\ n \in Nat
    BY DEF TypeOK
  <2> QED
    BY <2>1, <2>2, <2>3, <2>4
<1> QED
  BY <1>1, <1>2, ForwardInvariant, PTL DEF Spec, NeverRerun, NoDowngradeWrite

(***************************************************************************)
(* The feedback flywheel. The cursor is written by runs that do not know   *)
(* of each other; what keeps it honest is said for every run by itself.    *)
(***************************************************************************)
FbRuns == [pc : {"idle", "apply", "flush"}, todo : SUBSET FbEvents, done : Nat, last : FbEvents \cup {0},
           since : Int]

FwType ==
  /\ visible \subseteq FbEvents /\ cursor \in visible \cup {0}
  /\ applied \in [FbEvents -> Nat]
  /\ run \in [Processors -> FbRuns]
  /\ \A e \in FbEvents : applied[e] > 0 => e \in visible
  /\ \A r \in Processors : run[r].todo \subseteq visible /\ run[r].last \in visible \cup {0}

Settled(e) == applied[e] > 0 \/ e \in late \cup deferred

\* A visible event is settled, or the cursor is before it; and for each run it is
\* settled, still to come, or later than everything the run has read.
FwInv ==
  /\ FwType
  /\ \A e \in visible : Settled(e) \/ cursor < e
  /\ \A r \in Processors : run[r] # NoRun =>
       \A e \in visible :
         \/ Settled(e)
         \/ e \in run[r].todo
         \/ \A x \in run[r].todo \cup {run[r].last} : x < e
  /\ \A r \in Processors : \A x \in run[r].todo : run[r].last < x

LEMMA EventsAre == FbEvents \subseteq Nat \ {0}
BY FlywheelAssumption DEF FbEvents

\* What the cursor's timestamp and the tie-break leave out is not after the cursor.
LEMMA CursorOrder ==
  ASSUME NEW e \in FbEvents, NEW c \in FbEvents \cup {0}, c < e
  PROVE  AfterCursor(e, c) /\ (c = 0 \/ Timestamp(e) >= Timestamp(c))
<1>1. e \in Nat /\ c \in Nat
  BY EventsAre
<1>2. Timestamp(c) \in Int /\ Timestamp(e) \in Int /\ Timestamp(c) <= Timestamp(e)
  BY <1>1 DEF Timestamp
<1>3. QED
  BY <1>1, <1>2 DEF AfterCursor

LEMMA NoRunOk == NoRun \in FbRuns /\ NoRun.todo = {} /\ NoRun.last = 0
BY DEF NoRun, FbRuns

LEMMA FwInitOk == FwInit => FwInv
BY NoRunOk DEF FwInit, FwInv, FwType

\* An event committed late is marked; any other is later than all that was read.
LEMMA RecordOk ==
  ASSUME FwInv, NEW e \in FbEvents, NEW mirror, Record(e, mirror)
  PROVE  FwInv'
<1>1. /\ e \notin visible /\ visible' = visible \cup {e}
      /\ UNCHANGED <<cursor, applied, run, deferred>>
      /\ late \subseteq late' /\ ((\E x \in BeenRead : e < x) => e \in late')
  BY DEF Record
<1>2. FwType'
  BY <1>1 DEF FwInv, FwType
<1>3. \A o \in visible : Settled(o) => Settled(o)'
  BY <1>1 DEF Settled
<1>4. Settled(e)' \/ \A x \in BeenRead : x < e
  <2>1. ASSUME NEW x \in BeenRead PROVE x \in visible \cup {0}
    BY DEF BeenRead, FwInv, FwType
  <2>2. ASSUME NEW x \in BeenRead, ~(e < x) PROVE x < e
    <3>1. visible \subseteq Nat \ {0} /\ e \in Nat \ {0}
      BY EventsAre DEF FwInv, FwType
    <3>2. x # e /\ x \in Nat /\ e \in Nat
      <4>1. x \in visible \cup {0}
        BY <2>1, <2>2
      <4>2. e \notin visible
        BY <1>1
      <4>3. QED
        BY <3>1, <4>1, <4>2
    <3>3. QED
      BY <2>2, <3>2
  <2>3. QED
    BY <1>1, <2>2 DEF Settled
<1>5. Settled(e)' \/ cursor < e
  BY <1>4 DEF BeenRead
<1>6. ASSUME NEW r \in Processors
      PROVE  Settled(e)' \/ \A x \in run[r].todo \cup {run[r].last} : x < e
  BY <1>4 DEF BeenRead
<1>7. QED
  BY <1>1, <1>2, <1>3, <1>5, <1>6 DEF FwInv

\* Nothing that is after the cursor is left behind.
LEMMA BeginRunOk ==
  ASSUME FwInv, NEW r \in Processors, NEW since \in Int, BeginRun(r, since)
  PROVE  FwInv'
<1> DEFINE todo == {e \in Fetched(cursor) : AfterCursor(e, cursor)}
           q == [pc |-> "apply", todo |-> todo, done |-> 0, last |-> 0, since |-> since]
<1>1. /\ UNCHANGED <<visible, cursor, applied, late, deferred>>
      /\ run' = [run EXCEPT ![r] = q]
  BY Zenon DEF BeginRun
<1>2. todo \subseteq visible /\ visible \subseteq FbEvents
  BY DEF Fetched, FwInv, FwType
<1>3. ASSUME NEW e \in visible, e \notin todo PROVE ~(cursor < e)
  BY <1>3, CursorOrder DEF Fetched, FwInv, FwType
<1> HIDE DEF todo
<1>4. q \in FbRuns /\ q.todo = todo /\ q.last = 0
  BY <1>2 DEF FbRuns
<1> HIDE DEF q
<1>5. \A o \in Processors : run'[o] = IF o = r THEN q ELSE run[o]
  BY <1>1 DEF FwInv, FwType
<1>6. FwType'
  <2>1. run' \in [Processors -> FbRuns]
    BY <1>1, <1>4 DEF FwInv, FwType
  <2>2. QED
    BY <1>1, <1>2, <1>4, <1>5, <2>1 DEF FwInv, FwType
<1>7. \A e : Settled(e)' <=> Settled(e)
  BY <1>1 DEF Settled
<1>8. \A e \in visible : Settled(e) \/ e \in todo
  BY <1>3 DEF FwInv
<1>9. \A x \in todo : 0 < x
  BY <1>2, EventsAre
<1>10. QED
  BY <1>1, <1>4, <1>5, <1>6, <1>7, <1>8, <1>9 DEF FwInv

LEMMA ApplyEventOk ==
  ASSUME FwInv, NEW r \in Processors, ApplyEvent(r)
  PROVE  FwInv'
<1> DEFINE q == run[r]
<1>1. PICK e \in q.todo :
        /\ \A x \in q.todo : e <= x
        /\ applied' = [applied EXCEPT ![e] = IF Timestamp(e) < q.since THEN @ ELSE @ + 1]
        /\ deferred' = IF Timestamp(e) < q.since THEN deferred \cup {e} ELSE deferred
        /\ run' = [run EXCEPT ![r] =
             [pc |-> IF ~(Timestamp(e) < q.since) /\ q.done % FlushEvery = FlushEvery - 1 THEN "flush" ELSE "apply",
              todo |-> q.todo \ {e}, done |-> q.done + 1, last |-> IF Timestamp(e) < q.since THEN q.last ELSE e,
              since |-> q.since]]
  BY Zenon DEF ApplyEvent
<1>2. UNCHANGED <<visible, cursor, late>> /\ q # NoRun
  BY NoRunOk DEF ApplyEvent
<1> DEFINE skip == Timestamp(e) < q.since
           stage == IF ~skip /\ q.done % FlushEvery = FlushEvery - 1 THEN "flush" ELSE "apply"
           last == IF skip THEN q.last ELSE e
           after == [pc |-> stage, todo |-> q.todo \ {e}, done |-> q.done + 1, last |-> last, since |-> q.since]
<1>3. /\ q \in FbRuns /\ q.todo \subseteq visible /\ q.last \in visible \cup {0}
      /\ visible \subseteq FbEvents /\ e \in FbEvents /\ \A x \in q.todo : q.last < x
  BY DEF FwInv, FwType
<1>4. run' = [run EXCEPT ![r] = after] /\ stage \in {"idle", "apply", "flush"} /\ last \in {e, q.last}
  BY <1>1, <1>3 DEF FbRuns
<1>5. applied \in [FbEvents -> Nat] /\ applied' \in [FbEvents -> Nat]
      /\ (\A o \in FbEvents : applied[o] > 0 => applied'[o] > 0) /\ (~skip => applied'[e] > 0)
      /\ (\A o \in FbEvents : applied'[o] > 0 => applied[o] > 0 \/ o = e)
  BY <1>1, <1>3 DEF FwInv, FwType
<1>6. deferred \subseteq deferred' /\ (skip => e \in deferred')
  BY <1>1
<1> HIDE DEF skip, stage, last, q
<1>7. after \in FbRuns /\ after.todo = q.todo \ {e} /\ after.last = last
  <2>1. q.done + 1 \in Nat /\ q.todo \ {e} \in SUBSET FbEvents /\ last \in FbEvents \cup {0} /\ q.since \in Int
    BY <1>3, <1>4 DEF FbRuns
  <2>2. QED
    BY <1>4, <2>1 DEF FbRuns
<1> HIDE DEF after
<1>8. \A o \in Processors : run'[o] = IF o = r THEN after ELSE run[o]
  BY <1>4 DEF FwInv, FwType
<1>9. FwType'
  <2>1. run' \in [Processors -> FbRuns]
    BY <1>4, <1>7 DEF FwInv, FwType
  <2>2. \A o \in Processors : run'[o].todo \subseteq visible /\ run'[o].last \in visible \cup {0}
    BY <1>1, <1>3, <1>4, <1>7, <1>8 DEF FwInv, FwType
  <2>3. QED
    BY <1>1, <1>2, <1>3, <1>5, <2>1, <2>2 DEF FwInv, FwType
<1>10. Settled(e)' /\ \A o \in FbEvents : Settled(o) => Settled(o)'
  BY <1>2, <1>3, <1>5, <1>6 DEF Settled
<1>11. ASSUME NEW o \in visible
       PROVE  \/ Settled(o)' \/ o \in after.todo
              \/ \A x \in after.todo \cup {after.last} : x < o
  <2>1. Settled(o) \/ o \in q.todo \/ \A x \in q.todo \cup {q.last} : x < o
    BY <1>2 DEF FwInv, q
  <2>2. QED
    BY <1>1, <1>3, <1>4, <1>7, <1>10, <2>1
<1>12. \A x \in after.todo : after.last < x
  <2>1. \A x \in q.todo : x \in Nat
    BY <1>3, EventsAre
  <2>2. \A x \in after.todo : e < x /\ q.last < x
    BY <1>1, <1>3, <1>7, <2>1
  <2>3. QED
    BY <1>4, <1>7, <2>2
<1>13. \A o \in visible' : Settled(o)' \/ cursor' < o
  BY <1>2, <1>3, <1>10 DEF FwInv
<1>14. ASSUME NEW p \in Processors, run'[p] # NoRun, NEW o \in visible
       PROVE  \/ Settled(o)' \/ o \in run'[p].todo
              \/ \A x \in run'[p].todo \cup {run'[p].last} : x < o
  <2>1. CASE p = r
    BY <1>8, <1>11, <2>1
  <2>2. CASE p # r
    <3>1. run'[p] = run[p]
      BY <1>8, <2>2
    <3>2. Settled(o) \/ o \in run[p].todo \/ \A x \in run[p].todo \cup {run[p].last} : x < o
      BY <1>14, <3>1 DEF FwInv
    <3>3. QED
      BY <1>3, <1>10, <3>1, <3>2
  <2>3. QED
    BY <2>1, <2>2
<1>15. QED
  BY <1>2, <1>8, <1>9, <1>12, <1>13, <1>14 DEF FwInv

\* The cursor goes to the last event the run applied.
LEMMA PersistOk ==
  ASSUME FwInv, NEW r \in Processors, run[r] # NoRun, NEW q \in {[run[r] EXCEPT !.pc = "apply"], NoRun},
         run' = [run EXCEPT ![r] = q], cursor' \in {cursor, run[r].last},
         UNCHANGED <<visible, applied, late, deferred>>
  PROVE  FwInv'
<1>1. run[r] \in FbRuns
  BY DEF FwInv, FwType
<1>2. q \in FbRuns /\ (q = NoRun \/ (q.todo = run[r].todo /\ q.last = run[r].last))
  BY <1>1, NoRunOk DEF FbRuns
<1>3. \A o \in Processors : run'[o] = IF o = r THEN q ELSE run[o]
  BY DEF FwInv, FwType
<1>4. FwType'
  <2>1. run' \in [Processors -> FbRuns]
    BY <1>2 DEF FwInv, FwType
  <2>2. QED
    BY <1>2, <1>3, <2>1, NoRunOk DEF FwInv, FwType
<1>5. \A e : Settled(e)' <=> Settled(e)
  BY DEF Settled
<1>6. ASSUME NEW e \in visible PROVE Settled(e) \/ run[r].last < e
  BY DEF FwInv
<1>7. \A e \in visible : Settled(e) \/ cursor' < e
  BY <1>6 DEF FwInv
<1>8. QED
  BY <1>2, <1>3, <1>4, <1>5, <1>7, NoRunOk DEF FwInv

LEMMA FwStepOk == FwInv /\ [FwNext]_fwVars => FwInv'
<1> SUFFICES ASSUME FwInv, [FwNext]_fwVars PROVE FwInv'
  OBVIOUS
<1>1. CASE UNCHANGED fwVars
  BY <1>1 DEF fwVars, FwInv, FwType, Settled
<1>2. ASSUME NEW e \in FbEvents, NEW mirror \in BOOLEAN, Record(e, mirror) PROVE FwInv'
  BY <1>2, RecordOk
<1>3. ASSUME NEW r \in Processors, NEW since \in {0, 2}, BeginRun(r, since) PROVE FwInv'
  BY <1>3, BeginRunOk
<1>4. ASSUME NEW r \in Processors, RunStep(r) \/ Stop(r) PROVE FwInv'
  <2>1. CASE ApplyEvent(r)
    BY <2>1, ApplyEventOk
  <2>2. CASE Flush(r)
    <3>1. run[r] # NoRun /\ run' = [run EXCEPT ![r] = [run[r] EXCEPT !.pc = "apply"]]
      BY <2>2 DEF Flush, NoRun
    <3>2. QED
      BY <2>2, <3>1, PersistOk DEF Flush
  <2>3. CASE EndRun(r)
    <3>1. run[r] # NoRun
      BY <2>3 DEF EndRun, NoRun
    <3>2. QED
      BY <2>3, <3>1, PersistOk DEF EndRun
  <2>4. CASE Stop(r)
    BY <2>4, PersistOk DEF Stop
  <2>5. QED
    BY <1>4, <2>1, <2>2, <2>3, <2>4 DEF RunStep
<1>5. CASE Penalize
  BY <1>5 DEF Penalize, FwInv, FwType, Settled
<1>6. QED
  BY <1>1, <1>2, <1>3, <1>4, <1>5 DEF FwNext

\* For any number of events and of processes that may run process_feedback at once: an
\* event the cursor has passed was applied, was committed after a run had read beyond
\* it, or was left out by since - however runs overlap, stop and set the cursor back.
THEOREM NoFeedbackIsSkipped == FwSpec => []NothingSkipped
<1>1. FwInv => NothingSkipped
  <2> SUFFICES ASSUME FwInv, NEW e \in visible, applied[e] = 0, e <= cursor PROVE e \in late \cup deferred
    BY DEF NothingSkipped
  <2>1. cursor \in Nat /\ e \in Nat
    BY EventsAre DEF FwInv, FwType
  <2>2. ~(cursor < e)
    BY <2>1
  <2>3. QED
    BY <2>2 DEF FwInv, Settled
<1>2. QED
  BY <1>1, FwInitOk, FwStepOk, PTL DEF FwSpec

-----------------------------------------------------------------------------
(***************************************************************************)
(* The session indexes. A call puts its chunks into the dictionary one by  *)
(* one: what that makes of it is followed along a least counterexample.    *)
(***************************************************************************)

\* The dictionary has one entry under a key, and its indexes are numbers.
Once(b) ==
  /\ \A e, f \in b : e.chunk.sid = f.chunk.sid /\ e.chunk.idx = f.chunk.idx => e = f
  /\ \A e \in b : e.chunk.idx \in Nat

Own(C, s) == {c \in C : c.sid = s}

\* The chunks of a call numbered below n, with their dates, in place of what was there.
Written(C, s, texts, n) == {Chunk(s, i, texts[i + 1], CreatedAt(C, s, i)) : i \in 0..(n - 1)}

SnInv == IndexesAgree /\ Once(bucket)

\* A non-empty set of naturals has a least element.
LEMMA LeastOf ==
    ASSUME NEW S \in SUBSET Nat, S # {}
    PROVE  \E x \in S : \A y \in S : x <= y
<1>1. PICK x \in S : \A y \in S : ~(<<y, x>> \in OpToRel(<, Nat))
  BY WFMin, NatLessThanWellFounded
<1>2. ASSUME NEW y \in S, y < x PROVE FALSE
  <2>1. <<y, x>> \in Nat \X Nat /\ <<y, x>>[1] = y /\ <<y, x>>[2] = x
    BY <1>2
  <2>2. <<y, x>> \in OpToRel(<, Nat)
    BY <2>1, <1>2 DEF OpToRel
  <2>3. QED
    BY <1>1, <2>2
<1>3. QED
  BY <1>2

\* What is left of a request is a finite list of chunks.
LEMMA TrimmedIsList ==
    ASSUME NEW m \in Nat, NEW chunks \in [1..m -> ChunkTexts]
    PROVE  Len(Trimmed(chunks)) \in Nat
<1> DEFINE kept == {i \in 1..Len(chunks) : i <= ChunksPerCall /\ WordsOf[chunks[i]] # {}}
           nth(n) == CHOOSE i \in kept : Cardinality({j \in kept : j <= i}) = n
           N == Cardinality(kept)
<1>1. kept \subseteq 1..m
  OBVIOUS
<1>2. N \in Nat
  <2> HIDE DEF kept
  <2>1. IsFiniteSet(1..m)
    <3>1. 1 \in Int /\ m \in Int
      OBVIOUS
    <3>2. QED
      BY <3>1, FS_Interval
  <2>2. IsFiniteSet(kept)
    BY <1>1, <2>1, FS_Subset
  <2>3. QED
    BY <2>2, FS_CardinalityType
<1>3. Trimmed(chunks) = [n \in 1..N |-> chunks[nth(n)]]
  BY DEF Trimmed
<1> HIDE DEF N, nth
<1>4. QED
  BY <1>2, <1>3

\* One chunk put into the dictionary: of the session written it has what it had, with
\* that chunk in place of the one under its index; of the others nothing is new.
LEMMA WriteOk ==
    ASSUME NEW b, Once(b), NEW s, NEW i \in Nat, NEW text, NEW created
    PROVE  LET r == Write(b, s, i, text, created)
           IN  /\ Once(r)
               /\ \A e \in r : e.chunk.sid # s => e \in b
               /\ Own(Contents(r), s) = {d \in Own(Contents(b), s) : d.idx # i}
                                          \cup {Chunk(s, i, text, created)}
<1> DEFINE c == Chunk(s, i, text, created)
           new == Entry(c, LastPlace(b) + 1)
           grown == b \cup {new}
           old == Filed(b, s, i)
           r == Write(b, s, i, text, created)
<1>1. c.sid = s /\ c.idx = i /\ new.chunk = c
  BY DEF Chunk, Entry
<1>2. CASE old # {}
  <2>1. PICK o \in old : TRUE
    BY <1>2
  <2>2. old = {o} /\ o \in b /\ o.chunk.sid = s /\ o.chunk.idx = i
    BY <2>1 DEF Once, Filed
  <2> DEFINE p == Entry(c, o.place)
  <2>3. p.chunk = c
    BY DEF Entry
  <2>4. r = (b \ {o}) \cup {p}
    BY <1>2, <2>2 DEF Write
  <2> HIDE DEF r, p, old, c
  <2>5. \A e \in b \ {o} : ~(e.chunk.sid = s /\ e.chunk.idx = i)
    BY <2>2 DEF Once
  <2>6. Once(r)
    BY <1>1, <2>3, <2>4, <2>5 DEF Once
  <2>7. \A e \in r : e.chunk.sid # s => e \in b
    BY <1>1, <2>3, <2>4
  <2>8. Own(Contents(r), s) = {d \in Own(Contents(b), s) : d.idx # i} \cup {c}
    <3>1. ASSUME NEW d \in Own(Contents(r), s)
          PROVE  d \in {x \in Own(Contents(b), s) : x.idx # i} \cup {c}
      BY <2>3, <2>4, <2>5 DEF Own, Contents
    <3>2. ASSUME NEW d \in Own(Contents(b), s), d.idx # i PROVE d \in Own(Contents(r), s)
      <4>1. PICK e \in b : e.chunk = d /\ d.sid = s
        BY DEF Own, Contents
      <4>2. e # o
        BY <2>2, <3>2, <4>1
      <4>3. QED
        BY <2>4, <4>1, <4>2 DEF Own, Contents
    <3>3. c \in Own(Contents(r), s)
      BY <1>1, <2>3, <2>4 DEF Own, Contents
    <3>4. QED
      BY <3>1, <3>2, <3>3
  <2>9. QED
    BY <2>6, <2>7, <2>8 DEF r, c
<1>3. CASE old = {}
  <2>1. r \subseteq grown /\ \A e \in grown : e.chunk.sid = s => e \in r
    BY <1>3 DEF Write, Victim
  <2>2. \A e \in b : ~(e.chunk.sid = s /\ e.chunk.idx = i)
    BY <1>3 DEF Filed
  <2> HIDE DEF r, new, old, c
  <2>3. Once(r)
    BY <1>1, <2>1, <2>2 DEF Once
  <2>4. \A e \in r : e.chunk.sid # s => e \in b
    BY <1>1, <2>1
  <2>5. Own(Contents(r), s) = {d \in Own(Contents(b), s) : d.idx # i} \cup {c}
    <3>1. ASSUME NEW d \in Own(Contents(r), s)
          PROVE  d \in {x \in Own(Contents(b), s) : x.idx # i} \cup {c}
      BY <1>1, <2>1, <2>2 DEF Own, Contents
    <3>2. ASSUME NEW d \in Own(Contents(b), s) PROVE d \in Own(Contents(r), s)
      BY <2>1 DEF Own, Contents
    <3>3. c \in Own(Contents(r), s)
      BY <1>1, <2>1 DEF Own, Contents
    <3>4. QED
      BY <3>1, <3>2, <3>3
  <2>6. QED
    BY <2>3, <2>4, <2>5 DEF r, c
<1>4. QED
  BY <1>2, <1>3

\* The dictionary b after the first n chunks of a call that found b0.
PutSoFar(b0, b, s, texts, n) ==
  /\ Once(b)
  /\ \A e \in b : e.chunk.sid # s => e \in b0
  /\ Own(Contents(b), s) = Written(Contents(b0), s, texts, n)
                             \cup {d \in Own(Contents(b0), s) : d.idx >= n}

LEMMA PutOneMore ==
    ASSUME NEW b0, Once(b0), NEW b, NEW s, NEW texts, NEW n \in Nat,
           PutSoFar(b0, b, s, texts, n)
    PROVE  PutSoFar(b0, PutChunk(b, s, n, texts[n + 1]), s, texts, n + 1)
<1> DEFINE C0 == Contents(b0)
           made == CreatedAt(Contents(b), s, n)
           r == PutChunk(b, s, n, texts[n + 1])
           later == {d \in Own(C0, s) : d.idx >= n}
<1>1. \A d \in C0 : d.idx \in Nat
  BY DEF Once, Contents
<1>2. \A d \in Written(C0, s, texts, n) : d.sid = s /\ d.idx \in Nat /\ d.idx < n
  BY DEF Written, Chunk
<1>3. Own(Contents(b), s) = Written(C0, s, texts, n) \cup later
  BY DEF PutSoFar
<1>4. Under(Contents(b), s, n) = Under(C0, s, n)
  <2> HIDE DEF C0
  <2>1. \A d : d \in Under(Contents(b), s, n) <=> d \in Own(Contents(b), s) /\ d.idx = n
    BY DEF Under, Own
  <2>2. \A d : d \in Under(C0, s, n) <=> d \in later /\ d.idx = n
    BY <1>1 DEF Under, Own
  <2>3. \A d \in later : d \in Own(Contents(b), s)
    BY <1>3
  <2>4. \A d \in Own(Contents(b), s) : d.idx = n => d \in later
    <3> HIDE DEF later
    <3>1. QED
      BY <1>2, <1>3
  <2> HIDE DEF later
  <2>5. \A d : d \in Under(Contents(b), s, n) <=> d \in Under(C0, s, n)
    BY <2>1, <2>2, <2>3, <2>4
  <2>6. QED
    BY <2>5 DEF Under
<1>5. made = CreatedAt(C0, s, n)
  BY <1>4 DEF CreatedAt
<1>6. r = Write(b, s, n, texts[n + 1], made)
  BY DEF PutChunk
<1> DEFINE c == Chunk(s, n, texts[n + 1], CreatedAt(C0, s, n))
<1>7. /\ Once(r)
      /\ \A e \in r : e.chunk.sid # s => e \in b
      /\ Own(Contents(r), s) = {d \in Own(Contents(b), s) : d.idx # n} \cup {c}
  <2> HIDE DEF r, made, C0
  <2>1. Once(b)
    BY DEF PutSoFar
  <2>2. QED
    BY <1>5, <1>6, <2>1, WriteOk
<1>8. Written(C0, s, texts, n + 1) = Written(C0, s, texts, n) \cup {c}
  <2> HIDE DEF C0
  <2>1. 0..((n + 1) - 1) = 0..(n - 1) \cup {n}
    OBVIOUS
  <2>2. QED
    BY <2>1 DEF Written
<1> HIDE DEF r, made, C0, c
<1>9. {d \in Own(C0, s) : d.idx >= n + 1} = {d \in later : d.idx # n}
  BY <1>1 DEF Own
<1> HIDE DEF later
<1>10. Own(Contents(r), s) = Written(C0, s, texts, n + 1) \cup {d \in Own(C0, s) : d.idx >= n + 1}
  <2>1. \A d \in Written(C0, s, texts, n) : d.idx # n
    BY <1>2
  <2>2. QED
    BY <1>3, <1>7, <1>8, <1>9, <2>1
<1>11. QED
  BY <1>7, <1>10 DEF PutSoFar, r, C0

\* The chunks of a call, one after another.
LEMMA PutAllOk ==
    ASSUME NEW b0, Once(b0), NEW s, NEW texts, Len(texts) \in Nat
    PROVE  PutSoFar(b0, PutAll(b0, s, texts), s, texts, Len(texts))
<1> DEFINE N == Len(texts)
           Puts(g, m) == g = [n \in 0..m |-> IF n = 0 THEN b0
                                             ELSE PutChunk(g[n-1], s, n - 1, texts[n])]
           Bad == {m \in 0..N : ~\E g : Puts(g, m)}
<1>1. N \in Nat
  OBVIOUS
<1>2. Bad = {}
  <2> SUFFICES ASSUME Bad # {} PROVE FALSE
    OBVIOUS
  <2>1. PICK m \in Bad : \A y \in Bad : m <= y
    <3>1. Bad \in SUBSET Nat
      BY <1>1
    <3> HIDE DEF Bad
    <3>2. QED
      BY <3>1, LeastOf
  <2>2. m \in 0..N /\ ~\E g : Puts(g, m)
    BY <2>1
  <2>3. CASE m = 0
    <3> DEFINE g == [n \in 0..0 |-> b0]
    <3>1. g = [n \in 0..0 |-> IF n = 0 THEN b0 ELSE PutChunk(g[n-1], s, n - 1, texts[n])]
      OBVIOUS
    <3>2. QED
      BY <3>1, <2>2, <2>3
  <2>4. CASE m # 0
    <3>1. m - 1 \in 0..N /\ ~(m <= m - 1)
      BY <1>1, <2>2, <2>4
    <3>2. m - 1 \notin Bad
      <4> HIDE DEF Bad
      <4>1. QED
        BY <2>1, <3>1
    <3>3. PICK h : Puts(h, m - 1)
      BY <3>1, <3>2
    <3> DEFINE g == [n \in 0..m |-> IF n = m THEN PutChunk(h[m-1], s, m - 1, texts[m]) ELSE h[n]]
    <3>4. ASSUME NEW n \in 0..m
          PROVE  g[n] = IF n = 0 THEN b0 ELSE PutChunk(g[n-1], s, n - 1, texts[n])
      <4>1. CASE n = m
        <5>1. g[n] = PutChunk(h[m-1], s, m - 1, texts[m])
          BY <4>1
        <5>2. g[n-1] = h[m-1]
          BY <1>1, <2>2, <2>4, <4>1
        <5>3. QED
          BY <5>1, <5>2, <4>1, <2>4
      <4>2. CASE n # m
        <5>1. n \in 0..(m-1) /\ g[n] = h[n]
          BY <1>1, <2>2, <4>2
        <5>2. h[n] = IF n = 0 THEN b0 ELSE PutChunk(h[n-1], s, n - 1, texts[n])
          BY <3>3, <5>1
        <5>3. n # 0 => n - 1 \in 0..m /\ n - 1 # m
          BY <1>1, <2>2, <5>1
        <5>4. n # 0 => g[n-1] = h[n-1]
          BY <5>3
        <5>5. QED
          BY <5>1, <5>2, <5>4
      <4>3. QED
        BY <4>1, <4>2
    <3>5. Puts(g, m)
      BY <3>4
    <3>6. QED
      BY <3>5, <2>2
  <2>5. QED
    BY <2>3, <2>4
<1>3. PICK f : Puts(f, N)
  BY <1>1, <1>2
<1> DEFINE after == CHOOSE g : Puts(g, N)
<1>4. PutAll(b0, s, texts) = after[N]
  BY DEF PutAll
<1>5. Puts(after, N)
  BY <1>3
<1> DEFINE Off == {m \in 0..N : ~PutSoFar(b0, after[m], s, texts, m)}
<1>6. \A n \in 0..N : after[n] = IF n = 0 THEN b0 ELSE PutChunk(after[n-1], s, n - 1, texts[n])
  <2> HIDE DEF after
  <2>1. QED
    BY <1>5
<1> HIDE DEF after
<1>7. PutSoFar(b0, b0, s, texts, 0)
  <2>1. Written(Contents(b0), s, texts, 0) = {}
    BY DEF Written
  <2>2. Own(Contents(b0), s) = {d \in Own(Contents(b0), s) : d.idx >= 0}
    BY DEF Once, Own, Contents
  <2>3. QED
    BY <2>1, <2>2 DEF PutSoFar
<1>8. Off = {}
  <2> SUFFICES ASSUME Off # {} PROVE FALSE
    OBVIOUS
  <2>1. PICK m \in Off : \A y \in Off : m <= y
    <3>1. Off \in SUBSET Nat
      BY <1>1
    <3> HIDE DEF Off
    <3>2. QED
      BY <3>1, LeastOf
  <2>2. m \in 0..N /\ ~PutSoFar(b0, after[m], s, texts, m)
    BY <2>1
  <2>3. m # 0
    BY <1>6, <1>7, <2>2
  <2>4. m - 1 \in 0..N /\ ~(m <= m - 1) /\ m - 1 \in Nat /\ (m - 1) + 1 = m
    BY <1>1, <2>2, <2>3
  <2>5. PutSoFar(b0, after[m-1], s, texts, m - 1)
    BY <2>1, <2>4
  <2>6. after[m] = PutChunk(after[m-1], s, m - 1, texts[(m - 1) + 1])
    BY <1>6, <2>2, <2>3, <2>4
  <2>7. PutSoFar(b0, after[m], s, texts, (m - 1) + 1)
    BY <2>4, <2>5, <2>6, PutOneMore
  <2>8. QED
    BY <2>2, <2>4, <2>7
<1>9. QED
  BY <1>1, <1>4, <1>8

-----------------------------------------------------------------------------
\* A call of index_session: the dictionary keeps one entry under a key, and if nothing
\* was evicted it holds what the table holds.
LEMMA IndexOk ==
    ASSUME SnInv, NEW s, NEW m \in Nat, NEW chunks \in [1..m -> ChunkTexts],
           IndexSession(s, chunks)
    PROVE  SnInv'
<1> DEFINE texts == Trimmed(chunks)
           N == Len(texts)
           put == PutAll(bucket, s, texts)
           C == Contents(bucket)
<1>1. N \in Nat
  BY TrimmedIsList
<1>2. /\ bucket' = {e \in put : e.chunk.sid # s \/ e.chunk.idx < N}
      /\ chunkTable' = {c \in chunkTable : c.sid # s} \cup Written(chunkTable, s, texts, N)
      /\ evicted' = (evicted \/ \E c \in C : c.sid # s /\ c \notin Contents(bucket'))
  BY DEF IndexSession, IndexInMemory, SaveChunks, Written
<1> HIDE DEF texts
<1>3. PutSoFar(bucket, put, s, texts, N)
  BY <1>1, PutAllOk DEF SnInv
<1> HIDE DEF put, N
<1>4. Once(bucket')
  BY <1>2, <1>3 DEF PutSoFar, Once
<1>5. Own(Contents(bucket'), s) = Written(C, s, texts, N)
  <2>1. \A d \in Written(C, s, texts, N) : d.sid = s /\ d.idx \in Nat /\ d.idx < N
    BY <1>1 DEF Written, Chunk
  <2>2. \A d \in Own(C, s) : d.idx \in Nat
    BY DEF SnInv, Once, Own, Contents
  <2>3. \A d : d \in Own(Contents(bucket'), s) <=> d \in Own(Contents(put), s) /\ d.idx < N
    BY <1>2 DEF Own, Contents
  <2>4. Own(Contents(put), s) = Written(C, s, texts, N) \cup {d \in Own(C, s) : d.idx >= N}
    BY <1>3 DEF PutSoFar
  <2> HIDE DEF C
  <2>5. QED
    BY <1>1, <2>1, <2>2, <2>3, <2>4
<1>6. ASSUME ~evicted' PROVE Contents(bucket') = chunkTable'
  <2>1. C = chunkTable /\ \A c \in C : c.sid # s => c \in Contents(bucket')
    BY <1>2, <1>6 DEF SnInv, IndexesAgree
  <2>2. \A c \in Contents(bucket') : c.sid # s => c \in C
    BY <1>2, <1>3 DEF PutSoFar, Contents
  <2>3. \A c \in Written(C, s, texts, N) : c.sid = s
    BY DEF Written, Chunk
  <2>4. \A c \in Contents(bucket') : c.sid = s <=> c \in Written(C, s, texts, N)
    BY <1>5, <2>3 DEF Own
  <2>5. \A c \in Written(C, s, texts, N) : c \in Contents(bucket')
    BY <1>5 DEF Own
  <2> HIDE DEF C
  <2>6. QED
    BY <1>2, <2>1, <2>2, <2>4, <2>5
<1>7. QED
  BY <1>4, <1>6 DEF SnInv, IndexesAgree

LEMMA SnStepOk ==
    ASSUME SnInv, [SnNext]_snVars
    PROVE  SnInv'
<1>1. ASSUME UNCHANGED <<bucket, chunkTable, evicted>> PROVE SnInv'
  BY <1>1 DEF SnInv, IndexesAgree, Once, Contents
<1>2. CASE UNCHANGED snVars
  BY <1>1, <1>2 DEF snVars
<1>3. ASSUME NEW s \in SessionIds,
             NEW chunks \in UNION {[1..n -> ChunkTexts] : n \in 1..(ChunksPerCall + 1)},
             IndexSession(s, chunks)
      PROVE  SnInv'
  <2>1. PICK n \in 1..(ChunksPerCall + 1) : chunks \in [1..n -> ChunkTexts]
    OBVIOUS
  <2>2. n \in Nat
    BY SessionsAssumption
  <2>3. QED
    BY <1>3, <2>1, <2>2, IndexOk
<1>4. ASSUME NEW q \in SUBSET Words, SearchSessions(q) PROVE SnInv'
  BY <1>1, <1>4 DEF SearchSessions
<1>5. CASE CleanupSessions
  BY <1>5 DEF CleanupSessions, ChunkExpired, SnInv, IndexesAgree, Once, Contents
<1>6. CASE SessionDayPasses
  BY <1>1, <1>6 DEF SessionDayPasses
<1>7. QED
  BY <1>2, <1>3, <1>4, <1>5, <1>6 DEF SnNext

\* For any number of sessions, any requests, any cap and any life: until the dictionary
\* evicts, it and the table hold the same chunks with the same texts and dates, whatever
\* sessions are written again with more or fewer chunks and however clean-ups fall.
THEOREM SessionIndexesAgree == SnSpec => []IndexesAgree
<1>1. SnInit => SnInv
  BY DEF SnInit, SnInv, IndexesAgree, Once, Contents
<1>2. SnInv /\ [SnNext]_snVars => SnInv'
  BY SnStepOk
<1>3. SnInv => IndexesAgree
  BY DEF SnInv
<1>4. QED
  BY <1>1, <1>2, <1>3, PTL DEF SnSpec

-----------------------------------------------------------------------------
(***************************************************************************)
(* The documentation validator. Its memory is the stamp among an entry's   *)
(* doc-* tags: the tags written after it must not push it out, and what a  *)
(* batch judged must still be unstamped when the verdict is applied.       *)
(***************************************************************************)
IsList(d) == \E S : d \in Seq(S)

TagsOk(d) == IsList(d) /\ \A i \in 1 .. Len(d) : d[i].kind \in Stamps => d[i].n \in Nat

\* No stamp of the last Interval days.
RestedBy(d, date) == \A i \in 1 .. Len(d) : d[i].kind \in Stamps => d[i].n + Interval <= date

\* The tag is there, and at most j were written after it.
FreshAt(d, tag, j) ==
  /\ IsList(d) /\ Len(d) <= MaxDocTags
  /\ \E i \in 1 .. Len(d) : d[i] = tag /\ Len(d) - i <= j

HasRoom(user) == user <= MaxTags - MaxDocTags

LEMMA ListLen ==
    ASSUME NEW d, IsList(d)
    PROVE  Len(d) \in Nat
BY DEF IsList

LEMMA ListAppend ==
    ASSUME NEW d, IsList(d), NEW x
    PROVE  LET e == Append(d, x)
           IN  /\ IsList(e) /\ Len(e) = Len(d) + 1 /\ e[Len(d) + 1] = x
               /\ \A i \in 1 .. Len(d) : e[i] = d[i]
<1>1. PICK S : d \in Seq(S)
  BY DEF IsList
<1> DEFINE T == S \cup {x}
           e == Append(d, x)
<1>2. d \in Seq(T)
  BY <1>1
<1>3. e \in Seq(T) /\ Len(e) = Len(d) + 1 /\ e[Len(d) + 1] = x
      /\ \A i \in 1 .. Len(d) : e[i] = d[i]
  <2> HIDE DEF T
  <2>1. x \in T
    BY DEF T
  <2>2. QED
    BY <1>2, <2>1
<1>4. QED
  BY <1>3 DEF IsList

LEMMA ListTail ==
    ASSUME NEW d, IsList(d), d # << >>
    PROVE  /\ IsList(Tail(d)) /\ Len(Tail(d)) = Len(d) - 1 /\ Len(d) \in Nat \ {0}
           /\ Head(d) = d[1]
           /\ \A i \in 1 .. Len(Tail(d)) : Tail(d)[i] = d[i + 1]
<1>1. PICK S : d \in Seq(S)
  BY DEF IsList
<1>2. Tail(d) \in Seq(S)
  BY <1>1
<1>3. QED
  BY <1>1, <1>2 DEF IsList

\* What is left without the n oldest.
LEMMA OldestGo ==
    ASSUME NEW d, IsList(d), NEW n \in Nat
    PROVE  LET e == WithoutOldest(d, n)
           IN  /\ IsList(e)
               /\ Len(e) = IF n <= Len(d) THEN Len(d) - n ELSE 0
               /\ \A i \in 1 .. Len(e) : i + n \in 1 .. Len(d) /\ e[i] = d[i + n]
<1>1. PICK S : d \in Seq(S)
  BY DEF IsList
<1> DEFINE e == WithoutOldest(d, n)
<1>2. Len(d) \in Nat
  BY ListLen
<1>3. CASE n + 1 <= Len(d)
  <2>1. \A i \in (n + 1) .. Len(d) : d[i] \in S
    BY <1>1, <1>3
  <2>2. /\ e \in Seq(S) /\ Len(e) = Len(d) - (n + 1) + 1
        /\ \A i \in 1 .. (Len(d) - (n + 1) + 1) : e[i] = d[(n + 1) + i - 1]
    BY <1>1, <1>2, <1>3 DEF WithoutOldest
  <2> HIDE DEF e
  <2>3. QED
    BY <1>2, <1>3, <2>2 DEF IsList, e
<1>4. CASE ~(n + 1 <= Len(d))
  <2>1. e \in Seq(S) /\ Len(e) = 0
    BY <1>1, <1>2, <1>4 DEF WithoutOldest
  <2> HIDE DEF e
  <2>2. QED
    BY <1>2, <1>4, <2>1 DEF IsList, e
<1>5. QED
  BY <1>3, <1>4

\* Adding a tag keeps the tags well formed.
LEMMA ManageTags ==
    ASSUME NEW d, TagsOk(d), NEW user \in Int, NEW new, new.kind \in Stamps => new.n \in Nat
    PROVE  TagsOk(ManageDocTags(user, d, new))
<1> DEFINE few == WithoutOldest(d, AtLeast0(Len(d) - MaxDocTags + 1))
           room == WithoutOldest(few, AtLeast0(user + Len(few) - MaxTags + 1))
<1>1. MaxDocTags \in Nat /\ MaxTags \in Nat /\ Len(d) \in Nat
  BY DvAssumption, ListLen DEF TagsOk
<1>2. ASSUME NEW e, TagsOk(e), NEW n \in Nat PROVE TagsOk(WithoutOldest(e, n))
  BY <1>2, OldestGo DEF TagsOk
<1>3. TagsOk(few)
  <2>1. AtLeast0(Len(d) - MaxDocTags + 1) \in Nat
    BY <1>1 DEF AtLeast0
  <2>2. QED
    BY <1>2, <2>1
<1>4. TagsOk(room)
  <2>1. Len(few) \in Nat
    BY <1>3, ListLen DEF TagsOk
  <2> HIDE DEF few
  <2>2. AtLeast0(user + Len(few) - MaxTags + 1) \in Nat
    BY <1>1, <2>1 DEF AtLeast0
  <2>3. QED
    BY <1>2, <1>3, <2>2
<1>5. TagsOk(Append(room, new))
  <2> HIDE DEF room
  <2>1. Len(room) \in Nat
    BY <1>4, ListLen DEF TagsOk
  <2>2. QED
    BY <1>4, <2>1, ListAppend DEF TagsOk
<1>6. ManageDocTags(user, d, new) \in {d, room, Append(room, new)}
  BY DEF ManageDocTags
<1> HIDE DEF room
<1>7. QED
  BY <1>4, <1>5, <1>6

\* An entry with room has its new tag at the end of few enough.
LEMMA NewTagGoesIn ==
    ASSUME NEW d, IsList(d), NEW user \in Int, HasRoom(user), NEW new,
           ~\E i \in 1 .. Len(d) : d[i] = new
    PROVE  LET n == AtLeast0(Len(d) - MaxDocTags + 1)
           IN  /\ n \in Nat
               /\ ManageDocTags(user, d, new) = Append(WithoutOldest(d, n), new)
               /\ Len(WithoutOldest(d, n)) < MaxDocTags
<1> DEFINE n == AtLeast0(Len(d) - MaxDocTags + 1)
           few == WithoutOldest(d, n)
           m == AtLeast0(user + Len(few) - MaxTags + 1)
           room == WithoutOldest(few, m)
<1>1. MaxDocTags \in Nat \ {0} /\ MaxTags \in Nat /\ Len(d) \in Nat
  BY DvAssumption, ListLen
<1>2. n \in Nat /\ Len(d) - n < MaxDocTags
  BY <1>1 DEF AtLeast0
<1>3. IsList(few) /\ Len(few) = IF n <= Len(d) THEN Len(d) - n ELSE 0
  <2> HIDE DEF n
  <2>1. QED
    BY <1>2, OldestGo
<1>4. Len(few) \in Nat /\ Len(few) < MaxDocTags
  <2> HIDE DEF n, few
  <2>1. QED
    BY <1>1, <1>2, <1>3
<1>5. m = 0
  <2> HIDE DEF few
  <2>1. user + Len(few) - MaxTags + 1 \in Int /\ ~(user + Len(few) - MaxTags + 1 > 0)
    BY <1>1, <1>4 DEF HasRoom
  <2>2. \A x \in Int : ~(x > 0) => AtLeast0(x) = 0
    BY DEF AtLeast0
  <2>3. QED
    BY <2>1, <2>2
<1>6. room = few
  <2> HIDE DEF few
  <2>1. few = SubSeq(few, 1, Len(few))
    <3>1. PICK S : few \in Seq(S)
      BY <1>3 DEF IsList
    <3>2. QED
      BY <3>1
  <2>2. QED
    BY <1>5, <2>1 DEF WithoutOldest
<1>7. user + Len(room) < MaxTags
  <2> HIDE DEF room, few
  <2>1. QED
    BY <1>1, <1>4, <1>6 DEF HasRoom
<1>8. ManageDocTags(user, d, new) = Append(room, new)
  BY <1>7 DEF ManageDocTags
<1>9. QED
  BY <1>2, <1>4, <1>6, <1>8

LEMMA StampGoesIn ==
    ASSUME NEW d, IsList(d), NEW user \in Int, HasRoom(user), NEW tag,
           ~\E i \in 1 .. Len(d) : d[i] = tag
    PROVE  FreshAt(ManageDocTags(user, d, tag), tag, 0)
<1> DEFINE n == AtLeast0(Len(d) - MaxDocTags + 1)
           few == WithoutOldest(d, n)
<1>1. n \in Nat /\ ManageDocTags(user, d, tag) = Append(few, tag) /\ Len(few) < MaxDocTags
  BY NewTagGoesIn
<1> HIDE DEF n
<1>2. IsList(few)
  BY <1>1, OldestGo
<1> HIDE DEF few
<1>3. Len(few) \in Nat /\ MaxDocTags \in Nat
  BY <1>2, ListLen, DvAssumption
<1>4. /\ IsList(Append(few, tag)) /\ Len(Append(few, tag)) = Len(few) + 1
      /\ Append(few, tag)[Len(few) + 1] = tag
  BY <1>2, ListAppend
<1>5. QED
  BY <1>1, <1>3, <1>4 DEF FreshAt

LEMMA RefGoesIn ==
    ASSUME NEW d, NEW tag, NEW j \in Nat, j + 1 < MaxDocTags, FreshAt(d, tag, j),
           NEW user \in Int, HasRoom(user), NEW ref
    PROVE  FreshAt(ManageDocTags(user, d, ref), tag, j + 1)
<1>1. IsList(d) /\ Len(d) \in Nat /\ MaxDocTags \in Nat /\ Len(d) <= MaxDocTags
  BY ListLen, DvAssumption DEF FreshAt
<1>2. PICK i \in 1 .. Len(d) : d[i] = tag /\ Len(d) - i <= j
  BY DEF FreshAt
<1>3. CASE \E x \in 1 .. Len(d) : d[x] = ref
  <2>1. ManageDocTags(user, d, ref) = d
    BY <1>3 DEF ManageDocTags
  <2>2. QED
    BY <1>1, <1>2, <2>1 DEF FreshAt
<1>4. CASE ~\E x \in 1 .. Len(d) : d[x] = ref
  <2> DEFINE n == AtLeast0(Len(d) - MaxDocTags + 1)
             few == WithoutOldest(d, n)
             e == Append(few, ref)
  <2>1. n \in Nat /\ ManageDocTags(user, d, ref) = e /\ Len(few) < MaxDocTags
    BY <1>1, <1>4, NewTagGoesIn
  <2>2. n <= 1 /\ n < i /\ n <= Len(d)
    BY <1>1, <1>2 DEF AtLeast0
  <2> HIDE DEF n
  <2>3. /\ IsList(few) /\ Len(few) = Len(d) - n
        /\ \A x \in 1 .. Len(few) : few[x] = d[x + n]
    BY <1>1, <2>1, <2>2, OldestGo
  <2> HIDE DEF few
  <2>4. IsList(e) /\ Len(e) = Len(few) + 1 /\ \A x \in 1 .. Len(few) : e[x] = few[x]
    BY <2>3, ListAppend
  <2> HIDE DEF e
  <2>5. i - n \in 1 .. Len(few)
    BY <1>1, <1>2, <2>1, <2>2, <2>3
  <2>6. e[i - n] = tag
    <3>1. few[i - n] = d[(i - n) + n]
      BY <2>3, <2>5
    <3>2. (i - n) + n = i
      BY <1>1, <2>1
    <3>3. QED
      BY <1>2, <2>4, <2>5, <3>1, <3>2
  <2>7. Len(e) <= MaxDocTags /\ i - n \in 1 .. Len(e) /\ Len(e) - (i - n) <= j + 1
    BY <1>1, <1>2, <2>1, <2>2, <2>3, <2>4, <2>5
  <2>8. QED
    BY <2>1, <2>4, <2>6, <2>7 DEF FreshAt
<1>5. QED
  BY <1>3, <1>4


\* The tags a verdict leaves: well formed, and on an entry with room the new stamp is there.
LEMMA TaggedOk ==
    ASSUME NEW d, TagsOk(d), NEW user \in Int, NEW ev, Len(ev.refs) \in Nat,
           batch.stamp \in Nat, RestedBy(d, batch.stamp)
    PROVE  /\ TagsOk(Tagged(user, d, ev))
           /\ HasRoom(user) /\ Interval # 0 =>
                \E i \in 1 .. Len(Tagged(user, d, ev)) :
                   LET t == Tagged(user, d, ev)[i] IN t.kind \in Stamps /\ t.n = batch.stamp
<1> DEFINE stamp == CASE ev.status = "validated" -> "doc-validated"
                      [] ev.status = "flagged"   -> "doc-contradicted"
                      [] OTHER -> "doc-checked"
           tag == DocTag(stamp, batch.stamp)
           N == IF ev.status # "validated" THEN 0
                ELSE IF Len(ev.refs) < MaxRefTags THEN Len(ev.refs) ELSE MaxRefTags
           first == ManageDocTags(user, d, tag)
           next(x, i) == ManageDocTags(user, x, DocTag("doc-ref", ev.refs[i]))
           Writes(g, m) == g = [i \in 0 .. m |-> IF i = 0 THEN first ELSE next(g[i - 1], i)]
           Bad == {m \in 0 .. N : ~\E g : Writes(g, m)}
<1>1. /\ N \in Nat /\ N < MaxDocTags /\ MaxDocTags \in Nat /\ Interval \in Nat
      /\ stamp \in Stamps /\ tag.kind = stamp /\ tag.n = batch.stamp
  <2>1. MaxRefTags \in Nat /\ MaxDocTags \in Nat \ {0} /\ MaxRefTags < MaxDocTags
        /\ Interval \in Nat
    BY DvAssumption
  <2>2. stamp \in Stamps
    BY DEF Stamps
  <2>3. tag.kind = stamp /\ tag.n = batch.stamp
    BY DEF DocTag
  <2> HIDE DEF tag, stamp
  <2>4. QED
    BY <2>1, <2>2, <2>3
<1> HIDE DEF stamp, tag, N, first, next
<1>2. Bad = {}
  <2> SUFFICES ASSUME Bad # {} PROVE FALSE
    OBVIOUS
  <2>1. PICK m \in Bad : \A y \in Bad : m <= y
    <3>1. Bad \in SUBSET Nat
      BY <1>1
    <3> HIDE DEF Bad
    <3>2. QED
      BY <3>1, LeastOf
  <2>2. m \in 0..N /\ ~\E g : Writes(g, m)
    BY <2>1
  <2>3. CASE m = 0
    <3> DEFINE g == [i \in 0..0 |-> first]
    <3>1. g = [i \in 0..0 |-> IF i = 0 THEN first ELSE next(g[i-1], i)]
      OBVIOUS
    <3>2. QED
      BY <3>1, <2>2, <2>3
  <2>4. CASE m # 0
    <3>1. m - 1 \in 0..N /\ ~(m <= m - 1)
      BY <1>1, <2>2, <2>4
    <3>2. m - 1 \notin Bad
      <4> HIDE DEF Bad
      <4>1. QED
        BY <2>1, <3>1
    <3>3. PICK h : Writes(h, m - 1)
      BY <3>1, <3>2
    <3> DEFINE g == [i \in 0..m |-> IF i = m THEN next(h[m-1], m) ELSE h[i]]
    <3>4. ASSUME NEW i \in 0..m
          PROVE  g[i] = IF i = 0 THEN first ELSE next(g[i-1], i)
      <4>1. CASE i = m
        <5>1. g[i] = next(h[m-1], m)
          BY <4>1
        <5>2. g[i-1] = h[m-1]
          BY <1>1, <2>2, <2>4, <4>1
        <5>3. QED
          BY <5>1, <5>2, <4>1, <2>4
      <4>2. CASE i # m
        <5>1. i \in 0..(m-1) /\ g[i] = h[i]
          BY <1>1, <2>2, <4>2
        <5>2. h[i] = IF i = 0 THEN first ELSE next(h[i-1], i)
          BY <3>3, <5>1
        <5>3. i # 0 => i - 1 \in 0..m /\ i - 1 # m
          BY <1>1, <2>2, <5>1
        <5>4. i # 0 => g[i-1] = h[i-1]
          BY <5>3
        <5>5. QED
          BY <5>1, <5>2, <5>4
      <4>3. QED
        BY <4>1, <4>2
    <3>5. Writes(g, m)
      BY <3>4
    <3>6. QED
      BY <3>5, <2>2
  <2>5. QED
    BY <2>3, <2>4
<1>3. \E g : Writes(g, N)
  BY <1>1, <1>2
<1> DEFINE after == CHOOSE g : Writes(g, N)
<1>4. Tagged(user, d, ev) = after[N]
  BY DEF Tagged, N, first, next, tag, stamp
<1>5. Writes(after, N)
  BY <1>3
<1>6. \A i \in 0 .. N : after[i] = IF i = 0 THEN first ELSE next(after[i - 1], i)
  <2> HIDE DEF after
  <2>1. QED
    BY <1>5
<1> HIDE DEF after
<1> DEFINE Good(x, i) == TagsOk(x) /\ (HasRoom(user) /\ Interval # 0 => FreshAt(x, tag, i))
<1>7. Good(first, 0)
  <2>1. TagsOk(first)
    BY <1>1, ManageTags DEF first
  <2>2. ASSUME HasRoom(user), Interval # 0 PROVE FreshAt(first, tag, 0)
    <3>1. ASSUME NEW i \in 1 .. Len(d), d[i] = tag PROVE FALSE
      <4>1. d[i].kind \in Stamps /\ d[i].n = batch.stamp
        BY <1>1, <3>1
      <4>2. batch.stamp + Interval <= batch.stamp
        BY <4>1 DEF RestedBy
      <4>3. QED
        BY <1>1, <2>2, <4>2
    <3>2. IsList(d)
      BY DEF TagsOk
    <3>3. QED
      BY <2>2, <3>1, <3>2, StampGoesIn DEF first
  <2>3. QED
    BY <2>1, <2>2
<1>8. ASSUME NEW i \in 1 .. N, NEW x, Good(x, i - 1) PROVE Good(next(x, i), i)
  <2> DEFINE ref == DocTag("doc-ref", ev.refs[i])
  <2>1. next(x, i) = ManageDocTags(user, x, ref)
    BY DEF next
  <2>2. ref.kind \notin Stamps
    BY DEF DocTag, Stamps
  <2> HIDE DEF ref
  <2>3. TagsOk(next(x, i))
    BY <1>8, <2>1, <2>2, ManageTags
  <2>4. i - 1 \in Nat /\ (i - 1) + 1 = i /\ (i - 1) + 1 < MaxDocTags
    BY <1>1
  <2>5. ASSUME HasRoom(user), Interval # 0 PROVE FreshAt(next(x, i), tag, i)
    <3>1. FreshAt(x, tag, i - 1)
      BY <1>8, <2>5
    <3>2. FreshAt(ManageDocTags(user, x, ref), tag, (i - 1) + 1)
      BY <2>4, <2>5, <3>1, RefGoesIn
    <3>3. QED
      BY <2>1, <2>4, <3>2
  <2>6. QED
    BY <2>3, <2>5
<1> HIDE DEF Good
<1> DEFINE Off == {m \in 0..N : ~Good(after[m], m)}
<1>9. Off = {}
  <2> SUFFICES ASSUME Off # {} PROVE FALSE
    OBVIOUS
  <2>1. PICK m \in Off : \A y \in Off : m <= y
    <3>1. Off \in SUBSET Nat
      BY <1>1
    <3> HIDE DEF Off
    <3>2. QED
      BY <3>1, LeastOf
  <2>2. m \in 0..N /\ ~Good(after[m], m)
    BY <2>1
  <2>3. m # 0
    BY <1>6, <1>7, <2>2
  <2>4. m - 1 \in 0..N /\ ~(m <= m - 1) /\ m \in 1 .. N
    BY <1>1, <2>2, <2>3
  <2>5. Good(after[m-1], m - 1)
    BY <2>1, <2>4
  <2>6. after[m] = next(after[m-1], m)
    BY <1>6, <2>2, <2>3
  <2>7. QED
    BY <1>8, <2>2, <2>4, <2>5, <2>6
<1>10. Good(after[N], N)
  BY <1>1, <1>9
<1>11. QED
  BY <1>1, <1>4, <1>10 DEF Good, FreshAt


LEMMA ConfirmedIsList ==
    ASSUME NEW cl \in Seq(Subjects), NEW docs
    PROVE  Len(Confirmed(cl, docs)) \in Nat
<1> DEFINE hits == {i \in 1 .. Len(cl) : docs[cl[i]] = "confirmed"}
           nth(n) == CHOOSE i \in hits : Cardinality({j \in hits : j <= i}) = n
           N == Cardinality(hits)
<1>1. N \in Nat
  <2>1. Len(cl) \in Int /\ 1 \in Int
    OBVIOUS
  <2>2. IsFiniteSet(1 .. Len(cl))
    BY <2>1, FS_Interval
  <2>3. hits \subseteq 1 .. Len(cl)
    OBVIOUS
  <2> HIDE DEF hits
  <2>4. QED
    BY <2>2, <2>3, FS_Subset, FS_CardinalityType
<1>2. Confirmed(cl, docs) = [n \in 1 .. N |-> cl[nth(n)]]
  BY DEF Confirmed
<1> HIDE DEF N, nth
<1>3. QED
  BY <1>1, <1>2

-----------------------------------------------------------------------------
BatchFields == {"pc", "todo", "docs", "lookups", "asked", "report", "snap", "stamp"}

EntryOk(e) == DOMAIN e = {"user", "docs", "conf"} /\ TagsOk(e.docs) /\ e.user \in Int

\* The stamp of the last change is still there, or a later one.
StampKept(k) ==
  adjusted[k] # Unread /\ HasRoom(entry[k].user) /\ Interval # 0 =>
    \E i \in 1 .. Len(entry[k].docs) :
       entry[k].docs[i].kind \in Stamps /\ entry[k].docs[i].n >= adjusted[k]

\* A verdict of a batch on the key it is for, the date being that of the judgement.
VerdictOk(ev, k, date) ==
  /\ ev.key = k /\ Len(ev.refs) \in Nat
  /\ ev.status # "skipped" => RestedBy(entry[k].docs, date)

\* While it validates, a batch has dealt with the first entries and has copies of the others.
ValidateOk ==
  /\ batch.pc = "validate" =>
       /\ IsList(batch.todo) /\ IsList(batch.report)
       /\ Len(batch.report) + Len(batch.todo) = Len(Entries)
       /\ \A i \in 1 .. Len(batch.report) : VerdictOk(batch.report[i], Entries[i], today)
       /\ \A i \in 1 .. Len(batch.todo) :
            LET k == Entries[Len(batch.report) + i]
            IN  /\ batch.todo[i].key = k /\ TagsOk(batch.todo[i].docs)
                /\ entry[k].docs = batch.todo[i].docs \/ entry[k].docs = << >>

\* While it applies them, the last verdicts are left, the first of which may have been read for.
ApplyOk ==
  /\ batch.pc = "apply" =>
       /\ IsList(batch.report) /\ Len(batch.report) <= Len(Entries)
       /\ batch.stamp \in Nat /\ batch.stamp <= today
       /\ \A i \in 1 .. Len(batch.report) :
            VerdictOk(batch.report[i], Entries[Len(Entries) - Len(batch.report) + i], batch.stamp)
       /\ \A k \in DvKeys : adjusted[k] = Unread \/ adjusted[k] <= batch.stamp
  /\ batch.snap # Unread =>
       /\ batch.pc = "apply" /\ batch.report # << >> /\ Head(batch.report).status # "skipped"
       /\ EntryOk(batch.snap) /\ RestedBy(batch.snap.docs, batch.stamp)

EntriesOk ==
  /\ DOMAIN entry = DvKeys /\ DOMAIN adjusted = DvKeys
  /\ \A k \in DvKeys : /\ EntryOk(entry[k]) /\ StampKept(k)
                       /\ adjusted[k] = Unread \/ (adjusted[k] \in Nat /\ adjusted[k] <= today)

DvInv ==
  /\ today \in Nat /\ DOMAIN batch = BatchFields
  /\ EntriesOk /\ ValidateOk /\ ApplyOk

LEMMA EntriesAre ==
  /\ Len(Entries) \in Nat
  /\ \A i \in 1 .. Len(Entries) : Entries[i] \in DvKeys
  /\ \A i, j \in 1 .. Len(Entries) : Entries[i] = Entries[j] => i = j
BY DvAssumption DEF DvKeys

\* An idle batch asks for nothing.
LEMMA NoBatchOk ==
    ASSUME batch' = NoBatch
    PROVE  DOMAIN batch' = BatchFields /\ ValidateOk' /\ ApplyOk'
BY DEF NoBatch, BatchFields, ValidateOk, ApplyOk

LEMMA DvInitOk == DvInit => DvInv
<1> SUFFICES ASSUME DvInit PROVE DvInv
  OBVIOUS
<1>1. batch = NoBatch
  BY DEF DvInit
<1>2. DOMAIN batch = BatchFields /\ ValidateOk /\ ApplyOk
  BY <1>1 DEF NoBatch, BatchFields, ValidateOk, ApplyOk
<1>3. TagsOk(<< >>)
  <2>1. << >> \in Seq({}) /\ Len(<< >>) = 0
    OBVIOUS
  <2>2. QED
    BY <2>1 DEF TagsOk, IsList
<1>4. EntriesOk
  <2>1. DOMAIN entry = DvKeys /\ DOMAIN adjusted = DvKeys
    BY DEF DvInit
  <2>2. ASSUME NEW k \in DvKeys PROVE EntryOk(entry[k]) /\ adjusted[k] = Unread
    <3>1. entry[k] = [user |-> MaxTags - 1, docs |-> << >>, conf |-> Floor]
          /\ adjusted[k] = Unread
      BY DEF DvInit
    <3>2. MaxTags - 1 \in Int
      BY DvAssumption
    <3>3. QED
      BY <1>3, <3>1, <3>2 DEF EntryOk
  <2>3. QED
    BY <2>1, <2>2 DEF EntriesOk, StampKept
<1>5. QED
  BY <1>2, <1>4 DEF DvInit, DvInv

\* Nothing changed but the batch.
LEMMA EntriesKept ==
    ASSUME DvInv, UNCHANGED <<entry, today, adjusted>>
    PROVE  EntriesOk' /\ today' \in Nat
BY DEF DvInv, EntriesOk, StampKept, HasRoom

LEMMA BeginBatchOk ==
    ASSUME DvInv, BeginBatch
    PROVE  DvInv'
<1>1. EntriesOk' /\ today' \in Nat /\ UNCHANGED <<entry, today, adjusted>>
  BY EntriesKept DEF BeginBatch
<1> DEFINE copy == [i \in 1 .. Len(Entries) |-> [key |-> Entries[i], docs |-> entry[Entries[i]].docs]]
<1>2. batch' = [NoBatch EXCEPT !.pc = "validate", !.todo = copy]
  BY DEF BeginBatch
<1> HIDE DEF copy
<1>3. /\ DOMAIN batch' = BatchFields /\ batch'.pc = "validate" /\ batch'.todo = copy
      /\ batch'.report = << >> /\ batch'.snap = Unread
  BY <1>2 DEF NoBatch, BatchFields
<1>4. /\ IsList(copy) /\ Len(copy) = Len(Entries)
      /\ \A i \in 1 .. Len(Entries) : copy[i].key = Entries[i] /\ copy[i].docs = entry[Entries[i]].docs
  <2>1. copy \in Seq({copy[i] : i \in 1 .. Len(Entries)}) /\ Len(copy) = Len(Entries)
    BY EntriesAre DEF copy
  <2>2. \A i \in 1 .. Len(Entries) :
          copy[i] = [key |-> Entries[i], docs |-> entry[Entries[i]].docs]
    BY DEF copy
  <2>3. IsList(copy)
    BY <2>1 DEF IsList
  <2>4. ASSUME NEW i \in 1 .. Len(Entries)
        PROVE  copy[i].key = Entries[i] /\ copy[i].docs = entry[Entries[i]].docs
    <3>1. copy[i] = [key |-> Entries[i], docs |-> entry[Entries[i]].docs]
      BY <2>2
    <3>2. QED
      BY <3>1
  <2>5. QED
    BY <2>1, <2>3, <2>4
<1>5. IsList(<< >>) /\ Len(<< >>) = 0
  <2>1. << >> \in Seq({}) /\ Len(<< >>) = 0
    OBVIOUS
  <2>2. QED
    BY <2>1 DEF IsList
<1>6. ASSUME NEW i \in 1 .. Len(copy)
      PROVE  /\ 0 + i \in 1 .. Len(Entries) /\ 0 + i = i
             /\ copy[i].key = Entries[i] /\ TagsOk(copy[i].docs)
             /\ entry'[Entries[i]].docs = copy[i].docs
  <2>1. i \in 1 .. Len(Entries) /\ Entries[i] \in DvKeys
    BY <1>4, EntriesAre
  <2>2. TagsOk(entry[Entries[i]].docs)
    BY <2>1 DEF DvInv, EntriesOk, EntryOk
  <2>3. QED
    BY <1>1, <1>4, <2>1, <2>2
<1>7. ValidateOk'
  <2>1. 0 + Len(copy) = Len(Entries)
    BY <1>4, EntriesAre
  <2>2. QED
    BY <1>3, <1>4, <1>5, <1>6, <2>1 DEF ValidateOk
<1>8. ApplyOk'
  BY <1>3 DEF ApplyOk
<1>9. QED
  BY <1>1, <1>3, <1>7, <1>8 DEF DvInv

\* The next entry gets a verdict: it was skipped, or its copy showed no recent stamp.
LEMMA VerdictGiven ==
    ASSUME DvInv, NEW verdict, ValidateOne(verdict)
    PROVE  \E ev : /\ batch'.todo = Tail(batch.todo) /\ batch'.report = Append(batch.report, ev)
                   /\ batch'.pc = batch.pc /\ batch'.snap = batch.snap
                   /\ DOMAIN batch' = BatchFields
                   /\ ev.key = Head(batch.todo).key /\ Len(ev.refs) \in Nat
                   /\ ev.status # "skipped" => ~RecentlyValidated(Head(batch.todo).docs)
<1> DEFINE e  == Head(batch.todo)
           cl == Claims[e.key]
           docs == [s \in Subjects |-> IF s \in Unknown THEN verdict[s] ELSE batch.docs[s]]
           al == [i \in 1 .. Len(cl) |-> docs[cl[i]]]
           none == [key |-> e.key, status |-> "skipped", adj |-> 0, refs |-> << >>]
           full == [key |-> e.key, status |-> Overall(al), adj |-> Adjustment(al),
                    refs |-> Confirmed(cl, docs)]
           pass == \/ RecentlyValidated(e.docs)
                   \/ batch.lookups + NewLookups(cl) > MaxLookups
                   \/ cl = << >>
<1>1. batch' = IF pass THEN SkipEntry(none)
               ELSE [SkipEntry(full) EXCEPT !.docs = docs, !.lookups = @ + NewLookups(cl),
                                            !.asked = @ + Cardinality(Unknown)]
  BY DEF ValidateOne
<1>2. DOMAIN batch = BatchFields
  BY DEF DvInv
<1>3. none.key = e.key /\ none.status = "skipped" /\ Len(none.refs) = 0
  OBVIOUS
<1>4. full.key = e.key /\ Len(full.refs) \in Nat
  <2>1. e.key \in DvKeys
    <3>1. /\ IsList(batch.todo) /\ batch.todo # << >> /\ Len(batch.report) + Len(batch.todo) = Len(Entries)
          /\ IsList(batch.report)
          /\ \A i \in 1 .. Len(batch.todo) : batch.todo[i].key = Entries[Len(batch.report) + i]
      BY DEF ValidateOne, DvInv, ValidateOk
    <3>2. Len(batch.report) \in Nat /\ Len(batch.todo) \in Nat \ {0} /\ e = batch.todo[1]
      BY <3>1, ListLen, ListTail
    <3> DEFINE n == Len(batch.report)
               m == Len(batch.todo)
    <3> HIDE DEF e, n, m
    <3>0. n \in Nat /\ m \in Nat \ {0} /\ n + m = Len(Entries)
      BY <3>1, <3>2 DEF n, m
    <3>3. n + 1 \in 1 .. Len(Entries) /\ 1 \in 1 .. m
      BY <3>0
    <3>4. e.key = Entries[n + 1]
      BY <3>1, <3>2, <3>3 DEF n, m
    <3>5. QED
      BY <3>3, <3>4, EntriesAre
  <2>2. cl \in Seq(Subjects)
    BY <2>1, DvAssumption
  <2> HIDE DEF docs, e, cl
  <2>3. Len(Confirmed(cl, docs)) \in Nat
    BY <2>2, ConfirmedIsList
  <2>4. QED
    BY <2>3
<1> HIDE DEF none, full, docs, e
<1>5. CASE pass
  <2>1. batch' = SkipEntry(none)
    BY <1>1, <1>5
  <2>2. /\ batch'.todo = Tail(batch.todo) /\ batch'.report = Append(batch.report, none)
        /\ batch'.pc = batch.pc /\ batch'.snap = batch.snap /\ DOMAIN batch' = BatchFields
    BY <1>2, <2>1 DEF SkipEntry, BatchFields
  <2>3. QED
    BY <1>3, <2>2 DEF e
<1>6. CASE ~pass
  <2> DEFINE l == batch.lookups + NewLookups(cl)
             a == batch.asked + Cardinality(Unknown)
  <2>1. batch' = [SkipEntry(full) EXCEPT !.docs = docs, !.lookups = @ + NewLookups(cl),
                                         !.asked = @ + Cardinality(Unknown)]
    BY <1>1, <1>6
  <2>2. /\ batch'.todo = Tail(batch.todo) /\ batch'.report = Append(batch.report, full)
        /\ batch'.pc = batch.pc /\ batch'.snap = batch.snap /\ DOMAIN batch' = BatchFields
    BY <1>2, <2>1 DEF SkipEntry, BatchFields
  <2>3. ~RecentlyValidated(e.docs)
    BY <1>6
  <2>4. QED
    BY <1>4, <2>2, <2>3 DEF e
<1>7. QED
  BY <1>5, <1>6

LEMMA ValidateOneOk ==
    ASSUME DvInv, NEW verdict, ValidateOne(verdict)
    PROVE  DvInv'
<1>1. EntriesOk' /\ today' \in Nat /\ UNCHANGED <<entry, today, adjusted>>
  BY EntriesKept DEF ValidateOne
<1>2. PICK ev : /\ batch'.todo = Tail(batch.todo) /\ batch'.report = Append(batch.report, ev)
                /\ batch'.pc = batch.pc /\ batch'.snap = batch.snap
                /\ DOMAIN batch' = BatchFields
                /\ ev.key = Head(batch.todo).key /\ Len(ev.refs) \in Nat
                /\ ev.status # "skipped" => ~RecentlyValidated(Head(batch.todo).docs)
  BY VerdictGiven
<1> DEFINE n == Len(batch.report)
           r == Append(batch.report, ev)
           t == Tail(batch.todo)
<1>3. /\ batch.pc = "validate" /\ batch.todo # << >> /\ IsList(batch.todo) /\ IsList(batch.report)
      /\ n + Len(batch.todo) = Len(Entries)
      /\ \A i \in 1 .. n : VerdictOk(batch.report[i], Entries[i], today)
      /\ \A i \in 1 .. Len(batch.todo) :
            /\ batch.todo[i].key = Entries[n + i] /\ TagsOk(batch.todo[i].docs)
            /\ \/ entry[Entries[n + i]].docs = batch.todo[i].docs
               \/ entry[Entries[n + i]].docs = << >>
  BY DEF ValidateOne, DvInv, ValidateOk
<1>4. /\ n \in Nat /\ Len(batch.todo) \in Nat \ {0} /\ IsList(t) /\ Len(t) = Len(batch.todo) - 1
      /\ Head(batch.todo) = batch.todo[1] /\ \A i \in 1 .. Len(t) : t[i] = batch.todo[i + 1]
  BY <1>3, ListTail, ListLen
<1>5. /\ IsList(r) /\ Len(r) = n + 1 /\ r[n + 1] = ev
      /\ \A i \in 1 .. n : r[i] = batch.report[i]
  BY <1>3, ListAppend
<1> DEFINE m == Len(batch.todo)
<1> HIDE DEF n, r, t, m
<1>6. VerdictOk(ev, Entries[n + 1], today)
  <2>0. 1 \in 1 .. m
    BY <1>4 DEF m
  <2>1. /\ ev.key = Entries[n + 1]
        /\ \/ entry[Entries[n + 1]].docs = batch.todo[1].docs
           \/ entry[Entries[n + 1]].docs = << >>
        /\ TagsOk(batch.todo[1].docs)
    BY <1>2, <1>3, <1>4, <2>0 DEF m
  <2>2. ASSUME ev.status # "skipped", entry[Entries[n + 1]].docs = batch.todo[1].docs
        PROVE  RestedBy(entry[Entries[n + 1]].docs, today)
    <3> DEFINE d == batch.todo[1].docs
    <3>1. \A i \in 1 .. Len(d) : d[i].kind \in Stamps => ~(today - d[i].n < Interval)
      BY <1>2, <1>4, <2>2 DEF RecentlyValidated
    <3>2. \A i \in 1 .. Len(d) : d[i].kind \in Stamps => d[i].n \in Nat
      BY <2>1 DEF TagsOk
    <3>3. today \in Nat /\ Interval \in Nat
      BY DvAssumption DEF DvInv
    <3> HIDE DEF d
    <3>4. RestedBy(d, today)
      BY <3>1, <3>2, <3>3 DEF RestedBy
    <3>5. QED
      BY <2>2, <3>4 DEF d
  <2>3. ASSUME entry[Entries[n + 1]].docs = << >>
        PROVE  RestedBy(entry[Entries[n + 1]].docs, today)
    BY <2>3 DEF RestedBy
  <2>4. QED
    BY <1>2, <2>1, <2>2, <2>3 DEF VerdictOk
<1>7. ValidateOk'
  <2>1. Len(r) + Len(t) = Len(Entries)
    <3>1. /\ n \in Nat /\ m \in Nat \ {0} /\ n + m = Len(Entries)
          /\ Len(t) = m - 1 /\ Len(r) = n + 1
      BY <1>3, <1>4, <1>5 DEF m
    <3>2. QED
      BY <3>1
  <2>2. ASSUME NEW i \in 1 .. Len(r) PROVE VerdictOk(r[i], Entries[i], today)
    <3>1. CASE i = n + 1
      BY <1>5, <1>6, <3>1
    <3>2. CASE i # n + 1
      <4>1. i \in 1 .. n
        BY <1>4, <1>5, <3>2
      <4>2. QED
        BY <1>3, <1>5, <4>1
    <3>3. QED
      BY <3>1, <3>2
  <2>3. ASSUME NEW i \in 1 .. Len(t)
        PROVE  /\ t[i].key = Entries[Len(r) + i] /\ TagsOk(t[i].docs)
               /\ \/ entry[Entries[Len(r) + i]].docs = t[i].docs
                  \/ entry[Entries[Len(r) + i]].docs = << >>
    <3> DEFINE j == i + 1
    <3>1. j \in 1 .. m /\ n + j = Len(r) + i
      BY <1>4, <1>5 DEF m
    <3>2. t[i] = batch.todo[j]
      BY <1>4
    <3> HIDE DEF j
    <3>3. /\ batch.todo[j].key = Entries[n + j] /\ TagsOk(batch.todo[j].docs)
          /\ \/ entry[Entries[n + j]].docs = batch.todo[j].docs
             \/ entry[Entries[n + j]].docs = << >>
      BY <1>3, <3>1 DEF m
    <3>4. QED
      BY <3>1, <3>2, <3>3
  <2>4. batch'.report = r /\ batch'.todo = t
    BY <1>2 DEF r, t
  <2>5. ASSUME NEW i \in 1 .. Len(r)
        PROVE  /\ r[i].key = Entries[i] /\ Len(r[i].refs) \in Nat
               /\ r[i].status # "skipped" => RestedBy(entry'[Entries[i]].docs, today')
    <3>1. VerdictOk(r[i], Entries[i], today)
      BY <2>2
    <3>2. QED
      BY <1>1, <3>1 DEF VerdictOk
  <2>6. ASSUME NEW i \in 1 .. Len(batch'.report)
        PROVE  VerdictOk(batch.report[i], Entries[i], today)'
    BY <2>4, <2>5 DEF VerdictOk, RestedBy
  <2>7. ASSUME NEW i \in 1 .. Len(batch'.todo)
        PROVE  LET k == Entries[Len(batch'.report) + i]
               IN  /\ batch'.todo[i].key = k /\ TagsOk(batch'.todo[i].docs)
                   /\ \/ entry'[k].docs = batch'.todo[i].docs
                      \/ entry'[k].docs = << >>
    BY <1>1, <2>3, <2>4
  <2>8. IsList(batch'.todo) /\ IsList(batch'.report) /\ Len(batch'.report) + Len(batch'.todo) = Len(Entries)
    BY <1>4, <1>5, <2>1, <2>4
  <2>9. QED
    BY <2>6, <2>7, <2>8 DEF ValidateOk, TagsOk
<1>8. ApplyOk'
  BY <1>2, <1>3 DEF ApplyOk, DvInv
<1>9. QED
  BY <1>1, <1>2, <1>7, <1>8 DEF DvInv


LEMMA EndBatchOk ==
    ASSUME DvInv, NEW strict, EndBatch(strict)
    PROVE  DvInv'
<1>1. EntriesOk' /\ today' \in Nat /\ UNCHANGED <<entry, today, adjusted>>
  BY EntriesKept DEF EndBatch
<1>2. CASE batch' = NoBatch
  BY <1>1, <1>2, NoBatchOk DEF DvInv
<1>3. CASE batch' # NoBatch
  <2>1. batch' = [NoBatch EXCEPT !.pc = "apply", !.report = batch.report, !.stamp = today]
    BY <1>3 DEF EndBatch
  <2>2. /\ DOMAIN batch' = BatchFields /\ batch'.pc = "apply" /\ batch'.report = batch.report
        /\ batch'.snap = Unread /\ batch'.stamp = today
    BY <2>1 DEF NoBatch, BatchFields
  <2>3. /\ IsList(batch.report) /\ IsList(batch.todo) /\ batch.todo = << >>
        /\ Len(batch.report) + Len(batch.todo) = Len(Entries)
        /\ \A i \in 1 .. Len(batch.report) : VerdictOk(batch.report[i], Entries[i], today)
    BY DEF EndBatch, DvInv, ValidateOk
  <2>4. Len(batch.report) = Len(Entries) /\ Len(Entries) \in Nat
    <3>1. Len(batch.todo) = 0 /\ Len(batch.report) \in Nat
      BY <2>3, ListLen
    <3>2. QED
      BY <2>3, <3>1, EntriesAre
  <2>5. ASSUME NEW i \in 1 .. Len(batch'.report)
        PROVE  VerdictOk(batch.report[i], Entries[Len(Entries) - Len(batch.report) + i], batch.stamp)'
    <3>1. Len(Entries) - Len(batch.report) + i = i
      BY <2>4
    <3>2. VerdictOk(batch.report[i], Entries[i], today)
      BY <2>2, <2>3
    <3>3. QED
      BY <1>1, <2>2, <2>4, <3>1, <3>2 DEF VerdictOk, RestedBy
  <2>6. \A k \in DvKeys : adjusted'[k] = Unread \/ adjusted'[k] <= batch'.stamp
    BY <1>1, <2>2 DEF EntriesOk
  <2>7. IsList(batch'.report) /\ Len(batch'.report) <= Len(Entries)
        /\ batch'.stamp \in Nat /\ batch'.stamp <= today'
    BY <1>1, <2>2, <2>3, <2>4
  <2>8. ApplyOk'
    BY <2>2, <2>5, <2>6, <2>7 DEF ApplyOk
  <2>9. ValidateOk'
    BY <2>2 DEF ValidateOk
  <2>10. QED
    BY <1>1, <2>2, <2>8, <2>9 DEF DvInv
<1>4. QED
  BY <1>2, <1>3

\* The entry the first verdict left is for, and what is left after it.
LEMMA HeadVerdict ==
    ASSUME DvInv, batch.pc = "apply", batch.report # << >>
    PROVE  LET r == batch.report
               n == Len(Entries) - Len(r)
               k == Entries[n + 1]
           IN  /\ k \in DvKeys /\ VerdictOk(Head(r), k, batch.stamp)
               /\ IsList(Tail(r)) /\ Len(Tail(r)) <= Len(Entries)
               /\ \A i \in 1 .. Len(Tail(r)) :
                    LET l == Entries[Len(Entries) - Len(Tail(r)) + i]
                    IN  l \in DvKeys /\ l # k /\ VerdictOk(Tail(r)[i], l, batch.stamp)
<1> DEFINE r == batch.report
           t == Tail(r)
           N == Len(Entries)
           n == N - Len(r)
           k == Entries[n + 1]
<1>1. /\ IsList(r) /\ r # << >> /\ Len(r) <= N
      /\ \A i \in 1 .. Len(r) : VerdictOk(r[i], Entries[n + i], batch.stamp)
  BY DEF DvInv, ApplyOk
<1>2. /\ IsList(t) /\ Len(t) = Len(r) - 1 /\ Len(r) \in Nat \ {0} /\ Head(r) = r[1]
      /\ \A i \in 1 .. Len(t) : t[i] = r[i + 1]
  BY <1>1, ListTail
<1>3. N \in Nat
  BY EntriesAre
<1> HIDE DEF r, t, N
<1>4. 1 \in 1 .. Len(r) /\ n + 1 \in 1 .. N /\ Len(t) <= N
  BY <1>1, <1>2, <1>3
<1>5. k \in DvKeys /\ VerdictOk(r[1], k, batch.stamp)
  <2> HIDE DEF n
  <2>1. QED
    BY <1>1, <1>4, EntriesAre DEF N
<1>6. ASSUME NEW i \in 1 .. Len(t)
      PROVE  LET l == Entries[N - Len(t) + i]
             IN  l \in DvKeys /\ l # k /\ VerdictOk(t[i], l, batch.stamp)
  <2> DEFINE j == i + 1
             x == N - Len(t) + i
  <2>1. j \in 1 .. Len(r) /\ x = n + j /\ x \in 1 .. N /\ x # n + 1 /\ t[i] = r[j]
    <3>1. t[i] = r[j]
      BY <1>2
    <3>2. /\ Len(t) = Len(r) - 1 /\ Len(r) \in Nat \ {0} /\ Len(t) \in Nat
          /\ N \in Nat /\ Len(r) <= N /\ i \in Nat /\ 1 <= i /\ i <= Len(t)
      BY <1>1, <1>2, <1>3
    <3>3. j \in 1 .. Len(r) /\ x = n + j /\ x \in 1 .. N /\ x # n + 1
      BY <3>2
    <3>4. QED
      BY <3>1, <3>3
  <2> HIDE DEF j, x, n
  <2>2. VerdictOk(r[j], Entries[n + j], batch.stamp)
    BY <1>1, <2>1
  <2>3. Entries[x] \in DvKeys /\ Entries[x] # k
    BY <1>4, <2>1, EntriesAre DEF N
  <2>4. QED
    BY <2>1, <2>2, <2>3 DEF x
<1>7. QED
  BY <1>2, <1>4, <1>5, <1>6 DEF r, t, N

LEMMA ApplyReadOk ==
    ASSUME DvInv, ApplyRead
    PROVE  DvInv'
<1>1. EntriesOk' /\ today' \in Nat /\ UNCHANGED <<entry, today, adjusted>>
  BY EntriesKept DEF ApplyRead
<1> DEFINE r == batch.report
           n == Len(Entries) - Len(r)
           k == Entries[n + 1]
<1>2. /\ batch.pc = "apply" /\ r # << >> /\ batch.snap = Unread /\ DOMAIN batch = BatchFields
      /\ batch.stamp \in Nat /\ batch.stamp <= today /\ IsList(r) /\ Len(r) <= Len(Entries)
      /\ \A l \in DvKeys : adjusted[l] = Unread \/ adjusted[l] <= batch.stamp
      /\ \A i \in 1 .. Len(r) : VerdictOk(r[i], Entries[n + i], batch.stamp)
  BY DEF ApplyRead, DvInv, ApplyOk
<1>3. /\ k \in DvKeys /\ VerdictOk(Head(r), k, batch.stamp)
      /\ IsList(Tail(r)) /\ Len(Tail(r)) <= Len(Entries)
      /\ \A i \in 1 .. Len(Tail(r)) :
           VerdictOk(Tail(r)[i], Entries[Len(Entries) - Len(Tail(r)) + i], batch.stamp)
  BY <1>2, HeadVerdict
<1>4. CASE Head(r).status = "skipped"
  <2>1. batch' = [batch EXCEPT !.report = Tail(@)]
    BY <1>4 DEF ApplyRead
  <2>2. /\ DOMAIN batch' = BatchFields /\ batch'.pc = "apply" /\ batch'.report = Tail(r)
        /\ batch'.snap = Unread /\ batch'.stamp = batch.stamp
    BY <1>2, <2>1 DEF BatchFields
  <2>3. ASSUME NEW i \in 1 .. Len(batch'.report)
        PROVE  VerdictOk(batch.report[i], Entries[Len(Entries) - Len(batch.report) + i], batch.stamp)'
    <3>1. VerdictOk(Tail(r)[i], Entries[Len(Entries) - Len(Tail(r)) + i], batch.stamp)
      BY <1>3, <2>2
    <3> HIDE DEF r
    <3>2. QED
      BY <1>1, <2>2, <3>1 DEF VerdictOk, RestedBy
  <2>4. ApplyOk'
    BY <1>1, <1>2, <1>3, <2>2, <2>3 DEF ApplyOk
  <2>5. ValidateOk'
    BY <2>2 DEF ValidateOk
  <2>6. QED
    BY <1>1, <2>2, <2>4, <2>5 DEF DvInv
<1>5. CASE Head(r).status # "skipped"
  <2>1. batch' = [batch EXCEPT !.snap = entry[Head(r).key]]
    BY <1>5 DEF ApplyRead
  <2>2. /\ DOMAIN batch' = BatchFields /\ batch'.pc = "apply" /\ batch'.report = r
        /\ batch'.snap = entry[k] /\ batch'.stamp = batch.stamp
    BY <1>2, <1>3, <2>1 DEF BatchFields, VerdictOk
  <2>3. EntryOk(entry[k]) /\ RestedBy(entry[k].docs, batch.stamp)
    BY <1>3, <1>5 DEF VerdictOk, DvInv, EntriesOk
  <2>4. ASSUME NEW i \in 1 .. Len(batch'.report)
        PROVE  VerdictOk(batch.report[i], Entries[Len(Entries) - Len(batch.report) + i], batch.stamp)'
    <3>1. VerdictOk(r[i], Entries[n + i], batch.stamp)
      BY <1>2, <2>2
    <3>2. Len(batch'.report) = Len(r) /\ batch'.report[i] = r[i]
      BY <2>2
    <3>3. QED
      BY <1>1, <2>2, <3>1, <3>2 DEF VerdictOk, RestedBy
  <2>5. EntryOk(batch.snap)' /\ RestedBy(batch'.snap.docs, batch'.stamp)
    BY <2>2, <2>3 DEF EntryOk, TagsOk, RestedBy
  <2>6. ApplyOk'
    <3>1. /\ IsList(batch'.report) /\ Len(batch'.report) <= Len(Entries)
          /\ batch'.stamp \in Nat /\ batch'.stamp <= today'
          /\ \A l \in DvKeys : adjusted'[l] = Unread \/ adjusted'[l] <= batch'.stamp
          /\ batch'.pc = "apply" /\ batch'.report # << >> /\ Head(batch'.report).status # "skipped"
      BY <1>1, <1>2, <1>5, <2>2
    <3>2. QED
      BY <2>4, <2>5, <3>1 DEF ApplyOk, RestedBy
  <2>7. ValidateOk'
    BY <2>2 DEF ValidateOk
  <2>8. QED
    BY <1>1, <2>2, <2>6, <2>7 DEF DvInv
<1>6. QED
  BY <1>4, <1>5

LEMMA ApplyEndOk ==
    ASSUME DvInv, ApplyEnd
    PROVE  DvInv'
<1>1. EntriesOk' /\ today' \in Nat /\ batch' = NoBatch
  BY EntriesKept DEF ApplyEnd
<1>2. QED
  BY <1>1, NoBatchOk DEF DvInv


\* The write puts the stamp of the judgement on the entry its first verdict is
\* for; the verdicts left are for other entries.
LEMMA ApplyWriteOk ==
    ASSUME DvInv, ApplyWrite
    PROVE  DvInv'
<1> DEFINE r == batch.report
           ev == Head(r)
           snap == batch.snap
           new == Tagged(snap.user, snap.docs, ev)
           rec == [user |-> snap.user, docs |-> new, conf |-> NewConf(snap.conf, ev)]
           date(l) == IF ev.adj # 0 THEN batch.stamp ELSE adjusted[l]
<1>1. /\ batch.pc = "apply" /\ r # << >> /\ DOMAIN batch = BatchFields
      /\ batch.stamp \in Nat /\ batch.stamp <= today /\ today \in Nat
      /\ ev.status # "skipped" /\ EntryOk(snap) /\ RestedBy(snap.docs, batch.stamp)
      /\ \A l \in DvKeys : adjusted[l] = Unread \/ adjusted[l] <= batch.stamp
      /\ DOMAIN entry = DvKeys /\ DOMAIN adjusted = DvKeys
  BY DEF ApplyWrite, DvInv, ApplyOk, EntriesOk
<1>2. PICK k \in DvKeys :
        /\ VerdictOk(ev, k, batch.stamp)
        /\ IsList(Tail(r)) /\ Len(Tail(r)) <= Len(Entries)
        /\ \A i \in 1 .. Len(Tail(r)) :
             LET l == Entries[Len(Entries) - Len(Tail(r)) + i]
             IN  l \in DvKeys /\ l # k /\ VerdictOk(Tail(r)[i], l, batch.stamp)
  BY <1>1, HeadVerdict
<1>3. ev.key = k /\ Len(ev.refs) \in Nat
  BY <1>2 DEF VerdictOk
<1>4. /\ entry' = [entry EXCEPT ![ev.key] = rec]
      /\ adjusted' = [adjusted EXCEPT ![ev.key] = IF ev.adj # 0 THEN batch.stamp ELSE @]
      /\ batch' = [batch EXCEPT !.report = Tail(r), !.snap = Unread]
      /\ today' = today
  BY DEF ApplyWrite
<1> HIDE DEF ev
<1>5. /\ TagsOk(new)
      /\ HasRoom(snap.user) /\ Interval # 0 =>
           \E i \in 1 .. Len(new) : new[i].kind \in Stamps /\ new[i].n = batch.stamp
  <2>1. TagsOk(snap.docs) /\ snap.user \in Int
    BY <1>1 DEF EntryOk
  <2> HIDE DEF snap
  <2>2. QED
    BY <1>1, <1>3, <2>1, TaggedOk
<1> HIDE DEF new, rec, date, snap, r
<1>6. /\ entry'[k] = rec /\ adjusted'[k] = date(k)
      /\ \A l \in DvKeys : l # k => entry'[l] = entry[l] /\ adjusted'[l] = adjusted[l]
      /\ DOMAIN entry' = DvKeys /\ DOMAIN adjusted' = DvKeys
  BY <1>1, <1>2, <1>3, <1>4 DEF date
<1>7. EntryOk(rec) /\ rec.user = snap.user /\ rec.docs = new
  <2>1. rec.docs = new /\ rec.user = snap.user /\ DOMAIN rec = {"user", "docs", "conf"}
    BY DEF rec
  <2>2. snap.user \in Int
    BY <1>1 DEF EntryOk
  <2>3. QED
    BY <1>5, <2>1, <2>2 DEF EntryOk
<1>8. date(k) = Unread \/ (date(k) \in Nat /\ date(k) <= today /\ date(k) <= batch.stamp)
  <2>1. adjusted[k] = Unread \/ (adjusted[k] \in Nat /\ adjusted[k] <= today)
    BY <1>2 DEF DvInv, EntriesOk
  <2>2. QED
    BY <1>1, <1>2, <2>1 DEF date
<1>9. StampKept(k)'
  <2> SUFFICES ASSUME date(k) # Unread, HasRoom(snap.user), Interval # 0
               PROVE  \E i \in 1 .. Len(new) : new[i].kind \in Stamps /\ new[i].n >= date(k)
    BY <1>6, <1>7 DEF StampKept, HasRoom
  <2>1. PICK i \in 1 .. Len(new) : new[i].kind \in Stamps /\ new[i].n = batch.stamp
    BY <1>5
  <2>2. batch.stamp >= date(k)
    BY <1>1, <1>8
  <2>3. QED
    BY <2>1, <2>2
<1>10. EntriesOk'
  <2>1. ASSUME NEW l \in DvKeys
        PROVE  /\ EntryOk(entry'[l]) /\ StampKept(l)'
               /\ adjusted'[l] = Unread \/ (adjusted'[l] \in Nat /\ adjusted'[l] <= today')
    <3>1. CASE l = k
      BY <1>4, <1>6, <1>7, <1>8, <1>9, <3>1
    <3>2. CASE l # k
      <4>1. EntryOk(entry[l]) /\ StampKept(l)
            /\ (adjusted[l] = Unread \/ (adjusted[l] \in Nat /\ adjusted[l] <= today))
        BY DEF DvInv, EntriesOk
      <4>2. entry'[l] = entry[l] /\ adjusted'[l] = adjusted[l]
        BY <1>6, <3>2
      <4>3. QED
        BY <1>4, <4>1, <4>2 DEF StampKept, HasRoom
    <3>3. QED
      BY <3>1, <3>2
  <2>2. QED
    BY <1>6, <2>1 DEF EntriesOk, EntryOk
<1>11. /\ DOMAIN batch' = BatchFields /\ batch'.pc = "apply" /\ batch'.report = Tail(r)
       /\ batch'.snap = Unread /\ batch'.stamp = batch.stamp
  BY <1>1, <1>4 DEF BatchFields
<1>12. ASSUME NEW i \in 1 .. Len(batch'.report)
       PROVE  VerdictOk(batch.report[i], Entries[Len(Entries) - Len(batch.report) + i], batch.stamp)'
  <2> DEFINE l == Entries[Len(Entries) - Len(Tail(r)) + i]
  <2>1. l \in DvKeys /\ l # k /\ VerdictOk(Tail(r)[i], l, batch.stamp)
    BY <1>2, <1>11
  <2>2. entry'[l] = entry[l]
    BY <1>6, <2>1
  <2>3. QED
    BY <1>11, <2>1, <2>2 DEF VerdictOk, RestedBy
<1>13. ApplyOk'
  <2>1. \A l \in DvKeys : adjusted'[l] = Unread \/ adjusted'[l] <= batch'.stamp
    BY <1>1, <1>6, <1>8, <1>11
  <2>2. QED
    BY <1>1, <1>2, <1>4, <1>11, <1>12, <2>1 DEF ApplyOk
<1>14. ValidateOk'
  BY <1>11 DEF ValidateOk
<1>15. QED
  BY <1>1, <1>4, <1>10, <1>11, <1>13, <1>14 DEF DvInv

LEMMA PartOf ==
    ASSUME NEW a \in Nat, NEW b \in Nat, NEW c, a + b = c, NEW i \in 1 .. a
    PROVE  i \in 1 .. c
OBVIOUS

\* Tags of a caller's own: no stamp is left to rely on, and no change to date.
LEMMA RetagOk ==
    ASSUME DvInv, NEW k \in DvKeys, NEW n \in Int, Retag(k, n)
    PROVE  DvInv'
<1>1. /\ entry' = [entry EXCEPT ![k].user = n, ![k].docs = << >>]
      /\ adjusted' = [adjusted EXCEPT ![k] = Unread] /\ batch' = batch /\ today' = today
  BY DEF Retag
<1>2. /\ DOMAIN entry = DvKeys /\ DOMAIN adjusted = DvKeys
      /\ \A l \in DvKeys : /\ EntryOk(entry[l]) /\ StampKept(l)
                           /\ adjusted[l] = Unread \/ (adjusted[l] \in Nat /\ adjusted[l] <= today)
  BY DEF DvInv, EntriesOk
<1>3. /\ entry'[k].user = n /\ entry'[k].docs = << >> /\ DOMAIN entry'[k] = {"user", "docs", "conf"}
      /\ adjusted'[k] = Unread
      /\ \A l \in DvKeys : l # k => entry'[l] = entry[l] /\ adjusted'[l] = adjusted[l]
      /\ DOMAIN entry' = DvKeys /\ DOMAIN adjusted' = DvKeys
  BY <1>1, <1>2 DEF EntryOk
<1>4. TagsOk(<< >>)
  <2>1. << >> \in Seq({}) /\ Len(<< >>) = 0
    OBVIOUS
  <2>2. QED
    BY <2>1 DEF TagsOk, IsList
<1>5. ASSUME NEW l \in DvKeys
      PROVE  /\ EntryOk(entry'[l]) /\ StampKept(l)'
             /\ adjusted'[l] = Unread \/ (adjusted'[l] \in Nat /\ adjusted'[l] <= today')
  <2>1. CASE l = k
    BY <1>3, <1>4, <2>1 DEF EntryOk, StampKept
  <2>2. CASE l # k
    BY <1>1, <1>2, <1>3, <2>2 DEF StampKept, HasRoom
  <2>3. QED
    BY <2>1, <2>2
<1>6. EntriesOk'
  BY <1>3, <1>5 DEF EntriesOk, EntryOk
<1>7. ASSUME NEW l \in DvKeys, NEW date, RestedBy(entry[l].docs, date)
      PROVE  RestedBy(entry'[l].docs, date)
  <2>1. CASE l = k
    BY <1>3, <2>1 DEF RestedBy
  <2>2. CASE l # k
    BY <1>3, <1>7, <2>2
  <2>3. QED
    BY <2>1, <2>2
<1>8. ASSUME NEW ev, NEW l \in DvKeys, NEW date, VerdictOk(ev, l, date)
      PROVE  /\ ev.key = l /\ Len(ev.refs) \in Nat
             /\ ev.status # "skipped" => RestedBy(entry'[l].docs, date)
  BY <1>7, <1>8 DEF VerdictOk
<1>9. ASSUME NEW l \in DvKeys, NEW d, entry[l].docs = d \/ entry[l].docs = << >>
      PROVE  entry'[l].docs = d \/ entry'[l].docs = << >>
  <2>1. CASE l = k
    BY <1>3, <2>1
  <2>2. CASE l # k
    BY <1>3, <1>9, <2>2
  <2>3. QED
    BY <2>1, <2>2
<1>10. ValidateOk'
  <2> SUFFICES ASSUME batch.pc = "validate" PROVE ValidateOk'
    BY <1>1 DEF ValidateOk
  <2> DEFINE rn == Len(batch.report)
             tn == Len(batch.todo)
  <2>1. /\ IsList(batch.todo) /\ IsList(batch.report) /\ rn + tn = Len(Entries)
        /\ \A i \in 1 .. rn : VerdictOk(batch.report[i], Entries[i], today)
        /\ \A i \in 1 .. tn :
             LET x == Entries[rn + i]
             IN  /\ batch.todo[i].key = x /\ TagsOk(batch.todo[i].docs)
                 /\ entry[x].docs = batch.todo[i].docs \/ entry[x].docs = << >>
    BY DEF DvInv, ValidateOk
  <2>2. rn \in Nat /\ tn \in Nat
    BY <2>1, ListLen
  <2>3. ASSUME NEW i \in 1 .. Len(batch'.report)
        PROVE  VerdictOk(batch.report[i], Entries[i], today)'
    <3>1. i \in 1 .. rn
      BY <1>1
    <3>2. i \in 1 .. Len(Entries)
      BY <2>1, <2>2, <3>1, PartOf
    <3>3. VerdictOk(batch.report[i], Entries[i], today) /\ Entries[i] \in DvKeys
      BY <2>1, <3>1, <3>2, EntriesAre
    <3> DEFINE ev == batch.report[i]
    <3>4. /\ ev.key = Entries[i] /\ Len(ev.refs) \in Nat
          /\ ev.status # "skipped" => RestedBy(entry'[Entries[i]].docs, today)
      <4> HIDE DEF ev
      <4>1. QED
        BY <1>8, <3>3 DEF ev
    <3>5. QED
      BY <1>1, <3>4 DEF VerdictOk, RestedBy
  <2>4. ASSUME NEW i \in 1 .. Len(batch'.todo)
        PROVE  LET x == Entries[Len(batch'.report) + i]
               IN  /\ batch'.todo[i].key = x /\ TagsOk(batch'.todo[i].docs)
                   /\ entry'[x].docs = batch'.todo[i].docs \/ entry'[x].docs = << >>
    <3> DEFINE x == Entries[rn + i]
    <3>1. i \in 1 .. tn
      BY <1>1
    <3> HIDE DEF rn, tn
    <3>2. rn + i \in 1 .. Len(Entries)
      BY <2>1, <2>2, <3>1
    <3>3. x \in DvKeys
      BY <3>2, EntriesAre
    <3>4. /\ batch.todo[i].key = x /\ TagsOk(batch.todo[i].docs)
          /\ entry[x].docs = batch.todo[i].docs \/ entry[x].docs = << >>
      BY <2>1, <3>1
    <3>5. entry'[x].docs = batch.todo[i].docs \/ entry'[x].docs = << >>
      BY <1>9, <3>3, <3>4
    <3>6. QED
      BY <1>1, <3>4, <3>5 DEF rn
  <2>5. IsList(batch'.todo) /\ IsList(batch'.report) /\ Len(batch'.report) + Len(batch'.todo) = Len(Entries)
    BY <1>1, <2>1
  <2>6. QED
    BY <2>3, <2>4, <2>5 DEF ValidateOk, TagsOk
<1>11. ApplyOk'
  <2>1. ASSUME batch.pc = "apply"
        PROVE  /\ IsList(batch'.report) /\ Len(batch'.report) <= Len(Entries)
               /\ batch'.stamp \in Nat /\ batch'.stamp <= today'
               /\ \A i \in 1 .. Len(batch'.report) :
                    VerdictOk(batch.report[i], Entries[Len(Entries) - Len(batch.report) + i], batch.stamp)'
               /\ \A l \in DvKeys : adjusted'[l] = Unread \/ adjusted'[l] <= batch'.stamp
    <3>1. /\ IsList(batch.report) /\ Len(batch.report) <= Len(Entries)
          /\ batch.stamp \in Nat /\ batch.stamp <= today
          /\ \A i \in 1 .. Len(batch.report) :
               VerdictOk(batch.report[i], Entries[Len(Entries) - Len(batch.report) + i], batch.stamp)
          /\ \A l \in DvKeys : adjusted[l] = Unread \/ adjusted[l] <= batch.stamp
      BY <2>1 DEF DvInv, ApplyOk
    <3>2. ASSUME NEW i \in 1 .. Len(batch'.report)
          PROVE  VerdictOk(batch.report[i], Entries[Len(Entries) - Len(batch.report) + i], batch.stamp)'
      <4> DEFINE n0 == Len(batch.report)
                 x == Len(Entries) - n0 + i
      <4>1. n0 \in Nat /\ n0 <= Len(Entries) /\ Len(Entries) \in Nat /\ i \in 1 .. n0
        BY <1>1, <3>1, ListLen, EntriesAre
      <4>2. x \in 1 .. Len(Entries)
        <5> HIDE DEF n0
        <5>1. QED
          BY <4>1
      <4>3. VerdictOk(batch.report[i], Entries[x], batch.stamp) /\ Entries[x] \in DvKeys
        BY <3>1, <4>1, <4>2, EntriesAre
      <4> DEFINE ev == batch.report[i]
      <4>4. /\ ev.key = Entries[x] /\ Len(ev.refs) \in Nat
            /\ ev.status # "skipped" => RestedBy(entry'[Entries[x]].docs, batch.stamp)
        <5> HIDE DEF ev, x
        <5>1. QED
          BY <1>8, <4>3 DEF ev
      <4>5. QED
        BY <1>1, <4>4 DEF VerdictOk, RestedBy
    <3>3. \A l \in DvKeys : adjusted'[l] = Unread \/ adjusted'[l] <= batch'.stamp
      BY <1>1, <1>3, <3>1
    <3>4. QED
      BY <1>1, <3>1, <3>2, <3>3
  <2>2. ASSUME batch.snap # Unread
        PROVE  /\ batch'.pc = "apply" /\ batch'.report # << >> /\ Head(batch'.report).status # "skipped"
               /\ EntryOk(batch.snap)' /\ RestedBy(batch'.snap.docs, batch'.stamp)
    BY <1>1, <2>2 DEF DvInv, ApplyOk, EntryOk, RestedBy, TagsOk
  <2>3. QED
    BY <1>1, <2>1, <2>2 DEF ApplyOk, RestedBy
<1>12. QED
  BY <1>1, <1>6, <1>10, <1>11 DEF DvInv

LEMMA MidnightOk ==
    ASSUME DvInv, Midnight
    PROVE  DvInv'
<1>1. today' = today + 1 /\ entry' = entry /\ batch' = batch /\ adjusted' = adjusted /\ today \in Nat
  BY DEF Midnight, DvInv
<1>2. EntriesOk'
  <2>1. ASSUME NEW k \in DvKeys
        PROVE  EntryOk(entry[k]) /\ StampKept(k) /\ (adjusted[k] = Unread \/ (adjusted[k] \in Nat /\ adjusted[k] <= today))
    BY DEF DvInv, EntriesOk
  <2>2. ASSUME NEW k \in DvKeys
        PROVE  adjusted[k] = Unread \/ (adjusted[k] \in Nat /\ adjusted[k] <= today + 1)
    BY <1>1, <2>1
  <2>3. DOMAIN entry = DvKeys /\ DOMAIN adjusted = DvKeys
    BY DEF DvInv, EntriesOk
  <2>4. QED
    BY <1>1, <2>1, <2>2, <2>3 DEF EntriesOk, StampKept, HasRoom, EntryOk
<1>3. ASSUME NEW k \in DvKeys, NEW ev, VerdictOk(ev, k, today)
      PROVE  VerdictOk(ev, k, today + 1)
  <2>1. TagsOk(entry[k].docs)
    BY DEF DvInv, EntriesOk, EntryOk
  <2>2. Interval \in Nat
    BY DvAssumption
  <2>3. ASSUME RestedBy(entry[k].docs, today) PROVE RestedBy(entry[k].docs, today + 1)
    <3> DEFINE d == entry[k].docs
    <3>1. ASSUME NEW i \in 1 .. Len(d), d[i].kind \in Stamps PROVE d[i].n + Interval <= today + 1
      <4>1. d[i].n \in Nat /\ d[i].n + Interval <= today
        BY <2>1, <2>3, <3>1 DEF TagsOk, RestedBy
      <4> HIDE DEF d
      <4>2. QED
        BY <1>1, <2>2, <4>1
    <3>2. QED
      BY <3>1 DEF RestedBy
  <2>4. QED
    BY <1>3, <2>3 DEF VerdictOk
<1>4. ValidateOk'
  <2> SUFFICES ASSUME batch.pc = "validate" PROVE ValidateOk'
    BY <1>1 DEF ValidateOk
  <2>1. /\ IsList(batch.todo) /\ IsList(batch.report)
        /\ Len(batch.report) + Len(batch.todo) = Len(Entries)
        /\ \A i \in 1 .. Len(batch.report) : VerdictOk(batch.report[i], Entries[i], today)
    BY DEF DvInv, ValidateOk
  <2>2. ASSUME NEW i \in 1 .. Len(batch'.report)
        PROVE  VerdictOk(batch.report[i], Entries[i], today)'
    <3>1. Len(batch.report) \in Nat /\ Len(batch.todo) \in Nat /\ i \in 1 .. Len(batch.report)
      BY <1>1, <2>1, ListLen
    <3>2. i \in 1 .. Len(Entries)
      BY <2>1, <3>1, PartOf
    <3>3. VerdictOk(batch.report[i], Entries[i], today + 1)
      BY <1>3, <2>1, <3>1, <3>2, EntriesAre
    <3>4. QED
      BY <1>1, <3>3 DEF VerdictOk, RestedBy
  <2>3. QED
    BY <1>1, <2>1, <2>2 DEF ValidateOk, DvInv, TagsOk
<1>5. ApplyOk'
  <2>1. batch.pc = "apply" => batch.stamp \in Nat /\ batch.stamp <= today + 1
    BY <1>1 DEF DvInv, ApplyOk
  <2>2. QED
    BY <1>1, <2>1 DEF DvInv, ApplyOk, VerdictOk, RestedBy, EntryOk, TagsOk
<1>6. QED
  BY <1>1, <1>2, <1>4, <1>5 DEF DvInv

LEMMA DvStepOk == DvInv /\ [DvNext]_dvVars => DvInv'
<1> SUFFICES ASSUME DvInv, [DvNext]_dvVars PROVE DvInv'
  OBVIOUS
<1>1. CASE BeginBatch
  BY <1>1, BeginBatchOk
<1>2. CASE \E verdict \in [Unknown -> Verdicts] : ValidateOne(verdict)
  BY <1>2, ValidateOneOk
<1>3. CASE \E strict \in BOOLEAN : EndBatch(strict)
  BY <1>3, EndBatchOk
<1>4. CASE ApplyRead
  BY <1>4, ApplyReadOk
<1>5. CASE ApplyWrite
  BY <1>5, ApplyWriteOk
<1>6. CASE ApplyEnd
  BY <1>6, ApplyEndOk
<1>7. CASE \E k \in DvKeys, n \in {1, MaxTags} : Retag(k, n)
  <2>1. PICK k \in DvKeys, n \in {1, MaxTags} : Retag(k, n)
    BY <1>7
  <2>2. n \in Int
    BY DvAssumption
  <2>3. QED
    BY <2>1, <2>2, RetagOk
<1>8. CASE Midnight
  BY <1>8, MidnightOk
<1>9. CASE UNCHANGED dvVars
  <2>1. batch' = batch /\ entry' = entry /\ today' = today /\ adjusted' = adjusted
    BY <1>9 DEF dvVars
  <2>2. EntriesOk'
    BY <2>1 DEF DvInv, EntriesOk, StampKept
  <2>3. ValidateOk'
    BY <2>1 DEF DvInv, ValidateOk, VerdictOk
  <2>4. ApplyOk'
    BY <2>1 DEF DvInv, ApplyOk, VerdictOk
  <2>5. QED
    BY <2>1, <2>2, <2>3, <2>4 DEF DvInv
<1>10. QED
  BY <1>1, <1>2, <1>3, <1>4, <1>5, <1>6, <1>7, <1>8, <1>9 DEF DvNext

\* AdjustedOncePerInterval: a verdict is applied to an entry that is still
\* rested at the judgement's date, and the stamp of the last change is in it.
THEOREM VerdictsDoNotCompound == DvSpec => AdjustedOncePerInterval
<1> DEFINE NotAgain(k) ==
      (/\ adjusted[k] # Unread /\ adjusted'[k] # Unread
       /\ batch.snap # Unread /\ batch'.snap = Unread
       /\ Head(batch.report).key = k /\ Head(batch.report).adj # 0
       /\ entry[k].user <= MaxTags - MaxDocTags)
      => batch.stamp - adjusted[k] >= Interval
<1>1. ASSUME DvInv, NEW k \in DvKeys PROVE NotAgain(k)
  <2> SUFFICES ASSUME adjusted[k] # Unread, batch.snap # Unread, Head(batch.report).key = k,
                      entry[k].user <= MaxTags - MaxDocTags
               PROVE  batch.stamp - adjusted[k] >= Interval
    OBVIOUS
  <2>1. /\ batch.pc = "apply" /\ batch.report # << >> /\ Head(batch.report).status # "skipped"
        /\ batch.stamp \in Nat /\ adjusted[k] \in Nat /\ adjusted[k] <= batch.stamp
        /\ StampKept(k) /\ HasRoom(entry[k].user) /\ TagsOk(entry[k].docs)
    BY <1>1 DEF DvInv, ApplyOk, EntriesOk, EntryOk, HasRoom
  <2>2. RestedBy(entry[k].docs, batch.stamp)
    <3>1. VerdictOk(Head(batch.report), k, batch.stamp)
      BY <1>1, <2>1, HeadVerdict DEF VerdictOk
    <3>2. QED
      BY <2>1, <3>1 DEF VerdictOk
  <2>3. Interval \in Nat
    BY DvAssumption
  <2>4. CASE Interval = 0
    BY <2>1, <2>4
  <2>5. CASE Interval # 0
    <3>1. PICK i \in 1 .. Len(entry[k].docs) :
             entry[k].docs[i].kind \in Stamps /\ entry[k].docs[i].n >= adjusted[k]
      BY <2>1, <2>5 DEF StampKept
    <3> DEFINE n == entry[k].docs[i].n
    <3>2. n \in Nat /\ n >= adjusted[k] /\ n + Interval <= batch.stamp
      BY <2>1, <2>2, <3>1 DEF TagsOk, RestedBy
    <3> HIDE DEF n
    <3>3. QED
      BY <2>1, <2>3, <3>2
  <2>6. QED
    BY <2>4, <2>5
<1>2. DvInv /\ DvInv' /\ [DvNext]_dvVars => [\A k \in DvKeys : NotAgain(k)]_dvVars
  BY <1>1
<1>3. [][\A k \in DvKeys : NotAgain(k)]_dvVars <=> AdjustedOncePerInterval
  BY DEF AdjustedOncePerInterval
<1> HIDE DEF NotAgain
<1>4. QED
  BY DvInitOk, DvStepOk, <1>2, <1>3, PTL DEF DvSpec

=============================================================================

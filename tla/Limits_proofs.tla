---------------------------- MODULE Limits_proofs ----------------------------
(***************************************************************************)
(* Proofs about the mechanisms that hold the program back: the write rate  *)
(* limiter, the diagnostics circuit and the span exporter's circuit, for   *)
(* every number of threads, every limit and every clock; about the         *)
(* documentation caches, whose answers age; about the tenancy migration,   *)
(* for all tables and all writes beside it; and about memories that make a *)
(* round trip through MEMORY.md.                                           *)
(***************************************************************************)
EXTENDS RateLimiter, QualityCircuit, SpanCircuit, ResearchCache, TenancyMigration, Transfer,
        FiniteSetTheorems, FunctionTheorems, TLAPS

-----------------------------------------------------------------------------
(* The rate limiter.                                                       *)

\* A non-empty set of naturals has a least element.
LEMMA Least ==
    ASSUME NEW S \in SUBSET Nat, S # {}
    PROVE  \E x \in S : \A y \in S : x <= y
<1>1. PICK x \in S : \A y \in S : ~(<<y, x>> \in OpToRel(<, Nat))
  BY WFMin, NatLessThanWellFounded
<1>2. \A y \in S : ~(y < x)
  <2> SUFFICES ASSUME NEW y \in S, y < x PROVE FALSE
    OBVIOUS
  <2>1. <<y, x>> \in Nat \X Nat /\ <<y, x>>[1] = y /\ <<y, x>>[2] = x
    OBVIOUS
  <2>2. <<y, x>> \in OpToRel(<, Nat)
    BY <2>1 DEF OpToRel
  <2>3. QED
    BY <1>1, <2>2
<1>3. QED
  BY <1>2

\* What popleft takes off is an initial segment, all of it outside the window.
LEMMA PruneOk ==
    ASSUME NEW s \in Seq(Int), NEW w \in Int
    PROVE  \E k \in 0..Len(s) : /\ Prune(s, w) \in Seq(Int) /\ Len(Prune(s, w)) = Len(s) - k
                                /\ \A i \in 1..(Len(s) - k) : Prune(s, w)[i] = s[i + k]
                                /\ \A i \in 1..k : s[i] <= w
<1> DEFINE E == {i \in 1..Len(s) : \A j \in 1..i : s[j] <= w}
           S == {i \in 1..(Len(s) + 1) : i \notin E}
<1>0. Len(s) \in Nat
  OBVIOUS
<1>1. S \in SUBSET Nat /\ Len(s) + 1 \in S
  BY <1>0
<1>2. PICK x \in S : \A y \in S : x <= y
  BY <1>1, Least
<1>3. x \in 1..(Len(s) + 1) /\ x \notin E
  OBVIOUS
<1> DEFINE k == x - 1
<1>4. k \in 0..Len(s)
  BY <1>0, <1>3
<1>5. E = 1..k
  <2>1. ASSUME NEW i \in 1..k PROVE i \in E
    <3>1. i \in 1..(Len(s) + 1) /\ ~(x <= i)
      BY <1>0, <1>3
    <3>2. QED
      BY <1>2, <3>1
  <2>2. ASSUME NEW i \in E PROVE i \in 1..k
    <3>1. i \in 1..Len(s) /\ \A j \in 1..i : s[j] <= w
      OBVIOUS
    <3>2. CASE i >= x
      <4>1. x \in 1..Len(s) /\ \A j \in 1..x : s[j] <= w
        BY <1>0, <1>3, <3>1, <3>2
      <4>2. QED
        BY <1>3, <4>1
    <3>3. CASE ~(i >= x)
      BY <1>0, <1>3, <3>1, <3>3
    <3>4. QED
      BY <3>2, <3>3
  <2>3. QED
    BY <2>1, <2>2
<1>6. \A i \in 1..k : s[i] <= w
  <2> SUFFICES ASSUME NEW i \in 1..k PROVE s[i] <= w
    OBVIOUS
  <2>1. i \in E
    <3> HIDE DEF E
    <3> QED
      BY <1>5
  <2>2. i \in 1..i
    BY <1>4
  <2>3. QED
    BY <2>1, <2>2
<1>7. Cardinality(E) = k
  <2>1. Cardinality(1..k) = IF 1 > k THEN 0 ELSE k - 1 + 1
    BY <1>4, FS_Interval
  <2>2. Cardinality(1..k) = k
    BY <1>4, <2>1
  <2>3. QED
    BY <1>5, <2>2
<1>8. Prune(s, w) = SubSeq(s, k + 1, Len(s))
  BY <1>7 DEF Prune
<1> HIDE DEF E, S, k
<1>9. /\ Prune(s, w) \in Seq(Int) /\ Len(Prune(s, w)) = Len(s) - k
      /\ \A i \in 1..(Len(s) - k) : Prune(s, w)[i] = s[i + k]
  BY <1>0, <1>4, <1>8
<1>10. QED
  BY <1>4, <1>6, <1>9

\* The stamps are what is left of the admitted writes once a prefix outside the
\* window is gone.
Kept(d) ==
    /\ Len(stamps) = Len(admitted) - d
    /\ \A i \in 1..Len(stamps) : stamps[i] = admitted[i + d]
    /\ \A i \in 1..d : admitted[i] <= horizon

LimiterInv ==
    /\ stamps \in Seq(Int) /\ admitted \in Seq(Int) /\ horizon \in Int
    /\ nowOf \in [Savers -> Int] /\ limiterNow \in Nat
    /\ lifetime \in Nat /\ total \in Nat /\ exempt \in Nat
    /\ \E d \in 0..Len(admitted) : Kept(d)
    /\ RefusedLeavesNoTrace

LEMMA LimiterInitOk == LimiterInit => LimiterInv
<1> SUFFICES ASSUME LimiterInit PROVE LimiterInv
  OBVIOUS
<1>1. horizon \in Int
  BY WindowAssumption DEF LimiterInit
<1>2. 0 \in 0..Len(admitted) /\ Kept(0) /\ RefusedLeavesNoTrace
  BY LimitsAssumption DEF LimiterInit, Kept, RefusedLeavesNoTrace
<1>3. QED
  BY <1>1, <1>2 DEF LimiterInit, LimiterInv

LEMMA DecideOk ==
    ASSUME LimiterInv, NEW t \in Savers, Decide(t)
    PROVE  LimiterInv'
<1> DEFINE n == nowOf[t]
           w == n - Window
           win == Prune(stamps, w)
           exceeded == Len(win) + 1 > Limit
<1>1. n \in Int /\ w \in Int /\ Window \in Nat /\ Limit \in Nat \ {0} /\ Enforce \in BOOLEAN
  BY WindowAssumption, LimitsAssumption DEF LimiterInv
<1>2. PICK k \in 0..Len(stamps) : /\ win \in Seq(Int) /\ Len(win) = Len(stamps) - k
                                  /\ \A i \in 1..(Len(stamps) - k) : win[i] = stamps[i + k]
                                  /\ \A i \in 1..k : stamps[i] <= w
  BY <1>1, PruneOk DEF LimiterInv
<1>3. PICK d \in 0..Len(admitted) : Kept(d)
  BY DEF LimiterInv
<1>4. stamps \in Seq(Int) /\ admitted \in Seq(Int) /\ Len(stamps) \in Nat /\ Len(admitted) \in Nat
      /\ horizon \in Int /\ lifetime \in Nat /\ total \in Nat /\ exempt \in Nat
  BY DEF LimiterInv
<1> HIDE DEF win
<1>5. horizon' \in Int /\ horizon' >= horizon /\ horizon' >= w
  <2>1. horizon' = IF w > horizon THEN w ELSE horizon
    BY DEF Decide
  <2> HIDE DEF w
  <2>2. QED
    BY <1>1, <1>4, <2>1
<1>6. nowOf' \in [Savers -> Int] /\ limiterNow' \in Nat /\ exempt' = exempt
  BY DEF Decide, LimiterInv
<1>7. \A i \in 1..(d + k) : i \in 1..Len(admitted) /\ admitted[i] <= horizon'
  <2> SUFFICES ASSUME NEW i \in 1..(d + k) PROVE i \in 1..Len(admitted) /\ admitted[i] <= horizon'
    OBVIOUS
  <2> HIDE DEF w
  <2>1. CASE i <= d
    BY <1>3, <1>4, <1>5, <2>1 DEF Kept
  <2>2. CASE i > d
    <3>1. i - d \in 1..k /\ i - d \in 1..Len(stamps) /\ (i - d) + d = i
      BY <1>4, <2>2
    <3>2. stamps[i - d] <= w /\ stamps[i - d] = admitted[i] /\ stamps[i - d] \in Int
      BY <1>2, <1>3, <1>4, <3>1, SMTT(30) DEF Kept
    <3>3. QED
      BY <1>1, <1>3, <1>4, <1>5, <3>1, <3>2 DEF Kept
  <2>3. QED
    BY <1>4, <2>1, <2>2
<1>8. d + k \in 0..Len(admitted) /\ Len(win) = Len(admitted) - (d + k)
      /\ \A i \in 1..Len(win) : win[i] = admitted[i + (d + k)]
  <2>1. d + k \in 0..Len(admitted) /\ Len(win) = Len(admitted) - (d + k)
    BY <1>2, <1>3, <1>4 DEF Kept
  <2>2. ASSUME NEW i \in 1..Len(win) PROVE win[i] = admitted[i + (d + k)]
    <3>1. i \in 1..(Len(stamps) - k) /\ i + k \in 1..Len(stamps) /\ (i + k) + d = i + (d + k)
      BY <1>2, <1>4
    <3> DEFINE x == i + k
               y == i + (d + k)
    <3>2. win[i] = stamps[x]
      BY <1>2, <3>1
    <3>3. x \in 1..Len(stamps) /\ x + d = y
      BY <3>1
    <3> HIDE DEF x, y
    <3>4. stamps[x] = admitted[x + d]
      BY <1>3, <3>3 DEF Kept
    <3>5. win[i] = admitted[y]
      BY <3>2, <3>3, <3>4
    <3>6. QED
      BY <3>5 DEF y
  <2>3. QED
    BY <2>1, <2>2
<1>9. CASE ~(Enforce /\ exceeded)
  <2>1. stamps' = Append(win, n) /\ admitted' = Append(admitted, n) /\ lifetime' = lifetime + 1
        /\ total' = total + 1
    BY <1>9 DEF Decide, win
  <2>2. /\ stamps' \in Seq(Int) /\ Len(stamps') = Len(win) + 1 /\ stamps'[Len(win) + 1] = n
        /\ \A i \in 1..Len(win) : stamps'[i] = win[i]
    BY <1>1, <1>2, <2>1
  <2>3. /\ admitted' \in Seq(Int) /\ Len(admitted') = Len(admitted) + 1 /\ admitted'[Len(admitted) + 1] = n
        /\ \A i \in 1..Len(admitted) : admitted'[i] = admitted[i]
    BY <1>1, <1>4, <2>1
  <2> HIDE DEF n, w
  <2>4. Kept(d + k)' /\ d + k \in 0..Len(admitted')
    <3>0. Len(win) \in Nat
      BY <1>2
    <3>1. Len(stamps') = Len(admitted') - (d + k) /\ d + k \in 0..Len(admitted')
      <4> DEFINE a == Len(admitted)
                 went == d + k
                 l == Len(win)
      <4>1. a \in Nat /\ went \in 0..a /\ l = a - went
            /\ Len(stamps') = l + 1 /\ Len(admitted') = a + 1
        BY <1>4, <1>8, <2>2, <2>3
      <4> HIDE DEF a, went, l
      <4>2. Len(stamps') = Len(admitted') - went /\ went \in 0..Len(admitted')
        BY <4>1
      <4>3. QED
        BY <4>2 DEF went
    <3>2. \A i \in 1..(d + k) : admitted'[i] <= horizon'
      BY <1>7, <2>3
    <3>3. ASSUME NEW i \in 1..Len(stamps') PROVE stamps'[i] = admitted'[i + (d + k)]
      <4>1. CASE i = Len(win) + 1
        <5>1. Len(admitted) \in Int /\ d + k \in Int /\ Len(win) = Len(admitted) - (d + k)
          BY <1>4, <1>8
        <5>2. i + (d + k) = Len(admitted) + 1
          BY <3>0, <4>1, <5>1
        <5>3. QED
          BY <2>2, <2>3, <4>1, <5>2
      <4>2. CASE i # Len(win) + 1
        <5>0. Len(stamps') = Len(win) + 1 /\ i \in Int /\ 1 <= i /\ i <= Len(stamps')
          BY <2>2, <3>0
        <5>1. i \in 1..Len(win) /\ i + (d + k) \in 1..Len(admitted)
          <6>1. Len(admitted) \in Nat /\ d + k \in Nat /\ Len(win) = Len(admitted) - (d + k)
            BY <1>4, <1>8
          <6>2. i <= Len(win)
            BY <3>0, <4>2, <5>0
          <6>3. QED
            BY <3>0, <5>0, <6>1, <6>2
        <5>2. QED
          BY <1>8, <2>2, <2>3, <5>1
      <4>3. QED
        BY <4>1, <4>2
    <3>4. QED
      BY <3>1, <3>2, <3>3 DEF Kept
  <2>5. RefusedLeavesNoTrace'
    <3>1. lifetime' = Len(admitted') /\ total' = lifetime' + exempt'
      BY <1>4, <1>6, <2>1, <2>3 DEF LimiterInv, RefusedLeavesNoTrace
    <3>2. Len(stamps') <= Len(admitted')
      BY <1>4, <1>8, <2>2, <2>3
    <3>3. Enforce => Len(stamps') <= Limit
      BY <1>1, <1>2, <1>9, <2>2
    <3>4. QED
      BY <3>1, <3>2, <3>3 DEF RefusedLeavesNoTrace
  <2>6. lifetime' \in Nat /\ total' \in Nat /\ exempt' \in Nat
    BY <1>4, <1>6, <2>1
  <2>7. QED
    BY <1>5, <1>6, <2>2, <2>3, <2>4, <2>5, <2>6 DEF LimiterInv
<1>10. CASE Enforce /\ exceeded
  <2>1. stamps' = win /\ UNCHANGED <<admitted, lifetime, total>>
    BY <1>10 DEF Decide, win
  <2>2. Kept(d + k)'
    BY <1>7, <1>8, <2>1 DEF Kept
  <2>3. RefusedLeavesNoTrace'
    <3>0. RefusedLeavesNoTrace
      BY DEF LimiterInv
    <3>1. Len(stamps') \in Nat /\ Len(stamps) \in Nat /\ Len(admitted) \in Nat /\ Len(stamps') <= Len(stamps)
      BY <1>2, <1>4, <2>1
    <3>2. Len(stamps') <= Len(admitted') /\ (Enforce => Len(stamps') <= Limit)
      BY <2>1, <3>0, <3>1, LimitsAssumption DEF RefusedLeavesNoTrace
    <3>3. lifetime' = Len(admitted') /\ total' = lifetime' + exempt'
      BY <1>6, <2>1, <3>0 DEF RefusedLeavesNoTrace
    <3>4. QED
      BY <3>2, <3>3 DEF RefusedLeavesNoTrace
  <2>4. QED
    BY <1>2, <1>4, <1>5, <1>6, <1>8, <2>1, <2>2, <2>3 DEF LimiterInv
<1>11. QED
  BY <1>9, <1>10

LEMMA LimiterStepOk == LimiterInv /\ [LimiterNext]_limiterVars => LimiterInv'
<1> SUFFICES ASSUME LimiterInv, [LimiterNext]_limiterVars PROVE LimiterInv'
  OBVIOUS
<1>1. CASE UNCHANGED limiterVars
  BY <1>1 DEF limiterVars, stats, LimiterInv, Kept, RefusedLeavesNoTrace
<1>2. ASSUME UNCHANGED <<stamps, admitted, horizon>>, lifetime' = lifetime,
             NEW k \in Nat, total' = total + k, exempt' = exempt + k, limiterNow' \in Nat,
             nowOf' \in [Savers -> Int]
      PROVE  LimiterInv'
  <2>1. RefusedLeavesNoTrace'
    <3>1. RefusedLeavesNoTrace /\ total \in Nat /\ exempt \in Nat /\ lifetime \in Nat
      BY DEF LimiterInv
    <3>2. total' = lifetime' + exempt'
      <4>1. total = lifetime + exempt
        BY <3>1 DEF RefusedLeavesNoTrace
      <4>2. total + k = lifetime + (exempt + k)
        BY <3>1, <4>1
      <4>3. QED
        BY <1>2, <4>2
    <3>3. QED
      BY <1>2, <3>1, <3>2 DEF RefusedLeavesNoTrace
  <2>2. (\E d \in 0..Len(admitted) : Kept(d))'
    BY <1>2 DEF LimiterInv, Kept
  <2>3. total' \in Nat /\ exempt' \in Nat
    BY <1>2 DEF LimiterInv
  <2>4. QED
    BY <1>2, <2>1, <2>2, <2>3 DEF LimiterInv
<1>3. CASE LimiterTick
  <2>1. limiterNow' \in Nat /\ total' = total + 0 /\ exempt' = exempt + 0
    BY <1>3 DEF LimiterTick, LimiterInv, stats
  <2>2. QED
    BY <1>2, <1>3, <2>1 DEF LimiterTick, stats, LimiterInv
<1>4. ASSUME NEW t \in Savers, Exempt(t) PROVE LimiterInv'
  <2>1. total' = total + 1 /\ exempt' = exempt + 1
    BY <1>4 DEF Exempt
  <2>2. QED
    BY <1>2, <1>4, <2>1 DEF Exempt, LimiterInv
<1>5. ASSUME NEW t \in Savers, ReadClock(t) PROVE LimiterInv'
  <2>1. nowOf' \in [Savers -> Int] /\ total' = total + 0 /\ exempt' = exempt + 0
    BY <1>5 DEF ReadClock, LimiterInv, stats
  <2>2. QED
    BY <1>2, <1>5, <2>1 DEF ReadClock, stats, LimiterInv
<1>6. QED
  BY <1>1, <1>3, <1>4, <1>5, DecideOk DEF LimiterNext, CheckDone

LEMMA LimiterSafe == LimiterSpec => []LimiterInv
BY LimiterInitOk, LimiterStepOk, PTL DEF LimiterSpec

\* Shifting the kept stamps by the length of the dropped prefix is a bijection on the
\* stamps inside the window.
LEMMA KeptCounts == LimiterInv => NeverForgets
<1> SUFFICES ASSUME LimiterInv PROVE NeverForgets
  OBVIOUS
<1>1. PICK d \in 0..Len(admitted) : Kept(d)
  BY DEF LimiterInv
<1> DEFINE S == {i \in 1..Len(stamps) : stamps[i] > horizon}
           T == {i \in 1..Len(admitted) : admitted[i] > horizon}
           f == [i \in S |-> i + d]
<1>0. Len(stamps) \in Nat /\ Len(admitted) \in Nat /\ horizon \in Int /\ admitted \in Seq(Int)
  BY DEF LimiterInv
<1>2. \A i \in S : i + d \in T
  BY <1>0, <1>1 DEF Kept
<1>3. \A j \in T : j - d \in S /\ (j - d) + d = j
  <2> SUFFICES ASSUME NEW j \in T PROVE j - d \in S /\ (j - d) + d = j
    OBVIOUS
  <2>1. j \in 1..Len(admitted) /\ admitted[j] > horizon /\ admitted[j] \in Int
    BY <1>0
  <2>2. ~(j <= d)
    BY <1>0, <1>1, <2>1 DEF Kept
  <2>3. j - d \in 1..Len(stamps) /\ (j - d) + d = j
    BY <1>0, <1>1, <2>1, <2>2 DEF Kept
  <2>4. QED
    BY <1>1, <2>1, <2>3 DEF Kept
<1>4. \A i \in S : i \in Int
  OBVIOUS
<1> HIDE DEF S, T
<1>5. f \in [S -> T] /\ (\A a, b \in S : f[a] = f[b] => a = b) /\ (\A j \in T : \E i \in S : f[i] = j)
  BY <1>2, <1>3, <1>4
<1>6. f \in Bijection(S, T)
  <2> HIDE DEF f
  <2>1. QED
    BY <1>5, Fun_IsBij
<1>7. ExistsBijection(S, T)
  BY <1>6 DEF ExistsBijection
<1>8. IsFiniteSet(S)
  <2>1. IsFiniteSet(1..Len(stamps))
    BY <1>0, FS_Interval
  <2>2. QED
    BY <2>1, FS_Subset DEF S
<1>9. Cardinality(T) = Cardinality(S)
  BY <1>7, <1>8, FS_Bijection
<1>10. QED
  BY <1>9 DEF NeverForgets, CountAfter, S, T

\* Whatever clocks the threads prune with, and in whatever order, every admitted write
\* that is inside every later window is still counted: the limiter never admits more in
\* a minute because it has forgotten something.
THEOREM LimiterForgetsNothing == LimiterSpec => []NeverForgets
BY LimiterSafe, KeptCounts, PTL

\* A refused write leaves no trace, an admitted one is counted once, and with enforcement
\* the window never outgrows the limit.
THEOREM LimiterExact == LimiterSpec => []RefusedLeavesNoTrace
<1>1. LimiterInv => RefusedLeavesNoTrace
  BY DEF LimiterInv
<1>2. QED
  BY <1>1, LimiterSafe, PTL

-----------------------------------------------------------------------------
(* The diagnostics circuit.                                                *)

\* Every probe counted since HALF_OPEN was entered is in the history of this recovery.
ProbeInv ==
    /\ probes \in Nat /\ recovery \in Seq(Scores) /\ score \in [Checkers -> Scores]
    /\ state = "halfOpen" => probes <= Len(recovery)

LEMMA ProbeInitOk == CircuitInit => ProbeInv
BY DEF CircuitInit, ProbeInv, Scores

\* A run's transition leaves HALF_OPEN, and forgets the recovery, or keeps both.
LEMMA TransitionOk ==
    ASSUME ProbeInv, NEW t \in Checkers, Transition(t)
    PROVE  /\ ProbeInv'
           /\ state = "halfOpen" /\ state' \in {"closed", "degraded"} => Len(recovery) >= ProbesRequired
<1>1. probes \in Nat /\ recovery \in Seq(Scores) /\ Len(recovery) \in Nat /\ ProbesRequired \in Nat
      /\ score[t] \in Scores
  BY CircuitAssumption DEF ProbeInv
<1>2. state' = NextState(score[t]) /\ UNCHANGED score
      /\ probes' = (IF state = "halfOpen" /\ state' # "halfOpen" THEN 0 ELSE probes)
      /\ recovery' = (IF state' = "halfOpen" THEN recovery ELSE <<>>)
  BY DEF Transition
<1>3. ByScore(score[t]) # "halfOpen" /\ (score[t] = "critical" => ByScore(score[t]) = "open")
  BY <1>1 DEF ByScore, Scores
<1>4. CASE state = "halfOpen" /\ score[t] # "critical" /\ probes < ProbesRequired
  <2>1. state' = "halfOpen" /\ recovery' = recovery /\ probes' = probes
    BY <1>2, <1>4 DEF NextState
  <2>2. QED
    BY <1>2, <1>4, <2>1 DEF ProbeInv
<1>5. CASE ~(state = "halfOpen" /\ score[t] # "critical" /\ probes < ProbesRequired)
  <2>1. state' = ByScore(score[t])
    BY <1>2, <1>5 DEF NextState
  <2>2. state' # "halfOpen" /\ recovery' = <<>> /\ probes' \in Nat
    BY <1>1, <1>2, <1>3, <2>1
  <2>3. state = "halfOpen" /\ state' \in {"closed", "degraded"} => probes >= ProbesRequired
    BY <1>1, <1>3, <1>5, <2>1
  <2>4. QED
    BY <1>1, <1>2, <2>2, <2>3 DEF ProbeInv
<1>6. QED
  BY <1>4, <1>5

LEMMA RecordProbeOk ==
    ASSUME ProbeInv, NEW t \in Checkers, RecordProbe(t)
    PROVE  /\ ProbeInv'
           /\ state = "halfOpen" /\ state' \in {"closed", "degraded"} => Len(recovery') >= ProbesRequired
<1>1. probes \in Nat /\ recovery \in Seq(Scores) /\ Len(recovery) \in Nat /\ ProbesRequired \in Nat
      /\ score[t] \in Scores
  BY CircuitAssumption DEF ProbeInv
<1>2. probes' = probes + 1 /\ recovery' = Append(recovery, score[t]) /\ UNCHANGED score
      /\ state' = IF probes + 1 >= ProbesRequired /\ score[t] \in {"fair", "good"} THEN "degraded" ELSE state
  BY DEF RecordProbe, locals
<1>3. recovery' \in Seq(Scores) /\ Len(recovery') = Len(recovery) + 1
  BY <1>1, <1>2
<1>4. QED
  BY <1>1, <1>2, <1>3 DEF ProbeInv

LEMMA CircuitStepOk ==
    ASSUME ProbeInv, [CircuitNext]_circuitVars
    PROVE  /\ ProbeInv'
           /\ state = "halfOpen" /\ state' \in {"closed", "degraded"}
                => Len(recovery') >= ProbesRequired \/ Len(recovery) >= ProbesRequired
<1>1. ASSUME UNCHANGED <<state, probes, recovery>>, score' \in [Checkers -> Scores]
      PROVE  ProbeInv' /\ ~(state = "halfOpen" /\ state' \in {"closed", "degraded"})
  BY <1>1 DEF ProbeInv
<1>2. CASE UNCHANGED circuitVars \/ Tick
  BY <1>1, <1>2 DEF circuitVars, circuit, locals, Tick, ProbeInv
<1>3. ASSUME NEW t \in Checkers, Observe(t)
      PROVE  ProbeInv' /\ ~(state = "halfOpen" /\ state' \in {"closed", "degraded"})
  BY <1>1, <1>3 DEF Observe, circuit, ProbeInv
<1>4. ASSUME NEW t \in Checkers,
             Remediate(t) \/ SkipRemedy(t) \/ StartRemedy(t) \/ FinishRemedy(t) \/ Publish(t)
      PROVE  ProbeInv' /\ ~(state = "halfOpen" /\ state' \in {"closed", "degraded"})
  <2>1. UNCHANGED <<state, probes, recovery, score>>
    BY <1>4 DEF Remediate, SkipRemedy, StartRemedy, FinishRemedy, Publish, circuit, locals
  <2>2. QED
    BY <1>1, <2>1 DEF ProbeInv
<1>5. ASSUME NEW t \in Checkers, EnterHalfOpenIfCooled(t)
      PROVE  ProbeInv' /\ ~(state = "halfOpen" /\ state' \in {"closed", "degraded"})
  <2>1. UNCHANGED score
        /\ \/ UNCHANGED <<state, probes, recovery>>
           \/ state = "open" /\ state' = "halfOpen" /\ probes' = 0 /\ recovery' = <<>>
    BY <1>5 DEF EnterHalfOpenIfCooled
  <2>2. CASE UNCHANGED <<state, probes, recovery>>
    BY <1>1, <2>1, <2>2 DEF ProbeInv
  <2>3. CASE state = "open" /\ state' = "halfOpen" /\ probes' = 0 /\ recovery' = <<>>
    BY <2>1, <2>3 DEF ProbeInv
  <2>4. QED
    BY <2>1, <2>2, <2>3
<1>6. QED
  BY <1>2, <1>3, <1>4, <1>5, TransitionOk, RecordProbeOk DEF CircuitNext, RunDone, Step

\* However the unlocked runs of several threads interleave, the breaker leaves HALF_OPEN
\* for DEGRADED or CLOSED only after the probes the configuration asks for.
THEOREM RecoveryNeedsProbes == CircuitSpec => RecoveryTakesProbes
<1>1. CircuitInit => ProbeInv
  BY ProbeInitOk
<1>2. ProbeInv /\ [CircuitNext]_circuitVars => ProbeInv'
  BY CircuitStepOk
<1>3. ProbeInv /\ [CircuitNext]_circuitVars =>
         [state = "halfOpen" /\ state' \in {"closed", "degraded"}
            => Len(recovery') >= ProbesRequired \/ Len(recovery) >= ProbesRequired]_circuitVars
  BY CircuitStepOk
<1>4. QED
  BY <1>1, <1>2, <1>3, PTL DEF CircuitSpec, RecoveryTakesProbes

-----------------------------------------------------------------------------
(* The span exporter's circuit.                                            *)

\* The breaker's count is the number of failures in a row: overlapping exports neither
\* lose one nor count one twice.
SpanInv ==
    /\ failures \in 0..MaxFailures /\ streak = failures /\ clock \in Nat
    /\ export \in [Exporters -> {"idle", "exporting"}]
    /\ TrippedIsOpen

LEMMA SpanStepOk == SpanInv /\ [SpNext]_spVars => SpanInv'
<1> SUFFICES ASSUME SpanInv, [SpNext]_spVars PROVE SpanInv'
  OBVIOUS
<1>0. MaxFailures \in Nat \ {0} /\ OpenFor \in Nat /\ Closed \notin Int
  BY SpanAssumption
<1>1. CASE UNCHANGED spVars
  BY <1>1 DEF spVars, SpanInv, TrippedIsOpen
<1>2. CASE Pass
  BY <1>2 DEF Pass, SpanInv, TrippedIsOpen
<1>3. ASSUME NEW e \in Exporters, Try(e) PROVE SpanInv'
  BY <1>3 DEF Try, SpanInv, TrippedIsOpen
<1>4. ASSUME NEW e \in Exporters, Succeed(e) PROVE SpanInv'
  BY <1>0, <1>4 DEF Succeed, SpanInv, TrippedIsOpen
<1>5. ASSUME NEW e \in Exporters, Fail(e) PROVE SpanInv'
  <2> DEFINE n == OneMore(failures)
  <2>1. n \in 0..MaxFailures
    BY <1>0 DEF SpanInv, OneMore
  <2>2. failures' = n /\ streak' = n /\ UNCHANGED clock
        /\ openUntil' = (IF n >= MaxFailures THEN clock + OpenFor ELSE openUntil)
        /\ export' \in [Exporters -> {"idle", "exporting"}]
    BY <1>5 DEF Fail, SpanInv
  <2>3. clock + OpenFor # Closed
    BY <1>0 DEF SpanInv
  <2> HIDE DEF n
  <2>4. TrippedIsOpen'
    BY <1>0, <2>1, <2>2, <2>3 DEF TrippedIsOpen
  <2>5. QED
    BY <2>1, <2>2, <2>4 DEF SpanInv
<1>6. QED
  BY <1>1, <1>2, <1>3, <1>4, <1>5 DEF SpNext, Drop

\* After MaxFailures failures in a row, and until an export succeeds, the circuit is open
\* or trying: with any number of overlapping exports.
THEOREM TrippedCircuitStaysOpen == SpSpec => []TrippedIsOpen
<1>1. SpInit => SpanInv
  BY SpanAssumption DEF SpInit, SpanInv, TrippedIsOpen
<1>2. SpanInv => TrippedIsOpen
  BY DEF SpanInv
<1>3. QED
  BY <1>1, <1>2, SpanStepOk, PTL DEF SpSpec

(***************************************************************************)
(* The research cache: an answer is fresh unless its source says           *)
(* otherwise. The invariant bounds the age of what a call in flight holds  *)
(* and of what the store keeps.                                            *)
(***************************************************************************)
\* What a provider made, and what the store keeps of it.
Made == [made : Nat, small : BOOLEAN, safe : BOOLEAN]
Copies == [content : Made, cached_at : Nat, stamp : {"dated", "missing", "malformed"}]
Sources == {"none", "cache", "api", "stale_fallback", "failed", "blocked"}
LookupRecord ==
  [pc : {"idle", "decide", "scan", "save", "import", "answered"}, kind : LookupKinds \union {NoCopy}, ttl : Nat, began : Nat,
   copy : Copies \union {NoCopy}, last : Nat \union {NoCopy}, got : Made \union {NoCopy},
   answer : Made \union {NoCopy}, source : Sources]

\* A stamped copy waited at most MaxHold for its save, and a call that holds a
\* result fetched it (an import read it) after it began, at most MaxHold ago.
CopyIn(copy) ==
  copy.stamp = "dated" => copy.content.made <= copy.cached_at /\ copy.cached_at - copy.content.made <= MaxHold
Busy == {"scan", "save", "import"}
LookupIn(j, hour) ==
  /\ j.began <= hour
  /\ j.pc \in Busy \union {"decide"} => j.kind \in LookupKinds
  /\ j.pc = "import" => j.kind = "docs"
  /\ j.pc \in Busy =>
       j.got \in Made /\ j.began <= j.got.made /\ j.got.made <= hour /\ hour - j.got.made <= MaxHold
  /\ j.pc = "answered" /\ j.source \in {"cache", "api"} =>
       \/ j.source = "cache" /\ j.copy.stamp = "missing"
       \/ j.began - j.answer.made < j.ttl + MaxHold

RsInv ==
  /\ lookupNow \in Nat
  /\ cached \in [LookupKinds -> Copies \union {NoCopy}]
  /\ saved \in [LookupKinds -> Nat \union {NoCopy}]
  /\ lookup \in [Callers -> LookupRecord]
  /\ \A k \in LookupKinds : cached[k] # NoCopy => CopyIn(cached[k])
  /\ \A c \in Callers : LookupIn(lookup[c], lookupNow)

\* A caller's step that leaves the store alone.
LEMMA LookupStep ==
    ASSUME RsInv, NEW c \in Callers, NEW j \in LookupRecord, LookupIn(j, lookupNow),
           lookup' = [lookup EXCEPT ![c] = j], UNCHANGED <<cached, saved, lookupNow>>
    PROVE  RsInv'
BY DEF RsInv

LEMMA AnsweredOk ==
    ASSUME RsInv, NEW c \in Callers, NEW a \in Made \union {NoCopy}, NEW s \in Sources,
           s \in {"cache", "api"} => lookup[c].began - a.made < lookup[c].ttl + MaxHold
    PROVE  LookupAnswered(c, a, s) \in LookupRecord /\ LookupIn(LookupAnswered(c, a, s), lookupNow)
<1> DEFINE j == LookupAnswered(c, a, s)
<1>1. lookup[c] \in LookupRecord /\ LookupIn(lookup[c], lookupNow)
  BY DEF RsInv
<1>2. /\ j \in LookupRecord /\ j.pc = "answered" /\ j.answer = a /\ j.source = s
      /\ j.began = lookup[c].began /\ j.ttl = lookup[c].ttl
  BY <1>1 DEF LookupAnswered, LookupRecord
<1> HIDE DEF j
<1>3. LookupIn(j, lookupNow)
  BY <1>1, <1>2 DEF LookupIn, Busy
<1>4. QED
  BY <1>2, <1>3 DEF j

LEMMA FallbackOk ==
    ASSUME RsInv, NEW c \in Callers
    PROVE  Fallback(c) \in LookupRecord /\ LookupIn(Fallback(c), lookupNow)
<1>1. CASE lookup[c].copy # NoCopy
  <2>1. lookup[c].copy.content \in Made
    BY <1>1 DEF RsInv, LookupRecord, Copies
  <2>2. QED
    BY <1>1, <2>1, AnsweredOk DEF Fallback, Sources
<1>2. CASE lookup[c].copy = NoCopy
  BY <1>2, AnsweredOk DEF Fallback, Sources
<1>3. QED
  BY <1>1, <1>2

LEMMA ReadCachedOk ==
    ASSUME RsInv, NEW c \in Callers, NEW kind \in LookupKinds, NEW ttl \in Ttls, ReadCached(c, kind, ttl)
    PROVE  RsInv'
<1> DEFINE began == [NoLookup EXCEPT !.pc = "decide", !.kind = kind, !.ttl = ttl, !.began = lookupNow,
                                     !.copy = cached[kind], !.last = saved[kind]]
           hit == cached[kind] # NoCopy /\ IsFresh(cached[kind], ttl)
           j == IF hit THEN [began EXCEPT !.pc = "answered", !.source = "cache", !.last = NoCopy,
                                          !.answer = cached[kind].content]
                ELSE began
<1>1. ttl \in Nat /\ lookupNow \in Nat /\ MaxHold \in Nat \ {0}
  BY ResearchAssumption DEF RsInv
<1>2. /\ began \in LookupRecord /\ began.pc = "decide" /\ began.kind = kind /\ began.ttl = ttl
      /\ began.began = lookupNow
  <2>1. cached[kind] \in Copies \union {NoCopy} /\ saved[kind] \in Nat \union {NoCopy}
    BY DEF RsInv
  <2>2. QED
    BY <1>1, <2>1 DEF NoLookup, LookupRecord, Sources
<1> HIDE DEF began
<1>3. CASE hit
  <2>1. /\ cached[kind] \in Copies /\ CopyIn(cached[kind]) /\ cached[kind].content \in Made
        /\ cached[kind].content.made \in Nat /\ cached[kind].cached_at \in Nat
        /\ \/ cached[kind].stamp = "missing"
           \/ cached[kind].stamp = "dated" /\ lookupNow - cached[kind].cached_at < ttl
    BY <1>3 DEF RsInv, IsFresh, Copies, Made
  <2>2. /\ j \in LookupRecord /\ j.pc = "answered" /\ j.answer = cached[kind].content /\ j.ttl = ttl
        /\ j.began = lookupNow /\ j.source = "cache" /\ j.copy = cached[kind]
    <3>1. began.copy = cached[kind]
      BY DEF began, NoLookup
    <3>2. QED
      BY <1>2, <1>3, <2>1, <3>1 DEF LookupRecord, Sources
  <2> HIDE DEF j, hit
  <2>3. j.copy.stamp = "missing" \/ j.began - j.answer.made < j.ttl + MaxHold
    BY <1>1, <2>1, <2>2 DEF CopyIn
  <2>4. LookupIn(j, lookupNow)
    BY <1>1, <2>2, <2>3 DEF LookupIn, Busy
  <2>5. lookup' = [lookup EXCEPT ![c] = j] /\ UNCHANGED <<cached, saved, lookupNow>>
    BY DEF ReadCached, j, hit, began
  <2>6. QED
    BY <2>2, <2>4, <2>5, LookupStep
<1>4. CASE ~hit
  <2>1. LookupIn(began, lookupNow)
    BY <1>1, <1>2 DEF LookupIn, Busy
  <2>2. lookup' = [lookup EXCEPT ![c] = began] /\ UNCHANGED <<cached, saved, lookupNow>>
    BY <1>4 DEF ReadCached, began
  <2>3. QED
    BY <1>2, <2>1, <2>2, LookupStep
<1>5. QED
  BY <1>3, <1>4

LEMMA FetchOk ==
    ASSUME RsInv, NEW c \in Callers, NEW small \in BOOLEAN, NEW safe \in BOOLEAN, Fetch(c, small, safe)
    PROVE  RsInv'
<1> DEFINE got == [made |-> lookupNow, small |-> small, safe |-> safe]
           j == [lookup[c] EXCEPT !.pc = "scan", !.got = got]
<1>1. lookup[c] \in LookupRecord /\ LookupIn(lookup[c], lookupNow) /\ lookup[c].pc = "decide" /\ lookupNow \in Nat
  BY DEF RsInv, Fetch
<1>2. got \in Made /\ got.made = lookupNow
  BY <1>1 DEF Made
<1> HIDE DEF got
<1>3. /\ j \in LookupRecord /\ j.pc = "scan" /\ j.got = got /\ j.began = lookup[c].began
      /\ j.kind = lookup[c].kind
  BY <1>1, <1>2 DEF LookupRecord
<1>4. lookup' = [lookup EXCEPT ![c] = j] /\ UNCHANGED <<cached, saved, lookupNow>>
  BY <1>1 DEF Fetch, got, RsInv
<1> HIDE DEF j
<1>5. LookupIn(j, lookupNow)
  BY <1>1, <1>2, <1>3, ResearchAssumption DEF LookupIn, Busy
<1>6. QED
  BY <1>3, <1>4, <1>5, LookupStep

LEMMA ScanOk ==
    ASSUME RsInv, NEW c \in Callers, Scan(c)
    PROVE  RsInv'
<1> DEFINE blocked == lookup[c].kind # "docs" /\ ~lookup[c].got.safe
           j == [lookup[c] EXCEPT !.pc = "save"]
<1>1. lookup[c] \in LookupRecord /\ LookupIn(lookup[c], lookupNow) /\ lookup[c].pc = "scan" /\ lookupNow \in Nat
  BY DEF RsInv, Scan
<1>2. CASE blocked
  <2>1. lookup' = [lookup EXCEPT ![c] = LookupAnswered(c, NoCopy, "blocked")]
        /\ UNCHANGED <<cached, saved, lookupNow>>
    BY <1>2 DEF Scan
  <2>2. QED
    BY <2>1, AnsweredOk, LookupStep DEF Sources
<1>3. CASE ~blocked
  <2>1. lookup' = [lookup EXCEPT ![c] = j] /\ UNCHANGED <<cached, saved, lookupNow>>
    BY <1>3 DEF Scan
  <2>2. /\ j \in LookupRecord /\ j.pc = "save" /\ j.got = lookup[c].got /\ j.began = lookup[c].began
        /\ j.kind = lookup[c].kind
    BY <1>1 DEF LookupRecord
  <2> HIDE DEF j
  <2>3. LookupIn(j, lookupNow)
    BY <1>1, <2>2 DEF LookupIn, Busy
  <2>4. QED
    BY <2>1, <2>2, <2>3, LookupStep
<1>4. QED
  BY <1>2, <1>3

\* A save stamps the copy with its own instant, at most MaxHold after the
\* content was produced or read.
LEMMA PersistOk ==
    ASSUME RsInv, NEW kind \in LookupKinds, NEW got \in Made, NEW up \in BOOLEAN, Persist(kind, got, up),
           got.made <= lookupNow, lookupNow - got.made <= MaxHold,
           lookup' \in [Callers -> LookupRecord], \A d \in Callers : LookupIn(lookup'[d], lookupNow)
    PROVE  RsInv'
<1> DEFINE copy == [content |-> got, cached_at |-> lookupNow, stamp |-> "dated"]
<1>1. copy \in Copies /\ CopyIn(copy) /\ lookupNow \in Nat
  BY DEF RsInv, Copies, CopyIn
<1>2. /\ cached' = [cached EXCEPT ![kind] = IF up /\ Accepts(kind, got) THEN copy ELSE @]
      /\ saved' = [saved EXCEPT ![kind] = IF up /\ got.small THEN lookupNow ELSE @]
      /\ lookupNow' = lookupNow
  BY DEF Persist
<1> HIDE DEF copy
<1>3. /\ cached' \in [LookupKinds -> Copies \union {NoCopy}]
      /\ \A k \in LookupKinds : cached'[k] # NoCopy => CopyIn(cached'[k])
  BY <1>1, <1>2 DEF RsInv
<1>4. saved' \in [LookupKinds -> Nat \union {NoCopy}]
  BY <1>1, <1>2 DEF RsInv
<1>5. QED
  BY <1>1, <1>2, <1>3, <1>4 DEF RsInv

\* One caller's record is replaced by one that is in order.
LEMMA LookupSet ==
    ASSUME RsInv, NEW c \in Callers, NEW j \in LookupRecord, LookupIn(j, lookupNow),
           lookup' = [lookup EXCEPT ![c] = j]
    PROVE  lookup' \in [Callers -> LookupRecord] /\ \A d \in Callers : LookupIn(lookup'[d], lookupNow)
BY DEF RsInv

\* The call answers with what it fetched after it began.
LEMMA SaveCopyOk ==
    ASSUME RsInv, NEW c \in Callers, NEW up \in BOOLEAN, SaveCopy(c, up)
    PROVE  RsInv'
<1> DEFINE kind == lookup[c].kind
           got == lookup[c].got
           j == LookupAnswered(c, got, "api")
<1>1. lookup[c] \in LookupRecord /\ LookupIn(lookup[c], lookupNow) /\ lookup[c].pc = "save" /\ lookupNow \in Nat
  BY DEF RsInv, SaveCopy
<1>2. /\ kind \in LookupKinds /\ got \in Made /\ got.made \in Nat /\ lookup[c].began \in Nat /\ lookup[c].ttl \in Nat
      /\ lookup[c].began <= got.made /\ got.made <= lookupNow /\ lookupNow - got.made <= MaxHold
  BY <1>1 DEF LookupIn, Busy, LookupRecord, Made
<1>3. j \in LookupRecord /\ LookupIn(j, lookupNow)
  <2>1. lookup[c].began - got.made < lookup[c].ttl + MaxHold
    BY <1>2, ResearchAssumption
  <2>2. QED
    BY <1>2, <2>1, AnsweredOk DEF Sources
<1>4. Persist(kind, got, up) /\ lookup' = [lookup EXCEPT ![c] = j]
  BY DEF SaveCopy
<1> HIDE DEF j, got, kind
<1>5. QED
  BY <1>2, <1>3, <1>4, LookupSet, PersistOk

\* An import holds what it read from the instant it read it.
LEMMA ImportFileOk ==
    ASSUME RsInv, NEW c \in Callers, NEW skip \in BOOLEAN, NEW small \in BOOLEAN,
           "docs" \in LookupKinds, ImportFile(c, skip, small)
    PROVE  RsInv'
<1> DEFINE got == [made |-> lookupNow, small |-> small, safe |-> TRUE]
           j == [NoLookup EXCEPT !.pc = "import", !.kind = "docs", !.began = lookupNow, !.got = got]
<1>1. lookupNow \in Nat /\ got \in Made /\ got.made = lookupNow
  BY DEF RsInv, Made
<1>2. lookup' = [lookup EXCEPT ![c] = j] /\ UNCHANGED <<cached, saved, lookupNow>>
  BY DEF ImportFile
<1> HIDE DEF got
<1>3. j \in LookupRecord /\ j.pc = "import" /\ j.kind = "docs" /\ j.got = got /\ j.began = lookupNow
  BY <1>1 DEF NoLookup, LookupRecord, Sources
<1> HIDE DEF j
<1>4. LookupIn(j, lookupNow)
  BY <1>1, <1>3, ResearchAssumption DEF LookupIn, Busy
<1>5. QED
  BY <1>2, <1>3, <1>4, LookupStep

LEMMA ImportSaveOk ==
    ASSUME RsInv, NEW c \in Callers, NEW up \in BOOLEAN, "docs" \in LookupKinds, ImportSave(c, up)
    PROVE  RsInv'
<1>1. lookup[c] \in LookupRecord /\ LookupIn(lookup[c], lookupNow) /\ lookup[c].pc = "import" /\ lookupNow \in Nat
  BY DEF RsInv, ImportSave
<1>2. /\ lookup[c].got \in Made /\ lookup[c].got.made <= lookupNow /\ lookupNow - lookup[c].got.made <= MaxHold
  BY <1>1 DEF LookupIn, Busy
<1>3. NoLookup \in LookupRecord /\ LookupIn(NoLookup, lookupNow)
  BY <1>1 DEF NoLookup, LookupRecord, Sources, LookupIn, Busy
<1>4. Persist("docs", lookup[c].got, up) /\ lookup' = [lookup EXCEPT ![c] = NoLookup]
  BY DEF ImportSave
<1>5. QED
  BY <1>2, <1>3, <1>4, LookupSet, PersistOk

\* A client's own memory under the key claims no instant.
LEMMA PutPlainOk ==
    ASSUME RsInv, NEW kind \in LookupKinds, NEW stamp \in {"missing", "malformed"}, PutPlain(kind, stamp)
    PROVE  RsInv'
<1> DEFINE copy == [content |-> [made |-> lookupNow, small |-> TRUE, safe |-> TRUE],
                    cached_at |-> 0, stamp |-> stamp]
<1>1. copy \in Copies /\ CopyIn(copy)
  BY DEF RsInv, Copies, CopyIn, Made
<1>2. /\ cached' = [cached EXCEPT ![kind] = copy] /\ saved' = [saved EXCEPT ![kind] = NoCopy]
      /\ UNCHANGED <<lookup, lookupNow>>
  BY DEF PutPlain
<1> HIDE DEF copy
<1>3. QED
  BY <1>1, <1>2 DEF RsInv

LEMMA LookupTickOk ==
    ASSUME RsInv, LookupTick
    PROVE  RsInv'
<1>1. ASSUME NEW c \in Callers PROVE LookupIn(lookup[c], lookupNow + 1)
  <2>1. lookup[c] \in LookupRecord /\ LookupIn(lookup[c], lookupNow) /\ lookupNow \in Nat
    BY DEF RsInv
  <2>2. lookup[c].pc \in Busy => lookupNow - lookup[c].got.made < MaxHold
    BY DEF LookupTick, Busy
  <2>3. lookup[c].pc \in Busy => lookup[c].got.made \in Nat
    BY <2>1 DEF LookupIn, Busy, Made
  <2>4. lookup[c].began \in Nat
    BY <2>1 DEF LookupRecord
  <2>5. QED
    BY <2>1, <2>2, <2>3, <2>4, ResearchAssumption DEF LookupIn, Busy
<1>2. QED
  BY <1>1 DEF RsInv, LookupTick

LEMMA RsInitOk == RsInit => RsInv
<1> SUFFICES ASSUME RsInit PROVE RsInv
  OBVIOUS
<1>1. NoLookup \in LookupRecord /\ LookupIn(NoLookup, 0)
  BY DEF NoLookup, LookupRecord, Sources, LookupIn, Busy
<1>2. QED
  BY <1>1 DEF RsInit, RsInv

LEMMA RsStepOk == RsInv /\ [RsNext]_rsVars => RsInv'
<1> SUFFICES ASSUME RsInv, [RsNext]_rsVars PROVE RsInv'
  OBVIOUS
<1>1. CASE UNCHANGED rsVars
  BY <1>1 DEF rsVars, RsInv
<1>2. ASSUME NEW c \in Callers, NotConfigured(c) \/ FetchFails(c)
      PROVE  RsInv'
  BY <1>2, FallbackOk, LookupStep DEF NotConfigured, FetchFails
<1>3. ASSUME NEW c \in Callers, NEW up \in BOOLEAN, ImportSave(c, up)
      PROVE  RsInv'
  <2>1. "docs" \in LookupKinds
    BY <1>3 DEF ImportSave, RsInv, LookupIn, Busy
  <2>2. QED
    BY <1>3, <2>1, ImportSaveOk
<1>4. QED
  BY <1>1, <1>2, <1>3, ReadCachedOk, FetchOk, ScanOk, SaveCopyOk, ImportFileOk, PutPlainOk, LookupTickOk DEF RsNext

\* For every number of callers and every time-to-live, an answer without a
\* warning came into the brain within its time-to-live plus the time content
\* may wait for its save, unless the copy it came from carries no stamp:
\* overlapping calls and imports that store older content last cost no more.
THEOREM AnswersAreFresh == RsSpec => []FreshUnlessWarned
<1>1. RsInv => FreshUnlessWarned
  BY DEF RsInv, LookupIn, FreshUnlessWarned
<1>2. QED
  BY <1>1, RsInitOk, RsStepOk, PTL DEF RsSpec

(***************************************************************************)
(* The tenancy migration. The application writes between any two           *)
(* statements of the tool; the inductive invariant says where the rows it  *)
(* believes stored are at each of them.                                    *)
(***************************************************************************)
TenantRows == [ver : {<<>>} \union (Ids \X Nat), ts : Nat, maps : Projects \union {NoId}, ingest : BOOLEAN]
AuditRows == [project : Projects \union {NoId}, agent : Agents \union {"unknown", NoId}]

TenancyType ==
    /\ base \in [Ids -> TenantRows] /\ live \in [Ids -> TenantRows]
    /\ audit \in [Keys -> AuditRows]
    /\ approved \subseteq Projects /\ writes \in Nat
    /\ table \in Tables
    /\ todo \subseteq {i \in DOMAIN plan : plan[i] # ToArchive /\ i.table = table}
    /\ todo # {} => pc = "rehome"

\* A target is a row of the same table under a real agent, and if it is in a
\* placeholder project then that one is approved.
TargetOk(i, to) ==
    /\ to \in Ids /\ to.table = i.table /\ to.agent \notin S3Agents
    /\ to.project \in S3Projects => to.project \in approved

PlanOk ==
    \A i \in DOMAIN plan :
        /\ i \in Ids /\ InS3(i)
        /\ plan[i] # ToArchive => TargetOk(i, plan[i])
        /\ pc # "refused" => plan[i] # i

ArchivedVersions == {a.row.ver : a \in archived}

\* While the tool works the committed rows hold everything; what it has moved or
\* deleted so far is elsewhere in its tables or in the archive.
LossInv ==
    /\ TenancyType /\ PlanOk
    /\ ~InTransaction => live = base
    /\ ~InTransaction /\ pc # "committed" => archived = {} /\ ~dirty
    /\ pc # "committed" => due \subseteq Versions(base)
    /\ ~dirty => due \subseteq Versions(live) \union ArchivedVersions
    /\ ~dirty /\ pc = "rehome" =>
          \A i \in Planned(table) : live[i] # NoRow => live[i].ver \in ArchivedVersions

\* The rules name rows of the table they are asked about.
LEMMA ClassifyOk ==
    ASSUME TenancyType, NEW i \in Ids, InS3(i)
    PROVE  Classify(i, base[i]) # ToArchive => TargetOk(i, Classify(i, base[i]))
<1> DEFINE r == base[i]
<1>1. audit[i.key] \in AuditRows /\ r \in TenantRows
  BY DEF Ids, TenancyType
<1>2. TargetAgent(i, r) \in Agents \ S3Agents
  BY <1>1, NamesAssumption DEF TargetAgent, AuditRows, S3Agents, Ids, IngestMatch, Legacy, NoId
<1>3. ASSUME NEW p \in Projects, NEW a \in Agents \ S3Agents, p \in S3Projects => p \in approved
      PROVE  TargetOk(i, Home(i, p, a))
  BY <1>3 DEF TargetOk, Home, Ids
<1>4. CASE R1(i)
  BY <1>1, <1>2, <1>3, <1>4 DEF Classify, R1, TenancyType
<1>5. CASE ~R1(i) /\ R2(i, r)
  BY <1>1, <1>2, <1>3, <1>5 DEF Classify, R2, TenancyType
<1>6. CASE ~R1(i) /\ ~R2(i, r) /\ R3(i, r)
  <2>1. Classify(i, r) = Home(i, i.project, "ingest") /\ i.project = Scout
    BY <1>6 DEF Classify, R3, IngestMatch
  <2>2. Scout \notin S3Projects /\ "ingest" \in Agents \ S3Agents /\ i.project \in Projects
    BY NamesAssumption DEF Scout, S3Projects, S3Agents, Ids
  <2>3. QED
    BY <1>3, <2>1, <2>2
<1>7. CASE ~R1(i) /\ ~R2(i, r) /\ ~R3(i, r) /\ R4(i)
  <2>1. Classify(i, r) = Home(i, i.project, Legacy)
    BY <1>7 DEF Classify
  <2>2. i.project \in Projects \ S3Projects /\ Legacy \in Agents \ S3Agents
    BY <1>7, NamesAssumption DEF R4, Legacy, S3Agents, Ids
  <2>3. QED
    BY <1>3, <2>1, <2>2
<1>8. CASE ~R1(i) /\ ~R2(i, r) /\ ~R3(i, r) /\ ~R4(i)
  BY <1>8 DEF Classify
<1>9. QED
  BY <1>4, <1>5, <1>6, <1>7, <1>8

\* Writing one row loses no version but the one it replaces.
Holds(D, r, A) == D \subseteq Versions(r) \union A

LEMMA WriteKeepsVersions ==
    ASSUME NEW r \in [Ids -> TenantRows], NEW i \in Ids, NEW row \in TenantRows, NEW D, NEW A, NEW new,
           Holds(D, r, A), new \subseteq {row.ver}, new # {} => row # NoRow
    PROVE  Holds((D \ {r[i].ver}) \union new, [r EXCEPT ![i] = row], A)
<1> USE DEF Holds
<1> DEFINE s == [r EXCEPT ![i] = row]
<1>1. \A j \in Ids : s[j] = IF j = i THEN row ELSE r[j]
  OBVIOUS
<1> HIDE DEF s
<1>2. ASSUME NEW v \in D, v # r[i].ver, v \notin A PROVE v \in Versions(s)
  <2>1. PICK j \in Ids : r[j] # NoRow /\ v = r[j].ver
    BY <1>2 DEF Versions, Present
  <2>2. j # i
    BY <1>2, <2>1
  <2>3. QED
    BY <1>1, <2>1, <2>2 DEF Versions, Present
<1>3. ASSUME NEW v \in new PROVE v \in Versions(s)
  BY <1>1, <1>3 DEF Versions, Present
<1>4. QED
  BY <1>2, <1>3 DEF s

LEMMA NewRowOk ==
    ASSUME NEW i \in Ids, NEW n \in Nat, NEW t \in Nat, NEW m \in Projects \union {NoId}, NEW g \in BOOLEAN
    PROVE  TableRow(i, n, t, m, g) \in TenantRows /\ TableRow(i, n, t, m, g) # NoRow
<1>1. <<i, n>> # <<>>
  OBVIOUS
<1>2. QED
  BY <1>1 DEF TableRow, TenantRows, NoRow

LEMMA NoRowOk == NoRow \in TenantRows
BY DEF NoRow, TenantRows

LEMMA SaveTimes == \A t \in Times \union {Max(Times) + 1} : t \in Nat
<1>1. PICK m \in Times : \A u \in Times : m >= u
  BY BoundsAssumption
<1>2. Max(Times) \in Times
  BY <1>1 DEF Max
<1>3. Times \subseteq Nat
  BY BoundsAssumption
<1> DEFINE x == Max(Times)
<1>4. x \in Nat
  BY <1>2, <1>3
<1> HIDE DEF x
<1>5. \A t \in Times \union {x + 1} : t \in Nat
  BY <1>3, <1>4
<1>6. QED
  BY <1>5 DEF x

LEMMA LossInit == Init => LossInv
<1> SUFFICES ASSUME Init PROVE LossInv
  OBVIOUS
<1>1. approved \subseteq Projects
  BY ApprovalsAssumption DEF Init
<1>2. base \in [Ids -> TenantRows]
  <2>1. PICK S, f : (\A i \in S : f[i] \in RowsAt(i)) /\ base = [i \in Ids |-> IF i \in S THEN f[i] ELSE NoRow]
    BY DEF Init
  <2>2. ASSUME NEW i \in Ids, NEW r \in RowsAt(i) PROVE r \in TenantRows
    <3>1. r \in [ver : {<<i, 0>>}, ts : Times, maps : {NoId} \union approved, ingest : BOOLEAN]
      BY DEF RowsAt
    <3>2. <<i, 0>> \in Ids \X Nat /\ Times \subseteq Nat
      BY BoundsAssumption
    <3>3. QED
      BY <1>1, <3>1, <3>2 DEF TenantRows
  <2>3. QED
    BY <2>1, <2>2, NoRowOk
<1>3. audit \in [Keys -> AuditRows]
  <2>1. {NoAudit} \union [project : approved, agent : {"ingest", "unknown"}] \subseteq AuditRows
    <3>1. NoAudit \in AuditRows
      BY DEF NoAudit, AuditRows, NoId
    <3>2. "ingest" \in Agents
      BY NamesAssumption
    <3>3. [project : approved, agent : {"ingest", "unknown"}] \subseteq AuditRows
      BY <1>1, <3>2 DEF AuditRows
    <3>4. QED
      BY <3>1, <3>3
  <2>2. audit \in [Keys -> {NoAudit} \union [project : approved, agent : {"ingest", "unknown"}]]
    BY DEF Init
  <2>3. QED
    BY <2>1, <2>2
<1>4. DOMAIN plan = {} /\ todo = {} /\ live = base /\ writes = 0 /\ table = "memories" /\ pc = "idle"
      /\ archived = {} /\ due = Versions(base) /\ dirty = FALSE
  BY DEF Init
<1>5. TenancyType /\ PlanOk
  BY <1>1, <1>2, <1>3, <1>4 DEF TenancyType, PlanOk, Tables
<1>6. QED
  BY <1>4, <1>5 DEF LossInv, InTransaction

\* Steps of the tool that move no row.
LEMMA EnumerateOk == ASSUME LossInv, Enumerate PROVE LossInv'
<1> DEFINE rows == S3Rows(base, "memories") \union S3Rows(base, "relations")
           p == [i \in rows |-> Classify(i, base[i])]
<1>1. /\ plan' = p /\ pc \in {"idle", "refused", "planned"}
      /\ pc' = (IF rows = {} \/ \E i \in rows : p[i] = i THEN "refused" ELSE "count")
      /\ UNCHANGED <<base, live, archived, facts, table, count, predicted, work, writes, due, dirty>>
  BY DEF Enumerate, Goto
<1>2. ~InTransaction /\ pc # "committed" /\ ~InTransaction' /\ pc' # "committed" /\ pc' # "rehome"
  BY <1>1 DEF InTransaction
<1>3. \A i \in rows : i \in Ids /\ InS3(i)
  BY DEF S3Rows, Present
<1>4. TenancyType'
  <2>1. todo = {}
    BY <1>1 DEF LossInv, TenancyType
  <2>2. UNCHANGED <<base, live, audit, approved, writes, table, todo>>
    BY <1>1 DEF facts, work
  <2>3. QED
    BY <2>1, <2>2 DEF LossInv, TenancyType
<1>5. PlanOk'
  <2>1. ASSUME NEW i \in rows PROVE p[i] # ToArchive => TargetOk(i, p[i])
    BY <1>3, ClassifyOk DEF LossInv
  <2> HIDE DEF p
  <2>2. DOMAIN p = rows
    BY DEF p
  <2>3. pc' # "refused" => \A i \in rows : p[i] # i
    BY <1>1
  <2>4. UNCHANGED approved
    BY <1>1 DEF facts
  <2>5. \A i, to : TargetOk(i, to)' <=> TargetOk(i, to)
    BY <2>4 DEF TargetOk
  <2>6. plan' = p
    BY <1>1
  <2> HIDE DEF rows
  <2>7. DOMAIN plan' = rows /\ \A i \in rows : plan'[i] # ToArchive => TargetOk(i, plan'[i])
    BY <2>1, <2>2, <2>6
  <2>8. pc' # "refused" => \A i \in rows : plan'[i] # i
    BY <2>3, <2>6
  <2>9. \A i \in rows : plan'[i] # ToArchive => TargetOk(i, plan[i])'
    BY <2>5, <2>7
  <2>10. QED
    BY <1>3, <2>7, <2>8, <2>9 DEF PlanOk, InS3
<1>6. UNCHANGED <<base, live, archived, due, dirty>>
  BY <1>1
<1>7. QED
  BY <1>2, <1>4, <1>5, <1>6 DEF LossInv, ArchivedVersions, Versions, Present

LEMMA QuietOk ==
    ASSUME LossInv, CountLive \/ DetectCollisions \/ BeginApply
    PROVE  LossInv'
<1>1. UNCHANGED <<base, live, archived, audit, approved, writes, table, todo, plan, due, dirty>>
  BY DEF CountLive, DetectCollisions, BeginApply, facts, work, app, planVars
<1>2. pc \in {"count", "collisions", "planned"} /\ pc' \in {"collisions", "refused", "planned", "check"}
  BY DEF CountLive, DetectCollisions, BeginApply, Goto
<1>3. TenancyType'
  BY <1>1, <1>2 DEF LossInv, TenancyType
<1>4. PlanOk'
  BY <1>1, <1>2 DEF LossInv, PlanOk, TargetOk
<1>5. QED
  BY <1>1, <1>2, <1>3, <1>4 DEF LossInv, InTransaction, ArchivedVersions, Versions, Present

\* A rollback: everything is where it was.
LEMMA RefuseOk ==
    ASSUME LossInv, InTransaction, Refuse, UNCHANGED <<base, facts, planVars, plans, writes, due>>
    PROVE  LossInv'
<1>1. UNCHANGED <<base, audit, approved, writes, plan, due>>
  BY DEF facts, planVars
<1>2. pc' = "planned" /\ table' = "memories" /\ live' = base /\ archived' = {} /\ todo' = {} /\ ~dirty'
  BY DEF Refuse, Goto
<1>3. pc # "refused" /\ pc # "committed"
  BY DEF InTransaction
<1>4. TenancyType'
  BY <1>1, <1>2 DEF LossInv, TenancyType, Tables
<1>5. PlanOk'
  BY <1>1, <1>2, <1>3 DEF LossInv, PlanOk, TargetOk
<1>6. QED
  BY <1>1, <1>2, <1>3, <1>4, <1>5 DEF LossInv, InTransaction, ArchivedVersions, Versions, Present

LEMMA CheckStaleOk == ASSUME LossInv, CheckStale PROVE LossInv'
<1>1. CASE Cardinality(S3Rows(live, table)) # count[table]
  BY <1>1, RefuseOk DEF CheckStale, InTransaction
<1>2. CASE ~(Cardinality(S3Rows(live, table)) # count[table])
  <2>1. /\ UNCHANGED <<base, live, archived, audit, approved, writes, table, todo, plan, due, dirty>>
        /\ pc = "check" /\ pc' = "snapshot"
    BY <1>2 DEF CheckStale, facts, work, planVars, Goto
  <2>2. TenancyType'
    BY <2>1 DEF LossInv, TenancyType
  <2>3. PlanOk'
    BY <2>1 DEF LossInv, PlanOk, TargetOk
  <2>4. QED
    BY <2>1, <2>2, <2>3 DEF LossInv, InTransaction, ArchivedVersions, Versions, Present
<1>3. QED
  BY <1>1, <1>2

\* What is at a captured identity when the snapshot is taken is in the snapshot.
LEMMA SnapshotOk == ASSUME LossInv, Snapshot PROVE LossInv'
<1>1. /\ UNCHANGED <<base, live, audit, approved, writes, table, plan, due, dirty>>
      /\ pc = "snapshot" /\ pc' = "rehome" /\ todo' = Rehomed(table)
      /\ archived' = archived \union {Archival(i) : i \in S3Rows(live, table)}
  BY DEF Snapshot, facts, planVars, app, Goto
<1>2. TenancyType'
  BY <1>1 DEF LossInv, TenancyType, Rehomed, Planned
<1>3. PlanOk'
  BY <1>1 DEF LossInv, PlanOk, TargetOk
<1>4. ArchivedVersions \subseteq ArchivedVersions'
  BY <1>1 DEF ArchivedVersions
<1>5. ASSUME NEW i \in Planned(table), live[i] # NoRow PROVE live[i].ver \in ArchivedVersions'
  <2>1. i \in S3Rows(live, table)
    BY <1>5 DEF LossInv, PlanOk, Planned, S3Rows, Present
  <2>2. Archival(i) \in archived' /\ Archival(i).row = live[i]
    BY <1>1, <2>1 DEF Archival
  <2>3. QED
    BY <2>2 DEF ArchivedVersions
<1>6. Planned(table)' = Planned(table) /\ Versions(live)' = Versions(live) /\ Versions(base)' = Versions(base)
  BY <1>1 DEF Planned, Versions, Present
<1>7. QED
  BY <1>1, <1>2, <1>3, <1>4, <1>5, <1>6 DEF LossInv, InTransaction

\* One row re-homed: it goes to its target or stays, and a row that loses its
\* place to it goes to the archive.
Moves(i) ==
    LET to == plan[i]
        collides == live[i] # NoRow /\ live[to] # NoRow
        wins == live[i] # NoRow /\ (live[to] = NoRow \/ live[i].ts >= live[to].ts)
    IN /\ live' = IF wins THEN [live EXCEPT ![to] = live[i], ![i] = NoRow] ELSE live
       /\ archived' = IF wins /\ collides THEN archived \union {Archival(to)} ELSE archived

LEMMA MovesIs ==
    ASSUME LossInv, pc = "rehome", NEW i \in todo, Moves(i)
    PROVE  LET to == plan[i] IN
           /\ i \in Planned(table) /\ i \in Ids /\ to \in Ids /\ to # i /\ to # ToArchive
           /\ live' \in [Ids -> TenantRows]
           /\ \/ UNCHANGED <<live, archived>> /\ (live[i] # NoRow => live[to] # NoRow /\ ~(live[i].ts >= live[to].ts))
              \/ /\ live[i] # NoRow
                 /\ \A j \in Ids : live'[j] = IF j = i THEN NoRow ELSE IF j = to THEN live[i] ELSE live[j]
                 /\ live[to] = NoRow \/ live[i].ts >= live[to].ts
                 /\ archived' = IF live[to] = NoRow THEN archived ELSE archived \union {Archival(to)}
<1> DEFINE to == plan[i]
<1>1. i \in DOMAIN plan /\ to # ToArchive /\ i.table = table
  BY DEF LossInv, TenancyType
<1>2. i \in Ids /\ to \in Ids /\ to # i
  BY <1>1 DEF LossInv, PlanOk, TargetOk
<1>3. live \in [Ids -> TenantRows] /\ NoRow \in TenantRows
  BY NoRowOk DEF LossInv, TenancyType
<1> HIDE DEF to
<1> DEFINE wins == live[i] # NoRow /\ (live[to] = NoRow \/ live[i].ts >= live[to].ts)
<1>4. /\ live' = IF wins THEN [live EXCEPT ![to] = live[i], ![i] = NoRow] ELSE live
      /\ archived' = IF wins /\ live[to] # NoRow THEN archived \union {Archival(to)} ELSE archived
  BY Zenon DEF Moves, to
<1>5. CASE wins
  <2>1. live' = [live EXCEPT ![to] = live[i], ![i] = NoRow]
    BY <1>4, <1>5
  <2>2. archived' = IF live[to] = NoRow THEN archived ELSE archived \union {Archival(to)}
    BY <1>4, <1>5
  <2>3. \A j \in Ids : live'[j] = IF j = i THEN NoRow ELSE IF j = to THEN live[i] ELSE live[j]
    BY <1>2, <1>3, <2>1
  <2>4. live' \in [Ids -> TenantRows]
    BY <1>2, <1>3, <2>1
  <2>5. QED
    BY <1>1, <1>2, <1>5, <2>2, <2>3, <2>4 DEF Planned, to
<1>6. CASE ~wins
  <2>1. UNCHANGED <<live, archived>>
    BY <1>4, <1>6
  <2>2. QED
    BY <1>1, <1>2, <1>3, <1>6, <2>1 DEF Planned, to
<1>7. QED
  BY <1>5, <1>6

LEMMA RehomeStep ==
    ASSUME Rehome
    PROVE  \E i \in todo : Moves(i) /\ todo' = todo \ {i}
BY Zenon DEF Rehome, Moves

LEMMA RehomeOk == ASSUME LossInv, Rehome PROVE LossInv'
<1>1. /\ UNCHANGED <<base, audit, approved, writes, table, plan, due, dirty>>
      /\ pc = "rehome" /\ pc' = "rehome"
  BY DEF Rehome, facts, planVars, app
<1>2. PICK i \in todo : Moves(i) /\ todo' = todo \ {i}
  BY RehomeStep
<1> DEFINE to == plan[i]
<1>3. /\ i \in Planned(table) /\ i \in Ids /\ to \in Ids /\ to # i
      /\ live' \in [Ids -> TenantRows]
      /\ \/ UNCHANGED <<live, archived>>
         \/ /\ live[i] # NoRow
            /\ \A j \in Ids : live'[j] = IF j = i THEN NoRow ELSE IF j = to THEN live[i] ELSE live[j]
            /\ archived' = IF live[to] = NoRow THEN archived ELSE archived \union {Archival(to)}
  BY <1>1, <1>2, MovesIs
<1> HIDE DEF to
<1>4. TenancyType'
  BY <1>1, <1>2, <1>3 DEF LossInv, TenancyType
<1>5. PlanOk'
  BY <1>1 DEF LossInv, PlanOk, TargetOk
<1>6. ArchivedVersions \subseteq ArchivedVersions'
  BY <1>3 DEF ArchivedVersions
<1>7. live[to] # NoRow => live'[to] = live[to] \/ live[to].ver \in ArchivedVersions'
  <2>1. CASE UNCHANGED <<live, archived>>
    BY <2>1
  <2>2. CASE archived' = archived \union {Archival(to)}
    <3>1. Archival(to) \in archived' /\ Archival(to).row = live[to]
      BY <2>2 DEF Archival
    <3>2. QED
      BY <3>1 DEF ArchivedVersions
  <2>3. QED
    BY <1>3, <2>1, <2>2
<1>8. Versions(live) \subseteq Versions(live)' \union ArchivedVersions'
  <2> SUFFICES ASSUME NEW j \in Ids, live[j] # NoRow, live[j].ver \notin ArchivedVersions'
               PROVE  live[j].ver \in Versions(live')
    BY DEF Versions, Present
  <2>1. \E k \in Ids : live'[k] = live[j]
    <3>1. CASE j = i
      BY <1>3, <3>1
    <3>2. CASE j = to
      BY <1>3, <1>7, <3>2
    <3>3. CASE j # i /\ j # to
      BY <1>3, <3>3
    <3>4. QED
      BY <3>1, <3>2, <3>3
  <2>2. QED
    BY <2>1 DEF Versions, Present
<1>9. ASSUME ~dirty, NEW j \in Planned(table), live'[j] # NoRow PROVE live'[j].ver \in ArchivedVersions'
  <2>1. \A k \in Planned(table) : k \in Ids /\ (live[k] # NoRow => live[k].ver \in ArchivedVersions)
    BY <1>1, <1>9 DEF LossInv, PlanOk, Planned
  <2>2. live'[j] = live[j] \/ (live'[j] = live[i] /\ live[i] # NoRow)
    BY <1>3, <1>9, <2>1
  <2>3. QED
    BY <1>3, <1>6, <1>9, <2>1, <2>2
<1>10. Planned(table)' = Planned(table) /\ Versions(base)' = Versions(base)
  BY <1>1 DEF Planned, Versions, Present
<1>11. QED
  BY <1>1, <1>4, <1>5, <1>6, <1>8, <1>9, <1>10 DEF LossInv, InTransaction

\* What is deleted is in the snapshot, or was moved in from a row that is.
LEMMA FinishTableOk == ASSUME LossInv, FinishTable PROVE LossInv'
<1>1. pc = "rehome" /\ todo = {} /\ UNCHANGED <<base, facts, planVars, plans, writes, due>>
  BY DEF FinishTable
<1>2. CASE surprise \/ snap # count[table]
  BY <1>1, <1>2, RefuseOk DEF FinishTable, InTransaction
<1>3. CASE ~(surprise \/ snap # count[table])
  <2>1. /\ UNCHANGED <<base, audit, approved, writes, plan, due, archived, todo, dirty>>
        /\ live' = Delete(Planned(table)) /\ table' = "relations" /\ pc' \in {"check", "commit"}
    BY <1>1, <1>3 DEF FinishTable, facts, work, planVars, Goto
  <2>2. \A j \in Ids : live'[j] = IF j \in Planned(table) THEN NoRow ELSE live[j]
    BY <2>1 DEF Delete
  <2>3. live \in [Ids -> TenantRows] /\ NoRow \in TenantRows
    BY NoRowOk DEF LossInv, TenancyType
  <2>4. live' \in [Ids -> TenantRows]
    BY <2>1, <2>3 DEF Delete
  <2>5. TenancyType'
    BY <1>1, <2>1, <2>4 DEF LossInv, TenancyType, Tables
  <2>6. PlanOk'
    BY <1>1, <2>1 DEF LossInv, PlanOk, TargetOk
  <2>7. ArchivedVersions' = ArchivedVersions /\ Versions(base)' = Versions(base)
    BY <2>1 DEF ArchivedVersions, Versions, Present
  <2>8. ASSUME ~dirty PROVE Versions(live) \subseteq Versions(live') \union ArchivedVersions
    <3> SUFFICES ASSUME NEW j \in Ids, live[j] # NoRow, live[j].ver \notin ArchivedVersions
                 PROVE  live[j].ver \in Versions(live')
      BY DEF Versions, Present
    <3>1. j \notin Planned(table)
      BY <1>1, <2>8 DEF LossInv
    <3>2. live'[j] = live[j]
      BY <2>2, <3>1
    <3>3. QED
      BY <3>2 DEF Versions, Present
  <2>9. due' \subseteq Versions(base)'
    BY <1>1, <2>1, <2>7 DEF LossInv
  <2>10. ~dirty' => due' \subseteq Versions(live)' \union ArchivedVersions'
    <3> HIDE DEF ArchivedVersions, Versions
    <3>1. ~dirty => due \subseteq Versions(live) \union ArchivedVersions
      BY DEF LossInv
    <3>2. Versions(live)' = Versions(live')
      BY DEF Versions, Present
    <3>3. QED
      BY <2>1, <2>7, <2>8, <3>1, <3>2
  <2>11. InTransaction' /\ pc' # "rehome" /\ pc' # "committed"
    BY <2>1 DEF InTransaction
  <2>12. QED
    BY <2>5, <2>6, <2>9, <2>10, <2>11 DEF LossInv
<1>4. QED
  BY <1>2, <1>3

LEMMA CommitOk == ASSUME LossInv, Commit PROVE LossInv'
<1>1. /\ UNCHANGED <<live, archived, audit, approved, writes, table, todo, plan, due, dirty>>
      /\ pc = "commit" /\ pc' = "committed" /\ base' = live
  BY DEF Commit, facts, work, planVars, app, Goto
<1>2. TenancyType'
  BY <1>1 DEF LossInv, TenancyType
<1>3. PlanOk'
  BY <1>1 DEF LossInv, PlanOk, TargetOk
<1>4. QED
  BY <1>1, <1>2, <1>3 DEF LossInv, InTransaction, ArchivedVersions, Versions, Present

\* A write of the application, inside the transaction or outside.
LEMMA WroteOk ==
    ASSUME LossInv, NEW i \in Ids, Unlocked(i), NEW row \in TenantRows, NEW new, new \subseteq {row.ver},
           new # {} => row # NoRow, base' = [base EXCEPT ![i] = row], live' = [live EXCEPT ![i] = row],
           Wrote(base[i], new), audit' \in [Keys -> AuditRows]
    PROVE  LossInv'
<1>1. /\ UNCHANGED <<archived, approved, pc, table, plan, todo>>
      /\ writes' = writes + 1 /\ due' = (due \ {base[i].ver}) \union new /\ (dirty' <=> dirty \/ InTransaction)
  BY DEF Wrote, planVars, work
<1>2. base \in [Ids -> TenantRows] /\ live \in [Ids -> TenantRows] /\ live[i] = base[i]
  BY DEF LossInv, TenancyType, Unlocked
<1>3. base' \in [Ids -> TenantRows] /\ live' \in [Ids -> TenantRows]
  BY <1>2
<1>4. TenancyType'
  BY <1>1, <1>3 DEF LossInv, TenancyType
<1>5. PlanOk'
  BY <1>1 DEF LossInv, PlanOk, TargetOk
<1>6. Holds(due, base, {}) => Holds(due', base', {})
  <2>1. Holds(due, base, {}) => Holds((due \ {base[i].ver}) \union new, [base EXCEPT ![i] = row], {})
    BY <1>2, WriteKeepsVersions
  <2>2. QED
    BY <1>1, <2>1
<1>7. Holds(due, live, ArchivedVersions) => Holds(due', live', ArchivedVersions)
  <2>1. live \in [Ids -> TenantRows] /\ due' = (due \ {live[i].ver}) \union new
    BY <1>1, <1>2
  <2>2. Holds(due, live, ArchivedVersions) =>
           Holds((due \ {live[i].ver}) \union new, [live EXCEPT ![i] = row], ArchivedVersions)
    BY <2>1, WriteKeepsVersions
  <2>3. QED
    BY <2>1, <2>2
<1>8. ArchivedVersions' = ArchivedVersions /\ Versions(base)' = Versions(base') /\ Versions(live)' = Versions(live')
  BY <1>1 DEF ArchivedVersions, Versions, Present
<1>9. InTransaction' <=> InTransaction
  BY <1>1 DEF InTransaction
<1>10. ~InTransaction => live' = base'
  BY <1>2 DEF LossInv
<1>11. pc = "rehome" => InTransaction
  BY DEF InTransaction
<1> HIDE DEF ArchivedVersions, Versions
<1>12. QED
  BY <1>1, <1>4, <1>5, <1>6, <1>7, <1>8, <1>9, <1>10, <1>11 DEF LossInv, Holds

LEMMA SaveOk ==
    ASSUME LossInv, NEW i \in Ids, NEW t \in Nat, Save(i, t)
    PROVE  LossInv'
<1> DEFINE r == TableRow(i, writes + 1, t, NoId, FALSE)
<1>1. writes + 1 \in Nat
  BY DEF LossInv, TenancyType
<1>2. r \in TenantRows /\ r # NoRow
  BY <1>1, NewRowOk
<1>3. /\ Unlocked(i) /\ base' = [base EXCEPT ![i] = r] /\ live' = [live EXCEPT ![i] = r]
      /\ Wrote(base[i], {r.ver})
  BY DEF Save
<1>4. audit' \in [Keys -> AuditRows]
  <2>1. audit \in [Keys -> AuditRows]
    BY DEF LossInv, TenancyType
  <2>2. [project |-> i.project, agent |-> i.agent] \in AuditRows
    BY DEF AuditRows, Ids
  <2>3. audit' = audit \/ audit' = [audit EXCEPT ![i.key] = [project |-> i.project, agent |-> i.agent]]
    BY DEF Save
  <2>4. QED
    BY <2>1, <2>2, <2>3
<1> HIDE DEF r
<1>5. QED
  BY <1>2, <1>3, <1>4, WroteOk

LEMMA RemoveOk ==
    ASSUME LossInv, NEW i \in Ids, Remove(i)
    PROVE  LossInv'
<1>1. /\ Unlocked(i) /\ base' = [base EXCEPT ![i] = NoRow] /\ live' = [live EXCEPT ![i] = NoRow]
      /\ Wrote(base[i], {}) /\ audit' = audit
  BY DEF Remove
<1>2. audit' \in [Keys -> AuditRows]
  BY <1>1 DEF LossInv, TenancyType
<1>3. QED
  BY <1>1, <1>2, NoRowOk, WroteOk

LEMMA LossStep == LossInv /\ [Next]_vars => LossInv'
<1> SUFFICES ASSUME LossInv, [Next]_vars PROVE LossInv'
  OBVIOUS
<1>1. CASE UNCHANGED vars
  <2>1. UNCHANGED <<base, live, archived, audit, approved, pc, writes, table, todo, plan, due, dirty>>
    BY <1>1 DEF vars, facts, planVars, work, app
  <2>2. TenancyType' /\ PlanOk'
    BY <2>1 DEF LossInv, TenancyType, PlanOk, TargetOk
  <2>3. QED
    BY <2>1, <2>2 DEF LossInv, InTransaction, ArchivedVersions, Versions, Present, Planned
<1>2. CASE Tool
  <2>1. CASE Die
    BY <2>1, RefuseOk DEF Die
  <2>2. CASE ~Die
    BY <1>2, <2>2, EnumerateOk, QuietOk, CheckStaleOk, SnapshotOk, RehomeOk, FinishTableOk, CommitOk DEF Tool
  <2>3. QED
    BY <2>1, <2>2
<1>3. CASE Rest
  BY <1>1, <1>3 DEF Rest
<1>4. ASSUME NEW i \in Ids, Remove(i) \/ \E t \in Times \union {Max(Times) + 1} : Save(i, t) PROVE LossInv'
  BY <1>4, RemoveOk, SaveOk, SaveTimes
<1>5. QED
  BY <1>1, <1>2, <1>3, <1>4 DEF Next

\* For any tables and any writes of the application before, between and after the tool's
\* statements: a version the application believes stored is in the tables or in the
\* archive, unless it wrote inside a transaction that committed.
THEOREM MigrationLosesNothing == Spec => []NothingLost
<1>1. LossInv => NothingLost
  <2>1. CASE pc = "committed"
    BY <2>1 DEF LossInv, NothingLost, InTransaction, ArchivedVersions
  <2>2. CASE pc # "committed"
    BY <2>2 DEF LossInv, NothingLost
  <2>3. QED
    BY <2>1, <2>2
<1>2. QED
  BY <1>1, LossInit, LossStep, PTL DEF Spec

Beats(r, i, row) == r[i] # NoRow /\ r[i].ts >= row.ts

\* An archived row is of a table whose snapshot is taken.  What it contended for
\* is held by a row as new, or it is still in its place, waiting for its turn.
Ranked ==
    /\ \A a \in archived :
          /\ a.id \in Ids /\ a.row \in TenantRows /\ a.row # NoRow
          /\ IF a.id.table = table THEN pc \notin {"check", "snapshot"} ELSE table = "relations"
    /\ \A i \in DOMAIN plan : plan[i] # ToArchive => \A a \in archived :
          /\ a.id = plan[i] => Beats(live, plan[i], a.row)
          /\ a.id = i => IF i \in todo THEN live[i] = a.row ELSE Beats(live, plan[i], a.row)

RankInv == LossInv /\ (RealHomes /\ ~dirty /\ pc # "committed" => Ranked)

LEMMA RankedEmpty == archived = {} => Ranked
BY DEF Ranked

\* With real homes only, no target is a row the tool captured.
LEMMA TargetsAreReal ==
    ASSUME LossInv, RealHomes, NEW i \in DOMAIN plan, plan[i] # ToArchive
    PROVE  ~InS3(plan[i]) /\ plan[i] \notin DOMAIN plan /\ plan[i] \in Ids /\ plan[i].table = i.table
<1>1. TargetOk(i, plan[i])
  BY DEF LossInv, PlanOk
<1>2. ~InS3(plan[i])
  BY <1>1 DEF TargetOk, RealHomes, InS3
<1>3. QED
  BY <1>1, <1>2 DEF LossInv, PlanOk, TargetOk

LEMMA RankSnapshot ==
    ASSUME LossInv, RealHomes, Ranked, Snapshot
    PROVE  Ranked'
<1>1. /\ UNCHANGED <<live, table, plan>>
      /\ pc = "snapshot" /\ pc' = "rehome" /\ todo' = Rehomed(table)
      /\ archived' = archived \union {Archival(i) : i \in S3Rows(live, table)}
  BY DEF Snapshot, facts, planVars, app, Goto
<1>2. live \in [Ids -> TenantRows] /\ todo = {}
  BY <1>1 DEF LossInv, TenancyType
<1>3. ASSUME NEW j \in S3Rows(live, table)
      PROVE  /\ Archival(j).id = j /\ Archival(j).row = live[j] /\ live[j] # NoRow
             /\ j \in Ids /\ InS3(j) /\ j.table = table
  BY DEF Archival, S3Rows, Present
<1>4. ASSUME NEW a \in archived'
      PROVE  /\ a.id \in Ids /\ a.row \in TenantRows /\ a.row # NoRow
             /\ IF a.id.table = table THEN pc' \notin {"check", "snapshot"} ELSE table = "relations"
  <2>1. CASE a \in archived
    BY <1>1, <2>1 DEF Ranked
  <2>2. CASE a \notin archived
    <3>1. PICK j \in S3Rows(live, table) : a = Archival(j)
      BY <1>1, <1>4, <2>2
    <3>2. QED
      BY <1>1, <1>2, <1>3, <3>1
  <2>3. QED
    BY <2>1, <2>2
<1>5. ASSUME NEW i \in DOMAIN plan, plan[i] # ToArchive, NEW a \in archived'
      PROVE  /\ a.id = plan[i] => Beats(live, plan[i], a.row)
             /\ a.id = i => IF i \in todo' THEN live[i] = a.row ELSE Beats(live, plan[i], a.row)
  <2>1. CASE a \in archived
    <3>1. a.id.table # table
      BY <1>1, <2>1 DEF Ranked
    <3>2. a.id = i => i \notin todo'
      BY <1>1, <3>1 DEF Rehomed, Planned
    <3>3. QED
      BY <1>2, <1>5, <2>1, <3>2 DEF Ranked
  <2>2. CASE a \notin archived
    <3>1. PICK j \in S3Rows(live, table) : a = Archival(j)
      BY <1>1, <1>5, <2>2
    <3>2. a.id = j /\ a.row = live[j] /\ InS3(j) /\ j.table = table
      BY <1>3, <3>1
    <3>3. a.id # plan[i]
      BY <1>5, <3>2, TargetsAreReal
    <3>4. a.id = i => i \in todo'
      BY <1>1, <1>5, <3>2 DEF Rehomed, Planned
    <3>5. QED
      BY <3>2, <3>3, <3>4
  <2>3. QED
    BY <2>1, <2>2
<1>6. QED
  BY <1>1, <1>4, <1>5 DEF Ranked

LEMMA RankRehome ==
    ASSUME LossInv, RealHomes, Ranked, Rehome
    PROVE  Ranked'
<1>1. UNCHANGED <<table, plan>> /\ pc = "rehome" /\ pc' = "rehome"
  BY DEF Rehome, planVars
<1>2. PICK i \in todo : Moves(i) /\ todo' = todo \ {i}
  BY RehomeStep
<1> DEFINE to == plan[i]
<1>3. /\ i \in Planned(table) /\ i \in Ids /\ to \in Ids /\ to # i /\ to # ToArchive
      /\ live' \in [Ids -> TenantRows]
      /\ \/ UNCHANGED <<live, archived>> /\ (live[i] # NoRow => live[to] # NoRow /\ ~(live[i].ts >= live[to].ts))
         \/ /\ live[i] # NoRow
            /\ \A j \in Ids : live'[j] = IF j = i THEN NoRow ELSE IF j = to THEN live[i] ELSE live[j]
            /\ live[to] = NoRow \/ live[i].ts >= live[to].ts
            /\ archived' = IF live[to] = NoRow THEN archived ELSE archived \union {Archival(to)}
  BY <1>1, <1>2, MovesIs
<1>4. live \in [Ids -> TenantRows] /\ \A j \in Ids : live[j].ts \in Nat
  BY DEF LossInv, TenancyType, TenantRows
<1>5. i \in DOMAIN plan /\ to \notin DOMAIN plan /\ to.table = table
  BY <1>3, TargetsAreReal DEF Planned
<1> HIDE DEF to
\* The move leaves the target better held, and the other rows alone.
<1>6. ASSUME NEW row \in TenantRows, NEW k \in Ids, k # i, Beats(live, k, row) PROVE Beats(live', k, row)
  <2>1. row.ts \in Nat /\ live[k].ts \in Nat /\ live[i].ts \in Nat
    BY <1>3, <1>4 DEF TenantRows
  <2>2. QED
    BY <1>3, <1>6, <2>1 DEF Beats
<1>7. live[i] # NoRow => Beats(live', to, live[i])
  BY <1>3, <1>4 DEF Beats
<1>8. archived' \subseteq archived \union {Archival(to)}
      /\ (archived' # archived => live[to] # NoRow /\ Beats(live', to, live[to]))
  BY <1>3, <1>4 DEF Beats
<1>9. Archival(to).id = to /\ Archival(to).row = live[to]
  BY DEF Archival
<1>10. ASSUME NEW a \in archived'
       PROVE  /\ a.id \in Ids /\ a.row \in TenantRows /\ a.row # NoRow
              /\ IF a.id.table = table THEN pc' \notin {"check", "snapshot"} ELSE table = "relations"
  <2>1. CASE a \in archived
    BY <1>1, <2>1 DEF Ranked
  <2>2. CASE a \notin archived
    <3>1. a.id = to /\ a.row = live[to] /\ live[to] # NoRow
      BY <1>8, <1>9, <1>10, <2>2
    <3>2. QED
      BY <1>1, <1>3, <1>4, <1>5, <3>1
  <2>3. QED
    BY <2>1, <2>2
<1>11. ASSUME NEW j \in DOMAIN plan, plan[j] # ToArchive, NEW a \in archived'
       PROVE  /\ a.id = plan[j] => Beats(live', plan[j], a.row)
              /\ a.id = j => IF j \in todo' THEN live'[j] = a.row ELSE Beats(live', plan[j], a.row)
  <2>1. plan[j] \in Ids /\ plan[j] # i /\ j # to /\ j \in Ids
    <3>1. plan[j] \in Ids /\ plan[j] \notin DOMAIN plan
      BY <1>11, TargetsAreReal
    <3>2. j \in Ids
      BY DEF LossInv, PlanOk
    <3>3. QED
      BY <1>5, <3>1, <3>2
  <2>2. CASE a \in archived
    <3>1. /\ a.id = plan[j] => Beats(live, plan[j], a.row)
          /\ a.id = j => IF j \in todo THEN live[j] = a.row ELSE Beats(live, plan[j], a.row)
          /\ a.row \in TenantRows /\ a.row # NoRow
      BY <1>11, <2>2 DEF Ranked
    <3>2. Beats(live, plan[j], a.row) => Beats(live', plan[j], a.row)
      BY <1>6, <2>1, <3>1
    <3>3. CASE j # i
      <4>1. live'[j] = live[j]
        BY <1>3, <2>1, <3>3
      <4>2. QED
        BY <1>2, <3>1, <3>2, <3>3, <4>1
    <3>4. CASE j = i
      <4>1. a.id = j => live[i] = a.row
        BY <1>2, <3>1, <3>4
      <4>2. a.id = j => Beats(live', plan[j], a.row)
        BY <1>7, <3>1, <3>4, <4>1 DEF to
      <4>3. QED
        BY <1>2, <3>1, <3>2, <3>4, <4>2
    <3>5. QED
      BY <3>3, <3>4
  <2>3. CASE a \notin archived
    <3>1. a.id = to /\ a.row = live[to] /\ Beats(live', to, live[to])
      BY <1>8, <1>9, <1>11, <2>3
    <3>2. QED
      BY <2>1, <3>1
  <2>4. QED
    BY <2>2, <2>3
<1>12. QED
  BY <1>1, <1>10, <1>11 DEF Ranked

\* Only captured rows are deleted, and no target is one.
LEMMA RankFinish ==
    ASSUME LossInv, RealHomes, Ranked, FinishTable
    PROVE  Ranked'
<1>1. CASE surprise \/ snap # count[table]
  <2>1. archived' = {}
    BY <1>1 DEF FinishTable, Refuse
  <2>2. QED
    BY <2>1 DEF Ranked
<1>2. CASE ~(surprise \/ snap # count[table])
  <2>1. /\ UNCHANGED <<plan, archived, todo>> /\ todo = {} /\ pc = "rehome"
        /\ live' = Delete(Planned(table)) /\ table' = "relations"
        /\ pc' = (IF table = "memories" THEN "check" ELSE "commit")
    BY <1>2 DEF FinishTable, work, planVars, Goto
  <2>2. \A j \in Ids : j \notin DOMAIN plan => live'[j] = live[j]
    BY <2>1 DEF Delete, Planned
  <2>3. table \in Tables
    BY DEF LossInv, TenancyType
  <2>4. ASSUME NEW a \in archived
        PROVE  IF a.id.table = table' THEN pc' \notin {"check", "snapshot"} ELSE table' = "relations"
    BY <2>1, <2>3 DEF Ranked, Tables
  <2>5. ASSUME NEW i \in DOMAIN plan, plan[i] # ToArchive, NEW a \in archived
        PROVE  /\ a.id = plan[i] => Beats(live', plan[i], a.row)
               /\ a.id = i => Beats(live', plan[i], a.row)
    <3>1. live'[plan[i]] = live[plan[i]]
      BY <2>2, <2>5, TargetsAreReal
    <3>2. QED
      BY <2>1, <2>5, <3>1 DEF Ranked, Beats
  <2>6. QED
    BY <2>1, <2>4, <2>5 DEF Ranked
<1>3. QED
  BY <1>1, <1>2

LEMMA RankStep == RankInv /\ [Next]_vars => RankInv'
<1> SUFFICES ASSUME RankInv, [Next]_vars PROVE RankInv'
  OBVIOUS
<1>1. LossInv /\ LossInv'
  BY LossStep DEF RankInv
<1> SUFFICES ASSUME RealHomes', ~dirty', pc' # "committed", archived' # {} PROVE Ranked'
  BY <1>1, RankedEmpty DEF RankInv, Ranked
<1>2. InTransaction'
  BY <1>1 DEF LossInv
<1>3. CASE UNCHANGED vars
  <2>1. UNCHANGED <<live, archived, approved, pc, table, todo, plan, dirty>>
    BY <1>3 DEF vars, facts, planVars, work, app
  <2>2. QED
    BY <2>1 DEF RankInv, Ranked, Beats, RealHomes
<1>4. CASE Tool
  <2>1. UNCHANGED approved
    BY <1>4 DEF Tool, Enumerate, CountLive, DetectCollisions, BeginApply, CheckStale, Snapshot, Rehome,
                FinishTable, Commit, Die, facts
  <2>2. ASSUME Enumerate \/ CountLive \/ DetectCollisions \/ BeginApply PROVE FALSE
    <3>1. archived' = archived /\ ~InTransaction /\ pc # "committed"
      BY <2>2 DEF Enumerate, CountLive, DetectCollisions, BeginApply, InTransaction
    <3>2. QED
      BY <1>1, <3>1 DEF LossInv
  <2>3. CASE Snapshot \/ Rehome \/ FinishTable
    <3>1. ~dirty /\ pc # "committed"
      <4>1. CASE Snapshot \/ Rehome
        BY <4>1 DEF Snapshot, Rehome, app
      <4>2. CASE FinishTable
        BY <4>2 DEF FinishTable, Refuse
      <4>3. QED
        BY <2>3, <4>1, <4>2
    <3>2. RealHomes /\ Ranked
      BY <2>1, <3>1 DEF RankInv, RealHomes
    <3>3. QED
      BY <1>1, <2>3, <3>2, RankSnapshot, RankRehome, RankFinish
  <2>4. CASE CheckStale
    <3>1. /\ UNCHANGED <<live, archived, table, todo, plan, dirty>>
          /\ pc = "check" /\ pc' = "snapshot"
      BY <2>4 DEF CheckStale, work, planVars, Goto, Refuse
    <3>2. RealHomes /\ Ranked
      BY <2>1, <3>1 DEF RankInv, RealHomes
    <3>3. QED
      BY <3>1, <3>2 DEF Ranked, Beats
  <2>5. ASSUME Die \/ Commit PROVE FALSE
    BY <2>5 DEF Die, Refuse, Commit, Goto
  <2>6. QED
    BY <1>4, <2>2, <2>3, <2>4, <2>5 DEF Tool
<1>5. ASSUME NEW i \in Ids, Remove(i) \/ \E t \in Times \union {Max(Times) + 1} : Save(i, t) PROVE FALSE
  <2>1. PICK old, new : Wrote(old, new)
    BY <1>5 DEF Save, Remove
  <2>2. pc' = pc /\ (dirty' <=> dirty \/ InTransaction)
    BY <2>1 DEF Wrote
  <2>3. QED
    BY <1>2, <2>2 DEF InTransaction
<1>6. QED
  BY <1>3, <1>4, <1>5 DEF Next, Rest

\* For any tables: when no approved project is a placeholder and nothing was written
\* during the transaction, a commit leaves at every target a row as new as every row
\* that contended for it.
THEOREM CommitKeepsNewest == Spec => NewestSurvives
<1>1. Init => RankInv
  BY LossInit, RankedEmpty DEF RankInv, Init
<1>2. RankInv /\ [Next]_vars =>
        [pc = "commit" /\ pc' = "committed" /\ ~dirty /\ RealHomes =>
            \A i \in {j \in DOMAIN plan : plan[j] # ToArchive} : \A a \in archived :
                a.id \in {i, plan[i]} => base'[plan[i]] # NoRow /\ base'[plan[i]].ts >= a.row.ts]_vars
  <2> SUFFICES ASSUME RankInv, [Next]_vars, pc = "commit", pc' = "committed", ~dirty, RealHomes,
                      NEW i \in DOMAIN plan, plan[i] # ToArchive, NEW a \in archived, a.id \in {i, plan[i]}
               PROVE  base'[plan[i]] # NoRow /\ base'[plan[i]].ts >= a.row.ts
    OBVIOUS
  <2>1. Commit
    <3>1. ~UNCHANGED vars
      BY DEF vars
    <3>2. \A k \in Ids : ~Remove(k) /\ \A t \in Times \union {Max(Times) + 1} : ~Save(k, t)
      BY DEF Remove, Save, Wrote
    <3>3. ~Rest
      BY DEF Rest
    <3>4. Tool
      BY <3>1, <3>2, <3>3 DEF Next
    <3>5. QED
      BY <3>4 DEF Tool, Enumerate, CountLive, DetectCollisions, BeginApply, CheckStale, Snapshot, Rehome,
                  FinishTable, Die, Refuse, Goto
  <2>2. base' = live
    BY <2>1 DEF Commit
  <2>3. Ranked /\ todo = {}
    BY DEF RankInv, LossInv, TenancyType
  <2>4. QED
    BY <2>2, <2>3 DEF Ranked, Beats
<1>3. QED
  BY <1>1, <1>2, RankStep, PTL DEF Spec, NewestSurvives

-----------------------------------------------------------------------------
(***************************************************************************)
(* Import and export. What MEMORY.md says is compared with the entries as  *)
(* they are; the parser's loop is followed along a least counterexample.   *)
(***************************************************************************)
EntryFields == {"val", "tier", "live", "by", "vec"}
JobFields == {"pc", "kind", "overwrite", "todo"}

\* Every section is an entry with the value it has, and no entry has two.
Faithful(d) ==
  /\ \E S : d \in Seq(S)
  /\ \A i \in 1 .. Len(d) : d[i].head \in DOMAIN entries /\ d[i].val = entries[d[i].head].val
  /\ \A i, j \in 1 .. Len(d) : d[i].head = d[j].head => i = j

EntryShapes ==
  /\ IsFiniteSet(DOMAIN entries) /\ entries = [k \in DOMAIN entries |-> entries[k]]
  /\ \A k \in DOMAIN entries : DOMAIN entries[k] = EntryFields

\* While the file is in step with the store, what is about to become the file is, or the file.
FileInStep ==
  /\ synced /\ job.pc = "replace" => Faithful(job.todo)
  /\ synced /\ job.pc # "replace" => Faithful(md)

TfInv == EntryShapes /\ DOMAIN job = JobFields /\ FileInStep

\* A finite set has an order.
LEMMA OrderOf ==
    ASSUME NEW S, IsFiniteSet(S)
    PROVE  /\ InOrder(S) \in [1 .. Cardinality(S) -> S] /\ Cardinality(S) \in Nat
           /\ \A i, j \in 1 .. Cardinality(S) : InOrder(S)[i] = InOrder(S)[j] => i = j
<1> DEFINE n == Cardinality(S)
<1>1. n \in Nat
  BY FS_CardinalityType
<1>2. ExistsBijection(1 .. n, S)
  BY FS_CardinalityType
<1>3. PICK f \in [1 .. n -> S] : \A i, j \in 1 .. n : f[i] = f[j] => i = j
  BY <1>2 DEF ExistsBijection, Bijection, Injection, IsInjective
<1> HIDE DEF n
<1>4. DOMAIN f = 1 .. n /\ \A g \in [1 .. n -> S] : DOMAIN g = 1 .. n
  OBVIOUS
<1> DEFINE P(g) == \A i, j \in DOMAIN g : g[i] = g[j] => i = j
           h == CHOOSE g \in [1 .. n -> S] : P(g)
<1>5. P(f)
  BY <1>3, <1>4
<1> HIDE DEF P
<1>6. h \in [1 .. n -> S] /\ P(h)
  BY <1>5
<1>7. InOrder(S) = h
  BY DEF InOrder, n, P
<1> HIDE DEF h
<1>8. QED
  BY <1>1, <1>4, <1>6, <1>7 DEF P, n

\* The entries' values did not change, nor did the file.
LEMMA StaysFaithful ==
    ASSUME NEW d, Faithful(d), DOMAIN entries' = DOMAIN entries,
           \A k \in DOMAIN entries : entries'[k].val = entries[k].val
    PROVE  /\ \E S : d \in Seq(S)
           /\ \A i \in 1 .. Len(d) : d[i].head \in DOMAIN entries' /\ d[i].val = entries'[d[i].head].val
           /\ \A i, j \in 1 .. Len(d) : d[i].head = d[j].head => i = j
BY DEF Faithful

LEMMA TfInitOk == TfInit => TfInv
<1> SUFFICES ASSUME TfInit PROVE TfInv
  OBVIOUS
<1>1. entries = << >> /\ job = NoJob /\ synced = FALSE
  BY DEF TfInit
<1>2. DOMAIN entries = {}
  BY <1>1
<1>3. IsFiniteSet(DOMAIN entries)
  BY <1>2, FS_EmptySet
<1>4. entries = [k \in DOMAIN entries |-> entries[k]]
  BY <1>1
<1>5. QED
  BY <1>1, <1>2, <1>3, <1>4 DEF TfInv, EntryShapes, FileInStep, NoJob, JobFields

\* A step that leaves the entries alone.
LEMMA ShapesStay ==
    ASSUME TfInv, entries' = entries
    PROVE  EntryShapes'
BY DEF TfInv, EntryShapes

\* A step after which the file counts as out of step.
LEMMA OutOfStep ==
    ASSUME synced' = FALSE
    PROVE  FileInStep'
BY DEF FileInStep

\* A key gets an entry.
LEMMA ShapesWith ==
    ASSUME TfInv, NEW k, NEW e, DOMAIN e = EntryFields, entries' = With(k, e)
    PROVE  EntryShapes'
<1>1. /\ IsFiniteSet(DOMAIN entries) /\ \A x \in DOMAIN entries : DOMAIN entries[x] = EntryFields
  BY DEF TfInv, EntryShapes
<1>2. entries' = [x \in DOMAIN entries \cup {k} |-> IF x = k THEN e ELSE entries[x]]
  BY DEF With
<1>3. IsFiniteSet(DOMAIN entries \cup {k})
  BY <1>1, FS_AddElement
<1>4. DOMAIN entries' = DOMAIN entries \cup {k}
  BY <1>2
<1>5. \A x \in DOMAIN entries' : DOMAIN entries'[x] = EntryFields
  BY <1>1, <1>2, <1>4
<1>6. QED
  BY <1>2, <1>3, <1>4, <1>5 DEF EntryShapes

LEMMA BeginSyncToOk ==
    ASSUME TfInv, BeginSyncTo
    PROVE  TfInv'
<1> DEFINE S == Exported
           ks == InOrder(S)
           n == Cardinality(S)
           d == [i \in DOMAIN ks |-> [head |-> ks[i], val |-> entries[ks[i]].val]]
<1>1. job' = [NoJob EXCEPT !.pc = "replace", !.kind = "to", !.todo = d] /\ entries' = entries
  BY DEF BeginSyncTo
<1> HIDE DEF d
<1>2. DOMAIN job' = JobFields /\ job'.pc = "replace" /\ job'.todo = d
  BY <1>1 DEF NoJob, JobFields
<1>3. S \subseteq DOMAIN entries /\ IsFiniteSet(S)
  <2>1. S \subseteq DOMAIN entries
    BY DEF Exported
  <2>2. QED
    BY <2>1, FS_Subset DEF TfInv, EntryShapes
<1> HIDE DEF S
<1>4. ks \in [1 .. n -> S] /\ n \in Nat /\ \A i, j \in 1 .. n : ks[i] = ks[j] => i = j
  BY <1>3, OrderOf
<1> HIDE DEF ks, n
<1>5. /\ d \in Seq({d[i] : i \in 1 .. n}) /\ Len(d) = n
  BY <1>4 DEF d
<1>6. \A i \in 1 .. n : d[i].head = ks[i] /\ d[i].val = entries[ks[i]].val
  BY <1>4 DEF d
<1>7. Faithful(d)
  <2>1. \A i \in 1 .. n : ks[i] \in DOMAIN entries
    BY <1>3, <1>4
  <2>2. QED
    BY <1>4, <1>5, <1>6, <2>1 DEF Faithful
<1>8. FileInStep'
  BY <1>1, <1>2, <1>7 DEF FileInStep, Faithful
<1>9. QED
  BY <1>1, <1>2, <1>8, ShapesStay DEF TfInv

\* The steps of a job that leave the entries and the file alone.
LEMMA JobGoesOn ==
    ASSUME TfInv, UNCHANGED <<entries, md>>, DOMAIN job' = JobFields,
           job.pc # "replace", job'.pc # "replace", synced' => synced
    PROVE  TfInv'
<1>1. EntryShapes'
  BY ShapesStay
<1>2. FileInStep'
  BY DEF TfInv, FileInStep, Faithful
<1>3. QED
  BY <1>1, <1>2 DEF TfInv

LEMMA EndImportOk ==
    ASSUME TfInv, NEW b, EndImport(b)
    PROVE  TfInv'
<1>1. /\ job.pc = "check" /\ job' = NoJob /\ md' = md /\ synced' = synced
      /\ entries' = entries \/ entries' = [k \in DOMAIN entries |-> Restored(k)]
  BY DEF EndImport
<1>2. /\ DOMAIN job' = JobFields /\ job'.pc = "idle"
  BY <1>1 DEF NoJob, JobFields
<1>3. EntryShapes
  BY DEF TfInv
<1>4. ASSUME NEW k \in DOMAIN entries
      PROVE  DOMAIN Restored(k) = EntryFields /\ Restored(k).val = entries[k].val
  <2>1. DOMAIN entries[k] = EntryFields
    BY <1>3 DEF EntryShapes
  <2>2. QED
    BY <2>1 DEF Restored, EntryFields
<1>5. /\ DOMAIN entries' = DOMAIN entries
      /\ \A k \in DOMAIN entries : entries'[k].val = entries[k].val
      /\ \A k \in DOMAIN entries : DOMAIN entries'[k] = EntryFields
      /\ entries' = [k \in DOMAIN entries' |-> entries'[k]]
  <2>1. CASE entries' = entries
    BY <1>3, <2>1 DEF EntryShapes
  <2>2. CASE entries' = [k \in DOMAIN entries |-> Restored(k)]
    BY <1>4, <2>2
  <2>3. QED
    BY <1>1, <2>1, <2>2
<1>6. EntryShapes'
  BY <1>3, <1>5 DEF EntryShapes
<1>7. synced' => Faithful(md)'
  <2> SUFFICES ASSUME synced PROVE Faithful(md)'
    BY <1>1
  <2>1. Faithful(md)
    BY <1>1 DEF TfInv, FileInStep
  <2>2. QED
    BY <1>1, <1>5, <2>1, StaysFaithful DEF Faithful
<1>8. QED
  BY <1>2, <1>6, <1>7 DEF TfInv, FileInStep

LEMMA TfStepOk == TfInv /\ [TfNext]_tfVars => TfInv'
<1> SUFFICES ASSUME TfInv, [TfNext]_tfVars PROVE TfInv'
  OBVIOUS
<1>0. DOMAIN job = JobFields /\ DOMAIN NoJob = JobFields /\ NoJob.pc = "idle"
  BY DEF TfInv, NoJob, JobFields
<1>1. CASE BeginSyncTo
  BY <1>1, BeginSyncToOk
<1>2. CASE ReplaceMd
  <2>1. job.pc = "replace" /\ md' = job.todo /\ job' = NoJob /\ UNCHANGED <<entries, synced>>
    BY <1>2 DEF ReplaceMd
  <2>2. FileInStep'
    BY <1>0, <2>1 DEF TfInv, FileInStep, Faithful
  <2>3. QED
    BY <1>0, <2>1, <2>2, ShapesStay DEF TfInv
<1>3. CASE SyncToFails
  BY <1>0, <1>3, ShapesStay, OutOfStep DEF TfInv, SyncToFails
<1>4. CASE Export
  BY <1>0, <1>4, JobGoesOn DEF Export
<1>5. CASE BeginFromMd
  <2>1. DOMAIN job' = JobFields /\ job'.pc = "check"
    BY <1>5 DEF BeginFromMd, JobFields
  <2>2. QED
    BY <1>0, <1>5, <2>1, JobGoesOn DEF BeginFromMd
<1>6. CASE CheckItem
  <2>1. DOMAIN job' = JobFields /\ job'.pc \in {"check", "save"} /\ job.pc = "check"
    BY <1>0, <1>6 DEF CheckItem, JobFields
  <2>2. QED
    BY <1>6, <2>1, JobGoesOn DEF CheckItem
<1>7. ASSUME NEW b, BeginImport(b) PROVE TfInv'
  <2>1. DOMAIN job' = JobFields /\ job'.pc = "check"
    BY <1>7 DEF BeginImport, JobFields
  <2>2. QED
    BY <1>0, <1>7, <2>1, JobGoesOn DEF BeginImport
<1>8. ASSUME NEW b, SaveItem(b) PROVE TfInv'
  <2>1. DOMAIN job' = JobFields /\ job'.pc = "check" /\ job.pc = "save" /\ md' = md
        /\ (synced' => synced)
    BY <1>0, <1>8 DEF SaveItem, JobFields
  <2>2. CASE ~b
    BY <1>8, <2>1, <2>2, JobGoesOn DEF SaveItem
  <2>3. CASE b
    <3> DEFINE e == Imported(Head(job.todo))
    <3>1. entries' = With(Head(job.todo).key, e) /\ synced' = FALSE
      BY <1>8, <2>3 DEF SaveItem
    <3>2. DOMAIN e = EntryFields
      BY DEF Imported, EntryFields
    <3> HIDE DEF e
    <3>3. QED
      BY <2>1, <3>1, <3>2, ShapesWith, OutOfStep DEF TfInv
  <2>4. QED
    BY <2>2, <2>3
<1>9. ASSUME NEW b, EndImport(b) PROVE TfInv'
  BY <1>9, EndImportOk
<1>10. ASSUME NEW k, NEW val, NEW tier, AgentSave(k, val, tier) PROVE TfInv'
  <2> DEFINE e == [val |-> val, tier |-> tier, live |-> TRUE, by |-> "agent", vec |-> val]
  <2>1. entries' = With(k, e) /\ synced' = FALSE /\ job' = job
    BY <1>10 DEF AgentSave
  <2>2. DOMAIN e = EntryFields
    BY DEF EntryFields
  <2> HIDE DEF e
  <2>3. QED
    BY <1>0, <2>1, <2>2, ShapesWith, OutOfStep DEF TfInv
<1>11. ASSUME NEW k, AgentClose(k) PROVE TfInv'
  <2>1. k \in DOMAIN entries /\ entries' = [entries EXCEPT ![k].live = FALSE]
        /\ synced' = FALSE /\ job' = job
    BY <1>11 DEF AgentClose
  <2>2. EntryShapes
    BY DEF TfInv
  <2>3. DOMAIN entries' = DOMAIN entries /\ entries' = [x \in DOMAIN entries' |-> entries'[x]]
    BY <2>1
  <2>4. \A x \in DOMAIN entries : DOMAIN entries'[x] = EntryFields
    BY <2>1, <2>2 DEF EntryShapes
  <2>5. EntryShapes'
    BY <2>2, <2>3, <2>4 DEF EntryShapes
  <2>6. QED
    BY <1>0, <2>1, <2>5, OutOfStep DEF TfInv
<1>12. ASSUME NEW k, AgentDelete(k) PROVE TfInv'
  <2>1. entries' = [x \in DOMAIN entries \ {k} |-> entries[x]] /\ synced' = FALSE /\ job' = job
    BY <1>12 DEF AgentDelete
  <2>2. EntryShapes
    BY DEF TfInv
  <2>3. DOMAIN entries' = DOMAIN entries \ {k}
    BY <2>1
  <2>4. IsFiniteSet(DOMAIN entries \ {k})
    BY <2>2, FS_RemoveElement DEF EntryShapes
  <2>5. EntryShapes'
    BY <2>1, <2>2, <2>3, <2>4 DEF EntryShapes
  <2>6. QED
    BY <1>0, <2>1, <2>5, OutOfStep DEF TfInv
<1>13. ASSUME NEW k, UserEdit(k) PROVE TfInv'
  BY <1>0, <1>13, ShapesStay, OutOfStep DEF TfInv, UserEdit
<1>14. CASE UNCHANGED tfVars
  <2>1. entries' = entries /\ md' = md /\ job' = job /\ synced' = synced
    BY <1>14 DEF tfVars
  <2>2. FileInStep'
    BY <2>1 DEF TfInv, FileInStep, Faithful
  <2>3. QED
    BY <1>0, <2>1, <2>2, ShapesStay DEF TfInv
<1>15. QED
  BY <1>1, <1>2, <1>3, <1>4, <1>5, <1>6, <1>7, <1>8, <1>9, <1>10, <1>11, <1>12, <1>13, <1>14
     DEF TfNext

\* A file of entries that are their own slugs, in plain values, is read as it was written.
LEMMA ReadAsWritten ==
    ASSUME NEW d, Faithful(d),
           \A k \in DOMAIN entries : Slug(k) = k /\ entries[k].val = "plain"
    PROVE  \A i \in DOMAIN Keyed(d) : Keyed(d)[i].key \in DOMAIN entries
<1> DEFINE N == Len(d)
           first == [seen |-> {}, out |-> <<>>]
           next(x, i) == Section(x, d[i].head, d[i].val)
           Reads(g, m) == g = [i \in 0 .. m |-> IF i = 0 THEN first ELSE next(g[i - 1], i)]
           Bad == {m \in 0 .. N : ~\E g : Reads(g, m)}
<1>1. N \in Nat
  BY DEF Faithful
<1> HIDE DEF N, first, next
<1>2. Bad = {}
  <2> SUFFICES ASSUME Bad # {} PROVE FALSE
    OBVIOUS
  <2>1. PICK m \in Bad : \A y \in Bad : m <= y
    <3>1. Bad \in SUBSET Nat
      BY <1>1
    <3> HIDE DEF Bad
    <3>2. QED
      BY <3>1, Least
  <2>2. m \in 0..N /\ ~\E g : Reads(g, m)
    BY <2>1
  <2>3. CASE m = 0
    <3> DEFINE g == [i \in 0..0 |-> first]
    <3>1. g = [i \in 0..0 |-> IF i = 0 THEN first ELSE next(g[i-1], i)]
      OBVIOUS
    <3>2. QED
      BY <3>1, <2>2, <2>3
  <2>4. CASE m # 0
    <3>1. m - 1 \in 0..N /\ ~(m <= m - 1)
      BY <1>1, <2>2, <2>4
    <3>2. m - 1 \notin Bad
      <4> HIDE DEF Bad
      <4>1. QED
        BY <2>1, <3>1
    <3>3. PICK h : Reads(h, m - 1)
      BY <3>1, <3>2
    <3> DEFINE g == [i \in 0..m |-> IF i = m THEN next(h[m-1], m) ELSE h[i]]
    <3>4. ASSUME NEW i \in 0..m
          PROVE  g[i] = IF i = 0 THEN first ELSE next(g[i-1], i)
      <4>1. CASE i = m
        <5>1. g[i] = next(h[m-1], m)
          BY <4>1
        <5>2. g[i-1] = h[m-1]
          BY <1>1, <2>2, <2>4, <4>1
        <5>3. QED
          BY <5>1, <5>2, <4>1, <2>4
      <4>2. CASE i # m
        <5>1. i \in 0..(m-1) /\ g[i] = h[i]
          BY <1>1, <2>2, <4>2
        <5>2. h[i] = IF i = 0 THEN first ELSE next(h[i-1], i)
          BY <3>3, <5>1
        <5>3. i # 0 => i - 1 \in 0..m /\ i - 1 # m
          BY <1>1, <2>2, <5>1
        <5>4. i # 0 => g[i-1] = h[i-1]
          BY <5>3
        <5>5. QED
          BY <5>1, <5>2, <5>4
      <4>3. QED
        BY <4>1, <4>2
    <3>5. Reads(g, m)
      BY <3>4
    <3>6. QED
      BY <3>5, <2>2
  <2>5. QED
    BY <2>3, <2>4
<1> DEFINE read == CHOOSE g : Reads(g, N)
<1>3. Keyed(d) = read[N].out
  BY DEF Keyed, N, first, next
<1>4. \A i \in 0 .. N : read[i] = IF i = 0 THEN first ELSE next(read[i - 1], i)
  <2>1. \E g : Reads(g, N)
    <3>1. N \in 0 .. N /\ N \notin Bad
      BY <1>1, <1>2
    <3> HIDE DEF Reads
    <3>2. QED
      BY <3>1
  <2>2. Reads(read, N)
    BY <2>1
  <2> HIDE DEF read
  <2>3. QED
    BY <2>2
<1> HIDE DEF read
<1> DEFINE Good(x, i) == /\ x.seen = {d[j].head : j \in 1 .. i}
                         /\ \E S : x.out \in Seq(S)
                         /\ \A j \in 1 .. Len(x.out) : x.out[j].key \in DOMAIN entries
<1>5. Good(first, 0)
  <2>1. first.seen = {} /\ first.out = << >> /\ << >> \in Seq({}) /\ Len(<< >>) = 0
    BY DEF first
  <2>2. QED
    BY <2>1
<1>6. ASSUME NEW i \in 1 .. N, NEW x, Good(x, i - 1) PROVE Good(next(x, i), i)
  <2> DEFINE k == d[i].head
             item == [key |-> k, val |-> "plain", tier |-> "durable"]
  <2>1. k \in DOMAIN entries /\ d[i].val = "plain" /\ Slug(k) = k
    BY DEF Faithful, N
  <2>2. k \notin x.seen
    <3>1. ASSUME NEW j \in 1 .. (i - 1), d[j].head = k PROVE FALSE
      <4>1. j \in 1 .. N /\ j # i
        BY <1>1
      <4>2. QED
        BY <3>1, <4>1 DEF Faithful, N
    <3>2. QED
      BY <1>6, <3>1
  <2>3. next(x, i) = [seen |-> x.seen \cup {k}, out |-> Append(x.out, item)]
    <3>1. Resolve(Slug(k), k, x.seen) = k
      BY <2>1, <2>2 DEF Resolve
    <3>2. next(x, i) = Flush(x, k, "plain")
      BY <2>1 DEF next, Section
    <3>3. QED
      BY <3>1, <3>2 DEF Flush
  <2>4. x.seen \cup {k} = {d[j].head : j \in 1 .. i}
    <3>1. 1 .. i = (1 .. (i - 1)) \cup {i}
      BY <1>1
    <3>2. QED
      BY <1>6, <3>1
  <2>5. PICK S : x.out \in Seq(S)
    BY <1>6
  <2> DEFINE T == S \cup {item}
             out == Append(x.out, item)
  <2>6. x.out \in Seq(T) /\ item \in T
    BY <2>5
  <2>7. item.key = k
    OBVIOUS
  <2> HIDE DEF T, item
  <2>8. /\ out \in Seq(T) /\ Len(out) = Len(x.out) + 1 /\ Len(x.out) \in Nat
        /\ out[Len(x.out) + 1] = item
        /\ \A j \in 1 .. Len(x.out) : out[j] = x.out[j]
    BY <2>6
  <2> HIDE DEF out, k
  <2>9. ASSUME NEW j \in 1 .. Len(out) PROVE out[j].key \in DOMAIN entries
    <3>1. CASE j = Len(x.out) + 1
      BY <2>1, <2>7, <2>8, <3>1
    <3>2. CASE j # Len(x.out) + 1
      <4>1. j \in 1 .. Len(x.out)
        BY <2>8, <3>2
      <4>2. QED
        BY <1>6, <2>8, <4>1
    <3>3. QED
      BY <3>1, <3>2
  <2>10. next(x, i).seen = {d[j].head : j \in 1 .. i} /\ next(x, i).out = out
    BY <2>3, <2>4 DEF out
  <2>11. QED
    BY <2>8, <2>9, <2>10
<1> HIDE DEF Good
<1> DEFINE Off == {m \in 0..N : ~Good(read[m], m)}
<1>7. Off = {}
  <2> SUFFICES ASSUME Off # {} PROVE FALSE
    OBVIOUS
  <2>1. PICK m \in Off : \A y \in Off : m <= y
    <3>1. Off \in SUBSET Nat
      BY <1>1
    <3> HIDE DEF Off
    <3>2. QED
      BY <3>1, Least
  <2>2. m \in 0..N /\ ~Good(read[m], m)
    BY <2>1
  <2>3. m # 0
    BY <1>4, <1>5, <2>2
  <2>4. m - 1 \in 0..N /\ ~(m <= m - 1) /\ m \in 1 .. N
    BY <1>1, <2>2, <2>3
  <2>5. Good(read[m-1], m - 1)
    BY <2>1, <2>4
  <2>6. read[m] = next(read[m-1], m)
    BY <1>4, <2>2, <2>3
  <2>7. QED
    BY <1>6, <2>2, <2>4, <2>5, <2>6
<1>8. Good(read[N], N)
  BY <1>1, <1>7
<1>9. QED
  <2>1. DOMAIN read[N].out = 1 .. Len(read[N].out)
    BY <1>8 DEF Good
  <2>2. QED
    BY <1>3, <1>8, <2>1 DEF Good

\* RoundTripStable: while the file is in step with the store, its sections are
\* entries, each once, so that the parser gives each section its entry's key.
THEOREM RoundTripAddsNothing == TfSpec => []RoundTripStable
<1>1. TfInv => RoundTripStable
  <2> SUFFICES ASSUME TfInv, synced, job.pc # "replace",
                      \A k \in DOMAIN entries : Slug(k) = k /\ entries[k].val = "plain"
               PROVE  \A i \in DOMAIN Keyed(md) : Found(Keyed(md)[i].key)
    BY DEF RoundTripStable
  <2>1. Faithful(md)
    BY DEF TfInv, FileInStep
  <2>2. QED
    BY <2>1, ReadAsWritten DEF Found
<1>2. QED
  BY TfInitOk, TfStepOk, <1>1, PTL DEF TfSpec

=============================================================================

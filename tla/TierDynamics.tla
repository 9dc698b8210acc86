---------------------------- MODULE TierDynamics ----------------------------
(***************************************************************************)
(* How one memory fades, is reinforced, moves between the tiers of a       *)
(* profile and is collected. Confidence is counted in twentieths and time  *)
(* in days. The exponential curve halves at whole half-lives and the power *)
(* law has exponent and scale 1, so that both stay within the integers.    *)
(* Twentieths are rounded up: a positive confidence never fades to zero,   *)
(* and "at most the floor" means what it means of the fractions. Races     *)
(* between these operations are StoreCache's subject: an operation is one  *)
(* step here.                                                              *)
(***************************************************************************)
EXTENDS Integers, FiniteSets

CONSTANTS Layers,           \* the profile: a sequence of layers, lowest tier first
          Ceiling,          \* the confidence ceiling of the entry's source
          Boosts,           \* confidence boosts of a reinforcement
          FloorRetention,   \* gc.floor_retention_days
          NoDate,           \* no date
          StartConfidences, \* what a new entry may start with
          MaxDay, MaxCount  \* bounds on days and on accesses

ASSUME TierAssumption ==
  /\ \A t \in DOMAIN Layers :
       /\ Layers[t].halfLife \in Nat \ {0} /\ Layers[t].floor \in 0..20
       /\ Layers[t].curve \in {"exponential", "power_law"}
       /\ Layers[t].up \subseteq DOMAIN Layers /\ Layers[t].down \subseteq DOMAIN Layers
  /\ Boosts \subseteq Nat /\ StartConfidences \subseteq 0..20
  /\ Ceiling \in 0..20 /\ FloorRetention \in Nat

VARIABLES mem,        \* the entry
          kept,       \* it is in the store: not archived
          today,
          moved,      \* the last move: promoted, demoted or archived, from which tier, when
          atMove      \* the entry as the collector saw it at that move

tdVars == <<mem, kept, today, moved, atMove>>

Least(a, b) == IF a <= b THEN a ELSE b
Greatest(a, b) == IF a >= b THEN a ELSE b

-----------------------------------------------------------------------------
(* Decay.                                                                  *)

\* A quotient rounded up.
UpDiv(a, b) == (a + b - 1) \div b

\* 2 to the n; a confidence is at most 20, so 32 does for every higher power.
Twofold(n) == IF n >= 5 THEN 32 ELSE <<1, 2, 4, 8, 16>>[n + 1]

\* exponential_decay and power_law_decay applied to a confidence.
Faded(c, days, halfLife, curve) ==
  IF days <= 0 THEN c
  ELSE IF curve = "power_law" THEN UpDiv(c * halfLife, halfLife + days)
  ELSE UpDiv(c, Twofold(days \div halfLife))

\* effective_half_life: an entry's own stability before its tier's half-life.
HalfLife(e) == IF e.stability > 0 THEN e.stability ELSE Layers[e.tier].halfLife

\* _decay_reference_time.
DecayReference(e) == IF e.reinforced # NoDate THEN e.reinforced ELSE e.updated

\* calculate_decayed_confidence on a day.
Effective(e, day) ==
  LET faded == Faded(e.conf, day - DecayReference(e), HalfLife(e), Layers[e.tier].curve)
  IN  Greatest(Layers[e.tier].floor, Least(Ceiling, faded))

\* The half-lives until a confidence is down to a floor.
Halvings(c, floor) ==
  CHOOSE n \in 0..5 : c <= floor * Twofold(n) /\ \A m \in 0..5 : m < n => c > floor * Twofold(m)

\* The curve solved for the first day at the floor.
DaysToFloor(c, floor, halfLife, curve) ==
  IF curve = "power_law" THEN UpDiv(c * halfLife, floor) - halfLife
  ELSE halfLife * Halvings(c, floor)

SinceReference(e) == Greatest(today - DecayReference(e), 0)

\* The tier's half-life although the entry has a stability of its own.
DaysAtFloorByTier(e) ==
  LET layer == Layers[e.tier]
  IN  IF e.conf <= layer.floor \/ layer.floor = 0 THEN SinceReference(e)
      ELSE Greatest(SinceReference(e)
                      - DaysToFloor(e.conf, layer.floor, layer.halfLife, layer.curve), 0)

\* MemoryGarbageCollector._days_at_floor.
DaysAtFloor(e) ==
  LET layer == Layers[e.tier]
  IN  IF e.conf <= layer.floor \/ layer.floor = 0 THEN SinceReference(e)
      ELSE Greatest(SinceReference(e)
                      - DaysToFloor(e.conf, layer.floor, HalfLife(e), layer.curve), 0)

\* update_stability: a useful access never shrinks it, another takes a fifth.
Stabilities(e, useful) ==
  LET old == HalfLife(e)
  IN  IF ~Layers[e.tier].adaptive THEN {e.stability}
      ELSE IF useful THEN {old, old + 1}
      ELSE {Greatest(1, (old * 4) \div 5)}

-----------------------------------------------------------------------------
(* Promotion and demotion.                                                 *)

\* check_promotion by thresholds. A layer has at most one tier above it.
PromotedTo(e) ==
  LET layer == Layers[e.tier]
  IN  {t \in layer.up : /\ e.count >= layer.minCount
                        /\ today - e.created >= layer.minAge
                        /\ Effective(e, today) >= layer.minConf}

\* check_demotion.
DemotedTo(e) ==
  LET layer == Layers[e.tier]
  IN  {t \in layer.down : /\ today - e.accessed >= layer.halfLife
                          /\ \/ e.stability > 0 /\ e.stability < layer.minStability
                             \/ 2 * Effective(e, today) <= 3 * layer.floor}

NoMove == [kind |-> "none", from |-> 1, day |-> 0]

Move(kind, e) == [kind |-> kind, from |-> e.tier, day |-> today]

-----------------------------------------------------------------------------
(* Operations.                                                             *)

\* store.get.
ReadEntry ==
  /\ kept /\ mem.count < MaxCount
  /\ mem' = [mem EXCEPT !.accessed = today, !.count = @ + 1]
  /\ UNCHANGED <<kept, today, moved, atMove>>

\* reinforcement.reinforce: a boost never lowers an entry above its ceiling.
Boosted(e, boost) == Least(e.conf + boost, Greatest(Ceiling, e.conf))

\* store.reinforce, with the stability and the promotion at its end. It does
\* not touch last_accessed.
ReinforceEntry(boost) ==
  /\ kept /\ mem.count < MaxCount
  /\ \E s \in Stabilities(mem, TRUE) :
       LET e == [mem EXCEPT !.conf = Boosted(mem, boost), !.reinforced = today,
                            !.updated = today, !.count = @ + 1, !.stability = s]
       IN  \/ /\ PromotedTo(e) = {}
              /\ mem' = e /\ UNCHANGED <<moved, atMove>>
           \/ \E t \in PromotedTo(e) :
                /\ mem' = [e EXCEPT !.tier = t]
                /\ moved' = Move("promoted", e) /\ atMove' = e
  /\ UNCHANGED <<kept, today>>

\* store.record_access: a fifth of the way to the Laplace estimate.
Usefulness(e, useful) ==
  LET n == e.useful + (IF useful THEN 1 ELSE 0)
      target == (20 * (n + 1)) \div (e.total + 3)
      blended == e.conf + (target - e.conf) \div 5
  IN  Greatest(0, Least(20, Least(blended, Greatest(Ceiling, e.conf))))

RecordAccess(useful) ==
  /\ kept /\ mem.total < MaxCount
  /\ \E s \in Stabilities(mem, useful) :
       mem' = [mem EXCEPT !.conf = Usefulness(mem, useful), !.stability = s, !.total = @ + 1,
                          !.useful = @ + (IF useful THEN 1 ELSE 0)]
  /\ UNCHANGED <<kept, today, moved, atMove>>

\* _archive_reasons, the floor_retention part.
Overdue(e) == Effective(e, today) <= Layers[e.tier].floor /\ DaysAtFloor(e) >= FloorRetention

\* store.gc for a floor_retention candidate: down a tier or into the archive.
Collect ==
  /\ kept /\ Overdue(mem)
  /\ atMove' = mem
  /\ \/ /\ DemotedTo(mem) = {}
        /\ kept' = FALSE
        /\ moved' = Move("archived", mem)
        /\ UNCHANGED mem
     \/ \E t \in DemotedTo(mem) :
          /\ mem' = [mem EXCEPT !.tier = t, !.updated = today]
          /\ moved' = Move("demoted", mem)
          /\ UNCHANGED kept
  /\ UNCHANGED today

DayPasses ==
  /\ today < MaxDay
  /\ today' = today + 1
  /\ UNCHANGED <<mem, kept, moved, atMove>>

-----------------------------------------------------------------------------
TdInit ==
  /\ mem \in [tier : DOMAIN Layers, conf : StartConfidences, reinforced : {NoDate}, updated : {0},
              accessed : {0}, created : {0}, count : {0}, stability : {0}, useful : {0}, total : {0}]
  /\ kept = TRUE /\ today = 0
  /\ moved = NoMove /\ atMove = mem

TdNext ==
  \/ ReadEntry
  \/ \E b \in Boosts : ReinforceEntry(b)
  \/ \E useful \in BOOLEAN : RecordAccess(useful)
  \/ Collect
  \/ DayPasses

TdSpec == TdInit /\ [][TdNext]_tdVars

-----------------------------------------------------------------------------
(* Properties.                                                             *)

\* The collector takes only what has been at its floor for the whole
\* retention time: the days solved from the curve agree with the curve.
CollectedWasAtFloor ==
  moved.kind \in {"demoted", "archived"} =>
     \A day \in (moved.day - FloorRetention)..moved.day :
        Effective(atMove, day) <= Layers[moved.from].floor
=============================================================================

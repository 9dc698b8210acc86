------------------------------ MODULE MCAnswers -----------------------------
(***************************************************************************)
(* The store under two threads and the parts that judge what it holds: the *)
(* ranking of a question, integrity hashes, confidence and tiers.  They    *)
(* share no state in the model, so they are checked in one run: a          *)
(* behaviour is about the part in focus and the others stay in an initial  *)
(* state.                                                                  *)
(***************************************************************************)
EXTENDS StoreCache, Recall, Integrity, TierDynamics

\* Three tiers, lowest first, with both curves; the lowest ends in the archive.
MCLayers ==
  << [halfLife |-> 1, floor |-> 4, curve |-> "exponential", up |-> {2}, down |-> {},
      minCount |-> 1, minAge |-> 1, minConf |-> 8, minStability |-> 0, adaptive |-> FALSE],
     [halfLife |-> 2, floor |-> 5, curve |-> "power_law", up |-> {3}, down |-> {1},
      minCount |-> 2, minAge |-> 2, minConf |-> 10, minStability |-> 2, adaptive |-> TRUE],
     [halfLife |-> 2, floor |-> 6, curve |-> "exponential", up |-> {}, down |-> {2},
      minCount |-> 2, minAge |-> 2, minConf |-> 10, minStability |-> 0, adaptive |-> TRUE] >>

\* The legacy text of a hash does not tell two of three contents apart.
MCPipe == [c \in {"a", "b", "c"} |-> IF c = "b" THEN "a" ELSE c]

VARIABLE focus

answersVars == <<focus, vars, rcVars, igVars, tdVars>>

\* Of the initial states of a part that is not in focus, one.
Unless(part, P) == focus = part \/ P
Parked ==
  /\ Unless("store", durable = NoRows)
  /\ Unless("recall", row = [k \in Memories |-> "gone"] /\ match = [k \in Memories |-> {}])
  /\ Unless("integrity", file = Nothing)

AnswersInit ==
  /\ focus \in {"store", "recall", "integrity", "tiers"}
  /\ Parked
  /\ Init /\ RcInit /\ IgInit
  /\ TdInit /\ Unless("tiers", mem.tier = 1 /\ mem.conf = 10)

InStore(A) == focus = "store" /\ A /\ UNCHANGED <<focus, rcVars, igVars, tdVars>>
InRecall(A) == focus = "recall" /\ A /\ UNCHANGED <<focus, vars, igVars, tdVars>>
InIntegrity(A) == focus = "integrity" /\ A /\ UNCHANGED <<focus, vars, rcVars, tdVars>>
InTiers(A) == focus = "tiers" /\ A /\ UNCHANGED <<focus, vars, rcVars, igVars>>

\* Nobody is in the middle of anything, and the bounds may have stopped everyone.
AtRest ==
  \/ focus = "recall" /\ call.pc \in {"idle", "done"}
  \/ focus = "integrity" /\ saver = Resting /\ keeper = Resting
  \/ focus = "tiers"

AnswersNext ==
  \/ InStore(Next)
  \/ InRecall(RcNext)
  \/ InIntegrity(IgNext)
  \/ InTiers(TdNext)
  \/ AtRest /\ UNCHANGED answersVars

AnswersSpec == AnswersInit /\ [][AnswersNext]_answersVars
=============================================================================

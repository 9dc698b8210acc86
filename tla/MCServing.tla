----------------------------- MODULE MCServing ------------------------------
(***************************************************************************)
(* Parts of a serving process that share no state, checked in one run: a   *)
(* behaviour is about the part in focus and the others stay in an initial  *)
(* state.  Fairness is assumed of the processes that migrate the schema;   *)
(* the parts name their threads, requests and runners alike.               *)
(***************************************************************************)
EXTENDS Connections, ServingCaches, Migrations, SpanCircuit, Flywheel,
        DocValidation

ASSUME SameNames == Users = Requests /\ Users = Runners /\ Users = Processors

\* Two events of one project and one of another.
MCProject == <<1, 1, 2>>

\* Two entries that share the second claim.
MCEntries == <<"a", "b">>
MCClaims == [k \in {"a", "b"} |-> IF k = "a" THEN <<1, 2>> ELSE <<2, 3>>]

VARIABLE focus

Serving == <<focus, connvars, scVars, vars, spVars, fwVars, dvVars>>

\* Of the initial states of a part that is not in focus, one.
Parked ==
  /\ focus = "caches" \/ wanted = "probe"
  /\ \/ focus = "migrations"
     \/ /\ role = [r \in Runners |-> "apply"] /\ bundle = [r \in Runners |-> Latest]
        /\ target = [r \in Runners |-> 0] /\ recorded = {}

ServingInit ==
  /\ focus \in {"connections", "caches", "migrations", "spans", "flywheel", "validation"}
  /\ Parked
  /\ ConnInit /\ ScInit /\ Init /\ SpInit /\ FwInit /\ DvInit

InConnections(A) ==
  focus = "connections" /\ A /\ UNCHANGED <<focus, scVars, vars, spVars, fwVars, dvVars>>
InCaches(A) ==
  focus = "caches" /\ A /\ UNCHANGED <<focus, connvars, vars, spVars, fwVars, dvVars>>
InMigrations(A) ==
  focus = "migrations" /\ A /\ UNCHANGED <<focus, connvars, scVars, spVars, fwVars, dvVars>>
InSpans(A) ==
  focus = "spans" /\ A /\ UNCHANGED <<focus, connvars, scVars, vars, fwVars, dvVars>>
InFlywheel(A) ==
  focus = "flywheel" /\ A /\ UNCHANGED <<focus, connvars, scVars, vars, spVars, dvVars>>
InValidation(A) ==
  focus = "validation" /\ A /\ UNCHANGED <<focus, connvars, scVars, vars, spVars, fwVars>>

\* Nobody is in the middle of anything, and the bounds may have stopped everyone.
AtRest ==
  \/ focus = "connections" /\ \A p \in Users : user[p].pc = "rest"
  \/ focus = "caches" /\ \A p \in Users : req[p].pc \notin {"queue", "fetch", "store"}
  \/ focus = "spans" /\ \A e \in Exporters : export[e] = "idle"
  \/ focus = "flywheel" /\ \A p \in Users : run[p].pc = "idle"
  \/ focus = "validation" /\ batch = NoBatch

ServingNext ==
  \/ InConnections(ConnNext) \/ InCaches(ScNext) \/ InMigrations(Next) \/ InSpans(SpNext)
  \/ InFlywheel(FwNext) \/ InValidation(DvNext)
  \/ (AtRest /\ UNCHANGED Serving)

ServingFairness == \A r \in Runners : WF_Serving(InMigrations(Run(r)))

ServingSpec == ServingInit /\ [][ServingNext]_Serving /\ ServingFairness
=============================================================================

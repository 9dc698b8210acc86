------------------------------ MODULE MCShared ------------------------------
(***************************************************************************)
(* Parts that work on the shared database and share no rows, checked in    *)
(* one run: a behaviour is about the part in focus and the others stay in  *)
(* an initial state.  Fairness is assumed of the waiting agent and of the  *)
(* requests.                                                               *)
(***************************************************************************)
EXTENDS Sharing, Maintenance, Federation, RetentionScan, Idempotency

VARIABLE focus

Shared == <<focus, shVars, mtVars, fedVars, rsVars, vars>>

\* Of the initial states of a part that is not in focus, one.
Parked ==
  /\ focus = "hive" \/ declared = {}
  /\ focus = "federation" \/ scope = [k \in FedKeys |-> "project"]
  /\ focus = "retention" \/ (overdue = {} /\ conn = [autocommit |-> TRUE, bypass |-> FALSE])
  /\ \/ focus = "idempotency"
     \/ /\ route = [r \in Requests |-> CHOOSE o \in Routes : TRUE]
        /\ replica = [r \in Requests |-> CHOOSE p \in Replicas : TRUE]

SharedInit ==
  /\ focus \in {"hive", "maintenance", "federation", "retention", "idempotency"}
  /\ Parked
  /\ ShInit /\ MtInit /\ FedInit /\ RsInit /\ Init

InHive(A) == focus = "hive" /\ A /\ UNCHANGED <<focus, mtVars, fedVars, rsVars, vars>>
InMaintenance(A) == focus = "maintenance" /\ A /\ UNCHANGED <<focus, shVars, fedVars, rsVars, vars>>
InFederation(A) == focus = "federation" /\ A /\ UNCHANGED <<focus, shVars, mtVars, rsVars, vars>>
InRetention(A) == focus = "retention" /\ A /\ UNCHANGED <<focus, shVars, mtVars, fedVars, vars>>
InIdempotency(A) == focus = "idempotency" /\ A /\ UNCHANGED <<focus, shVars, mtVars, fedVars, rsVars>>

\* Nobody is in the middle of anything, and the bounds may have stopped everyone.
AtRest ==
  \/ focus = "hive" /\ (\A w \in Workers : job[w] = Idle) /\ waiter.pc \notin {"listen", "check"}
  \/ focus = "maintenance" /\ cycle = Asleep
  \/ focus = "federation" /\ \A p \in Publishers : tx[p] = NoTx
  \/ focus = "retention" /\ scan.pc \in {"idle", "done", "raised"}

SharedNext ==
  \/ InHive(ShNext) \/ InMaintenance(MtNext) \/ InFederation(FedNext) \/ InRetention(RsNext)
  \/ InIdempotency(Next) \/ (AtRest /\ UNCHANGED Shared)

SharedFairness ==
  /\ WF_Shared(InHive(Wait))
  /\ \A r \in Requests : WF_Shared(InIdempotency(Handle(r)))

SharedSpec == SharedInit /\ [][SharedNext]_Shared /\ SharedFairness
=============================================================================

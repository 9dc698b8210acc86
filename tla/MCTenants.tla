------------------------------ MODULE MCTenants -----------------------------
(***************************************************************************)
(* The tenancy migration, the research caches and the quality circuit,     *)
(* which share no state, checked in one run: a behaviour is about the part *)
(* in focus and the others stay in an initial state.                       *)
(***************************************************************************)
EXTENDS TenancyMigration, ResearchCache, QualityCircuit

VARIABLE focus

tenantsVars == <<focus, vars, rsVars, circuitVars>>

\* Of the initial states of a part that is not in focus, one.
Unless(part, P) == focus = part \/ P
SomeId == [table |-> "memories", project |-> Scout, agent |-> "ingest", key |-> "k"]
Parked ==
  Unless("tenancy", /\ approved = {Scout} /\ audit = [k \in Keys |-> NoAudit]
                    /\ base = [i \in Ids |-> IF i = SomeId THEN TableRow(i, 0, 1, NoId, FALSE)
                                                           ELSE NoRow])

TenantsInit ==
  /\ focus \in {"tenancy", "research", "circuit"}
  /\ Parked
  /\ Init /\ RsInit /\ CircuitInit

InTenancy(A) == focus = "tenancy" /\ A /\ UNCHANGED <<focus, rsVars, circuitVars>>
\* Bounds: one caller at most is about a search, whose key no store takes (what
\* races in the store is the lookups of documentation and their imports), and
\* documentation, which nobody scans, is safe.
ResearchBounds ==
  /\ \A c, d \in Callers : lookup'[c].kind = "search" /\ lookup'[d].kind = "search" => c = d
  /\ \A c \in Callers : lookup'[c].kind = "docs" /\ lookup'[c].pc = "scan" => lookup'[c].got.safe
InResearch(A) == focus = "research" /\ A /\ ResearchBounds /\ UNCHANGED <<focus, vars, circuitVars>>
InCircuit(A) == focus = "circuit" /\ A /\ UNCHANGED <<focus, vars, rsVars>>

\* Nobody is in the middle of anything, and the bounds may have stopped everyone.
AtRest ==
  \/ focus = "research" /\ \A c \in Callers : lookup[c].pc \in {"idle", "answered"}

TenantsNext ==
  \/ InTenancy(Next)
  \/ InResearch(RsNext)
  \/ InCircuit(CircuitNext)
  \/ AtRest /\ UNCHANGED tenantsVars

TenantsSpec == TenantsInit /\ [][TenantsNext]_tenantsVars
=============================================================================

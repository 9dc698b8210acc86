------------------------------ MODULE MCGateway -----------------------------
(***************************************************************************)
(* The gateway, the store as its caller sees it, the write rate limiter    *)
(* and session chunks, which share no state in the model, checked in one   *)
(* run: a behaviour is about the part in focus and the others stay in an   *)
(* initial state.                                                          *)
(***************************************************************************)
EXTENDS Gateway, StoreAtomicity, RateLimiter, Sessions, TLC

\* A chunk with one word, one with two, and an empty one.
MCWordsOf == [t \in {"p", "pq", "blank"} |->
                CASE t = "p" -> {"p"} [] t = "pq" -> {"p", "q"} [] OTHER -> {}]

\* Three deployments: permissive, per-tenant and strict.
MCDeployments ==
    {[strict |-> FALSE, perTenant |-> FALSE, token |-> FALSE],
     [strict |-> FALSE, perTenant |-> TRUE,  token |-> TRUE],
     [strict |-> TRUE,  perTenant |-> TRUE,  token |-> TRUE]}

MCSymmetry == Permutations(Requests) \union Permutations(Replicas)

VARIABLE focus

edgeVars == <<focus, gwvars, vars, limiterVars, snVars>>

\* Of the initial states of a part that is not in focus, one.
Unless(part, P) == focus = part \/ P
Parked ==
  /\ Unless("gateway", /\ deploy = [strict |-> TRUE, perTenant |-> TRUE, token |-> TRUE]
                       /\ reg = [i \in Projects |-> [on |-> FALSE, appr |-> FALSE, tok |-> 0]])
  /\ Unless("store", durable = NoRows)

EdgeInit ==
  /\ focus \in {"gateway", "store", "limiter", "sessions"}
  /\ Parked
  /\ GwInit /\ Init /\ LimiterInit /\ SnInit

InGateway(A) == focus = "gateway" /\ A /\ UNCHANGED <<focus, vars, limiterVars, snVars>>
InStore(A) == focus = "store" /\ A /\ UNCHANGED <<focus, gwvars, limiterVars, snVars>>
InLimiter(A) == focus = "limiter" /\ A /\ UNCHANGED <<focus, gwvars, vars, snVars>>
InSessions(A) == focus = "sessions" /\ A /\ UNCHANGED <<focus, gwvars, vars, limiterVars>>

\* Nobody is in the middle of anything, and the bounds may have stopped everyone.
AtRest ==
  \/ focus = "gateway" /\ \A q \in Requests : ~Underway(q)
  \/ focus = "sessions"

EdgeNext ==
  \/ InGateway(GwNext)
  \/ InStore(Next)
  \/ InLimiter(LimiterNext)
  \/ InSessions(SnNext)
  \/ AtRest /\ UNCHANGED edgeVars

EdgeSpec == EdgeInit /\ [][EdgeNext]_edgeVars
=============================================================================

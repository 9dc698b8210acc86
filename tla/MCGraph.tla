------------------------------- MODULE MCGraph ------------------------------
(***************************************************************************)
(* The knowledge graph and a client's calls, which share no state in the   *)
(* model, checked in one run: a behaviour is about the part in focus and   *)
(* the other stays in an initial state.                                    *)
(***************************************************************************)
EXTENDS KnowledgeGraph, ClientCalls, TLC

\* One subject, two possible objects of one predicate, and event lists that
\* commit, that skip an edge, and that fail half-way.
CONSTANTS x, y, z, likes, m1, m2

MCNames == {x, y, z}
xy == <<x, likes, y>>
xz == <<x, likes, z>>
MCTriples == {xy, xz}

Event(ns, b, t, k, m) == [names |-> ns, bad |-> b, edge |-> t, keyed |-> k, mem |-> m]

MCEventLists ==
    {<<Event({x, y}, {}, xy, TRUE, m1)>>,          \* complete
     <<Event({x, z}, {z}, xz, TRUE, m2)>>,         \* an entity fails: edge left out
     <<Event({x, y}, {}, xy, TRUE, m2),            \* the second event refers to an
       Event({}, {}, xz, FALSE, NoOne)>>}          \* entity that may not exist

MCSymmetry == Permutations(Actors)

VARIABLE focus

graphVars == <<focus, kgvars, clVars>>

GraphInit ==
  /\ focus \in {"graph", "client"}
  /\ KgInit /\ ClInit

InGraph(A) == focus = "graph" /\ A /\ UNCHANGED <<focus, clVars>>
InClient(A) == focus = "client" /\ A /\ UNCHANGED <<focus, kgvars>>

\* Nobody is in the middle of anything, and the bounds may have stopped everyone.
AtRest ==
  \/ focus = "graph" /\ \A a \in Actors : kloc[a] = Idle
  \/ focus = "client" /\ \A t \in Tasks : task[t].pc \notin {"start", "init", "post", "wait"}

GraphNext ==
  \/ InGraph(KgNext)
  \/ InClient(ClNext)
  \/ AtRest /\ UNCHANGED graphVars

GraphSpec == GraphInit /\ [][GraphNext]_graphVars
=============================================================================

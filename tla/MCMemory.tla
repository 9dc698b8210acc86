------------------------------ MODULE MCMemory ------------------------------
(***************************************************************************)
(* What becomes of memories and documents, by parts modelled each with its *)
(* own rows, checked in one run: a behaviour is about the part in focus    *)
(* and the others stay in an initial state.                                *)
(***************************************************************************)
EXTENDS Lifecycle, AsyncFacade, Transfer, Relay, Documents, TLC

\* A document cut in the middle of its first paragraph, an unsafe one, and one
\* longer than MaxChunks chunks.
MCTexts == {[paras |-> <<7, 1>>, safe |-> TRUE], [paras |-> <<2>>, safe |-> FALSE],
            [paras |-> <<4, 9>>, safe |-> TRUE]}

\* Two names with one slug.
MCSlugOf == [b \in {"ab", "a__b", "steps"} |-> IF b = "steps" THEN b ELSE "ab"]

MCSymmetry == Permutations(Writers) \cup Permutations(Putters)

VARIABLE focus

memoryVars == <<focus, lvars, afVars, tfVars, rlVars, dcVars>>

\* Of the initial states of a part that is not in focus, one.
Unless(part, P) == focus = part \/ P
SomeItem == CHOOSE i \in Items : i.key = Malformed /\ i.visibility = Absent /\ i.agent_scope = Absent
Parked ==
  /\ Unless("async", durable = [k \in AKeys |-> NoEntry])
  /\ Unless("relay", /\ doc = [n \in 1..DocLength |-> SomeItem]
                     /\ held = [k \in ItemKeys |-> NotHeld])

\* A bound: the last item of a relay document spells its scopes in one field.
PlainLast == doc[DocLength].visibility = Absent /\ doc[DocLength].agent_scope = Absent

MemoryInit ==
  /\ focus \in {"lifecycle", "async", "transfer", "relay", "documents"}
  /\ Parked
  /\ LifecycleInit /\ AfInit /\ TfInit /\ RlInit /\ PlainLast /\ DcInit

InLifecycle(A) == focus = "lifecycle" /\ A /\ UNCHANGED <<focus, afVars, tfVars, rlVars, dcVars>>
InAsync(A) == focus = "async" /\ A /\ UNCHANGED <<focus, lvars, tfVars, rlVars, dcVars>>
InTransfer(A) == focus = "transfer" /\ A /\ UNCHANGED <<focus, lvars, afVars, rlVars, dcVars>>
InRelay(A) == focus = "relay" /\ A /\ UNCHANGED <<focus, lvars, afVars, tfVars, dcVars>>
InDocuments(A) == focus = "documents" /\ A /\ UNCHANGED <<focus, lvars, afVars, tfVars, rlVars>>

\* Nobody is in the middle of anything, and the bounds may have stopped everyone.
AtRest ==
  \/ focus = "lifecycle" /\ Quiescent
  \/ focus = "async" /\ (exposed = AKeys \/ \A w \in Writers : write[w].pc = "idle")
  \/ focus = "transfer" /\ job = NoJob
  \/ focus = "relay" /\ import.pc # "items"
  \/ focus = "documents" /\ \A p \in Putters : put[p].pc \in {"idle", "answered"}

\* A bound: the async facade is followed while InStep still claims some key.
MemoryNext ==
  \/ InLifecycle(LifecycleNext)
  \/ InAsync(exposed # AKeys /\ AfNext)
  \/ InTransfer(TfNext)
  \/ InRelay(RlNext)
  \/ InDocuments(DcNext)
  \/ AtRest /\ UNCHANGED memoryVars

MemorySpec == MemoryInit /\ [][MemoryNext]_memoryVars
=============================================================================

----------------------------- MODULE Federation -----------------------------
(***************************************************************************)
(* The federation hub of one project (postgres_federation.py): published   *)
(* copies of the project's shared entries and the entry count kept beside  *)
(* them.  publish and unpublish are transactions at READ COMMITTED: the    *)
(* count is a subquery, evaluated on what is committed plus what the       *)
(* transaction itself wrote, before the row of federation_meta is locked.  *)
(***************************************************************************)
EXTENDS Integers, FiniteSets

CONSTANTS Publishers, FedKeys, MaxSyncs   \* bound on the transactions begun

VARIABLES
  scope,    \* MemoryScope of each local entry
  hub,      \* federated_memories of the project, committed
  count,    \* federation_meta.entry_count
  tx,       \* an open transaction: what it adds and removes, and its count
  syncs,
  overlap   \* history: some transaction began or counted while another was open

fedVars == <<scope, hub, count, tx, syncs, overlap>>

NoTx == [st |-> "none", add |-> {}, del |-> {}, n |-> 0]

FedInit ==
  /\ scope \in [FedKeys -> {"shared", "project"}]
  /\ hub = {} /\ count = 0 /\ syncs = 0 /\ overlap = FALSE
  /\ tx = [p \in Publishers |-> NoTx]

(* Only entries whose scope is shared are eligible. *)
Eligible(K) == {k \in K : scope[k] = "shared"}

Locked(p) == UNION {tx[q].add \cup tx[q].del : q \in Publishers \ {p}}

Begin(p, add, del) ==
  /\ tx[p].st = "none" /\ syncs < MaxSyncs
  /\ (add \cup del) \cap Locked(p) = {}          \* row locks
  /\ tx' = [tx EXCEPT ![p] = [st |-> "written", add |-> add, del |-> del, n |-> 0]]
  /\ syncs' = syncs + 1
  /\ overlap' = (overlap \/ \E q \in Publishers \ {p} : tx[q].st # "none")
  /\ UNCHANGED <<scope, hub, count>>

Publish(p, K) == Begin(p, Eligible(K), {})

(* Without keys everything goes; an empty list is answered at once. *)
Unpublish(p, K) == K # {} /\ Begin(p, {}, K)

After(p) == (hub \cup tx[p].add) \ tx[p].del

(* A sync that leaves the count of an unpublish alone. *)
MetaOnPublishOnly(p) ==
  /\ tx[p].st = "written"
  /\ tx' = [tx EXCEPT ![p].st = "counted",
                      ![p].n = IF tx[p].del = {} THEN Cardinality(After(p)) ELSE count]
  /\ UNCHANGED <<scope, hub, count, syncs, overlap>>
Meta(p) ==
  /\ tx[p].st = "written"
  /\ tx' = [tx EXCEPT ![p].st = "counted", ![p].n = Cardinality(After(p))]
  /\ UNCHANGED <<scope, hub, count, syncs, overlap>>

FedCommit(p) ==
  /\ tx[p].st = "counted"
  /\ hub' = After(p) /\ count' = tx[p].n
  /\ tx' = [tx EXCEPT ![p] = NoTx]
  /\ UNCHANGED <<scope, syncs, overlap>>

FedAbort(p) ==
  /\ tx[p].st # "none"
  /\ tx' = [tx EXCEPT ![p] = NoTx]
  /\ UNCHANGED <<scope, hub, count, syncs, overlap>>

FedNext ==
  \E p \in Publishers :
    \/ \E K \in SUBSET FedKeys : Publish(p, K) \/ Unpublish(p, K)
    \/ Meta(p) \/ FedCommit(p) \/ FedAbort(p)

FedSpec == FedInit /\ [][FedNext]_fedVars

(* The count the hub reports is the number of copies it holds, as long as no
   two synchronisations of the project overlapped; a transaction that fails
   changes neither. *)
CountInSync == ~ overlap => count = Cardinality(hub)
=============================================================================

--------------------------- MODULE Services_proofs ---------------------------
(***************************************************************************)
(* Proofs about the parts that serve an answer from state others change    *)
(* meanwhile: the federation hub's entry count, the retention probe, the   *)
(* client SDK's retries, the time-limited caches of the server, the        *)
(* maintenance daemon's partitions, the knowledge graph's edges and the    *)
(* shortest path between two of its names.                                 *)
(* Each has its own inductive invariant and its own theorem.               *)
(***************************************************************************)
EXTENDS Federation, RetentionScan, ClientCalls, ServingCaches, Maintenance,
        KnowledgeGraph, FiniteSetTheorems, WellFoundedInduction, TLAPS

-----------------------------------------------------------------------------
(* Federation.  As long as no transaction began while another was open, at  *)
(* most one is open, so nothing the open one counted can change under it.   *)

\* A transaction has its four fields.
IsTx(t) == t = [st |-> t.st, add |-> t.add, del |-> t.del, n |-> t.n]

OneOpen == \A p, q \in Publishers : tx[p].st # "none" /\ tx[q].st # "none" => p = q

CountedRight == \A p \in Publishers : tx[p].st = "counted" => tx[p].n = Cardinality(After(p))

\* The inductive invariant: the shape of tx, and, without an overlap, one open
\* transaction whose count is still that of the hub it will leave.
FedInv ==
  /\ DOMAIN tx = Publishers /\ \A p \in Publishers : IsTx(tx[p])
  /\ overlap \in BOOLEAN
  /\ ~ overlap => OneOpen /\ CountedRight /\ count = Cardinality(hub)

\* What publish and unpublish write before the count.
LEMMA BeginKeepsFed ==
  ASSUME FedInv, NEW p \in Publishers, NEW add, NEW del, Begin(p, add, del)
  PROVE  FedInv'
<1>1. tx' = [tx EXCEPT ![p] = [st |-> "written", add |-> add, del |-> del, n |-> 0]]
  BY DEF Begin
<1>2. hub' = hub /\ count' = count /\ tx[p].st = "none"
  BY DEF Begin
<1>3. overlap' = (overlap \/ \E q \in Publishers \ {p} : tx[q].st # "none")
  BY DEF Begin
<1>4. DOMAIN tx' = Publishers /\ overlap' \in BOOLEAN /\ \A q \in Publishers : IsTx(tx'[q])
  BY <1>1, <1>3 DEF FedInv, IsTx
<1>5. ASSUME ~ overlap'
      PROVE  OneOpen' /\ CountedRight' /\ count' = Cardinality(hub')
  <2>1. ~ overlap /\ \A q \in Publishers \ {p} : tx[q].st = "none"
    BY <1>3, <1>5
  <2>2. tx'[p].st = "written"
    BY <1>1 DEF FedInv
  <2>3. \A q \in Publishers \ {p} : tx'[q].st = "none"
    BY <1>1, <2>1 DEF FedInv
  <2>4. OneOpen'
    BY <2>3 DEF OneOpen
  <2>5. CountedRight'
    BY <2>2, <2>3 DEF CountedRight
  <2> QED
    BY <1>2, <2>1, <2>4, <2>5 DEF FedInv
<1> QED
  BY <1>4, <1>5 DEF FedInv

\* The count is read: of the hub, with the transaction's own rows.
LEMMA MetaKeepsFed ==
  ASSUME FedInv, NEW p \in Publishers, Meta(p)
  PROVE  FedInv'
<1> DEFINE c == Cardinality(After(p))
<1>1. tx' = [tx EXCEPT ![p] = [tx[p] EXCEPT !.st = "counted", !.n = c]]
  BY DEF Meta, FedInv
<1>2. hub' = hub /\ count' = count /\ overlap' = overlap /\ tx[p].st = "written"
  BY DEF Meta
<1>3. \A q \in Publishers \ {p} : tx'[q] = tx[q]
  BY <1>1 DEF FedInv
<1>4. tx'[p] = [st |-> "counted", add |-> tx[p].add, del |-> tx[p].del, n |-> c]
  <2>1. IsTx(tx[p]) /\ p \in DOMAIN tx
    BY DEF FedInv
  <2> QED
    BY <1>1, <2>1 DEF IsTx
<1>5. DOMAIN tx' = Publishers /\ \A q \in Publishers : IsTx(tx'[q])
  BY <1>1, <1>3, <1>4 DEF FedInv, IsTx
<1>6. After(p)' = After(p)
  BY <1>2, <1>4 DEF After
<1>7. ASSUME ~ overlap
      PROVE  OneOpen' /\ CountedRight' /\ count' = Cardinality(hub')
  <2>1. OneOpen /\ count = Cardinality(hub)
    BY <1>7 DEF FedInv
  <2>2. \A q \in Publishers \ {p} : tx'[q].st = "none"
    BY <1>2, <1>3, <2>1 DEF OneOpen
  <2>3. OneOpen'
    BY <2>2 DEF OneOpen
  <2>4. CountedRight'
    BY <1>4, <1>6, <2>2 DEF CountedRight
  <2> QED
    BY <1>2, <2>1, <2>3, <2>4
<1> QED
  BY <1>2, <1>5, <1>7 DEF FedInv

\* The transaction ends, and with it what it wrote becomes the hub.
LEMMA CommitKeepsFed ==
  ASSUME FedInv, NEW p \in Publishers, FedCommit(p)
  PROVE  FedInv'
<1>1. tx' = [tx EXCEPT ![p] = NoTx] /\ overlap' = overlap
  BY DEF FedCommit
<1>2. hub' = After(p) /\ count' = tx[p].n /\ tx[p].st = "counted"
  BY DEF FedCommit
<1>3. DOMAIN tx' = Publishers /\ \A q \in Publishers : IsTx(tx'[q])
  BY <1>1 DEF FedInv, IsTx, NoTx
<1>4. ASSUME ~ overlap
      PROVE  OneOpen' /\ CountedRight' /\ count' = Cardinality(hub')
  <2>1. OneOpen /\ CountedRight
    BY <1>4 DEF FedInv
  <2>2. \A q \in Publishers : tx'[q].st = "none"
    BY <1>1, <1>2, <2>1 DEF OneOpen, FedInv, NoTx
  <2>3. OneOpen' /\ CountedRight'
    BY <2>2 DEF OneOpen, CountedRight
  <2>4. count' = Cardinality(hub')
    BY <1>2, <2>1 DEF CountedRight
  <2> QED
    BY <2>3, <2>4
<1> QED
  BY <1>1, <1>3, <1>4 DEF FedInv

\* A transaction that fails leaves the hub and its count alone.
LEMMA AbortKeepsFed ==
  ASSUME FedInv, NEW p \in Publishers, FedAbort(p)
  PROVE  FedInv'
<1>1. tx' = [tx EXCEPT ![p] = NoTx] /\ overlap' = overlap /\ hub' = hub /\ count' = count
  BY DEF FedAbort
<1>2. DOMAIN tx' = Publishers /\ \A q \in Publishers : IsTx(tx'[q])
  BY <1>1 DEF FedInv, IsTx, NoTx
<1>3. \A q \in Publishers : tx'[q].st # "none" => q # p /\ tx'[q] = tx[q]
  BY <1>1 DEF FedInv, NoTx
<1>4. ASSUME ~ overlap
      PROVE  OneOpen' /\ CountedRight' /\ count' = Cardinality(hub')
  <2>1. OneOpen /\ CountedRight /\ count = Cardinality(hub)
    BY <1>4 DEF FedInv
  <2>2. OneOpen'
    BY <1>3, <2>1 DEF OneOpen
  <2>3. CountedRight'
    <3>1. ASSUME NEW q \in Publishers, tx'[q].st = "counted"
          PROVE  tx'[q].n = Cardinality((hub' \cup tx'[q].add) \ tx'[q].del)
      <4>1. tx'[q] = tx[q]
        BY <1>3, <3>1
      <4>2. tx[q].n = Cardinality((hub \cup tx[q].add) \ tx[q].del)
        BY <2>1, <3>1, <4>1 DEF CountedRight, After
      <4> QED
        BY <1>1, <4>1, <4>2
    <3> QED
      BY <3>1 DEF CountedRight, After
  <2> QED
    BY <1>1, <2>1, <2>2, <2>3
<1> QED
  BY <1>1, <1>2, <1>4 DEF FedInv

\* The entry count of federation_meta is the number of published rows, through
\* every interleaving of transactions and failures in which no two overlapped.
THEOREM HubCountsItsRows == FedSpec => []CountInSync
<1>1. FedInit => FedInv
  <2> SUFFICES ASSUME FedInit PROVE FedInv
    OBVIOUS
  <2>1. tx = [p \in Publishers |-> NoTx] /\ hub = {} /\ count = 0 /\ overlap = FALSE
    BY DEF FedInit
  <2>2. DOMAIN tx = Publishers /\ \A p \in Publishers : tx[p] = NoTx
    BY <2>1
  <2>3. OneOpen /\ CountedRight /\ \A p \in Publishers : IsTx(tx[p])
    BY <2>2 DEF OneOpen, CountedRight, IsTx, NoTx
  <2> QED
    BY <2>1, <2>2, <2>3, FS_EmptySet DEF FedInv
<1>2. FedInv /\ [FedNext]_fedVars => FedInv'
  <2> SUFFICES ASSUME FedInv, [FedNext]_fedVars PROVE FedInv'
    OBVIOUS
  <2>1. CASE UNCHANGED fedVars
    BY <2>1 DEF fedVars, FedInv, IsTx, OneOpen, CountedRight, After
  <2>2. CASE FedNext
    <3>1. PICK p \in Publishers :
             \/ \E K \in SUBSET FedKeys : Publish(p, K) \/ Unpublish(p, K)
             \/ Meta(p) \/ FedCommit(p) \/ FedAbort(p)
      BY <2>2 DEF FedNext
    <3>2. CASE \E K \in SUBSET FedKeys : Publish(p, K) \/ Unpublish(p, K)
      BY <3>2, BeginKeepsFed DEF Publish, Unpublish
    <3> QED
      BY <3>1, <3>2, MetaKeepsFed, CommitKeepsFed, AbortKeepsFed
  <2> QED
    BY <2>1, <2>2
<1>3. FedInv => CountInSync
  BY DEF FedInv, CountInSync
<1> QED
  BY <1>1, <1>2, <1>3, PTL DEF FedSpec

-----------------------------------------------------------------------------
(* The retention probe.  The self-test raises on a connection on which SET    *)
(* LOCAL does nothing, so while tenants are counted each count is about its   *)
(* own tenant; what was counted lies between the projects overdue all the     *)
(* time and those overdue at some time, among the tenants already visited.    *)

Visited == Listed \ scan.todo

Counting == scan.pc \in {"tenants", "rollback", "done"}

CountBetween ==
  /\ always \subseteq overdue /\ overdue \subseteq ever
  /\ Cardinality(always \cap Visited) <= scan.total
  /\ scan.total <= Cardinality(ever \cap Visited)

\* The inductive invariant.
ScanInv ==
  /\ scan = [pc |-> scan.pc, todo |-> scan.todo, total |-> scan.total]
  /\ scan.pc \in {"idle", "raised"} \/ Counting
  /\ scan.total \in Nat /\ scan.todo \subseteq Listed
  /\ conn.autocommit => ident = NoTenant
  /\ Counting => ~conn.autocommit /\ CountBetween
  /\ scan.pc = "done" => scan.todo = {}

\* Sets between which a total lies, of finitely many tenants.
LEMMA BetweenWidens ==
  ASSUME NEW V \in SUBSET Listed, NEW A, NEW B, NEW A2, NEW B2, NEW t \in Nat,
         A2 \subseteq A, B \subseteq B2,
         Cardinality(A \cap V) <= t, t <= Cardinality(B \cap V)
  PROVE  Cardinality(A2 \cap V) <= t /\ t <= Cardinality(B2 \cap V)
<1>1. IsFiniteSet(V)
  BY FS_Subset, ScanAssumption DEF ScanAssumption
<1>2. \A S \in SUBSET V : IsFiniteSet(S)
  BY <1>1, FS_Subset
<1>3. A \cap V \in SUBSET V /\ B2 \cap V \in SUBSET V /\ B \cap V \in SUBSET V
  OBVIOUS
<1>4. A2 \cap V \in SUBSET (A \cap V) /\ B \cap V \in SUBSET (B2 \cap V)
  OBVIOUS
<1>5. IsFiniteSet(A \cap V) /\ IsFiniteSet(B2 \cap V) /\ IsFiniteSet(B \cap V)
  BY <1>2, <1>3
<1>6. IsFiniteSet(A2 \cap V) /\ Cardinality(A2 \cap V) <= Cardinality(A \cap V)
  BY <1>4, <1>5, FS_Subset
<1>7. Cardinality(B \cap V) <= Cardinality(B2 \cap V)
  BY <1>4, <1>5, FS_Subset
<1>8. /\ Cardinality(A \cap V) \in Nat /\ Cardinality(B2 \cap V) \in Nat
      /\ Cardinality(B \cap V) \in Nat /\ Cardinality(A2 \cap V) \in Nat
  BY <1>5, <1>6, FS_CardinalityType
<1> QED
  BY <1>6, <1>7, <1>8

\* One more tenant visited, counted when it is overdue.
LEMMA BetweenGrows ==
  ASSUME NEW V \in SUBSET Listed, NEW p \in Listed \ V, NEW A, NEW B, NEW O, NEW t \in Nat,
         A \subseteq O, O \subseteq B,
         Cardinality(A \cap V) <= t, t <= Cardinality(B \cap V),
         NEW u \in Nat, u = t + IF p \in O THEN 1 ELSE 0
  PROVE  Cardinality(A \cap (V \cup {p})) <= u /\ u <= Cardinality(B \cap (V \cup {p}))
<1>1. IsFiniteSet(V)
  BY FS_Subset, ScanAssumption DEF ScanAssumption
<1>2. A \cap V \in SUBSET V /\ B \cap V \in SUBSET V
  OBVIOUS
<1>3. IsFiniteSet(A \cap V) /\ IsFiniteSet(B \cap V)
  BY <1>1, <1>2, FS_Subset
<1>4. Cardinality(A \cap V) \in Nat /\ Cardinality(B \cap V) \in Nat
  BY <1>3, FS_CardinalityType
<1>5. p \notin A \cap V /\ p \notin B \cap V
  OBVIOUS
<1>6. /\ Cardinality((A \cap V) \cup {p}) = Cardinality(A \cap V) + 1
      /\ Cardinality((B \cap V) \cup {p}) = Cardinality(B \cap V) + 1
  BY <1>3, <1>5, FS_AddElement
<1>7. \A S : p \in S => S \cap (V \cup {p}) = (S \cap V) \cup {p}
  OBVIOUS
<1>8. \A S : p \notin S => S \cap (V \cup {p}) = S \cap V
  OBVIOUS
<1>9. Cardinality(A \cap (V \cup {p})) <= u
  <2>1. CASE p \in O /\ p \in A
    BY <1>4, <1>6, <1>7, <2>1
  <2>2. CASE p \in O /\ p \notin A
    BY <1>4, <1>8, <2>2
  <2>3. CASE p \notin O
    BY <1>4, <1>8, <2>3
  <2> QED
    BY <2>1, <2>2, <2>3
<1>10. u <= Cardinality(B \cap (V \cup {p}))
  <2>1. CASE p \in O
    BY <1>4, <1>6, <1>7, <2>1
  <2>2. CASE p \notin O /\ p \in B
    BY <1>4, <1>6, <1>7, <2>2
  <2>3. CASE p \notin O /\ p \notin B
    BY <1>4, <1>8, <2>3
  <2> QED
    BY <2>1, <2>2, <2>3
<1> QED
  BY <1>9, <1>10

\* A tenant's count, on a connection where the setting works.
LEMMA CountsOneTenant ==
  ASSUME ~conn.autocommit, NEW p
  PROVE  CountFor(p) = IF p \in overdue THEN 1 ELSE 0
<1>1. SetLocal(p) = p
  BY DEF SetLocal
<1>2. Visible(SetLocal(p)) \cap {p} = IF p \in overdue THEN {p} ELSE {}
  BY <1>1 DEF Visible
<1> QED
  BY <1>2, FS_EmptySet, FS_Singleton DEF CountFor

\* The scan begins with the self-test, which raises or vouches for the setting.
LEMMA BeginKeepsScan ==
  ASSUME ScanInv, BeginScan
  PROVE  ScanInv'
<1>1. always' = overdue /\ ever' = overdue /\ overdue' = overdue /\ conn' = conn /\ ident' = ident
  BY DEF BeginScan
<1>2. CASE SettingWorks
  <2>1. scan' = [pc |-> "tenants", todo |-> Listed, total |-> 0]
    BY <1>2 DEF BeginScan
  <2>2. ~conn.autocommit
    BY <1>2, ScanAssumption DEF SettingWorks, SetLocal, ScanInv, ScanAssumption
  <2>3. (Visited)' = {}
    BY <2>1 DEF Visited
  <2>4. \A S : Cardinality(S \cap (Visited)') = 0
    BY <2>3, FS_EmptySet
  <2>5. CountBetween'
    BY <1>1, <2>1, <2>4 DEF CountBetween
  <2> QED
    BY <1>1, <2>1, <2>2, <2>5 DEF ScanInv, Counting
<1>3. CASE ~SettingWorks
  <2>1. scan' = [pc |-> "raised", todo |-> {}, total |-> 0]
    BY <1>3 DEF BeginScan, NoScan
  <2> QED
    BY <1>1, <2>1 DEF ScanInv, Counting
<1> QED
  BY <1>2, <1>3

\* One tenant is counted.
LEMMA CountKeepsScan ==
  ASSUME ScanInv, NEW p \in Projects, CountTenant(p)
  PROVE  ScanInv'
<1>1. scan' = [scan EXCEPT !.pc = "rollback", !.todo = @ \ {p}, !.total = @ + CountFor(p)]
  BY DEF CountTenant
<1>2. /\ overdue' = overdue /\ conn' = conn /\ always' = always /\ ever' = ever
      /\ p \in scan.todo /\ scan.pc = "tenants"
  BY DEF CountTenant
<1>3. ~conn.autocommit /\ CountBetween /\ scan.total \in Nat
  BY <1>2 DEF ScanInv, Counting
<1>4. CountFor(p) = IF p \in overdue THEN 1 ELSE 0
  BY <1>3, CountsOneTenant
<1>5. /\ scan'.pc = "rollback" /\ scan'.todo = scan.todo \ {p}
      /\ scan'.total = scan.total + CountFor(p)
      /\ scan' = [pc |-> scan'.pc, todo |-> scan'.todo, total |-> scan'.total]
  BY <1>1 DEF ScanInv
<1>6. (Visited)' = Visited \cup {p} /\ Visited \in SUBSET Listed /\ p \in Listed \ Visited
  BY <1>2, <1>5 DEF Visited, ScanInv
<1>7. always \subseteq overdue /\ overdue \subseteq ever
  BY <1>3 DEF CountBetween
<1>8. Cardinality(always \cap Visited) <= scan.total /\ scan.total <= Cardinality(ever \cap Visited)
  BY <1>3 DEF CountBetween
<1>9. scan'.total \in Nat /\ scan'.total = scan.total + IF p \in overdue THEN 1 ELSE 0
  BY <1>3, <1>4, <1>5
<1>10. /\ Cardinality(always \cap (Visited \cup {p})) <= scan'.total
       /\ scan'.total <= Cardinality(ever \cap (Visited \cup {p}))
  BY <1>3, <1>6, <1>7, <1>8, <1>9, BetweenGrows
<1>11. CountBetween'
  BY <1>2, <1>6, <1>7, <1>10 DEF CountBetween
<1>12. scan'.todo \subseteq Listed
  BY <1>5 DEF ScanInv
<1>13. conn'.autocommit => ident' = NoTenant
  BY <1>2, <1>3
<1> QED
  BY <1>2, <1>3, <1>5, <1>9, <1>11, <1>12, <1>13 DEF ScanInv, Counting

\* Between two tenants, and after the last one.
LEMMA TurnKeepsScan ==
  ASSUME ScanInv, RollbackTenant \/ EndScan
  PROVE  ScanInv'
<1>1. /\ overdue' = overdue /\ conn' = conn /\ always' = always /\ ever' = ever
      /\ ident' \in {ident, NoTenant}
  BY DEF RollbackTenant, EndScan, RolledBack
<1>2. PICK pc \in {"tenants", "done"} : scan' = [scan EXCEPT !.pc = pc] /\ (pc = "done" => scan.todo = {})
  BY DEF RollbackTenant, EndScan
<1>3. scan.pc \in {"tenants", "rollback"}
  BY DEF RollbackTenant, EndScan
<1>4. ~conn.autocommit /\ CountBetween
  BY <1>3 DEF ScanInv, Counting
<1>5. /\ scan'.pc = pc /\ scan'.todo = scan.todo /\ scan'.total = scan.total
      /\ scan' = [pc |-> scan'.pc, todo |-> scan'.todo, total |-> scan'.total]
  BY <1>2 DEF ScanInv
<1>6. CountBetween'
  BY <1>1, <1>4, <1>5 DEF CountBetween, Visited
<1> QED
  BY <1>1, <1>2, <1>4, <1>5, <1>6 DEF ScanInv, Counting

\* The answer is given and the scan forgotten.
LEMMA AnswerKeepsScan ==
  ASSUME ScanInv, ScanAnswer
  PROVE  ScanInv'
<1>1. scan' = [pc |-> "idle", todo |-> {}, total |-> 0] /\ conn' = conn /\ ident' = ident
  BY DEF ScanAnswer, NoScan
<1> QED
  BY <1>1 DEF ScanInv, Counting

\* A row changes under the scan.
LEMMA FlipKeepsScan ==
  ASSUME ScanInv, NEW p \in Projects, Flip(p)
  PROVE  ScanInv'
<1>1. scan' = scan /\ conn' = conn /\ ident' = ident
  BY DEF Flip
<1>2. ASSUME Counting
      PROVE  CountBetween'
  <2>1. always' = always \cap overdue' /\ ever' = ever \cup overdue'
    BY <1>2 DEF Flip, Counting
  <2>2. CountBetween /\ scan.total \in Nat /\ Visited \in SUBSET Listed
    BY <1>2 DEF ScanInv, Visited
  <2>3. always' \subseteq always /\ ever \subseteq ever'
    BY <2>1
  <2>4. Cardinality(always \cap Visited) <= scan.total /\ scan.total <= Cardinality(ever \cap Visited)
    BY <2>2 DEF CountBetween
  <2>5. /\ Cardinality(always' \cap Visited) <= scan.total
        /\ scan.total <= Cardinality(ever' \cap Visited)
    BY <2>2, <2>3, <2>4, BetweenWidens
  <2> QED
    BY <1>1, <2>1, <2>5 DEF CountBetween, Visited
<1> QED
  BY <1>1, <1>2 DEF ScanInv, Counting

\* A finished probe counted every listed project that was overdue throughout
\* and none that never was, on every connection mode and role, whatever rows
\* changed while it ran.
THEOREM ProbeTellsTheTruth == RsSpec => []ScanHonest
<1>1. RsInit => ScanInv
  BY DEF RsInit, ScanInv, Counting, NoScan
<1>2. ScanInv /\ [RsNext]_rsVars => ScanInv'
  <2> SUFFICES ASSUME ScanInv, [RsNext]_rsVars PROVE ScanInv'
    OBVIOUS
  <2>1. CASE UNCHANGED rsVars
    BY <2>1 DEF rsVars, ScanInv, Counting, CountBetween, Visited
  <2>2. CASE RsNext
    BY <2>2, BeginKeepsScan, CountKeepsScan, TurnKeepsScan, AnswerKeepsScan, FlipKeepsScan
       DEF RsNext
  <2> QED
    BY <2>1, <2>2
<1>3. ScanInv => ScanHonest
  <2> SUFFICES ASSUME ScanInv, scan.pc = "done"
               PROVE  /\ Cardinality(always \cap Listed) <= scan.total
                      /\ scan.total <= Cardinality(ever \cap Listed)
    BY DEF ScanHonest
  <2>1. CountBetween /\ scan.todo = {}
    BY DEF ScanInv, Counting
  <2>2. Visited = Listed
    BY <2>1 DEF Visited
  <2> QED
    BY <2>1, <2>2 DEF CountBetween
<1> QED
  BY <1>1, <1>2, <1>3, PTL DEF RsSpec

-----------------------------------------------------------------------------
(* The client SDK.  A handler past its idempotency check belongs to an attempt *)
(* that was sent, and once the answer is recorded the check lets none past.    *)

HandlerStates ==
  {"none", "arriving", "running", "committed", "answered", "no_session", "gone"}

\* The inductive invariant: no handler beyond the attempts sent, and the property.
CallInv ==
  /\ DOMAIN task = Tasks /\ DOMAIN sentThen = Tasks
  /\ \A t \in Tasks : /\ "sent" \in DOMAIN task[t] /\ "pc" \in DOMAIN task[t]
                      /\ task[t].sent \in Nat
  /\ handler \in [Tasks -> [Posts -> HandlerStates]]
  /\ recordedKeys \subseteq Tasks
  /\ \A t \in Tasks : sentThen[t] \in Nat
  /\ \A t \in Tasks : \A n \in Posts : handler[t][n] # "none" => n <= task[t].sent
  /\ NoneAfterRecord

\* The client's steps: only Post makes a handler, for the attempt it sends.
LEMMA ClientKeepsCall ==
  ASSUME CallInv, NEW t \in Tasks, ClientStep(t)
  PROVE  CallInv'
<1> USE DEF CallInv, ServerSame, CallGoto, CallAt, NoneAfterRecord
<1>1. CASE Start(t) \/ InitializeFails(t) \/ ReadTimeout(t) \/ Success(t)
  <2>1. CASE Start(t)
    BY <2>1 DEF Start
  <2>2. CASE InitializeFails(t) \/ ReadTimeout(t)
    BY <2>2 DEF InitializeFails, ReadTimeout
  <2>3. CASE Success(t)
    BY <2>3 DEF Success
  <2> QED
    BY <1>1, <2>1, <2>2, <2>3
<1>2. CASE Initialize(t)
  BY <1>2 DEF Initialize
<1>3. CASE Post(t)
  BY <1>3 DEF Post, HandlerStates, Posts
<1>4. CASE Transient(t)
  BY <1>4 DEF Transient, Retried, HandlerStates
<1>5. CASE GatewayTimeout(t)
  BY <1>5 DEF GatewayTimeout, Retried
<1>6. CASE MissingSession(t)
  BY <1>6 DEF MissingSession
<1> QED
  BY <1>1, <1>2, <1>3, <1>4, <1>5, <1>6 DEF ClientStep

\* The server's steps: the check stands between a recorded answer and the write.
LEMMA ServerKeepsCall ==
  ASSUME CallInv, NEW t \in Tasks, NEW n \in Posts,
         Arrive(t, n) \/ ServerCommit(t, n) \/ \E works \in BOOLEAN : Record(t, n, works)
  PROVE  CallInv'
<1> USE DEF CallInv, NoneAfterRecord
<1>1. CASE Arrive(t, n)
  BY <1>1 DEF Arrive, Delivered, HandlerStates
<1>2. CASE ServerCommit(t, n)
  BY <1>2 DEF ServerCommit, HandlerStates
<1>3. ASSUME NEW works \in BOOLEAN, Record(t, n, works)
      PROVE  CallInv'
  BY <1>3 DEF Record, Delivered, HandlerStates
<1> QED
  BY <1>1, <1>2, <1>3

\* A restart ends the handlers that were running.
LEMMA RestartKeepsCall ==
  ASSUME CallInv, ServerRestart
  PROVE  CallInv'
BY DEF CallInv, NoneAfterRecord, ServerRestart, HandlerStates

\* Once a call's answer is recorded under its key, no attempt sent later runs
\* the write again: not after a retry, a lost answer, a second handshake or a
\* restart of the server, for any number of tasks and attempts.
THEOREM NoLateExecution == ClSpec => []NoneAfterRecord
<1>1. ClInit => CallInv
  BY DEF ClInit, CallInv, NoneAfterRecord, HandlerStates, FreshCall
<1>2. CallInv /\ [ClNext]_clVars => CallInv'
  <2> SUFFICES ASSUME CallInv, [ClNext]_clVars PROVE CallInv'
    OBVIOUS
  <2>1. CASE UNCHANGED clVars
    BY <2>1 DEF clVars, CallInv, NoneAfterRecord
  <2>2. CASE ClNext
    BY <2>2, ClientKeepsCall, ServerKeepsCall, RestartKeepsCall DEF ClNext
  <2> QED
    BY <2>1, <2>2
<1>3. CallInv => NoneAfterRecord
  BY DEF CallInv
<1> QED
  BY <1>1, <1>2, <1>3, PTL DEF ClSpec

-----------------------------------------------------------------------------
(* The time-limited caches.  A value was in the database at some moment not    *)
(* before t; what is true of the check a fetch began with is carried through   *)
(* its read, its store and every answer served from the stored value.          *)

\* The database held v at t or later, or it is the answer of a failed probe.
HeldSince(v, t) == v = "pending" \/ current = v \/ held[v] >= t

\* How long before it is served a value may have been true.
Slack == IF wanted = "profile" THEN Ttl ELSE Ttl + MaxFetch

FetchIn(q) == q.pc \in {"fetch", "store"} =>
  q.started \in Int /\ q.started <= now /\ now <= q.started + MaxFetch

ReadIn(q) == q.pc = "store" =>
  q.value \in Contents[wanted] /\ HeldSince(q.value, q.started)

ServedIn(q) == (q.header = NoValue /\ q.pc \in {"done", "executed", "refused"}) =>
  /\ q.value \in Contents[wanted] /\ q.at \in Int /\ q.at <= now
  /\ HeldSince(q.value, q.at - Slack + 1)

IsReader(q) == DOMAIN q = {"pc", "tool", "header", "started", "value", "at"}

RequestIn(q) == IsReader(q) /\ FetchIn(q) /\ ReadIn(q) /\ ServedIn(q)

CacheIn == cached.value # NoValue =>
  /\ cached.value \in Contents[wanted] /\ cached.expires \in Int
  /\ cached.expires - Slack <= now /\ HeldSince(cached.value, cached.expires - Slack)

ClockIn == now \in Int /\ wanted \in Targets /\ current \in Contents[wanted]
           /\ held \in [Contents[wanted] -> Int]

\* The inductive invariant.
CachesInv ==
  /\ ClockIn /\ CacheIn
  /\ DOMAIN req = Requests
  /\ \A r \in Requests : RequestIn(req[r])

\* What serving makes of a request.
LEMMA Answers ==
  ASSUME NEW q, IsReader(q), NEW v
  PROVE  /\ IsReader(Served(q, v)) /\ Served(q, v).value = v /\ Served(q, v).at = now
         /\ Served(q, v).pc \in {"done", "executed", "refused"}
         /\ Served(q, v).header = q.header
<1>1. PICK c \in {"done", "executed", "refused"} :
         Served(q, v) = [q EXCEPT !.value = v, !.at = now, !.pc = c]
  BY DEF Served
<1> QED
  BY <1>1 DEF IsReader

\* The slack is at least one clock step and never shorter than a life.
LEMMA SlackFacts ==
  ASSUME ClockIn
  PROVE  Slack \in Nat /\ Slack > 0 /\ Slack - MaxFetch <= Ttl /\ Ttl <= Slack
BY ServingAssumption DEF ServingAssumption, Slack

\* Held since t is held since any earlier moment.
LEMMA HeldEarlier ==
  ASSUME ClockIn, NEW v \in Contents[wanted], NEW t \in Int, NEW u \in Int,
         HeldSince(v, t), u <= t
  PROVE  HeldSince(v, u)
<1>1. held[v] \in Int
  BY DEF ClockIn
<1> QED
  BY <1>1 DEF HeldSince

\* An answer with a value true recently enough.
LEMMA ServedRight ==
  ASSUME ClockIn, NEW q, IsReader(q), NEW v \in Contents[wanted],
         HeldSince(v, now - Slack + 1)
  PROVE  RequestIn(Served(q, v))
<1> DEFINE s == Served(q, v)
<1>1. /\ IsReader(s) /\ s.value = v /\ s.at = now
      /\ s.pc \in {"done", "executed", "refused"}
  BY Answers
<1> HIDE DEF s
<1>2. RequestIn(s)
  BY <1>1 DEF RequestIn, FetchIn, ReadIn, ServedIn, ClockIn
<1> QED
  BY <1>2 DEF s

\* A value still within its life was true recently enough.
LEMMA CachedRight ==
  ASSUME ClockIn, CacheIn, FreshEntry
  PROVE  cached.value \in Contents[wanted] /\ HeldSince(cached.value, now - Slack + 1)
<1>1. /\ cached.value \in Contents[wanted] /\ cached.expires \in Int
      /\ HeldSince(cached.value, cached.expires - Slack) /\ now < cached.expires
  BY DEF CacheIn, FreshEntry
<1>2. Slack \in Nat /\ now \in Int
  BY SlackFacts DEF ClockIn
<1>3. now - Slack + 1 \in Int /\ cached.expires - Slack \in Int /\ now - Slack + 1 <= cached.expires - Slack
  BY <1>1, <1>2
<1> QED
  BY <1>1, <1>3, HeldEarlier

\* A step that changes one request and nothing it is judged by.
LEMMA OneRequestSteps ==
  ASSUME CachesInv, NEW r \in Requests, NEW q, RequestIn(q),
         req' = [req EXCEPT ![r] = q], UNCHANGED <<now, wanted, current, held, cached>>
  PROVE  CachesInv'
<1>1. ClockIn' /\ CacheIn' /\ Slack' = Slack
  BY DEF CachesInv, ClockIn, CacheIn, Slack, HeldSince
<1>2. DOMAIN req' = Requests
  BY DEF CachesInv
<1>3. ASSUME NEW p \in Requests
      PROVE  RequestIn(req[p])'
  <2>1. RequestIn(req'[p])
    BY DEF CachesInv
  <2> QED
    BY <2>1 DEF RequestIn, IsReader, FetchIn, ReadIn, ServedIn, HeldSince, Slack
<1> QED
  BY <1>1, <1>2, <1>3 DEF CachesInv

\* A request is answered from a fresh entry or goes on to the database.
LEMMA AskKeepsCaches ==
  ASSUME CachesInv, NEW r \in Requests, NEW tool, Ask(r, tool)
  PROVE  CachesInv'
<1> DEFINE q == [NoReader EXCEPT !.tool = tool, !.started = now]
<1>1. IsReader(q) /\ q.started = now /\ ClockIn /\ CacheIn
  BY DEF IsReader, NoReader, CachesInv
<1>2. CASE FreshEntry
  <2>1. req' = [req EXCEPT ![r] = Served(q, cached.value)]
    BY <1>2 DEF Ask
  <2>2. RequestIn(Served(q, cached.value))
    BY <1>1, <1>2, CachedRight, ServedRight
  <2> QED
    BY <2>1, <2>2, OneRequestSteps DEF Ask
<1>3. CASE ~FreshEntry
  <2>1. PICK pc \in {"queue", "fetch"} : req' = [req EXCEPT ![r] = [q EXCEPT !.pc = pc]]
    BY <1>3 DEF Ask
  <2> DEFINE x == [q EXCEPT !.pc = pc]
  <2>2. IsReader(x) /\ x.pc = pc /\ x.started = now
    BY <1>1 DEF IsReader
  <2>3. req' = [req EXCEPT ![r] = x]
    BY <2>1
  <2> HIDE DEF x
  <2>4. RequestIn(x)
    BY <1>1, <2>2, ServingAssumption
       DEF RequestIn, FetchIn, ReadIn, ServedIn, ClockIn, ServingAssumption
  <2> QED
    BY <2>3, <2>4, OneRequestSteps DEF Ask
<1> QED
  BY <1>2, <1>3

\* A request with a header takes its answer from the header.
LEMMA HeaderKeepsCaches ==
  ASSUME CachesInv, NEW r \in Requests, NEW h \in {"coder", "repo-brain"}, NEW tool,
         AskWithHeader(r, h, tool)
  PROVE  CachesInv'
<1> DEFINE q == [NoReader EXCEPT !.tool = tool, !.header = h]
<1>1. IsReader(q) /\ q.header # NoValue
  BY ServingAssumption DEF IsReader, NoReader, ServingAssumption
<1>2. PICK x : req' = [req EXCEPT ![r] = x] /\ x \in {Served(q, h), [q EXCEPT !.pc = "bad_request"]}
  BY DEF AskWithHeader
<1>3. IsReader(x) /\ x.header = q.header /\ x.pc \notin {"fetch", "store"}
  <2>1. CASE x = [q EXCEPT !.pc = "bad_request"]
    BY <1>1, <2>1 DEF IsReader
  <2>2. CASE x = Served(q, h)
    BY <1>1, <2>2, Answers
  <2> QED
    BY <1>2, <2>1, <2>2
<1>4. RequestIn(x)
  BY <1>1, <1>3 DEF RequestIn, FetchIn, ReadIn, ServedIn
<1> QED
  BY <1>2, <1>4, OneRequestSteps DEF AskWithHeader

\* Under the build lock: the second look, or a new fetch.
LEMMA BuildKeepsCaches ==
  ASSUME CachesInv, NEW r \in Requests, BuildLocked(r)
  PROVE  CachesInv'
<1>1. IsReader(req[r]) /\ ClockIn /\ CacheIn /\ DOMAIN req = Requests
  BY DEF CachesInv, RequestIn
<1>2. CASE FreshEntry
  <2>1. req' = [req EXCEPT ![r] = Served(req[r], cached.value)]
    BY <1>1, <1>2 DEF BuildLocked
  <2>2. RequestIn(Served(req[r], cached.value))
    BY <1>1, <1>2, CachedRight, ServedRight
  <2> QED
    BY <2>1, <2>2, OneRequestSteps DEF BuildLocked
<1>3. CASE ~FreshEntry
  <2> DEFINE q == [req[r] EXCEPT !.pc = "fetch", !.started = now]
  <2>1. req' = [req EXCEPT ![r] = q]
    BY <1>1, <1>3 DEF BuildLocked
  <2>2. IsReader(q) /\ q.pc = "fetch" /\ q.started = now
    BY <1>1 DEF IsReader
  <2> HIDE DEF q
  <2>3. RequestIn(q)
    BY <1>1, <2>2, ServingAssumption
       DEF RequestIn, FetchIn, ReadIn, ServedIn, ClockIn, ServingAssumption
  <2> QED
    BY <2>1, <2>3, OneRequestSteps DEF BuildLocked
<1> QED
  BY <1>2, <1>3

\* The read, its failure, and a request that leaves.
LEMMA FetchKeepsCaches ==
  ASSUME CachesInv, NEW r \in Requests, Fetch(r) \/ FetchFails(r) \/ Leave(r)
  PROVE  CachesInv'
<1>1. RequestIn(req[r]) /\ ClockIn /\ DOMAIN req = Requests
  BY DEF CachesInv, RequestIn
<1>2. CASE Fetch(r)
  <2> DEFINE q == [req[r] EXCEPT !.pc = "store", !.value = current]
  <2>1. req' = [req EXCEPT ![r] = q] /\ req[r].pc = "fetch"
    BY <1>1, <1>2 DEF Fetch, ReaderAt
  <2>2. /\ IsReader(q) /\ q.pc = "store" /\ q.started = req[r].started
        /\ q.value = current
    BY <1>1 DEF RequestIn, IsReader
  <2> HIDE DEF q
  <2>3. RequestIn(q)
    BY <1>1, <2>1, <2>2 DEF RequestIn, FetchIn, ReadIn, ServedIn, ClockIn, HeldSince
  <2> QED
    BY <1>2, <2>1, <2>3, OneRequestSteps DEF Fetch
<1>3. CASE FetchFails(r) /\ wanted = "probe"
  <2> DEFINE q == [req[r] EXCEPT !.pc = "store", !.value = "pending"]
  <2>1. req' = [req EXCEPT ![r] = q] /\ req[r].pc = "fetch"
    BY <1>1, <1>3 DEF FetchFails, ReaderAt
  <2>2. "pending" \in Contents[wanted]
    BY <1>3 DEF Contents
  <2>3. /\ IsReader(q) /\ q.pc = "store" /\ q.started = req[r].started
        /\ q.value = "pending"
    BY <1>1 DEF RequestIn, IsReader
  <2> HIDE DEF q
  <2>4. RequestIn(q)
    BY <1>1, <2>1, <2>2, <2>3 DEF RequestIn, FetchIn, ReadIn, ServedIn, HeldSince
  <2> QED
    BY <1>3, <2>1, <2>4, OneRequestSteps DEF FetchFails
<1>4. CASE FetchFails(r) /\ wanted # "probe"
  <2> DEFINE q == [req[r] EXCEPT !.pc = "error"]
  <2>1. req' = [req EXCEPT ![r] = q]
    BY <1>1, <1>4 DEF FetchFails
  <2>2. IsReader(q) /\ q.pc = "error"
    BY <1>1 DEF RequestIn, IsReader
  <2> HIDE DEF q
  <2>3. RequestIn(q)
    BY <2>2 DEF RequestIn, FetchIn, ReadIn, ServedIn
  <2> QED
    BY <1>4, <2>1, <2>3, OneRequestSteps DEF FetchFails
<1>5. CASE Leave(r)
  <2>1. RequestIn(NoReader)
    BY DEF RequestIn, NoReader, IsReader, FetchIn, ReadIn, ServedIn
  <2> QED
    BY <1>5, <2>1, OneRequestSteps DEF Leave
<1> QED
  BY <1>2, <1>3, <1>4, <1>5

\* Fetches overlap, and the last to store wins: what it stores was true since
\* the moment it began.
LEMMA StoreKeepsCaches ==
  ASSUME CachesInv, NEW r \in Requests, Store(r)
  PROVE  CachesInv'
<1> DEFINE v == req[r].value
           t == req[r].started
           s == Served(req[r], v)
<1>1. RequestIn(req[r]) /\ ClockIn /\ DOMAIN req = Requests /\ req[r].pc = "store"
  BY DEF CachesInv, Store, ReaderAt
<1>2. /\ t \in Int /\ t <= now /\ now <= t + MaxFetch /\ now \in Int
      /\ v \in Contents[wanted] /\ HeldSince(v, t)
  BY <1>1 DEF RequestIn, FetchIn, ReadIn, ClockIn
<1>3. UNCHANGED <<now, wanted, current, held>>
  BY DEF Store
<1>4. req' = [req EXCEPT ![r] = s] /\ cached' = [value |-> v, expires |-> Expiry(r)]
  BY <1>1 DEF Store
<1>5. /\ Slack \in Nat /\ Slack = IF wanted = "profile" THEN Ttl ELSE Ttl + MaxFetch
      /\ Ttl \in Nat /\ MaxFetch \in Nat /\ MaxFetch < Ttl
  BY <1>1, SlackFacts, ServingAssumption DEF Slack, ServingAssumption
<1>6. Expiry(r) \in Int /\ Expiry(r) - Slack <= t /\ Expiry(r) - Slack \in Int
  BY <1>2, <1>5 DEF Expiry
<1>7. now - Slack + 1 \in Int /\ now - Slack + 1 <= t
  BY <1>2, <1>5
<1>8. HeldSince(v, Expiry(r) - Slack) /\ HeldSince(v, now - Slack + 1)
  BY <1>1, <1>2, <1>6, <1>7, HeldEarlier
<1>9. RequestIn(s)
  BY <1>1, <1>2, <1>8, ServedRight DEF RequestIn
<1> HIDE DEF s
<1>10. cached'.value = v /\ cached'.expires = Expiry(r)
  BY <1>4
<1>11. ClockIn' /\ Slack' = Slack
  BY <1>1, <1>3 DEF ClockIn, Slack
<1>12. CacheIn'
  BY <1>2, <1>3, <1>6, <1>8, <1>10, <1>11 DEF CacheIn, HeldSince
<1>13. DOMAIN req' = Requests
  BY <1>1, <1>4
<1>14. ASSUME NEW p \in Requests
       PROVE  RequestIn(req[p])'
  <2>1. RequestIn(req'[p])
    BY <1>1, <1>4, <1>9 DEF CachesInv
  <2> QED
    BY <1>3, <2>1 DEF RequestIn, IsReader, FetchIn, ReadIn, ServedIn, HeldSince, Slack
<1> QED
  BY <1>11, <1>12, <1>13, <1>14 DEF CachesInv

\* A write to the database: what it replaces was held until now.
LEMMA ChangeKeepsCaches ==
  ASSUME CachesInv, NEW v \in Contents[wanted], Change(v)
  PROVE  CachesInv'
<1>1. /\ held' = [held EXCEPT ![current] = now] /\ current' = v
      /\ now' = now /\ wanted' = wanted /\ cached' = cached /\ req' = req
  BY DEF Change
<1>2. ClockIn /\ CacheIn /\ DOMAIN req = Requests /\ \A r \in Requests : RequestIn(req[r])
  BY DEF CachesInv
<1>3. ClockIn' /\ Slack' = Slack
  BY <1>1, <1>2 DEF ClockIn, Slack
<1>4. ASSUME NEW x \in Contents[wanted], NEW t \in Int, t <= now, HeldSince(x, t)
      PROVE  HeldSince(x, t)'
  <2>1. held'[x] \in Int /\ held[x] \in Int /\ (held'[x] = held[x] \/ held'[x] = now)
    BY <1>1, <1>2 DEF ClockIn
  <2>2. current = x => held'[x] = now
    BY <1>1, <1>2 DEF ClockIn
  <2> QED
    BY <1>1, <1>4, <2>1, <2>2 DEF HeldSince, ClockIn
<1>5. Slack \in Nat /\ Slack > 0
  BY <1>2, SlackFacts
<1>6. CacheIn'
  <2> SUFFICES ASSUME cached.value # NoValue
               PROVE  /\ cached.value \in Contents[wanted] /\ cached.expires \in Int
                      /\ cached.expires - Slack <= now
                      /\ HeldSince(cached.value, cached.expires - Slack)'
    BY <1>1, <1>3 DEF CacheIn, HeldSince
  <2>1. /\ cached.value \in Contents[wanted] /\ cached.expires \in Int
        /\ cached.expires - Slack <= now /\ HeldSince(cached.value, cached.expires - Slack)
    BY <1>2 DEF CacheIn
  <2>2. cached.expires - Slack \in Int
    BY <1>5, <2>1
  <2>3. ASSUME NEW x, NEW t, x = cached.value, t = cached.expires - Slack
        PROVE  HeldSince(x, t)'
    BY <1>4, <2>1, <2>2, <2>3
  <2> QED
    BY <1>1, <1>3, <2>1, <2>3 DEF HeldSince
<1>7. ASSUME NEW r \in Requests
      PROVE  RequestIn(req[r])'
  <2> DEFINE q == req[r]
  <2>1. IsReader(q) /\ FetchIn(q) /\ ReadIn(q) /\ ServedIn(q) /\ q' = q
    BY <1>1, <1>2 DEF RequestIn
  <2>2. IsReader(q)' /\ FetchIn(q)'
    BY <1>1, <2>1 DEF IsReader, FetchIn
  <2>3. ReadIn(q)'
    <3>1. CASE q.pc = "store"
      <4>1. q.value \in Contents[wanted] /\ HeldSince(q.value, q.started)
            /\ q.started \in Int /\ q.started <= now
        BY <2>1, <3>1 DEF ReadIn, FetchIn
      <4>2. ASSUME NEW x, NEW t, x = q.value, t = q.started
            PROVE  HeldSince(x, t)'
        BY <1>4, <4>1, <4>2
      <4>3. HeldSince(q.value, q.started)'
        BY <1>1, <4>2 DEF HeldSince
      <4> QED
        BY <1>1, <4>1, <4>3 DEF ReadIn
    <3>2. CASE q.pc # "store"
      BY <1>1, <3>2 DEF ReadIn
    <3> QED
      BY <3>1, <3>2
  <2>4. ServedIn(q)'
    <3>1. CASE q.header = NoValue /\ q.pc \in {"done", "executed", "refused"}
      <4>1. /\ q.value \in Contents[wanted] /\ q.at \in Int /\ q.at <= now
            /\ HeldSince(q.value, q.at - Slack + 1)
        BY <2>1, <3>1 DEF ServedIn
      <4>2. q.at - Slack + 1 \in Int /\ q.at - Slack + 1 <= now
        BY <1>2, <1>5, <4>1 DEF ClockIn
      <4>3. ASSUME NEW x, NEW t, x = q.value, t = q.at - Slack + 1
            PROVE  HeldSince(x, t)'
        BY <1>4, <4>1, <4>2, <4>3
      <4>4. HeldSince(q.value, q.at - Slack + 1)'
        BY <1>1, <1>3, <4>3 DEF HeldSince
      <4> QED
        BY <1>1, <4>1, <4>4 DEF ServedIn
    <3>2. CASE ~(q.header = NoValue /\ q.pc \in {"done", "executed", "refused"})
      BY <1>1, <3>2 DEF ServedIn
    <3> QED
      BY <3>1, <3>2
  <2> QED
    BY <2>2, <2>3, <2>4 DEF RequestIn
<1> QED
  BY <1>1, <1>2, <1>3, <1>6, <1>7 DEF CachesInv

\* Time passes only while every fetch is within its bound.
LEMMA TickKeepsCaches ==
  ASSUME CachesInv, Tick
  PROVE  CachesInv'
<1>1. now' = now + 1 /\ UNCHANGED <<wanted, current, held, cached, req>>
  BY DEF Tick
<1>2. ClockIn /\ CacheIn /\ DOMAIN req = Requests /\ \A r \in Requests : RequestIn(req[r])
  BY DEF CachesInv
<1>3. ClockIn' /\ Slack' = Slack /\ Slack \in Nat
  BY <1>1, <1>2, SlackFacts DEF ClockIn, Slack
<1>4. CacheIn'
  BY <1>1, <1>2, <1>3 DEF CacheIn, HeldSince, ClockIn
<1>5. ASSUME NEW r \in Requests
      PROVE  RequestIn(req[r])'
  <2>1. req[r].pc \in {"fetch", "store"} => now < req[r].started + MaxFetch
    BY DEF Tick
  <2>2. RequestIn(req[r]) /\ MaxFetch \in Int /\ now \in Int
    BY <1>2, ServingAssumption DEF ServingAssumption, ClockIn
  <2>3. FetchIn(req[r])'
    BY <1>1, <2>1, <2>2 DEF RequestIn, FetchIn
  <2>4. IsReader(req[r])' /\ ReadIn(req[r])'
    BY <1>1, <2>2 DEF RequestIn, IsReader, ReadIn, HeldSince
  <2>5. ServedIn(req[r])'
    BY <1>1, <1>3, <2>2 DEF RequestIn, ServedIn, HeldSince
  <2> QED
    BY <2>3, <2>4, <2>5 DEF RequestIn
<1> QED
  BY <1>1, <1>2, <1>3, <1>4, <1>5 DEF CachesInv

\* Every write of the database is a change to a value of its cache.
LEMMA WritesKeepCaches ==
  ASSUME CachesInv,
         (\E p \in {"coder", "repo-brain"} : agent_register(p)) \/ agent_create \/ agent_delete
           \/ OtherWrite
  PROVE  CachesInv'
<1>1. PICK v \in Contents[wanted] : Change(v)
  <2>1. wanted = "profile" => Contents[wanted] = {"none", "coder", "repo-brain"}
    BY DEF Contents
  <2> QED
    BY <2>1 DEF agent_register, agent_create, agent_delete, OtherWrite
<1> QED
  BY <1>1, ChangeKeepsCaches

\* Nothing the server answers from a cache had stopped being true longer ago
\* than the cache allows: Ttl for a profile, Ttl and one fetch for the probes
\* and the snapshot, in whatever order overlapping reads end and store.
THEOREM NothingServedTooOld == ScSpec => []ServedRecently
<1>1. ScInit => CachesInv
  <2> SUFFICES ASSUME ScInit PROVE CachesInv
    OBVIOUS
  <2>1. ClockIn
    <3>1. now = 0 /\ wanted \in Targets /\ held = [v \in Contents[wanted] |-> -1 - Ttl - MaxFetch]
      BY DEF ScInit
    <3>2. \E v \in {"none", "pending", "before"} : v \in Contents[wanted]
      BY <3>1 DEF Targets, Contents
    <3>3. current \in Contents[wanted]
      BY <3>2 DEF ScInit
    <3>4. -1 - Ttl - MaxFetch \in Int
      BY ServingAssumption DEF ServingAssumption
    <3> QED
      BY <3>1, <3>3, <3>4 DEF ClockIn
  <2>2. CacheIn
    BY DEF ScInit, CacheIn
  <2>3. RequestIn(NoReader)
    BY DEF RequestIn, NoReader, IsReader, FetchIn, ReadIn, ServedIn
  <2> QED
    BY <2>1, <2>2, <2>3 DEF ScInit, CachesInv
<1>2. CachesInv /\ [ScNext]_scVars => CachesInv'
  <2> SUFFICES ASSUME CachesInv, [ScNext]_scVars PROVE CachesInv'
    OBVIOUS
  <2>1. CASE UNCHANGED scVars
    BY <2>1 DEF scVars, CachesInv, ClockIn, CacheIn, RequestIn, IsReader, FetchIn, ReadIn,
                ServedIn, HeldSince, Slack
  <2>2. CASE ScNext
    BY <2>2, AskKeepsCaches, HeaderKeepsCaches, BuildKeepsCaches, FetchKeepsCaches,
       StoreKeepsCaches, WritesKeepCaches, TickKeepsCaches DEF ScNext, Serve
  <2> QED
    BY <2>1, <2>2
<1>3. CachesInv => ServedRecently
  <2> SUFFICES ASSUME CachesInv, NEW r \in Requests, req[r].header = NoValue,
                      req[r].pc \in {"done", "executed", "refused"}, req[r].value # "pending"
               PROVE  HeldWithin(req[r].value, req[r].at, Slack)
    BY DEF ServedRecently, Slack
  <2>1. /\ req[r].value \in Contents[wanted] /\ req[r].at \in Int
        /\ HeldSince(req[r].value, req[r].at - Slack + 1)
    BY DEF CachesInv, RequestIn, ServedIn
  <2>2. Slack \in Nat /\ held[req[r].value] \in Int
    BY <2>1, SlackFacts DEF CachesInv, ClockIn
  <2> QED
    BY <2>1, <2>2 DEF HeldSince, HeldWithin
<1> QED
  BY <1>1, <1>2, <1>3, PTL DEF ScSpec

(***************************************************************************)
(* Maintenance: the probe of the partition horizon. The probe's answer     *)
(* stays true of the month it was given in, because months and partitions  *)
(* only grow.                                                              *)
(***************************************************************************)
\* Months do not go back.
LEMMA MonthGrows ==
    ASSUME NEW a \in Nat
    PROVE  MonthOf(a) \in Nat /\ MonthOf(a + 1) \in Nat /\ MonthOf(a) <= MonthOf(a + 1)
<1> DEFINE q == a \div TicksPerMonth
           p == (a + 1) \div TicksPerMonth
<1>0. TicksPerMonth \in Nat \ {0}
  BY MaintenanceAssumption
<1>1. /\ q \in Int /\ p \in Int
      /\ TicksPerMonth * q <= a /\ a < TicksPerMonth * q + TicksPerMonth
      /\ TicksPerMonth * p <= a + 1 /\ a + 1 < TicksPerMonth * p + TicksPerMonth
  BY <1>0
<1> HIDE DEF p, q
<1>2. q >= 0 /\ p >= 0
  BY <1>0, <1>1
<1>3. q <= p
  <2> SUFFICES ASSUME p < q PROVE FALSE
    BY <1>1
  <2>1. TicksPerMonth * (p + 1) <= TicksPerMonth * q
    BY <1>0, <1>1
  <2>2. QED
    BY <1>0, <1>1, <2>1
<1>4. QED
  BY <1>1, <1>2, <1>3 DEF MonthOf, p, q

\* From this month to any month that has a partition there is no gap.
MtInv ==
  /\ tick \in Nat
  /\ parts \subseteq Int
  /\ \A m \in parts : \A x \in Int : Month <= x /\ x <= m => x \in parts

LEMMA MtInitOk == MtInit => MtInv
BY MaintenanceAssumption DEF MtInit, MtInv, Month, MonthOf

LEMMA CrossOk ==
    ASSUME MtInv, NEW ok \in BOOLEAN, CrossTenantPasses(ok)
    PROVE  MtInv'
<1>1. tick' = tick /\ Month' = Month /\ Month \in Nat
  BY MonthGrows DEF CrossTenantPasses, Month, MtInv
<1>2. CASE parts' = parts
  BY <1>1, <1>2 DEF MtInv
<1>3. CASE parts' = (parts \cup ToCreate) \ ToDrop
  <2>1. \A x \in Int : x \in parts' <=> (x \in parts \/ (Month <= x /\ x <= Month + MonthsAhead)) /\ x \notin ToDrop
    BY <1>1, <1>3, MaintenanceAssumption DEF ToCreate, MtInv
  <2>2. \A x \in Int : Month <= x => x \notin ToDrop
    BY <1>1, MaintenanceAssumption DEF ToDrop
  <2>3. parts' \subseteq Int
    <3>1. \A x \in parts' : x \in parts \/ x \in Month .. Month + MonthsAhead
      BY <1>3 DEF ToCreate
    <3>2. \A x \in Month .. Month + MonthsAhead : x \in Int
      BY <1>1, MaintenanceAssumption
    <3>3. parts \subseteq Int
      BY DEF MtInv
    <3>4. QED
      BY <3>1, <3>2, <3>3
  <2>4. ASSUME NEW m \in parts', NEW x \in Int, Month <= x, x <= m PROVE x \in parts'
    <3>1. m \in Int /\ (m \in parts \/ m <= Month + MonthsAhead)
      BY <2>1, <2>3
    <3>2. x \in parts \/ x <= Month + MonthsAhead
      BY <1>1, <2>4, <3>1, MaintenanceAssumption DEF MtInv
    <3>3. QED
      BY <2>1, <2>2, <2>4, <3>2
  <2>5. QED
    BY <1>1, <2>3, <2>4 DEF MtInv
<1>4. QED
  BY <1>2, <1>3 DEF CrossTenantPasses

LEMMA MtStepOk == MtInv /\ [MtNext]_mtVars => MtInv'
<1> SUFFICES ASSUME MtInv, [MtNext]_mtVars PROVE MtInv'
  OBVIOUS
<1>1. CASE tick' = tick /\ parts' = parts
  BY <1>1 DEF MtInv, Month
<1>2. CASE PassTime
  <2>1. tick' = tick + 1 /\ parts' = parts
    BY <1>2 DEF PassTime
  <2>2. Month \in Nat /\ Month' \in Nat /\ Month <= Month'
    BY <2>1, MonthGrows DEF MtInv, Month
  <2>3. QED
    BY <2>1, <2>2 DEF MtInv
<1>3. ASSUME NEW ok \in BOOLEAN, CrossTenantPasses(ok) PROVE MtInv'
  BY <1>3, CrossOk
<1>4. QED
  BY <1>1, <1>2, <1>3 DEF MtNext, CycleStep, mtVars, DaemonWakes, TenantsDone, SingleTenantPasses, ListTenants,
     FeedbackPass, CycleFails, RecordEvent, StopDaemon, RecordFeedback, StartDaemon

\* For every window, horizon and retention: the probe may look at the newest partition
\* alone, because no failed, missed or dry cycle and no drop leaves a gap before it.
THEOREM ProbeSeesTheHorizon == MtSpec => []HorizonHonest
<1>1. MtInv => HorizonHonest
  <2> SUFFICES ASSUME MtInv, NEW m \in parts, m + 1 >= Month + MonthsAhead,
                      NEW x \in Month .. Month + MonthsAhead - 1
               PROVE  x \in parts
    BY DEF HorizonHonest, HorizonOk
  <2>1. Month \in Nat /\ m \in Int
    BY MonthGrows DEF MtInv, Month
  <2>2. x <= m /\ Month <= x /\ x \in Int
    BY <2>1, MaintenanceAssumption
  <2>3. QED
    BY <2>2 DEF MtInv
<1>2. QED
  BY <1>1, MtInitOk, MtStepOk, PTL DEF MtSpec

(***************************************************************************)
(* The knowledge graph. The tables only grow, an active triple keeps its   *)
(* one row because the index decides on the current rows, and what a       *)
(* transaction over a list of events makes of the tables is followed event *)
(* by event, along a least counterexample.                                 *)
(***************************************************************************)
\* A non-empty set of naturals has a least element.
LEMMA Least ==
    ASSUME NEW S \in SUBSET Nat, S # {}
    PROVE  \E x \in S : \A y \in S : x <= y
<1>1. PICK x \in S : \A y \in S : ~(<<y, x>> \in OpToRel(<, Nat))
  BY WFMin, NatLessThanWellFounded
<1>2. \A y \in S : ~(y < x)
  <2> SUFFICES ASSUME NEW y \in S, y < x PROVE FALSE
    OBVIOUS
  <2>1. <<y, x>> \in Nat \X Nat /\ <<y, x>>[1] = y /\ <<y, x>>[2] = x
    OBVIOUS
  <2>2. <<y, x>> \in OpToRel(<, Nat)
    BY <2>1 DEF OpToRel
  <2>3. QED
    BY <1>1, <2>2
<1>3. QED
  BY <1>2

EdgeRecord == [t : Triples, status : {"active", "stale", "superseded"}, by : Nat, contra : BOOLEAN,
               cnt : Nat, last : Int, pos : Nat, neg : Nat, flag : BOOLEAN]
EntRecord == [on : BOOLEAN, aka : SUBSET Names]

\* An edge by itself, a table of edges, and what a transaction may make of one.
EdgeOk(e, w) == e.cnt <= e.last + 1 /\ e.last <= w /\ (e.status = "active" => e.by = 0)
EdgesOk(es, en, w) ==
  /\ es \in Seq(EdgeRecord) /\ en \in [Names -> EntRecord]
  /\ \A i \in 1..Len(es) : EdgeOk(es[i], w) /\ en[es[i].t[1]].on /\ en[es[i].t[3]].on
  /\ \A i, j \in 1..Len(es) :
        es[i].t = es[j].t /\ es[i].status = "active" /\ es[j].status = "active" => i = j
Grown(es, fs) ==
  /\ Len(es) <= Len(fs)
  /\ \A i \in 1..Len(es) : /\ es[i].status # "active" => fs[i].status # "active"
                           /\ es[i].by # 0 => fs[i].by = es[i].by
Wider(en, fn) == \A n \in Names : en[n].on => fn[n].on
SpecOk(s) == s.names \subseteq Names /\ s.edge \in Triples \cup {NoOne}
ListOk(l) == Len(l) \in Nat /\ \A i \in 1..Len(l) : SpecOk(l[i])

CallerOk(c, es, en) ==
  /\ c.pc = "create" => c.n \in Names
  /\ c.pc = "edge" => /\ c.t \in Triples /\ c.hit \in 0..Len(es) /\ c.old \in 0..Len(es)
                      /\ en[c.t[1]].on /\ en[c.t[3]].on
  /\ c.pc = "supersede" => c.old \in 1..Len(es) /\ c.new \in Nat
  /\ c.pc = "reinforce" => c.e \in 1..Len(es)
  /\ c.pc = "record" => ListOk(c.specs) /\ c.saw.edges \subseteq 1..Len(es)
  /\ c.pc = "perEvent" => ListOk(c.specs) /\ c.todo \subseteq 1..Len(c.specs)
KgInv ==
  /\ window \in Nat /\ EdgesOk(edges, ents, window)
  /\ DOMAIN kloc = Actors /\ \A a \in Actors : CallerOk(kloc[a], edges, ents)

-----------------------------------------------------------------------------
LEMMA EndsAreNames == \A t \in Triples : t[1] \in Names /\ t[3] \in Names
BY KnowledgeGraphAssumption

LEMMA GrownMore ==
    ASSUME NEW es, NEW fs, NEW gs, Len(es) \in Nat, Len(fs) \in Nat, Len(gs) \in Nat,
           Grown(es, fs), Grown(fs, gs)
    PROVE  Grown(es, gs)
<1>1. \A i \in 1..Len(es) : i \in 1..Len(fs)
  BY DEF Grown
<1>2. QED
  BY <1>1 DEF Grown

LEMMA GrownSame == \A es : Len(es) \in Nat => Grown(es, es)
BY DEF Grown

\* A caller's record stays sound when the tables grow.
LEMMA CallerGrown ==
    ASSUME NEW c, NEW es, NEW fs, NEW en, NEW fn, Len(es) \in Nat, Len(fs) \in Nat,
           CallerOk(c, es, en), Len(es) <= Len(fs), Wider(en, fn)
    PROVE  CallerOk(c, fs, fn)
<1>1. 1..Len(es) \subseteq 1..Len(fs) /\ 0..Len(es) \subseteq 0..Len(fs)
  OBVIOUS
<1>2. c.pc = "edge" => fn[c.t[1]].on /\ fn[c.t[3]].on
  BY EndsAreNames DEF CallerOk, Wider
<1>3. QED
  BY <1>1, <1>2 DEF CallerOk

LEMMA EdgesWider ==
    ASSUME NEW es, NEW en, NEW fn \in [Names -> EntRecord], NEW w, EdgesOk(es, en, w), Wider(en, fn)
    PROVE  EdgesOk(es, fn, w)
<1>1. ASSUME NEW i \in 1..Len(es) PROVE es[i].t \in Triples
  <2>1. es[i] \in EdgeRecord
    BY DEF EdgesOk
  <2>2. QED
    BY <2>1 DEF EdgeRecord
<1>2. \A i \in 1..Len(es) : fn[es[i].t[1]].on /\ fn[es[i].t[3]].on
  BY <1>1, EndsAreNames DEF EdgesOk, Wider
<1>3. QED
  BY <1>2 DEF EdgesOk

\* What a transaction may make of an edge x it writes.
Kept(x, e) == /\ e.t = x.t /\ (e.status = "active" => x.status = "active")
              /\ x.by # 0 => e.by = x.by

\* One edge changes: it keeps its triple and does not become active.
LEMMA EdgeChanged ==
    ASSUME NEW es, NEW en, NEW w, EdgesOk(es, en, w), NEW i \in 1..Len(es), NEW e \in EdgeRecord,
           EdgeOk(e, w), Kept(es[i], e)
    PROVE  LET fs == [es EXCEPT ![i] = e] IN
           EdgesOk(fs, en, w) /\ Grown(es, fs) /\ Len(fs) = Len(es)
<1> DEFINE fs == [es EXCEPT ![i] = e]
<1>1. es \in Seq(EdgeRecord) /\ Len(es) \in Nat
  BY DEF EdgesOk
<1>2. fs \in Seq(EdgeRecord) /\ Len(fs) = Len(es)
      /\ \A j \in 1..Len(es) : fs[j] = IF j = i THEN e ELSE es[j]
  BY <1>1
<1> HIDE DEF fs
<1>3. \A j \in 1..Len(es) : /\ fs[j].t = es[j].t
                            /\ fs[j].status = "active" => es[j].status = "active"
                            /\ es[j].by # 0 => fs[j].by = es[j].by
                            /\ EdgeOk(fs[j], w)
  BY <1>2 DEF EdgesOk, Kept
<1>4. EdgesOk(fs, en, w)
  BY <1>2, <1>3 DEF EdgesOk
<1>5. Grown(es, fs)
  BY <1>1, <1>2, <1>3 DEF Grown
<1>6. QED
  BY <1>2, <1>4, <1>5 DEF fs

LEMMA ReinforcedOk ==
    ASSUME NEW es, NEW en, window \in Nat, EdgesOk(es, en, window), NEW i \in 1..Len(es)
    PROVE  LET fs == [es EXCEPT ![i] = Reinforced(es[i])] IN
           EdgesOk(fs, en, window) /\ Grown(es, fs) /\ Len(fs) = Len(es)
<1> DEFINE e == es[i]
           r == Reinforced(es[i])
<1>1. e \in EdgeRecord /\ EdgeOk(e, window)
  BY DEF EdgesOk
<1>2. r \in EdgeRecord /\ r.t = e.t /\ r.status = e.status /\ r.by = e.by /\ EdgeOk(r, window)
  <2>1. CASE e.last = window
    BY <1>1, <2>1 DEF Reinforced
  <2>2. CASE e.last # window
    <3>1. r = [e EXCEPT !.cnt = e.cnt + 1, !.last = window]
      BY <2>2 DEF Reinforced
    <3>2. e.cnt + 1 \in Nat /\ window \in Int /\ e.last \in Int /\ e.cnt \in Nat
      BY <1>1 DEF EdgeRecord
    <3> HIDE DEF e, r
    <3>3. r \in EdgeRecord /\ r.t = e.t /\ r.status = e.status /\ r.by = e.by
          /\ r.cnt = e.cnt + 1 /\ r.last = window
      BY <1>1, <3>1, <3>2 DEF EdgeRecord
    <3>4. QED
      BY <1>1, <2>2, <3>2, <3>3 DEF EdgeOk
  <2>3. QED
    BY <2>1, <2>2
<1> HIDE DEF r
<1>3. LET fs == [es EXCEPT ![i] = r] IN EdgesOk(fs, en, window) /\ Grown(es, fs) /\ Len(fs) = Len(es)
  <2>1. Kept(es[i], r)
    BY <1>2 DEF Kept
  <2>2. QED
    BY <1>2, <2>1, EdgeChanged
<1>4. QED
  BY <1>3 DEF r

\* An insert the unique index accepts.
LEMMA InsertOk ==
    ASSUME NEW es, NEW en, NEW w \in Nat, EdgesOk(es, en, w), NEW t \in Triples,
           en[t[1]].on, en[t[3]].on
    PROVE  LET fs == InsertIn(es, t)[1] IN
           /\ EdgesOk(fs, en, w) /\ Grown(es, fs) /\ Len(fs) \in Nat /\ Len(es) <= Len(fs)
           /\ InsertIn(es, t)[2] => Len(fs) = Len(es) + 1
<1> DEFINE fs == InsertIn(es, t)[1]
<1>1. es \in Seq(EdgeRecord) /\ Len(es) \in Nat
  BY DEF EdgesOk
<1>2. CASE ActiveIn(es, t) # {}
  BY <1>1, <1>2, GrownSame DEF InsertIn
<1>3. CASE ActiveIn(es, t) = {}
  <2> DEFINE e == Edge(t)
  <2>1. e \in EdgeRecord /\ e.t = t /\ EdgeOk(e, w)
    BY DEF Edge, EdgeRecord, EdgeOk
  <2>2. fs = Append(es, e) /\ InsertIn(es, t)[2]
    BY <1>3 DEF InsertIn
  <2> HIDE DEF e, fs
  <2>3. /\ fs \in Seq(EdgeRecord) /\ Len(fs) = Len(es) + 1 /\ fs[Len(es) + 1] = e
        /\ \A i \in 1..Len(es) : fs[i] = es[i]
    BY <1>1, <2>1, <2>2
  <2>4. \A i \in 1..Len(fs) : i \in 1..Len(es) \/ i = Len(es) + 1
    BY <1>1, <2>3
  <2>5. \A i \in 1..Len(es) : ~(es[i].t = t /\ es[i].status = "active")
    BY <1>3 DEF ActiveIn
  <2>6. \A i \in 1..Len(fs) : EdgeOk(fs[i], w) /\ en[fs[i].t[1]].on /\ en[fs[i].t[3]].on
    BY <2>1, <2>3, <2>4 DEF EdgesOk
  <2>7. ASSUME NEW i \in 1..Len(fs), NEW j \in 1..Len(fs), fs[i].t = fs[j].t,
               fs[i].status = "active", fs[j].status = "active"
        PROVE  i = j
    BY <2>1, <2>3, <2>4, <2>5, <2>7 DEF EdgesOk
  <2>8. EdgesOk(fs, en, w)
    BY <2>3, <2>6, <2>7 DEF EdgesOk
  <2>9. Grown(es, fs)
    BY <1>1, <2>3 DEF Grown
  <2>10. QED
    BY <1>1, <2>2, <2>3, <2>8, <2>9 DEF fs
<1>4. QED
  BY <1>2, <1>3

-----------------------------------------------------------------------------
DbFields == {"ents", "edges", "events", "mems", "ok"}
DbOk(db) ==
  /\ DOMAIN db = DbFields
  /\ db.ok => EdgesOk(db.edges, db.ents, window) /\ Grown(edges, db.edges) /\ Wider(ents, db.ents)

LEMMA UpsertEdgesOk ==
    ASSUME NEW d, window \in Nat, Len(edges) \in Nat, EdgesOk(d.edges, d.ents, window), Grown(edges, d.edges),
           NEW seen \in SUBSET (1..Len(edges)), NEW spec, SpecOk(spec)
    PROVE  LET e == UpsertEdges(d, spec, seen) IN
           e[3] => EdgesOk(e[1], d.ents, window) /\ Grown(d.edges, e[1])
<1> DEFINE t == spec.edge
           ends == IF spec.keyed THEN {ResolveKey(spec, t[1]), ResolveKey(spec, t[3])} ELSE {t[1], t[3]}
           mine == {i \in ActiveIn(d.edges, t) : i > Len(edges)}
           hits == {i \in seen \cup mine : d.edges[i].t = t}
           hit == CHOOSE i \in hits : TRUE
           r == InsertIn(d.edges, t)
           e == UpsertEdges(d, spec, seen)
<1>1. Len(d.edges) \in Nat
  BY DEF EdgesOk
<1>2. Grown(d.edges, d.edges)
  BY <1>1, GrownSame
<1>3. hits \subseteq 1..Len(d.edges)
  <2>1. 1..Len(edges) \subseteq 1..Len(d.edges)
    BY <1>1 DEF Grown
  <2>2. QED
    BY <2>1 DEF ActiveIn
<1>4. CASE t = NoOne
  <2>1. e[1] = d.edges
    BY <1>4 DEF UpsertEdges
  <2>2. QED
    BY <2>1, <1>2
<1>5. CASE t # NoOne /\ NoOne \in ends
  <2>1. e[1] = d.edges
    BY <1>5 DEF UpsertEdges
  <2>2. QED
    BY <2>1, <1>2
<1>6. CASE t # NoOne /\ NoOne \notin ends /\ hits # {}
  <2>1. hit \in 1..Len(d.edges)
    BY <1>3, <1>6
  <2>2. e[1] = [d.edges EXCEPT ![hit] = Reinforced(d.edges[hit])]
    BY <1>6 DEF UpsertEdges
  <2>3. EdgesOk([d.edges EXCEPT ![hit] = Reinforced(d.edges[hit])], d.ents, window)
        /\ Grown(d.edges, [d.edges EXCEPT ![hit] = Reinforced(d.edges[hit])])
    <3> HIDE DEF hit
    <3>1. QED
      BY <2>1, ReinforcedOk
  <2> HIDE DEF hit, e
  <2>4. QED
    BY <2>2, <2>3 DEF e
<1>7. CASE t # NoOne /\ NoOne \notin ends /\ hits = {}
  <2>1. e[1] = r[1] /\ (e[3] => d.ents[t[1]].on /\ d.ents[t[3]].on)
    BY <1>7 DEF UpsertEdges
  <2>2. t \in Triples
    BY <1>7 DEF SpecOk
  <2>3. e[3] => EdgesOk(InsertIn(d.edges, t)[1], d.ents, window)
                /\ Grown(d.edges, InsertIn(d.edges, t)[1])
    <3> HIDE DEF e, t
    <3>1. QED
      BY <2>1, <2>2, InsertOk
  <2> HIDE DEF e
  <2>4. QED
    BY <2>1, <2>3 DEF e
<1>8. QED
  BY <1>4, <1>5, <1>6, <1>7

LEMMA EntitiesWider ==
    ASSUME NEW en, en \in [Names -> EntRecord], NEW spec
    PROVE  UpsertEntities(en, spec) \in [Names -> EntRecord] /\ Wider(en, UpsertEntities(en, spec))
BY DEF UpsertEntities, EntRecord, Wider

LEMMA WiderMore ==
    ASSUME NEW en, NEW fn, NEW gn, Wider(en, fn), Wider(fn, gn)
    PROVE  Wider(en, gn)
BY DEF Wider

LEMMA RecordInOk ==
    ASSUME NEW db, window \in Nat, Len(edges) \in Nat, DbOk(db), NEW spec, SpecOk(spec), NEW saw,
           saw.edges \subseteq 1..Len(edges)
    PROVE  DbOk(RecordIn(db, spec, saw))
<1> DEFINE up == UpsertEntities(db.ents, spec)
           d == [db EXCEPT !.ents = up]
           e == UpsertEdges(d, spec, saw.edges)
           r == RecordIn(db, spec, saw)
<1>1. CASE ~db.ok \/ ~e[3]
  <2>1. r = [db EXCEPT !.ok = FALSE]
    BY <1>1 DEF RecordIn
  <2>2. DOMAIN r = DbFields /\ r.ok = FALSE
    BY <2>1 DEF DbOk, DbFields
  <2>3. QED
    BY <2>2 DEF DbOk
<1>2. CASE db.ok /\ e[3]
  <2>1. EdgesOk(db.edges, db.ents, window) /\ Grown(edges, db.edges) /\ Wider(ents, db.ents)
    BY <1>2 DEF DbOk
  <2>2. up \in [Names -> EntRecord] /\ Wider(db.ents, up)
    BY <2>1, EntitiesWider DEF EdgesOk
  <2>3. EdgesOk(db.edges, up, window)
    BY <2>1, <2>2, EdgesWider
  <2>4. d.edges = db.edges /\ d.ents = up
    BY DEF DbOk, DbFields
  <2> DEFINE ms == IF spec.mem = NoOne THEN db.mems ELSE WithCapacity(db.mems, saw.mems, spec.mem)
             ev == Append(db.events, EventRow(spec, e))
  <2>5. r = [db EXCEPT !.ents = up, !.edges = e[1], !.mems = ms, !.events = ev]
    BY <1>2 DEF RecordIn
  <2> HIDE DEF r, ms, ev, up
  <2>6. EdgesOk(e[1], up, window) /\ Grown(db.edges, e[1])
    <3> HIDE DEF d
    <3>1. QED
      BY <1>2, <2>1, <2>3, <2>4, UpsertEdgesOk
  <2> HIDE DEF e, d
  <2>7. DOMAIN r = DbFields /\ r.edges = e[1] /\ r.ents = up
    BY <2>5 DEF DbOk, DbFields
  <2>8. Grown(edges, e[1])
    BY <2>1, <2>6, GrownMore DEF EdgesOk
  <2>9. Wider(ents, up)
    BY <2>1, <2>2, WiderMore
  <2>10. QED
    BY <2>6, <2>7, <2>8, <2>9 DEF DbOk, r
<1>3. QED
  BY <1>1, <1>2

\* A transaction over a list of events, one event after another.
LEMMA RecordManyOk ==
    ASSUME window \in Nat, EdgesOk(edges, ents, window), NEW specs, ListOk(specs), NEW saw,
           saw.edges \subseteq 1..Len(edges)
    PROVE  DbOk(RecordMany(specs, saw))
<1> DEFINE N == Len(specs)
           Run(g, m) == g = [n \in 0..m |-> IF n = 0 THEN Db ELSE RecordIn(g[n-1], specs[n], saw)]
           Bad == {m \in 0..N : ~\E g : Run(g, m)}
<1>1. N \in Nat /\ Len(edges) \in Nat /\ \A i \in 1..N : SpecOk(specs[i])
  BY DEF ListOk, EdgesOk
<1>2. Bad = {}
  <2> SUFFICES ASSUME Bad # {} PROVE FALSE
    OBVIOUS
  <2>1. PICK m \in Bad : \A y \in Bad : m <= y
    <3>1. Bad \in SUBSET Nat
      BY <1>1
    <3> HIDE DEF Bad
    <3>2. QED
      BY <3>1, Least
  <2>2. m \in 0..N /\ ~\E g : Run(g, m)
    BY <2>1
  <2>3. CASE m = 0
    <3> DEFINE g == [n \in 0..0 |-> Db]
    <3>1. g = [n \in 0..0 |-> IF n = 0 THEN Db ELSE RecordIn(g[n-1], specs[n], saw)]
      OBVIOUS
    <3>2. QED
      BY <3>1, <2>2, <2>3
  <2>4. CASE m # 0
    <3>1. m - 1 \in 0..N /\ ~(m <= m - 1)
      BY <1>1, <2>2, <2>4
    <3>2. m - 1 \notin Bad
      <4> HIDE DEF Bad
      <4>1. QED
        BY <2>1, <3>1
    <3>3. PICK h : Run(h, m - 1)
      BY <3>1, <3>2
    <3> DEFINE g == [n \in 0..m |-> IF n = m THEN RecordIn(h[m-1], specs[m], saw) ELSE h[n]]
    <3>4. ASSUME NEW n \in 0..m
          PROVE  g[n] = IF n = 0 THEN Db ELSE RecordIn(g[n-1], specs[n], saw)
      <4>1. CASE n = m
        <5>1. g[n] = RecordIn(h[m-1], specs[m], saw)
          BY <4>1
        <5>2. g[n-1] = h[m-1]
          BY <1>1, <2>2, <2>4, <4>1
        <5>3. QED
          BY <5>1, <5>2, <4>1, <2>4
      <4>2. CASE n # m
        <5>1. n \in 0..(m-1) /\ g[n] = h[n]
          BY <1>1, <2>2, <4>2
        <5>2. h[n] = IF n = 0 THEN Db ELSE RecordIn(h[n-1], specs[n], saw)
          BY <3>3, <5>1
        <5>3. n # 0 => n - 1 \in 0..m /\ n - 1 # m
          BY <1>1, <2>2, <5>1
        <5>4. n # 0 => g[n-1] = h[n-1]
          BY <5>3
        <5>5. QED
          BY <5>1, <5>2, <5>4
      <4>3. QED
        BY <4>1, <4>2
    <3>5. Run(g, m)
      BY <3>4
    <3>6. QED
      BY <3>5, <2>2
  <2>5. QED
    BY <2>3, <2>4
<1>3. PICK f : Run(f, N)
  BY <1>1, <1>2
<1> DEFINE after == CHOOSE g : Run(g, N)
<1>4. RecordMany(specs, saw) = after[N]
  BY DEF RecordMany
<1>5. Run(after, N)
  BY <1>3
<1> DEFINE Off == {m \in 0..N : ~DbOk(after[m])}
<1>6. \A n \in 0..N : after[n] = IF n = 0 THEN Db ELSE RecordIn(after[n-1], specs[n], saw)
  <2> HIDE DEF after
  <2>1. QED
    BY <1>5
<1> HIDE DEF after
<1>7. DbOk(Db)
  <2>1. Db.edges = edges /\ Db.ents = ents /\ DOMAIN Db = DbFields
    BY DEF Db, DbFields
  <2>2. Grown(edges, edges) /\ Wider(ents, ents)
    BY <1>1, GrownSame DEF Wider
  <2>3. QED
    BY <2>1, <2>2 DEF DbOk
<1>8. Off = {}
  <2> SUFFICES ASSUME Off # {} PROVE FALSE
    OBVIOUS
  <2>1. PICK m \in Off : \A y \in Off : m <= y
    <3>1. Off \in SUBSET Nat
      BY <1>1
    <3> HIDE DEF Off
    <3>2. QED
      BY <3>1, Least
  <2>2. m \in 0..N /\ ~DbOk(after[m])
    BY <2>1
  <2>3. m # 0
    BY <1>6, <1>7, <2>2
  <2>4. m - 1 \in 0..N /\ ~(m <= m - 1) /\ m \in 1..N
    BY <1>1, <2>2, <2>3
  <2>5. DbOk(after[m-1])
    BY <2>1, <2>4
  <2>6. after[m] = RecordIn(after[m-1], specs[m], saw)
    BY <1>6, <2>2, <2>3
  <2>7. QED
    BY <1>1, <2>2, <2>4, <2>5, <2>6, RecordInOk
<1>9. QED
  BY <1>1, <1>4, <1>8

-----------------------------------------------------------------------------
\* What every step does to the tables.
Sound == EdgesOk(edges', ents', window') /\ Grown(edges, edges') /\ Wider(ents, ents')

LEMMA KgInit_Inv == KgInit => KgInv
<1> SUFFICES ASSUME KgInit PROVE KgInv
  OBVIOUS
<1>1. EdgesOk(edges, ents, window)
  BY DEF KgInit, EdgesOk, EntRecord
<1>2. DOMAIN kloc = Actors /\ \A a \in Actors : CallerOk(kloc[a], edges, ents)
  BY DEF KgInit, CallerOk, Idle
<1>3. QED
  BY <1>1, <1>2 DEF KgInit, KgInv

\* The tables grow, and one caller at most has a new record.
LEMMA CallersKept ==
    ASSUME KgInv, Sound, window' \in Nat, NEW a \in Actors, NEW c,
           kloc' = [kloc EXCEPT ![a] = c], CallerOk(c, edges', ents')
    PROVE  KgInv'
<1>1. Len(edges) \in Nat /\ Len(edges') \in Nat /\ Len(edges) <= Len(edges')
  BY DEF KgInv, Sound, EdgesOk, Grown
<1>2. ASSUME NEW b \in Actors PROVE CallerOk(kloc'[b], edges', ents')
  <2>1. CallerOk(kloc[b], edges', ents')
    BY <1>1, CallerGrown DEF KgInv, Sound
  <2>2. kloc'[b] = IF b = a THEN c ELSE kloc[b]
    BY DEF KgInv
  <2>3. QED
    BY <2>1, <2>2
<1>3. DOMAIN kloc' = Actors
  BY DEF KgInv
<1>4. QED
  BY <1>2, <1>3 DEF KgInv, Sound

LEMMA CallersStill ==
    ASSUME KgInv, Sound, window' \in Nat, kloc' = kloc
    PROVE  KgInv'
<1>1. Len(edges) \in Nat /\ Len(edges') \in Nat /\ Len(edges) <= Len(edges')
  BY DEF KgInv, Sound, EdgesOk, Grown
<1>2. ASSUME NEW b \in Actors PROVE CallerOk(kloc'[b], edges', ents')
  <2>1. CallerOk(kloc[b], edges', ents')
    BY <1>1, CallerGrown DEF KgInv, Sound
  <2>2. QED
    BY <2>1
<1>3. QED
  BY <1>2 DEF KgInv, Sound

\* A step that writes no table.
LEMMA TablesStill ==
    ASSUME KgInv, UNCHANGED <<edges, ents, window>>
    PROVE  Sound /\ window' \in Nat
<1>1. Len(edges) \in Nat
  BY DEF KgInv, EdgesOk
<1>2. Grown(edges, edges) /\ Wider(ents, ents)
  BY <1>1, GrownSame DEF Wider
<1>3. QED
  BY <1>2 DEF KgInv, Sound

\* A step that writes one edge.
LEMMA OneEdge ==
    ASSUME KgInv, NEW i \in 1..Len(edges), NEW e \in EdgeRecord, EdgeOk(e, window),
           Kept(edges[i], e), SetEdge(i, e),
           UNCHANGED <<ents, window>>
    PROVE  Sound /\ window' \in Nat /\ Len(edges') = Len(edges)
<1>0. EdgesOk(edges, ents, window)
  BY DEF KgInv
<1>1. LET fs == [edges EXCEPT ![i] = e] IN
      EdgesOk(fs, ents, window) /\ Grown(edges, fs) /\ Len(fs) = Len(edges)
  BY <1>0, EdgeChanged
<1>2. Wider(ents, ents)
  BY DEF Wider
<1>3. QED
  BY <1>1, <1>2 DEF KgInv, Sound, SetEdge

LEMMA IdleOk == \A es, en : CallerOk(Idle, es, en)
BY DEF CallerOk, Idle

LEMMA EntitySteps ==
    ASSUME KgInv, NEW a \in Actors, NEW n \in Names, NEW aka \in SUBSET Names,
           UpsertEntity(a, n, aka) \/ ResolveEntity(a, n) \/ ResolveCreate(a)
    PROVE  Sound /\ KgInv'
<1>1. ents \in [Names -> EntRecord] /\ EdgesOk(edges, ents, window) /\ window \in Nat
      /\ Len(edges) \in Nat
  BY DEF KgInv, EdgesOk
<1>2. ASSUME NEW m \in Names, NEW ak \in SUBSET Names, ents' = UpsertIn(ents, m, ak),
             UNCHANGED <<edges, window>>
      PROVE  Sound /\ window' \in Nat
  <2>1. ents' \in [Names -> EntRecord] /\ Wider(ents, ents')
    BY <1>1, <1>2 DEF UpsertIn, EntRecord, Wider
  <2>2. EdgesOk(edges, ents', window)
    BY <1>1, <2>1, EdgesWider
  <2>3. QED
    BY <1>1, <1>2, <2>1, <2>2, GrownSame DEF Sound
<1>3. CASE UpsertEntity(a, n, aka)
  <2>1. Sound /\ window' \in Nat
    BY <1>2, <1>3 DEF UpsertEntity
  <2>2. QED
    BY <1>3, <2>1, CallersStill DEF UpsertEntity
<1>4. CASE ResolveEntity(a, n)
  <2>1. Sound /\ window' \in Nat
    BY <1>4, TablesStill DEF ResolveEntity
  <2> DEFINE c == IF ResolveName(n) = {} THEN [pc |-> "create", n |-> n] ELSE Idle
  <2>2. kloc' = [kloc EXCEPT ![a] = c]
    BY <1>4 DEF ResolveEntity, SetCaller
  <2>3. CallerOk(c, edges', ents')
    BY IdleOk DEF CallerOk
  <2> HIDE DEF c
  <2>4. QED
    BY <2>1, <2>2, <2>3, CallersKept
<1>5. CASE ResolveCreate(a)
  <2>1. kloc[a].n \in Names
    BY <1>5 DEF ResolveCreate, KgInv, CallerOk
  <2>2. Sound /\ window' \in Nat
    BY <1>2, <1>5, <2>1 DEF ResolveCreate
  <2>3. kloc' = [kloc EXCEPT ![a] = Idle]
    BY <1>5 DEF ResolveCreate, SetCaller
  <2>4. QED
    BY <2>2, <2>3, IdleOk, CallersKept
<1>6. QED
  BY <1>3, <1>4, <1>5

LEMMA EdgeReadStep ==
    ASSUME KgInv, NEW a \in Actors, NEW t \in Triples, NEW old \in 0..Len(edges), EdgeRead(a, t, old)
    PROVE  Sound /\ KgInv'
<1>1. Sound /\ window' \in Nat
  BY TablesStill DEF EdgeRead
<1> DEFINE hit == IF ActiveEdges(t) = {} THEN 0 ELSE CHOOSE i \in ActiveEdges(t) : TRUE
           c == IF ActiveEdges(t) = {} /\ ~CardinalityAllows(t[1], t[2]) THEN Idle
                ELSE [pc |-> "edge", t |-> t, old |-> old, hit |-> hit]
<1>2. kloc' = [kloc EXCEPT ![a] = c]
  BY DEF EdgeRead, SetCaller
<1>3. hit \in 0..Len(edges)
  <2>1. Len(edges) \in Nat
    BY DEF KgInv, EdgesOk
  <2>2. ActiveEdges(t) \subseteq 1..Len(edges)
    BY DEF ActiveEdges, ActiveIn
  <2>3. QED
    BY <2>1, <2>2
<1>4. CallerOk(c, edges', ents')
  <2> HIDE DEF hit
  <2>1. edges' = edges /\ ents' = ents /\ ents[t[1]].on /\ ents[t[3]].on
    BY DEF EdgeRead
  <2>2. CallerOk([pc |-> "edge", t |-> t, old |-> old, hit |-> hit], edges, ents)
    BY <1>3, <2>1 DEF CallerOk
  <2>3. QED
    BY <2>1, <2>2, IdleOk
<1> HIDE DEF c
<1>5. QED
  BY <1>1, <1>2, <1>4, CallersKept

LEMMA EdgeWriteStep ==
    ASSUME KgInv, NEW a \in Actors, EdgeWrite(a)
    PROVE  Sound /\ KgInv'
<1> DEFINE c == kloc[a]
           new == IF c.hit > 0 THEN c.hit ELSE Len(edges) + 1
           fs == IF c.hit > 0 THEN [edges EXCEPT ![c.hit] = Reinforced(edges[c.hit])]
                 ELSE InsertIn(edges, c.t)[1]
           d == IF c.old > 0 /\ (c.hit > 0 \/ InsertIn(edges, c.t)[2])
                THEN [pc |-> "supersede", old |-> c.old, new |-> new] ELSE Idle
<1>1. /\ c.t \in Triples /\ c.hit \in 0..Len(edges) /\ c.old \in 0..Len(edges)
      /\ ents[c.t[1]].on /\ ents[c.t[3]].on
  BY DEF EdgeWrite, KgInv, CallerOk
<1>2. edges' = fs /\ kloc' = [kloc EXCEPT ![a] = d] /\ ents' = ents /\ window' = window
  BY DEF EdgeWrite, SetCaller
<1>3. EdgesOk(edges, ents, window) /\ window \in Nat /\ Len(edges) \in Nat
  BY DEF KgInv, EdgesOk
<1> HIDE DEF c
<1>4. EdgesOk(fs, ents, window) /\ Grown(edges, fs)
  <2>1. CASE c.hit > 0
    <3>1. c.hit \in 1..Len(edges)
      BY <1>1, <1>3, <2>1
    <3>2. EdgesOk([edges EXCEPT ![c.hit] = Reinforced(edges[c.hit])], ents, window)
          /\ Grown(edges, [edges EXCEPT ![c.hit] = Reinforced(edges[c.hit])])
      BY <1>3, <3>1, ReinforcedOk
    <3>3. QED
      BY <2>1, <3>2
  <2>2. CASE ~(c.hit > 0)
    <3>1. EdgesOk(InsertIn(edges, c.t)[1], ents, window) /\ Grown(edges, InsertIn(edges, c.t)[1])
      BY <1>1, <1>3, InsertOk
    <3>2. QED
      BY <2>2, <3>1
  <2>3. QED
    BY <2>1, <2>2
<1>5. Sound /\ window' \in Nat
  <2> HIDE DEF fs
  <2>1. Wider(ents, ents)
    BY DEF Wider
  <2>2. QED
    BY <1>2, <1>3, <1>4, <2>1 DEF Sound
<1>6. CallerOk(d, edges', ents')
  <2>1. CASE d = Idle
    BY <2>1, IdleOk
  <2>2. CASE c.old > 0 /\ d = [pc |-> "supersede", old |-> c.old, new |-> new]
    <3>1. c.old \in 1..Len(edges') /\ new \in Nat
      <4>1. Len(edges') \in Nat /\ Len(edges) <= Len(edges')
        BY <1>5 DEF Sound, EdgesOk, Grown
      <4>2. QED
        BY <1>1, <1>3, <2>2, <4>1
    <3> HIDE DEF new, d
    <3>2. QED
      BY <2>2, <3>1 DEF CallerOk
  <2>3. QED
    BY <2>1, <2>2
<1> HIDE DEF d
<1>7. QED
  BY <1>2, <1>5, <1>6, CallersKept

LEMMA SupersedeStep ==
    ASSUME KgInv, NEW a \in Actors, SupersedePoint(a)
    PROVE  Sound /\ KgInv'
<1> DEFINE c == kloc[a]
           x == edges[c.old]
           e == [x EXCEPT !.status = "superseded", !.by = c.new]
<1>1. c.old \in 1..Len(edges) /\ c.new \in Nat
  BY DEF SupersedePoint, KgInv, CallerOk
<1>2. x \in EdgeRecord /\ EdgeOk(x, window)
  BY <1>1 DEF KgInv, EdgesOk
<1>3. kloc' = [kloc EXCEPT ![a] = Idle] /\ UNCHANGED <<ents, window>>
  BY DEF SupersedePoint, SetCaller
<1>4. CASE x.status = "active"
  <2>1. edges' = [edges EXCEPT ![c.old] = e]
    BY <1>4 DEF SupersedePoint, SetEdge
  <2> HIDE DEF c, x
  <2>2. e \in EdgeRecord /\ e.t = x.t /\ e.status = "superseded" /\ EdgeOk(e, window) /\ x.by = 0
    BY <1>1, <1>2, <1>4 DEF EdgeRecord, EdgeOk
  <2> HIDE DEF e
  <2>3. Sound /\ window' \in Nat
    BY <1>1, <1>3, <2>1, <2>2, OneEdge DEF x, Kept, SetEdge
  <2>4. QED
    BY <1>3, <2>3, IdleOk, CallersKept
<1>5. CASE x.status # "active"
  <2>1. edges' = edges
    BY <1>5 DEF SupersedePoint
  <2>2. Sound /\ window' \in Nat
    BY <1>3, <2>1, TablesStill
  <2>3. QED
    BY <1>3, <2>2, IdleOk, CallersKept
<1>6. QED
  BY <1>4, <1>5

LEMMA StatusSteps ==
    ASSUME KgInv, NEW a \in Actors, NEW i \in EdgeIds, MarkEdgeStale(a, i) \/ ContradictEdge(a, i)
    PROVE  Sound /\ KgInv'
<1> DEFINE x == edges[i]
<1>1. x \in EdgeRecord /\ EdgeOk(x, window) /\ i \in 1..Len(edges)
  BY DEF KgInv, EdgesOk, EdgeIds
<1>2. UNCHANGED <<ents, window, kloc>>
  BY DEF MarkEdgeStale, ContradictEdge, EdgeOnly
<1>3. PICK e : /\ e = [x EXCEPT !.status = "stale"]
                  \/ e = [x EXCEPT !.status = "stale", !.contra = TRUE]
               /\ edges' = [edges EXCEPT ![i] = e]
  BY DEF MarkEdgeStale, ContradictEdge, SetEdge
<1> HIDE DEF x
<1>4. e \in EdgeRecord /\ e.t = x.t /\ e.status = "stale" /\ EdgeOk(e, window) /\ e.by = x.by
  BY <1>1, <1>3 DEF EdgeRecord, EdgeOk
<1>5. Sound /\ window' \in Nat
  BY <1>1, <1>2, <1>3, <1>4, OneEdge DEF x, Kept, SetEdge
<1>6. QED
  BY <1>2, <1>5, CallersStill

LEMMA FeedbackSteps ==
    ASSUME KgInv, NEW a \in Actors, NEW i \in EdgeIds, EdgeHelpful(a, i) \/ EdgeMisleading(a, i)
    PROVE  Sound /\ KgInv'
<1> DEFINE x == edges[i]
           r == [pc |-> "reinforce", e |-> i]
           f == ReviewFlag(x)
<1>1. x \in EdgeRecord /\ EdgeOk(x, window) /\ i \in 1..Len(edges)
  BY DEF KgInv, EdgesOk, EdgeIds
<1>2. UNCHANGED <<ents, window>> /\ (kloc' = kloc \/ kloc' = [kloc EXCEPT ![a] = r])
  BY DEF EdgeHelpful, EdgeMisleading, EdgeOnly, SetCaller
<1>3. PICK e : /\ e = [x EXCEPT !.pos = x.pos + 1]
                  \/ e = [x EXCEPT !.neg = x.neg + 1, !.flag = f]
               /\ edges' = [edges EXCEPT ![i] = e]
  BY DEF EdgeHelpful, EdgeMisleading, SetEdge
<1>4. f \in BOOLEAN
  <2>1. x.flag \in BOOLEAN
    BY <1>1 DEF EdgeRecord
  <2>2. QED
    BY <2>1 DEF ReviewFlag
<1>5. x.pos + 1 \in Nat /\ x.neg + 1 \in Nat
  BY <1>1 DEF EdgeRecord
<1> HIDE DEF x, f
<1>6. e \in EdgeRecord /\ e.t = x.t /\ e.status = x.status /\ e.by = x.by /\ e.cnt = x.cnt /\ e.last = x.last
  BY <1>1, <1>3, <1>4, <1>5 DEF EdgeRecord
<1>7. EdgeOk(e, window)
  BY <1>1, <1>6 DEF EdgeOk
<1>8. Sound /\ window' \in Nat /\ Len(edges') = Len(edges)
  BY <1>1, <1>2, <1>3, <1>6, <1>7, OneEdge DEF x, Kept, SetEdge
<1>9. CallerOk(r, edges', ents')
  BY <1>1, <1>8 DEF CallerOk
<1> HIDE DEF r
<1>10. QED
  BY <1>2, <1>8, <1>9, CallersStill, CallersKept

LEMMA ReinforceSteps ==
    ASSUME KgInv, NEW a \in Actors, (\E i \in EdgeIds : ReinforceRead(a, i)) \/ ReinforceWrite(a)
    PROVE  Sound /\ KgInv'
<1>1. ASSUME NEW i \in EdgeIds, ReinforceRead(a, i) PROVE Sound /\ KgInv'
  <2> DEFINE r == [pc |-> "reinforce", e |-> i]
  <2>1. Sound /\ window' \in Nat
    BY <1>1, TablesStill DEF ReinforceRead, EdgeOnly
  <2>2. kloc' = [kloc EXCEPT ![a] = r] /\ edges' = edges
    BY <1>1 DEF ReinforceRead, SetCaller
  <2>3. CallerOk(r, edges', ents')
    BY <2>2 DEF CallerOk, EdgeIds
  <2> HIDE DEF r
  <2>4. QED
    BY <2>1, <2>2, <2>3, CallersKept
<1>2. CASE ReinforceWrite(a)
  <2> DEFINE i == kloc[a].e
             fs == [edges EXCEPT ![i] = Reinforced(edges[i])]
  <2>1. i \in 1..Len(edges) /\ EdgesOk(edges, ents, window) /\ window \in Nat
    BY <1>2 DEF ReinforceWrite, KgInv, CallerOk
  <2>2. edges' = fs /\ kloc' = [kloc EXCEPT ![a] = Idle] /\ UNCHANGED <<ents, window>>
    BY <1>2 DEF ReinforceWrite, SetEdge, SetCaller, EdgeOnly
  <2>3. EdgesOk(fs, ents, window) /\ Grown(edges, fs)
    <3> HIDE DEF i
    <3>1. QED
      BY <2>1, ReinforcedOk
  <2> HIDE DEF fs
  <2>4. Sound /\ window' \in Nat
    BY <2>1, <2>2, <2>3 DEF Sound, Wider
  <2>5. QED
    BY <2>2, <2>4, IdleOk, CallersKept
<1>3. QED
  BY <1>1, <1>2

\* What a transaction commits.
LEMMA CommitSound ==
    ASSUME KgInv, NEW db, DbOk(db), Commit(db), UNCHANGED window
    PROVE  Sound /\ window' \in Nat
<1>1. CASE db.ok
  BY <1>1 DEF DbOk, Commit, Sound, KgInv
<1>2. CASE ~db.ok
  <2>1. UNCHANGED <<edges, ents, window>>
    BY <1>2 DEF Commit
  <2>2. QED
    BY <2>1, TablesStill
<1>3. QED
  BY <1>1, <1>2

LEMMA ListsOk == \A r \in EventLists : ListOk(r)
BY KnowledgeGraphAssumption DEF ListOk, SpecOk

LEMMA RecordSteps ==
    ASSUME KgInv, NEW a \in Actors, (\E r \in EventLists : RecordBegin(a, r)) \/ RecordCommit(a)
    PROVE  Sound /\ KgInv'
<1>1. ASSUME NEW r \in EventLists, RecordBegin(a, r) PROVE Sound /\ KgInv'
  <2> DEFINE c == [pc |-> "record", specs |-> r, saw |-> Snapshot]
  <2>1. Sound /\ window' \in Nat
    BY <1>1, TablesStill DEF RecordBegin
  <2>2. kloc' = [kloc EXCEPT ![a] = c] /\ edges' = edges
    BY <1>1 DEF RecordBegin, SetCaller
  <2>3. Snapshot.edges \subseteq 1..Len(edges)
    BY DEF Snapshot, EdgeIds
  <2>4. CallerOk(c, edges', ents')
    BY <2>2, <2>3, ListsOk DEF CallerOk
  <2> HIDE DEF c
  <2>5. QED
    BY <2>1, <2>2, <2>4, CallersKept
<1>2. CASE RecordCommit(a)
  <2> DEFINE specs == kloc[a].specs
             saw == kloc[a].saw
             db == RecordMany(specs, saw)
  <2>1. ListOk(specs) /\ saw.edges \subseteq 1..Len(edges)
    BY <1>2 DEF RecordCommit, KgInv, CallerOk
  <2>2. Commit(db) /\ kloc' = [kloc EXCEPT ![a] = Idle] /\ UNCHANGED window
    BY <1>2 DEF RecordCommit, SetCaller
  <2> HIDE DEF specs, saw
  <2>3. DbOk(db)
    BY <2>1, RecordManyOk DEF KgInv
  <2> HIDE DEF db
  <2>4. Sound /\ window' \in Nat
    BY <2>2, <2>3, CommitSound
  <2>5. QED
    BY <2>2, <2>4, IdleOk, CallersKept
<1>3. QED
  BY <1>1, <1>2

LEMMA PerEventSteps ==
    ASSUME KgInv, NEW a \in Actors,
           \/ \E r \in EventLists : \E bad \in SUBSET (1..Len(r)) : PerEventBegin(a, r, bad)
           \/ PerEventStep(a) \/ PerEventAnswer(a)
    PROVE  Sound /\ KgInv'
<1>1. ASSUME NEW r \in EventLists, NEW bad \in SUBSET (1..Len(r)), PerEventBegin(a, r, bad)
      PROVE  Sound /\ KgInv'
  <2> DEFINE c == [pc |-> "perEvent", specs |-> r, todo |-> (1..Len(r)) \ bad]
  <2>1. Sound /\ window' \in Nat
    BY <1>1, TablesStill DEF PerEventBegin
  <2>2. kloc' = [kloc EXCEPT ![a] = c] /\ edges' = edges
    BY <1>1 DEF PerEventBegin, SetCaller
  <2>3. CallerOk(c, edges', ents')
    BY ListsOk DEF CallerOk
  <2> HIDE DEF c
  <2>4. QED
    BY <2>1, <2>2, <2>3, CallersKept
<1>2. CASE PerEventStep(a)
  <2> DEFINE c == kloc[a]
             first == CHOOSE i \in c.todo : \A j \in c.todo : i <= j
             one == <<c.specs[first]>>
             db == RecordMany(one, Snapshot)
             d == [c EXCEPT !.todo = @ \ {first}]
  <2>1. c.pc = "perEvent" /\ c.todo # {} /\ ListOk(c.specs) /\ c.todo \subseteq 1..Len(c.specs)
    BY <1>2 DEF PerEventStep, KgInv, CallerOk
  <2>2. first \in c.todo
    <3>1. c.todo \in SUBSET Nat
      BY <2>1 DEF ListOk
    <3>2. \E i \in c.todo : \A j \in c.todo : i <= j
      <4> HIDE DEF c
      <4>1. QED
        BY <2>1, <3>1, Least
    <3>3. QED
      BY <3>2
  <2>3. Commit(db) /\ kloc' = [kloc EXCEPT ![a] = d] /\ UNCHANGED window
    BY <1>2 DEF PerEventStep, SetCaller
  <2> HIDE DEF first
  <2>4. ListOk(one)
    <3>1. SpecOk(c.specs[first])
      BY <2>1, <2>2 DEF ListOk
    <3> DEFINE s == c.specs[first]
    <3> HIDE DEF s
    <3>2. Len(<<s>>) = 1 /\ <<s>>[1] = s
      OBVIOUS
    <3>3. QED
      BY <3>1, <3>2 DEF ListOk, s
  <2>5. DbOk(db)
    <3>1. Snapshot.edges \subseteq 1..Len(edges)
      BY DEF Snapshot, EdgeIds
    <3> HIDE DEF one
    <3>2. QED
      BY <2>4, <3>1, RecordManyOk DEF KgInv
  <2> HIDE DEF db
  <2>6. Sound /\ window' \in Nat
    BY <2>3, <2>5, CommitSound
  <2>7. CallerOk(d, edges', ents')
    <3> HIDE DEF c
    <3>1. d.pc = "perEvent" /\ d.specs = c.specs /\ d.todo \subseteq c.todo
      BY <2>1
    <3> HIDE DEF d
    <3>2. QED
      BY <2>1, <3>1 DEF CallerOk
  <2> HIDE DEF d
  <2>8. QED
    BY <2>3, <2>6, <2>7, CallersKept
<1>3. CASE PerEventAnswer(a)
  <2>1. Sound /\ window' \in Nat
    BY <1>3, TablesStill DEF PerEventAnswer
  <2>2. kloc' = [kloc EXCEPT ![a] = Idle]
    BY <1>3 DEF PerEventAnswer, SetCaller
  <2>3. QED
    BY <2>1, <2>2, IdleOk, CallersKept
<1>4. QED
  BY <1>1, <1>2, <1>3

LEMMA QuietSteps ==
    ASSUME KgInv, (\E a \in Actors, p \in Preds, m \in 0..1 : RegisterPredicate(a, p, m)) \/ NextWindow
                  \/ UNCHANGED kgvars
    PROVE  Sound /\ KgInv'
<1>1. kloc' = kloc /\ edges' = edges /\ ents' = ents
  BY DEF RegisterPredicate, NextWindow, kgvars
<1>2. window' \in Nat /\ window <= window'
  BY DEF RegisterPredicate, NextWindow, kgvars, KgInv
<1>3. EdgesOk(edges, ents, window')
  <2>1. \A i \in 1..Len(edges) : edges[i] \in EdgeRecord
    BY DEF KgInv, EdgesOk
  <2>2. \A i \in 1..Len(edges) : edges[i].last \in Int
    BY <2>1 DEF EdgeRecord
  <2>3. \A i \in 1..Len(edges) : EdgeOk(edges[i], window')
    BY <1>2, <2>2 DEF KgInv, EdgesOk, EdgeOk
  <2>4. QED
    BY <2>3 DEF KgInv, EdgesOk
<1>4. Sound
  BY <1>1, <1>3, GrownSame DEF Sound, Wider, EdgesOk
<1>5. QED
  BY <1>1, <1>2, <1>4, CallersStill

LEMMA KgInv_Step == KgInv /\ [KgNext]_kgvars => Sound /\ KgInv'
<1> SUFFICES ASSUME KgInv, [KgNext]_kgvars PROVE Sound /\ KgInv'
  OBVIOUS
<1>1. CASE NextWindow \/ UNCHANGED kgvars
  BY <1>1, QuietSteps
<1>2. ASSUME NEW a \in Actors, NEW n \in Names, NEW aka \in {{}, Names \ {n}}, UpsertEntity(a, n, aka)
      PROVE  Sound /\ KgInv'
  BY <1>2, EntitySteps
<1>3. ASSUME NEW a \in Actors, NEW n \in Names, ResolveEntity(a, n) PROVE Sound /\ KgInv'
  BY <1>3, EntitySteps, {} \in SUBSET Names
<1>4. ASSUME NEW a \in Actors, ResolveCreate(a) PROVE Sound /\ KgInv'
  <2>1. kloc[a].n \in Names
    BY <1>4 DEF ResolveCreate, KgInv, CallerOk
  <2>2. QED
    BY <1>4, <2>1, EntitySteps, {} \in SUBSET Names
<1>5. ASSUME NEW a \in Actors, NEW p \in Preds, NEW m \in 0..1, RegisterPredicate(a, p, m)
      PROVE  Sound /\ KgInv'
  BY <1>5, QuietSteps
<1>6. ASSUME NEW a \in Actors, NEW t \in Triples, NEW old \in 0..Len(edges), EdgeRead(a, t, old)
      PROVE  Sound /\ KgInv'
  BY <1>6, EdgeReadStep
<1>7. ASSUME NEW a \in Actors, NEW i \in EdgeIds,
             \/ MarkEdgeStale(a, i) \/ ContradictEdge(a, i) \/ ReinforceRead(a, i)
             \/ EdgeHelpful(a, i) \/ EdgeMisleading(a, i)
      PROVE  Sound /\ KgInv'
  BY <1>7, StatusSteps, ReinforceSteps, FeedbackSteps
<1>8. ASSUME NEW a \in Actors, NEW r \in EventLists,
             RecordBegin(a, r) \/ \E bad \in SUBSET (1..Len(r)) : PerEventBegin(a, r, bad)
      PROVE  Sound /\ KgInv'
  BY <1>8, RecordSteps, PerEventSteps
<1>9. ASSUME NEW a \in Actors,
             \/ EdgeWrite(a) \/ SupersedePoint(a) \/ ReinforceWrite(a)
             \/ RecordCommit(a) \/ PerEventStep(a) \/ PerEventAnswer(a)
      PROVE  Sound /\ KgInv'
  BY <1>9, EdgeWriteStep, SupersedeStep, ReinforceSteps, RecordSteps, PerEventSteps
<1>10. QED
  BY <1>1, <1>2, <1>3, <1>4, <1>5, <1>6, <1>7, <1>8, <1>9 DEF KgNext

\* Both ends of every edge exist and a triple has at most one active edge.
LEMMA KgInv_Unique == KgInv => ActiveTripleUnique
<1> SUFFICES ASSUME KgInv PROVE ActiveTripleUnique
  OBVIOUS
<1>1. ASSUME NEW t \in Triples PROVE Cardinality(ActiveEdges(t)) <= 1
  <2>1. \A i, j \in ActiveEdges(t) : i = j
    BY DEF ActiveEdges, ActiveIn, KgInv, EdgesOk
  <2>2. CASE ActiveEdges(t) = {}
    BY <2>2, FS_EmptySet
  <2>3. CASE ActiveEdges(t) # {}
    <3>1. PICK i : ActiveEdges(t) = {i}
      BY <2>1, <2>3
    <3>2. Cardinality({i}) = 1
      BY FS_Singleton
    <3>3. QED
      BY <3>1, <3>2
  <2>4. QED
    BY <2>2, <2>3
<1>2. QED
  BY <1>1 DEF ActiveTripleUnique, KgInv, EdgesOk, EdgeIds

\* However upserts, events and supersessions interleave, a triple has at most one
\* active edge and no edge dangles (upsert_edge, _upsert_edges, supersede_edge).
THEOREM OneActiveEdge == KgSpec => []ActiveTripleUnique
<1>1. QED
  BY KgInit_Inv, KgInv_Step, KgInv_Unique, PTL DEF KgSpec

\* An edge is reinforced at most once per 60-second window (REINFORCE_EDGE_SQL).
THEOREM DebounceHolds == KgSpec => []OncePerWindow
<1>1. KgInv => OncePerWindow
  BY DEF KgInv, EdgesOk, EdgeOk, OncePerWindow, EdgeIds
<1>2. QED
  BY <1>1, KgInit_Inv, KgInv_Step, PTL DEF KgSpec

\* No step reopens a closed edge or rewrites its pointer (supersede_edge,
\* mark_edge_stale, contradict_edge and the events).
THEOREM ClosedForGood == KgSpec => ClosedEdgesStayClosed
<1>1. Sound => \A i \in EdgeIds : /\ edges[i].status # "active" => edges'[i].status # "active"
                                  /\ edges[i].by # 0 => edges'[i].by = edges[i].by
  BY DEF Sound, Grown, EdgeIds
<1>2. QED
  BY <1>1, KgInit_Inv, KgInv_Step, PTL DEF KgSpec, ClosedEdgesStayClosed

-----------------------------------------------------------------------------
(***************************************************************************)
(* Explaining a connection: a level of the search holds the names whose    *)
(* shortest path has that length, whatever view of the graph it is given.  *)
(***************************************************************************)
\* The names a path of h edges reaches and no shorter one does.
Layer(view, s, h) == {m \in Names : PathOf(view, s, m, h) /\ \A g \in 0..(h-1) : ~PathOf(view, s, m, g)}

\* The names some path of at most h edges reaches.
Within(view, s, h) == {m \in Names : \E g \in 0..h : PathOf(view, s, m, g)}

\* A path of no edges reaches its own start, and one more edge one more neighbour.
LEMMA NoEdges ==
    ASSUME NEW view, NEW s \in Names, NEW m \in Names
    PROVE  PathOf(view, s, m, 0) <=> m = s
<1>1. ASSUME PathOf(view, s, m, 0) PROVE m = s
  BY <1>1 DEF PathOf
<1>2. ASSUME m = s PROVE PathOf(view, s, m, 0)
  <2> DEFINE w == [i \in 0..0 |-> s]
  <2>1. w \in [0..0 -> Names] /\ w[0] = s /\ \A i \in 1..0 : w[i] \in view[w[i-1]]
    OBVIOUS
  <2> HIDE DEF w
  <2>2. QED
    BY <1>2, <2>1 DEF PathOf
<1>3. QED
  BY <1>1, <1>2

LEMMA OneMoreEdge ==
    ASSUME NEW view, NEW s \in Names, NEW m \in Names, NEW h \in Nat
    PROVE  PathOf(view, s, m, h + 1) <=> \E n \in Names : PathOf(view, s, n, h) /\ m \in view[n]
<1>1. ASSUME PathOf(view, s, m, h + 1)
      PROVE  \E n \in Names : PathOf(view, s, n, h) /\ m \in view[n]
  <2>1. PICK w \in [0..(h+1) -> Names] :
           w[0] = s /\ w[h+1] = m /\ \A i \in 1..(h+1) : w[i] \in view[w[i-1]]
    BY <1>1 DEF PathOf
  <2> DEFINE v == [i \in 0..h |-> w[i]]
  <2>2. h \in 0..(h+1) /\ h + 1 \in 1..(h+1) /\ (h + 1) - 1 = h /\ 0 \in 0..h /\ h \in 0..h
    OBVIOUS
  <2>3. v \in [0..h -> Names] /\ v[0] = s /\ v[h] = w[h]
    BY <2>1, <2>2
  <2>4. ASSUME NEW i \in 1..h PROVE v[i] \in view[v[i-1]]
    <3>1. i \in 0..h /\ i - 1 \in 0..h /\ i \in 1..(h+1)
      OBVIOUS
    <3>2. v[i] = w[i] /\ v[i-1] = w[i-1]
      BY <3>1
    <3>3. QED
      BY <2>1, <3>1, <3>2
  <2> HIDE DEF v
  <2>5. PathOf(view, s, w[h], h)
    BY <2>3, <2>4 DEF PathOf
  <2>6. w[h+1] \in view[w[h]] /\ w[h] \in Names
    BY <2>1, <2>2
  <2>7. QED
    BY <2>1, <2>5, <2>6
<1>2. ASSUME NEW n \in Names, PathOf(view, s, n, h), m \in view[n]
      PROVE  PathOf(view, s, m, h + 1)
  <2>1. PICK w \in [0..h -> Names] :
           w[0] = s /\ w[h] = n /\ \A i \in 1..h : w[i] \in view[w[i-1]]
    BY <1>2 DEF PathOf
  <2> DEFINE v == [i \in 0..(h+1) |-> IF i = h + 1 THEN m ELSE w[i]]
  <2>2. v \in [0..(h+1) -> Names]
    <3>1. \A i \in 0..(h+1) : i # h + 1 => i \in 0..h
      OBVIOUS
    <3>2. QED
      BY <2>1, <3>1
  <2>3. v[0] = s /\ v[h+1] = m
    BY <2>1
  <2>4. ASSUME NEW i \in 1..(h+1) PROVE v[i] \in view[v[i-1]]
    <3>1. CASE i = h + 1
      <4>1. v[i] = m /\ i - 1 = h /\ v[i-1] = w[h]
        BY <3>1
      <4>2. QED
        BY <1>2, <2>1, <4>1
    <3>2. CASE i # h + 1
      <4>1. i \in 1..h /\ i \in 0..(h+1) /\ i - 1 \in 0..(h+1) /\ i - 1 # h + 1
        BY <3>2
      <4>2. v[i] = w[i] /\ v[i-1] = w[i-1]
        BY <3>2, <4>1
      <4>3. QED
        BY <2>1, <4>1, <4>2
    <3>3. QED
      BY <3>1, <3>2
  <2> HIDE DEF v
  <2>5. QED
    BY <2>2, <2>3, <2>4 DEF PathOf
<1>3. QED
  BY <1>1, <1>2

\* The neighbours of a level that were not visited are the next level.
LEMMA NextLevel ==
    ASSUME NEW view \in [Names -> SUBSET Names], NEW s \in Names, NEW h \in Nat
    PROVE  LET new == (UNION {view[n] : n \in Layer(view, s, h)}) \ Within(view, s, h)
           IN  new = Layer(view, s, h + 1) /\ Within(view, s, h) \cup new = Within(view, s, h + 1)
<1> DEFINE reached == UNION {view[n] : n \in Layer(view, s, h)}
           new == reached \ Within(view, s, h)
<1>1. ASSUME NEW m \in new PROVE m \in Layer(view, s, h + 1)
  <2>1. PICK n \in Layer(view, s, h) : m \in view[n]
    OBVIOUS
  <2>2. m \in Names /\ n \in Names /\ PathOf(view, s, n, h)
    BY <2>1 DEF Layer
  <2>3. PathOf(view, s, m, h + 1)
    BY <2>1, <2>2, OneMoreEdge
  <2>4. (h + 1) - 1 = h /\ \A g \in 0..h : ~PathOf(view, s, m, g)
    <3>1. m \notin Within(view, s, h)
      <4> HIDE DEF reached
      <4>1. QED
        OBVIOUS
    <3>2. QED
      BY <2>2, <3>1 DEF Within
  <2>5. QED
    BY <2>2, <2>3, <2>4 DEF Layer
<1>2. ASSUME NEW m \in Layer(view, s, h + 1) PROVE m \in new
  <2>1. m \in Names /\ PathOf(view, s, m, h + 1) /\ \A g \in 0..h : ~PathOf(view, s, m, g)
    <3>1. (h + 1) - 1 = h
      OBVIOUS
    <3>2. QED
      BY <3>1 DEF Layer
  <2>2. PICK n \in Names : PathOf(view, s, n, h) /\ m \in view[n]
    BY <2>1, OneMoreEdge
  <2>3. ASSUME NEW g \in 0..(h-1), PathOf(view, s, n, g) PROVE FALSE
    <3>1. g \in Nat /\ g + 1 \in 0..h
      OBVIOUS
    <3>2. PathOf(view, s, m, g + 1)
      BY <2>1, <2>2, <2>3, <3>1, OneMoreEdge
    <3>3. QED
      BY <2>1, <3>1, <3>2
  <2>4. n \in Layer(view, s, h)
    BY <2>2, <2>3 DEF Layer
  <2>5. m \notin Within(view, s, h)
    BY <2>1 DEF Within
  <2> DEFINE sets == {view[x] : x \in Layer(view, s, h)}
  <2>6. view[n] \in sets
    BY <2>4
  <2>7. m \in reached
    <3> HIDE DEF sets
    <3>1. QED
      BY <2>2, <2>6 DEF sets
  <2> HIDE DEF reached
  <2>8. QED
    BY <2>5, <2>7
<1>3. new = Layer(view, s, h + 1)
  <2> HIDE DEF new
  <2>1. QED
    BY <1>1, <1>2
<1> HIDE DEF new
<1>4. Within(view, s, h) \cup Layer(view, s, h + 1) = Within(view, s, h + 1)
  <2>1. \A g \in 0..(h+1) : g \in 0..h \/ g = h + 1
    OBVIOUS
  <2>2. h + 1 \in 0..(h+1) /\ (h + 1) - 1 = h /\ \A g \in 0..h : g \in 0..(h+1)
    OBVIOUS
  <2>3. QED
    BY <2>1, <2>2 DEF Within, Layer
<1>5. new = Layer(view, s, h + 1) /\ Within(view, s, h) \cup new = Within(view, s, h + 1)
  BY <1>3, <1>4
<1>6. QED
  BY <1>5 DEF new

\* Names reached at all are reached first at one level.
LEMMA FirstReached ==
    ASSUME NEW view, NEW s \in Names, NEW m \in Names, NEW h \in Nat, PathOf(view, s, m, h)
    PROVE  \E g \in 0..h : m \in Layer(view, s, g)
<1> DEFINE Hops == {g \in 0..h : PathOf(view, s, m, g)}
<1>1. Hops \in SUBSET Nat /\ Hops # {}
  OBVIOUS
<1>2. PICK x \in Hops : \A y \in Hops : x <= y
  <2> HIDE DEF Hops
  <2>1. QED
    BY <1>1, Least
<1>3. ASSUME NEW g \in 0..(x-1), PathOf(view, s, m, g) PROVE FALSE
  <2>1. g \in 0..h /\ ~(x <= g)
    OBVIOUS
  <2>2. QED
    BY <1>2, <1>3, <2>1
<1>4. QED
  BY <1>3 DEF Layer

\* The search's queue at step h is level h and what it has visited is all the levels
\* up to h, so the step at which it meets o is the length of a shortest path.
LEMMA ExplainedByTheShortest ==
    ASSUME NEW view \in [Names -> SUBSET Names], NEW s \in Names, NEW o \in Names, NEW mh \in Nat
    PROVE  Shortest(view, s, o, mh, ExplainConnection(view, s, o, mh))
<1> DEFINE first == [queue |-> {s}, visited |-> {s}]
           new(x) == (UNION {view[n] : n \in x.queue}) \ x.visited
           next(x) == [queue |-> new(x), visited |-> x.visited \cup new(x)]
           level(h) == [queue |-> Layer(view, s, h), visited |-> Within(view, s, h)]
           Searches(f) == f = [h \in 0..mh |-> IF h = 0 THEN first ELSE next(f[h-1])]
           levels == [h \in 0..mh |-> level(h)]
<1>1. first = level(0)
  <2>1. Layer(view, s, 0) = {s}
    <3>1. \A g \in 0..(0-1) : FALSE
      OBVIOUS
    <3>2. QED
      BY <3>1, NoEdges DEF Layer
  <2>2. Within(view, s, 0) = {s}
    <3>1. \A g \in 0..0 : g = 0
      OBVIOUS
    <3>2. 0 \in 0..0
      OBVIOUS
    <3>3. QED
      BY <3>1, <3>2, NoEdges DEF Within
  <2>3. QED
    BY <2>1, <2>2
<1>2. ASSUME NEW h \in Nat PROVE next(level(h)) = level(h + 1)
  <2>1. level(h).queue = Layer(view, s, h) /\ level(h).visited = Within(view, s, h)
    OBVIOUS
  <2>2. new(level(h)) = Layer(view, s, h + 1) /\ Within(view, s, h) \cup new(level(h)) = Within(view, s, h + 1)
    BY <2>1, NextLevel
  <2>3. QED
    BY <2>1, <2>2
<1> HIDE DEF first, next, level
<1>3. Searches(levels)
  <2>1. ASSUME NEW h \in 0..mh
        PROVE  levels[h] = IF h = 0 THEN first ELSE next(levels[h-1])
    <3>1. CASE h = 0
      BY <1>1, <3>1
    <3>2. CASE h # 0
      <4>1. h - 1 \in Nat /\ h - 1 \in 0..mh /\ (h - 1) + 1 = h
        BY <3>2
      <4>2. next(level(h-1)) = level(h)
        BY <1>2, <4>1
      <4>3. QED
        BY <3>2, <4>1, <4>2
    <3>3. QED
      BY <3>1, <3>2
  <2>2. QED
    BY <2>1
<1> DEFINE bfs == CHOOSE f : Searches(f)
<1>4. \A h \in 0..mh : bfs[h] = IF h = 0 THEN first ELSE next(bfs[h-1])
  <2>1. Searches(bfs)
    BY <1>3
  <2> HIDE DEF bfs
  <2>2. QED
    BY <2>1
<1> DEFINE found == {h \in 0..mh : o \in bfs[h].queue}
<1>5. ExplainConnection(view, s, o, mh) = IF found = {} THEN -1 ELSE CHOOSE h \in found : TRUE
  BY DEF ExplainConnection, first, next
<1> HIDE DEF bfs
<1>6. \A h \in 0..mh : bfs[h] = level(h)
  <2> DEFINE Bad == {h \in 0..mh : bfs[h] # level(h)}
  <2> SUFFICES ASSUME Bad # {} PROVE FALSE
    OBVIOUS
  <2>1. Bad \in SUBSET Nat
    OBVIOUS
  <2>2. PICK x \in Bad : \A y \in Bad : x <= y
    <3> HIDE DEF Bad
    <3>1. QED
      BY <2>1, Least
  <2>3. x \in 0..mh /\ bfs[x] # level(x)
    OBVIOUS
  <2>4. x # 0
    BY <1>1, <1>4, <2>3
  <2>5. x - 1 \in 0..mh /\ x - 1 \in Nat /\ ~(x <= x - 1) /\ (x - 1) + 1 = x
    BY <2>3, <2>4
  <2>6. bfs[x-1] = level(x-1)
    BY <2>2, <2>5
  <2>7. next(level(x-1)) = level(x)
    BY <1>2, <2>5
  <2>8. QED
    BY <1>4, <2>3, <2>4, <2>6, <2>7
<1>7. found = {h \in 0..mh : o \in Layer(view, s, h)}
  <2>1. ASSUME NEW h \in 0..mh PROVE bfs[h].queue = Layer(view, s, h)
    <3>1. bfs[h] = level(h)
      BY <1>6
    <3>2. QED
      BY <3>1 DEF level
  <2>2. QED
    BY <2>1
<1> HIDE DEF found
<1>8. CASE found = {}
  <2>1. ASSUME NEW h \in 0..mh, PathOf(view, s, o, h) PROVE FALSE
    <3>1. PICK g \in 0..h : o \in Layer(view, s, g)
      BY <2>1, FirstReached
    <3>2. g \in 0..mh
      OBVIOUS
    <3>3. QED
      BY <1>7, <1>8, <3>1, <3>2
  <2>2. ExplainConnection(view, s, o, mh) = -1
    BY <1>5, <1>8
  <2>3. QED
    BY <2>1, <2>2 DEF Shortest
<1>9. CASE found # {}
  <2> DEFINE r == CHOOSE h \in found : TRUE
  <2>1. r \in found
    BY <1>9
  <2> HIDE DEF r
  <2>2. r \in 0..mh /\ o \in Layer(view, s, r)
    BY <1>7, <2>1
  <2>3. r # -1 /\ ExplainConnection(view, s, o, mh) = r
    <3>1. r # -1
      BY <2>2
    <3>2. ExplainConnection(view, s, o, mh) = r
      BY <1>5, <1>9 DEF r
    <3>3. QED
      BY <3>1, <3>2
  <2>4. QED
    BY <2>2, <2>3 DEF Layer, Shortest
<1>10. QED
  BY <1>8, <1>9

\* A path of some edges is a path of more.
LEMMA PathGrows ==
    ASSUME NEW less, NEW more, \A n \in Names : less[n] \subseteq more[n],
           NEW s \in Names, NEW o \in Names, NEW h \in Int, PathOf(less, s, o, h)
    PROVE  PathOf(more, s, o, h)
<1>1. PICK w \in [0..h -> Names] : w[0] = s /\ w[h] = o /\ \A i \in 1..h : w[i] \in less[w[i-1]]
  BY DEF PathOf
<1>2. ASSUME NEW i \in 1..h PROVE w[i] \in more[w[i-1]]
  <2>1. i - 1 \in 0..h
    OBVIOUS
  <2>2. QED
    BY <1>1, <2>1
<1>3. QED
  BY <1>1, <1>2 DEF PathOf

\* What a search sees are edges of the graph, and all of them when no name is crowded.
LEMMA ViewOk ==
    ASSUME NEW view \in Views
    PROVE  /\ view \in [Names -> SUBSET Names]
           /\ \A n \in Names : view[n] \subseteq View(NeighborRows)[n]
           /\ (\A n \in Names : ~Crowded(n)) => view = View(NeighborRows)
<1> DEFINE crowd == {n \in Names : Crowded(n)}
           cut == {r \in NeighborRows : edges[r[1]].t[r[2]] \in crowd}
<1>1. PICK R \in SUBSET cut : view = View((NeighborRows \ cut) \cup R)
  BY DEF Views
<1> DEFINE seen == (NeighborRows \ cut) \cup R
<1>2. seen \subseteq NeighborRows
  OBVIOUS
<1>3. (\A n \in Names : ~Crowded(n)) => seen = NeighborRows
  OBVIOUS
<1>4. view = View(seen)
  BY <1>1
<1> HIDE DEF seen, cut, crowd
<1>5. \A n \in Names : Near(seen, n) \subseteq Near(NeighborRows, n)
  BY <1>2 DEF Near, RowsAt
<1>6. \A R2, n : Near(R2, n) \in SUBSET Names
  BY DEF Near
<1>7. view \in [Names -> SUBSET Names]
  BY <1>4, <1>6 DEF View
<1>8. \A n \in Names : view[n] \subseteq View(NeighborRows)[n]
  BY <1>4, <1>5 DEF View
<1>9. QED
  BY <1>3, <1>4, <1>7, <1>8

\* In every state of the graph, and whatever of their edges crowded names answer
\* with, explain_connection answers with the length of a path that is a shortest
\* one of what it sees, and with none only when there is none within max_hops; it
\* sees the whole graph when no name is crowded (the lemma says it for every max_hops,
\* the property for the two the run tries).
THEOREM ExplainedAlongAShortestPath == KgSpec => []ExplainIsShortest
<1>1. ExplainIsShortest
  <2> DEFINE graph == View(NeighborRows)
             crowded == \E n \in Names : Crowded(n)
  <2>1. ASSUME NEW view \in Views, NEW s \in Names, NEW o \in Names, NEW mh \in 1..2
        PROVE  LET r == ExplainConnection(view, s, o, mh)
               IN /\ Shortest(view, s, o, mh, r)
                  /\ r # -1 => PathOf(graph, s, o, r)
    <3> DEFINE r == ExplainConnection(view, s, o, mh)
    <3>1. Shortest(view, s, o, mh, r)
      <4>1. mh \in Nat /\ view \in [Names -> SUBSET Names]
        BY ViewOk
      <4>2. QED
        BY <4>1, ExplainedByTheShortest
    <3>2. r = -1 \/ r \in Int
      <4>1. r = -1 \/ r \in 0..mh
        BY DEF ExplainConnection
      <4>2. QED
        BY <4>1
    <3> HIDE DEF r, graph
    <3>3. r # -1 => PathOf(graph, s, o, r)
      <4>1. \A n \in Names : view[n] \subseteq graph[n]
        BY ViewOk DEF graph
      <4>2. QED
        BY <3>1, <3>2, <4>1, PathGrows DEF Shortest
    <3>4. QED
      BY <3>1, <3>3 DEF r
  <2>2. ASSUME NEW view \in Views PROVE crowded \/ view = graph
    BY ViewOk
  <2>3. QED
    BY <2>1, <2>2 DEF ExplainIsShortest
<1>2. QED
  BY <1>1, PTL

=============================================================================

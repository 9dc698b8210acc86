--------------------------- MODULE Gateway_proofs ---------------------------
(***************************************************************************)
(* Proofs about Gateway: for every number of projects, requests, replicas  *)
(* and administrator operations, no REST request writes unless the         *)
(* project's credentials allowed it while the request was under way, and   *)
(* a duplicate of a request whose response is stored does not execute.     *)
(***************************************************************************)
EXTENDS Gateway, WellFoundedInduction, TLAPS

\* A non-empty set of naturals has a least element.
LEMMA Least ==
    ASSUME NEW S \in SUBSET Nat, S # {}
    PROVE  \E x \in S : \A y \in S : x <= y
<1>1. PICK x \in S : \A y \in S : ~(<<y, x>> \in OpToRel(<, Nat))
  BY WFMin, NatLessThanWellFounded
<1>2. \A y \in S : ~(y < x)
  <2> SUFFICES ASSUME NEW y \in S, y < x PROVE FALSE
    OBVIOUS
  <2>1. <<y, x>> \in Nat \X Nat /\ <<y, x>>[1] = y /\ <<y, x>>[2] = x
    OBVIOUS
  <2>2. <<y, x>> \in OpToRel(<, Nat)
    BY <2>1 DEF OpToRel
  <2>3. QED
    BY <1>1, <2>2
<1>3. QED
  BY <1>2

Handlers == KeyedHandlers \union UnkeyedHandlers

\* There is a next gate with shared state, or the end.
LEMMA NextSharedOk ==
    ASSUME NEW h, Len(h) \in Nat, NEW i \in 1..(Len(h) + 1)
    PROVE  LET j == NextShared(h, i) IN
           /\ j \in i..(Len(h) + 1)
           /\ \A k \in i..(j - 1) : h[k] \notin Shared
           /\ j = Len(h) + 1 \/ h[j] \in Shared
<1> DEFINE S == {j \in i..(Len(h) + 1) : j = Len(h) + 1 \/ h[j] \in Shared}
<1>1. S \in SUBSET Nat /\ Len(h) + 1 \in S
  OBVIOUS
<1>2. PICK x \in S : \A y \in S : x <= y
  BY <1>1, Least
<1>3. x \in i..(Len(h) + 1) /\ (x = Len(h) + 1 \/ h[x] \in Shared)
  OBVIOUS
<1>4. \A k \in i..(x - 1) : h[k] \notin Shared
  BY <1>1, <1>2
<1>5. QED
  BY <1>3, <1>4 DEF NextShared

(***************************************************************************)
(* The inductive invariant.  A request under way in a deployment with      *)
(* per-tenant tokens is at the credential gate or has passed it: from the  *)
(* first gate nothing with shared state lies before it, and only           *)
(* Authenticate leads past it.  The project's current token is among those *)
(* the request has seen, because every administrator's step adds it.       *)
(***************************************************************************)
Answers == {"", "done", "refused", "failed", "broken", "replayed"}
Request == [pc : Nat \ {0}, h : Handlers, p : Projects \union {NoProject}, cred : Int, rep : Replicas,
            ans : Answers, did : BOOLEAN, rec : BOOLEAN, autoreg : BOOLEAN,
            after : SUBSET Requests, seen : SUBSET Int]
Profile == [on : BOOLEAN, appr : BOOLEAN, tok : Int]

GwType ==
    /\ deploy \in [strict : BOOLEAN, perTenant : BOOLEAN, token : BOOLEAN]
    /\ reg \in [Projects -> Profile] /\ admin \in Nat
    /\ req \in [Requests -> Request \union {Unmade}]

TokIn(r, p) == IF p = NoProject THEN 0 ELSE r[p].tok
AuthorisedIn(dep, c) ==
    \/ c.cred \in c.seen \ {0}
    \/ 0 \in c.seen /\ (c.cred = Global \/ ~dep.token)
RequestIn(dep, r, c) ==
    /\ c.ans = "" => c.pc <= Len(c.h) /\ TokIn(r, c.p) \in c.seen
    /\ dep.perTenant /\ IsRest(c.h) =>
          /\ c.did => AuthorisedIn(dep, c)
          /\ c.ans = "" => (c.pc = 3 /\ ~c.autoreg) \/ AuthorisedIn(dep, c)
Authorised(c) == AuthorisedIn(deploy, c)
RequestOk(c) == RequestIn(deploy, reg, c)

GwInv == GwType /\ \A q \in Requests : req[q] # Unmade => RequestOk(req[q])

LEMMA HandlerOk == ASSUME NEW h \in Handlers
                   PROVE  Len(h) \in Nat /\ (IsRest(h) => Len(h) >= 3 /\ h[1] \notin Shared /\ h[3] = "auth")
BY HandlersAssumption DEF Handlers

LEMMA UnmadeOk == Unmade \notin Request /\ Unmade.pc = 0
BY DEF Unmade, Request

\* The state after a request's step.
LEMMA Became ==
    ASSUME GwInv, NEW q \in Requests, NEW c \in Request, req' = [req EXCEPT ![q] = c], RequestOk(c),
           UNCHANGED <<deploy, admin>>, reg' \in [Projects -> Profile],
           \A p \in Projects \union {NoProject} : TokIn(reg', p) = TokIn(reg, p)
    PROVE  GwInv'
<1>1. GwType'
  BY DEF GwInv, GwType
<1>2. ASSUME NEW x \in Requests, req'[x] # Unmade PROVE RequestIn(deploy', reg', req'[x])
  <2> DEFINE d == req'[x]
  <2>1. d \in Request /\ RequestOk(d)
    <3>1. CASE x = q
      BY <3>1 DEF GwInv, GwType
    <3>2. CASE x # q
      BY <1>2, <3>2 DEF GwInv, GwType
    <3>3. QED
      BY <3>1, <3>2
  <2> HIDE DEF d
  <2>2. TokIn(reg', d.p) = TokIn(reg, d.p)
    BY <2>1 DEF Request
  <2>3. RequestIn(deploy', reg', d)
    BY <2>1, <2>2 DEF RequestOk, RequestIn
  <2>4. QED
    BY <2>3 DEF d
<1>3. QED
  BY <1>1, <1>2 DEF GwInv, RequestOk

\* Walking on from a gate keeps what the request is about.
LEMMA WalkOk ==
    ASSUME NEW c \in Request, NEW i \in 1..(Len(c.h) + 1), NEW d \in Walk(c, i)
    PROVE  /\ d \in Request /\ d.h = c.h /\ d.p = c.p /\ d.cred = c.cred /\ d.seen = c.seen
           /\ d.did = c.did /\ ~d.autoreg
           /\ d.ans = "" => d.pc = NextShared(c.h, i) /\ d.pc <= Len(c.h)
<1> DEFINE h == c.h
           stop == NextShared(h, i)
<1>1. h \in Handlers /\ Len(h) \in Nat
  BY HandlerOk DEF Request
<1>2. stop \in i..(Len(h) + 1) /\ i \in Nat \ {0} /\ stop \in Nat \ {0}
  BY <1>1, NextSharedOk
<1>3. \/ d = [c EXCEPT !.pc = stop, !.autoreg = FALSE, !.ans = IF stop > Len(h) THEN "done" ELSE ""]
      \/ \E a \in {"failed", "refused"} : d = [c EXCEPT !.pc = i, !.autoreg = FALSE, !.ans = a]
  <2> DEFINE no == [c EXCEPT !.pc = i, !.autoreg = FALSE]
  <2>1. \A a : [no EXCEPT !.ans = a] = [c EXCEPT !.pc = i, !.autoreg = FALSE, !.ans = a]
    BY DEF Request
  <2>2. QED
    BY <2>1 DEF Walk
<1> HIDE DEF stop, h
<1>4. CASE d = [c EXCEPT !.pc = stop, !.autoreg = FALSE, !.ans = IF stop > Len(h) THEN "done" ELSE ""]
  <2> DEFINE a == IF stop > Len(h) THEN "done" ELSE ""
  <2>1. a \in Answers /\ (a = "" => stop <= Len(h))
    BY <1>1, <1>2 DEF Answers
  <2>2. d = [c EXCEPT !.pc = stop, !.autoreg = FALSE, !.ans = a]
    BY <1>4
  <2> HIDE DEF a
  <2>3. QED
    BY <1>2, <2>1, <2>2 DEF Request, h, stop
<1>5. ASSUME NEW a \in {"failed", "refused"}, d = [c EXCEPT !.pc = i, !.autoreg = FALSE, !.ans = a]
      PROVE  /\ d \in Request /\ d.h = c.h /\ d.p = c.p /\ d.cred = c.cred /\ d.seen = c.seen
             /\ d.did = c.did /\ ~d.autoreg /\ d.ans # ""
  BY <1>2, <1>5 DEF Request, Answers
<1>6. QED
  BY <1>3, <1>4, <1>5

-----------------------------------------------------------------------------
(* A request's steps.                                                      *)

\* What a step of request q that has passed the credential gate may become.
LEMMA GoOnOk ==
    ASSUME GwInv, NEW q \in Requests, NEW c \in Request, c.pc <= Len(c.h), TokIn(reg, c.p) \in c.seen,
           deploy.perTenant /\ IsRest(c.h) => Authorised(c), GoOn(q, c)
    PROVE  \E d \in Request : req' = [req EXCEPT ![q] = d] /\ RequestOk(d)
<1>1. c.pc + 1 \in 1..(Len(c.h) + 1) /\ Len(c.h) \in Nat
  BY HandlerOk DEF Request
<1>2. PICK d \in Walk(c, c.pc + 1) : req' = [req EXCEPT ![q] = d]
  BY DEF GoOn, Become
<1>3. /\ d \in Request /\ d.h = c.h /\ d.p = c.p /\ d.cred = c.cred /\ d.seen = c.seen
      /\ d.ans = "" => d.pc <= Len(c.h)
  BY <1>1, WalkOk
<1>4. RequestOk(d)
  BY <1>3 DEF RequestOk, RequestIn, Authorised, AuthorisedIn
<1>5. QED
  BY <1>2, <1>3, <1>4

LEMMA AnswerOk ==
    ASSUME NEW q \in Requests, NEW c \in Request, NEW a \in Answers \ {""},
           deploy.perTenant /\ IsRest(c.h) /\ c.did => Authorised(c), Answer(q, c, a)
    PROVE  \E d \in Request : req' = [req EXCEPT ![q] = d] /\ RequestOk(d)
<1> DEFINE d == [c EXCEPT !.ans = a, !.autoreg = FALSE]
<1>1. req' = [req EXCEPT ![q] = d]
  BY DEF Answer, Become
<1>2. d \in Request /\ d.h = c.h /\ d.cred = c.cred /\ d.seen = c.seen /\ d.ans # "" /\ d.did = c.did
  BY DEF Request
<1> HIDE DEF d
<1>3. RequestOk(d)
  BY <1>2 DEF RequestOk, RequestIn, Authorised, AuthorisedIn
<1>4. QED
  BY <1>1, <1>2, <1>3

LEMMA Travels ==
    ASSUME GwInv, NEW q \in Requests, Underway(q)
    PROVE  /\ req[q] \in Request /\ RequestOk(req[q]) /\ req[q].pc <= Len(req[q].h)
           /\ req[q].ans = "" /\ TokIn(reg, req[q].p) \in req[q].seen
<1>1. req[q] # Unmade
  <2> SUFFICES ASSUME req[q] = Unmade PROVE FALSE
    OBVIOUS
  <2>1. req[q].pc = 0
    BY DEF Unmade
  <2>2. req[q].pc > 0
    BY DEF Underway
  <2>3. QED
    BY <2>1, <2>2
<1>2. QED
  BY <1>1 DEF GwInv, GwType, Underway, RequestOk, RequestIn

\* A request past the credential gate is authorised.
LEMMA PassedAuth ==
    ASSUME GwInv, NEW q \in Requests, Underway(q),
           req[q].autoreg \/ \E g \in Shared \ {"auth"} : At(q, g),
           deploy.perTenant, IsRest(req[q].h)
    PROVE  Authorised(req[q])
<1>1. req[q] \in Request /\ RequestOk(req[q]) /\ req[q].ans = ""
  BY Travels
<1>2. req[q].h[3] = "auth"
  BY <1>1, HandlerOk DEF Request
<1>3. QED
  BY <1>1, <1>2 DEF RequestOk, RequestIn, Authorised, At

\* The tokens are the ones the registry holds.
LEMMA RowTok ==
    ASSUME NEW p \in Projects \union {NoProject}
    PROVE  Row(p).tok = TokIn(reg, p)
BY DEF Row, TokIn

LEMMA AuthenticateOk ==
    ASSUME GwInv, NEW q \in Requests, Authenticate(q)
    PROVE  GwInv'
<1> DEFINE c == req[q]
<1>1. Underway(q) /\ UNCHANGED <<deploy, reg, admin>>
  BY DEF Authenticate, At
<1>2. /\ c \in Request /\ RequestOk(c) /\ c.pc <= Len(c.h) /\ c.ans = "" /\ TokIn(reg, c.p) \in c.seen
      /\ c.p \in Projects \union {NoProject}
  BY <1>1, Travels DEF Request
<1>3. \E d \in Request : req' = [req EXCEPT ![q] = d] /\ RequestOk(d)
  <2>1. PICK ok \in AuthVerdict(c) : IF ok THEN GoOn(q, c) ELSE Answer(q, c, "refused")
    BY DEF Authenticate
  <2>2. CASE ok
    <3>1. deploy.perTenant => Authorised(c)
      <4> SUFFICES ASSUME deploy.perTenant PROVE Authorised(c)
        OBVIOUS
      <4>0. c.cred \in Int /\ deploy.token \in BOOLEAN /\ deploy.perTenant
        BY <1>2 DEF Request, GwInv, GwType
      <4>1. CASE c.p = NoProject \/ c.cred = NoCred
        BY <2>1, <2>2, <4>0, <4>1 DEF AuthVerdict
      <4>2. CASE c.p # NoProject /\ c.cred # NoCred /\ Row(c.p).tok = 0
        <5>1. ok \in GlobalVerdict(c.cred) \/ ok = FALSE
          BY <2>1, <4>0, <4>2 DEF AuthVerdict
        <5>2. c.cred = Global \/ ~deploy.token
          BY <2>2, <5>1, <4>0 DEF GlobalVerdict
        <5>3. 0 \in c.seen
          BY <1>2, <4>2, RowTok
        <5>4. QED
          BY <5>2, <5>3 DEF Authorised, AuthorisedIn
      <4>3. CASE c.p # NoProject /\ c.cred # NoCred /\ Row(c.p).tok # 0
        <5>1. ok = (Row(c.p).tok = c.cred) \/ ok = FALSE
          BY <2>1, <4>0, <4>3 DEF AuthVerdict
        <5>2. c.cred = TokIn(reg, c.p) /\ c.cred # 0
          BY <1>2, <2>2, <4>3, <5>1, RowTok DEF NoCred
        <5>3. QED
          BY <1>2, <5>2 DEF Authorised, AuthorisedIn
      <4>4. QED
        BY <4>1, <4>2, <4>3
    <3>2. QED
      BY <1>2, <2>1, <2>2, <3>1, GoOnOk
  <2>3. CASE ~ok
    <3>1. Answer(q, c, "refused") /\ "refused" \in Answers \ {""}
      BY <2>1, <2>3 DEF Answers
    <3>2. deploy.perTenant /\ IsRest(c.h) /\ c.did => Authorised(c)
      BY <1>2 DEF RequestOk, RequestIn, Authorised
    <3>3. QED
      BY <1>2, <3>1, <3>2, AnswerOk
  <2>4. QED
    BY <2>2, <2>3
<1>4. QED
  BY <1>1, <1>3, Became DEF GwInv, GwType

\* A gate after the credential: the request goes on or is answered.
LEMMA PassOk ==
    ASSUME GwInv, NEW q \in Requests, Underway(q),
           req[q].autoreg \/ \E g \in Shared \ {"auth"} : At(q, g),
           NEW c \in Request, c.pc = req[q].pc, c.h = req[q].h, c.p = req[q].p, c.cred = req[q].cred,
           c.seen = req[q].seen,
           GoOn(q, c) \/ \E a \in Answers \ {""} : Answer(q, c, a)
    PROVE  \E d \in Request : req' = [req EXCEPT ![q] = d] /\ RequestOk(d)
<1>1. c.pc <= Len(c.h) /\ TokIn(reg, c.p) \in c.seen
  BY Travels
<1>2. deploy.perTenant /\ IsRest(c.h) => Authorised(c)
  BY PassedAuth DEF Authorised, AuthorisedIn
<1>3. QED
  BY <1>1, <1>2, GoOnOk, AnswerOk

LEMMA Named == {"done", "refused", "failed", "broken", "replayed"} \subseteq Answers \ {""}
BY DEF Answers

\* The store gate on a cached store, or with the registry unread, and the lookup.
LEMMA StoreOk ==
    ASSUME GwInv, NEW q \in Requests, ReuseStore(q) \/ ResolveUnread(q) \/ Lookup(q)
    PROVE  GwInv'
<1>1. /\ \E g \in Shared \ {"auth"} : At(q, g) 
      /\ UNCHANGED <<deploy, reg, admin>>
      /\ GoOn(q, req[q]) \/ \E a \in Answers \ {""} : Answer(q, req[q], a)
  BY Named DEF ReuseStore, ResolveUnread, Lookup, Shared
<1>2. Underway(q)
  BY <1>1 DEF At
<1>3. \E d \in Request : req' = [req EXCEPT ![q] = d] /\ RequestOk(d)
  BY <1>1, <1>2, Travels, PassOk
<1>4. QED
  BY <1>1, <1>3, Became DEF GwInv, GwType

LEMMA ResolveOk ==
    ASSUME GwInv, NEW q \in Requests, Resolve(q)
    PROVE  GwInv'
<1>1. At(q, "store") /\ "store" \in Shared \ {"auth"} /\ UNCHANGED <<deploy, reg, admin>> /\ Underway(q)
  BY DEF Resolve, Shared, At
<1>2. req[q] \in Request /\ RequestOk(req[q])
  BY <1>1, Travels
<1>3. CASE GoOn(q, req[q]) \/ Answer(q, req[q], "refused")
  <2>1. \E d \in Request : req' = [req EXCEPT ![q] = d] /\ RequestOk(d)
    BY <1>1, <1>2, <1>3, PassOk, Named
  <2>2. QED
    BY <1>1, <2>1, Became DEF GwInv, GwType
<1>4. CASE req' = [req EXCEPT ![q].autoreg = TRUE]
  <2> DEFINE d == [req[q] EXCEPT !.autoreg = TRUE]
  <2>1. req' = [req EXCEPT ![q] = d]
    BY <1>2, <1>4 DEF GwInv, GwType
  <2>2. /\ d \in Request /\ d.h = req[q].h /\ d.cred = req[q].cred /\ d.seen = req[q].seen
        /\ d.ans = req[q].ans /\ d.did = req[q].did /\ d.p = req[q].p /\ d.pc = req[q].pc
    BY <1>2 DEF Request
  <2> HIDE DEF d
  <2>3. deploy.perTenant /\ IsRest(d.h) => Authorised(d)
    BY <1>1, <2>2, PassedAuth DEF Authorised, AuthorisedIn
  <2>4. RequestOk(d)
    BY <1>2, <2>2, <2>3 DEF RequestOk, RequestIn, Authorised
  <2>5. QED
    BY <1>1, <2>1, <2>2, <2>4, Became DEF GwInv, GwType
<1>5. QED
  BY <1>3, <1>4 DEF Resolve

\* Registering a project on first use leaves its token alone.
LEMMA AutoRegisterOk ==
    ASSUME GwInv, NEW q \in Requests, AutoRegister(q)
    PROVE  GwInv'
<1> DEFINE p == req[q].p
<1>1. Underway(q) /\ req[q].autoreg /\ GoOn(q, req[q]) /\ UNCHANGED <<deploy, admin>>
      /\ reg' = [reg EXCEPT ![p].on = TRUE, ![p].appr = FALSE]
  BY DEF AutoRegister
<1>2. reg \in [Projects -> Profile]
  BY DEF GwInv, GwType
<1> HIDE DEF p
<1>3. reg' \in [Projects -> Profile] /\ \A x \in Projects : reg'[x].tok = reg[x].tok
  <2>1. CASE p \in Projects
    <3> DEFINE row == [reg[p] EXCEPT !.on = TRUE, !.appr = FALSE]
    <3>1. row \in Profile /\ row.tok = reg[p].tok
      BY <1>2, <2>1 DEF Profile
    <3>2. reg' = [reg EXCEPT ![p] = row]
      BY <1>1, <1>2, <2>1 DEF Profile
    <3> HIDE DEF row
    <3>3. QED
      BY <1>2, <2>1, <3>1, <3>2
  <2>2. CASE p \notin Projects
    BY <1>1, <1>2, <2>2
  <2>3. QED
    BY <2>1, <2>2
<1>4. \A x \in Projects \union {NoProject} : TokIn(reg', x) = TokIn(reg, x)
  BY <1>3 DEF TokIn
<1>5. \E d \in Request : req' = [req EXCEPT ![q] = d] /\ RequestOk(d)
  BY <1>1, Travels, PassOk
<1>6. QED
  BY <1>1, <1>3, <1>4, <1>5, Became

LEMMA AcquireGuardOk ==
    ASSUME GwInv, NEW q \in Requests, AcquireGuard(q)
    PROVE  GwInv'
<1>1. At(q, "guard") /\ "guard" \in Shared \ {"auth"} /\ Underway(q) /\ UNCHANGED <<deploy, reg, admin>>
  BY DEF AcquireGuard, Shared, At
<1> DEFINE c == req[q]
<1>2. c \in Request /\ c.pc <= Len(c.h) /\ TokIn(reg, c.p) \in c.seen
  BY <1>1, Travels
<1>3. c.pc + 1 \in 1..(Len(c.h) + 1)
  BY <1>2, HandlerOk DEF Request
<1>4. PICK d \in Walk(c, c.pc + 1) : req' = [req EXCEPT ![q] = d]
  BY DEF AcquireGuard
<1>5. /\ d \in Request /\ d.h = c.h /\ d.p = c.p /\ d.cred = c.cred /\ d.seen = c.seen
      /\ d.ans = "" => d.pc <= Len(c.h)
  BY <1>2, <1>3, WalkOk
<1>6. RequestOk(d)
  <2>1. deploy.perTenant /\ IsRest(c.h) => Authorised(c)
    BY <1>1, PassedAuth
  <2>2. QED
    BY <1>2, <1>5, <2>1 DEF RequestOk, RequestIn, Authorised, AuthorisedIn
<1>7. QED
  BY <1>1, <1>4, <1>5, <1>6, Became DEF GwInv, GwType

LEMMA ServeOk ==
    ASSUME GwInv, NEW q \in Requests, Serve(q)
    PROVE  GwInv'
<1> DEFINE c == req[q]
<1>1. (\E g \in Shared \ {"auth"} : At(q, g)) /\ Underway(q) /\ UNCHANGED <<deploy, reg, admin>>
  BY DEF Serve, Shared, At
<1>2. c \in Request
  BY <1>1, Travels
<1>3. PICK b \in BOOLEAN : LET e == [c EXCEPT !.did = b] IN
         GoOn(q, e) \/ \E a \in Answers \ {""} : Answer(q, e, a)
  <2>1. c = [c EXCEPT !.did = c.did] /\ c.did \in BOOLEAN
    BY <1>2 DEF Request
  <2>2. CASE GoOn(q, [c EXCEPT !.did = TRUE])
    BY <2>2
  <2>3. CASE GoOn(q, c) \/ Answer(q, c, "failed")
    BY <2>1, <2>3, Named
  <2>4. ASSUME NEW did \in BOOLEAN, Answer(q, [c EXCEPT !.did = @ \/ did], "broken")
        PROVE  \E b \in BOOLEAN : Answer(q, [c EXCEPT !.did = b], "broken")
    <3>1. CASE c.did \/ did
      <4>1. [c EXCEPT !.did = @ \/ did] = [c EXCEPT !.did = TRUE]
        BY <1>2, <3>1 DEF Request
      <4>2. QED
        BY <2>4, <4>1
    <3>2. CASE ~(c.did \/ did)
      <4>1. [c EXCEPT !.did = @ \/ did] = [c EXCEPT !.did = FALSE]
        BY <1>2, <3>2 DEF Request
      <4>2. QED
        BY <2>4, <4>1
    <3>3. QED
      BY <3>1, <3>2
  <2>5. \/ GoOn(q, [c EXCEPT !.did = TRUE]) \/ GoOn(q, c) \/ Answer(q, c, "failed")
        \/ \E did \in BOOLEAN : Answer(q, [c EXCEPT !.did = @ \/ did], "broken")
    BY DEF Serve
  <2>6. QED
    BY <2>2, <2>3, <2>4, <2>5, Named
<1> DEFINE e == [c EXCEPT !.did = b]
<1>4. /\ e \in Request /\ e.pc = c.pc /\ e.h = c.h /\ e.p = c.p /\ e.cred = c.cred /\ e.seen = c.seen
  BY <1>2 DEF Request
<1> HIDE DEF e
<1>5. GoOn(q, e) \/ \E a \in Answers \ {""} : Answer(q, e, a)
  BY <1>3 DEF e
<1>6. \E d \in Request : req' = [req EXCEPT ![q] = d] /\ RequestOk(d)
  BY <1>1, <1>4, <1>5, PassOk
<1>7. QED
  BY <1>1, <1>6, Became DEF GwInv, GwType

LEMMA RecordOk ==
    ASSUME GwInv, NEW q \in Requests, Record(q)
    PROVE  GwInv'
<1> DEFINE c == req[q]
           e == [c EXCEPT !.rec = TRUE]
<1>1. (\E g \in Shared \ {"auth"} : At(q, g)) /\ Underway(q) /\ UNCHANGED <<deploy, reg, admin>>
  BY DEF Record, Shared, At
<1>2. c \in Request
  BY <1>1, Travels
<1>3. /\ e \in Request /\ e.pc = c.pc /\ e.h = c.h /\ e.p = c.p /\ e.cred = c.cred /\ e.seen = c.seen
  BY <1>2 DEF Request
<1>4. Answer(q, e, "done") \/ Answer(q, c, "broken") \/ Answer(q, c, "done")
  BY DEF Record
<1> HIDE DEF e
<1>5. \E d \in Request : req' = [req EXCEPT ![q] = d] /\ RequestOk(d)
  BY <1>1, <1>2, <1>3, <1>4, PassOk, Named
<1>6. QED
  BY <1>1, <1>5, Became DEF GwInv, GwType

-----------------------------------------------------------------------------
(* Arrivals and administrators.                                            *)

\* A request before its first gate.
Fresh(h, p, s, cred, after) ==
    [pc |-> 1, h |-> h, p |-> p, cred |-> cred, rep |-> s, ans |-> "", did |-> FALSE, rec |-> FALSE,
     autoreg |-> FALSE, after |-> after, seen |-> {Row(p).tok}]

LEMMA FreshOk ==
    ASSUME GwInv, NEW h \in Handlers, NEW p \in Projects \union {NoProject}, NEW s \in Replicas,
           NEW cred \in Int, NEW after \in SUBSET Requests
    PROVE  LET c == Fresh(h, p, s, cred, after) IN
           c \in Request /\ c.h = h /\ c.p = p /\ c.seen = {TokIn(reg, p)} /\ ~c.did
<1>1. Row(p).tok = TokIn(reg, p)
  BY RowTok
<1>2. TokIn(reg, p) \in Int
  BY DEF GwInv, GwType, TokIn, Profile
<1>3. QED
  BY <1>1, <1>2 DEF Fresh, Request, Answers

LEMMA ArriveFresh ==
    ASSUME GwInv, NEW q \in Requests, Arrive(q)
    PROVE  \E h \in Handlers, p \in Projects \union {NoProject}, s \in Replicas, cred \in Int,
              after \in SUBSET Requests :
              \E c \in Walk(Fresh(h, p, s, cred, after), 1) : req' = [req EXCEPT ![q] = c]
<1> DEFINE A == {o \in Made : req[o].ans # "" /\ req[o].rec}
           Creds == {NoCred, Global} \union {reg[x].tok : x \in Projects}
<1>1. \E h \in Handlers, p \in Projects \union {NoProject}, s \in Replicas, cred \in Creds :
         \E c \in Walk(Fresh(h, p, s, cred, A), 1) : Become(q, c)
  BY Zenon DEF Arrive, Handlers, Fresh
<1>2. A \in SUBSET Requests
  BY DEF Made
<1>3. Creds \subseteq Int
  <2>1. \A x \in Projects : reg[x].tok \in Int
    BY DEF GwInv, GwType, Profile
  <2>2. NoCred \in Int /\ Global \in Int
    BY DEF NoCred, Global
  <2>3. QED
    BY <2>1, <2>2
<1> HIDE DEF A, Creds
<1>4. QED
  BY <1>1, <1>2, <1>3 DEF Become

\* A REST request stops first at the credential gate.
LEMMA ArriveOk ==
    ASSUME GwInv, NEW q \in Requests, Arrive(q)
    PROVE  GwInv'
<1>1. PICK h \in Handlers, p \in Projects \union {NoProject}, s \in Replicas, cred \in Int,
           after \in SUBSET Requests :
              \E c \in Walk(Fresh(h, p, s, cred, after), 1) : req' = [req EXCEPT ![q] = c]
  BY ArriveFresh
<1> DEFINE c == Fresh(h, p, s, cred, after)
<1>2. PICK d \in Walk(c, 1) : req' = [req EXCEPT ![q] = d]
  BY <1>1
<1>4. c \in Request /\ c.h = h /\ c.p = p /\ c.seen = {TokIn(reg, p)} /\ ~c.did
  BY FreshOk
<1> HIDE DEF c
<1>5. Len(h) \in Nat /\ 1 \in 1..(Len(h) + 1)
  BY HandlerOk
<1>6. /\ d \in Request /\ d.h = h /\ d.p = p /\ d.seen = {TokIn(reg, p)} /\ ~d.did /\ ~d.autoreg
      /\ d.ans = "" => d.pc = NextShared(h, 1) /\ d.pc <= Len(h)
  <2>1. 1 \in 1..(Len(c.h) + 1)
    BY <1>4, <1>5
  <2>2. QED
    <3>1. /\ d \in Request /\ d.h = c.h /\ d.p = c.p /\ d.cred = c.cred /\ d.seen = c.seen
          /\ d.did = c.did /\ ~d.autoreg
          /\ d.ans = "" => d.pc = NextShared(c.h, 1) /\ d.pc <= Len(c.h)
      <4> HIDE DEF c
      <4> QED
        BY <1>4, <2>1, WalkOk, Zenon
    <3>2. QED
      BY <1>4, <3>1
<1>7. IsRest(h) => NextShared(h, 1) = 3
  <2> SUFFICES ASSUME IsRest(h) PROVE NextShared(h, 1) = 3
    OBVIOUS
  <2> DEFINE j == NextShared(h, 1)
  <2>1. Len(h) >= 3 /\ h[1] \notin Shared /\ h[2] \notin Shared /\ h[3] \in Shared
    <3>1. Len(h) >= 3 /\ h[1] \notin Shared /\ h[3] = "auth"
      BY HandlerOk
    <3>2. h[2] = "profile"
      BY DEF IsRest
    <3>3. QED
      BY <3>1, <3>2 DEF Shared
  <2>2. /\ j \in 1..(Len(h) + 1)
        /\ \A k \in 1..(j - 1) : h[k] \notin Shared
        /\ j = Len(h) + 1 \/ h[j] \in Shared
    BY <1>5, NextSharedOk
  <2> HIDE DEF j
  <2>3. j = 3
    BY <1>5, <2>1, <2>2
  <2>4. QED
    BY <2>3 DEF j
<1>8. RequestOk(d)
  BY <1>6, <1>7 DEF RequestOk, RequestIn
<1>9. UNCHANGED <<deploy, reg, admin>>
  BY DEF Arrive
<1>10. QED
  BY <1>2, <1>6, <1>8, <1>9, Became DEF GwInv, GwType

\* An administrator's step shows the project's requests its new token.
LEMMA AdministerOk ==
    ASSUME GwInv, NEW p \in Projects, NEW row \in Profile, Administer(p, row)
    PROVE  GwInv'
<1> DEFINE met(q) == req[q].pc > 0 /\ req[q].p = p /\ req[q].ans = ""
<1>0. GwType
  BY DEF GwInv
<1>1. reg' = [reg EXCEPT ![p] = row] /\ admin' = admin + 1 /\ UNCHANGED deploy
      /\ req' = [q \in Requests |-> IF met(q) THEN [req[q] EXCEPT !.seen = @ \union {row.tok}] ELSE req[q]]
  BY DEF Administer
<1>2. reg' \in [Projects -> Profile] /\ admin' \in Nat
  <2>1. reg' = [reg EXCEPT ![p] = row] /\ admin' = admin + 1
    BY DEF Administer
  <2>2. QED
    BY <1>0, <2>1 DEF GwType
<1>3. row.tok \in Int
  BY DEF Profile
<1>4. ASSUME NEW q \in Requests, req[q] \in Request, met(q)
      PROVE  /\ req'[q] \in Request
             /\ req'[q].pc = req[q].pc /\ req'[q].h = req[q].h /\ req'[q].p = p /\ req'[q].cred = req[q].cred
             /\ req'[q].ans = req[q].ans /\ req'[q].did = req[q].did /\ req'[q].autoreg = req[q].autoreg
             /\ req'[q].seen = req[q].seen \union {row.tok}
  <2> DEFINE d == [req[q] EXCEPT !.seen = req[q].seen \union {row.tok}]
  <2>1. req'[q] = d
    BY <1>1, <1>4
  <2>2. req[q].seen \union {row.tok} \in SUBSET Int
    BY <1>3, <1>4 DEF Request
  <2>3. /\ d \in Request
        /\ d.pc = req[q].pc /\ d.h = req[q].h /\ d.p = req[q].p /\ d.cred = req[q].cred
        /\ d.ans = req[q].ans /\ d.did = req[q].did /\ d.autoreg = req[q].autoreg
        /\ d.seen = req[q].seen \union {row.tok}
    BY <1>4, <2>2 DEF Request
  <2>4. QED
    BY <1>4, <2>1, <2>3
<1>5. \A q \in Requests : ~met(q) => req'[q] = req[q]
  BY <1>1
<1>6. \A q \in Requests : req[q] = Unmade => ~met(q)
  BY DEF Unmade
<1>7. req' \in [Requests -> Request \union {Unmade}]
  <2>1. \A q \in Requests : req'[q] \in Request \union {Unmade}
    BY <1>0, <1>4, <1>5, <1>6 DEF GwType
  <2>2. QED
    BY <1>1, <2>1
<1>8. ASSUME NEW q \in Requests, req'[q] # Unmade PROVE RequestIn(deploy', reg', req'[q])
  <2>1. req[q] \in Request /\ RequestIn(deploy, reg, req[q])
    BY <1>0, <1>5, <1>6, <1>8 DEF GwInv, GwType, RequestOk
  <2>2. TokIn(reg', p) = row.tok /\ \A x \in Projects \union {NoProject} : x # p => TokIn(reg', x) = TokIn(reg, x)
    BY <1>0, <1>1, GatewayAssumption DEF TokIn, GwType
  <2>3. CASE met(q)
    <3> DEFINE c == req[q]
               d == req'[q]
    <3>1. /\ d.pc = c.pc /\ d.h = c.h /\ d.p = p /\ d.cred = c.cred /\ d.ans = c.ans /\ d.did = c.did
          /\ d.autoreg = c.autoreg /\ d.seen = c.seen \union {row.tok}
      BY <1>4, <2>1, <2>3
    <3>2. RequestIn(deploy, reg, c)
      BY <2>1
    <3> HIDE DEF c, d
    <3>3. RequestIn(deploy, reg', d)
      BY <2>2, <3>1, <3>2 DEF RequestIn, AuthorisedIn
    <3>4. QED
      BY <1>1, <3>3 DEF d
  <2>4. CASE ~met(q)
    <3>0. \A c \in Request : c.p \in Projects \union {NoProject} /\ c.pc > 0
      BY DEF Request
    <3>1. req'[q] = req[q] /\ req[q].p \in Projects \union {NoProject} /\ req[q].pc > 0
      BY <1>5, <2>1, <2>4, <3>0
    <3>2. req[q].ans = "" => TokIn(reg', req[q].p) = TokIn(reg, req[q].p)
      BY <2>2, <2>4, <3>1
    <3>3. QED
      BY <1>1, <2>1, <3>1, <3>2 DEF RequestIn
  <2>5. QED
    BY <2>3, <2>4
<1>9. QED
  BY <1>0, <1>1, <1>2, <1>7, <1>8 DEF GwInv, GwType, RequestOk

LEMMA AdminOk ==
    ASSUME GwInv, NEW p \in Projects,
           AdminRegister(p) \/ AdminApprove(p) \/ AdminDelete(p) \/ RotateToken(p) \/ RevokeToken(p)
    PROVE  GwInv'
<1>1. reg[p] \in Profile /\ admin + 1 \in Int
  BY DEF GwInv, GwType
<1>2. /\ \A b \in BOOLEAN : [reg[p] EXCEPT !.on = TRUE, !.appr = b] \in Profile
      /\ [reg[p] EXCEPT !.appr = TRUE] \in Profile
      /\ [on |-> FALSE, appr |-> FALSE, tok |-> 0] \in Profile
      /\ [reg[p] EXCEPT !.tok = admin + 1] \in Profile
      /\ [reg[p] EXCEPT !.tok = 0] \in Profile
  <2>1. \A b \in BOOLEAN : [reg[p] EXCEPT !.on = TRUE, !.appr = b] \in Profile
    BY <1>1 DEF Profile
  <2>2. [reg[p] EXCEPT !.appr = TRUE] \in Profile
    BY <1>1 DEF Profile
  <2>3. [on |-> FALSE, appr |-> FALSE, tok |-> 0] \in Profile
    BY DEF Profile
  <2>4. \A n \in Int : [reg[p] EXCEPT !.tok = n] \in Profile
    BY <1>1 DEF Profile
  <2>5. [reg[p] EXCEPT !.tok = admin + 1] \in Profile /\ [reg[p] EXCEPT !.tok = 0] \in Profile
    <3>1. admin + 1 \in Int /\ 0 \in Int
      BY <1>1
    <3>2. QED
      BY <2>4, <3>1, Zenon
  <2>6. QED
    BY <2>1, <2>2, <2>3, <2>5, Zenon
<1>3. \E row \in Profile : Administer(p, row)
  BY <1>2 DEF AdminRegister, AdminApprove, AdminDelete, RotateToken, RevokeToken
<1>4. QED
  BY <1>3, AdministerOk

LEMMA GwInitOk == GwInit => GwInv
<1> SUFFICES ASSUME GwInit PROVE GwInv
  OBVIOUS
<1>1. reg \in [Projects -> Profile]
  <2> DEFINE R == [on : BOOLEAN, appr : {FALSE}, tok : {0, MaxAdmin + 1}]
  <2>1. {0, MaxAdmin + 1} \subseteq Int
    BY GatewayAssumption
  <2>2. \A x \in R : x \in Profile
    BY <2>1 DEF Profile
  <2>3. reg \in [Projects -> R]
    BY DEF GwInit
  <2> HIDE DEF R
  <2>4. QED
    BY <2>2, <2>3
<1>2. QED
  BY <1>1, GatewayAssumption DEF GwInit, GwInv, GwType

LEMMA GwStepOk == GwInv /\ [GwNext]_gwvars => GwInv'
<1> SUFFICES ASSUME GwInv, [GwNext]_gwvars PROVE GwInv'
  OBVIOUS
<1>1. CASE UNCHANGED gwvars
  BY <1>1 DEF gwvars, GwInv, GwType, RequestOk
<1>2. CASE GwNext
  BY <1>2, ArriveOk, AuthenticateOk, StoreOk, ResolveOk, AutoRegisterOk, AcquireGuardOk, ServeOk, RecordOk,
     AdminOk DEF GwNext, RequestStep
<1>3. QED
  BY <1>1, <1>2

\* With per-tenant tokens every REST write was authorised by a credential that was the
\* project's own, or the deployment's while the project had none, at some moment of the
\* request: whatever administrators rotate, revoke, delete and register meanwhile, and
\* whichever of the handlers it is.
THEOREM WritesAreAuthorised == GwSpec => []CredentialWasValid
<1>1. GwInv => CredentialWasValid
  <2> SUFFICES ASSUME GwInv, NEW q \in Made, req[q].did, deploy.perTenant, IsRest(req[q].h)
               PROVE  Authorised(req[q])
    BY DEF CredentialWasValid, Authorised, AuthorisedIn
  <2>1. q \in Requests /\ req[q] # Unmade
    BY DEF Made, Unmade
  <2>2. QED
    BY <2>1 DEF GwInv, RequestOk, RequestIn, Authorised
<1>2. QED
  BY <1>1, GwInitOk, GwStepOk, PTL DEF GwSpec

(***************************************************************************)
(* Duplicates.  The inductive invariant has a part for each request (what  *)
(* it guards, what it has stored) and a part for each pair of duplicates.  *)
(***************************************************************************)
Before(G, c) == \E i \in 1..Len(c.h) : i < c.pc /\ c.h[i] \in G
Keyed(c) == c.h \in KeyedHandlers
StoredIn(ks, c) == \E k \in ks : k.p = c.p /\ k.op = c.h

GuardType == guards \in [Replicas -> [Projects \union {NoProject} -> Requests \union {Nobody}]]

\* What a request by itself keeps to, its guard and its stored response included.
LoneIn(gs, ks, q, c) ==
    /\ c.rec => c.ans # "" /\ StoredIn(ks, c)
    /\ Keyed(c) /\ (c.did \/ (c.ans = "" /\ Before(Lookups, c))) => c.after = {}
    /\ Keyed(c) /\ IsRest(c.h) /\ c.ans = "" /\ Before({"guard"}, c) => gs[c.rep][c.p] = q
    /\ Keyed(c) /\ IsRest(c.h) /\ c.did =>
          /\ c.ans = "" => c.h[c.pc] = "record" /\ ~c.autoreg
          /\ c.ans \in {"", "broken"} \/ c.rec
    /\ c.ans = "" /\ c.autoreg => c.h[c.pc] = "store"

\* What two duplicates keep to.
Looked(c) == c.rec \/ (c.ans = "" /\ Before(Lookups, c))
Twins(c, e) ==
    /\ c.h = e.h /\ Keyed(c) /\ c.p = e.p
    /\ IsRest(c.h) /\ c.rep = e.rep /\ e.rec => ~Looked(c)

DupInv ==
    /\ GwInv /\ GuardType
    /\ \A q \in Made : LoneIn(guards, kept, q, req[q])
    /\ \A q \in Made : \A o \in req[q].after : o \in Made /\ o # q /\ req[o].rec
    /\ \A q, o \in Made : q # o => Twins(req[q], req[o])

LEMMA MadeIs ==
    ASSUME GwInv, NEW q \in Requests
    PROVE  (q \in Made <=> req[q] # Unmade) /\ (q \in Made => req[q] \in Request)
<1>1. CASE req[q] = Unmade
  BY <1>1 DEF Made, Unmade
<1>2. CASE req[q] # Unmade
  <2>1. req[q] \in Request
    BY <1>2 DEF GwInv, GwType
  <2>2. req[q].pc > 0
    BY <2>1 DEF Request
  <2>3. QED
    BY <1>2, <2>1, <2>2 DEF Made
<1>3. QED
  BY <1>1, <1>2

\* The handlers with a key, in the terms of Before.
LEMMA KeyedGates ==
    ASSUME NEW c \in Request, c.h \in KeyedHandlers, NEW g, c.h[c.pc] = g, c.pc <= Len(c.h)
    PROVE  /\ g \in {"write", "writeAll", "record", "note"} => Before(Lookups, c)
           /\ IsRest(c.h) /\ g \in {"write", "writeAll"} => c.pc < Len(c.h) /\ c.h[c.pc + 1] = "record"
<1> DEFINE h == c.h
           i == c.pc
<1>1. Len(h) \in Nat /\ i \in 1..Len(h)
  BY HandlerOk DEF Request, Handlers
<1>2. /\ h[i] \in {"write", "writeAll", "record", "note"} => \E k \in 1..(i - 1) : h[k] \in Lookups
      /\ IsRest(h) /\ h[i] \in {"write", "writeAll"} => i < Len(h) /\ h[i + 1] = "record"
  BY <1>1, HandlersAssumption
<1>3. ASSUME NEW k \in 1..(i - 1), h[k] \in Lookups PROVE Before(Lookups, c)
  <2>1. k \in 1..Len(h) /\ k < i
    BY <1>1
  <2>2. QED
    BY <1>3, <2>1 DEF Before
<1>4. QED
  BY <1>2, <1>3

LEMMA LookedGuarded ==
    ASSUME NEW c \in Request, c.h \in KeyedHandlers, IsRest(c.h), Before(Lookups, c)
    PROVE  Before({"guard"}, c)
<1>1. Len(c.h) \in Nat /\ c.pc \in Nat
  BY HandlerOk DEF Request, Handlers
<1>2. PICK i \in 1..Len(c.h) : i < c.pc /\ c.h[i] \in Lookups
  BY DEF Before
<1>3. PICK k \in 1..(i - 1) : c.h[k] = "guard"
  BY <1>2, HandlersAssumption
<1>4. k \in 1..Len(c.h) /\ k < c.pc
  BY <1>1, <1>2
<1>5. QED
  BY <1>3, <1>4 DEF Before

\* What walking on leaves of a request.
LEMMA WalkFar ==
    ASSUME NEW c \in Request, NEW i \in 1..(Len(c.h) + 1), NEW d \in Walk(c, i)
    PROVE  /\ d.rep = c.rep /\ d.after = c.after /\ d.rec = c.rec
           /\ d.ans \in {"", "done", "failed", "refused"}
           /\ i <= Len(c.h) /\ c.h[i] \in Shared => d.ans = "" /\ d.pc = i
<1> DEFINE h == c.h
           stop == NextShared(h, i)
           pure == i..(stop - 1)
<1>1. h \in Handlers /\ Len(h) \in Nat
  BY HandlerOk DEF Request
<1>2. stop \in i..(Len(h) + 1) /\ i \in Nat \ {0} /\ (\A k \in pure : h[k] \notin Shared)
  BY <1>1, NextSharedOk
<1>3. \/ d = [c EXCEPT !.pc = stop, !.autoreg = FALSE, !.ans = IF stop > Len(h) THEN "done" ELSE ""]
      \/ \E k \in pure : \E a \in {"failed", "refused"} : d = [c EXCEPT !.pc = i, !.autoreg = FALSE, !.ans = a]
  <2> DEFINE no == [c EXCEPT !.pc = i, !.autoreg = FALSE]
  <2>1. \A a : [no EXCEPT !.ans = a] = [c EXCEPT !.pc = i, !.autoreg = FALSE, !.ans = a]
    BY DEF Request
  <2>2. QED
    BY <2>1 DEF Walk
<1> HIDE DEF stop, h
<1>4. i <= Len(c.h) /\ c.h[i] \in Shared => pure = {} /\ stop = i
  BY <1>1, <1>2 DEF h
<1>5. CASE d = [c EXCEPT !.pc = stop, !.autoreg = FALSE, !.ans = IF stop > Len(h) THEN "done" ELSE ""]
  <2> DEFINE a == IF stop > Len(h) THEN "done" ELSE ""
  <2>1. d = [c EXCEPT !.pc = stop, !.autoreg = FALSE, !.ans = a]
    BY <1>5
  <2>2. a \in {"", "done"} /\ (i <= Len(c.h) /\ c.h[i] \in Shared => a = "" /\ stop = i)
    BY <1>1, <1>2, <1>4 DEF h
  <2> HIDE DEF a
  <2>3. d.rep = c.rep /\ d.after = c.after /\ d.rec = c.rec /\ d.ans = a /\ d.pc = stop
    BY <2>1 DEF Request
  <2>4. QED
    BY <2>2, <2>3
<1>6. ASSUME NEW k \in pure, NEW a \in {"failed", "refused"}, d = [c EXCEPT !.pc = i, !.autoreg = FALSE, !.ans = a]
      PROVE  /\ d.rep = c.rep /\ d.after = c.after /\ d.rec = c.rec /\ d.ans = a
             /\ pure # {}
  BY <1>6 DEF Request
<1>7. QED
  BY <1>3, <1>4, <1>5, <1>6

\* A gate kind that a walk has behind it was behind it before, or is where it began.
LEMMA BeforeWalk ==
    ASSUME NEW c \in Request, c.pc <= Len(c.h), NEW d, d.h = c.h, d.pc = NextShared(c.h, c.pc + 1),
           NEW G \in SUBSET Shared, Before(G, d)
    PROVE  Before(G, c) \/ c.h[c.pc] \in G
<1>1. Len(c.h) \in Nat /\ c.pc \in Nat \ {0} /\ c.pc + 1 \in 1..(Len(c.h) + 1)
  BY HandlerOk DEF Request
<1>2. /\ d.pc \in (c.pc + 1)..(Len(c.h) + 1)
      /\ \A k \in (c.pc + 1)..(d.pc - 1) : c.h[k] \notin Shared
  BY <1>1, NextSharedOk
<1>3. PICK i \in 1..Len(c.h) : i < d.pc /\ c.h[i] \in G
  BY DEF Before
<1>4. ~(i \in (c.pc + 1)..(d.pc - 1))
  BY <1>2, <1>3
<1>5. i < c.pc \/ i = c.pc
  BY <1>1, <1>2, <1>3, <1>4
<1>6. QED
  BY <1>3, <1>5 DEF Before

LEMMA BeforeFirst ==
    ASSUME NEW h \in Handlers, NEW d, d.h = h, d.pc = NextShared(h, 1), NEW G \in SUBSET Shared
    PROVE  ~Before(G, d)
<1>1. Len(h) \in Nat /\ 1 \in 1..(Len(h) + 1)
  BY HandlerOk
<1>2. /\ d.pc \in 1..(Len(h) + 1)
      /\ \A k \in 1..(d.pc - 1) : h[k] \notin Shared
  BY <1>1, NextSharedOk
<1>3. \A i \in 1..Len(h) : i < d.pc => i \in 1..(d.pc - 1)
  BY <1>1, <1>2
<1>4. QED
  BY <1>2, <1>3 DEF Before

-----------------------------------------------------------------------------
Places == Projects \union {NoProject}

\* A step of q that keeps what q is about, gives up no guard of another request and
\* neither stores nor looks while a peer on its replica has done so.
Peers(q) == {o \in Made \ {q} : IsRest(req[q].h) /\ req[o].rep = req[q].rep}
Same(c, d) == d.h = c.h /\ d.p = c.p /\ d.rep = c.rep /\ d.after = c.after
OthersHold(q) == \A o \in Requests \ {q} : \A s \in Replicas : \A p \in Places :
                    guards[s][p] = o => guards'[s][p] = o

LEMMA StoredMore ==
    ASSUME NEW ks, NEW js, ks \subseteq js, NEW c, StoredIn(ks, c)
    PROVE  StoredIn(js, c)
BY DEF StoredIn

LEMMA StepKeeps ==
    ASSUME DupInv, GwInv', GuardType', NEW q \in Requests, q \in Made, NEW d \in Request,
           req' = [req EXCEPT ![q] = d], Same(req[q], d), req[q].rec => d.rec,
           kept \subseteq kept', OthersHold(q), LoneIn(guards', kept', q, d),
           Looked(d) => Looked(req[q]) \/ \A o \in Peers(q) : ~req[o].rec,
           d.rec => req[q].rec \/ \A o \in Peers(q) : ~Looked(req[o])
    PROVE  DupInv'
<1> DEFINE c == req[q]
<1>1. /\ \A o \in Requests : req'[o] = IF o = q THEN d ELSE req[o]
      /\ Made' = Made /\ Made \subseteq Requests
  <2>1. req \in [Requests -> Request \union {Unmade}]
    BY DEF DupInv, GwInv, GwType
  <2>2. \A o \in Requests : req'[o] = IF o = q THEN d ELSE req[o]
    BY <2>1
  <2>3. d.pc > 0
    BY DEF Request
  <2>4. QED
    BY <2>2, <2>3 DEF Made
<1>2. \A o \in Made : o # q => req'[o] = req[o]
  BY <1>1
<1>3. ASSUME NEW o \in Made PROVE LoneIn(guards', kept', o, req'[o])
  <2>1. CASE o = q
    BY <1>1, <2>1
  <2>2. CASE o # q
    <3> DEFINE e == req[o]
    <3>1. req'[o] = e /\ e \in Request /\ LoneIn(guards, kept, o, e) /\ o \in Requests
      BY <1>1, <2>2, MadeIs DEF DupInv
    <3>2. e.rep \in Replicas /\ e.p \in Places
      BY <3>1 DEF Request, Places
    <3> HIDE DEF e
    <3>3. guards[e.rep][e.p] = o => guards'[e.rep][e.p] = o
      BY <2>2, <3>1, <3>2 DEF OthersHold
    <3>4. StoredIn(kept, e) => StoredIn(kept', e)
      BY StoredMore
    <3>5. LoneIn(guards', kept', o, e)
      BY <3>1, <3>3, <3>4 DEF LoneIn
    <3>6. QED
      BY <3>1, <3>5
  <2>3. QED
    BY <2>1, <2>2
<1>4. ASSUME NEW x \in Made, NEW o \in req'[x].after PROVE o \in Made /\ o # x /\ req'[o].rec
  <2>1. o \in req[x].after
    BY <1>1, <1>4 DEF Same
  <2>2. o \in Made /\ o # x /\ req[o].rec
    BY <2>1 DEF DupInv
  <2>3. QED
    BY <1>1, <2>2
<1>5. ASSUME NEW x \in Made, NEW o \in Made, x # o PROVE Twins(req'[x], req'[o])
  <2>1. Twins(req[x], req[o]) /\ Twins(req[o], req[x])
    BY <1>5 DEF DupInv
  <2>2. CASE x # q /\ o # q
    BY <1>2, <2>1, <2>2
  <2>3. CASE x = q
    <3> DEFINE e == req[o]
    <3>1. req'[x] = d /\ req'[o] = e
      BY <1>1, <1>5, <2>3
    <3>2. IsRest(d.h) /\ d.rep = e.rep => o \in Peers(q)
      BY <1>5, <2>3 DEF Peers, Same
    <3>3. Twins(c, e)
      BY <2>1, <2>3
    <3>4. o \in Peers(q) /\ e.rec => ~Looked(d)
      BY <3>3 DEF Twins, Peers
    <3> HIDE DEF e
    <3>5. Twins(d, e)
      BY <3>2, <3>3, <3>4 DEF Twins, Same, Keyed
    <3>6. QED
      BY <3>1, <3>5
  <2>4. CASE o = q
    <3> DEFINE e == req[x]
    <3>1. req'[o] = d /\ req'[x] = e
      BY <1>1, <1>5, <2>4
    <3>2. Twins(e, c)
      BY <2>1, <2>4
    <3>3. e.h = d.h /\ Keyed(e) /\ e.p = d.p
      BY <3>2 DEF Twins, Same
    <3>4. IsRest(e.h) /\ e.rep = d.rep => x \in Peers(q)
      BY <1>5, <2>4, <3>3 DEF Peers, Same
    <3>5. x \in Peers(q) /\ d.rec => ~Looked(e)
      BY <3>2 DEF Twins, Peers
    <3> HIDE DEF e
    <3>6. Twins(e, d)
      BY <3>3, <3>4, <3>5 DEF Twins
    <3>7. QED
      BY <3>1, <3>6
  <2>5. QED
    BY <2>2, <2>3, <2>4
<1>6. QED
  BY <1>1, <1>3, <1>4, <1>5 DEF DupInv

LEMMA GuardsKept ==
    ASSUME GuardType, NEW q \in Requests, NEW d \in Request, guards' = GuardsAfter(q, d)
    PROVE  GuardType' /\ OthersHold(q) /\ (d.ans = "" => guards' = guards)
<1>1. d.rep \in Replicas /\ d.p \in Places
  BY DEF Request, Places
<1>2. guards \in [Replicas -> [Places -> Requests \union {Nobody}]] /\ Nobody \notin Requests
  BY GatewayAssumption DEF GuardType, Places
<1>3. CASE d.ans # "" /\ guards[d.rep][d.p] = q
  <2>1. guards' = [guards EXCEPT ![d.rep][d.p] = Nobody]
    BY <1>3 DEF GuardsAfter
  <2>2. guards' \in [Replicas -> [Places -> Requests \union {Nobody}]]
    BY <1>1, <1>2, <2>1
  <2>3. ASSUME NEW o \in Requests \ {q}, NEW s \in Replicas, NEW p \in Places, guards[s][p] = o
        PROVE  guards'[s][p] = o
    <3>1. guards'[s] = IF s = d.rep THEN [guards[d.rep] EXCEPT ![d.p] = Nobody] ELSE guards[s]
      BY <1>1, <1>2, <2>1
    <3>2. guards[d.rep] \in [Places -> Requests \union {Nobody}]
      BY <1>1, <1>2
    <3>3. s = d.rep => p # d.p
      BY <1>3, <2>3
    <3>4. s = d.rep => [guards[d.rep] EXCEPT ![d.p] = Nobody][p] = guards[d.rep][p]
      BY <3>2, <3>3
    <3>5. QED
      BY <2>3, <3>1, <3>4
  <2>4. QED
    BY <1>3, <2>2, <2>3 DEF OthersHold, GuardType, Places
<1>4. CASE ~(d.ans # "" /\ guards[d.rep][d.p] = q)
  <2>1. guards' = guards
    BY <1>4 DEF GuardsAfter
  <2>2. QED
    BY <2>1 DEF OthersHold, GuardType
<1>5. QED
  BY <1>3, <1>4

\* A stored twin is a stored response for this request.
LEMMA TwinStored ==
    ASSUME DupInv, NEW q \in Made, NEW o \in Made, o # q, req[o].rec
    PROVE  Keyed(req[q]) /\ StoredIn(kept, req[q])
<1>1. Twins(req[q], req[o]) /\ LoneIn(guards, kept, o, req[o])
  BY DEF DupInv
<1>2. QED
  BY <1>1 DEF Twins, LoneIn, StoredIn

LEMMA AnswerKeeps ==
    ASSUME DupInv, GwInv', NEW q \in Requests, Underway(q), NEW e \in Request, Same(req[q], e),
           NEW a \in Answers \ {""}, Answer(q, e, a), kept \subseteq kept',
           e.rec => StoredIn(kept', e) /\ \A o \in Peers(q) : ~Looked(req[o]),
           Keyed(e) /\ e.did => e.after = {},
           Keyed(e) /\ IsRest(e.h) /\ e.did => a = "broken" \/ e.rec
    PROVE  DupInv'
<1> DEFINE d == [e EXCEPT !.ans = a, !.autoreg = FALSE]
<1>1. q \in Made /\ GwInv
  BY DEF Underway, Made, DupInv
<1>2. LoneIn(guards, kept, q, req[q]) /\ req[q].ans = ""
  BY <1>1 DEF DupInv, Underway
<1>3. ~req[q].rec
  BY <1>2 DEF LoneIn
<1>4. req' = [req EXCEPT ![q] = d] /\ guards' = GuardsAfter(q, d)
  BY DEF Answer, Become
<1>5. /\ d \in Request /\ d.h = e.h /\ d.p = e.p /\ d.rep = e.rep /\ d.after = e.after
      /\ d.ans = a /\ d.did = e.did /\ d.rec = e.rec /\ ~d.autoreg
  BY DEF Request
<1> HIDE DEF d
<1>6. GuardType' /\ OthersHold(q)
  BY <1>4, <1>5, GuardsKept DEF DupInv
<1>7. Same(req[q], d) /\ a # ""
  BY <1>5 DEF Same
<1>8. StoredIn(kept', e) => StoredIn(kept', d)
  BY <1>5 DEF StoredIn
<1>9. LoneIn(guards', kept', q, d)
  BY <1>5, <1>7, <1>8 DEF LoneIn, Keyed
<1>10. Looked(d) => \A o \in Peers(q) : ~req[o].rec
  BY <1>5, <1>7 DEF Looked
<1>11. QED
  BY <1>1, <1>3, <1>4, <1>5, <1>6, <1>7, <1>9, <1>10, StepKeeps

\* The gate a request is at, and that its response is stored next.
Gate(c) == c.h[c.pc]
RecordNext(c) == c.pc < Len(c.h) /\ c.h[c.pc + 1] = "record"

LEMMA GoOnFar ==
    ASSUME NEW e \in Request, e.pc <= Len(e.h), NEW d \in Walk(e, e.pc + 1)
    PROVE  /\ d \in Request /\ d.h = e.h /\ d.p = e.p /\ d.rep = e.rep /\ d.after = e.after
           /\ d.did = e.did /\ d.rec = e.rec /\ ~d.autoreg
           /\ d.ans = "" => d.pc = NextShared(e.h, e.pc + 1)
           /\ RecordNext(e) => d.ans = "" /\ Gate(d) = "record"
<1>1. e.h \in Handlers /\ e.pc \in Nat \ {0}
  BY DEF Request
<1>2. Len(e.h) \in Nat /\ e.pc + 1 \in 1..(Len(e.h) + 1)
  BY <1>1, HandlerOk
<1>3. /\ d \in Request /\ d.h = e.h /\ d.p = e.p /\ d.did = e.did /\ ~d.autoreg
      /\ d.ans = "" => d.pc = NextShared(e.h, e.pc + 1)
  BY <1>2, WalkOk
<1>4. /\ d.rep = e.rep /\ d.after = e.after /\ d.rec = e.rec
      /\ e.pc + 1 <= Len(e.h) /\ e.h[e.pc + 1] \in Shared => d.ans = "" /\ d.pc = e.pc + 1
  BY <1>2, WalkFar
<1>5. ASSUME RecordNext(e) PROVE d.ans = "" /\ Gate(d) = "record"
  <2>1. e.pc + 1 <= Len(e.h) /\ e.h[e.pc + 1] = "record"
    BY <1>1, <1>2, <1>5 DEF RecordNext
  <2>2. e.h[e.pc + 1] \in Shared
    BY <2>1 DEF Shared
  <2>3. QED
    BY <1>3, <1>4, <2>1, <2>2 DEF Gate
<1>6. QED
  BY <1>3, <1>4, <1>5

LEMMA GoOnKeeps ==
    ASSUME DupInv, GwInv', NEW q \in Requests, Underway(q), NEW e \in Request, Same(req[q], e),
           e.pc = req[q].pc, ~e.rec, e.ans = "", GoOn(q, e), kept' = kept,
           Gate(e) # "guard",
           Keyed(e) /\ e.did => e.after = {},
           Keyed(e) /\ IsRest(e.h) /\ e.did => RecordNext(e),
           Gate(e) \in Lookups => ~StoredIn(kept, req[q])
    PROVE  DupInv'
<1> DEFINE c == req[q]
<1>1. q \in Made /\ GwInv /\ c \in Request /\ c.pc <= Len(c.h) /\ c.ans = ""
  BY Travels DEF Underway, Made, DupInv
<1>2. LoneIn(guards, kept, q, c)
  BY <1>1 DEF DupInv
<1>3. ~c.rec
  BY <1>1, <1>2 DEF LoneIn
<1>4. PICK d \in Walk(e, e.pc + 1) : req' = [req EXCEPT ![q] = d] /\ guards' = GuardsAfter(q, d)
  BY DEF GoOn, Become
<1>5. e.pc <= Len(e.h)
  BY <1>1 DEF Same
<1>6. /\ d \in Request /\ d.h = e.h /\ d.p = e.p /\ d.rep = e.rep /\ d.after = e.after
      /\ d.did = e.did /\ d.rec = e.rec /\ ~d.autoreg
      /\ d.ans = "" => d.pc = NextShared(e.h, e.pc + 1)
      /\ RecordNext(e) => d.ans = "" /\ Gate(d) = "record"
  BY <1>5, GoOnFar
<1>8. Same(c, d) /\ ~d.rec
  BY <1>6 DEF Same
<1>9. GuardType' /\ OthersHold(q) /\ (d.ans = "" => guards' = guards)
  BY <1>4, <1>6, GuardsKept DEF DupInv
<1>10. ASSUME NEW G \in SUBSET Shared, d.ans = "", Before(G, d) PROVE Before(G, c) \/ Gate(e) \in G
  <2>1. Before(G, e) \/ Gate(e) \in G
    BY <1>5, <1>6, <1>10, BeforeWalk DEF Gate
  <2>2. QED
    BY <2>1 DEF Before, Same
<1>11. Lookups \in SUBSET Shared /\ {"guard"} \in SUBSET Shared /\ "record" \in Shared
  BY DEF Lookups, Shared
<1>12. ASSUME NEW o \in Made \ {q}, Gate(e) \in Lookups PROVE ~req[o].rec
  BY <1>1, <1>12, TwinStored
<1>13. Keyed(d) /\ d.ans = "" /\ Before(Lookups, d) => d.after = {}
  <2> SUFFICES ASSUME Keyed(d), d.ans = "", Before(Lookups, d) PROVE d.after = {}
    OBVIOUS
  <2>1. CASE Before(Lookups, c)
    <3>1. Keyed(c)
      BY <1>8 DEF Same, Keyed
    <3>2. c.after = {}
      BY <1>1, <1>2, <2>1, <3>1 DEF LoneIn
    <3>3. QED
      BY <1>8, <3>2 DEF Same
  <2>2. CASE Gate(e) \in Lookups
    <3>1. \A o \in c.after : o \in Made \ {q} /\ req[o].rec
      BY <1>1 DEF DupInv
    <3>2. c.after = {}
      BY <1>12, <2>2, <3>1
    <3>3. QED
      BY <1>8, <3>2 DEF Same
  <2>3. QED
    BY <1>10, <1>11, <2>1, <2>2
<1>14. Keyed(d) /\ IsRest(d.h) /\ d.ans = "" /\ Before({"guard"}, d) => guards'[d.rep][d.p] = q
  <2> SUFFICES ASSUME Keyed(d), IsRest(d.h), d.ans = "", Before({"guard"}, d) PROVE guards'[d.rep][d.p] = q
    OBVIOUS
  <2>1. Before({"guard"}, c)
    BY <1>10, <1>11
  <2>2. Keyed(c) /\ IsRest(c.h)
    BY <1>8 DEF Same, Keyed
  <2>3. guards[c.rep][c.p] = q
    BY <1>1, <1>2, <2>1, <2>2 DEF LoneIn
  <2>4. QED
    BY <1>8, <1>9, <2>3 DEF Same
<1>15. Keyed(d) /\ IsRest(d.h) /\ d.did => d.ans = "" /\ d.h[d.pc] = "record"
  <2> SUFFICES ASSUME Keyed(d), IsRest(d.h), d.did PROVE d.ans = "" /\ d.h[d.pc] = "record"
    OBVIOUS
  <2>1. RecordNext(e)
    BY <1>6 DEF Keyed
  <2>2. QED
    BY <1>6, <2>1 DEF Gate
<1>16. LoneIn(guards', kept', q, d)
  <2>1. Keyed(d) /\ d.did => d.after = {}
    BY <1>6 DEF Keyed
  <2>2. QED
    BY <1>6, <1>8, <1>13, <1>14, <1>15, <2>1 DEF LoneIn
<1>17. Looked(d) => Looked(c) \/ \A o \in Peers(q) : ~req[o].rec
  <2> SUFFICES ASSUME Looked(d), ~Looked(c) PROVE \A o \in Peers(q) : ~req[o].rec
    OBVIOUS
  <2>1. d.ans = "" /\ Before(Lookups, d)
    BY <1>8 DEF Looked
  <2>2. Gate(e) \in Lookups
    BY <1>1, <1>10, <1>11, <2>1 DEF Looked
  <2>3. QED
    BY <1>12, <2>2 DEF Peers
<1>18. QED
  BY <1>1, <1>3, <1>4, <1>6, <1>8, <1>9, <1>16, <1>17, StepKeeps

LEMMA AtGate ==
    ASSUME DupInv, NEW q \in Requests, Underway(q)
    PROVE  /\ q \in Made /\ req[q] \in Request /\ req[q].ans = "" /\ req[q].pc <= Len(req[q].h)
           /\ ~req[q].rec /\ LoneIn(guards, kept, q, req[q]) /\ Same(req[q], req[q])
           /\ Keyed(req[q]) /\ req[q].did => req[q].after = {}
           /\ Keyed(req[q]) /\ IsRest(req[q].h) /\ req[q].did => Gate(req[q]) = "record" /\ ~req[q].autoreg
           /\ req[q].autoreg => Gate(req[q]) = "store"
<1>1. q \in Made /\ GwInv
  BY DEF Underway, Made, DupInv
<1>2. req[q] \in Request /\ req[q].ans = "" /\ req[q].pc <= Len(req[q].h)
  BY <1>1, Travels
<1>3. LoneIn(guards, kept, q, req[q])
  BY <1>1 DEF DupInv
<1>4. QED
  BY <1>1, <1>2, <1>3 DEF LoneIn, Same, Gate

\* A gate that neither guards, nor looks, nor writes, nor stores.
LEMMA PlainKeeps ==
    ASSUME DupInv, GwInv', NEW q \in Requests, Underway(q), UNCHANGED kept,
           Gate(req[q]) \notin {"guard", "replay", "check", "record"},
           GoOn(q, req[q]) \/ \E a \in Answers \ {""} : Answer(q, req[q], a)
    PROVE  DupInv'
<1> DEFINE c == req[q]
<1>1. /\ c \in Request /\ c.ans = "" /\ ~c.rec /\ Same(c, c)
      /\ Keyed(c) /\ c.did => c.after = {}
      /\ Keyed(c) /\ IsRest(c.h) /\ c.did => Gate(c) = "record"
  BY AtGate
<1>2. Gate(c) \notin Lookups /\ Gate(c) # "guard" /\ ~(Keyed(c) /\ IsRest(c.h) /\ c.did)
  BY <1>1 DEF Lookups
<1>3. CASE GoOn(q, c)
  BY <1>1, <1>2, <1>3, GoOnKeeps
<1>4. ASSUME NEW a \in Answers \ {""}, Answer(q, c, a) PROVE DupInv'
  BY <1>1, <1>2, <1>4, AnswerKeeps
<1>5. QED
  BY <1>3, <1>4

LEMMA AtIsGate == ASSUME NEW q, NEW g, At(q, g) PROVE Gate(req[q]) = g /\ Underway(q)
BY DEF At, Gate

LEMMA FrontKeeps ==
    ASSUME DupInv, GwInv', NEW q \in Requests,
           Authenticate(q) \/ ReuseStore(q) \/ ResolveUnread(q) \/ AutoRegister(q)
    PROVE  DupInv'
<1>1. Underway(q) /\ Gate(req[q]) \in {"auth", "store"} /\ UNCHANGED kept
  <2>1. CASE AutoRegister(q)
    <3>1. Underway(q) /\ req[q].autoreg /\ UNCHANGED kept
      BY <2>1 DEF AutoRegister
    <3>2. QED
      BY <3>1, AtGate
  <2>2. CASE Authenticate(q) \/ ReuseStore(q) \/ ResolveUnread(q)
    BY <2>2, AtIsGate DEF Authenticate, ReuseStore, ResolveUnread
  <2>3. QED
    BY <2>1, <2>2
<1>2. GoOn(q, req[q]) \/ \E a \in Answers \ {""} : Answer(q, req[q], a)
  BY Named DEF Authenticate, ReuseStore, ResolveUnread, AutoRegister
<1>3. QED
  BY <1>1, <1>2, PlainKeeps

LEMMA ResolveKeeps ==
    ASSUME DupInv, GwInv', NEW q \in Requests, Resolve(q)
    PROVE  DupInv'
<1> DEFINE c == req[q]
<1>1. Underway(q) /\ Gate(c) = "store" /\ UNCHANGED kept
  BY AtIsGate DEF Resolve
<1>2. CASE GoOn(q, c) \/ Answer(q, c, "refused")
  BY <1>1, <1>2, Named, PlainKeeps
<1>3. CASE req' = [req EXCEPT ![q].autoreg = TRUE] /\ UNCHANGED guards
  <2> DEFINE d == [c EXCEPT !.autoreg = TRUE]
  <2>1. /\ q \in Made /\ c \in Request /\ c.ans = "" /\ ~c.rec /\ LoneIn(guards, kept, q, c)
        /\ Keyed(c) /\ IsRest(c.h) /\ c.did => Gate(c) = "record"
    BY <1>1, AtGate
  <2>2. req' = [req EXCEPT ![q] = d]
    BY <1>3, <2>1 DEF DupInv, GwInv, GwType
  <2>3. /\ d \in Request /\ d.h = c.h /\ d.p = c.p /\ d.rep = c.rep /\ d.after = c.after
        /\ d.pc = c.pc /\ d.ans = "" /\ d.did = c.did /\ d.rec = c.rec
    BY <2>1 DEF Request
  <2> HIDE DEF d
  <2>4. \A G : Before(G, d) => Before(G, c)
    BY <2>3 DEF Before
  <2>5. ~(Keyed(c) /\ IsRest(c.h) /\ c.did)
    BY <1>1, <2>1
  <2>6. d.h[d.pc] = "store"
    BY <1>1, <2>3 DEF Gate
  <2>7. LoneIn(guards, kept, q, d)
    BY <2>1, <2>3, <2>4, <2>5, <2>6 DEF LoneIn, Keyed
  <2>8. GuardType' /\ OthersHold(q) /\ LoneIn(guards', kept', q, d)
    BY <1>1, <1>3, <2>7 DEF DupInv, GuardType, OthersHold
  <2>9. (Looked(d) => Looked(c)) /\ Same(c, d)
    BY <2>1, <2>3, <2>4 DEF Looked, Same
  <2>10. QED
    BY <1>1, <2>1, <2>2, <2>3, <2>8, <2>9, StepKeeps
<1>4. QED
  BY <1>2, <1>3 DEF Resolve

LEMMA LookupKeeps ==
    ASSUME DupInv, GwInv', NEW q \in Requests, Lookup(q)
    PROVE  DupInv'
<1> DEFINE c == req[q]
<1>1. Underway(q) /\ Gate(c) \in {"replay", "check"} /\ UNCHANGED kept
  BY AtIsGate DEF Lookup
<1>2. /\ c \in Request /\ c.ans = "" /\ ~c.rec /\ Same(c, c)
      /\ Keyed(c) /\ c.did => c.after = {}
      /\ Keyed(c) /\ IsRest(c.h) /\ c.did => Gate(c) = "record"
  BY <1>1, AtGate
<1>3. ~(Keyed(c) /\ IsRest(c.h) /\ c.did) /\ Gate(c) # "guard"
  BY <1>1, <1>2
<1>4. CASE ~StoredIn(kept, c) /\ GoOn(q, c)
  BY <1>1, <1>2, <1>3, <1>4, GoOnKeeps
<1>5. CASE Answer(q, c, "replayed") \/ Answer(q, c, "refused")
  BY <1>1, <1>2, <1>3, <1>5, Named, AnswerKeeps
<1>6. QED
  BY <1>4, <1>5 DEF Lookup, StoredIn

LEMMA ServeKeeps ==
    ASSUME DupInv, GwInv', NEW q \in Requests, Serve(q)
    PROVE  DupInv'
<1> DEFINE c == req[q]
<1>1. Underway(q) /\ Gate(c) \in {"write", "writeAll"} /\ UNCHANGED kept
  BY AtIsGate DEF Serve
<1>2. /\ q \in Made /\ c \in Request /\ c.ans = "" /\ ~c.rec /\ Same(c, c) /\ c.pc <= Len(c.h)
      /\ LoneIn(guards, kept, q, c)
  BY <1>1, AtGate
<1>3. Keyed(c) => c.after = {} /\ (IsRest(c.h) => RecordNext(c))
  BY <1>1, <1>2, KeyedGates DEF LoneIn, Keyed, Gate, RecordNext
<1>4. CASE GoOn(q, c) \/ Answer(q, c, "failed")
  BY <1>1, <1>4, Named, PlainKeeps
<1>5. ASSUME NEW e, \/ e = [c EXCEPT !.did = TRUE]
                    \/ \E b \in BOOLEAN : e = [c EXCEPT !.did = c.did \/ b],
             GoOn(q, e) \/ Answer(q, e, "broken")
      PROVE  DupInv'
  <2>1. PICK b \in BOOLEAN : e = [c EXCEPT !.did = b]
    BY <1>2, <1>5 DEF Request
  <2>2. /\ e \in Request /\ e.h = c.h /\ e.p = c.p /\ e.rep = c.rep /\ e.after = c.after
        /\ e.pc = c.pc /\ e.ans = "" /\ ~e.rec
    BY <1>2, <2>1 DEF Request
  <2>3. Same(c, e) /\ Gate(e) = Gate(c) /\ (Keyed(e) <=> Keyed(c)) /\ (RecordNext(e) <=> RecordNext(c))
    BY <2>2 DEF Same, Gate, Keyed, RecordNext
  <2>4. Keyed(e) => e.after = {} /\ (IsRest(e.h) => RecordNext(e))
    BY <1>3, <2>2, <2>3
  <2>5. Gate(e) \notin Lookups /\ Gate(e) # "guard"
    BY <1>1, <2>3 DEF Lookups
  <2>6. CASE GoOn(q, e)
    BY <1>1, <2>2, <2>3, <2>4, <2>5, <2>6, GoOnKeeps
  <2>7. CASE Answer(q, e, "broken")
    BY <1>1, <2>2, <2>3, <2>4, <2>7, Named, AnswerKeeps
  <2>8. QED
    BY <1>5, <2>6, <2>7
<1>6. \/ GoOn(q, [c EXCEPT !.did = TRUE]) \/ GoOn(q, c) \/ Answer(q, c, "failed")
      \/ \E b \in BOOLEAN : Answer(q, [c EXCEPT !.did = c.did \/ b], "broken")
  BY DEF Serve
<1>7. QED
  BY <1>4, <1>5, <1>6

LEMMA AcquireKeeps ==
    ASSUME DupInv, GwInv', NEW q \in Requests, AcquireGuard(q)
    PROVE  DupInv'
<1> DEFINE c == req[q]
<1>1. Underway(q) /\ Gate(c) = "guard" /\ UNCHANGED kept /\ guards[c.rep][c.p] = Nobody
  BY AtIsGate DEF AcquireGuard
<1>2. /\ q \in Made /\ c \in Request /\ c.ans = "" /\ ~c.rec /\ Same(c, c) /\ c.pc <= Len(c.h)
      /\ LoneIn(guards, kept, q, c)
      /\ Keyed(c) /\ c.did => c.after = {}
      /\ Keyed(c) /\ IsRest(c.h) /\ c.did => Gate(c) = "record"
  BY <1>1, AtGate
<1>3. PICK d \in Walk(c, c.pc + 1) :
         /\ req' = [req EXCEPT ![q] = d]
         /\ guards' = IF d.ans = "" THEN [guards EXCEPT ![d.rep][d.p] = q] ELSE guards
  BY DEF AcquireGuard
<1>4. /\ d \in Request /\ d.h = c.h /\ d.p = c.p /\ d.rep = c.rep /\ d.after = c.after
      /\ d.did = c.did /\ d.rec = c.rec /\ ~d.autoreg
      /\ d.ans = "" => d.pc = NextShared(c.h, c.pc + 1)
  BY <1>2, GoOnFar
<1>5. GuardType' /\ OthersHold(q) /\ (d.ans = "" => guards'[d.rep][d.p] = q)
  <2>1. d.rep \in Replicas /\ d.p \in Places
    BY <1>4 DEF Request, Places
  <2>2. guards \in [Replicas -> [Places -> Requests \union {Nobody}]] /\ Nobody \notin Requests
    BY GatewayAssumption DEF DupInv, GuardType, Places
  <2>3. CASE d.ans = ""
    <3>1. guards' = [guards EXCEPT ![d.rep][d.p] = q]
      BY <1>3, <2>3
    <3>2. guards' \in [Replicas -> [Places -> Requests \union {Nobody}]] /\ guards'[d.rep][d.p] = q
      BY <2>1, <2>2, <3>1
    <3>3. ASSUME NEW o \in Requests \ {q}, NEW s \in Replicas, NEW p \in Places, guards[s][p] = o
          PROVE  guards'[s][p] = o
      <4>1. guards'[s] = IF s = d.rep THEN [guards[d.rep] EXCEPT ![d.p] = q] ELSE guards[s]
        BY <2>1, <2>2, <3>1
      <4>2. s = d.rep => p # d.p
        BY <1>1, <1>4, <2>2, <3>3
      <4>3. s = d.rep => [guards[d.rep] EXCEPT ![d.p] = q][p] = guards[d.rep][p]
        BY <2>1, <2>2, <4>2
      <4>4. QED
        BY <3>3, <4>1, <4>3
    <3>4. QED
      BY <3>2, <3>3 DEF OthersHold, GuardType, Places
  <2>4. CASE d.ans # ""
    <3>1. guards' = guards
      BY <1>3, <2>4
    <3>2. QED
      BY <2>4, <3>1 DEF OthersHold, GuardType, DupInv
  <2>5. QED
    BY <2>3, <2>4
<1>6. d.ans = "" /\ Before(Lookups, d) => Before(Lookups, c)
  <2>1. Lookups \in SUBSET Shared /\ Gate(c) \notin Lookups
    BY <1>1 DEF Lookups, Shared
  <2>2. QED
    BY <1>2, <1>4, <2>1, BeforeWalk DEF Gate
<1>7. ~(Keyed(c) /\ IsRest(c.h) /\ c.did) /\ (Keyed(d) <=> Keyed(c)) /\ Same(c, d)
  BY <1>1, <1>2, <1>4 DEF Keyed, Same
<1>8. LoneIn(guards', kept', q, d)
  <2>1. Keyed(c) /\ (c.did \/ Before(Lookups, c)) => c.after = {}
    BY <1>2 DEF LoneIn
  <2>2. Keyed(d) /\ (d.did \/ (d.ans = "" /\ Before(Lookups, d))) => d.after = {}
    BY <1>4, <1>6, <1>7, <2>1
  <2>3. QED
    BY <1>2, <1>4, <1>5, <1>7, <2>2 DEF LoneIn
<1>9. Looked(d) => Looked(c)
  BY <1>2, <1>4, <1>6 DEF Looked
<1>10. QED
  BY <1>1, <1>2, <1>3, <1>4, <1>5, <1>7, <1>8, <1>9, StepKeeps

LEMMA RecordKeeps ==
    ASSUME DupInv, GwInv', NEW q \in Requests, Record(q)
    PROVE  DupInv'
<1> DEFINE c == req[q]
           e == [c EXCEPT !.rec = TRUE]
<1>1. Underway(q) /\ Gate(c) \in {"record", "note"}
  BY AtIsGate DEF Record
<1>2. /\ q \in Made /\ c \in Request /\ c.ans = "" /\ ~c.rec /\ Same(c, c) /\ c.pc <= Len(c.h)
      /\ LoneIn(guards, kept, q, c)
      /\ Keyed(c) /\ c.did => c.after = {}
      /\ Keyed(c) /\ IsRest(c.h) /\ c.did => Gate(c) = "record" /\ ~c.autoreg
  BY <1>1, AtGate
<1>3. CASE /\ kept' = IF StoredIn(kept, c) THEN kept ELSE kept \union {[p |-> c.p, op |-> c.h, by |-> q]}
           /\ Answer(q, e, "done")
  <2>1. kept \subseteq kept' /\ StoredIn(kept', c)
    <3>1. CASE StoredIn(kept, c)
      BY <1>3, <3>1
    <3>2. CASE ~StoredIn(kept, c)
      <4>1. [p |-> c.p, op |-> c.h, by |-> q] \in kept' /\ kept \subseteq kept'
        BY <1>3, <3>2
      <4>2. QED
        BY <4>1 DEF StoredIn
    <3>3. QED
      BY <3>1, <3>2
  <2>2. /\ e \in Request /\ e.h = c.h /\ e.p = c.p /\ e.rep = c.rep /\ e.after = c.after
        /\ e.did = c.did /\ e.rec
    BY <1>2 DEF Request
  <2> HIDE DEF e
  <2>3. Same(c, e) /\ (Keyed(e) <=> Keyed(c)) /\ StoredIn(kept', e)
    BY <2>1, <2>2 DEF Same, Keyed, StoredIn
  <2>4. ASSUME NEW o \in Peers(q) PROVE ~Looked(req[o])
    <3> DEFINE f == req[o]
    <3>1. o \in Made /\ o # q /\ IsRest(c.h) /\ f.rep = c.rep
      BY DEF Peers
    <3>2. Twins(c, f) /\ Twins(f, c) /\ f \in Request /\ o \in Requests
      BY <1>2, <3>1, MadeIs DEF DupInv, Made
    <3>3. c.h \in KeyedHandlers /\ Before(Lookups, c)
      <4>1. c.h \in KeyedHandlers
        BY <3>2 DEF Twins, Keyed
      <4>2. QED
        BY <1>1, <1>2, <4>1, KeyedGates DEF Gate
    <3>4. ~f.rec
      BY <1>2, <3>1, <3>2, <3>3 DEF Twins, Looked
    <3>5. ASSUME f.ans = "", Before(Lookups, f) PROVE FALSE
      <4>1. f.h = c.h /\ f.p = c.p
        BY <3>2 DEF Twins
      <4>2. Before({"guard"}, c)
        BY <1>2, <3>1, <3>3, LookedGuarded
      <4>3. guards[c.rep][c.p] = q
        BY <1>2, <3>1, <3>3, <4>2 DEF LoneIn, Keyed
      <4>4. Before({"guard"}, f)
        BY <3>1, <3>2, <3>3, <3>5, <4>1, LookedGuarded
      <4>5. LoneIn(guards, kept, o, f)
        BY <3>1 DEF DupInv
      <4> HIDE DEF f
      <4>6. guards[f.rep][f.p] = o
        BY <3>1, <3>3, <3>5, <4>1, <4>4, <4>5 DEF LoneIn, Keyed
      <4>7. QED
        BY <3>1, <4>1, <4>3, <4>6
    <3>6. QED
      BY <3>4, <3>5 DEF Looked
  <2>5. Keyed(e) /\ e.did => e.after = {}
    BY <1>2, <2>2, <2>3
  <2>6. QED
    BY <1>1, <1>3, <2>1, <2>2, <2>3, <2>4, <2>5, Named, AnswerKeeps
<1>4. CASE UNCHANGED kept /\ Answer(q, c, IF At(q, "record") THEN "broken" ELSE "done")
  <2> DEFINE a == IF At(q, "record") THEN "broken" ELSE "done"
  <2>1. a \in Answers \ {""}
    BY Named
  <2>2. Keyed(c) /\ IsRest(c.h) /\ c.did => a = "broken"
    BY <1>1, <1>2 DEF At, Gate
  <2>3. Answer(q, c, a)
    BY <1>4
  <2> HIDE DEF a
  <2>4. QED
    BY <1>1, <1>2, <1>4, <2>1, <2>2, <2>3, AnswerKeeps
<1>5. QED
  BY <1>3, <1>4 DEF Record, StoredIn

\* An administrator's step changes nothing a request's duplicates depend on.
Alike(c, d) ==
    /\ d.pc = c.pc /\ d.h = c.h /\ d.p = c.p /\ d.rep = c.rep /\ d.ans = c.ans /\ d.after = c.after
    /\ (d.did <=> c.did) /\ (d.rec <=> c.rec) /\ (d.autoreg <=> c.autoreg)

LEMMA AlikeKeeps ==
    ASSUME DupInv, GwInv', UNCHANGED <<guards, kept>>, \A q \in Requests : Alike(req[q], req'[q]) \/ req'[q] = req[q]
    PROVE  DupInv'
<1>1. Made' = Made /\ GuardType'
  BY DEF Made, Alike, DupInv, GuardType
<1>2. ASSUME NEW q \in Made
      PROVE  /\ LoneIn(guards, kept, q, req'[q])
             /\ req'[q].after = req[q].after /\ (req'[q].rec <=> req[q].rec)
  <2>0. q \in Requests /\ LoneIn(guards, kept, q, req[q])
    BY DEF Made, DupInv
  <2> DEFINE c == req[q]
             d == req'[q]
  <2>1. CASE d = c
    BY <2>0, <2>1
  <2>2. CASE Alike(c, d)
    <3> HIDE DEF c, d
    <3>1. \A G : Before(G, d) <=> Before(G, c)
      BY <2>2 DEF Alike, Before
    <3>2. StoredIn(kept, d) <=> StoredIn(kept, c)
      BY <2>2 DEF Alike, StoredIn
    <3>3. LoneIn(guards, kept, q, c)
      BY <2>0 DEF c
    <3>4. LoneIn(guards, kept, q, d)
      BY <2>2, <3>1, <3>2, <3>3 DEF Alike, LoneIn, Keyed
    <3>5. QED
      BY <2>2, <3>4 DEF Alike, c, d
  <2>3. QED
    BY <2>0, <2>1, <2>2
<1>3. ASSUME NEW q \in Made, NEW o \in Made, q # o PROVE Twins(req'[q], req'[o])
  <2> DEFINE c == req[q]
             d == req'[q]
             e == req[o]
             f == req'[o]
  <2>0. q \in Requests /\ o \in Requests /\ Twins(c, e)
    BY <1>3 DEF Made, DupInv
  <2>1. /\ d.h = c.h /\ d.p = c.p /\ d.rep = c.rep /\ (Looked(d) <=> Looked(c))
    <3>1. CASE d = c
      BY <3>1
    <3>2. CASE Alike(c, d)
      <4> HIDE DEF c, d
      <4>1. Before(Lookups, d) <=> Before(Lookups, c)
        BY <3>2 DEF Alike, Before
      <4>2. QED
        BY <3>2, <4>1 DEF Alike, Looked
    <3>3. QED
      BY <2>0, <3>1, <3>2
  <2>2. f.h = e.h /\ f.p = e.p /\ f.rep = e.rep /\ (f.rec <=> e.rec)
    BY <2>0 DEF Alike
  <2> HIDE DEF c, d, e, f
  <2>3. Twins(d, f)
    BY <2>0, <2>1, <2>2 DEF Twins, Keyed
  <2>4. QED
    BY <2>3 DEF d, f
<1>4. ASSUME NEW q \in Made, NEW o \in req'[q].after PROVE o \in Made /\ o # q /\ req'[o].rec
  <2>1. o \in req[q].after
    BY <1>2, <1>4
  <2>2. o \in Made /\ o # q /\ req[o].rec
    BY <2>1 DEF DupInv
  <2>3. QED
    BY <1>2, <2>2
<1>5. QED
  BY <1>1, <1>2, <1>3, <1>4 DEF DupInv

LEMMA AdminKeeps ==
    ASSUME DupInv, GwInv', NEW p \in Projects,
           AdminRegister(p) \/ AdminApprove(p) \/ AdminDelete(p) \/ RotateToken(p) \/ RevokeToken(p)
    PROVE  DupInv'
<1>1. PICK row : Administer(p, row)
  BY DEF AdminRegister, AdminApprove, AdminDelete, RotateToken, RevokeToken
<1>2. UNCHANGED <<guards, kept>>
  BY <1>1 DEF Administer
<1>3. ASSUME NEW q \in Requests PROVE Alike(req[q], req'[q]) \/ req'[q] = req[q]
  <2> DEFINE met == req[q].pc > 0 /\ req[q].p = p /\ req[q].ans = ""
             d == [req[q] EXCEPT !.seen = @ \union {row.tok}]
  <2>1. req'[q] = IF met THEN d ELSE req[q]
    BY <1>1 DEF Administer
  <2>2. met => req[q] \in Request
    BY MadeIs DEF DupInv, Made
  <2>3. req[q] \in Request => Alike(req[q], d)
    BY DEF Request, Alike
  <2>4. QED
    BY <2>1, <2>2, <2>3
<1>4. QED
  BY <1>2, <1>3, AlikeKeeps

\* What a new request is as it reaches its first gate.
Arrived(c, h, p, A) ==
    /\ c \in Request /\ c.h = h /\ c.p = p /\ ~c.did /\ ~c.rec /\ ~c.autoreg
    /\ c.after = A
    /\ c.ans = "" => c.pc = NextShared(h, 1)

LEMMA FirstWalk ==
    ASSUME NEW c \in Request, NEW d \in Walk(c, 1), ~c.did, ~c.rec
    PROVE  Arrived(d, c.h, c.p, c.after)
<1>1. Len(c.h) \in Nat /\ 1 \in 1..(Len(c.h) + 1)
  BY HandlerOk DEF Request
<1>2. /\ d \in Request /\ d.h = c.h /\ d.p = c.p /\ d.did = c.did /\ ~d.autoreg
      /\ d.ans = "" => d.pc = NextShared(c.h, 1)
  BY <1>1, WalkOk
<1>3. d.after = c.after /\ d.rec = c.rec
  BY <1>1, WalkFar
<1>4. ~d.did /\ ~d.rec
  BY <1>2, <1>3
<1>5. QED
  BY <1>2, <1>3, <1>4 DEF Arrived

LEMMA FreshFar ==
    ASSUME GwInv, NEW h \in Handlers, NEW p \in Projects \union {NoProject}, NEW s \in Replicas,
           NEW cred \in Int, NEW after \in SUBSET Requests, NEW d \in Walk(Fresh(h, p, s, cred, after), 1)
    PROVE  Arrived(d, h, p, after)
<1> DEFINE c == Fresh(h, p, s, cred, after)
<1>1. c \in Request /\ c.h = h /\ c.p = p /\ c.seen = {TokIn(reg, p)} /\ ~c.did
  BY FreshOk
<1>2. c.after = after /\ ~c.rec
  BY DEF Fresh
<1>3. d \in Walk(c, 1)
  OBVIOUS
<1> HIDE DEF c
<1>4. Arrived(d, c.h, c.p, c.after)
  BY <1>1, <1>2, <1>3, FirstWalk, Zenon
<1>5. QED
  BY <1>1, <1>2, <1>4

LEMMA Arrives ==
    ASSUME GwInv, NEW q \in Requests, Arrive(q)
    PROVE  \E h \in Handlers, p \in Places, d \in Request :
              /\ Arrived(d, h, p, {o \in Made : req[o].ans # "" /\ req[o].rec})
              /\ \A o \in Made : h \in KeyedHandlers /\ req[o].h = h /\ req[o].p = p
              /\ req' = [req EXCEPT ![q] = d] /\ guards' = GuardsAfter(q, d)
<1> DEFINE A == {o \in Made : req[o].ans # "" /\ req[o].rec}
           Creds == {NoCred, Global} \union {reg[x].tok : x \in Projects}
           Same3(h, p) == \A o \in Made : h \in KeyedHandlers /\ req[o].h = h /\ req[o].p = p
<1>1. PICK h \in Handlers, p \in Projects \union {NoProject}, s \in Replicas, cred \in Creds :
         Same3(h, p) /\ \E d \in Walk(Fresh(h, p, s, cred, A), 1) : Become(q, d)
  BY Zenon DEF Arrive, Handlers, Fresh
<1>2. A \in SUBSET Requests
  BY DEF Made
<1>3. Creds \subseteq Int
  <2>1. \A x \in Projects : reg[x].tok \in Int
    BY DEF GwInv, GwType, Profile
  <2>2. NoCred \in Int /\ Global \in Int
    BY DEF NoCred, Global
  <2>3. QED
    BY <2>1, <2>2
<1> HIDE DEF A, Creds, Same3
<1>4. cred \in Int
  BY <1>3
<1>5. PICK d \in Walk(Fresh(h, p, s, cred, A), 1) : Become(q, d)
  BY <1>1
<1>6. Arrived(d, h, p, A)
  BY <1>2, <1>4, FreshFar, Zenon
<1>7. d \in Request
  BY <1>6 DEF Arrived
<1>8. req' = [req EXCEPT ![q] = d] /\ guards' = GuardsAfter(q, d)
  BY <1>5, Zenon DEF Become
<1>9. Same3(h, p)
  BY <1>1
<1>10. QED
  BY <1>6, <1>7, <1>8, <1>9, Zenon DEF A, Same3, Places

\* A request that arrives has looked for nothing and holds nothing.
LEMMA ArriveKeeps ==
    ASSUME DupInv, GwInv', NEW q \in Requests, Arrive(q)
    PROVE  DupInv'
<1> DEFINE A == {o \in Made : req[o].ans # "" /\ req[o].rec}
<1>1. GwInv /\ GuardType /\ q \notin Made /\ UNCHANGED kept
  BY MadeIs DEF DupInv, Arrive
<1>2. PICK h \in Handlers, p \in Places, d \in Request :
         /\ Arrived(d, h, p, A)
         /\ \A o \in Made : h \in KeyedHandlers /\ req[o].h = h /\ req[o].p = p
         /\ req' = [req EXCEPT ![q] = d] /\ guards' = GuardsAfter(q, d)
  BY <1>1, Arrives, Zenon
<1>4. d.h = h /\ d.p = p /\ ~d.did /\ ~d.rec /\ ~d.autoreg /\ d.after = A
  BY <1>2 DEF Arrived
<1>8. d.ans = "" => ~Before(Lookups, d) /\ ~Before({"guard"}, d)
  <2>1. Lookups \in SUBSET Shared /\ {"guard"} \in SUBSET Shared
    BY DEF Lookups, Shared
  <2>2. d.ans = "" => d.pc = NextShared(h, 1)
    BY <1>2 DEF Arrived
  <2>3. QED
    BY <1>4, <2>1, <2>2, BeforeFirst
<1>9. GuardType' /\ OthersHold(q)
  BY <1>1, <1>2, GuardsKept
<1>10. LoneIn(guards', kept', q, d) /\ ~Looked(d) /\ ~d.rec
  BY <1>4, <1>8 DEF LoneIn, Looked
<1>11. /\ \A o \in Requests : req'[o] = IF o = q THEN d ELSE req[o]
       /\ Made' = Made \union {q} /\ Made \subseteq Requests
  <2>1. req \in [Requests -> Request \union {Unmade}]
    BY <1>1 DEF GwInv, GwType
  <2>2. \A o \in Requests : req'[o] = IF o = q THEN d ELSE req[o]
    BY <1>2, <2>1
  <2>3. d.pc > 0
    BY DEF Request
  <2>4. Made \subseteq Requests /\ Made' \subseteq Requests
    BY DEF Made
  <2>5. ASSUME NEW o \in Requests PROVE o \in Made' <=> o \in Made \/ o = q
    <3>1. CASE o = q
      BY <2>2, <2>3, <3>1 DEF Made
    <3>2. CASE o # q
      BY <2>2, <3>2 DEF Made
    <3>3. QED
      BY <3>1, <3>2
  <2>6. QED
    BY <2>2, <2>4, <2>5
<1>12. ASSUME NEW o \in Made PROVE o # q /\ req'[o] = req[o] /\ LoneIn(guards', kept', o, req[o])
  <2>1. o # q /\ o \in Requests
    BY <1>1, <1>11
  <2>2. req[o] \in Request /\ LoneIn(guards, kept, o, req[o])
    BY <1>1, <2>1, MadeIs DEF DupInv
  <2> DEFINE e == req[o]
  <2>3. e.rep \in Replicas /\ e.p \in Places
    BY <2>2 DEF Request, Places
  <2> HIDE DEF e
  <2>4. guards[e.rep][e.p] = o => guards'[e.rep][e.p] = o
    BY <1>9, <2>1, <2>3 DEF OthersHold
  <2>5. LoneIn(guards', kept', o, e)
    BY <1>1, <2>2, <2>4 DEF LoneIn, e
  <2>6. QED
    BY <1>11, <2>1, <2>5 DEF e
<1>13. ASSUME NEW o \in Made PROVE Twins(d, req[o]) /\ Twins(req[o], d)
  <2>1. req[o].h = d.h /\ req[o].p = d.p /\ Keyed(d) /\ Keyed(req[o])
    BY <1>2, <1>4 DEF Keyed
  <2>2. QED
    BY <1>10, <2>1 DEF Twins
<1>14. ASSUME NEW x \in Made', NEW o \in req'[x].after PROVE o \in Made' /\ o # x /\ req'[o].rec
  <2>1. CASE x = q
    <3>1. o \in A
      BY <1>4, <1>11, <1>14, <2>1
    <3>2. o \in Made /\ req[o].rec
      BY <3>1
    <3>3. QED
      BY <1>11, <1>12, <2>1, <3>2
  <2>2. CASE x # q
    <3>1. x \in Made /\ o \in req[x].after
      BY <1>11, <1>12, <1>14, <2>2
    <3>2. o \in Made /\ o # x /\ req[o].rec
      BY <3>1 DEF DupInv
    <3>3. QED
      BY <1>11, <1>12, <3>2
  <2>3. QED
    BY <2>1, <2>2
<1>15. ASSUME NEW x \in Made', NEW o \in Made', x # o PROVE Twins(req'[x], req'[o])
  <2>1. CASE x \in Made /\ o \in Made
    BY <1>12, <1>15, <2>1 DEF DupInv
  <2>2. CASE x = q /\ o \in Made
    BY <1>11, <1>12, <1>13, <2>2
  <2>3. CASE o = q /\ x \in Made
    BY <1>11, <1>12, <1>13, <2>3
  <2>4. QED
    BY <1>11, <1>15, <2>1, <2>2, <2>3
<1>16. ASSUME NEW x \in Made' PROVE LoneIn(guards', kept', x, req'[x])
  BY <1>10, <1>11, <1>12, <1>16
<1>17. QED
  BY <1>9, <1>14, <1>15, <1>16 DEF DupInv

LEMMA DupInitOk == GwInit => DupInv
<1> SUFFICES ASSUME GwInit PROVE DupInv
  OBVIOUS
<1>1. GwInv
  BY GwInitOk
<1>2. Made = {}
  BY DEF GwInit, Made, Unmade
<1>3. GuardType
  BY DEF GwInit, GuardType
<1>4. QED
  BY <1>1, <1>2, <1>3 DEF DupInv

LEMMA DupStepOk == DupInv /\ [GwNext]_gwvars => DupInv'
<1> SUFFICES ASSUME DupInv, [GwNext]_gwvars PROVE DupInv'
  OBVIOUS
<1>1. GwInv'
  BY GwStepOk DEF DupInv
<1>2. CASE UNCHANGED gwvars
  BY <1>1, <1>2, AlikeKeeps DEF gwvars
<1>3. CASE GwNext
  BY <1>1, <1>3, ArriveKeeps, FrontKeeps, ResolveKeeps, LookupKeeps, ServeKeeps, AcquireKeeps, RecordKeeps,
     AdminKeeps DEF GwNext, RequestStep
<1>4. QED
  BY <1>2, <1>3

\* For any number of requests, projects and replicas: a duplicate that arrives when a
\* response is stored does not execute, and of two REST duplicates on one replica that
\* both executed, one stored, the other was answered 503 because its own response could
\* not be - cached stores, administrators and failures at any gate in between included.
THEOREM DuplicatesAreHeld == GwSpec => []DuplicatesExecuteOnce
<1>1. DupInv => DuplicatesExecuteOnce
  <2> SUFFICES ASSUME DupInv, NEW q \in Made, NEW o \in Made, q # o, req[q].did, req[o].did, req[o].rec
               PROVE  /\ o \notin req[q].after
                      /\ IsRest(req[q].h) /\ req[q].rep = req[o].rep => req[q].ans = "broken"
    BY DEF DuplicatesExecuteOnce
  <2> DEFINE c == req[q]
  <2>1. LoneIn(guards, kept, q, c) /\ Twins(c, req[o]) /\ q \in Requests /\ DupInv
    BY DEF DupInv, Made
  <2>2. Keyed(c)
    BY <2>1 DEF Twins
  <2>3. c.after = {}
    BY <2>1, <2>2 DEF LoneIn
  <2>4. ASSUME IsRest(c.h), c.rep = req[o].rep PROVE c.ans = "broken"
    <3>1. ~Looked(c)
      BY <2>1, <2>4 DEF Twins
    <3>2. c.ans \in {"", "broken"}
      BY <2>1, <2>2, <2>4, <3>1 DEF LoneIn, Looked
    <3>3. CASE c.ans = ""
      <4>1. Underway(q)
        BY <3>3 DEF Underway, Made
      <4>2. c \in Request /\ c.pc <= Len(c.h) /\ (Keyed(c) /\ IsRest(c.h) /\ c.did => Gate(c) = "record")
        BY <2>1, <4>1, AtGate
      <4> HIDE DEF c
      <4>5. c.did
        BY DEF c
      <4>6. c.h[c.pc] = "record" /\ c.h \in KeyedHandlers
        BY <2>2, <2>4, <4>2, <4>5 DEF Keyed, Gate
      <4>3. Before(Lookups, c)
        BY <4>2, <4>6, KeyedGates
      <4>4. QED
        BY <3>1, <3>3, <4>3 DEF Looked
    <3>4. QED
      BY <3>2, <3>3
  <2>5. QED
    BY <2>3, <2>4
<1>2. QED
  BY <1>1, DupInitOk, DupStepOk, PTL DEF GwSpec

=============================================================================

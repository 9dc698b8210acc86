---------------------------- MODULE Memory_proofs ----------------------------
(***************************************************************************)
(* Proofs about what becomes of documents, of memory rows, of relayed      *)
(* documents imported again, of the asynchronous store's cache, and of a   *)
(* memory that fades and is collected.                                     *)
(***************************************************************************)
EXTENDS Documents, Lifecycle, Relay, AsyncFacade, TierDynamics, FiniteSetTheorems, TLAPS

-----------------------------------------------------------------------------
(* Documents.  The calls that are under way work on different documents (an    *)
(* identity is handed out once), and each knows what state its document is in  *)
(* unless somebody deleted it: not there yet, pending without chunks, or       *)
(* pending with the chunks its status will promise.                            *)

\* A document and its chunks.
DocIn(r, ch) ==
  \/ r = NoDoc /\ ch = << >>
  \/ /\ r \in DocRows
     /\ r.status = "indexed" => ch = chunked[r.text]
     /\ r.status \in {"none", "error"} => ch = << >>
     /\ ch # << >> => r.text.safe

UnderWay(c) == c.pc \in {"store", "index", "status"}

\* What a call that is under way may rely on, the row being r and its chunks ch.
CallIn(c, r, ch) ==
  /\ c.pc = "store" => r = NoDoc /\ c.text \in Texts /\ c.expires \in Nat \cup {Forever}
  /\ c.pc = "index" =>
       r = NoDoc \/ (r.text = c.text /\ c.text.safe /\ r.status = "pending" /\ ch = << >>)
  /\ c.pc = "status" =>
       /\ c.status \in {"error", "indexed"}
       /\ r = NoDoc \/ (r.text = c.text /\ c.text.safe /\ r.status = "pending"
                        /\ ch = IF c.status = "indexed" THEN chunked[c.text] ELSE << >>)

IsCall(c) == DOMAIN c = {"pc", "id", "text", "expires", "index", "status", "answer"}

\* The inductive invariant.
DocInv ==
  /\ DOMAIN docs = DocIds /\ DOMAIN chunks = DocIds /\ DOMAIN put = Putters
  /\ used \subseteq DocIds /\ day \in Nat
  /\ \A d \in DocIds : DocIn(docs[d], chunks[d]) /\ (docs[d] # NoDoc => d \in used)
  /\ \A p \in Putters :
       IsCall(put[p]) /\ (UnderWay(put[p]) =>
         put[p].id \in used /\ CallIn(put[p], docs[put[p].id], chunks[put[p].id]))
  /\ \A p, q \in Putters :
       UnderWay(put[p]) /\ UnderWay(put[q]) /\ put[p].id = put[q].id => p = q

\* A transaction of one call: it changes no other document, and what it leaves
\* is what the call may rely on next.
LEMMA OneCallSteps ==
  ASSUME DocInv, NEW p \in Putters, NEW c, UnderWay(put[p]), put' = [put EXCEPT ![p] = c],
         UNCHANGED <<used, day>>, DOMAIN docs' = DocIds, DOMAIN chunks' = DocIds,
         \A d \in DocIds \ {put[p].id} : docs'[d] = docs[d] /\ chunks'[d] = chunks[d],
         DocIn(docs'[put[p].id], chunks'[put[p].id]),
         IsCall(c),
         UnderWay(c) => c.id = put[p].id /\ CallIn(c, docs'[c.id], chunks'[c.id])
  PROVE  DocInv'
<1>1. DOMAIN put' = Putters /\ put'[p] = c /\ \A q \in Putters \ {p} : put'[q] = put[q]
  BY DEF DocInv
<1>2. put[p].id \in used /\ used \subseteq DocIds
  BY DEF DocInv
<1>3. ASSUME NEW d \in DocIds
      PROVE  DocIn(docs'[d], chunks'[d]) /\ (docs'[d] # NoDoc => d \in used)
  BY <1>2 DEF DocInv
<1>4. ASSUME NEW q \in Putters
      PROVE  IsCall(put'[q]) /\ (UnderWay(put'[q]) =>
               put'[q].id \in used /\ CallIn(put'[q], docs'[put'[q].id], chunks'[put'[q].id]))
  <2>1. CASE q = p
    BY <1>1, <1>2, <2>1
  <2>2. CASE q # p
    <3>1. IsCall(put[q]) /\ put'[q] = put[q]
      BY <1>1, <2>2 DEF DocInv
    <3>2. ASSUME UnderWay(put[q])
          PROVE  /\ put[q].id \in used
                 /\ CallIn(put[q], docs'[put[q].id], chunks'[put[q].id])
      <4>1. put[q].id \in used /\ CallIn(put[q], docs[put[q].id], chunks[put[q].id])
        BY <3>2 DEF DocInv
      <4>2. put[q].id # put[p].id
        BY <2>2, <3>2 DEF DocInv
      <4>3. docs'[put[q].id] = docs[put[q].id] /\ chunks'[put[q].id] = chunks[put[q].id]
        BY <1>2, <4>1, <4>2
      <4> QED
        BY <4>1, <4>3
    <3> QED
      BY <3>1, <3>2
  <2> QED
    BY <2>1, <2>2
<1>5. ASSUME NEW q \in Putters, NEW r \in Putters,
             UnderWay(put'[q]), UnderWay(put'[r]), put'[q].id = put'[r].id
      PROVE  q = r
  <2>1. UnderWay(put[q]) /\ put[q].id = put'[q].id
    BY <1>1, <1>5
  <2>2. UnderWay(put[r]) /\ put[r].id = put'[r].id
    BY <1>1, <1>5
  <2> QED
    BY <1>5, <2>1, <2>2 DEF DocInv
<1>6. used' = used /\ day' \in Nat
  BY DEF DocInv
<1> QED
  BY <1>1, <1>2, <1>3, <1>4, <1>5, <1>6 DEF DocInv, UnderWay, CallIn, DocIn, IsCall

\* A call begins: its identity was never used, so there is no such document.
LEMMA ValidateKeepsDocs ==
  ASSUME DocInv, NEW p \in Putters, NEW text \in Texts, NEW expires \in {Forever, day + 1},
         NEW index \in BOOLEAN, Validate(p, text, expires, index)
  PROVE  DocInv'
<1>1. /\ docs' = docs /\ chunks' = chunks /\ day' = day
      /\ DOMAIN put = Putters /\ used \subseteq DocIds /\ used # DocIds /\ day \in Nat
  BY DEF Validate, DocInv
<1>2. expires \in Nat \cup {Forever}
  BY <1>1
<1>3. PICK c : /\ put' = [put EXCEPT ![p] = c] /\ IsCall(c)
               /\ \/ c.pc = "answered" /\ used' = used
                  \/ /\ c.pc = "store" /\ c.text = text /\ c.expires = expires
                     /\ c.id \in DocIds \ used /\ used' = used \cup {c.id}
  <2>1. CASE Cardinality(Stored) >= MaxDocs
    <3> DEFINE c == [NoPut EXCEPT !.pc = "answered", !.answer = "limit"]
    <3>1. put' = [put EXCEPT ![p] = c] /\ used' = used
      BY <2>1 DEF Validate
    <3>2. IsCall(c) /\ c.pc = "answered"
      BY DEF IsCall, NoPut
    <3> QED
      BY <3>1, <3>2
  <2>2. CASE ~(Cardinality(Stored) >= MaxDocs)
    <3> DEFINE d == CHOOSE x \in DocIds : x \notin used
               c == [NoPut EXCEPT !.pc = "store", !.id = d, !.text = text,
                                  !.expires = expires, !.index = index]
    <3>1. put' = [put EXCEPT ![p] = c] /\ used' = used \cup {d}
      BY <2>2 DEF Validate
    <3>2. d \in DocIds \ used
      BY <1>1
    <3> HIDE DEF d
    <3>3. IsCall(c) /\ c.pc = "store" /\ c.text = text /\ c.expires = expires /\ c.id = d
      BY DEF IsCall, NoPut
    <3> QED
      BY <3>1, <3>2, <3>3
  <2> QED
    BY <2>1, <2>2
<1>4. put'[p] = c /\ DOMAIN put' = Putters /\ \A q \in Putters \ {p} : put'[q] = put[q]
  BY <1>1, <1>3
<1>5. used \subseteq used' /\ used' \subseteq DocIds
  BY <1>1, <1>3
<1>6. ASSUME NEW q \in Putters
      PROVE  IsCall(put'[q]) /\ (UnderWay(put'[q]) =>
               put'[q].id \in used' /\ CallIn(put'[q], docs[put'[q].id], chunks[put'[q].id]))
  <2>1. CASE q = p /\ c.pc = "answered"
    BY <1>3, <1>4, <2>1 DEF UnderWay
  <2>2. CASE q = p /\ c.pc # "answered"
    <3>1. docs[c.id] = NoDoc /\ c.id \in used'
      BY <1>3, <2>2 DEF DocInv
    <3>2. CallIn(c, docs[c.id], chunks[c.id])
      BY <1>2, <1>3, <2>2, <3>1 DEF CallIn
    <3> QED
      BY <1>3, <1>4, <2>2, <3>1, <3>2
  <2>3. CASE q # p
    BY <1>4, <1>5, <2>3 DEF DocInv
  <2> QED
    BY <2>1, <2>2, <2>3
<1>7. ASSUME NEW q \in Putters, NEW r \in Putters,
             UnderWay(put'[q]), UnderWay(put'[r]), put'[q].id = put'[r].id
      PROVE  q = r
  <2>1. ASSUME NEW x \in Putters \ {p}, UnderWay(put'[x]), UnderWay(c), c.id = put'[x].id
        PROVE  FALSE
    <3>1. put'[x].id \in used
      BY <1>4, <2>1 DEF DocInv
    <3> QED
      BY <1>3, <2>1, <3>1 DEF UnderWay
  <2>2. CASE q = p \/ r = p
    BY <1>4, <1>7, <2>1, <2>2
  <2>3. CASE q # p /\ r # p
    BY <1>4, <1>7, <2>3 DEF DocInv
  <2> QED
    BY <2>2, <2>3
<1>8. \A d \in DocIds : DocIn(docs[d], chunks[d]) /\ (docs[d] # NoDoc => d \in used')
  BY <1>5 DEF DocInv
<1> QED
  BY <1>1, <1>4, <1>5, <1>6, <1>7, <1>8 DEF DocInv, UnderWay, CallIn, DocIn, IsCall

\* The row is stored, flagged or not.
LEMMA StoreKeepsDocs ==
  ASSUME DocInv, NEW p \in Putters, StoreDoc(p)
  PROVE  DocInv'
<1> DEFINE c == put[p]
           status == CASE ~c.text.safe -> "error" [] c.text.safe /\ c.index -> "pending"
                       [] OTHER -> "none"
           r == DocRow(c, status)
           n == IF status = "pending" THEN [c EXCEPT !.pc = "index"] ELSE Answer(p, status)
<1>1. /\ c.pc = "store" /\ docs' = [docs EXCEPT ![c.id] = r]
      /\ put' = [put EXCEPT ![p] = n] /\ UNCHANGED <<chunks, used, day>>
  BY DEF StoreDoc
<1>2. /\ IsCall(c) /\ c.id \in used /\ docs[c.id] = NoDoc /\ c.text \in Texts
      /\ c.expires \in Nat \cup {Forever} /\ UnderWay(c) /\ used \subseteq DocIds
  BY <1>1 DEF DocInv, UnderWay, CallIn
<1>3. chunks[c.id] = << >>
  <2>1. DocIn(docs[c.id], chunks[c.id])
    BY <1>2 DEF DocInv
  <2> QED
    BY <1>2, <2>1, DocumentsAssumption DEF DocIn, DocumentsAssumption
<1>4. /\ status \in {"error", "pending", "none"} /\ (status = "pending" => c.text.safe)
  OBVIOUS
<1> HIDE DEF status
<1>5. r \in DocRows /\ r.text = c.text /\ r.status = status
  BY <1>2, <1>4 DEF DocRow, DocRows
<1>6. IsCall(n) /\ (UnderWay(n) => n.pc = "index" /\ status = "pending" /\ n.id = c.id /\ n.text = c.text)
  <2>1. CASE status = "pending"
    BY <1>2, <2>1 DEF IsCall
  <2>2. CASE status # "pending"
    BY <1>2, <2>2 DEF IsCall, Answer, UnderWay
  <2> QED
    BY <2>1, <2>2
<1> HIDE DEF r, n
<1>7. /\ DOMAIN docs' = DocIds /\ DOMAIN chunks' = DocIds /\ docs'[c.id] = r
      /\ \A d \in DocIds \ {c.id} : docs'[d] = docs[d]
  BY <1>1, <1>2 DEF DocInv
<1>8. DocIn(r, << >>)
  BY <1>4, <1>5 DEF DocIn
<1>9. UnderWay(n) => CallIn(n, r, << >>)
  BY <1>4, <1>5, <1>6 DEF CallIn
<1> QED
  BY <1>1, <1>2, <1>3, <1>6, <1>7, <1>8, <1>9, OneCallSteps, ZenonT(60)

\* The chunks are written, or not at all.
LEMMA IndexKeepsDocs ==
  ASSUME DocInv, NEW p \in Putters, NEW embeds \in BOOLEAN, IndexDocument(p, embeds)
  PROVE  DocInv'
<1> DEFINE c == put[p]
           pieces == chunked[c.text]
<1>1. c.pc = "index" /\ UNCHANGED <<docs, used, day>>
  BY DEF IndexDocument
<1>2. /\ IsCall(c) /\ c.id \in used /\ UnderWay(c) /\ used \subseteq DocIds
      /\ CallIn(c, docs[c.id], chunks[c.id]) /\ DocIn(docs[c.id], chunks[c.id])
      /\ DOMAIN chunks = DocIds /\ DOMAIN docs = DocIds
  BY <1>1 DEF DocInv, UnderWay
<1>3. CASE pieces = << >> \/ ~embeds
  <2> DEFINE n == [c EXCEPT !.pc = "status", !.status = "error"]
  <2>1. put' = [put EXCEPT ![p] = n] /\ chunks' = chunks
    BY <1>3 DEF IndexDocument
  <2>2. IsCall(n) /\ n.pc = "status" /\ n.status = "error" /\ n.id = c.id /\ n.text = c.text
    BY <1>2 DEF IsCall
  <2> HIDE DEF n
  <2>3. CallIn(n, docs[c.id], chunks[c.id])
    BY <1>1, <1>2, <2>2 DEF CallIn
  <2> QED
    BY <1>1, <1>2, <2>1, <2>2, <2>3, OneCallSteps
<1>4. CASE ~(pieces = << >> \/ ~embeds) /\ docs[c.id] = NoDoc
  <2> DEFINE n == [c EXCEPT !.pc = "answered", !.answer = "raised"]
  <2>1. put' = [put EXCEPT ![p] = n] /\ chunks' = chunks
    BY <1>4 DEF IndexDocument
  <2>2. IsCall(n) /\ ~UnderWay(n)
    BY <1>2 DEF IsCall, UnderWay
  <2> HIDE DEF n
  <2> QED
    BY <1>1, <1>2, <2>1, <2>2, OneCallSteps
<1>5. CASE ~(pieces = << >> \/ ~embeds) /\ docs[c.id] # NoDoc
  <2> DEFINE n == [c EXCEPT !.pc = "status", !.status = "indexed"]
  <2>1. put' = [put EXCEPT ![p] = n] /\ chunks' = [chunks EXCEPT ![c.id] = pieces]
    BY <1>5 DEF IndexDocument
  <2>2. IsCall(n) /\ n.pc = "status" /\ n.status = "indexed" /\ n.id = c.id /\ n.text = c.text
    BY <1>2 DEF IsCall
  <2> HIDE DEF n
  <2>3. /\ DOMAIN chunks' = DocIds /\ chunks'[c.id] = pieces
        /\ \A d \in DocIds \ {c.id} : chunks'[d] = chunks[d]
    BY <1>2, <2>1
  <2>4. docs[c.id] \in DocRows /\ docs[c.id].text = c.text /\ c.text.safe /\ docs[c.id].status = "pending"
    BY <1>1, <1>2, <1>5 DEF CallIn, DocIn
  <2>5. CallIn(n, docs[c.id], pieces)
    BY <2>2, <2>4 DEF CallIn
  <2>6. DocIn(docs[c.id], pieces)
    BY <2>4 DEF DocIn
  <2> QED
    BY <1>1, <1>2, <2>1, <2>2, <2>3, <2>5, <2>6, OneCallSteps
<1> QED
  BY <1>3, <1>4, <1>5

\* The status follows the chunks, unless the row is gone.
LEMMA StatusKeepsDocs ==
  ASSUME DocInv, NEW p \in Putters, SetIndexStatus(p)
  PROVE  DocInv'
<1> DEFINE c == put[p]
           r == IF docs[c.id] = NoDoc THEN NoDoc ELSE [docs[c.id] EXCEPT !.status = c.status]
           n == Answer(p, c.status)
<1>1. c.pc = "status" /\ UNCHANGED <<chunks, used, day>> /\ put' = [put EXCEPT ![p] = n]
  BY DEF SetIndexStatus
<1>2. /\ IsCall(c) /\ c.id \in used /\ UnderWay(c) /\ used \subseteq DocIds
      /\ CallIn(c, docs[c.id], chunks[c.id]) /\ DocIn(docs[c.id], chunks[c.id])
      /\ DOMAIN chunks = DocIds /\ DOMAIN docs = DocIds
  BY <1>1 DEF DocInv, UnderWay
<1>3. docs' = [docs EXCEPT ![c.id] = r]
  BY <1>2 DEF SetIndexStatus
<1>4. IsCall(n) /\ ~UnderWay(n)
  BY <1>2 DEF IsCall, UnderWay, Answer
<1> HIDE DEF n
<1>5. DocIn(r, chunks[c.id])
  <2>1. CASE docs[c.id] = NoDoc
    BY <1>2, <2>1, DocumentsAssumption DEF DocIn, DocumentsAssumption
  <2>2. CASE docs[c.id] # NoDoc
    <3>1. /\ docs[c.id] \in DocRows /\ docs[c.id].text = c.text /\ c.text.safe
          /\ c.status \in {"error", "indexed"}
          /\ chunks[c.id] = IF c.status = "indexed" THEN chunked[c.text] ELSE << >>
      BY <1>1, <1>2, <2>2 DEF CallIn, DocIn
    <3>2. r \in DocRows /\ r.text = c.text /\ r.status = c.status
      BY <2>2, <3>1 DEF DocRows
    <3> QED
      BY <3>1, <3>2 DEF DocIn
  <2> QED
    BY <2>1, <2>2
<1> HIDE DEF r
<1>6. DOMAIN docs' = DocIds /\ docs'[c.id] = r /\ \A d \in DocIds \ {c.id} : docs'[d] = docs[d]
  BY <1>2, <1>3
<1> QED
  BY <1>1, <1>2, <1>4, <1>5, <1>6, OneCallSteps

\* A call that dies leaves its document as it is.
LEMMA DyingKeepsDocs ==
  ASSUME DocInv, NEW p \in Putters, PutDies(p)
  PROVE  DocInv'
<1> DEFINE n == [NoPut EXCEPT !.pc = "answered", !.answer = "raised"]
<1>1. UnderWay(put[p]) /\ put' = [put EXCEPT ![p] = n] /\ UNCHANGED <<docs, chunks, used, day>>
  BY DEF PutDies, UnderWay
<1>2. IsCall(n) /\ ~UnderWay(n)
  BY DEF IsCall, NoPut, UnderWay
<1> HIDE DEF n
<1>3. DOMAIN docs = DocIds /\ DOMAIN chunks = DocIds /\ put[p].id \in DocIds
  BY <1>1 DEF DocInv
<1>4. DocIn(docs[put[p].id], chunks[put[p].id])
  BY <1>3 DEF DocInv
<1> QED
  BY <1>1, <1>2, <1>3, <1>4, OneCallSteps

\* A delete or a sweep takes rows and chunks together, and every call that is
\* under way is prepared to find its row gone.
LEMMA DeleteKeepsDocs ==
  ASSUME DocInv, NEW gone, DeleteRows(gone), UNCHANGED <<put, used, day>>
  PROVE  DocInv'
<1>1. /\ DOMAIN docs' = DocIds /\ DOMAIN chunks' = DocIds
      /\ \A d \in DocIds : /\ d \in gone => docs'[d] = NoDoc /\ chunks'[d] = << >>
                           /\ d \notin gone => docs'[d] = docs[d] /\ chunks'[d] = chunks[d]
  BY DEF DeleteRows
<1>2. \A d \in DocIds : DocIn(docs'[d], chunks'[d]) /\ (docs'[d] # NoDoc => d \in used)
  BY <1>1 DEF DocInv, DocIn
<1>3. ASSUME NEW p \in Putters, UnderWay(put[p])
      PROVE  CallIn(put[p], docs'[put[p].id], chunks'[put[p].id])
  <2>1. put[p].id \in DocIds /\ CallIn(put[p], docs[put[p].id], chunks[put[p].id])
    BY <1>3 DEF DocInv
  <2> QED
    BY <1>1, <2>1 DEF CallIn
<1> QED
  BY <1>1, <1>2, <1>3 DEF DocInv, UnderWay, CallIn, DocIn, IsCall

\* Every step keeps the invariant.
LEMMA StepKeepsDocs ==
  ASSUME DocInv, [DcNext]_dcVars
  PROVE  DocInv'
<1>1. CASE UNCHANGED <<docs, chunks, put, used>> /\ day' \in Nat
  BY <1>1 DEF DocInv, UnderWay, CallIn, DocIn, IsCall
<1>2. CASE UNCHANGED dcVars \/ NextDay \/ LexicalSearch \/ \E embeds \in BOOLEAN : SemanticSearch(embeds)
  <2>1. day \in Nat
    BY DEF DocInv
  <2> QED
    BY <1>1, <1>2, <2>1 DEF dcVars, NextDay, LexicalSearch, SemanticSearch
<1>3. CASE delete_expired \/ \E d \in DocIds : document_delete(d)
  BY <1>3, DeleteKeepsDocs DEF delete_expired, document_delete
<1> QED
  BY <1>2, <1>3, ValidateKeepsDocs, StoreKeepsDocs, IndexKeepsDocs, StatusKeepsDocs,
     DyingKeepsDocs DEF DcNext

\* The invariant holds throughout.
LEMMA DocInvHolds == DcSpec => []DocInv
<1>1. DcInit => DocInv
  <2> SUFFICES ASSUME DcInit PROVE DocInv
    OBVIOUS
  <2>1. \A d \in DocIds : DocIn(docs[d], chunks[d]) /\ docs[d] = NoDoc
    BY DEF DcInit, DocIn
  <2>2. IsCall(NoPut) /\ ~UnderWay(NoPut)
    BY DEF IsCall, NoPut, UnderWay
  <2>3. \A p \in Putters : put[p] = NoPut
    BY DEF DcInit
  <2> QED
    BY <2>1, <2>2, <2>3 DEF DcInit, DocInv
<1> QED
  BY <1>1, StepKeepsDocs, PTL DEF DcSpec

\* An "indexed" document holds exactly the chunks of its text, one that is not
\* indexed holds none, and only text that passed the safety scan is chunked,
\* whatever puts, deletes, sweeps and deaths interleave.
THEOREM IndexStatusIsHonest == DcSpec => []IndexedMeansChunked
<1>1. DocInv => IndexedMeansChunked
  BY DEF DocInv, DocIn, IndexedMeansChunked, Stored
<1> QED
  BY <1>1, DocInvHolds, PTL

\* No chunk outlives its document, and a document deleted while its put was
\* still running does not come back.
THEOREM DeletedDocumentsStayDeleted == DcSpec => []NoOrphanChunks /\ DeletedStaysDeleted
<1>1. DocInv => NoOrphanChunks
  BY DocumentsAssumption DEF DocInv, DocIn, NoOrphanChunks, DocumentsAssumption
<1>2. DocInv /\ [DcNext]_dcVars =>
        [\A d \in used : (docs[d] = NoDoc /\ docs'[d] # NoDoc)
            => \E p \in Putters : put[p].id = d /\ put[p].pc = "store"]_dcVars
  <2> SUFFICES ASSUME DocInv, DcNext, NEW d \in used, docs[d] = NoDoc, docs'[d] # NoDoc
               PROVE  \E p \in Putters : put[p].id = d /\ put[p].pc = "store"
    OBVIOUS
  <2>1. d \in DocIds /\ DOMAIN docs = DocIds
    BY DEF DocInv
  <2>2. docs' # docs
    OBVIOUS
  <2>3. CASE \E p \in Putters : StoreDoc(p)
    BY <2>1, <2>3 DEF StoreDoc
  <2>4. CASE \E p \in Putters : SetIndexStatus(p)
    BY <2>1, <2>4 DEF SetIndexStatus
  <2>5. CASE delete_expired \/ \E x \in DocIds : document_delete(x)
    BY <2>1, <2>5 DEF delete_expired, document_delete, DeleteRows
  <2> QED
    BY <2>2, <2>3, <2>4, <2>5 DEF DcNext, Validate, IndexDocument, PutDies, NextDay,
       LexicalSearch, SemanticSearch
<1> QED
  BY <1>1, <1>2, DocInvHolds, PTL DEF DcSpec, DeletedStaysDeleted

-----------------------------------------------------------------------------
(* Memory rows.  The invariant is about rows (what is open is open on every    *)
(* axis, and what a pointer may name), about each thread (what its snapshot    *)
(* holds, which group it merges) and about both: a pointer to a row that is    *)
(* not there is the business of a supersede about to create it or to take the  *)
(* pointer back, or somebody removed the row, or a clean-up that failed was    *)
(* logged, or two merges of one group overlapped.                              *)

Groups == {g \in SUBSET Sources : Cardinality(g) >= 2}

Columns == {"val", "ver", "status", "inv", "by", "contra", "why", "promo"}

\* A row: without a closing bound it is open on every axis.
RowIn(r) ==
  /\ DOMAIN r = Columns /\ r.inv \in BOOLEAN /\ r.contra \in BOOLEAN
  /\ ~r.inv => r.status = "active" /\ ~r.contra /\ r.by = None

IsThread(l) ==
  /\ DOMAIN l = {"op", "pc", "k", "v", "snap", "todo", "done", "cl", "nk", "at"}
  /\ DOMAIN l.snap = LKeys

\* A supersede: the pre-image it may write back was open, the successor's row
\* it may stamp points nowhere.
SupersedeIn(l) == l.op = "supersede" =>
  /\ l.pc \in {"read", "write", "create", "restore", "stamp"} => l.k \in Sources
  /\ l.pc \in {"write", "create", "restore"} => RowIn(l.snap[l.k])
  /\ l.pc \in {"create", "restore"} => ~l.snap[l.k].inv
  /\ l.pc = "stamp" => RowIn(l.snap[Successor(l.k)]) /\ l.snap[Successor(l.k)].by = None

MergePcs == {"save", "carry", "check", "close", "audit", "rollback"}

\* A merge: its group, and what of it is left to do.
MergeIn(l) ==
  /\ l.pc \in MergePcs => l.nk \in Groups /\ l.todo \subseteq l.nk
  /\ l.pc \notin MergePcs => l.nk = None
  /\ l.pc \in {"save", "carry"} => l.todo = l.nk
  /\ l.pc = "close" => l.k \in l.nk

UndoIn(l, m) == l.op = "undoMerge" /\ l.pc = "undo" => l.k \in Groups /\ m[l.k] = l.k

ThreadIn(l, m) == IsThread(l) /\ SupersedeIn(l) /\ MergeIn(l) /\ UndoIn(l, m)

\* A supersede that will create the successor of k or take the pointer back.
Promises(l, k) == l.op = "supersede" /\ l.k = k /\ l.pc \in {"create", "restore"}

\* The thread's merge of n has saved its merged row.
Merges(l, n) == l.nk = n /\ l.pc # "save"

PointersIn ==
  \A k \in LKeys : Live(k) /\ rows[k].by # None =>
    k \in Sources /\ (rows[k].by = Successor(k) \/ (rows[k].by \in Groups /\ k \in rows[k].by))

SuccessorsIn ==
  \A k \in Sources : Live(k) /\ rows[k].by = Successor(k) =>
    Live(Successor(k)) \/ Successor(k) \in removed \/ \E t \in Threads : Promises(loc[t], k)

MergedIn ==
  \A k \in Sources : Live(k) /\ rows[k].by \notin {None, Successor(k)} =>
    Live(rows[k].by) \/ rows[k].by \in removed \cup warned \cup overlap

OneMerger ==
  \A n \in Groups \ overlap : \A t, u \in Threads : Merges(loc[t], n) /\ Merges(loc[u], n) => t = u

MergedThere ==
  \A t \in Threads : \A n \in Groups \ overlap :
    Merges(loc[t], n) => Live(n) \/ n \in removed

RollbackIn ==
  \A t \in Threads : loc[t].pc = "rollback" /\ loc[t].nk \notin overlap \cup warned =>
    \A j \in LKeys : Live(j) /\ rows[j].by = loc[t].nk => j \in loc[t].todo

\* The inductive invariant.
LifeInv ==
  /\ DOMAIN rows = LKeys /\ DOMAIN loc = Threads /\ DOMAIN merges = LKeys
  /\ \A k \in LKeys : rows[k] = Gone \/ RowIn(rows[k])
  /\ \A n \in LKeys : merges[n] # {} => n \in Groups /\ merges[n] = n
  /\ \A t \in Threads : ThreadIn(loc[t], merges)
  /\ PointersIn /\ SuccessorsIn /\ MergedIn /\ OneMerger /\ MergedThere /\ RollbackIn

-----------------------------------------------------------------------------
(* What one step of one thread may do, whichever it is. *)

\* A merged row that goes without being removed: nothing points to it any more,
\* and no other merge counts on it.
Vacated(t, n) ==
  /\ n \in Groups
  /\ n \in overlap' \cup warned' \/ \A j \in LKeys : rows'[j] # Gone => rows'[j].by # n
  /\ n \in overlap' \/ \A u \in Threads : ~Merges(loc'[u], n)

\* A row stays, is written with the pointer it had or none, or with the pointer of
\* the supersede or merge under way; or it goes, and is accounted for.
RowEffect(t, j) ==
  \/ rows'[j] = rows[j]
  \/ /\ RowIn(rows'[j])
     /\ \/ rows'[j].by = None
        \/ rows[j] # Gone /\ rows'[j].by = rows[j].by
        \/ j \in Sources /\ rows'[j].by = Successor(j) /\ Promises(loc'[t], j)
        \/ loc[t].pc = "close" /\ j \in loc[t].nk /\ rows'[j].by = loc[t].nk
  \/ rows'[j] = Gone /\ (j \in removed' \/ Vacated(t, j))

LogsEffect ==
  /\ overlap \subseteq overlap' /\ warned \subseteq warned'
  /\ \A n \in LKeys : n \in removed => n \in removed' \/ rows'[n] # Gone
  /\ DOMAIN merges' = LKeys
  /\ \A n \in LKeys : merges'[n] = merges[n] \/ (n \in Groups /\ merges'[n] = n)

\* A merge that has saved had saved before, or just did and is alone or noted.
MergeEffect(t) ==
  \A n \in Groups : Merges(loc'[t], n) =>
    \/ Merges(loc[t], n)
    \/ rows'[n] # Gone /\ (n \in overlap' \/ \A u \in Threads \ {t} : ~Merges(loc[u], n))

RollbackEffect(t) ==
  loc'[t].pc = "rollback" /\ loc'[t].nk \notin overlap' \cup warned' =>
    \A j \in LKeys : rows'[j] # Gone /\ rows'[j].by = loc'[t].nk => j \in loc'[t].todo

PromiseEffect(t) ==
  \A k \in Sources : Promises(loc[t], k) =>
    Promises(loc'[t], k) \/ rows'[Successor(k)] # Gone \/ rows'[k].by # Successor(k)

Effect(t) ==
  /\ DOMAIN loc' = Threads /\ \A u \in Threads \ {t} : loc'[u] = loc[u]
  /\ ThreadIn(loc'[t], merges')
  /\ DOMAIN rows' = LKeys /\ \A j \in LKeys : RowEffect(t, j)
  /\ LogsEffect /\ MergeEffect(t) /\ RollbackEffect(t) /\ PromiseEffect(t)

\* A row that is gone is no row, and points nowhere.
LEMMA GoneFacts == ~RowIn(Gone) /\ Gone.by = None
BY DEF Gone, Row, RowIn

\* The keys of successors and of merged rows.
LEMMA KeyFacts ==
  /\ \A k \in Sources : Successor(k) \in LKeys \ Groups /\ k \in LKeys /\ Successor(k) \notin Sources
  /\ \A g \in Groups : g \in LKeys \ Sources /\ g # None
  /\ \A k \in Sources : Successor(k) # None
<1>1. \A k \in Sources : Cardinality({k}) = 1
  BY FS_Singleton
<1>2. \A k \in Sources : {k} \in SUBSET Sources /\ {k} # {} /\ {k} \notin Groups
  <2> SUFFICES ASSUME NEW k \in Sources
               PROVE  {k} \in SUBSET Sources /\ {k} # {} /\ {k} \notin Groups
    OBVIOUS
  <2>1. ~(Cardinality({k}) >= 2)
    BY <1>1
  <2>2. {k} \in SUBSET Sources
    OBVIOUS
  <2>3. {k} # {}
    OBVIOUS
  <2>4. {k} \notin Groups
    <3>1. \A g \in Groups : Cardinality(g) >= 2
      BY DEF Groups
    <3> QED
      BY <2>1, <3>1, Zenon
  <2> QED
    BY <2>2, <2>3, <2>4
<1>3. \A g \in Groups : g \in SUBSET Sources /\ g # {}
  BY FS_EmptySet DEF Groups
<1>4. \A k \in Sources, g \in SUBSET Sources : k # g
  BY LifecycleAssumption DEF LifecycleAssumption
<1>5. \A k \in LKeys : k # None
  BY LifecycleAssumption DEF LifecycleAssumption
<1>6. \A k \in Sources : k \in LKeys
  BY DEF LKeys
<1>7. \A g \in SUBSET Sources : g # {} => g \in LKeys
  <2> SUFFICES ASSUME NEW g \in SUBSET Sources, g # {} PROVE g \in LKeys
    OBVIOUS
  <2>1. g \notin {{}}
    OBVIOUS
  <2> QED
    BY <2>1, Zenon DEF LKeys
<1> QED
  BY <1>2, <1>3, <1>4, <1>5, <1>6, <1>7 DEF Successor

\* What a row holds after a step.
LEMMA RowsAfter ==
  ASSUME LifeInv, NEW t \in Threads, Effect(t), NEW k \in LKeys
  PROVE  /\ rows'[k] = Gone \/ RowIn(rows'[k])
         /\ rows'[k] # Gone /\ rows'[k].by # None =>
              \/ rows[k] # Gone /\ rows'[k].by = rows[k].by
              \/ k \in Sources /\ rows'[k].by = Successor(k) /\ Promises(loc'[t], k)
              \/ loc[t].pc = "close" /\ k \in loc[t].nk /\ rows'[k].by = loc[t].nk
         /\ rows[k] # Gone => rows'[k] # Gone \/ k \in removed' \/ Vacated(t, k)
BY GoneFacts DEF LifeInv, Effect, RowEffect

\* A step with such an effect keeps the invariant.
LEMMA EffectKeepsLife ==
  ASSUME LifeInv, NEW t \in Threads, Effect(t)
  PROVE  LifeInv'
<1>1. /\ \A u \in Threads \ {t} : loc'[u] = loc[u]
      /\ overlap \subseteq overlap' /\ warned \subseteq warned'
      /\ \A n \in LKeys : n \in removed => n \in removed' \/ rows'[n] # Gone
  BY DEF Effect, LogsEffect
<1>2. \A u \in Threads : ThreadIn(loc'[u], merges')
  <2>1. ASSUME NEW u \in Threads \ {t}
        PROVE  ThreadIn(loc[u], merges')
    <3>1. ThreadIn(loc[u], merges)
      BY DEF LifeInv
    <3>2. UndoIn(loc[u], merges')
      BY <3>1, KeyFacts DEF ThreadIn, UndoIn, Effect, LogsEffect
    <3> QED
      BY <3>1, <3>2 DEF ThreadIn
  <2> QED
    BY <1>1, <2>1 DEF Effect
<1>3. \A n \in LKeys : merges'[n] # {} => n \in Groups /\ merges'[n] = n
  BY DEF Effect, LogsEffect, LifeInv
<1>4. loc[t].pc = "close" => loc[t].nk \in Groups /\ Merges(loc[t], loc[t].nk)
  BY DEF LifeInv, ThreadIn, MergeIn, MergePcs, Merges
<1>5. PointersIn'
  <2> SUFFICES ASSUME NEW k \in LKeys, rows'[k] # Gone, rows'[k].by # None
               PROVE  k \in Sources /\ (rows'[k].by = Successor(k)
                                        \/ (rows'[k].by \in Groups /\ k \in rows'[k].by))
    BY DEF PointersIn, Live
  <2>1. CASE rows[k] # Gone /\ rows'[k].by = rows[k].by
    BY <2>1 DEF LifeInv, PointersIn, Live
  <2>2. CASE k \in Sources /\ rows'[k].by = Successor(k)
    BY <2>2
  <2>3. CASE loc[t].pc = "close" /\ k \in loc[t].nk /\ rows'[k].by = loc[t].nk
    BY <1>4, <2>3 DEF Groups
  <2> QED
    BY <2>1, <2>2, <2>3, RowsAfter
<1>6. SuccessorsIn'
  <2> SUFFICES ASSUME NEW k \in Sources, rows'[k] # Gone, rows'[k].by = Successor(k),
                      rows'[Successor(k)] = Gone, Successor(k) \notin removed'
               PROVE  \E u \in Threads : Promises(loc'[u], k)
    BY DEF SuccessorsIn, Live
  <2>1. Successor(k) \in LKeys \ Groups /\ k \in LKeys /\ Successor(k) # None
    BY KeyFacts
  <2>2. CASE rows[k] # Gone /\ rows'[k].by = rows[k].by
    <3>1. rows[Successor(k)] = Gone
      BY <2>1, RowsAfter DEF Vacated
    <3>2. Successor(k) \notin removed
      BY <1>1, <2>1
    <3>3. PICK u \in Threads : Promises(loc[u], k)
      BY <2>2, <3>1, <3>2 DEF LifeInv, SuccessorsIn, Live
    <3>4. CASE u = t
      BY <3>3, <3>4 DEF Effect, PromiseEffect
    <3>5. CASE u # t
      BY <1>1, <3>3, <3>5
    <3> QED
      BY <3>4, <3>5
  <2>3. CASE Promises(loc'[t], k)
    BY <2>3
  <2>4. CASE loc[t].pc = "close" /\ rows'[k].by = loc[t].nk
    BY <1>4, <2>1, <2>4
  <2> QED
    BY <2>1, <2>2, <2>3, <2>4, RowsAfter
<1>7. ASSUME NEW n \in Groups \ overlap, NEW u \in Threads, Merges(loc[u], n),
             n \notin overlap' \cup removed', rows'[n] = Gone
      PROVE  Vacated(t, n)
  <2>1. n \in LKeys
    BY KeyFacts
  <2>2. n \notin removed
    BY <1>1, <1>7, <2>1
  <2>3. rows[n] # Gone
    BY <1>7, <2>2 DEF LifeInv, MergedThere, Live
  <2> QED
    BY <1>7, <2>1, <2>3, RowsAfter
<1>8. MergedIn'
  <2> SUFFICES ASSUME NEW k \in Sources, rows'[k] # Gone,
                      rows'[k].by \notin {None, Successor(k)}, NEW n, n = rows'[k].by,
                      rows'[n] = Gone, n \notin removed' \cup warned' \cup overlap'
               PROVE  FALSE
    BY DEF MergedIn, Live
  <2>1. k \in LKeys /\ n \in Groups /\ n \in LKeys
    BY <1>5, KeyFacts DEF PointersIn, Live
  <2>2. ~Vacated(t, n)
    BY <2>1 DEF Vacated
  <2>3. CASE rows[k] # Gone /\ rows'[k].by = rows[k].by
    <3>1. rows[n] # Gone \/ n \in removed
      BY <1>1, <2>3 DEF LifeInv, MergedIn, Live
    <3> QED
      BY <1>1, <2>1, <2>2, <3>1, RowsAfter
  <2>4. CASE loc[t].pc = "close" /\ rows'[k].by = loc[t].nk
    BY <1>1, <1>4, <1>7, <2>2, <2>4
  <2> QED
    BY <2>1, <2>3, <2>4, RowsAfter
<1>9. OneMerger'
  <2> SUFFICES ASSUME NEW n \in Groups \ overlap', NEW u \in Threads, NEW w \in Threads,
                      Merges(loc'[u], n), Merges(loc'[w], n), u # w
               PROVE  FALSE
    BY DEF OneMerger, Merges
  <2>1. ASSUME NEW x \in Threads, NEW y \in Threads, x # y, Merges(loc[x], n), Merges(loc[y], n)
        PROVE  FALSE
    BY <1>1, <2>1 DEF LifeInv, OneMerger
  <2>2. ASSUME NEW x \in Threads \ {t}, Merges(loc'[x], n), Merges(loc'[t], n)
        PROVE  FALSE
    <3>1. Merges(loc[x], n)
      BY <1>1, <2>2
    <3>2. Merges(loc[t], n)
      BY <2>2, <3>1 DEF Effect, MergeEffect
    <3> QED
      BY <2>1, <3>1, <3>2
  <2>3. CASE u = t \/ w = t
    BY <2>2, <2>3
  <2>4. CASE u # t /\ w # t
    BY <1>1, <2>1, <2>4
  <2> QED
    BY <2>3, <2>4
<1>10. MergedThere'
  <2> SUFFICES ASSUME NEW u \in Threads, NEW n \in Groups \ overlap', Merges(loc'[u], n),
                      rows'[n] = Gone, n \notin removed'
               PROVE  FALSE
    BY DEF MergedThere, Live, Merges
  <2>1. CASE Merges(loc[u], n)
    BY <1>1, <1>7, <2>1 DEF Vacated
  <2>2. CASE ~Merges(loc[u], n)
    BY <1>1, <2>2 DEF Effect, MergeEffect
  <2> QED
    BY <2>1, <2>2
<1>11. RollbackIn'
  <2> SUFFICES ASSUME NEW u \in Threads, loc'[u].pc = "rollback",
                      loc'[u].nk \notin overlap' \cup warned',
                      NEW j \in LKeys, rows'[j] # Gone, rows'[j].by = loc'[u].nk
               PROVE  j \in loc'[u].todo
    BY DEF RollbackIn, Live
  <2>1. CASE u = t
    BY <2>1 DEF Effect, RollbackEffect
  <2>2. CASE u # t
    <3>1. loc'[u] = loc[u]
      BY <1>1, <2>2
    <3>2. loc[u].nk \in Groups /\ Merges(loc[u], loc[u].nk) /\ loc[u].nk \notin overlap
      BY <1>1, <3>1 DEF LifeInv, ThreadIn, MergeIn, MergePcs, Merges
    <3>3. CASE rows[j] # Gone /\ rows'[j].by = rows[j].by
      BY <1>1, <3>1, <3>3 DEF LifeInv, RollbackIn, Live
    <3>4. CASE j \in Sources /\ rows'[j].by = Successor(j)
      BY <3>1, <3>2, <3>4, KeyFacts
    <3>5. CASE loc[t].pc = "close" /\ rows'[j].by = loc[t].nk
      BY <1>4, <2>2, <3>1, <3>2, <3>5 DEF LifeInv, OneMerger
    <3>6. rows'[j].by # None
      BY <3>1, <3>2, KeyFacts
    <3> QED
      BY <3>3, <3>4, <3>5, <3>6, RowsAfter
  <2> QED
    BY <2>1, <2>2
<1>12. DOMAIN rows' = LKeys /\ DOMAIN loc' = Threads /\ DOMAIN merges' = LKeys
  BY DEF Effect, LogsEffect
<1>13. \A k \in LKeys : rows'[k] = Gone \/ RowIn(rows'[k])
  BY RowsAfter
<1> QED
  BY <1>2, <1>3, <1>5, <1>6, <1>8, <1>9, <1>10, <1>11, <1>12, <1>13
     DEF LifeInv, ThreadIn, IsThread, SupersedeIn, MergeIn, UndoIn, RowIn

-----------------------------------------------------------------------------
(* Rows, as the store's write primitives make them *)

\* A row just made is open and points nowhere.
LEMMA RowMade ==
  ASSUME NEW v, NEW n
  PROVE  RowIn(Row(v, n)) /\ Row(v, n).by = None
BY DEF Row, RowIn, Columns

\* A new updated_at changes nothing else.
LEMMA RowStamped ==
  ASSUME NEW r, RowIn(r), NEW n
  PROVE  RowIn([r EXCEPT !.ver = n]) /\ [r EXCEPT !.ver = n].by = r.by
BY DEF RowIn, Columns

\* Neither does a promotion.
LEMMA RowPromoted ==
  ASSUME NEW r, RowIn(r), NEW q
  PROVE  RowIn([r EXCEPT !.promo = q]) /\ [r EXCEPT !.promo = q].by = r.by
BY DEF RowIn, Columns

\* A reopened row is open on every axis.
LEMMA RowReopened ==
  ASSUME NEW r, RowIn(r)
  PROVE  RowIn(Reopened(r)) /\ Reopened(r).by = None
BY DEF RowIn, Columns, Reopened

\* A closed row points to its successor, or where it pointed.
LEMMA RowClosed ==
  ASSUME NEW r, RowIn(r), NEW reason \in {"contradiction", "consolidation", "supersession", "age"},
         NEW succ, NEW detail
  PROVE  /\ RowIn(Closed(r, reason, succ, detail))
         /\ Closed(r, reason, succ, detail).by = IF succ = None THEN r.by ELSE succ
<1>1. StatusOf(reason) = "contradicted" \/ StatusOf(reason) # "contradicted"
  OBVIOUS
<1> QED
  BY <1>1 DEF RowIn, Columns, Closed

\* save over a row keeps its pointer, or reopens it.
LEMMA RowConstructed ==
  ASSUME NEW e, e = Gone \/ RowIn(e), NEW v, NEW revive
  PROVE  /\ RowIn(Construct(e, v, revive))
         /\ \/ Construct(e, v, revive).by = None
            \/ e # Gone /\ Construct(e, v, revive).by = e.by
<1>1. CASE e = Gone
  BY <1>1, RowMade DEF Construct
<1>2. CASE e # Gone
  <2>1. PICK b : b = (IF revive /\ e.inv THEN Reopened(e) ELSE e)
    OBVIOUS
  <2>2. RowIn(b) /\ (b.by = None \/ b.by = e.by)
    BY <1>2, <2>1, RowReopened
  <2>3. Construct(e, v, revive) =
          [b EXCEPT !.val = v, !.promo = IF v = e.val THEN @ ELSE "candidate"]
    BY <1>2, <2>1 DEF Construct
  <2> QED
    BY <1>2, <2>2, <2>3 DEF RowIn, Columns
<1> QED
  BY <1>1, <1>2

-----------------------------------------------------------------------------
(* Steps of threads that are not in a merge *)

PlainPcs == {"idle", "dedup", "plan", "conflicts", "delete", "scan", "archive",
             "demote", "enter", "pick"}

Plain(l) == IsThread(l) /\ l.nk = None /\ l.pc \in PlainPcs

Frame(t) == DOMAIN loc' = Threads /\ \A u \in Threads \ {t} : loc'[u] = loc[u]

RowsSafe(t) == DOMAIN rows' = LKeys /\ \A j \in LKeys : RowEffect(t, j)

\* A thread outside merge and supersede owes nothing.
LEMMA PlainIn ==
  ASSUME NEW l, Plain(l), NEW m
  PROVE  ThreadIn(l, m)
BY DEF Plain, PlainPcs, ThreadIn, SupersedeIn, MergeIn, MergePcs, UndoIn

\* Nor does an idle one.
LEMMA IdleFacts == Plain(Idle)
BY DEF Plain, PlainPcs, Idle, IsThread

\* What the invariant says of one thread.
LEMMA ThreadFacts ==
  ASSUME LifeInv, NEW t \in Threads
  PROVE  /\ DOMAIN loc = Threads /\ DOMAIN rows = LKeys /\ DOMAIN merges = LKeys
         /\ ThreadIn(loc[t], merges) /\ IsThread(loc[t])
         /\ loc[t].pc \notin MergePcs => loc[t].nk = None
BY DEF LifeInv, ThreadIn, MergeIn

\* A step into a state outside every merge.
LEMMA CalmStep ==
  ASSUME LifeInv, NEW t \in Threads, Frame(t), ThreadIn(loc'[t], merges),
         loc'[t].pc \notin MergePcs, PromiseEffect(t), RowsSafe(t),
         UNCHANGED <<merges, overlap, warned>>,
         \A n \in LKeys : n \in removed => n \in removed' \/ rows'[n] # Gone
  PROVE  LifeInv'
<1>1. LogsEffect
  BY DEF LogsEffect, LifeInv
<1>2. loc'[t].nk = None /\ loc'[t].pc # "rollback"
  BY DEF ThreadIn, MergeIn, MergePcs
<1>3. MergeEffect(t) /\ RollbackEffect(t)
  BY <1>2, KeyFacts DEF MergeEffect, RollbackEffect, Merges
<1>4. Effect(t)
  BY <1>1, <1>3 DEF Effect, Frame, RowsSafe
<1> QED
  BY <1>4, EffectKeepsLife

\* The same, from a state in which the thread has promised nothing.
LEMMA PlainStep ==
  ASSUME LifeInv, NEW t \in Threads, Frame(t), Plain(loc'[t]),
         loc[t].op = "supersede" => loc[t].pc \notin {"create", "restore"},
         RowsSafe(t), UNCHANGED <<merges, overlap, warned>>,
         \A n \in LKeys : n \in removed => n \in removed' \/ rows'[n] # Gone
  PROVE  LifeInv'
<1>1. ThreadIn(loc'[t], merges)
  BY PlainIn
<1>2. loc'[t].pc \notin MergePcs
  BY DEF Plain, PlainPcs, MergePcs
<1>3. PromiseEffect(t)
  BY DEF PromiseEffect, Promises
<1> QED
  BY <1>1, <1>2, <1>3, CalmStep

\* An operation ends.
LEMMA DoneSteps ==
  ASSUME LifeInv, NEW t \in Threads, Done(t)
  PROVE  Frame(t) /\ Plain(loc'[t]) /\ loc'[t] = Idle
BY IdleFacts DEF LifeInv, Done, Frame

\* No row is written.
LEMMA NothingWritten ==
  ASSUME LifeInv, NEW t, rows' = rows
  PROVE  RowsSafe(t)
BY DEF LifeInv, RowsSafe, RowEffect

\* A write that keeps the row's pointer or takes it away.
LEMMA RowWritten ==
  ASSUME LifeInv, NEW t, NEW k, NEW x, rows' = [rows EXCEPT ![k] = x],
         k \in LKeys => RowIn(x) /\ (x.by = None \/ (rows[k] # Gone /\ x.by = rows[k].by))
  PROVE  RowsSafe(t)
BY DEF LifeInv, RowsSafe, RowEffect

\* A live row, written over with the columns it had but some.
LEMMA LivePut ==
  ASSUME LifeInv, NEW t, NEW k, NEW r, NEW n, rows' = [rows EXCEPT ![k] = [r EXCEPT !.ver = n]],
         k \in LKeys => RowIn(r) /\ (r.by = None \/ (rows[k] # Gone /\ r.by = rows[k].by))
  PROVE  RowsSafe(t) /\ (k \in LKeys => rows'[k] # Gone)
<1>1. k \in LKeys => RowIn([r EXCEPT !.ver = n]) /\ [r EXCEPT !.ver = n].by = r.by
  BY RowStamped
<1>2. RowsSafe(t)
  BY <1>1, RowWritten
<1>3. k \in LKeys => rows'[k] # Gone
  BY <1>1, GoneFacts DEF LifeInv
<1> QED
  BY <1>2, <1>3

\* A live row is a row.
LEMMA LiveRow ==
  ASSUME LifeInv, NEW k \in LKeys, Live(k)
  PROVE  RowIn(rows[k]) /\ rows[k] # Gone
BY DEF LifeInv, Live

-----------------------------------------------------------------------------
(* The actions *)

\* What beginning an operation does.
LEMMA BeginSteps ==
  ASSUME LifeInv, NEW t \in Threads, NEW o, NEW k, NEW v, NEW p, Begin(t, o, k, v, p)
  PROVE  /\ Frame(t) /\ IsThread(loc'[t]) /\ RowsSafe(t) /\ PromiseEffect(t)
         /\ loc'[t].op = o /\ loc'[t].k = k /\ loc'[t].pc = p /\ loc'[t].nk = None
         /\ UNCHANGED <<merges, overlap, warned, removed>>
<1> DEFINE x == [Idle EXCEPT !.op = o, !.k = k, !.v = v, !.pc = p]
<1>1. /\ loc' = [loc EXCEPT ![t] = x] /\ loc[t] = Idle /\ rows' = rows
      /\ UNCHANGED <<merges, overlap, warned, removed>>
  BY DEF Begin, NoWrite
<1>2. IsThread(x) /\ x.op = o /\ x.k = k /\ x.pc = p /\ x.nk = None
  BY DEF Idle, IsThread
<1> HIDE DEF x
<1>3. Frame(t) /\ loc'[t] = x
  BY <1>1, ThreadFacts DEF Frame
<1>4. PromiseEffect(t)
  <2>1. Idle.op # "supersede"
    BY DEF Idle
  <2> QED
    BY <1>1, <2>1 DEF PromiseEffect, Promises
<1> QED
  BY <1>1, <1>2, <1>3, <1>4, NothingWritten

\* save, a sweep, a scan or a read begins.
LEMMA BeginKeepsLife ==
  ASSUME LifeInv, NEW t \in Threads,
         SaveBegin(t) \/ SweepBegin(t) \/ ScanBegin(t) \/ ReadBegin(t) \/ UndoBegin(t)
  PROVE  LifeInv'
<1>1. ASSUME NEW o, NEW k, NEW v, NEW p, Begin(t, o, k, v, p),
             \/ p \in PlainPcs
             \/ p = "read" /\ (o = "supersede" => k \in Sources)
             \/ p = "undo" /\ o = "undoMerge" /\ k \in Groups /\ merges[k] = k
      PROVE  LifeInv'
  <2>1. /\ Frame(t) /\ IsThread(loc'[t]) /\ RowsSafe(t) /\ PromiseEffect(t)
        /\ loc'[t].op = o /\ loc'[t].k = k /\ loc'[t].pc = p /\ loc'[t].nk = None
        /\ UNCHANGED <<merges, overlap, warned, removed>>
    BY <1>1, BeginSteps
  <2>2. ThreadIn(loc'[t], merges) /\ loc'[t].pc \notin MergePcs
    BY <1>1, <2>1 DEF PlainPcs, ThreadIn, SupersedeIn, MergeIn, MergePcs, UndoIn
  <2> QED
    BY <2>1, <2>2, CalmStep
<1>2. CASE SaveBegin(t)
  BY <1>1, <1>2 DEF SaveBegin, PlainPcs
<1>3. CASE SweepBegin(t)
  BY <1>1, <1>3 DEF SweepBegin, PlainPcs
<1>4. CASE ScanBegin(t)
  BY <1>1, <1>4 DEF ScanBegin, PlainPcs
<1>5. CASE ReadBegin(t)
  BY <1>1, <1>5 DEF ReadBegin
<1>6. CASE UndoBegin(t)
  <2>1. PICK g \in LKeys : merges[g] # {} /\ Begin(t, "undoMerge", g, 0, "undo")
    BY <1>6 DEF UndoBegin
  <2>2. g \in Groups /\ merges[g] = g
    BY <2>1 DEF LifeInv
  <2> QED
    BY <1>1, <2>1, <2>2
<1> QED
  BY <1>2, <1>3, <1>4, <1>5, <1>6

\* save up to its write.
LEMMA SaveKeepsLife ==
  ASSUME LifeInv, NEW t \in Threads, SaveDedup(t) \/ SavePlan(t) \/ SaveConflict(t)
  PROVE  LifeInv'
<1>1. /\ loc[t].op = "save" /\ loc[t].pc \in {"dedup", "plan", "conflicts"}
      /\ UNCHANGED <<merges, overlap, warned, removed>>
  BY DEF SaveDedup, SavePlan, SaveConflict, At, Quiet, Logs
<1>2. /\ DOMAIN loc = Threads /\ IsThread(loc[t]) /\ loc[t].nk = None
  BY <1>1, ThreadFacts DEF MergePcs
<1>3. CASE SaveDedup(t)
  <2>1. CASE Live(loc[t].k) /\ rows[loc[t].k].val = loc[t].v
    <3>1. rows' = [rows EXCEPT ![loc[t].k] = [rows[loc[t].k] EXCEPT !.ver = clock + 1]] /\ Done(t)
      BY <1>3, <2>1 DEF SaveDedup, Put
    <3>2. RowsSafe(t)
      BY <2>1, <3>1, LivePut, LiveRow
    <3> QED
      BY <1>1, <3>1, <3>2, DoneSteps, PlainStep
  <2>2. CASE ~(Live(loc[t].k) /\ rows[loc[t].k].val = loc[t].v)
    <3>1. rows' = rows /\ loc' = [loc EXCEPT ![t].pc = "plan"]
      BY <1>3, <2>2 DEF SaveDedup, NoWrite, Go
    <3>2. Frame(t) /\ Plain(loc'[t])
      BY <1>2, <3>1 DEF Frame, Plain, PlainPcs, IsThread
    <3> QED
      BY <1>1, <3>1, <3>2, NothingWritten, PlainStep
  <2> QED
    BY <2>1, <2>2
<1>4. CASE SavePlan(t)
  <2>1. PICK hits : loc' = [loc EXCEPT ![t].todo = hits, ![t].at = hits # {}, ![t].pc = "conflicts"]
    BY <1>4 DEF SavePlan
  <2>2. Frame(t) /\ Plain(loc'[t])
    BY <1>2, <2>1 DEF Frame, Plain, PlainPcs, IsThread
  <2>3. rows' = rows
    BY <1>4 DEF SavePlan, Skip, NoWrite
  <2> QED
    BY <1>1, <2>2, <2>3, NothingWritten, PlainStep
<1>5. CASE SaveConflict(t)
  <2>1. PICK j \in loc[t].todo :
          \/ /\ IF Live(j) /\ ~rows[j].inv
                THEN /\ Put(j, Closed(rows[j], "contradiction", None, Conflict))
                     /\ loc' = [loc EXCEPT ![t].todo = @ \ {j}, ![t].done = @ \cup {j}]
                ELSE NoWrite /\ loc' = [loc EXCEPT ![t].todo = @ \ {j}]
          \/ /\ loc' = [loc EXCEPT ![t].todo = {}, ![t].done = {}, ![t].at = FALSE]
             /\ NoWrite
    BY <1>5 DEF SaveConflict
  <2>2. Frame(t) /\ Plain(loc'[t])
    BY <1>1, <1>2, <2>1 DEF Frame, Plain, PlainPcs, IsThread
  <2>3. RowsSafe(t)
    <3>1. CASE rows' = rows
      BY <3>1, NothingWritten
    <3>2. CASE Live(j) /\ Put(j, Closed(rows[j], "contradiction", None, Conflict))
      <4> DEFINE r == Closed(rows[j], "contradiction", None, Conflict)
      <4>1. j \in LKeys => RowIn(r) /\ rows[j] # Gone /\ r.by = rows[j].by
        BY <3>2, LiveRow, RowClosed
      <4>2. rows' = [rows EXCEPT ![j] = [r EXCEPT !.ver = clock + 1]]
        BY <3>2 DEF Put
      <4> HIDE DEF r
      <4> QED
        BY <4>1, <4>2, LivePut
    <3> QED
      BY <2>1, <3>1, <3>2 DEF NoWrite
  <2> QED
    BY <1>1, <2>2, <2>3, PlainStep
<1> QED
  BY <1>3, <1>4, <1>5

\* The write of save, and the merge it may go on to.
LEMMA SaveWriteKeepsLife ==
  ASSUME LifeInv, NEW t \in Threads, SaveWrite(t)
  PROVE  LifeInv'
<1> DEFINE k == loc[t].k
           r == Construct(rows[k], loc[t].v, loc[t].at)
           m == [Idle EXCEPT !.op = "merge", !.pc = "enter", !.k = k,
                             !.snap = [Idle.snap EXCEPT ![k] = r]]
<1>1. loc[t].op = "save" /\ UNCHANGED <<merges, overlap, warned>>
  BY DEF SaveWrite, At
<1>2. DOMAIN loc = Threads
  BY ThreadFacts
<1>3. Plain(m)
  <2>1. IsThread(Idle) /\ Idle.nk = None
    BY IdleFacts DEF Plain
  <2> HIDE DEF r
  <2> QED
    BY <2>1 DEF Plain, PlainPcs, IsThread
<1>4. Frame(t) /\ Plain(loc'[t])
  <2>1. CASE Done(t)
    BY <2>1, DoneSteps
  <2>2. CASE loc' = [loc EXCEPT ![t] = m]
    <3> HIDE DEF m
    <3> QED
      BY <1>2, <1>3, <2>2 DEF Frame
  <2> QED
    BY <2>1, <2>2 DEF SaveWrite
<1>5. CASE rows' = rows /\ removed' = removed
  BY <1>1, <1>4, <1>5, NothingWritten, PlainStep
<1>6. CASE Put(k, r) /\ removed' = removed \ {k}
  <2>1. k \in LKeys => RowIn(r) /\ (r.by = None \/ (rows[k] # Gone /\ r.by = rows[k].by))
    BY RowConstructed DEF LifeInv
  <2>2. rows' = [rows EXCEPT ![k] = [r EXCEPT !.ver = clock + 1]]
    BY <1>6 DEF Put
  <2> HIDE DEF r
  <2>3. RowsSafe(t) /\ (k \in LKeys => rows'[k] # Gone)
    BY <2>1, <2>2, LivePut
  <2> QED
    BY <1>1, <1>4, <1>6, <2>3, PlainStep
<1> QED
  BY <1>5, <1>6 DEF SaveWrite, NoWrite

\* The read of a single-row operation: a supersede keeps the open row it found.
LEMMA ReadKeepsLife ==
  ASSUME LifeInv, NEW t \in Threads, Read(t)
  PROVE  LifeInv'
<1> DEFINE k == loc[t].k
<1>1. loc[t].pc = "read" /\ rows' = rows /\ UNCHANGED <<merges, overlap, warned, removed>>
  BY DEF Read, Skip, NoWrite, Quiet, Logs
<1>2. /\ DOMAIN loc = Threads /\ IsThread(loc[t]) /\ loc[t].nk = None /\ ThreadIn(loc[t], merges)
  BY <1>1, ThreadFacts DEF MergePcs
<1>3. CASE Done(t)
  BY <1>1, <1>3, DoneSteps, NothingWritten, PlainStep
<1>4. CASE Live(k) /\ loc' = [loc EXCEPT ![t].snap[k] = rows[k], ![t].pc = "write"]
  <2>1. /\ Frame(t) /\ IsThread(loc'[t]) /\ loc'[t].pc = "write" /\ loc'[t].nk = None
        /\ loc'[t].op = loc[t].op /\ loc'[t].k = k
    BY <1>2, <1>4 DEF Frame, IsThread
  <2>2. k \in LKeys => loc'[t].snap[k] = rows[k]
    BY <1>2, <1>4 DEF IsThread
  <2>3. loc[t].op = "supersede" => k \in Sources /\ k \in LKeys
    BY <1>1, <1>2, KeyFacts DEF ThreadIn, SupersedeIn
  <2>4. k \in LKeys => RowIn(rows[k])
    BY <1>4, LiveRow
  <2>5. ThreadIn(loc'[t], merges)
    BY <2>1, <2>2, <2>3, <2>4 DEF ThreadIn, SupersedeIn, MergeIn, MergePcs, UndoIn
  <2>6. PromiseEffect(t) /\ loc'[t].pc \notin MergePcs
    BY <1>1, <2>1 DEF PromiseEffect, Promises, MergePcs
  <2> QED
    BY <1>1, <2>1, <2>5, <2>6, NothingWritten, CalmStep
<1> QED
  BY <1>3, <1>4 DEF Read

\* Writes of some columns that keep the pointer.
LEMMA FieldsKeepLife ==
  ASSUME LifeInv, NEW t \in Threads,
         UndoSaveConflict(t) \/ PromoteLearning(t) \/ DemoteLearning(t)
  PROVE  LifeInv'
<1> DEFINE k == loc[t].k
<1>1. loc[t].op # "supersede"
  BY DEF UndoSaveConflict, PromoteLearning, DemoteLearning, At
<1>2. PICK r : /\ FieldUpdate(t, r)
               /\ k \in LKeys /\ Live(k) => RowIn(r) /\ r.by = rows[k].by
  <2>1. CASE PromoteLearning(t)
    BY <2>1, LiveRow, RowPromoted DEF PromoteLearning
  <2>2. CASE DemoteLearning(t)
    BY <2>2, LiveRow, RowPromoted DEF DemoteLearning
  <2>3. CASE UndoSaveConflict(t)
    <3> DEFINE r == [rows[k] EXCEPT !.contra = FALSE, !.why = None, !.status = "active"]
    <3>1. k \in LKeys /\ Live(k) => RowIn(r) /\ r.by = rows[k].by
      BY LiveRow DEF RowIn, Columns
    <3> QED
      BY <2>3, <3>1 DEF UndoSaveConflict
  <2> QED
    BY <2>1, <2>2, <2>3
<1>3. Done(t) /\ UNCHANGED <<merges, overlap, warned, removed>>
  BY <1>2 DEF FieldUpdate, Quiet, Logs
<1>4. RowsSafe(t)
  <2>1. CASE rows' = rows
    BY <2>1, NothingWritten
  <2>2. CASE Live(k) /\ PutAt(k, r, loc[t].snap[k].ver)
    <3>1. rows' = [rows EXCEPT ![k] = [r EXCEPT !.ver = loc[t].snap[k].ver]]
      BY <2>2 DEF PutAt
    <3>2. k \in LKeys => RowIn(r) /\ rows[k] # Gone /\ r.by = rows[k].by
      BY <1>2, <2>2 DEF Live
    <3> QED
      BY <3>1, <3>2, LivePut
  <2> QED
    BY <1>2, <2>1, <2>2 DEF FieldUpdate, NoWrite, Skip
<1> QED
  BY <1>1, <1>3, <1>4, DoneSteps, PlainStep

\* A key is dropped and put among the removed.
LEMMA RowDropped ==
  ASSUME LifeInv, NEW t, NEW k, Drop(k), removed' = removed \cup {k}
  PROVE  RowsSafe(t)
BY DEF LifeInv, RowsSafe, RowEffect, Drop

\* forget archives, then deletes on purpose.
LEMMA ForgetKeepsLife ==
  ASSUME LifeInv, NEW t \in Threads, ForgetArchive(t) \/ ForgetDelete(t)
  PROVE  LifeInv'
<1>1. /\ loc[t].op = "forget" /\ loc[t].pc \in {"write", "delete"}
      /\ UNCHANGED <<merges, overlap, warned>> /\ removed \subseteq removed'
  BY DEF ForgetArchive, ForgetDelete, At
<1>2. /\ DOMAIN loc = Threads /\ IsThread(loc[t]) /\ loc[t].nk = None
  BY <1>1, ThreadFacts DEF MergePcs
<1>3. CASE ForgetArchive(t)
  <2>1. loc' = [loc EXCEPT ![t].pc = "delete"] /\ rows' = rows
    BY <1>3 DEF ForgetArchive, Go, NoWrite
  <2>2. Frame(t) /\ Plain(loc'[t])
    BY <1>2, <2>1 DEF Frame, Plain, PlainPcs, IsThread
  <2> QED
    BY <1>1, <2>1, <2>2, NothingWritten, PlainStep
<1>4. CASE ForgetDelete(t)
  <2>1. Drop(loc[t].k) /\ removed' = removed \cup {loc[t].k} /\ Done(t)
    BY <1>4 DEF ForgetDelete
  <2> QED
    BY <1>1, <2>1, DoneSteps, RowDropped, PlainStep
<1> QED
  BY <1>3, <1>4

\* supersede closes the row: from here on the thread owes it a successor.
LEMMA CloseKeepsLife ==
  ASSUME LifeInv, NEW t \in Threads, SupersedeClose(t)
  PROVE  LifeInv'
<1> DEFINE k == loc[t].k
           e == IF Live(k) THEN rows[k] ELSE loc[t].snap[k]
<1>1. /\ loc[t].op = "supersede" /\ loc[t].pc = "write"
      /\ UNCHANGED <<merges, overlap, warned, removed>>
  BY DEF SupersedeClose, At, Quiet, Logs
<1>2. /\ DOMAIN loc = Threads /\ IsThread(loc[t]) /\ loc[t].nk = None /\ k \in Sources /\ k \in LKeys
      /\ RowIn(loc[t].snap[k])
  BY <1>1, ThreadFacts, KeyFacts DEF MergePcs, ThreadIn, SupersedeIn
<1>3. RowIn(e)
  BY <1>2, LiveRow
<1>4. CASE Done(t) /\ rows' = rows
  BY <1>1, <1>4, DoneSteps, NothingWritten, PlainStep
<1>5. CASE /\ ~e.inv
           /\ IF Live(k) THEN Put(k, Closed(e, "supersession", Successor(k), None)) ELSE NoWrite
           /\ loc' = [loc EXCEPT ![t].snap[k] = e, ![t].pc = "create"]
  <2>0. loc' = [loc EXCEPT ![t].snap[k] = e, ![t].pc = "create"]
    BY <1>5
  <2> HIDE DEF e
  <2>1. /\ Frame(t) /\ IsThread(loc'[t]) /\ loc'[t].pc = "create" /\ loc'[t].nk = None
        /\ loc'[t].op = "supersede" /\ loc'[t].k = k
    BY <1>1, <1>2, <2>0 DEF Frame, IsThread
  <2>2. loc'[t].snap[k] = e
    BY <1>2, <2>0 DEF IsThread
  <2>3. ThreadIn(loc'[t], merges) /\ Promises(loc'[t], k) /\ loc'[t].pc \notin MergePcs
    BY <1>2, <1>3, <1>5, <2>1, <2>2
       DEF ThreadIn, SupersedeIn, MergeIn, MergePcs, UndoIn, Promises
  <2>4. PromiseEffect(t)
    BY <1>1 DEF PromiseEffect, Promises
  <2>5. RowsSafe(t)
    <3>1. CASE rows' = rows
      BY <3>1, NothingWritten
    <3>2. CASE Put(k, Closed(e, "supersession", Successor(k), None))
      <4> DEFINE r == Closed(e, "supersession", Successor(k), None)
                 x == [r EXCEPT !.ver = clock + 1]
      <4>1. RowIn(r) /\ r.by = Successor(k)
        BY <1>2, <1>3, RowClosed, KeyFacts
      <4>2. RowIn(x) /\ x.by = Successor(k)
        BY <4>1, RowStamped
      <4>3. rows' = [rows EXCEPT ![k] = x]
        BY <3>2 DEF Put
      <4> HIDE DEF x
      <4> QED
        BY <1>2, <2>3, <4>2, <4>3 DEF LifeInv, RowsSafe, RowEffect
    <3> QED
      BY <1>5, <3>1, <3>2 DEF NoWrite
  <2> QED
    BY <1>1, <2>1, <2>3, <2>4, <2>5, CalmStep
<1> QED
  BY <1>4, <1>5 DEF SupersedeClose, Skip, NoWrite

\* The successor is created, or its creation fails.
LEMMA CreateKeepsLife ==
  ASSUME LifeInv, NEW t \in Threads, SupersedeCreate(t)
  PROVE  LifeInv'
<1> DEFINE k == loc[t].k
           n == Successor(k)
           r == Construct(rows[n], loc[t].v, FALSE)
           x == [r EXCEPT !.ver = clock + 1]
<1>1. /\ loc[t].op = "supersede" /\ loc[t].pc = "create" /\ UNCHANGED <<merges, overlap, warned>>
  BY DEF SupersedeCreate, At
<1>2. /\ DOMAIN loc = Threads /\ IsThread(loc[t]) /\ loc[t].nk = None /\ ThreadIn(loc[t], merges)
      /\ k \in Sources /\ n \in LKeys /\ n \notin Sources
  BY <1>1, ThreadFacts, KeyFacts DEF MergePcs, ThreadIn, SupersedeIn
<1>3. CASE rows' = rows /\ loc' = [loc EXCEPT ![t].pc = "restore"] /\ removed' = removed
  <2>1. /\ Frame(t) /\ IsThread(loc'[t]) /\ loc'[t].pc = "restore" /\ loc'[t].nk = None
        /\ loc'[t].op = "supersede" /\ loc'[t].k = k /\ loc'[t].snap = loc[t].snap
    BY <1>1, <1>2, <1>3 DEF Frame, IsThread
  <2>2. ThreadIn(loc'[t], merges) /\ loc'[t].pc \notin MergePcs
    BY <1>1, <1>2, <2>1 DEF ThreadIn, SupersedeIn, MergeIn, MergePcs, UndoIn
  <2>3. PromiseEffect(t)
    BY <2>1 DEF PromiseEffect, Promises
  <2> QED
    BY <1>1, <1>3, <2>1, <2>2, <2>3, NothingWritten, CalmStep
<1>4. CASE /\ Put(n, r) /\ removed' = removed \ {n}
           /\ loc' = [loc EXCEPT ![t].snap[n] = x, ![t].pc = "stamp"]
  <2>0. rows[n] = Gone \/ RowIn(rows[n])
    BY <1>2 DEF LifeInv
  <2>1. RowIn(r) /\ (r.by = None \/ (rows[n] # Gone /\ r.by = rows[n].by))
    <3> HIDE DEF n
    <3> QED
      BY <2>0, RowConstructed
  <2>2. r.by = None
    BY <1>2, <2>1 DEF LifeInv, PointersIn, Live
  <2> HIDE DEF r
  <2>3. RowIn(x) /\ x.by = None
    BY <2>1, <2>2, RowStamped
  <2>4. rows' = [rows EXCEPT ![n] = x]
    BY <1>4 DEF Put
  <2> HIDE DEF x, n
  <2>5. /\ Frame(t) /\ IsThread(loc'[t]) /\ loc'[t].pc = "stamp" /\ loc'[t].nk = None
        /\ loc'[t].op = "supersede" /\ loc'[t].k = k /\ loc'[t].snap[n] = x
    BY <1>1, <1>2, <1>4 DEF Frame, IsThread
  <2>6. RowsSafe(t)
    BY <2>3, <2>4, RowWritten
  <2>7. rows'[n] # Gone
    BY <1>2, <2>3, <2>4, GoneFacts, ThreadFacts
  <2>8. ThreadIn(loc'[t], merges) /\ loc'[t].pc \notin MergePcs
    BY <1>2, <2>3, <2>5 DEF n, ThreadIn, SupersedeIn, MergeIn, MergePcs, UndoIn
  <2>9. PromiseEffect(t)
    BY <2>7 DEF PromiseEffect, Promises, n
  <2> QED
    BY <1>1, <1>4, <2>5, <2>6, <2>7, <2>8, <2>9, CalmStep
<1> QED
  BY <1>3, <1>4 DEF SupersedeCreate, NoWrite, Go

\* The pre-image goes back, or the successor is stamped.
LEMMA RestoreKeepsLife ==
  ASSUME LifeInv, NEW t \in Threads, SupersedeRestore(t) \/ SupersedeStamp(t)
  PROVE  LifeInv'
<1> DEFINE k == loc[t].k
           n == Successor(k)
<1>1. /\ loc[t].op = "supersede" /\ loc[t].pc \in {"restore", "stamp"} /\ Done(t)
      /\ UNCHANGED <<merges, overlap, warned, removed>>
  BY DEF SupersedeRestore, SupersedeStamp, At, Quiet, Logs
<1>2. /\ ThreadIn(loc[t], merges) /\ k \in Sources /\ k \in LKeys /\ n \in LKeys /\ n # None
      /\ DOMAIN rows = LKeys
  BY <1>1, ThreadFacts, KeyFacts DEF ThreadIn, SupersedeIn
<1>3. Frame(t) /\ Plain(loc'[t])
  BY <1>1, DoneSteps
<1>4. CASE SupersedeRestore(t)
  <2> DEFINE x == [loc[t].snap[k] EXCEPT !.ver = loc[t].snap[k].ver]
  <2>1. rows' = [rows EXCEPT ![k] = x] /\ loc[t].pc = "restore"
    BY <1>4 DEF SupersedeRestore, PutAt, At
  <2>2. RowIn(loc[t].snap[k]) /\ ~loc[t].snap[k].inv
    BY <1>1, <1>2, <2>1 DEF ThreadIn, SupersedeIn
  <2>3. RowIn(x) /\ x.by = loc[t].snap[k].by
    BY <2>2, RowStamped
  <2>4. loc[t].snap[k].by = None
    BY <2>2 DEF RowIn
  <2> HIDE DEF x
  <2>5. RowsSafe(t)
    BY <2>1, <2>3, <2>4, RowWritten
  <2>6. rows'[k].by # Successor(k) /\ rows'[k] # Gone
    BY <1>2, <2>1, <2>3, <2>4, GoneFacts
  <2>7. PromiseEffect(t)
    BY <2>6 DEF PromiseEffect, Promises
  <2>8. ThreadIn(loc'[t], merges) /\ loc'[t].pc \notin MergePcs
    BY <1>3, PlainIn DEF Plain, PlainPcs, MergePcs
  <2> QED
    BY <1>1, <1>3, <2>5, <2>7, <2>8, CalmStep
<1>5. CASE SupersedeStamp(t)
  <2>1. loc[t].pc = "stamp"
    BY <1>5 DEF SupersedeStamp, At
  <2>2. RowIn(loc[t].snap[n]) /\ loc[t].snap[n].by = None
    BY <1>1, <1>2, <2>1 DEF ThreadIn, SupersedeIn
  <2>3. RowsSafe(t)
    <3>1. CASE rows' = rows
      BY <3>1, NothingWritten
    <3>2. CASE PutAt(n, loc[t].snap[n], loc[t].snap[n].ver)
      <4>1. rows' = [rows EXCEPT ![n] = [loc[t].snap[n] EXCEPT !.ver = loc[t].snap[n].ver]]
        BY <3>2 DEF PutAt
      <4> QED
        BY <2>2, <4>1, LivePut
    <3> QED
      BY <1>5, <3>1, <3>2 DEF SupersedeStamp, Skip, NoWrite
  <2> QED
    BY <1>1, <1>3, <2>1, <2>3, PlainStep
<1> QED
  BY <1>4, <1>5

\* The scans and the end of a sweep write nothing.
LEMMA ScanKeepsLife ==
  ASSUME LifeInv, NEW t \in Threads,
         GcScan(t) \/ RefreshScan(t) \/ DecayScan(t) \/ SweepEnd(t) \/ RefreshArchive(t)
  PROVE  LifeInv'
<1>1. /\ loc[t].op # "supersede" /\ loc[t].pc \in {"scan", "archive", "demote"}
      /\ rows' = rows /\ UNCHANGED <<merges, overlap, warned, removed>>
  BY DEF GcScan, RefreshScan, DecayScan, SweepEnd, RefreshArchive, At, Skip, NoWrite, Quiet, Logs
<1>2. /\ DOMAIN loc = Threads /\ IsThread(loc[t]) /\ loc[t].nk = None /\ DOMAIN rows = LKeys
  BY <1>1, ThreadFacts DEF MergePcs
<1>3. Frame(t) /\ Plain(loc'[t])
  <2>1. CASE GcScan(t)
    <3>1. PICK c : loc' = [loc EXCEPT ![t].todo = c, ![t].snap = rows, ![t].pc = "archive"]
      BY <2>1 DEF GcScan
    <3> QED
      BY <1>2, <3>1 DEF Frame, Plain, PlainPcs, IsThread
  <2>2. CASE RefreshScan(t)
    <3>1. PICK a, c : loc' = [loc EXCEPT ![t].todo = a, ![t].cl = c, ![t].pc = "archive"]
      BY <2>2 DEF RefreshScan
    <3> QED
      BY <1>2, <3>1 DEF Frame, Plain, PlainPcs, IsThread
  <2>3. CASE DecayScan(t)
    <3>1. PICK c : loc' = [loc EXCEPT ![t].todo = c, ![t].snap = rows, ![t].pc = "demote"]
      BY <2>3 DEF DecayScan
    <3> QED
      BY <1>2, <3>1 DEF Frame, Plain, PlainPcs, IsThread
  <2>4. CASE SweepEnd(t)
    BY <2>4, DoneSteps DEF SweepEnd
  <2>5. CASE RefreshArchive(t)
    <3>1. PICK k : \/ loc' = [loc EXCEPT ![t].todo = @ \ {k}]
                   \/ loc' = [loc EXCEPT ![t].todo = @ \ {k}, ![t].done = @ \cup {k}]
      BY <2>5 DEF RefreshArchive
    <3> QED
      BY <1>1, <1>2, <3>1 DEF Frame, Plain, PlainPcs, IsThread
  <2> QED
    BY <2>1, <2>2, <2>3, <2>4, <2>5
<1> QED
  BY <1>1, <1>3, NothingWritten, PlainStep

\* gc's candidates are skipped, stamped or archived.
LEMMA GcKeepsLife ==
  ASSUME LifeInv, NEW t \in Threads, GcArchive(t)
  PROVE  LifeInv'
<1>1. /\ loc[t].op # "supersede" /\ loc[t].pc = "archive"
      /\ UNCHANGED <<merges, overlap, warned, removed>>
  BY DEF GcArchive, At
<1>2. /\ DOMAIN loc = Threads /\ IsThread(loc[t]) /\ loc[t].nk = None
  BY <1>1, ThreadFacts DEF MergePcs
<1>3. PICK k : /\ \/ loc' = [loc EXCEPT ![t].todo = @ \ {k}]
                  \/ loc' = [loc EXCEPT ![t].todo = @ \ {k}, ![t].done = @ \cup {k}]
               /\ rows' = rows \/ (Live(k) /\ Put(k, rows[k]))
  BY DEF GcArchive, Skip, NoWrite
<1>4. Frame(t) /\ Plain(loc'[t])
  BY <1>1, <1>2, <1>3 DEF Frame, Plain, PlainPcs, IsThread
<1>5. RowsSafe(t)
  <2>1. CASE rows' = rows
    BY <2>1, NothingWritten
  <2>2. CASE Live(k) /\ Put(k, rows[k])
    BY <2>2, LivePut, LiveRow DEF Put
  <2> QED
    BY <1>3, <2>1, <2>2
<1> QED
  BY <1>1, <1>4, <1>5, PlainStep

\* What a sweep deletes is removed on purpose.
LEMMA SweepDeleteKeepsLife ==
  ASSUME LifeInv, NEW t \in Threads, SweepDelete(t)
  PROVE  LifeInv'
<1>1. /\ loc[t].op # "supersede" /\ loc[t].pc = "archive" /\ UNCHANGED <<merges, overlap, warned>>
  BY DEF SweepDelete
<1>2. /\ DOMAIN loc = Threads /\ IsThread(loc[t]) /\ loc[t].nk = None
  BY <1>1, ThreadFacts DEF MergePcs
<1>3. PICK k : Drop(k) /\ removed' = removed \cup {k} /\ loc' = [loc EXCEPT ![t].done = @ \ {k}]
  BY DEF SweepDelete
<1>4. Frame(t) /\ Plain(loc'[t])
  BY <1>1, <1>2, <1>3 DEF Frame, Plain, PlainPcs, IsThread
<1> QED
  BY <1>1, <1>3, <1>4, RowDropped, PlainStep

\* A stale row is closed, a learning is demoted, or the pass gives up.
LEMMA SweepWriteKeepsLife ==
  ASSUME LifeInv, NEW t \in Threads, RefreshClose(t) \/ DecayDemote(t)
  PROVE  LifeInv'
<1>1. /\ loc[t].op # "supersede" /\ loc[t].pc \in {"archive", "demote"}
      /\ UNCHANGED <<merges, overlap, warned, removed>>
  BY DEF RefreshClose, DecayDemote, At, Quiet, Logs
<1>2. /\ DOMAIN loc = Threads /\ IsThread(loc[t]) /\ loc[t].nk = None
  BY <1>1, ThreadFacts DEF MergePcs
<1>3. PICK k : /\ \/ loc' = [loc EXCEPT ![t].todo = @ \ {k}] \/ loc' = [loc EXCEPT ![t].cl = @ \ {k}]
                  \/ Done(t)
               /\ \/ rows' = rows
                  \/ Live(k) /\ Put(k, Closed(rows[k], "age", None, None))
                  \/ Live(k) /\ PutAt(k, [rows[k] EXCEPT !.promo = "demoted"], rows[k].ver)
  <2>1. CASE RefreshClose(t)
    BY <2>1 DEF RefreshClose, NoWrite
  <2>2. CASE DecayDemote(t)
    BY <2>2 DEF DecayDemote, NoWrite
  <2> QED
    BY <2>1, <2>2
<1>4. Frame(t) /\ Plain(loc'[t])
  <2>1. CASE Done(t)
    BY <2>1, DoneSteps
  <2>2. CASE loc' = [loc EXCEPT ![t].todo = @ \ {k}] \/ loc' = [loc EXCEPT ![t].cl = @ \ {k}]
    BY <1>1, <1>2, <2>2 DEF Frame, Plain, PlainPcs, IsThread
  <2> QED
    BY <1>3, <2>1, <2>2
<1>5. RowsSafe(t)
  <2>1. CASE rows' = rows
    BY <2>1, NothingWritten
  <2>2. CASE Live(k) /\ Put(k, Closed(rows[k], "age", None, None))
    <3> DEFINE r == Closed(rows[k], "age", None, None)
    <3>1. k \in LKeys => RowIn(r) /\ rows[k] # Gone /\ r.by = rows[k].by
      BY <2>2, LiveRow, RowClosed
    <3>2. rows' = [rows EXCEPT ![k] = [r EXCEPT !.ver = clock + 1]]
      BY <2>2 DEF Put
    <3> HIDE DEF r
    <3> QED
      BY <3>1, <3>2, LivePut
  <2>3. CASE Live(k) /\ PutAt(k, [rows[k] EXCEPT !.promo = "demoted"], rows[k].ver)
    <3> DEFINE r == [rows[k] EXCEPT !.promo = "demoted"]
    <3>1. k \in LKeys => RowIn(r) /\ rows[k] # Gone /\ r.by = rows[k].by
      BY <2>3, LiveRow, RowPromoted
    <3>2. rows' = [rows EXCEPT ![k] = [r EXCEPT !.ver = rows[k].ver]]
      BY <2>3 DEF PutAt
    <3> HIDE DEF r
    <3> QED
      BY <3>1, <3>2, LivePut
  <2> QED
    BY <1>3, <2>1, <2>2, <2>3
<1> QED
  BY <1>1, <1>4, <1>5, PlainStep

-----------------------------------------------------------------------------
(* Merges *)

\* A thread that merges, enters a merge or undoes one has promised nothing.
LEMMA MergeKeepsPromises ==
  ASSUME LifeInv, NEW t \in Threads, loc[t].pc \in MergePcs \cup {"pick", "undo"}
  PROVE  PromiseEffect(t)
BY DEF PromiseEffect, Promises, MergePcs

\* Only members of its group point to a merged row.
LEMMA PointersFromGroup ==
  ASSUME LifeInv, NEW n \in Groups, NEW j \in LKeys, rows[j] # Gone, rows[j].by = n
  PROVE  j \in n /\ j \in Sources
BY KeyFacts DEF LifeInv, PointersIn, Live

\* What a thread that merges holds.
LEMMA MergerFacts ==
  ASSUME LifeInv, NEW t \in Threads, loc[t].pc \in MergePcs
  PROVE  /\ DOMAIN loc = Threads /\ DOMAIN rows = LKeys /\ DOMAIN merges = LKeys
         /\ ThreadIn(loc[t], merges) /\ IsThread(loc[t])
         /\ loc[t].nk \in Groups /\ loc[t].nk \in LKeys /\ loc[t].nk # None
         /\ loc[t].todo \subseteq loc[t].nk /\ loc[t].nk \subseteq LKeys
         /\ loc[t].pc = "close" => loc[t].k \in loc[t].nk
<1>1. /\ ThreadIn(loc[t], merges) /\ loc[t].nk \in Groups /\ loc[t].todo \subseteq loc[t].nk
      /\ loc[t].pc = "close" => loc[t].k \in loc[t].nk
  BY DEF LifeInv, ThreadIn, MergeIn
<1>2. loc[t].nk \subseteq LKeys
  BY <1>1, KeyFacts DEF Groups
<1> QED
  BY <1>1, <1>2, KeyFacts, ThreadFacts

\* A step that leaves its merge behind, having written rows safely.
LEMMA MergeEnds ==
  ASSUME LifeInv, NEW t \in Threads, loc[t].pc \in MergePcs \cup {"pick", "undo"}, Done(t),
         RowsSafe(t), LogsEffect
  PROVE  LifeInv'
<1>1. Frame(t) /\ Plain(loc'[t]) /\ loc'[t] = Idle
  BY DoneSteps
<1>2. ThreadIn(loc'[t], merges')
  BY <1>1, PlainIn
<1>3. loc'[t].nk = None /\ loc'[t].pc # "rollback"
  BY <1>1 DEF Plain, PlainPcs
<1>4. MergeEffect(t) /\ RollbackEffect(t)
  BY <1>3, KeyFacts DEF MergeEffect, RollbackEffect, Merges
<1>5. Effect(t)
  BY <1>1, <1>2, <1>4, MergeKeepsPromises DEF Effect, Frame, RowsSafe
<1> QED
  BY <1>5, EffectKeepsLife

\* A step that goes on with a merge that has saved its row.
LEMMA MergeGoesOn ==
  ASSUME LifeInv, NEW t \in Threads, loc[t].pc \in MergePcs \ {"save"}, Frame(t),
         IsThread(loc'[t]), loc'[t].nk = loc[t].nk, loc'[t].todo \subseteq loc[t].nk,
         loc'[t].pc \in {"check", "close", "audit", "rollback"},
         loc'[t].pc = "close" => loc'[t].k \in loc[t].nk,
         RowsSafe(t), RollbackEffect(t),
         overlap \subseteq overlap', warned \subseteq warned', UNCHANGED <<merges, removed>>
  PROVE  LifeInv'
<1>1. ThreadIn(loc'[t], merges')
  BY MergerFacts DEF ThreadIn, SupersedeIn, MergeIn, MergePcs, UndoIn
<1>2. MergeEffect(t)
  BY DEF MergeEffect, Merges, MergePcs
<1>3. LogsEffect
  BY ThreadFacts DEF LogsEffect
<1>4. Effect(t)
  BY <1>1, <1>2, <1>3, MergeKeepsPromises DEF Effect, Frame, RowsSafe
<1> QED
  BY <1>4, EffectKeepsLife

\* A merge that gives up starts its roll-back with the whole group to reopen.
LEMMA GivingUp ==
  ASSUME LifeInv, NEW t \in Threads, loc[t].pc \in {"carry", "check", "close"},
         loc' = [loc EXCEPT ![t].todo = loc[t].nk, ![t].pc = "rollback"], rows' = rows,
         UNCHANGED <<merges, overlap, warned, removed>>
  PROVE  LifeInv'
<1>1. loc[t].pc \in MergePcs \ {"save"}
  BY DEF MergePcs
<1>2. /\ Frame(t) /\ IsThread(loc'[t]) /\ loc'[t].nk = loc[t].nk /\ loc'[t].todo = loc[t].nk
      /\ loc'[t].pc = "rollback"
  BY <1>1, MergerFacts DEF Frame, IsThread
<1>3. RollbackEffect(t)
  BY <1>1, <1>2, MergerFacts, PointersFromGroup DEF RollbackEffect
<1> QED
  BY <1>1, <1>2, <1>3, NothingWritten, MergeGoesOn

\* The on-save merge takes the flag or leaves.
LEMMA EnterKeepsLife ==
  ASSUME LifeInv, NEW t \in Threads, MergeEnter(t)
  PROVE  LifeInv'
<1>1. /\ loc[t].op # "supersede" /\ loc[t].pc = "enter" /\ rows' = rows
      /\ UNCHANGED <<merges, overlap, warned, removed>>
  BY DEF MergeEnter, At, Skip, NoWrite, Logs
<1>2. /\ DOMAIN loc = Threads /\ IsThread(loc[t]) /\ loc[t].nk = None
  BY <1>1, ThreadFacts DEF MergePcs
<1>3. Frame(t) /\ Plain(loc'[t])
  <2>1. CASE Done(t)
    BY <2>1, DoneSteps
  <2>2. CASE loc' = [loc EXCEPT ![t].pc = "pick"]
    BY <1>2, <2>2 DEF Frame, Plain, PlainPcs, IsThread
  <2> QED
    BY <2>1, <2>2 DEF MergeEnter, Go
<1> QED
  BY <1>1, <1>3, NothingWritten, PlainStep

\* A merge picks its group, or there is none.
LEMMA PickKeepsLife ==
  ASSUME LifeInv, NEW t \in Threads, MergePick(t)
  PROVE  LifeInv'
<1>1. loc[t].pc = "pick" /\ rows' = rows /\ UNCHANGED <<merges, overlap, warned, removed>>
  BY DEF MergePick, Skip, NoWrite, Logs
<1>2. /\ DOMAIN loc = Threads /\ IsThread(loc[t]) /\ loc[t].nk = None /\ DOMAIN merges = LKeys
  BY <1>1, ThreadFacts DEF MergePcs
<1>3. LogsEffect
  BY <1>1, <1>2 DEF LogsEffect
<1>4. CASE Done(t)
  BY <1>1, <1>3, <1>4, NothingWritten, MergeEnds
<1>5. CASE ~Done(t)
  <2> DEFINE own == IF loc[t].op = "merge" THEN {loc[t].k} ELSE {}
  <2>0. PICK g \in SUBSET Sources : PickGroup(t, own, g)
    BY <1>5 DEF MergePick, MergeEnd
  <2> DEFINE s == Snapshot(loc[t].snap, own, g)
  <2>1. /\ Cardinality(g) >= 2 /\ DOMAIN s = LKeys
        /\ loc' = [loc EXCEPT ![t].nk = g, ![t].todo = g, ![t].pc = "save", ![t].snap = s]
    <3>1. DOMAIN s = LKeys
      BY DEF Snapshot
    <3>2. Cardinality(g) >= 2
      BY <2>0 DEF PickGroup
    <3>3. loc' = [loc EXCEPT ![t].nk = g, ![t].todo = g, ![t].pc = "save", ![t].snap = s]
      BY <2>0 DEF PickGroup, MergedKey
    <3> QED
      BY <3>1, <3>2, <3>3
  <2> HIDE DEF s
  <2>2. g \in Groups
    BY <2>1 DEF Groups
  <2>3. /\ Frame(t) /\ IsThread(loc'[t]) /\ loc'[t].nk = g /\ loc'[t].todo = g
        /\ loc'[t].pc = "save"
    BY <1>2, <2>1 DEF Frame, IsThread
  <2>4. ThreadIn(loc'[t], merges')
    BY <2>2, <2>3 DEF ThreadIn, SupersedeIn, MergeIn, MergePcs, UndoIn
  <2>5. MergeEffect(t) /\ RollbackEffect(t)
    BY <2>3 DEF MergeEffect, RollbackEffect, Merges
  <2>6. Effect(t)
    BY <1>1, <1>3, <2>3, <2>4, <2>5, NothingWritten, MergeKeepsPromises DEF Effect, Frame, RowsSafe
  <2> QED
    BY <2>6, EffectKeepsLife
<1> QED
  BY <1>4, <1>5

\* The merged row is saved: another merge of the group past its save is noted.
LEMMA MergeSaveKeepsLife ==
  ASSUME LifeInv, NEW t \in Threads, MergeSave(t)
  PROVE  LifeInv'
<1> DEFINE n == loc[t].nk
           r == Construct(rows[n], MergedVal, FALSE)
<1>1. loc[t].pc = "save" /\ loc[t].pc \in MergePcs /\ UNCHANGED <<merges, warned>>
  BY DEF MergeSave, MergePcs
<1>2. n \in Groups /\ n \in LKeys /\ IsThread(loc[t]) /\ DOMAIN loc = Threads
      /\ DOMAIN merges = LKeys /\ DOMAIN rows = LKeys /\ ThreadIn(loc[t], merges)
  BY <1>1, MergerFacts
<1>3. CASE rows' = rows /\ Done(t) /\ UNCHANGED <<removed, overlap>>
  <2>1. LogsEffect
    BY <1>1, <1>2, <1>3 DEF LogsEffect
  <2> QED
    BY <1>1, <1>3, <2>1, NothingWritten, MergeEnds
<1>4. CASE /\ Put(n, r) /\ Go(t, "carry") /\ removed' = removed \ {n}
           /\ overlap' = overlap \cup {loc[u].nk : u \in {u \in Threads \ {t} :
                                loc[u].nk = n /\ loc[u].pc # "save"}}
  <2>1. rows[n] = Gone \/ RowIn(rows[n])
    BY <1>2 DEF LifeInv
  <2>2. RowIn(r) /\ (r.by = None \/ (rows[n] # Gone /\ r.by = rows[n].by))
    <3> HIDE DEF n
    <3> QED
      BY <2>1, RowConstructed
  <2>3. rows' = [rows EXCEPT ![n] = [r EXCEPT !.ver = clock + 1]]
    BY <1>4 DEF Put
  <2> HIDE DEF r
  <2>4. RowsSafe(t) /\ rows'[n] # Gone
    BY <1>2, <2>2, <2>3, LivePut
  <2>5. /\ Frame(t) /\ IsThread(loc'[t]) /\ loc'[t].nk = n /\ loc'[t].todo = loc[t].todo
        /\ loc'[t].pc = "carry"
    BY <1>2, <1>4 DEF Go, Frame, IsThread
  <2>6. ThreadIn(loc'[t], merges')
    BY <1>1, <1>2, <2>5 DEF ThreadIn, SupersedeIn, MergeIn, MergePcs, UndoIn
  <2>7. n \in overlap' \/ \A u \in Threads \ {t} : ~Merges(loc[u], n)
    BY <1>4 DEF Merges
  <2>8. MergeEffect(t) /\ RollbackEffect(t)
    BY <2>4, <2>5, <2>7 DEF MergeEffect, RollbackEffect, Merges
  <2>9. LogsEffect
    BY <1>1, <1>2, <1>4, <2>4 DEF LogsEffect
  <2>10. Effect(t)
    BY <1>1, <2>4, <2>5, <2>6, <2>8, <2>9, MergeKeepsPromises DEF Effect, Frame, RowsSafe
  <2> QED
    BY <2>10, EffectKeepsLife
<1> QED
  BY <1>3, <1>4 DEF MergeSave, MergeEnd, NoWrite

\* The merged row takes its sources' promotion.
LEMMA CarryKeepsLife ==
  ASSUME LifeInv, NEW t \in Threads, MergeCarry(t)
  PROVE  LifeInv'
<1> DEFINE n == loc[t].nk
<1>1. loc[t].pc = "carry" /\ loc[t].pc \in MergePcs \ {"save"}
      /\ UNCHANGED <<merges, overlap, warned, removed>>
  BY DEF MergeCarry, MergePcs, Quiet, Logs
<1>2. /\ DOMAIN loc = Threads /\ IsThread(loc[t]) /\ ThreadIn(loc[t], merges) /\ n \in LKeys
      /\ loc[t].todo = n
  BY <1>1, MergerFacts DEF ThreadIn, MergeIn
<1>3. PICK p : \/ /\ rows' = rows \/ (Live(n) /\ Put(n, [rows[n] EXCEPT !.promo = p]))
                  /\ Go(t, "check")
               \/ rows' = rows /\ Go(t, "rollback")
  BY DEF MergeCarry, NoWrite
<1>4. CASE Go(t, "check")
  <2>1. /\ Frame(t) /\ IsThread(loc'[t]) /\ loc'[t].nk = n /\ loc'[t].todo = n
        /\ loc'[t].pc = "check"
    BY <1>2, <1>4 DEF Go, Frame, IsThread
  <2>2. RowsSafe(t)
    <3>1. CASE rows' = rows
      BY <3>1, NothingWritten
    <3>2. CASE Live(n) /\ Put(n, [rows[n] EXCEPT !.promo = p])
      <4> DEFINE r == [rows[n] EXCEPT !.promo = p]
      <4>1. RowIn(r) /\ rows[n] # Gone /\ r.by = rows[n].by
        BY <1>2, <3>2, LiveRow, RowPromoted
      <4>2. rows' = [rows EXCEPT ![n] = [r EXCEPT !.ver = clock + 1]]
        BY <3>2 DEF Put
      <4> HIDE DEF r
      <4> QED
        BY <4>1, <4>2, LivePut
    <3> QED
      BY <1>3, <3>1, <3>2
  <2>3. RollbackEffect(t)
    BY <2>1 DEF RollbackEffect
  <2> QED
    BY <1>1, <2>1, <2>2, <2>3, MergeGoesOn
<1>5. CASE rows' = rows /\ Go(t, "rollback")
  <2>1. loc' = [loc EXCEPT ![t].todo = loc[t].nk, ![t].pc = "rollback"]
    BY <1>2, <1>5 DEF Go, IsThread
  <2> QED
    BY <1>1, <1>5, <2>1, GivingUp
<1> QED
  BY <1>3, <1>4, <1>5

\* A source is found as it was, or the merge gives up.
LEMMA CheckKeepsLife ==
  ASSUME LifeInv, NEW t \in Threads, MergeCheck(t)
  PROVE  LifeInv'
<1>1. /\ loc[t].pc = "check" /\ loc[t].pc \in MergePcs \ {"save"} /\ rows' = rows
      /\ UNCHANGED <<merges, overlap, warned, removed>>
  BY DEF MergeCheck, MergePcs, Quiet, Logs, Skip, NoWrite
<1>2. /\ DOMAIN loc = Threads /\ IsThread(loc[t]) /\ loc[t].todo \subseteq loc[t].nk
  BY <1>1, MergerFacts
<1>3. PICK j \in loc[t].todo : \/ loc' = [loc EXCEPT ![t].k = j, ![t].pc = "close"]
                               \/ loc' = [loc EXCEPT ![t].todo = loc[t].nk, ![t].pc = "rollback"]
  BY DEF MergeCheck
<1>4. CASE loc' = [loc EXCEPT ![t].todo = loc[t].nk, ![t].pc = "rollback"]
  BY <1>1, <1>4, GivingUp
<1>5. CASE loc' = [loc EXCEPT ![t].k = j, ![t].pc = "close"]
  <2>1. /\ Frame(t) /\ IsThread(loc'[t]) /\ loc'[t].nk = loc[t].nk /\ loc'[t].todo = loc[t].todo
        /\ loc'[t].pc = "close" /\ loc'[t].k = j
    BY <1>2, <1>5 DEF Frame, IsThread
  <2>2. RollbackEffect(t)
    BY <2>1 DEF RollbackEffect
  <2> QED
    BY <1>1, <1>2, <2>1, <2>2, NothingWritten, MergeGoesOn
<1> QED
  BY <1>3, <1>4, <1>5

\* A source is closed in favour of the merged row, or the merge gives up.
LEMMA MergeCloseKeepsLife ==
  ASSUME LifeInv, NEW t \in Threads, MergeClose(t)
  PROVE  LifeInv'
<1> DEFINE j == loc[t].k
           n == loc[t].nk
<1>1. /\ loc[t].pc = "close" /\ loc[t].pc \in MergePcs \ {"save"}
      /\ UNCHANGED <<merges, overlap, warned, removed>>
  BY DEF MergeClose, MergePcs, Quiet, Logs
<1>2. /\ DOMAIN loc = Threads /\ IsThread(loc[t]) /\ loc[t].todo \subseteq n /\ j \in n
      /\ n # None /\ j \in LKeys /\ DOMAIN rows = LKeys
  BY <1>1, MergerFacts
<1>3. CASE /\ Live(j) /\ Put(j, Closed(rows[j], "consolidation", n, n))
           /\ loc' = [loc EXCEPT ![t].todo = @ \ {j},
                                 ![t].pc = IF loc[t].todo = {j} THEN "audit" ELSE "check"]
  <2>1. /\ Frame(t) /\ IsThread(loc'[t]) /\ loc'[t].nk = n /\ loc'[t].todo = loc[t].todo \ {j}
        /\ loc'[t].pc \in {"check", "audit"}
    BY <1>2, <1>3 DEF Frame, IsThread
  <2>2. RowsSafe(t)
    <3> DEFINE r == Closed(rows[j], "consolidation", n, n)
               x == [r EXCEPT !.ver = clock + 1]
    <3>1. RowIn(rows[j])
      BY <1>2, <1>3, LiveRow
    <3>2. RowIn(r) /\ r.by = n
      <4> HIDE DEF n, j
      <4> QED
        BY <1>2, <3>1, RowClosed
    <3>3. rows' = [rows EXCEPT ![j] = x]
      BY <1>3 DEF Put
    <3> HIDE DEF r
    <3>4. RowIn(x) /\ x.by = n
      BY <3>2, RowStamped
    <3> HIDE DEF x
    <3> QED
      BY <1>1, <1>2, <3>3, <3>4 DEF RowsSafe, RowEffect
  <2>3. RollbackEffect(t)
    BY <2>1 DEF RollbackEffect
  <2> QED
    BY <1>1, <1>2, <2>1, <2>2, <2>3, MergeGoesOn
<1>4. CASE rows' = rows /\ loc' = [loc EXCEPT ![t].todo = n, ![t].pc = "rollback"]
  BY <1>1, <1>4, GivingUp
<1> QED
  BY <1>3, <1>4 DEF MergeClose, Skip, NoWrite

\* The merge is recorded: its key and its sources are one set.
LEMMA AuditKeepsLife ==
  ASSUME LifeInv, NEW t \in Threads, MergeAudit(t)
  PROVE  LifeInv'
<1>1. /\ loc[t].pc = "audit" /\ loc[t].pc \in MergePcs /\ Done(t) /\ rows' = rows
      /\ merges' = [merges EXCEPT ![loc[t].nk] = loc[t].nk]
      /\ UNCHANGED <<overlap, warned, removed>>
  BY DEF MergeAudit, MergePcs, MergeEnd, Skip, NoWrite
<1>2. LogsEffect
  BY <1>1, MergerFacts DEF LogsEffect
<1> QED
  BY <1>1, <1>2, NothingWritten, MergeEnds

\* A source is reopened, or its failure is logged.
LEMMA RollbackKeepsLife ==
  ASSUME LifeInv, NEW t \in Threads, MergeRollback(t)
  PROVE  LifeInv'
<1> DEFINE n == loc[t].nk
<1>1. /\ loc[t].pc = "rollback" /\ loc[t].pc \in MergePcs \ {"save"}
      /\ UNCHANGED <<merges, overlap, removed>>
  BY DEF MergeRollback, MergePcs
<1>2. /\ DOMAIN loc = Threads /\ IsThread(loc[t]) /\ loc[t].todo \subseteq n /\ n \in Groups
      /\ n # None /\ n \subseteq LKeys /\ DOMAIN rows = LKeys
  BY <1>1, MergerFacts
<1>3. PICK j \in loc[t].todo :
        /\ loc' = [loc EXCEPT ![t].todo = @ \ {j}]
        /\ \/ Live(j) /\ Put(j, Reopened(rows[j])) /\ UNCHANGED warned
           \/ ~Live(j) /\ rows' = rows /\ UNCHANGED warned
           \/ rows' = rows /\ warned' = warned \cup {n}
  BY DEF MergeRollback, Skip, NoWrite
<1>4. /\ Frame(t) /\ IsThread(loc'[t]) /\ loc'[t].nk = n /\ loc'[t].todo = loc[t].todo \ {j}
      /\ loc'[t].pc = "rollback"
  BY <1>1, <1>2, <1>3 DEF Frame, IsThread
<1>5. n \notin overlap \cup warned =>
        \A i \in LKeys : rows[i] # Gone /\ rows[i].by = n => i \in loc[t].todo
  BY <1>1 DEF LifeInv, RollbackIn, Live
<1>6. CASE Live(j) /\ Put(j, Reopened(rows[j])) /\ UNCHANGED warned
  <2> DEFINE r == Reopened(rows[j])
             x == [r EXCEPT !.ver = clock + 1]
  <2>1. j \in LKeys /\ RowIn(rows[j])
    BY <1>2, <1>6, LiveRow
  <2>2. RowIn(r) /\ r.by = None
    BY <2>1, RowReopened
  <2>3. rows' = [rows EXCEPT ![j] = x]
    BY <1>6 DEF Put
  <2> HIDE DEF r
  <2>4. RowIn(x) /\ x.by = None
    BY <2>2, RowStamped
  <2> HIDE DEF x
  <2>5. RowsSafe(t)
    BY <2>3, <2>4, RowWritten
  <2>6. RollbackEffect(t)
    BY <1>1, <1>2, <1>4, <1>5, <1>6, <2>1, <2>3, <2>4 DEF RollbackEffect
  <2> QED
    BY <1>1, <1>2, <1>4, <1>6, <2>5, <2>6, MergeGoesOn
<1>7. CASE ~Live(j) /\ rows' = rows /\ UNCHANGED warned
  <2>1. RollbackEffect(t)
    BY <1>1, <1>4, <1>5, <1>7 DEF RollbackEffect, Live
  <2> QED
    BY <1>1, <1>2, <1>4, <1>7, <2>1, NothingWritten, MergeGoesOn
<1>8. CASE rows' = rows /\ warned' = warned \cup {n}
  <2>1. RollbackEffect(t)
    BY <1>4, <1>8 DEF RollbackEffect
  <2> QED
    BY <1>1, <1>2, <1>4, <1>8, <2>1, NothingWritten, MergeGoesOn
<1> QED
  BY <1>3, <1>6, <1>7, <1>8

\* The merged row goes when nothing points to it and no other merge made it too.
LEMMA DropKeepsLife ==
  ASSUME LifeInv, NEW t \in Threads, MergeDrop(t)
  PROVE  LifeInv'
<1> DEFINE n == loc[t].nk
<1>1. /\ loc[t].pc = "rollback" /\ loc[t].pc \in MergePcs /\ loc[t].todo = {} /\ Done(t)
      /\ UNCHANGED <<merges, overlap, removed>> /\ warned \subseteq warned'
  BY DEF MergeDrop, MergePcs, MergeEnd
<1>2. /\ n \in Groups /\ n \in LKeys /\ DOMAIN rows = LKeys /\ DOMAIN merges = LKeys
  BY <1>1, MergerFacts
<1>3. LogsEffect
  BY <1>1, <1>2 DEF LogsEffect
<1>4. RowsSafe(t)
  <2>1. CASE rows' = rows
    BY <2>1, NothingWritten
  <2>2. CASE Drop(n)
    <3>1. rows' = [rows EXCEPT ![n] = Gone]
      BY <2>2 DEF Drop
    <3>2. n \in overlap \cup warned \/ \A j \in LKeys : rows[j] # Gone => rows[j].by # n
      BY <1>1 DEF LifeInv, RollbackIn, Live
    <3>3. n \in overlap \/ \A u \in Threads : ~Merges(loc'[u], n)
      <4> SUFFICES ASSUME n \notin overlap, NEW u \in Threads, Merges(loc'[u], n)
                   PROVE  FALSE
        OBVIOUS
      <4>1. Frame(t) /\ loc'[t].nk = None
        BY <1>1, DoneSteps DEF Plain
      <4>2. u # t
        BY <1>2, <4>1, KeyFacts DEF Merges
      <4>3. Merges(loc[u], n) /\ Merges(loc[t], n)
        BY <1>1, <4>1, <4>2 DEF Frame, Merges
      <4> QED
        BY <1>2, <4>2, <4>3 DEF LifeInv, OneMerger
    <3>4. Vacated(t, n)
      BY <1>1, <1>2, <3>1, <3>2, <3>3 DEF Vacated
    <3> QED
      BY <1>2, <3>1, <3>4 DEF RowsSafe, RowEffect
  <2> QED
    BY <2>1, <2>2 DEF MergeDrop, NoWrite
<1> QED
  BY <1>1, <1>3, <1>4, MergeEnds

\* undo reopens every source that points to the merged row before it goes.
LEMMA UndoKeepsLife ==
  ASSUME LifeInv, NEW t \in Threads, UndoMerge(t)
  PROVE  LifeInv'
<1> DEFINE n == loc[t].k
<1>1. /\ loc[t].op = "undoMerge" /\ loc[t].pc = "undo" /\ Done(t)
      /\ UNCHANGED <<merges, removed, warned>>
  BY DEF UndoMerge, At
<1>2. /\ n \in Groups /\ merges[n] = n /\ DOMAIN loc = Threads /\ DOMAIN rows = LKeys
      /\ DOMAIN merges = LKeys
  BY <1>1, ThreadFacts DEF ThreadIn, UndoIn
<1>3. n \in LKeys /\ n \notin Sources /\ n # None /\ n \subseteq Sources /\ n \subseteq LKeys
  BY <1>2, KeyFacts DEF Groups
<1>4. LogsEffect /\ RowsSafe(t)
  <2>1. CASE rows' = rows /\ overlap' = overlap
    BY <1>1, <1>2, <2>1, NothingWritten DEF LogsEffect
  <2>2. CASE /\ \A j \in n : Live(j)
             /\ rows' = [j \in LKeys |->
                    IF j = n THEN Gone
                    ELSE IF j \in n THEN [Reopened(rows[j]) EXCEPT !.ver = clock + 1]
                    ELSE rows[j]]
             /\ overlap' = overlap \cup {loc[u].nk : u \in {u \in Threads : loc[u].nk = n}}
    <3>1. LogsEffect
      BY <1>1, <1>2, <2>2 DEF LogsEffect
    <3>2. ASSUME NEW j \in n
          PROVE  RowIn(rows'[j]) /\ rows'[j].by = None
      <4>1. j \in LKeys /\ j # n /\ RowIn(rows[j])
        BY <1>3, <2>2, LiveRow
      <4>2. rows'[j] = [Reopened(rows[j]) EXCEPT !.ver = clock + 1]
        BY <2>2, <4>1
      <4>3. RowIn(Reopened(rows[j])) /\ Reopened(rows[j]).by = None
        BY <4>1, RowReopened
      <4> QED
        BY <4>2, <4>3, RowStamped
    <3>3. DOMAIN rows' = LKeys /\ rows'[n] = Gone /\ \A j \in LKeys \ {n} : j \notin n => rows'[j] = rows[j]
      BY <1>3, <2>2
    <3>4. \A j \in LKeys : rows'[j] # Gone => rows'[j].by # n
      BY <1>2, <1>3, <3>2, <3>3, PointersFromGroup
    <3>5. n \in overlap' \/ \A u \in Threads : ~Merges(loc'[u], n)
      <4>1. Frame(t) /\ loc'[t].nk = None
        BY <1>1, DoneSteps DEF Plain
      <4> QED
        BY <1>3, <2>2, <4>1 DEF Frame, Merges
    <3>6. Vacated(t, n)
      BY <1>2, <3>4, <3>5 DEF Vacated
    <3>7. RowsSafe(t)
      BY <3>2, <3>3, <3>6 DEF RowsSafe, RowEffect
    <3> QED
      BY <3>1, <3>7
  <2> QED
    BY <1>2, <2>1, <2>2 DEF UndoMerge, Skip, NoWrite
<1> QED
  BY <1>1, <1>4, MergeEnds

-----------------------------------------------------------------------------
(* The invariant holds throughout *)

\* The rows there are at the start are open and point nowhere.
LEMMA LifeInit ==
  ASSUME LifecycleInit
  PROVE  LifeInv
<1>1. \A k \in LKeys : rows[k] = Gone \/ (RowIn(rows[k]) /\ rows[k].by = None)
  BY RowMade DEF LifecycleInit
<1>2. \A t \in Threads : /\ ThreadIn(loc[t], merges) /\ loc[t].nk = None
                         /\ loc[t].pc # "rollback"
  BY IdleFacts, PlainIn DEF LifecycleInit, Plain, PlainPcs
<1>3. \A k \in LKeys : Live(k) => rows[k].by = None
  BY <1>1 DEF Live
<1>4. PointersIn /\ SuccessorsIn /\ MergedIn
  BY <1>3, KeyFacts DEF PointersIn, SuccessorsIn, MergedIn
<1>5. OneMerger /\ MergedThere /\ RollbackIn
  BY <1>2, KeyFacts DEF OneMerger, MergedThere, RollbackIn, Merges
<1> QED
  BY <1>1, <1>2, <1>4, <1>5 DEF LifeInv, LifecycleInit

\* Every step keeps it.
LEMMA StepKeepsLife ==
  ASSUME LifeInv, [LifecycleNext]_lvars
  PROVE  LifeInv'
<1>1. CASE UNCHANGED lvars
  BY <1>1, SMTT(90) DEF lvars, LifeInv, ThreadIn, IsThread, SupersedeIn, MergeIn, UndoIn, RowIn, PointersIn,
     SuccessorsIn, MergedIn, OneMerger, MergedThere, RollbackIn, Merges, Promises, Live
<1>2. ASSUME NEW t \in Threads, SaveStep(t) PROVE LifeInv'
  BY <1>2, BeginKeepsLife, SaveKeepsLife, SaveWriteKeepsLife DEF SaveStep
<1>3. ASSUME NEW t \in Threads, RowStep(t) PROVE LifeInv'
  BY <1>3, BeginKeepsLife, ReadKeepsLife, FieldsKeepLife, ForgetKeepsLife DEF RowStep
<1>4. ASSUME NEW t \in Threads, SupersedeStep(t) PROVE LifeInv'
  BY <1>4, CloseKeepsLife, CreateKeepsLife, RestoreKeepsLife DEF SupersedeStep
<1>5. ASSUME NEW t \in Threads, SweepStep(t) PROVE LifeInv'
  BY <1>5, BeginKeepsLife, ScanKeepsLife, GcKeepsLife, SweepDeleteKeepsLife,
     SweepWriteKeepsLife DEF SweepStep
<1>6. ASSUME NEW t \in Threads, MergeStep(t) PROVE LifeInv'
  BY <1>6, BeginKeepsLife, EnterKeepsLife, PickKeepsLife, MergeSaveKeepsLife, CarryKeepsLife,
     CheckKeepsLife, MergeCloseKeepsLife, AuditKeepsLife, RollbackKeepsLife, DropKeepsLife,
     UndoKeepsLife DEF MergeStep
<1> QED
  BY <1>1, <1>2, <1>3, <1>4, <1>5, <1>6 DEF LifecycleNext, LifecycleEnd

\* The invariant, for every behaviour.
LEMMA LifeInvHolds == LifecycleSpec => []LifeInv
BY LifeInit, StepKeepsLife, PTL DEF LifecycleSpec

\* A row without a closing bound is active, not contradicted and superseded by
\* nothing, whatever closes, revives, undoes and rolls back interleave.
THEOREM OpenRowsAreOpen == LifecycleSpec => []OpenMeansOpen
<1>1. LifeInv => OpenMeansOpen
  BY DEF LifeInv, RowIn, OpenMeansOpen, Live
<1> QED
  BY <1>1, LifeInvHolds, PTL

\* When nothing is under way every pointer to a successor leads to a row, unless
\* somebody removed the row, a clean-up that failed was logged, or merges of one
\* group overlapped: supersede and merge leave no pointer to a row never made.
THEOREM PointersLeadSomewhere == LifecycleSpec => []SuccessorExists
<1>1. LifeInv => SuccessorExists
  <2> SUFFICES ASSUME LifeInv, Quiescent, NEW k \in Dangling
               PROVE  rows[k].by \in overlap
    BY DEF SuccessorExists
  <2>1. /\ k \in LKeys /\ Live(k) /\ rows[k].by # None /\ ~Live(rows[k].by)
        /\ rows[k].by \notin removed \cup warned
    BY DEF Dangling
  <2>2. k \in Sources
    BY <2>1 DEF LifeInv, PointersIn
  <2>3. \A t \in Threads : ~Promises(loc[t], k)
    BY DEF Quiescent, Promises, Idle
  <2>4. rows[k].by # Successor(k)
    BY <2>1, <2>2, <2>3 DEF LifeInv, SuccessorsIn
  <2> QED
    BY <2>1, <2>2, <2>4 DEF LifeInv, MergedIn
<1> QED
  BY <1>1, LifeInvHolds, PTL

(***************************************************************************)
(* The relay import, run again after it broke off. The invariant says of   *)
(* the items a run has dealt with what the property says of the document:  *)
(* the last of them with a key decides the value held under it.            *)
(***************************************************************************)
ImportRecord == [pc : {"idle", "rejected", "items", "raised", "done"}, at : 0..DocLength,
                 imported : Nat, skipped : Nat, refused : Nat]

\* The items of a key among the first n, and their last.
LastUpTo(k, n) == {m \in ItemsOf(k) : m <= n /\ \A l \in ItemsOf(k) : l <= n => l <= m}

RlInv ==
  /\ doc \in [1..DocLength -> Items]
  /\ import \in ImportRecord
  /\ DOMAIN held = ItemKeys
  /\ \A k \in ItemKeys : held[k] \in {before[k]} \cup {ItemRow(doc[n]) : n \in ItemsOf(k)}
  /\ import.pc = "done" => import.at = DocLength
  /\ import.pc \in {"items", "done"} /\ import.refused = 0 =>
       \A k \in ItemKeys : \A n \in LastUpTo(k, import.at) : held[k].value = doc[n].value

LEMMA RlInitOk == RlInit => RlInv
BY RelayAssumption DEF RlInit, RlInv, NoImport, ImportRecord, NotHeld

\* A step that saves nothing.
LEMMA OnlyImport ==
    ASSUME RlInv, NEW j \in ImportRecord, import' = j, UNCHANGED <<doc, held, before>>,
           j.pc = "done" => j.at = DocLength,
           j.pc \in {"items", "done"} /\ j.refused = 0 =>
             \A k \in ItemKeys : \A n \in LastUpTo(k, j.at) : held[k].value = doc[n].value
    PROVE  RlInv'
BY DEF RlInv, ItemsOf, LastUpTo

LEMMA BeginRelayOk ==
    ASSUME RlInv, RefuseDocument \/ BeginRelay
    PROVE  RlInv'
<1>1. PICK p \in {"rejected", "items"} : import' = [NoImport EXCEPT !.pc = p]
  BY DEF RefuseDocument, BeginRelay
<1>2. UNCHANGED <<doc, held, before>>
  BY DEF RefuseDocument, BeginRelay
<1> DEFINE j == [NoImport EXCEPT !.pc = p]
<1>3. j \in ImportRecord /\ j.pc # "done" /\ j.at = 0
  BY RelayAssumption DEF NoImport, ImportRecord
<1> HIDE DEF j
<1>4. \A k \in ItemKeys : \A n \in LastUpTo(k, 0) : FALSE
  BY DEF ItemsOf, LastUpTo
<1>5. QED
  BY <1>1, <1>2, <1>3, <1>4, OnlyImport DEF j

\* An item is passed over; only a refusal may pass over a usable one.
LEMMA PassOverOk ==
    ASSUME RlInv, SkipItem \/ RefusedItem
    PROVE  RlInv'
<1> DEFINE j == import'
<1>1. /\ import \in ImportRecord /\ import.pc = "items" /\ import.at < DocLength /\ UNCHANGED <<doc, held, before>>
  BY DEF RlInv, SkipItem, RefusedItem, More
<1>2. j \in ImportRecord /\ j.pc = "items" /\ j.at = import.at + 1
  <2>1. \/ j = [import EXCEPT !.at = @ + 1, !.skipped = @ + 1]
        \/ j = [import EXCEPT !.at = @ + 1, !.skipped = @ + 1, !.refused = @ + 1]
    BY DEF SkipItem, RefusedItem, CountRefused
  <2>2. /\ import.at + 1 \in 0..DocLength /\ import.skipped + 1 \in Nat /\ import.refused + 1 \in Nat
        /\ import.pc \in {"idle", "rejected", "items", "raised", "done"} /\ import.imported \in Nat
        /\ import.refused \in Nat
    BY <1>1, RelayAssumption DEF ImportRecord
  <2>3. import = [pc |-> import.pc, at |-> import.at, imported |-> import.imported,
                  skipped |-> import.skipped, refused |-> import.refused]
    BY <1>1 DEF ImportRecord
  <2>4. \E r \in Nat, s \in Nat : j = [pc |-> import.pc, at |-> import.at + 1, imported |-> import.imported,
                                     skipped |-> s, refused |-> r]
    BY <2>1, <2>2, <2>3
  <2>5. QED
    BY <1>1, <2>2, <2>4 DEF ImportRecord
<1>3. j.refused = 0 => import.refused = 0 /\ SkipItem
  <2>1. import.refused \in Nat
    BY <1>1 DEF ImportRecord
  <2>2. SkipItem => j.refused = import.refused
    BY <1>1 DEF SkipItem, ImportRecord
  <2>3. RefusedItem => j.refused = import.refused + 1
    BY <1>1 DEF RefusedItem, CountRefused, ImportRecord
  <2>4. QED
    BY <2>1, <2>2, <2>3
<1>4. ASSUME SkipItem, NEW k \in ItemKeys PROVE import.at + 1 \notin ItemsOf(k)
  BY <1>4 DEF SkipItem, ItemsOf, Item
<1>5. ASSUME j.refused = 0, NEW k \in ItemKeys, NEW n \in LastUpTo(k, j.at) PROVE held[k].value = doc[n].value
  <2>1. ItemsOf(k) \subseteq Nat /\ import.at \in Nat
    BY <1>1, RelayAssumption DEF ItemsOf, ImportRecord
  <2>2. n \in LastUpTo(k, import.at)
    BY <1>2, <1>3, <1>4, <1>5, <2>1 DEF LastUpTo
  <2>3. QED
    BY <1>1, <1>3, <1>5, <2>2 DEF RlInv
<1> HIDE DEF j
<1>6. QED
  BY <1>1, <1>2, <1>5, OnlyImport DEF j

\* The item just saved, or found saved, is the last of its key so far.
LEMMA ImportItemOk ==
    ASSUME RlInv, ImportItem
    PROVE  RlInv'
<1> DEFINE j == import'
           i == Item
           n1 == import.at + 1
<1>1. /\ import \in ImportRecord /\ import.pc = "items" /\ import.at < DocLength /\ Usable(i)
      /\ j = [import EXCEPT !.at = @ + 1, !.imported = @ + 1]
      /\ held' = Saved(i) /\ doc' = doc /\ before' = before
  BY DEF RlInv, ImportItem, More
<1>2. import.at \in Nat /\ n1 \in 1..DocLength
  BY <1>1, RelayAssumption DEF ImportRecord
<1>3. i = doc[n1] /\ i.key \in ItemKeys /\ n1 \in ItemsOf(i.key)
  <2>1. i = doc[n1]
    BY DEF Item
  <2>2. i.key \in ItemKeys
    BY <1>1, <1>2, <2>1 DEF RlInv, Items, Usable
  <2>3. QED
    BY <1>1, <1>2, <2>1, <2>2 DEF ItemsOf
<1>4. j \in ImportRecord /\ j.pc = "items" /\ j.at = n1 /\ j.refused = import.refused
  <2>1. /\ n1 \in 0..DocLength /\ import.imported + 1 \in Nat /\ import.skipped \in Nat
        /\ import.pc \in {"idle", "rejected", "items", "raised", "done"} /\ import.refused \in Nat
    BY <1>1, <1>2, RelayAssumption DEF ImportRecord
  <2>2. j = [pc |-> import.pc, at |-> n1, imported |-> import.imported + 1,
             skipped |-> import.skipped, refused |-> import.refused]
    <3>1. import = [pc |-> import.pc, at |-> import.at, imported |-> import.imported,
                    skipped |-> import.skipped, refused |-> import.refused]
      BY <1>1 DEF ImportRecord
    <3>2. QED
      BY <1>1, <3>1
  <2>3. QED
    BY <1>1, <2>1, <2>2 DEF ImportRecord
<1>5. ItemRow(i).value = i.value
  BY DEF ItemRow
<1>6. \A k \in ItemKeys : k # i.key => n1 \notin ItemsOf(k)
  BY <1>3 DEF ItemsOf
<1>7. \A k \in ItemKeys : ItemsOf(k)' = ItemsOf(k) /\ ItemsOf(k) \subseteq Nat
  BY <1>1 DEF ItemsOf, Usable
<1> HIDE DEF j, n1, i
<1>8. /\ DOMAIN held' = ItemKeys /\ \A k \in ItemKeys : k # i.key => held'[k] = held[k]
      /\ held'[i.key] \in {held[i.key], ItemRow(i)} /\ held'[i.key].value = i.value
  <2>1. DOMAIN held = ItemKeys
    BY DEF RlInv
  <2>2. CASE held[i.key].value = i.value
    BY <1>1, <2>1, <2>2 DEF Saved
  <2>3. CASE held[i.key].value # i.value
    BY <1>1, <1>3, <1>5, <2>1, <2>3 DEF Saved
  <2>4. QED
    BY <2>2, <2>3
<1>9. \A k \in ItemKeys : held'[k] \in {before[k]} \cup {ItemRow(doc[n]) : n \in ItemsOf(k)}
  BY <1>3, <1>8 DEF RlInv
<1>10. ASSUME j.refused = 0, NEW k \in ItemKeys, NEW n \in LastUpTo(k, n1) PROVE held'[k].value = doc[n].value
  <2>1. n \in ItemsOf(k) /\ n <= n1 /\ \A l \in ItemsOf(k) : l <= n1 => l <= n
    BY <1>10 DEF LastUpTo
  <2>2. CASE k = i.key
    <3>1. n = n1
      BY <1>2, <1>3, <1>7, <2>1, <2>2
    <3>2. QED
      BY <1>3, <1>8, <2>2, <3>1
  <2>3. CASE k # i.key
    <3>1. \A l \in ItemsOf(k) : l \in Nat /\ (l <= n1 <=> l <= import.at)
      BY <1>2, <1>6, <1>7, <2>3 DEF n1
    <3>2. n \in LastUpTo(k, import.at)
      BY <2>1, <3>1 DEF LastUpTo
    <3>3. QED
      BY <1>1, <1>4, <1>8, <1>10, <2>3, <3>2 DEF RlInv
  <2>4. QED
    BY <2>2, <2>3
<1>11. QED
  <2>1. doc' \in [1..DocLength -> Items] /\ import' = j /\ j.pc # "done"
    BY <1>1, <1>4 DEF RlInv, j
  <2>2. \A k \in ItemKeys : held'[k] \in ({before[k]} \cup {ItemRow(doc[n]) : n \in ItemsOf(k)})'
    BY <1>1, <1>7, <1>9
  <2>3. \A k \in ItemKeys : LastUpTo(k, import.at)' = LastUpTo(k, n1)
    BY <1>4, <1>7, <2>1 DEF LastUpTo
  <2>4. QED
    BY <1>1, <1>4, <1>8, <1>10, <2>1, <2>2, <2>3 DEF RlInv

LEMMA EndRelayOk ==
    ASSUME RlInv, RelayRaises \/ EndRelay
    PROVE  RlInv'
<1> DEFINE j == import'
<1>1. import \in ImportRecord /\ import.pc = "items" /\ UNCHANGED <<doc, held, before>>
  BY DEF RlInv, RelayRaises, EndRelay, More
<1>2. /\ j \in ImportRecord /\ j.at = import.at /\ j.refused = import.refused
      /\ j.pc = "done" => import.at = DocLength
  BY <1>1 DEF RelayRaises, EndRelay, ImportRecord
<1>3. import.refused = 0 => \A k \in ItemKeys : \A n \in LastUpTo(k, import.at) : held[k].value = doc[n].value
  BY <1>1 DEF RlInv
<1> HIDE DEF j
<1>4. QED
  BY <1>1, <1>2, <1>3, OnlyImport DEF j

LEMMA RlStepOk == RlInv /\ [RlNext]_rlVars => RlInv'
<1> SUFFICES ASSUME RlInv, [RlNext]_rlVars PROVE RlInv'
  OBVIOUS
<1>1. CASE UNCHANGED rlVars
  BY <1>1, OnlyImport DEF rlVars, RlInv
<1>2. QED
  BY <1>1, BeginRelayOk, PassOverOk, ImportItemOk, EndRelayOk DEF RlNext

\* For a document of any length, over a store that holds whatever memories of its
\* own: a run that ends with nothing refused leaves for every key the value of the
\* last usable item, and beside it what came with an item of that value or was
\* there before, however many runs broke off before and wherever.
THEOREM RelayRerun == RlSpec => []RerunCompletes
<1>1. RlInv => RerunCompletes
  <2> SUFFICES ASSUME RlInv, import.pc = "done", import.refused = 0, NEW k \in ItemKeys
               PROVE  /\ \A n \in LastOf(k) : held[k].value = doc[n].value
                      /\ held[k] \in {before[k]} \cup {ItemRow(doc[n]) : n \in ItemsOf(k)}
    BY DEF RerunCompletes
  <2>1. import.at = DocLength /\ \A n \in ItemsOf(k) : n \in 1..DocLength
    BY DEF ItemsOf, RlInv
  <2>2. LastOf(k) \subseteq LastUpTo(k, import.at)
    BY <2>1, RelayAssumption DEF LastOf, LastUpTo
  <2>3. QED
    BY <2>2 DEF RlInv
<1>2. QED
  BY <1>1, RlInitOk, RlStepOk, PTL DEF RlSpec

(***************************************************************************)
(* The asynchronous facade. Of every key a running write works on, and     *)
(* that nothing exposes, it is known what the cache and the row hold given *)
(* the phase of the write, and that the write noted the truth before it    *)
(* began; and two running writes share exposed keys only. What a failed    *)
(* flush restores therefore agrees with the rows.                          *)
(***************************************************************************)
AsyncVals == Nat \cup {NoEntry}
Captures == [saves : SUBSET AKeys, archives : SUBSET [key : AKeys, val : AsyncVals], deletes : SUBSET AKeys]
AsyncJobs ==
  [pc : {"idle", "apply", "thread", "saves", "archives", "deletes"},
   kind : {"none", "save", "touch", "supersede", "ingest", "delete", "gc"},
   key : AKeys \cup {NoEntry}, new : AKeys \cup {NoEntry}, keys : SUBSET AKeys,
   prior : [AKeys -> AsyncVals], made : Nat, cap : Captures, gone : SUBSET AKeys]

\* What every write says of its keys and its capture.
JobForm(j) ==
  /\ j.pc # "idle" => j.kind # "none"
  /\ j.pc \in {"apply", "thread"} => j.gone = {}
  /\ j.kind \in {"ingest", "gc"} => j.keys = AKeys
  /\ j.cap.saves \cup j.cap.deletes \cup j.gone \subseteq j.keys
  /\ j.cap.saves \cap (j.cap.deletes \cup j.gone) = {}

\* A key of a running write that nothing exposes: what the cache holds (c), what
\* the row holds (d) and what the write noted before it began.
Tended(c, d, j, k) ==
  /\ j.prior[k] # NoEntry =>
        \/ d = j.prior[k] \/ k \in j.gone
        \/ j.pc \in {"archives", "deletes"} /\ k \in j.cap.saves
  /\ j.pc = "apply" => c = j.prior[k]
  /\ j.pc \in {"saves", "archives", "deletes"} =>
        /\ IF k \in j.cap.saves THEN c = j.made ELSE c \in {j.prior[k], NoEntry}
        /\ k \in j.cap.deletes \cup j.gone => c = NoEntry
        /\ j.pc # "saves" /\ k \in j.cap.saves => d = j.made

AsyncType ==
  /\ cache \in [AKeys -> AsyncVals] /\ durable \in [AKeys -> AsyncVals]
  /\ write \in [Writers -> AsyncJobs] /\ stamp \in Nat

AfInv ==
  /\ AsyncType
  /\ \A w \in Writers : JobForm(write[w]) /\ (write[w].pc = "thread" => write[w].keys \subseteq exposed)
  /\ \A w, v \in Writers : w # v /\ write[w].pc # "idle" /\ write[v].pc # "idle" =>
        write[w].keys \cap write[v].keys \subseteq exposed
  /\ \A w \in Writers : write[w].pc # "idle" =>
        \A k \in write[w].keys \ exposed : Tended(cache[k], durable[k], write[w], k)
  /\ InStep

LEMMA NoWriteYetOk ==
  /\ NoWriteYet \in AsyncJobs /\ JobForm(NoWriteYet) /\ NoWriteYet.pc = "idle" /\ NoWriteYet.keys = {}
  /\ NoWriteYet.cap = EmptyCapture /\ NoWriteYet.gone = {}
BY DEF NoWriteYet, AsyncJobs, JobForm, EmptyCapture, Captures, AsyncVals

LEMMA AfInitOk == AfInit => AfInv
<1> SUFFICES ASSUME AfInit PROVE AfInv
  OBVIOUS
<1>1. AsyncType
  BY NoWriteYetOk DEF AfInit, AsyncType, AsyncVals
<1>2. \A w \in Writers : write[w] = NoWriteYet
  BY DEF AfInit
<1>3. InStep
  BY DEF AfInit, InStep
<1>4. QED
  BY <1>1, <1>2, <1>3, NoWriteYetOk DEF AfInv

\* A step of one running write, which works on its own keys.
LEMMA JobStep ==
  ASSUME AfInv, NEW w \in Writers, write[w].pc # "idle", NEW j \in AsyncJobs, JobForm(j),
         write' = [write EXCEPT ![w] = j], stamp' = stamp, exposed \subseteq exposed',
         j.pc = "idle" \/ j.keys = write[w].keys, j.pc = "thread" => j.keys \subseteq exposed',
         cache' \in [AKeys -> AsyncVals], durable' \in [AKeys -> AsyncVals],
         \A k \in AKeys \ write[w].keys : cache'[k] = cache[k] /\ durable'[k] = durable[k],
         \A k \in write[w].keys \ exposed' :
            IF j.pc = "idle" THEN cache'[k] # NoEntry => durable'[k] = cache'[k]
            ELSE Tended(cache'[k], durable'[k], j, k)
  PROVE  AfInv'
<1>1. write \in [Writers -> AsyncJobs] /\ \A v \in Writers : write'[v] = IF v = w THEN j ELSE write[v]
  BY DEF AfInv, AsyncType
<1>2. AsyncType'
  BY <1>1 DEF AfInv, AsyncType
<1>3. \A v \in Writers : write[v].keys \subseteq AKeys
  BY <1>1 DEF AsyncJobs
<1>4. \A v \in Writers : JobForm(write'[v]) /\ (write'[v].pc = "thread" => write'[v].keys \subseteq exposed')
  BY <1>1 DEF AfInv
<1>5. ASSUME NEW u \in Writers, NEW v \in Writers, u # v, write'[u].pc # "idle", write'[v].pc # "idle"
      PROVE  write'[u].keys \cap write'[v].keys \subseteq exposed'
  <2>1. /\ write[u].pc # "idle" /\ write[v].pc # "idle"
        /\ write'[u].keys = write[u].keys /\ write'[v].keys = write[v].keys
    BY <1>1, <1>5
  <2>2. QED
    BY <1>5, <2>1 DEF AfInv
<1>6. ASSUME NEW v \in Writers, write'[v].pc # "idle", NEW k \in write'[v].keys \ exposed'
      PROVE  Tended(cache'[k], durable'[k], write'[v], k)
  <2>1. CASE v = w
    BY <1>1, <1>6, <2>1
  <2>2. CASE v # w
    <3>1. write'[v] = write[v]
      BY <1>1, <2>2
    <3>2. k \notin write[w].keys /\ k \in AKeys
      BY <1>3, <1>6, <2>2, <3>1 DEF AfInv
    <3>3. QED
      BY <1>6, <3>1, <3>2 DEF AfInv
  <2>3. QED
    BY <2>1, <2>2
<1>7. ASSUME NEW k \in AKeys \ exposed', Touched(k)' = {}, cache'[k] # NoEntry PROVE durable'[k] = cache'[k]
  <2>1. CASE k \in write[w].keys
    <3>1. w \notin Touched(k)'
      BY <1>7
    <3>2. j.pc = "idle"
      BY <1>1, <2>1, <3>1 DEF Touched
    <3>3. QED
      BY <1>7, <2>1, <3>2
  <2>2. CASE k \notin write[w].keys
    <3>1. ASSUME NEW v \in Touched(k) PROVE FALSE
      <4>1. v \in Writers /\ v # w /\ write[v].pc # "idle" /\ k \in write[v].keys
        BY <2>2 DEF Touched
      <4>2. v \in Touched(k)'
        BY <1>1, <4>1 DEF Touched
      <4>3. QED
        BY <1>7, <4>2
    <3>2. QED
      BY <1>7, <2>2, <3>1 DEF AfInv, InStep
  <2>3. QED
    BY <2>1, <2>2
<1>8. QED
  BY <1>2, <1>4, <1>5, <1>6, <1>7 DEF AfInv, InStep

\* A write that begins notes a cache that is in step with the rows, but for the
\* keys another write works on.
LEMMA BeginWriteOk ==
  ASSUME AfInv, NEW w \in Writers, NEW keys \in SUBSET AKeys, NEW key \in AKeys \cup {NoEntry},
         NEW kind \in {"save", "touch", "supersede", "ingest", "delete", "gc"},
         NEW new \in AKeys \cup {NoEntry}, kind \in {"ingest", "gc"} => keys = AKeys,
         BeginWrite(w, kind, key, new, keys)
  PROVE  AfInv'
<1> DEFINE j == [pc |-> "apply", kind |-> kind, key |-> key, new |-> new, keys |-> keys,
                 prior |-> cache, made |-> stamp, cap |-> EmptyCapture, gone |-> {}]
<1>1. /\ write[w].pc = "idle" /\ write' = [write EXCEPT ![w] = j] /\ stamp' = stamp + 1
      /\ exposed' = exposed \cup {k \in keys : Touched(k) # {}} /\ UNCHANGED <<cache, durable>>
  BY DEF BeginWrite
<1>2. AsyncType
  BY DEF AfInv
<1>3. /\ j.pc = "apply" /\ j.kind = kind /\ j.key = key /\ j.keys = keys /\ j.made = stamp
      /\ j.prior = cache /\ j.cap = EmptyCapture /\ j.gone = {}
  OBVIOUS
<1> HIDE DEF j
<1>4. EmptyCapture \in Captures /\ EmptyCapture.saves = {} /\ EmptyCapture.archives = {} /\ EmptyCapture.deletes = {}
  BY DEF EmptyCapture, Captures
<1>5. j \in AsyncJobs /\ JobForm(j)
  <2>1. j \in AsyncJobs
    BY <1>2, <1>4 DEF j, AsyncJobs, AsyncType
  <2>2. JobForm(j)
    BY <1>3, <1>4 DEF JobForm
  <2>3. QED
    BY <2>1, <2>2
<1>6. \A v \in Writers : write'[v] = IF v = w THEN j ELSE write[v]
  BY <1>1, <1>2 DEF AsyncType
<1>7. AsyncType'
  BY <1>1, <1>2, <1>5 DEF AsyncType
<1>8. j.pc = "apply" /\ j.keys = keys /\ j.prior = cache /\ j.cap = EmptyCapture /\ j.gone = {}
  BY <1>3
<1>9. \A v \in Writers : JobForm(write'[v]) /\ (write'[v].pc = "thread" => write'[v].keys \subseteq exposed')
  BY <1>1, <1>5, <1>6, <1>8 DEF AfInv
<1>10. ASSUME NEW k \in keys, NEW v \in Writers, v # w, write[v].pc # "idle", k \in write[v].keys PROVE k \in exposed'
  BY <1>1, <1>10 DEF Touched
<1>11. ASSUME NEW u \in Writers, NEW v \in Writers, u # v, write'[u].pc # "idle", write'[v].pc # "idle"
       PROVE  write'[u].keys \cap write'[v].keys \subseteq exposed'
  BY <1>1, <1>6, <1>8, <1>10, <1>11 DEF AfInv
<1>12. ASSUME NEW k \in AKeys \ exposed', Touched(k)' = {} PROVE Touched(k) = {}
  BY <1>1, <1>6, <1>12 DEF Touched
<1>13. ASSUME NEW k \in keys \ exposed' PROVE Tended(cache[k], durable[k], j, k)
  <2>1. Touched(k) = {} /\ k \in AKeys \ exposed
    BY <1>1, <1>13
  <2>2. cache[k] # NoEntry => durable[k] = cache[k]
    BY <2>1 DEF AfInv, InStep
  <2>3. QED
    BY <1>8, <2>2 DEF Tended
<1>14. ASSUME NEW v \in Writers, write'[v].pc # "idle", NEW k \in write'[v].keys \ exposed'
       PROVE  Tended(cache'[k], durable'[k], write'[v], k)
  BY <1>1, <1>6, <1>8, <1>13, <1>14 DEF AfInv
<1>15. InStep'
  BY <1>1, <1>12 DEF AfInv, InStep
<1>16. QED
  BY <1>7, <1>9, <1>11, <1>14, <1>15 DEF AfInv

LEMMA BeginsOk ==
  ASSUME AfInv, NEW w \in Writers,
         \/ BeginAsyncSave(w) \/ BeginDelete(w) \/ BeginTouch(w) \/ BeginSupersede(w)
         \/ BeginIngest(w) \/ BeginGc(w)
  PROVE  AfInv'
<1>1. CASE BeginAsyncSave(w)
  BY <1>1, BeginWriteOk DEF BeginAsyncSave
<1>2. CASE BeginDelete(w)
  BY <1>2, BeginWriteOk DEF BeginDelete
<1>3. CASE BeginTouch(w)
  BY <1>3, BeginWriteOk DEF BeginTouch
<1>4. CASE BeginSupersede(w)
  BY <1>4, BeginWriteOk DEF BeginSupersede
<1>5. CASE BeginIngest(w)
  BY <1>5, BeginWriteOk DEF BeginIngest
<1>6. CASE BeginGc(w)
  BY <1>6, BeginWriteOk DEF BeginGc
<1>7. QED
  BY <1>1, <1>2, <1>3, <1>4, <1>5, <1>6

\* What the parts of a capture are, once captured.
LEMMA CaptureParts ==
  ASSUME NEW stored \in SUBSET AKeys, NEW drop \in SUBSET AKeys, stored \cap drop = {}, AsyncType
  PROVE  /\ CaptureDeletes(CaptureSaves(EmptyCapture, stored), drop)
              = [saves |-> stored, archives |-> {}, deletes |-> drop]
         /\ \E ar \in SUBSET [key : AKeys, val : AsyncVals] :
              CaptureDeletes(CaptureArchives(CaptureSaves(EmptyCapture, stored), drop), drop)
                = [saves |-> stored, archives |-> ar, deletes |-> drop]
<1> DEFINE ar == {[key |-> k, val |-> Seen[k]] : k \in drop}
<1>1. /\ ({} \cup stored) \ drop = stored /\ ({} \ stored) \cup drop = drop /\ {} \cup ar = ar
  OBVIOUS
<1>2. ar \in SUBSET [key : AKeys, val : AsyncVals]
  <2>1. \A k \in AKeys : Seen[k] \in AsyncVals
    BY DEF AsyncType, Seen
  <2>2. \A k \in drop : k \in AKeys /\ Seen[k] \in AsyncVals
    BY <2>1
  <2>3. QED
    BY <2>2
<1>3. CaptureDeletes(CaptureSaves(EmptyCapture, stored), drop) = [saves |-> stored, archives |-> {}, deletes |-> drop]
  BY <1>1 DEF CaptureSaves, CaptureDeletes, EmptyCapture
<1>4. CaptureDeletes(CaptureArchives(CaptureSaves(EmptyCapture, stored), drop), drop)
        = [saves |-> stored, archives |-> ar, deletes |-> drop]
  BY <1>1 DEF CaptureArchives, CaptureSaves, CaptureDeletes, EmptyCapture
<1>5. QED
  BY <1>2, <1>3, <1>4

\* What a write becomes when its operation has run with its calls captured.
LEMMA Captured ==
  ASSUME NEW j \in AsyncJobs, NEW cap \in Captures
  PROVE  LET q == [j EXCEPT !.pc = "saves", !.cap = cap] IN
         /\ q \in AsyncJobs /\ q.pc = "saves" /\ q.cap = cap
         /\ q.kind = j.kind /\ q.keys = j.keys /\ q.prior = j.prior
         /\ q.made = j.made /\ q.gone = j.gone
BY DEF AsyncJobs

\* The operation works on its keys only, notes what it does to each of them, and
\* changes a cache that is the one noted; the effect of an operation nobody waits
\* for is on exposed keys.
LEMMA CacheEffectOk ==
  ASSUME AfInv, NEW w \in Writers, write[w].pc \in {"apply", "thread"}, NEW saved, NEW drop, NEW cap \in Captures,
         saved \subseteq write[w].keys, drop \subseteq write[w].keys,
         cap.saves = saved, cap.deletes = drop, saved \cap drop = {},
         CacheEffect(w, saved, cap, drop)
  PROVE  AfInv'
<1> DEFINE q == [write[w] EXCEPT !.pc = "saves", !.cap = cap]
           j == IF write[w].pc = "thread" THEN NoWriteYet ELSE q
<1>1. /\ write' = [write EXCEPT ![w] = j] /\ stamp' = stamp /\ exposed' = exposed /\ durable' = durable
      /\ cache' = [k \in AKeys |-> CASE k \in saved  -> write[w].made
                                     [] k \in drop -> NoEntry
                                     [] OTHER      -> cache[k]]
  BY DEF CacheEffect
<1>2. write[w] \in AsyncJobs /\ JobForm(write[w]) /\ AsyncType
  BY DEF AfInv, AsyncType
<1>3. /\ q \in AsyncJobs /\ q.pc = "saves" /\ q.cap = cap
      /\ q.kind = write[w].kind /\ q.keys = write[w].keys
      /\ q.prior = write[w].prior /\ q.made = write[w].made /\ q.gone = write[w].gone
  BY <1>2, Captured, ZenonT(60)
<1> HIDE DEF q
<1>4. JobForm(q) /\ q.gone = {}
  BY <1>2, <1>3 DEF JobForm
<1>5. j \in AsyncJobs /\ JobForm(j) /\ (j.pc = "idle" \/ j.keys = write[w].keys) /\ j.pc # "thread"
  BY <1>3, <1>4, NoWriteYetOk
<1>6. write[w].keys \subseteq AKeys /\ write[w].made \in Nat
  BY <1>2 DEF AsyncJobs
<1>7. \A k \in AKeys : cache'[k] = CASE k \in saved  -> write[w].made
                                     [] k \in drop -> NoEntry
                                     [] OTHER      -> cache[k]
  BY <1>1
<1>8. \A k \in AKeys : /\ k \in saved => cache'[k] = write[w].made
                       /\ k \notin saved /\ k \in drop => cache'[k] = NoEntry
                       /\ k \notin saved /\ k \notin drop => cache'[k] = cache[k]
  BY <1>7
<1>9. cache' \in [AKeys -> AsyncVals] /\ durable' \in [AKeys -> AsyncVals]
  <2>1. \A k \in AKeys : cache'[k] \in AsyncVals
    BY <1>2, <1>6, <1>8 DEF AsyncType, AsyncVals
  <2>2. QED
    BY <1>1, <1>2, <2>1 DEF AsyncType
<1>10. \A k \in AKeys \ write[w].keys : cache'[k] = cache[k] /\ durable'[k] = durable[k]
  BY <1>1, <1>8
<1>11. ASSUME NEW k \in write[w].keys \ exposed, write[w].pc = "apply" PROVE Tended(cache'[k], durable'[k], q, k)
  <2>1. Tended(cache[k], durable[k], write[w], k)
    BY <1>11 DEF AfInv
  <2>2. cache[k] = write[w].prior[k]
    BY <1>11, <2>1 DEF Tended
  <2>3. write[w].prior[k] # NoEntry => durable[k] = write[w].prior[k]
    BY <1>2, <1>11, <2>1 DEF Tended, JobForm
  <2>4. k \in AKeys /\ durable'[k] = durable[k]
    BY <1>1, <1>6
  <2>5. /\ k \in saved => cache'[k] = q.made
        /\ k \in drop => cache'[k] = NoEntry
        /\ k \notin saved => cache'[k] \in {q.prior[k], NoEntry}
    BY <1>3, <1>8, <2>2, <2>4
  <2>6. q.cap.saves = saved /\ q.cap.deletes \cup q.gone = drop
    BY <1>3, <1>4
  <2>7. q.prior[k] # NoEntry => durable'[k] = q.prior[k]
    BY <1>3, <2>3, <2>4
  <2>8. QED
    BY <1>3, <2>5, <2>6, <2>7 DEF Tended
<1>12. ASSUME NEW k \in write[w].keys \ exposed, write[w].pc = "thread" PROVE FALSE
  BY <1>12 DEF AfInv
<1>13. \A k \in write[w].keys \ exposed' :
            IF j.pc = "idle" THEN cache'[k] # NoEntry => durable'[k] = cache'[k]
            ELSE Tended(cache'[k], durable'[k], j, k)
  <2>1. CASE write[w].pc = "thread"
    BY <1>1, <1>12, <2>1
  <2>2. CASE write[w].pc = "apply"
    <3>1. j = q
      BY <2>2
    <3>2. QED
      BY <1>1, <1>3, <1>11, <2>2, <3>1
  <2>3. QED
    BY <2>1, <2>2
<1> HIDE DEF j
<1>14. write[w].pc # "idle"
  OBVIOUS
<1>15. QED
  BY <1>1, <1>5, <1>9, <1>10, <1>13, <1>14, JobStep

LEMMA ApplyOk ==
  ASSUME AfInv, NEW w \in Writers, Apply(w)
  PROVE  AfInv'
<1>1. write[w] \in AsyncJobs /\ JobForm(write[w]) /\ AsyncType
  BY DEF AfInv, AsyncType
<1>2. write[w].pc \in {"apply", "thread"} /\ write[w].keys \subseteq AKeys
  BY <1>1 DEF Apply, AsyncJobs
<1>3. write[w].kind \in {"save", "touch", "supersede", "ingest", "delete", "gc"}
  BY <1>1, <1>2 DEF JobForm, AsyncJobs
<1>4. PICK stored \in SUBSET write[w].keys, drop \in SUBSET write[w].keys :
        stored \cap drop = {} /\ (Stores(w, stored, drop) \/ Collects(w, stored, drop))
  BY <1>3 DEF Apply
<1>5. stored \in SUBSET AKeys /\ drop \in SUBSET AKeys
  BY <1>2
<1>6. PICK ar \in SUBSET [key : AKeys, val : AsyncVals] :
        CacheEffect(w, stored, [saves |-> stored, archives |-> ar, deletes |-> drop], drop)
  <2>1. CASE Stores(w, stored, drop)
    BY <1>1, <1>4, <1>5, <2>1, CaptureParts DEF Stores
  <2>2. CASE Collects(w, stored, drop)
    BY <1>1, <1>4, <1>5, <2>2, CaptureParts DEF Collects
  <2>3. QED
    BY <1>4, <2>1, <2>2
<1> DEFINE cap == [saves |-> stored, archives |-> ar, deletes |-> drop]
<1>7. cap \in Captures /\ cap.saves = stored /\ cap.deletes = drop
  BY <1>5 DEF Captures
<1>8. CacheEffect(w, stored, cap, drop)
  BY <1>6
<1> HIDE DEF cap
<1>9. QED
  BY <1>2, <1>4, <1>7, <1>8, CacheEffectOk

-----------------------------------------------------------------------------
\* A write that goes on with a new phase, and no other change.
LEMMA InPhase ==
  ASSUME NEW j \in AsyncJobs, NEW phase \in {"thread", "archives", "deletes"}
  PROVE  LET q == [j EXCEPT !.pc = phase] IN
         /\ q \in AsyncJobs /\ q.pc = phase /\ q.cap = j.cap
         /\ q.kind = j.kind /\ q.keys = j.keys /\ q.prior = j.prior
         /\ q.made = j.made /\ q.gone = j.gone
BY DEF AsyncJobs

\* One archived, one deleted: the capture loses it, and nothing else.
LEMMA OneArchived ==
  ASSUME NEW j \in AsyncJobs, NEW a
  PROVE  LET q == Archived(j, a) IN
         /\ q \in AsyncJobs /\ q.pc = j.pc /\ q.cap.saves = j.cap.saves /\ q.cap.deletes = j.cap.deletes
         /\ q.cap.archives = j.cap.archives \ {a}
         /\ q.kind = j.kind /\ q.keys = j.keys /\ q.prior = j.prior
         /\ q.made = j.made /\ q.gone = j.gone
BY DEF AsyncJobs, Captures, Archived

LEMMA OneDeleted ==
  ASSUME NEW j \in AsyncJobs, NEW k \in AKeys
  PROVE  LET q == Deleted(j, k) IN
         /\ q \in AsyncJobs /\ q.pc = j.pc /\ q.cap.saves = j.cap.saves /\ q.cap.deletes = j.cap.deletes \ {k}
         /\ q.cap.archives = j.cap.archives
         /\ q.kind = j.kind /\ q.keys = j.keys /\ q.prior = j.prior
         /\ q.made = j.made /\ q.gone = j.gone \cup {k}
BY DEF AsyncJobs, Captures, Deleted

LEMMA FlushSavesOk ==
  ASSUME AfInv, NEW w \in Writers, FlushSaves(w)
  PROVE  AfInv'
<1> DEFINE j == [write[w] EXCEPT !.pc = "archives"]
<1>1. /\ write' = [write EXCEPT ![w] = j] /\ stamp' = stamp /\ exposed' = exposed /\ cache' = cache
      /\ durable' = [k \in AKeys |-> IF k \in write[w].cap.saves THEN write[w].made ELSE durable[k]]
      /\ write[w].pc = "saves"
  BY DEF FlushSaves
<1>2. write[w] \in AsyncJobs /\ JobForm(write[w]) /\ AsyncType
  BY DEF AfInv, AsyncType
<1>3. /\ j \in AsyncJobs /\ j.pc = "archives" /\ j.cap = write[w].cap
      /\ j.kind = write[w].kind /\ j.keys = write[w].keys
      /\ j.prior = write[w].prior /\ j.made = write[w].made /\ j.gone = write[w].gone
  BY <1>2, InPhase
<1> HIDE DEF j
<1>4. JobForm(j)
  BY <1>1, <1>2, <1>3 DEF JobForm
<1>5. \A k \in AKeys : durable'[k] = IF k \in write[w].cap.saves THEN write[w].made ELSE durable[k]
  BY <1>1
<1>6. write[w].made \in Nat /\ write[w].keys \subseteq AKeys /\ write[w].cap.saves \subseteq write[w].keys
  BY <1>2 DEF AsyncJobs, JobForm
<1>7. durable' \in [AKeys -> AsyncVals] /\ cache' \in [AKeys -> AsyncVals]
  BY <1>1, <1>2, <1>6 DEF AsyncType, AsyncVals
<1>8. ASSUME NEW k \in write[w].keys \ exposed PROVE Tended(cache'[k], durable'[k], j, k)
  <2>1. Tended(cache[k], durable[k], write[w], k)
    BY <1>1, <1>8 DEF AfInv
  <2>2. QED
    BY <1>1, <1>3, <1>5, <1>6, <2>1 DEF Tended
<1>9. QED
  BY <1>1, <1>3, <1>4, <1>5, <1>6, <1>7, <1>8, JobStep

LEMMA FlushArchiveOk ==
  ASSUME AfInv, NEW w \in Writers, FlushArchive(w)
  PROVE  AfInv'
<1>1. PICK a \in write[w].cap.archives : write' = [write EXCEPT ![w] = Archived(write[w], a)]
  BY DEF FlushArchive
<1> DEFINE j == Archived(write[w], a)
<1>2. write' = [write EXCEPT ![w] = j]
  BY <1>1
<1> HIDE DEF j
<1>3. /\ stamp' = stamp /\ exposed' = exposed
       /\ cache' = cache /\ durable' = durable /\ write[w].pc = "archives"
  BY DEF FlushArchive
<1>4. write[w] \in AsyncJobs /\ JobForm(write[w]) /\ AsyncType
  BY DEF AfInv, AsyncType
<1>5. /\ j \in AsyncJobs /\ j.pc = write[w].pc /\ j.cap.saves = write[w].cap.saves
      /\ j.cap.deletes = write[w].cap.deletes /\ j.cap.archives = write[w].cap.archives \ {a}
      /\ j.kind = write[w].kind /\ j.keys = write[w].keys
      /\ j.prior = write[w].prior /\ j.made = write[w].made /\ j.gone = write[w].gone
  BY <1>4, OneArchived DEF j
<1>6. JobForm(j)
  BY <1>4, <1>5 DEF JobForm
<1>7. ASSUME NEW k \in write[w].keys \ exposed PROVE Tended(cache[k], durable[k], j, k)
  <2>1. Tended(cache[k], durable[k], write[w], k)
    BY <1>3, <1>7 DEF AfInv
  <2>2. QED
    BY <1>5, <2>1 DEF Tended
<1>8. QED
  BY <1>2, <1>3, <1>4, <1>5, <1>6, <1>7, JobStep DEF AsyncType

LEMMA ToDeletesOk ==
  ASSUME AfInv, NEW w \in Writers, ToDeletes(w)
  PROVE  AfInv'
<1> DEFINE j == [write[w] EXCEPT !.pc = "deletes"]
<1>1. /\ write' = [write EXCEPT ![w] = j] /\ stamp' = stamp /\ exposed' = exposed
      /\ cache' = cache /\ durable' = durable /\ write[w].pc = "archives"
  BY DEF ToDeletes
<1>2. write[w] \in AsyncJobs /\ JobForm(write[w]) /\ AsyncType
  BY DEF AfInv, AsyncType
<1>3. /\ j \in AsyncJobs /\ j.pc = "deletes" /\ j.cap = write[w].cap
      /\ j.kind = write[w].kind /\ j.keys = write[w].keys
      /\ j.prior = write[w].prior /\ j.made = write[w].made /\ j.gone = write[w].gone
  BY <1>2, InPhase
<1> HIDE DEF j
<1>4. JobForm(j)
  BY <1>1, <1>2, <1>3 DEF JobForm
<1>5. ASSUME NEW k \in write[w].keys \ exposed PROVE Tended(cache[k], durable[k], j, k)
  <2>1. Tended(cache[k], durable[k], write[w], k)
    BY <1>1, <1>5 DEF AfInv
  <2>2. QED
    BY <1>1, <1>3, <2>1 DEF Tended
<1>6. QED
  BY <1>1, <1>2, <1>3, <1>4, <1>5, JobStep DEF AsyncType

LEMMA FlushDeleteOk ==
  ASSUME AfInv, NEW w \in Writers, FlushDelete(w)
  PROVE  AfInv'
<1>1. write[w] \in AsyncJobs /\ JobForm(write[w]) /\ AsyncType
  BY DEF AfInv, AsyncType
<1>2. PICK k \in write[w].cap.deletes :
        /\ durable' = [durable EXCEPT ![k] = NoEntry]
        /\ write' = [write EXCEPT ![w] = Deleted(write[w], k)]
  BY DEF FlushDelete
<1>3. k \in write[w].keys /\ k \in AKeys
  BY <1>1, <1>2 DEF JobForm, AsyncJobs
<1> DEFINE j == Deleted(write[w], k)
<1>4. write' = [write EXCEPT ![w] = j]
  BY <1>2
<1> HIDE DEF j
<1>5. stamp' = stamp /\ exposed' = exposed /\ cache' = cache /\ write[w].pc = "deletes"
  BY DEF FlushDelete
<1>6. /\ j \in AsyncJobs /\ j.pc = write[w].pc /\ j.cap.saves = write[w].cap.saves
      /\ j.cap.deletes = write[w].cap.deletes \ {k} /\ j.cap.archives = write[w].cap.archives
      /\ j.kind = write[w].kind /\ j.keys = write[w].keys
      /\ j.prior = write[w].prior /\ j.made = write[w].made /\ j.gone = write[w].gone \cup {k}
  BY <1>1, <1>3, OneDeleted DEF j
<1>7. k \notin write[w].cap.saves
  BY <1>1, <1>2 DEF JobForm
<1>8. JobForm(j)
  BY <1>1, <1>3, <1>4, <1>5, <1>6, <1>7 DEF JobForm
<1>9. durable' \in [AKeys -> AsyncVals] /\ \A i \in AKeys : durable'[i] = IF i = k THEN NoEntry ELSE durable[i]
  BY <1>1, <1>2, <1>3 DEF AsyncType, AsyncVals
<1>10. ASSUME NEW i \in write[w].keys \ exposed PROVE Tended(cache[i], durable'[i], j, i)
  <2>1. Tended(cache[i], durable[i], write[w], i) /\ i \in AKeys
    BY <1>1, <1>4, <1>5, <1>10 DEF AfInv, AsyncJobs
  <2>2. QED
    BY <1>2, <1>4, <1>5, <1>6, <1>7, <1>9, <2>1 DEF Tended
<1>11. QED
  BY <1>1, <1>3, <1>4, <1>5, <1>6, <1>8, <1>9, <1>10, JobStep DEF AsyncType

LEMMA FlushEndOk ==
  ASSUME AfInv, NEW w \in Writers, FlushEnd(w)
  PROVE  AfInv'
<1>1. /\ write' = [write EXCEPT ![w] = NoWriteYet] /\ stamp' = stamp /\ exposed' = exposed
      /\ cache' = cache /\ durable' = durable /\ write[w].pc = "deletes"
  BY DEF FlushEnd
<1>2. JobForm(write[w]) /\ AsyncType
  BY DEF AfInv
<1>3. ASSUME NEW k \in write[w].keys \ exposed, cache[k] # NoEntry PROVE durable[k] = cache[k]
  <2>1. Tended(cache[k], durable[k], write[w], k)
    BY <1>1, <1>3 DEF AfInv
  <2>2. CASE k \in write[w].cap.saves
    BY <1>1, <2>1, <2>2 DEF Tended
  <2>3. CASE k \notin write[w].cap.saves
    BY <1>1, <1>3, <2>1, <2>3 DEF Tended
  <2>4. QED
    BY <2>2, <2>3
<1>4. QED
  BY <1>1, <1>2, <1>3, NoWriteYetOk, JobStep DEF AsyncType

\* A cancelled write leaves its keys exposed.
LEMMA CancelOk ==
  ASSUME AfInv, NEW w \in Writers, Cancel(w)
  PROVE  AfInv'
<1> DEFINE q == [write[w] EXCEPT !.pc = "thread"]
           j == IF write[w].pc = "apply" THEN q ELSE NoWriteYet
<1>1. /\ write' = [write EXCEPT ![w] = j] /\ stamp' = stamp /\ exposed' = exposed \cup write[w].keys
      /\ cache' = cache /\ durable' = durable /\ write[w].pc \notin {"idle", "thread"}
  BY DEF Cancel
<1>2. write[w] \in AsyncJobs /\ JobForm(write[w]) /\ AsyncType
  BY DEF AfInv, AsyncType
<1>3. /\ q \in AsyncJobs /\ q.pc = "thread" /\ q.cap = write[w].cap
      /\ q.kind = write[w].kind /\ q.keys = write[w].keys
      /\ q.prior = write[w].prior /\ q.made = write[w].made /\ q.gone = write[w].gone
  BY <1>2, InPhase
<1> HIDE DEF q
<1>4. write[w].pc = "apply" => JobForm(q)
  BY <1>2, <1>3 DEF JobForm
<1>5. j \in AsyncJobs /\ JobForm(j) /\ (j.pc = "idle" \/ j.keys = write[w].keys)
  BY <1>3, <1>4, NoWriteYetOk
<1>6. j.pc = "thread" => j.keys \subseteq exposed'
  BY <1>1, <1>3, NoWriteYetOk
<1> HIDE DEF j
<1>7. \A k \in write[w].keys \ exposed' : FALSE
  BY <1>1
<1>8. QED
  BY <1>1, <1>2, <1>5, <1>6, <1>7, JobStep DEF AsyncType

-----------------------------------------------------------------------------
\* A failed flush leaves a key of the write in step with its row, or exposed.
LEMMA RolledBack ==
  ASSUME AfInv, NEW w \in Writers, write[w].pc \in {"saves", "archives", "deletes"},
         NEW k \in AKeys, k \notin exposed \cup LeftOver(write[w]), k \in write[w].keys,
         Rollback(write[w])[k] # NoEntry
  PROVE  durable[k] = Rollback(write[w])[k]
<1> DEFINE j == write[w]
           r == Rollback(write[w])[k]
<1>1. Tended(cache[k], durable[k], j, k)
  BY DEF AfInv
<1>2. r = CASE k \in PutBack(j) -> j.prior[k]
            [] k \in Dropped(j)  -> NoEntry
            [] OTHER             -> cache[k]
  BY DEF Rollback
<1>3. /\ k \in PutBack(j) /\ j.prior[k] # NoEntry => k \notin Flushed(j)
      /\ k \in j.cap.saves => k \in Flushed(j) \cup PutBack(j) \cup Dropped(j)
  BY DEF LeftOver
<1>4. /\ k \in j.gone => k \in Flushed(j)
      /\ j.pc # "saves" /\ k \in j.cap.saves => k \in Flushed(j)
      /\ k \in Flushed(j) => k \in j.gone \/ (j.pc # "saves" /\ k \in j.cap.saves)
  BY DEF Flushed
<1> HIDE DEF j, r
<1>5. CASE k \in PutBack(j)
  <2>1. r = j.prior[k] /\ k \notin Flushed(j)
    BY <1>2, <1>3, <1>5 DEF r
  <2>2. QED
    BY <1>1, <1>4, <2>1 DEF r, Tended
<1>6. CASE k \notin PutBack(j)
  <2>1. k \notin Dropped(j) /\ r = cache[k]
    BY <1>2, <1>6 DEF r
  <2>2. k \notin j.gone
    BY <1>1, <2>1 DEF r, j, Tended
  <2>3. CASE k \in j.cap.saves
    BY <1>1, <1>3, <1>4, <1>6, <2>1, <2>2, <2>3 DEF r, j, Tended
  <2>4. CASE k \notin j.cap.saves
    BY <1>1, <2>1, <2>2, <2>4 DEF r, j, Tended
  <2>5. QED
    BY <2>3, <2>4
<1>7. QED
  BY <1>5, <1>6

LEMMA FlushFailsOk ==
  ASSUME AfInv, NEW w \in Writers, FlushFails(w)
  PROVE  AfInv'
<1>1. write[w].pc \in {"saves", "archives", "deletes"}
  BY DEF FlushFails
<1>2. /\ write' = [write EXCEPT ![w] = NoWriteYet] /\ stamp' = stamp
      /\ exposed' = exposed \cup LeftOver(write[w])
      /\ cache' = Rollback(write[w]) /\ durable' = durable
  BY DEF FlushFails
<1>3. write[w] \in AsyncJobs /\ JobForm(write[w]) /\ AsyncType
  BY DEF AfInv, AsyncType
<1>4. write[w].keys \subseteq AKeys /\ write[w].prior \in [AKeys -> AsyncVals]
  BY <1>3 DEF AsyncJobs
<1>5. cache' \in [AKeys -> AsyncVals]
  BY <1>2, <1>3, <1>4 DEF Rollback, AsyncType, AsyncVals
<1>6. ASSUME NEW k \in AKeys \ write[w].keys PROVE cache'[k] = cache[k]
  BY <1>2, <1>6 DEF Rollback, PutBack, Dropped
<1>7. ASSUME NEW k \in write[w].keys \ exposed', cache'[k] # NoEntry PROVE durable'[k] = cache'[k]
  BY <1>1, <1>2, <1>4, <1>7, RolledBack
<1>8. QED
  BY <1>1, <1>2, <1>3, <1>5, <1>6, <1>7, NoWriteYetOk, JobStep DEF AsyncType

\* A read between writes finds the entry the row holds; one that comes between
\* leaves its key exposed.
LEMMA GetOk ==
  ASSUME AfInv, NEW k \in AKeys, Get(k)
  PROVE  AfInv'
<1> DEFINE e == Seen[k]
<1>1. /\ cache' = [cache EXCEPT ![k] = e] /\ durable' = [durable EXCEPT ![k] = e]
      /\ exposed' = exposed \cup (IF Touched(k) # {} THEN {k} ELSE {}) /\ write' = write /\ stamp' = stamp
  BY DEF Get
<1>2. e \in AsyncVals /\ AsyncType
  BY DEF AfInv, AsyncType, Seen
<1> HIDE DEF e
<1>3. AsyncType'
  BY <1>2, <1>1 DEF AsyncType
<1>4. \A i \in AKeys : /\ cache'[i] = IF i = k THEN e ELSE cache[i]
                       /\ durable'[i] = IF i = k THEN e ELSE durable[i]
  BY <1>2, <1>1 DEF AsyncType
<1>5. exposed \subseteq exposed' /\ (Touched(k) # {} => k \in exposed')
  BY <1>1
<1>6. ASSUME NEW w \in Writers, write[w].pc # "idle", NEW i \in write[w].keys \ exposed'
      PROVE  Tended(cache'[i], durable'[i], write[w], i)
  <2>1. i \in AKeys /\ w \in Touched(i)
    BY <1>2, <1>6 DEF AsyncType, AsyncJobs, Touched
  <2>2. i # k
    BY <1>5, <1>6, <2>1
  <2>3. cache'[i] = cache[i] /\ durable'[i] = durable[i]
    BY <1>4, <2>1, <2>2
  <2>4. Tended(cache[i], durable[i], write[w], i)
    BY <1>5, <1>6 DEF AfInv
  <2>5. QED
    BY <2>3, <2>4
<1>7. ASSUME NEW i \in AKeys \ exposed', Touched(i)' = {}, cache'[i] # NoEntry PROVE durable'[i] = cache'[i]
  <2>1. Touched(i) = {} /\ i \notin exposed
    BY <1>1, <1>5, <1>7 DEF Touched
  <2>2. cache[i] # NoEntry => durable[i] = cache[i]
    BY <2>1 DEF AfInv, InStep
  <2>3. CASE i = k
    BY <1>4, <2>3
  <2>4. CASE i # k
    BY <1>4, <1>7, <2>2, <2>4
  <2>5. QED
    BY <2>3, <2>4
<1>8. InStep'
  BY <1>7 DEF InStep
<1>9. QED
  BY <1>1, <1>2, <1>3, <1>5, <1>6, <1>8 DEF AfInv

LEMMA AfStepOk == AfInv /\ [AfNext]_afVars => AfInv'
<1> SUFFICES ASSUME AfInv, [AfNext]_afVars PROVE AfInv'
  OBVIOUS
<1>1. CASE UNCHANGED afVars
  BY <1>1 DEF AfInv, AsyncType, InStep, Touched, Tended, afVars
<1>2. ASSUME NEW w \in Writers,
             \/ BeginAsyncSave(w) \/ BeginDelete(w) \/ BeginTouch(w) \/ BeginSupersede(w)
             \/ BeginIngest(w) \/ BeginGc(w)
      PROVE  AfInv'
  BY <1>2, BeginsOk
<1>3. ASSUME NEW w \in Writers,
             Apply(w) \/ FlushSaves(w) \/ FlushArchive(w) \/ ToDeletes(w) \/ FlushDelete(w)
      PROVE  AfInv'
  BY <1>3, ApplyOk, FlushSavesOk, FlushArchiveOk, ToDeletesOk, FlushDeleteOk
<1>4. ASSUME NEW w \in Writers, FlushEnd(w) \/ FlushFails(w) \/ Cancel(w)
      PROVE  AfInv'
  BY <1>4, FlushEndOk, FlushFailsOk, CancelOk
<1>5. ASSUME NEW k \in AKeys, Get(k)
      PROVE  AfInv'
  BY <1>5, GetOk
<1>6. QED
  BY <1>1, <1>2, <1>3, <1>4, <1>5 DEF AfNext

\* The cache of the asynchronous store agrees with the rows wherever no write is
\* running, but for the keys the code leaves exposed (InStep lists them): every
\* other failed flush, of whatever operation and whatever it saves, archives and
\* deletes, with whatever other writes in flight, is rolled back completely.
THEOREM CacheStaysInStep == AfSpec => []InStep
<1>1. AfInv => InStep
  BY DEF AfInv
<1>2. QED
  BY <1>1, AfInitOk, AfStepOk, PTL DEF AfSpec

-----------------------------------------------------------------------------
(***************************************************************************)
(* Decay and the collector. The days solved from a curve are the days the  *)
(* curve takes, whatever half-life, floor and confidence: what is left are *)
(* facts about quotients rounded up.                                       *)
(***************************************************************************)

\* A quotient lies between the multiples around it.
LEMMA QuotientBetween ==
    ASSUME NEW a \in Nat, NEW b \in Nat \ {0}
    PROVE  /\ a \div b \in Nat
           /\ b * (a \div b) <= a
           /\ a < b * (a \div b) + b
OBVIOUS

\* Rounded up, a quotient is at most f if and only if a is at most f times b.
LEMMA UpDivIs ==
    ASSUME NEW a \in Nat, NEW b \in Nat \ {0}, NEW f \in Nat
    PROVE  UpDiv(a, b) \in Nat /\ (UpDiv(a, b) <= f <=> a <= f * b)
<1> DEFINE q == (a + b - 1) \div b
<1>1. q \in Nat /\ b * q <= a + b - 1 /\ a + b - 1 < b * q + b
  <2>1. a + b - 1 \in Nat
    OBVIOUS
  <2> HIDE DEF q
  <2>2. QED
    BY <2>1, QuotientBetween DEF q
<1>2. UpDiv(a, b) = q
  BY DEF UpDiv
<1> HIDE DEF q
<1>3. ASSUME q <= f PROVE a <= f * b
  <2>1. q * b <= f * b
    BY <1>1, <1>3
  <2>2. b * q = q * b /\ q * b \in Nat /\ f * b \in Nat
    BY <1>1
  <2>3. QED
    BY <1>1, <2>1, <2>2
<1>4. ASSUME f < q PROVE f * b < a
  <2>1. (f + 1) * b <= q * b
    BY <1>1, <1>4
  <2>2. (f + 1) * b = f * b + b /\ b * q = q * b /\ q * b \in Nat /\ f * b \in Nat
    BY <1>1
  <2>3. QED
    BY <1>1, <2>1, <2>2
<1>5. QED
  BY <1>1, <1>2, <1>3, <1>4

LEMMA TwofoldGrows ==
    ASSUME NEW m \in Nat, NEW n \in Nat, m <= n
    PROVE  /\ Twofold(m) \in {1, 2, 4, 8, 16, 32} /\ Twofold(n) \in {1, 2, 4, 8, 16, 32}
           /\ Twofold(m) <= Twofold(n)
<1>1. \A k \in Nat : k = 0 \/ k = 1 \/ k = 2 \/ k = 3 \/ k = 4 \/ k >= 5
  OBVIOUS
<1>2. /\ Twofold(0) = 1 /\ Twofold(1) = 2 /\ Twofold(2) = 4 /\ Twofold(3) = 8 /\ Twofold(4) = 16
      /\ \A k \in Nat : k >= 5 => Twofold(k) = 32
  BY DEF Twofold
<1>3. QED
  BY <1>1, <1>2

\* After that many half-lives a confidence is down to the floor.
LEMMA HalvingsEnd ==
    ASSUME NEW c \in 0..20, NEW f \in 1..20
    PROVE  Halvings(c, f) \in 0..5 /\ c <= f * Twofold(Halvings(c, f))
<1>1. /\ Twofold(0) = 1 /\ Twofold(1) = 2 /\ Twofold(2) = 4 /\ Twofold(3) = 8 /\ Twofold(4) = 16
      /\ Twofold(5) = 32
  BY DEF Twofold
<1> DEFINE P(n) == c <= f * Twofold(n)
<1>2. \E n \in 0..5 : P(n) /\ \A m \in 0..5 : m < n => c > f * Twofold(m)
  <2>1. P(5)
    BY <1>1
  <2>2. \A n \in 0..5 : n = 0 \/ n = 1 \/ n = 2 \/ n = 3 \/ n = 4 \/ n = 5
    OBVIOUS
  <2>3. CASE P(0)
    BY <2>3
  <2>4. CASE ~P(0) /\ P(1)
    BY <1>1, <2>2, <2>4
  <2>5. CASE ~P(0) /\ ~P(1) /\ P(2)
    BY <1>1, <2>2, <2>5
  <2>6. CASE ~P(0) /\ ~P(1) /\ ~P(2) /\ P(3)
    BY <1>1, <2>2, <2>6
  <2>7. CASE ~P(0) /\ ~P(1) /\ ~P(2) /\ ~P(3) /\ P(4)
    BY <1>1, <2>2, <2>7
  <2>8. CASE ~P(0) /\ ~P(1) /\ ~P(2) /\ ~P(3) /\ ~P(4)
    BY <1>1, <2>1, <2>2, <2>8
  <2>9. QED
    BY <2>3, <2>4, <2>5, <2>6, <2>7, <2>8
<1>3. QED
  BY <1>2 DEF Halvings

\* The first day at the floor is not before the reference, and from it on the curve is there.
LEMMA FloorReached ==
    ASSUME NEW c \in 0..20, NEW f \in 1..20, c > f, NEW h \in Nat \ {0}, NEW curve,
           NEW d \in Nat, DaysToFloor(c, f, h, curve) <= d
    PROVE  Faded(c, d, h, curve) <= f
<1>1. CASE curve = "power_law"
  <2> DEFINE u == UpDiv(c * h, f)
  <2>1. c * h \in Nat /\ f \in Nat \ {0}
    OBVIOUS
  <2>2. u \in Nat /\ u <= h + d
    <3>1. u - h <= d
      BY <1>1 DEF DaysToFloor
    <3>2. u \in Nat
      <4> HIDE DEF u
      <4>1. QED
        BY <2>1, UpDivIs DEF u
    <3> HIDE DEF u
    <3>3. QED
      BY <3>1, <3>2
  <2>3. c * h <= (h + d) * f
    <3>1. h + d \in Nat
      OBVIOUS
    <3> HIDE DEF u
    <3>2. QED
      BY <2>1, <2>2, <3>1, UpDivIs DEF u
  <2>4. d > 0
    <3> SUFFICES ASSUME d = 0 PROVE FALSE
      OBVIOUS
    <3>1. c * h <= h * f
      BY <2>3
    <3>2. (f + 1) * h <= c * h /\ (f + 1) * h = h * f + h /\ h * f \in Nat
      OBVIOUS
    <3>3. QED
      BY <2>1, <3>1, <3>2
  <2>5. (h + d) * f = f * (h + d) /\ h + d \in Nat \ {0}
    OBVIOUS
  <2>6. UpDiv(c * h, h + d) <= f
    BY <2>1, <2>3, <2>5, UpDivIs
  <2>7. QED
    BY <1>1, <2>4, <2>6 DEF Faded
<1>2. CASE curve # "power_law"
  <2> DEFINE n == Halvings(c, f)
             q == d \div h
  <2>1. n \in 0..5 /\ c <= f * Twofold(n)
    <3> HIDE DEF n
    <3>1. QED
      BY HalvingsEnd DEF n
  <2>2. h * n <= d
    BY <1>2 DEF DaysToFloor
  <2>3. q \in Nat /\ d < h * q + h
    <3> HIDE DEF q
    <3>1. QED
      BY QuotientBetween DEF q
  <2> HIDE DEF n, q
  <2>4. n <= q
    <3> SUFFICES ASSUME q + 1 <= n PROVE FALSE
      BY <2>1, <2>3
    <3>1. h * (q + 1) <= h * n /\ h * (q + 1) = h * q + h /\ h * q \in Nat /\ h * n \in Nat
      BY <2>1, <2>3
    <3>2. QED
      BY <2>2, <2>3, <3>1
  <2>5. /\ Twofold(n) \in {1, 2, 4, 8, 16, 32} /\ Twofold(q) \in {1, 2, 4, 8, 16, 32}
        /\ Twofold(n) <= Twofold(q)
    BY <2>1, <2>3, <2>4, TwofoldGrows
  <2>6. c <= f * Twofold(q)
    BY <2>1, <2>5
  <2>7. UpDiv(c, Twofold(q)) <= f
    <3> DEFINE t == Twofold(q)
    <3>1. t \in Nat \ {0} /\ c <= f * t
      BY <2>5, <2>6
    <3> HIDE DEF t
    <3>2. UpDiv(c, t) <= f
      BY <3>1, UpDivIs
    <3>3. QED
      BY <3>2 DEF t
  <2>8. n # 0 /\ d > 0
    <3>1. n # 0
      <4>1. Twofold(0) = 1
        BY DEF Twofold
      <4>2. QED
        BY <2>1, <4>1
    <3>2. QED
      BY <2>1, <2>2, <3>1
  <2>9. QED
    BY <1>2, <2>7, <2>8 DEF Faded, q
<1>3. QED
  BY <1>1, <1>2

\* A confidence only fades, and not below nothing.
LEMMA OnlyFades ==
    ASSUME NEW c \in 0..20, NEW h \in Nat \ {0}, NEW curve, NEW d \in Int
    PROVE  Faded(c, d, h, curve) \in Nat /\ Faded(c, d, h, curve) <= c
<1>1. CASE d <= 0
  BY <1>1 DEF Faded
<1>2. CASE d > 0 /\ curve = "power_law"
  <2>1. c * h \in Nat /\ h + d \in Nat \ {0}
    BY <1>2
  <2>2. c * h <= c * (h + d)
    BY <1>2
  <2> DEFINE a == c * h
             b == h + d
  <2>3. Faded(c, d, h, curve) = UpDiv(a, b)
    BY <1>2 DEF Faded
  <2>4. a \in Nat /\ b \in Nat \ {0} /\ a <= c * b /\ c \in Nat
    BY <2>1, <2>2
  <2> HIDE DEF a, b
  <2>5. QED
    BY <2>3, <2>4, UpDivIs
<1>3. CASE d > 0 /\ curve # "power_law"
  <2>1. d \div h \in Nat
    BY <1>3, QuotientBetween
  <2>2. Twofold(d \div h) \in {1, 2, 4, 8, 16, 32}
    BY <2>1, TwofoldGrows
  <2> DEFINE t == Twofold(d \div h)
  <2>3. t \in Nat \ {0} /\ c <= c * t
    BY <2>2
  <2>4. Faded(c, d, h, curve) = UpDiv(c, t)
    BY <1>3 DEF Faded
  <2> HIDE DEF t
  <2>5. QED
    BY <2>3, <2>4, UpDivIs
<1>4. QED
  BY <1>1, <1>2, <1>3

\* What has some confidence keeps some.
LEMMA StaysPositive ==
    ASSUME NEW c \in 0..20, c > 0, NEW h \in Nat \ {0}, NEW curve, NEW d \in Int
    PROVE  Faded(c, d, h, curve) > 0
<1>1. CASE d <= 0
  BY <1>1 DEF Faded
<1>2. CASE d > 0 /\ curve = "power_law"
  <2>1. c * h \in Nat /\ h + d \in Nat \ {0} /\ ~(c * h <= 0 * (h + d))
    BY <1>2
  <2>2. QED
    BY <1>2, <2>1, UpDivIs DEF Faded
<1>3. CASE d > 0 /\ curve # "power_law"
  <2>1. d \div h \in Nat
    BY <1>3, QuotientBetween
  <2> DEFINE t == Twofold(d \div h)
  <2>2. t \in Nat \ {0} /\ ~(c <= 0 * t)
    BY <2>1, TwofoldGrows
  <2>3. Faded(c, d, h, curve) = UpDiv(c, t)
    BY <1>3 DEF Faded
  <2> HIDE DEF t
  <2>4. QED
    BY <2>2, <2>3, UpDivIs
<1>4. QED
  BY <1>1, <1>2, <1>3

-----------------------------------------------------------------------------
MemFields == {"tier", "conf", "reinforced", "updated", "accessed", "created", "count",
              "stability", "useful", "total"}

MemOk(e) ==
  /\ DOMAIN e = MemFields
  /\ e.tier \in DOMAIN Layers /\ e.conf \in 0..20 /\ e.stability \in Nat
  /\ e.reinforced \in Nat \cup {NoDate} /\ e.updated \in Nat
  /\ e.count \in Nat /\ e.useful \in Nat /\ e.total \in Nat

TdInv ==
  /\ MemOk(mem) /\ today \in Nat
  /\ CollectedWasAtFloor

\* What the definitions of decay work on.
LEMMA EntryFacts ==
    ASSUME NEW e, MemOk(e)
    PROVE  /\ e.tier \in DOMAIN Layers /\ Layers[e.tier].floor \in 0..20
           /\ HalfLife(e) \in Nat \ {0} /\ DecayReference(e) \in Nat
<1>1. e.tier \in DOMAIN Layers /\ e.stability \in Nat /\ e.updated \in Nat
      /\ e.reinforced \in Nat \cup {NoDate}
  BY DEF MemOk
<1>2. Layers[e.tier].floor \in 0..20 /\ Layers[e.tier].halfLife \in Nat \ {0}
  BY <1>1, TierAssumption
<1>3. QED
  BY <1>1, <1>2 DEF HalfLife, DecayReference

\* What the collector takes has been at its floor for the whole retention time.
LEMMA OverdueWasThere ==
    ASSUME NEW e, MemOk(e), today \in Nat, Overdue(e),
           NEW past \in (today - FloorRetention)..today
    PROVE  Effective(e, past) <= Layers[e.tier].floor
<1> DEFINE f == Layers[e.tier].floor
           h == HalfLife(e)
           ref == DecayReference(e)
           curve == Layers[e.tier].curve
           at(x) == Faded(e.conf, x - ref, h, curve)
<1>1. f \in 0..20 /\ h \in Nat \ {0} /\ ref \in Nat /\ e.conf \in 0..20
  BY EntryFacts DEF MemOk
<1>2. FloorRetention \in Nat /\ Ceiling \in 0..20 /\ past \in Int /\ past <= today
      /\ today - FloorRetention <= past
  BY TierAssumption
<1>3. \A x \in Int : at(x) \in Nat /\ at(x) <= e.conf
  <2> TAKE x \in Int
  <2>1. x - ref \in Int
    BY <1>1
  <2> HIDE DEF f, h, ref, curve
  <2>2. QED
    BY <1>1, <2>1, OnlyFades
<1>4. \A x \in Int : Effective(e, x) <= f <=> (Ceiling <= f \/ at(x) <= f)
  <2> TAKE x \in Int
  <2>1. at(x) \in Nat
    BY <1>3
  <2>2. Effective(e, x) = Greatest(f, Least(Ceiling, at(x)))
    BY DEF Effective
  <2> HIDE DEF at, f
  <2>3. QED
    BY <1>1, <1>2, <2>1, <2>2 DEF Greatest, Least
<1>5. Effective(e, today) <= f /\ DaysAtFloor(e) >= FloorRetention
  BY DEF Overdue
<1>6. CASE Ceiling <= f
  BY <1>2, <1>4, <1>6
<1>7. CASE e.conf <= f
  <2>1. at(past) \in Nat /\ at(past) <= e.conf
    BY <1>2, <1>3
  <2> HIDE DEF at, f
  <2>2. at(past) <= f
    BY <1>1, <1>7, <2>1
  <2>3. QED
    BY <1>2, <1>4, <2>2 DEF f
<1>8. CASE ~(Ceiling <= f) /\ ~(e.conf <= f) /\ f # 0
  <2> DEFINE needed == DaysToFloor(e.conf, f, h, curve)
             total == SinceReference(e)
  <2>1. DaysAtFloor(e) = Greatest(total - needed, 0)
    BY <1>8 DEF DaysAtFloor
  <2>2. total = Greatest(today - ref, 0)
    BY DEF SinceReference
  <2>3. needed \in Int
    <3>1. CASE curve = "power_law"
      <4>1. e.conf * h \in Nat /\ f \in Nat \ {0}
        BY <1>1, <1>8
      <4>2. UpDiv(e.conf * h, f) \in Nat
        <5> HIDE DEF f, h, curve
        <5>1. QED
          BY <4>1, UpDivIs
      <4>3. needed = UpDiv(e.conf * h, f) - h
        BY <3>1 DEF DaysToFloor
      <4> HIDE DEF needed, h, f
      <4>4. QED
        BY <1>1, <4>2, <4>3
    <3>2. CASE curve # "power_law"
      <4>1. f \in 1..20
        BY <1>1, <1>8
      <4>2. Halvings(e.conf, f) \in 0..5
        BY <1>1, <4>1, HalvingsEnd
      <4>3. needed = h * Halvings(e.conf, f)
        BY <3>2 DEF DaysToFloor
      <4> HIDE DEF needed, h, f
      <4>4. QED
        BY <1>1, <4>2, <4>3
    <3>3. QED
      BY <3>1, <3>2
  <2>4. CASE FloorRetention = 0
    <3>1. past = today
      BY <1>2, <2>4
    <3>2. QED
      BY <1>5, <3>1
  <2>5. CASE FloorRetention # 0
    <3> HIDE DEF needed, total, f, ref, h, curve
    <3>1. total - needed >= FloorRetention /\ total \in Int
      BY <1>1, <1>2, <1>5, <2>1, <2>2, <2>3, <2>5 DEF Greatest
    <3>2. CASE needed <= past - ref /\ past - ref \in Nat
      <4>1. f \in 1..20 /\ e.conf > f
        BY <1>1, <1>8
      <4>2. at(past) <= f
        BY <1>1, <3>2, <4>1, FloorReached DEF needed
      <4>3. QED
        BY <1>2, <1>4, <4>2 DEF f
    <3>3. needed >= 0 => needed <= past - ref /\ past - ref \in Nat
      BY <1>1, <1>2, <2>2, <2>3, <2>5, <3>1 DEF Greatest
    <3>4. needed >= 0
      <4> SUFFICES ASSUME needed <= 0 PROVE needed >= 0
        BY <2>3
      <4>1. f \in 1..20 /\ e.conf > f /\ 0 \in Nat
        BY <1>1, <1>8
      <4>2. Faded(e.conf, 0, h, curve) <= f
        BY <1>1, <4>1, FloorReached DEF needed
      <4>3. Faded(e.conf, 0, h, curve) = e.conf
        BY DEF Faded
      <4>4. QED
        BY <1>1, <4>1, <4>2, <4>3
    <3>5. QED
      BY <3>2, <3>3, <3>4
  <2>6. QED
    BY <2>4, <2>5
<1>9. CASE ~(Ceiling <= f) /\ ~(e.conf <= f) /\ f = 0
  <2>1. at(today) = 0
    <3>1. at(today) <= f /\ at(today) \in Nat
      BY <1>3, <1>4, <1>5, <1>9
    <3> HIDE DEF at
    <3>2. QED
      BY <1>9, <3>1
  <2>2. at(today) > 0
    BY <1>1, <1>9, StaysPositive
  <2> HIDE DEF at
  <2>3. QED
    BY <2>1, <2>2
<1>10. QED
  BY <1>6, <1>7, <1>8, <1>9

LEMMA StabilityOk ==
    ASSUME NEW e, MemOk(e), NEW useful \in BOOLEAN, NEW s \in Stabilities(e, useful)
    PROVE  s \in Nat
<1>1. HalfLife(e) \in Nat \ {0}
  BY EntryFacts
<1>2. e.stability \in Nat
  BY DEF MemOk
<1> DEFINE o == HalfLife(e)
<1>3. s \in {e.stability, o, o + 1, Greatest(1, (o * 4) \div 5)}
  BY DEF Stabilities
<1>4. (o * 4) \div 5 \in Nat
  <2> HIDE DEF o
  <2>1. o * 4 \in Nat /\ 5 \in Nat \ {0}
    BY <1>1 DEF o
  <2>2. QED
    BY <2>1, QuotientBetween
<1> HIDE DEF o
<1>5. QED
  BY <1>1, <1>2, <1>3, <1>4 DEF Greatest, o

LEMMA TdStepOk ==
    ASSUME TdInv, [TdNext]_tdVars
    PROVE  TdInv'
<1>1. Ceiling \in 0..20 /\ Boosts \subseteq Nat
      /\ \A t \in DOMAIN Layers : Layers[t].up \subseteq DOMAIN Layers
                               /\ Layers[t].down \subseteq DOMAIN Layers
  BY TierAssumption
<1>2. /\ MemOk(mem) /\ today \in Nat
      /\ mem.tier \in DOMAIN Layers /\ mem.conf \in 0..20 /\ mem.count \in Nat
      /\ mem.total \in Nat /\ mem.useful \in Nat
  BY DEF TdInv, MemOk
<1>3. ASSUME UNCHANGED <<moved, atMove>> \/ moved'.kind \notin {"demoted", "archived"}
      PROVE  CollectedWasAtFloor'
  BY <1>3 DEF TdInv, CollectedWasAtFloor, Effective, DecayReference, HalfLife
<1>4. CASE UNCHANGED tdVars
  BY <1>3, <1>4 DEF tdVars, TdInv
<1>5. CASE ReadEntry
  <2>1. MemOk(mem')
    BY <1>2, <1>5 DEF ReadEntry, MemOk, MemFields
  <2>2. QED
    BY <1>2, <1>3, <1>5, <2>1 DEF ReadEntry, TdInv
<1>6. ASSUME NEW b \in Boosts, ReinforceEntry(b) PROVE TdInv'
  <2>1. PICK s \in Stabilities(mem, TRUE) :
          LET e == [mem EXCEPT !.conf = Boosted(mem, b), !.reinforced = today,
                               !.updated = today, !.count = @ + 1, !.stability = s]
          IN  \/ PromotedTo(e) = {} /\ mem' = e /\ UNCHANGED <<moved, atMove>>
              \/ \E t \in PromotedTo(e) :
                   mem' = [e EXCEPT !.tier = t] /\ moved' = Move("promoted", e) /\ atMove' = e
    BY <1>6 DEF ReinforceEntry
  <2> DEFINE e == [mem EXCEPT !.conf = Boosted(mem, b), !.reinforced = today,
                              !.updated = today, !.count = @ + 1, !.stability = s]
  <2>2. s \in Nat
    BY <1>2, <2>1, StabilityOk
  <2>3. Boosted(mem, b) \in 0..20
    BY <1>1, <1>2 DEF Boosted, Least, Greatest
  <2>4. MemOk(e)
    BY <1>2, <2>2, <2>3 DEF MemOk, MemFields
  <2>5. e.tier = mem.tier
    BY <1>2 DEF MemOk, MemFields
  <2> HIDE DEF e
  <2>6. PromotedTo(e) \subseteq DOMAIN Layers
    BY <1>1, <1>2, <2>5 DEF PromotedTo
  <2>7. MemOk(mem')
    <3>1. CASE mem' = e
      BY <2>4, <3>1
    <3>2. ASSUME NEW t \in PromotedTo(e), mem' = [e EXCEPT !.tier = t] PROVE MemOk(mem')
      BY <2>4, <2>6, <3>2 DEF MemOk, MemFields
    <3>3. QED
      BY <2>1, <3>1, <3>2 DEF e
  <2>8. UNCHANGED <<moved, atMove>> \/ moved'.kind \notin {"demoted", "archived"}
    <3>1. Move("promoted", e).kind = "promoted"
      BY DEF Move
    <3>2. UNCHANGED <<moved, atMove>> \/ moved' = Move("promoted", e)
      BY <2>1 DEF e
    <3>3. QED
      BY <3>1, <3>2
  <2>9. today' = today
    BY <1>6 DEF ReinforceEntry
  <2>10. QED
    BY <1>2, <1>3, <2>7, <2>8, <2>9 DEF TdInv
<1>7. ASSUME NEW useful \in BOOLEAN, RecordAccess(useful) PROVE TdInv'
  <2>1. PICK s \in Stabilities(mem, useful) :
          mem' = [mem EXCEPT !.conf = Usefulness(mem, useful), !.stability = s, !.total = @ + 1,
                             !.useful = @ + (IF useful THEN 1 ELSE 0)]
    BY <1>7 DEF RecordAccess
  <2>2. s \in Nat
    BY <1>2, <2>1, StabilityOk
  <2>3. Usefulness(mem, useful) \in 0..20
    <3> DEFINE n == mem.useful + (IF useful THEN 1 ELSE 0)
               target == (20 * (n + 1)) \div (mem.total + 3)
               blended == mem.conf + (target - mem.conf) \div 5
    <3>1. target \in Int
      <4>1. 20 * (n + 1) \in Nat /\ mem.total + 3 \in Nat \ {0}
        BY <1>2
      <4> HIDE DEF n
      <4>2. QED
        BY <4>1, QuotientBetween
    <3>2. blended \in Int
      <4> HIDE DEF target
      <4>1. QED
        BY <1>2, <3>1
    <3>3. Usefulness(mem, useful) = Greatest(0, Least(20, Least(blended, Greatest(Ceiling, mem.conf))))
      BY DEF Usefulness
    <3> HIDE DEF blended
    <3>4. QED
      BY <1>1, <1>2, <3>2, <3>3 DEF Greatest, Least
  <2>4. mem.useful + (IF useful THEN 1 ELSE 0) \in Nat
    BY <1>2
  <2>5. MemOk(mem')
    BY <1>2, <2>1, <2>2, <2>3, <2>4 DEF MemOk, MemFields
  <2>6. QED
    BY <1>2, <1>3, <1>7, <2>5 DEF RecordAccess, TdInv
<1>8. CASE Collect
  <2>1. /\ Overdue(mem) /\ atMove' = mem /\ today' = today
        /\ \/ moved' = Move("archived", mem) /\ UNCHANGED mem
           \/ \E t \in DemotedTo(mem) : /\ mem' = [mem EXCEPT !.tier = t, !.updated = today]
                                        /\ moved' = Move("demoted", mem)
    BY <1>8 DEF Collect
  <2>2. moved'.day = today /\ moved'.from = mem.tier
    <3>1. moved' = Move("archived", mem) \/ moved' = Move("demoted", mem)
      BY <2>1
    <3>2. QED
      BY <3>1 DEF Move
  <2>3. DemotedTo(mem) \subseteq DOMAIN Layers
    BY <1>1, <1>2 DEF DemotedTo
  <2>4. MemOk(mem')
    BY <1>2, <2>1, <2>3 DEF MemOk, MemFields
  <2>5. \A past \in (today - FloorRetention)..today : Effective(mem, past) <= Layers[mem.tier].floor
    BY <1>2, <2>1, OverdueWasThere
  <2>6. CollectedWasAtFloor'
    BY <2>1, <2>2, <2>5 DEF CollectedWasAtFloor, Effective, DecayReference, HalfLife
  <2>7. QED
    BY <1>2, <2>1, <2>4, <2>6 DEF TdInv
<1>9. CASE DayPasses
  <2>1. today' \in Nat
    BY <1>2, <1>9 DEF DayPasses
  <2>2. QED
    BY <1>2, <1>3, <1>9, <2>1 DEF DayPasses, TdInv
<1>10. QED
  BY <1>4, <1>5, <1>6, <1>7, <1>8, <1>9 DEF TdNext

\* For any profile, ceiling, retention time and boosts, any confidence at the start and any
\* course of accesses, reinforcements and moves between tiers: what the collector demotes or
\* archives had been at its floor on every day of the retention time, along the entry's own
\* half-life and its tier's curve.
THEOREM CollectorIsPatient == TdSpec => []CollectedWasAtFloor
<1>1. TdInit => TdInv
  <2> SUFFICES ASSUME TdInit PROVE TdInv
    OBVIOUS
  <2>1. MemOk(mem)
    <3>1. StartConfidences \subseteq 0..20
      BY TierAssumption
    <3>2. /\ DOMAIN mem = MemFields /\ mem.tier \in DOMAIN Layers
          /\ mem.conf \in StartConfidences /\ mem.stability = 0
          /\ mem.reinforced = NoDate /\ mem.updated = 0
          /\ mem.count = 0 /\ mem.useful = 0 /\ mem.total = 0
      BY DEF TdInit, MemFields
    <3>3. mem.conf \in 0..20
      BY <3>1, <3>2
    <3>4. mem.stability \in Nat /\ mem.updated \in Nat /\ mem.count \in Nat
          /\ mem.useful \in Nat /\ mem.total \in Nat
      BY <3>2
    <3>5. mem.reinforced \in Nat \cup {NoDate}
      BY <3>2
    <3>6. QED
      BY <3>2, <3>3, <3>4, <3>5 DEF MemOk
  <2>2. CollectedWasAtFloor
    BY DEF TdInit, CollectedWasAtFloor, NoMove
  <2>3. QED
    BY <2>1, <2>2 DEF TdInit, TdInv
<1>2. TdInv /\ [TdNext]_tdVars => TdInv'
  BY TdStepOk
<1>3. TdInv => CollectedWasAtFloor
  BY DEF TdInv
<1>4. QED
  BY <1>1, <1>2, <1>3, PTL DEF TdSpec

=============================================================================

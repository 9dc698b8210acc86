------------------------------ MODULE Documents ------------------------------
(***************************************************************************)
(* The document plane: document_put, document_delete, document_search and  *)
(* the retention sweep of gc over the tables documents and document_chunks. *)
(* A put is four transactions (count, insert, chunks, status) with the     *)
(* safety scan, the chunker and the embedder between them, so two puts, a  *)
(* delete, the sweep and a search interleave; any of them may die half-way *)
(* (a lost connection, a killed process).                                  *)
(*                                                                         *)
(* A text is the sequence of its paragraphs' lengths plus the verdict of   *)
(* the safety scan; a chunk is its length.                                 *)
(***************************************************************************)
EXTENDS Integers, Sequences, FiniteSets
LOCAL INSTANCE SequencesExt

CONSTANTS DocIds,     \* identities uuid4 may hand out
          Putters,    \* concurrent document_put calls
          Texts,      \* the contents offered: [paras: Seq(Nat), safe: BOOLEAN]
          ChunkChars, \* DEFAULT_CHUNK_CHARS
          MaxChunks,  \* max_chunks_per_doc
          MaxDocs,    \* max_docs_per_project
          Forever,    \* expires_at IS NULL (retention 'project')
          NoDoc,      \* no row
          MaxClock    \* bound: days that pass

\* The rows of documents.
DocRows == [text : Texts, status : {"none", "pending", "error", "indexed"},
            expires : Nat \cup {Forever}]

ASSUME DocumentsAssumption == NoDoc \notin DocRows

VARIABLES docs,   \* table documents: DocIds -> row or NoDoc
          chunks, \* table document_chunks: DocIds -> Seq(Nat)
          put,    \* Putters -> the running call
          used,   \* identities handed out (uuid4 never repeats)
          day,    \* now()
          search  \* the running document_search

dcVars == <<docs, chunks, put, used, day, search>>

-----------------------------------------------------------------------------
(* chunk_text *)

\* A paragraph longer than a chunk is cut into windows (here of text without
\* a blank in the back half of a window, the case that fills it).
Slices(n) == [i \in 1 .. ((n + ChunkChars - 1) \div ChunkChars) |->
                 IF i * ChunkChars <= n THEN ChunkChars
                                        ELSE n - (i - 1) * ChunkChars]

Pieces(text) == FlattenSeq([i \in 1 .. Len(text.paras) |-> Slices(text.paras[i])])

\* One turn of the packing loop over <<finished chunks, open chunk, stopped>>.
Pack(st, piece) ==
  IF st.stopped THEN st
  ELSE LET open == IF st.buf = 0 THEN [st EXCEPT !.buf = piece]
                   ELSE IF st.buf + 2 + piece <= ChunkChars
                        THEN [st EXCEPT !.buf = @ + 2 + piece]
                        ELSE [st EXCEPT !.out = Append(@, st.buf), !.buf = piece]
       IN  [open EXCEPT !.stopped = Len(open.out) >= MaxChunks]

chunk_text(text) ==
  LET end == FoldLeft(Pack, [out |-> << >>, buf |-> 0, stopped |-> FALSE], Pieces(text))
  IN  IF ~end.stopped /\ end.buf > 0 /\ Len(end.out) < MaxChunks
      THEN Append(end.out, end.buf) ELSE end.out

\* The chunks of the texts offered.
chunked == [text \in Texts |-> chunk_text(text)]

-----------------------------------------------------------------------------
(* documents, document_chunks *)

NoPut == [pc |-> "idle", id |-> NoDoc, text |-> NoDoc, expires |-> Forever,
           index |-> FALSE, status |-> "none", answer |-> "none"]

DocRow(call, status) == [text |-> call.text, status |-> status, expires |-> call.expires]

Stored == {d \in DocIds : docs[d] # NoDoc}

Expired(d) == docs[d].expires # Forever /\ docs[d].expires < day

\* _SEARCH_JOIN
Searchable(d) == /\ docs[d] # NoDoc
                 /\ docs[d].status = "indexed"
                 /\ docs[d].expires = Forever \/ docs[d].expires > day

\* DELETE FROM documents; the foreign key cascades to the chunks.
DeleteRows(gone) ==
  /\ docs' = [d \in DocIds |-> IF d \in gone THEN NoDoc ELSE docs[d]]
  /\ chunks' = [d \in DocIds |-> IF d \in gone THEN << >> ELSE chunks[d]]

-----------------------------------------------------------------------------
(* document_put *)

\* _validate_put: the quota is read here and never again.
Validate(p, text, expires, index) ==
  /\ put[p].pc \in {"idle", "answered"}
  /\ used # DocIds
  /\ IF Cardinality(Stored) >= MaxDocs
     THEN /\ put' = [put EXCEPT ![p] = [NoPut EXCEPT !.pc = "answered", !.answer = "limit"]]
          /\ UNCHANGED used
     ELSE LET d == CHOOSE x \in DocIds : x \notin used IN
            /\ put' = [put EXCEPT ![p] = [NoPut EXCEPT !.pc = "store", !.id = d, !.text = text,
                                                        !.expires = expires, !.index = index]]
            /\ used' = used \cup {d}
  /\ UNCHANGED <<docs, chunks, day, search>>

Answer(p, status) == [put[p] EXCEPT !.pc = "answered", !.status = status, !.answer = status]

\* The scan only sets the status it reports; the indexing goes on.
StoreDocScansLate(p) ==
  LET c == put[p]
      status == IF c.index THEN "pending" ELSE "none"
  IN  /\ c.pc = "store"
      /\ docs' = [docs EXCEPT ![c.id] = DocRow(c, status)]
      /\ put' = [put EXCEPT ![p] = IF status = "pending"
                                   THEN [c EXCEPT !.pc = "index"] ELSE Answer(p, status)]
      /\ UNCHANGED <<chunks, used, day, search>>

\* The safety scan and _store_doc. Flagged text is stored, answered "error"
\* and never indexed; text that needs no index is answered "none".
StoreDoc(p) ==
  LET c == put[p]
      status == CASE ~c.text.safe -> "error" [] c.text.safe /\ c.index -> "pending"
                  [] OTHER -> "none"
  IN  /\ c.pc = "store"
      /\ docs' = [docs EXCEPT ![c.id] = DocRow(c, status)]
      /\ put' = [put EXCEPT ![p] = IF status = "pending"
                                   THEN [c EXCEPT !.pc = "index"] ELSE Answer(p, status)]
      /\ UNCHANGED <<chunks, used, day, search>>

\* _index_document. Without an embedder, or when it fails, the document ends
\* in "error" with no chunk; otherwise save_chunks writes every chunk in one
\* transaction, which the foreign key refuses (the call raises) when the
\* document was deleted meanwhile.
IndexDocument(p, embeds) ==
  LET c == put[p]
      pieces == chunked[c.text]
  IN  /\ c.pc = "index"
      /\ IF pieces = << >> \/ ~embeds
         THEN /\ put' = [put EXCEPT ![p] = [c EXCEPT !.pc = "status", !.status = "error"]]
              /\ UNCHANGED chunks
         ELSE IF docs[c.id] = NoDoc
         THEN /\ put' = [put EXCEPT ![p] = [c EXCEPT !.pc = "answered", !.answer = "raised"]]
              /\ UNCHANGED chunks
         ELSE /\ chunks' = [chunks EXCEPT ![c.id] = pieces]
              /\ put' = [put EXCEPT ![p] = [c EXCEPT !.pc = "status", !.status = "indexed"]]
      /\ UNCHANGED <<docs, used, day, search>>

\* set_index_status: an UPDATE, which finds nothing when the row is gone.
SetIndexStatus(p) ==
  LET c == put[p]
  IN  /\ c.pc = "status"
      /\ docs' = [docs EXCEPT ![c.id] = IF @ = NoDoc THEN @ ELSE [@ EXCEPT !.status = c.status]]
      /\ put' = [put EXCEPT ![p] = Answer(p, c.status)]
      /\ UNCHANGED <<chunks, used, day, search>>

\* The process dies or the database drops the call between two transactions;
\* the caller sees an exception and may call again.
PutDies(p) ==
  /\ put[p].pc \in {"store", "index", "status"}
  /\ put' = [put EXCEPT ![p] = [NoPut EXCEPT !.pc = "answered", !.answer = "raised"]]
  /\ UNCHANGED <<docs, chunks, used, day, search>>

-----------------------------------------------------------------------------
(* document_delete, gc, document_search, time *)

document_delete(d) ==
  /\ docs[d] # NoDoc
  /\ DeleteRows({d})
  /\ UNCHANGED <<put, used, day, search>>

\* delete_expired, the last step of gc.
delete_expired ==
  /\ \E d \in Stored : Expired(d)
  /\ DeleteRows({d \in Stored : Expired(d)})
  /\ UNCHANGED <<put, used, day, search>>

NextDay ==
  /\ day < MaxClock
  /\ day' = day + 1
  /\ UNCHANGED <<docs, chunks, put, used, search>>

Hits == UNION {{[id |-> d, no |-> n] : n \in 1 .. Len(chunks[d])} : d \in {x \in DocIds : Searchable(x)}}

\* lexical_search; every chunk matches the query.
LexicalSearch ==
  /\ search.pc = "idle"
  /\ search' = [pc |-> "lexical", hits |-> Hits, results |-> {}]
  /\ UNCHANGED <<docs, chunks, put, used, day>>

\* semantic_search (skipped without an embedder), the fusion and the cut: the
\* hits of both channels, each (doc_id, chunk_no) once.
SemanticSearch(embeds) ==
  /\ search.pc = "lexical"
  /\ search' = [pc |-> "idle", hits |-> {},
                results |-> search.hits \cup IF embeds THEN Hits ELSE {}]
  /\ UNCHANGED <<docs, chunks, put, used, day>>

-----------------------------------------------------------------------------
DcInit ==
  /\ docs = [d \in DocIds |-> NoDoc]
  /\ chunks = [d \in DocIds |-> << >>]
  /\ put = [p \in Putters |-> NoPut]
  /\ used = {}
  /\ day = 0
  /\ search = [pc |-> "idle", hits |-> {}, results |-> {}]

DcNext ==
  \/ \E p \in Putters :
       \/ \E text \in Texts, expires \in {Forever, day + 1}, index \in BOOLEAN :
            Validate(p, text, expires, index)
       \/ StoreDoc(p)
       \/ \E embeds \in BOOLEAN : IndexDocument(p, embeds)
       \/ SetIndexStatus(p)
       \/ PutDies(p)
  \/ \E d \in DocIds : document_delete(d)
  \/ delete_expired
  \/ NextDay
  \/ LexicalSearch
  \/ \E embeds \in BOOLEAN : SemanticSearch(embeds)

DcSpec == DcInit /\ [][DcNext]_dcVars

-----------------------------------------------------------------------------
(* Properties *)

\* What a document's index_status promises: an "indexed" document holds every
\* chunk of its text, and a document in any other state that no put is still
\* working on has none, or is a "pending" one whose put died after the chunks.
\* Only text the safety scan passed is ever chunked.
IndexedMeansChunked ==
  \A d \in Stored :
    /\ docs[d].status = "indexed" => chunks[d] = chunked[docs[d].text]
    /\ docs[d].status \in {"none", "error"} => chunks[d] = << >>
    /\ chunks[d] # << >> => docs[d].text.safe

\* Chunks never outlive their document: a delete or a sweep between a put's
\* transactions leaves neither chunks nor a row that comes back.
NoOrphanChunks ==
  \A d \in DocIds : docs[d] = NoDoc => chunks[d] = << >>

\* A document deleted while its put was still running stays deleted.
DeletedStaysDeleted ==
  [][\A d \in used : (docs[d] = NoDoc /\ docs'[d] # NoDoc)
        => \E p \in Putters : put[p].id = d /\ put[p].pc = "store"]_dcVars
=============================================================================

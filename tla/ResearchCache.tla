---------------------------- MODULE ResearchCache ----------------------------
(***************************************************************************)
(* docs_lookup, web_research and research_fetch: read the cached memory,   *)
(* answer from it while it is fresh, else ask the provider, scan what came *)
(* back, save it as a memory and answer; when the provider cannot be asked *)
(* or fails, fall back on the stale copy with a warning. Two callers run   *)
(* beside each other: read, fetch and save are separate steps. Two more    *)
(* hands put copies there: docs_import, which stamps the files of a legacy *)
(* cache directory with the instant of the import, and any client that     *)
(* saves a memory of its own under the key, with no stamp or one that does *)
(* not parse.                                                              *)
(*                                                                         *)
(* One subject per kind of call ("docs", "search", "fetch"). Content is    *)
(* the instant at which it came into the brain: when the provider produced *)
(* it, when the import read its file, when a client put it there.          *)
(***************************************************************************)
EXTENDS Integers

CONSTANTS Callers,
          LookupKinds, \* subset of {"docs", "search", "fetch"}
          Ttls,        \* the time-to-live values a call may run under
          MaxHold,     \* longest time between a fetch and its save (the timeouts)
          NoCopy,     \* no cached copy, no answer
          MaxLookupTime      \* bound: ticks

ASSUME ResearchAssumption ==
  Ttls \subseteq Nat /\ MaxHold \in Nat \ {0} /\ MaxLookupTime \in Nat

VARIABLES cached, \* LookupKinds -> the stored memory, or NoCopy
          lookup, \* Callers -> the running call
          saved,  \* LookupKinds -> instant of the last save that a valid entry would have survived
          lookupNow

rsVars == <<cached, lookup, saved, lookupNow>>

-----------------------------------------------------------------------------
(* Keys *)

\* The characters a MemoryEntry key may hold ...
KeyCharacters == {"alnum", "dot", "underscore", "hyphen"}

\* ... and those of the keys the three calls build: doc_memory_key replaces
\* every other character; research_search_key and research_fetch_key join
\* their parts with colons, and a query keeps its blanks.
KeyOf(kind) == CASE kind = "docs"   -> {"alnum", "dot", "underscore"}
                 [] kind = "search" -> {"alnum", "colon", "blank", "underscore"}
                 [] kind = "fetch"  -> {"alnum", "colon"}

\* MemoryEntry's validators: a bad key or an over-long value is refused, and
\* memory_save reports it as an error envelope.
LegalKey(kind) == KeyOf(kind) \subseteq KeyCharacters
Accepts(kind, content) == LegalKey(kind) /\ content.small

-----------------------------------------------------------------------------
NoLookup == [pc |-> "idle", kind |-> NoCopy, ttl |-> 0, began |-> 0, copy |-> NoCopy,
         last |-> NoCopy, got |-> NoCopy, answer |-> NoCopy, source |-> "none"]

\* A copy without a warning, the fallback with one, a failure.
LookupAnswered(c, content, source) ==
  [lookup[c] EXCEPT !.pc = "answered", !.answer = content, !.source = source,
                  !.got = NoCopy, !.last = NoCopy, !.copy = NoCopy]

\* _stale_fallback_response and the stale branches: only without a copy does
\* an unreachable provider make the call fail.
Fallback(c) ==
  IF lookup[c].copy # NoCopy THEN LookupAnswered(c, lookup[c].copy.content, "stale_fallback")
                            ELSE LookupAnswered(c, NoCopy, "failed")

\* The entry is good for one tick more than its time-to-live.
IsFreshLate(entry, ttl) ==
  \/ entry.stamp = "missing"
  \/ entry.stamp = "dated" /\ lookupNow - entry.cached_at <= ttl

\* _is_fresh: an entry without a stamp (legacy) is fresh for ever, one whose
\* stamp does not parse is stale.
IsFresh(entry, ttl) ==
  \/ entry.stamp = "missing"
  \/ entry.stamp = "dated" /\ lookupNow - entry.cached_at < ttl

\* The read of the cached memory and the decisions taken before any fetch.
ReadCached(c, kind, ttl) ==
  /\ lookup[c].pc \in {"idle", "answered"}
  /\ LET hit == cached[kind] # NoCopy /\ IsFresh(cached[kind], ttl)
         began == [NoLookup EXCEPT !.pc = "decide", !.kind = kind, !.ttl = ttl, !.began = lookupNow,
                               !.copy = cached[kind], !.last = saved[kind]]
     IN  lookup' = [lookup EXCEPT ![c] =
                    IF hit THEN [began EXCEPT !.pc = "answered", !.source = "cache", !.last = NoCopy,
                                              !.answer = cached[kind].content]
                           ELSE began]
  /\ UNCHANGED <<cached, saved, lookupNow>>

\* No provider key is configured.
NotConfigured(c) ==
  /\ lookup[c].pc = "decide"
  /\ lookup' = [lookup EXCEPT ![c] = Fallback(c)]
  /\ UNCHANGED <<cached, saved, lookupNow>>

\* The provider answers; docs_lookup tries Context7 and then llms.txt.
Fetch(c, small, safe) ==
  /\ lookup[c].pc = "decide"
  /\ lookup' = [lookup EXCEPT ![c].pc = "scan",
                          ![c].got = [made |-> lookupNow, small |-> small, safe |-> safe]]
  /\ UNCHANGED <<cached, saved, lookupNow>>

\* It fails, times out, or (a search) has no result.
FetchFails(c) ==
  /\ lookup[c].pc = "decide"
  /\ lookup' = [lookup EXCEPT ![c] = Fallback(c)]
  /\ UNCHANGED <<cached, saved, lookupNow>>

\* _sanitize_results: a search or a fetch whose every result is blocked is
\* refused; docs_lookup does not scan.
Scan(c) ==
  /\ lookup[c].pc = "scan"
  /\ lookup' = [lookup EXCEPT ![c] = IF lookup[c].kind # "docs" /\ ~lookup[c].got.safe
                                 THEN LookupAnswered(c, NoCopy, "blocked")
                                 ELSE [@ EXCEPT !.pc = "save"]]
  /\ UNCHANGED <<cached, saved, lookupNow>>

\* _persist_doc_entry, _persist_entry: the stamp is the instant of the save,
\* and what memory_save answers (up = FALSE: a rate limit, the database) is
\* logged at most.
Persist(kind, got, up) ==
  /\ cached' = [cached EXCEPT ![kind] =
                  IF up /\ Accepts(kind, got)
                  THEN [content |-> got, cached_at |-> lookupNow, stamp |-> "dated"] ELSE @]
  /\ saved' = [saved EXCEPT ![kind] = IF up /\ got.small THEN lookupNow ELSE @]
  /\ UNCHANGED lookupNow

\* The call answers with what it fetched, stored or not.
SaveCopy(c, up) ==
  /\ lookup[c].pc = "save"
  /\ Persist(lookup[c].kind, lookup[c].got, up)
  /\ lookup' = [lookup EXCEPT ![c] = LookupAnswered(c, lookup[c].got, "api")]

\* import_cache_dir, one file: it is read, and skipped when skip_existing is
\* set and any copy is there ...
ImportFile(c, skip_existing, small) ==
  /\ lookup[c].pc \in {"idle", "answered"}
  /\ ~(skip_existing /\ cached["docs"] # NoCopy)
  /\ lookup' = [lookup EXCEPT ![c] =
                  [NoLookup EXCEPT !.pc = "import", !.kind = "docs", !.began = lookupNow,
                                   !.got = [made |-> lookupNow, small |-> small, safe |-> TRUE]]]
  /\ UNCHANGED <<cached, saved, lookupNow>>

\* ... then persisted like a fetched page: with the instant of the save,
\* however old the file is, over whatever a lookup stored meanwhile.
ImportSave(c, up) ==
  /\ lookup[c].pc = "import"
  /\ Persist("docs", lookup[c].got, up)
  /\ lookup' = [lookup EXCEPT ![c] = NoLookup]

\* memory_save by any client under the subject's key: plain text or JSON
\* without cached_at, or with one that does not parse.
PutPlain(kind, stamp) ==
  /\ LegalKey(kind)
  /\ cached' = [cached EXCEPT ![kind] =
                  [content |-> [made |-> lookupNow, small |-> TRUE, safe |-> TRUE],
                   cached_at |-> 0, stamp |-> stamp]]
  /\ saved' = [saved EXCEPT ![kind] = NoCopy]
  /\ UNCHANGED <<lookup, lookupNow>>

\* A fetched result is saved within the call's timeouts, and a file that was
\* read within the same time.
LookupTick ==
  /\ lookupNow < MaxLookupTime
  /\ \A c \in Callers : lookup[c].pc \in {"scan", "save", "import"} => lookupNow - lookup[c].got.made < MaxHold
  /\ lookupNow' = lookupNow + 1
  /\ UNCHANGED <<cached, lookup, saved>>

RsInit ==
  /\ cached = [k \in LookupKinds |-> NoCopy]
  /\ lookup = [c \in Callers |-> NoLookup]
  /\ saved = [k \in LookupKinds |-> NoCopy]
  /\ lookupNow = 0

RsNext ==
  \/ \E c \in Callers :
       \/ \E kind \in LookupKinds, ttl \in Ttls : ReadCached(c, kind, ttl)
       \/ NotConfigured(c)
       \/ \E small, safe \in BOOLEAN : (small \/ safe) /\ Fetch(c, small, safe)
       \/ FetchFails(c)
       \/ Scan(c)
       \/ \E up \in BOOLEAN : SaveCopy(c, up)
       \/ "docs" \in LookupKinds /\ \E skip, small \in BOOLEAN : ImportFile(c, skip, small)
       \/ \E up \in BOOLEAN : ImportSave(c, up)
  \/ \E kind \in LookupKinds, stamp \in {"missing", "malformed"} : PutPlain(kind, stamp)
  \/ LookupTick

RsSpec == RsInit /\ [][RsNext]_rsVars

-----------------------------------------------------------------------------
(* Properties *)

\* An answer without a warning came into the brain less than the time-to-live
\* its call ran under before, plus the time content may wait for its save: two
\* overlapping calls may store the older content last, with the newer stamp,
\* and this is all that costs. The one exception is a copy that carries no
\* stamp, which the code takes for fresh for ever. How old a file was before
\* its import read it, the property does not bound, as the code does not.
FreshUnlessWarned ==
  \A c \in Callers :
    lookup[c].pc = "answered" /\ lookup[c].source \in {"cache", "api"}
      => \/ lookup[c].source = "cache" /\ lookup[c].copy.stamp = "missing"
         \/ lookup[c].began - lookup[c].answer.made < lookup[c].ttl + MaxHold

\* A call goes to the provider only on a miss: not within its time-to-live of
\* the last acceptable save of the same subject.
FetchOnMiss(kind) ==
  \A c \in Callers :
    lookup[c].kind = kind /\ lookup[c].pc = "decide" /\ lookup[c].last # NoCopy
      => lookup[c].began - lookup[c].last >= lookup[c].ttl

\* web_research: "Search the web; cache raw results in Postgres, fetch on miss."
ResearchFetchedOnMiss == FetchOnMiss("search")
=============================================================================

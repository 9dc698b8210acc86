----------------------------- MODULE AsyncFacade -----------------------------
(***************************************************************************)
(* AsyncMemoryStore over an AsyncPostgresPrivateBackend. A write takes the *)
(* write semaphore, notes what it would have to restore, runs the sync     *)
(* store in a worker thread with the persistence captured (so only the     *)
(* cache changes), and then flushes the capture through the async pool:    *)
(* all saves in one batch, the archives one by one, the deletes one by     *)
(* one, the relation deletes; archives and deletes touch one row each, in  *)
(* any order here. A flush that fails restores what was noted.             *)
(* Up to WriteSlots writes run at once; a caller may be cancelled (a       *)
(* timeout around the await) at any await, and then nothing is restored    *)
(* and a worker thread already started still changes the cache.            *)
(*                                                                         *)
(* A save, a supersede or an ingest may change entries beside its own: it  *)
(* closes what it conflicts with, consolidates, and at the limits evicts;  *)
(* a collection demotes some entries and archives and deletes others.      *)
(*                                                                         *)
(* An entry is the number of the write that made it. Left out: the cached  *)
(* relations. An operation that raises in its thread flushes nothing and   *)
(* is taken to leave the cache as it was.                                  *)
(***************************************************************************)
EXTENDS Integers, FiniteSets

CONSTANTS AKeys,      \* keys
          Writers,    \* async callers
          WriteSlots, \* TAPPS_BRAIN_AIO_MAX_CONCURRENT_WRITES
          NoEntry,    \* no entry under a key
          Cancels,    \* callers may be cancelled
          MaxStamp    \* bound: the writes of a run are numbered below it

VARIABLES cache,     \* AKeys -> entry or NoEntry (MemoryStore._entries)
          durable,   \* AKeys -> entry or NoEntry (private_memories)
          gcArchive, \* entries in gc_archive
          write,     \* Writers -> the running write
          stamp,     \* the next entry's number
          exposed    \* keys the code leaves unprotected (see InStep)

afVars == <<cache, durable, gcArchive, write, stamp, exposed>>

-----------------------------------------------------------------------------
(* _CapturePersistenceBackend *)

\* What the store finds under a key: the cached entry or the row (load_one).
Seen == [k \in AKeys |-> IF cache[k] # NoEntry THEN cache[k] ELSE durable[k]]
FoundKeys == {k \in AKeys : Seen[k] # NoEntry}
CachedKeys == {k \in AKeys : cache[k] # NoEntry}

EmptyCapture == [saves |-> {}, archives |-> {}, deletes |-> {}]

\* A key's later call takes the place of its earlier one: a save withdraws a
\* pending delete (the flush replays saves first), a delete the saves.  All
\* saves are of the write's own entry.
CaptureSaves(cap, ks) ==
  [saves |-> cap.saves \cup ks, archives |-> cap.archives, deletes |-> cap.deletes \ ks]
CaptureDeletes(cap, ks) ==
  [saves |-> cap.saves \ ks, archives |-> cap.archives, deletes |-> cap.deletes \cup ks]
CaptureArchives(cap, ks) ==
  [saves |-> cap.saves, deletes |-> cap.deletes,
   archives |-> cap.archives \cup {[key |-> k, val |-> Seen[k]] : k \in ks}]

-----------------------------------------------------------------------------
(* A write: semaphore and note, worker thread *)

NoWriteYet == [pc |-> "idle", kind |-> "none", key |-> NoEntry, new |-> NoEntry, keys |-> {},
         prior |-> [k \in AKeys |-> NoEntry], made |-> 0, cap |-> EmptyCapture, gone |-> {}]

\* Writes that hold the semaphore; a cancelled one whose thread still runs
\* ("thread") does not.
InFlight == {w \in Writers : write[w].pc \notin {"idle", "thread"}}

Touched(k) == {w \in Writers : write[w].pc # "idle" /\ k \in write[w].keys}

BeginWrite(w, kind, key, new, keys) ==
  /\ write[w].pc = "idle"
  /\ Cardinality(InFlight) < WriteSlots
  /\ stamp < MaxStamp
  /\ write' = [write EXCEPT ![w] =
                  [pc |-> "apply", kind |-> kind, key |-> key, new |-> new, keys |-> keys,
                   prior |-> cache, made |-> stamp, cap |-> EmptyCapture, gone |-> {}]]
  /\ stamp' = stamp + 1
  /\ exposed' = exposed \cup {k \in keys : Touched(k) # {}}
  /\ UNCHANGED <<cache, durable, gcArchive>>

\* save(key) and the other keys it may change; delete; reinforce,
\* record_access and update_tags; supersede, with the successor's key;
\* ingest_context; gc.
BeginAsyncSave(w) == \E k \in AKeys : \E beside \in SUBSET (AKeys \ {k}) :
                       BeginWrite(w, "save", k, NoEntry, {k} \cup beside)
BeginDelete(w) == \E k \in AKeys : BeginWrite(w, "delete", k, NoEntry, {k})
BeginTouch(w) == \E k \in AKeys : BeginWrite(w, "touch", k, NoEntry, {k})
BeginSupersede(w) == \E k, new \in AKeys : \E beside \in SUBSET (AKeys \ {k, new}) :
                       k # new /\ BeginWrite(w, "supersede", k, new, {k, new} \cup beside)
BeginIngest(w) == BeginWrite(w, "ingest", NoEntry, NoEntry, AKeys)
BeginGc(w) == BeginWrite(w, "gc", NoEntry, NoEntry, AKeys)

\* get: an entry found in its row only is hydrated, and the access is written
\* through at once, whatever write is running on the key.
Get(k) ==
  /\ k \in FoundKeys
  /\ cache' = [cache EXCEPT ![k] = Seen[k]]
  /\ durable' = [durable EXCEPT ![k] = Seen[k]]
  /\ exposed' = exposed \cup (IF Touched(k) # {} THEN {k} ELSE {})
  /\ UNCHANGED <<gcArchive, write, stamp>>

\* The operation's effect on the cache, and its captured calls.
CacheEffect(w, put, cap, drop) ==
  /\ cache' = [k \in AKeys |-> CASE k \in put  -> write[w].made
                                 [] k \in drop -> NoEntry
                                 [] OTHER      -> cache[k]]
  /\ write' = [write EXCEPT ![w] = IF @.pc = "thread" THEN NoWriteYet
                                   ELSE [@ EXCEPT !.pc = "saves", !.cap = cap]]
  /\ UNCHANGED <<durable, gcArchive, stamp, exposed>>

\* Entries saved, and entries evicted or deleted.
Stores(w, put, drop) == CacheEffect(w, put, CaptureDeletes(CaptureSaves(EmptyCapture, put), drop), drop)

\* Entries a collection demotes, and entries it archives and deletes.
Collects(w, demoted, aged) ==
  CacheEffect(w, demoted,
              CaptureDeletes(CaptureArchives(CaptureSaves(EmptyCapture, demoted), aged), aged), aged)

\* The entries a save stores (none when it is refused) and those it evicts.
SaveStores(j, put, drop) ==
  \/ put = {} /\ drop = {}
  \/ j.key \in put /\ drop \subseteq CachedKeys

\* A supersede stores both ends, or evicts the old one to make room; it raises
\* when there is no old entry or the old one is closed already.
SupersedeStores(j, put, drop) ==
  \/ put = {} /\ drop = {}
  \/ /\ j.key \in FoundKeys \cap (put \cup drop) /\ j.new \in put
     /\ drop \subseteq CachedKeys \cup {j.key}

\* An ingest may evict what it has just stored.
IngestStores(put, drop) == drop \subseteq CachedKeys \cup (AKeys \ FoundKeys)

Apply(w) ==
  LET j == write[w] IN
  /\ j.pc \in {"apply", "thread"}
  /\ \E put, drop \in SUBSET j.keys :
       /\ put \cap drop = {}
       /\ CASE j.kind = "save"      -> SaveStores(j, put, drop) /\ Stores(w, put, drop)
            [] j.kind = "supersede" -> SupersedeStores(j, put, drop) /\ Stores(w, put, drop)
            [] j.kind = "ingest"    -> IngestStores(put, drop) /\ Stores(w, put, drop)
            [] j.kind = "touch"     -> put = j.keys \cap FoundKeys /\ drop = {} /\ Stores(w, put, drop)
            [] j.kind = "delete"    -> put = {} /\ drop = j.keys \cap FoundKeys /\ Stores(w, put, drop)
            [] j.kind = "gc"        -> put \cup drop \subseteq CachedKeys /\ Collects(w, put, drop)

-----------------------------------------------------------------------------
(* _flush_capture *)

\* The keys whose noted entry a failed write puts back: gc the whole cache,
\* every other write but an ingest its own key, a delete and a supersede only
\* if there was an entry.
PutBack(j) ==
  {k \in j.keys :
     \/ j.kind = "gc"
     \/ k = j.key /\ j.kind \in {"save", "touch"}
     \/ k = j.key /\ j.kind \in {"delete", "supersede"} /\ j.prior[k] # NoEntry}

\* The keys a failed write drops: the successor, what an ingest added.
Dropped(j) ==
  {k \in j.keys :
     \/ j.kind = "supersede" /\ k = j.new
     \/ j.kind = "ingest" /\ j.prior[k] = NoEntry}

\* A failed write that only restores.
RollbackHalf(j) ==
  [k \in AKeys |-> IF k \in PutBack(j) THEN j.prior[k] ELSE cache[k]]

Rollback(j) ==
  [k \in AKeys |-> CASE k \in PutBack(j) -> j.prior[k]
                     [] k \in Dropped(j)  -> NoEntry
                     [] OTHER             -> cache[k]]

\* The rows a flush has changed already.
Flushed(j) == j.gone \cup (IF j.pc = "saves" THEN {} ELSE j.cap.saves)

\* The keys a failed flush leaves out of step: an entry put back although its
\* row has changed, and an entry changed beside the write's own, which stays in
\* the cache although its row has not.
LeftOver(j) ==
  {k \in PutBack(j) \cap Flushed(j) : j.prior[k] # NoEntry} \cup
  (j.cap.saves \ (Flushed(j) \cup PutBack(j) \cup Dropped(j)))

FlushFails(w) ==
  /\ write[w].pc \in {"saves", "archives", "deletes"}
  /\ CASE write[w].pc = "saves" -> write[w].cap.saves # {}
       [] write[w].pc = "archives" -> write[w].cap.archives # {}
       [] OTHER -> write[w].cap.deletes # {} \/ write[w].gone # {}
  /\ cache' = Rollback(write[w])
  /\ exposed' = exposed \cup LeftOver(write[w])
  /\ write' = [write EXCEPT ![w] = NoWriteYet]
  /\ UNCHANGED <<durable, gcArchive, stamp>>

\* save_many: one transaction.
FlushSaves(w) ==
  /\ write[w].pc = "saves"
  /\ durable' = [k \in AKeys |-> IF k \in write[w].cap.saves THEN write[w].made ELSE durable[k]]
  /\ write' = [write EXCEPT ![w].pc = "archives"]
  /\ UNCHANGED <<cache, gcArchive, stamp, exposed>>

\* One call of the capture done.
Archived(j, a) == [j EXCEPT !.cap.archives = @ \ {a}]
Deleted(j, k) == [j EXCEPT !.cap.deletes = @ \ {k}, !.gone = @ \cup {k}]

\* archive_entry: it answers 0 instead of raising, and 0 fails the flush.
FlushArchive(w) ==
  /\ write[w].pc = "archives"
  /\ \E a \in write[w].cap.archives :
       /\ gcArchive' = gcArchive \cup {a}
       /\ write' = [write EXCEPT ![w] = Archived(@, a)]
  /\ UNCHANGED <<cache, durable, stamp, exposed>>

ToDeletes(w) ==
  /\ write[w].pc = "archives" /\ write[w].cap.archives = {}
  /\ write' = [write EXCEPT ![w].pc = "deletes"]
  /\ UNCHANGED <<cache, durable, gcArchive, stamp, exposed>>

FlushDelete(w) ==
  /\ write[w].pc = "deletes"
  /\ \E k \in write[w].cap.deletes :
       /\ durable' = [durable EXCEPT ![k] = NoEntry]
       /\ write' = [write EXCEPT ![w] = Deleted(@, k)]
  /\ UNCHANGED <<cache, gcArchive, stamp, exposed>>

\* The relation deletes (they can still fail the flush), then the best-effort
\* relations and audit records, which cannot.
FlushEnd(w) ==
  /\ write[w].pc = "deletes" /\ write[w].cap.deletes = {}
  /\ write' = [write EXCEPT ![w] = NoWriteYet]
  /\ UNCHANGED <<cache, durable, gcArchive, stamp, exposed>>

\* Cancellation at an await: no "except Exception" runs. Before the flush the
\* worker thread goes on alone and its capture is dropped.
Cancel(w) ==
  /\ Cancels
  /\ write[w].pc \notin {"idle", "thread"}
  /\ write' = [write EXCEPT ![w] = IF @.pc = "apply" THEN [@ EXCEPT !.pc = "thread"] ELSE NoWriteYet]
  /\ exposed' = exposed \cup write[w].keys
  /\ UNCHANGED <<cache, durable, gcArchive, stamp>>

-----------------------------------------------------------------------------
AfInit ==
  /\ durable \in [AKeys -> {NoEntry, 0}]
  /\ cache \in [AKeys -> {NoEntry, 0}]
  /\ \A k \in AKeys : cache[k] # NoEntry => durable[k] = cache[k]
  /\ gcArchive = {}
  /\ write = [w \in Writers |-> NoWriteYet]
  /\ stamp = 1
  /\ exposed = {}

AfNext ==
  \/ \E k \in AKeys : Get(k)
  \/ \E w \in Writers :
    \/ BeginAsyncSave(w) \/ BeginDelete(w) \/ BeginTouch(w) \/ BeginSupersede(w)
    \/ BeginIngest(w) \/ BeginGc(w)
    \/ Apply(w)
    \/ FlushSaves(w) \/ FlushArchive(w) \/ ToDeletes(w) \/ FlushDelete(w) \/ FlushEnd(w)
    \/ FlushFails(w)
    \/ Cancel(w)

AfSpec == AfInit /\ [][AfNext]_afVars

-----------------------------------------------------------------------------
(* Properties *)

\* Cache and rows agree wherever no write is running, except on the keys the
\* code leaves exposed: keys on which two writes, or a write and a read,
\* overlapped, keys of a cancelled write, and what a failed flush leaves out of
\* step (LeftOver). Every other failed flush is rolled back completely.
InStep ==
  \A k \in AKeys \ exposed :
    Touched(k) = {} /\ cache[k] # NoEntry => durable[k] = cache[k]
=============================================================================

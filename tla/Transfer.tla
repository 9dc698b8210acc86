------------------------------ MODULE Transfer ------------------------------
(***************************************************************************)
(* Import and export. sync_to_markdown writes the live durable entries to  *)
(* MEMORY.md, sync_from_markdown and the markdown importers read it back:  *)
(* a heading becomes a key through a slug, a body line that looks like a   *)
(* heading opens a section of its own. export_bundle_dict and              *)
(* import_memory_dicts move a JSON bundle, with its embeddings. An import  *)
(* looks for the key and saves it in two steps, and agents and users go on *)
(* writing meanwhile.                                                      *)
(***************************************************************************)
EXTENDS Integers, Sequences, FiniteSets, FiniteSetsExt

CONSTANTS Bases,     \* keys agents and users write
          SlugOf,    \* base -> its slug (runs of separators are squeezed)
          InnerBase, \* what the heading inside a "headed" value is called
          MaxSteps,  \* bound on the steps of agents and users
          MaxJobs    \* bound on transfers

VARIABLES entries,     \* key -> entry, for the keys in the store
          md,          \* sections of MEMORY.md
          bundle,      \* key -> entry, the exported bundle
          job,         \* the transfer under way
          synced,      \* MEMORY.md is what sync_to wrote and nothing changed since
          ops, jobs

tfVars == <<entries, md, bundle, job, synced, ops, jobs>>

\* A key: a base with the suffixes that disambiguated it, each the heading it
\* was hashed from, and a counter.
Key(b) == [base |-> b, sfx |-> <<>>, n |-> 0]
BaseKeys == {Key(b) : b \in Bases}

NoJob == [pc |-> "idle", kind |-> "none", overwrite |-> FALSE, todo |-> <<>>]

With(k, e) == [x \in DOMAIN entries \cup {k} |-> IF x = k THEN e ELSE entries[x]]

-----------------------------------------------------------------------------
(* Markdown *)

\* _slugify
Slug(k) == [k EXCEPT !.base = SlugOf[@]]

\* Every heading gets its hash.
ResolveAlways(slug, head, seen) == [slug EXCEPT !.sfx = Append(@, head), !.n = Cardinality(seen)]

\* _resolve_slug_collision: the slug, then the slug with the heading's hash,
\* then with a counter.
Resolve(slug, head, seen) ==
  LET hashed(n) == [slug EXCEPT !.sfx = Append(@, head), !.n = n]
  IN IF slug \notin seen THEN slug
     ELSE hashed(Min({n \in 0 .. Cardinality(seen) : hashed(n) \notin seen}))

\* The parser flushes a section: what it has seen and read so far.
Flush(acc, head, val) ==
  LET k == Resolve(Slug(head), head, acc.seen)
  IN  [seen |-> acc.seen \cup {k},
       out |-> Append(acc.out, [key |-> k, val |-> val, tier |-> "durable"])]

\* A value is read under its heading; a heading inside it opens a section.
Section(acc, head, val) ==
  IF val = "headed" THEN Flush(Flush(acc, head, "plain"), Key(InnerBase), "plain")
  ELSE Flush(acc, head, val)

\* _parse_memory_md_sections, _parse_sections
Keyed(doc) ==
  LET read[i \in 0 .. Len(doc)] ==
        IF i = 0 THEN [seen |-> {}, out |-> <<>>]
        ELSE Section(read[i - 1], doc[i].head, doc[i].val)
  IN  read[Len(doc)].out

\* What sync_to_markdown writes: superseded rows and the short-lived tiers stay
\* out. The order (tier, then key) is some fixed one.
InOrder(S) ==
  CHOOSE f \in [1 .. Cardinality(S) -> S] : \A i, j \in DOMAIN f : f[i] = f[j] => i = j

Exported == {k \in DOMAIN entries : entries[k].live /\ entries[k].tier = "durable"}

BeginSyncTo ==
  /\ job = NoJob /\ jobs < MaxJobs
  /\ job' = [NoJob EXCEPT !.pc = "replace", !.kind = "to",
                          !.todo = LET ks == InOrder(Exported)
                                   IN [i \in DOMAIN ks |-> [head |-> ks[i], val |-> entries[ks[i]].val]]]
  /\ jobs' = jobs + 1
  /\ synced' = TRUE
  /\ UNCHANGED <<entries, md, bundle, ops>>

\* The temporary file is renamed over MEMORY.md.
ReplaceMd ==
  /\ job.pc = "replace"
  /\ md' = job.todo
  /\ job' = NoJob
  /\ UNCHANGED <<entries, bundle, synced, ops, jobs>>

\* A write error or a crash before the rename: the old file stays.
SyncToFails ==
  /\ job.pc = "replace"
  /\ job' = NoJob
  /\ synced' = FALSE
  /\ UNCHANGED <<entries, md, bundle, ops, jobs>>

-----------------------------------------------------------------------------
(* Bundles *)

\* export_bundle_dict: every entry list_all returns, with its vector.
Export ==
  /\ job = NoJob /\ jobs < MaxJobs
  /\ bundle' = [k \in {x \in DOMAIN entries : entries[x].live} |-> entries[k]]
  /\ jobs' = jobs + 1
  /\ UNCHANGED <<entries, md, job, synced, ops>>

-----------------------------------------------------------------------------
(* Imports *)

\* sync_from_markdown, import_memory_md, import_openclaw_workspace
BeginFromMd ==
  /\ job = NoJob /\ jobs < MaxJobs
  /\ job' = [pc |-> "check", kind |-> "md", overwrite |-> FALSE, todo |-> Keyed(md)]
  /\ jobs' = jobs + 1
  /\ UNCHANGED <<entries, md, bundle, synced, ops>>

\* memory_import: parse_import_payload, then import_memory_dicts.
BeginImport(overwrite) ==
  /\ job = NoJob /\ jobs < MaxJobs
  /\ bundle # <<>>
  /\ job' = [pc |-> "check", kind |-> "bundle", overwrite |-> overwrite,
             todo |-> LET ks == InOrder(DOMAIN bundle)
                      IN [i \in DOMAIN ks |-> [key |-> ks[i], val |-> bundle[ks[i]].val,
                                               tier |-> bundle[ks[i]].tier]]]
  /\ jobs' = jobs + 1
  /\ UNCHANGED <<entries, md, bundle, synced, ops>>

\* _ensure_entry_cached, or store.get: the key, whatever its state.
Found(k) == k \in DOMAIN entries

\* The existence check of one item.
CheckItem ==
  /\ job.pc = "check" /\ job.todo # <<>>
  /\ job' = IF Found(Head(job.todo).key) /\ ~job.overwrite
              THEN [job EXCEPT !.todo = Tail(@)] ELSE [job EXCEPT !.pc = "save"]
  /\ UNCHANGED <<entries, md, bundle, synced, ops, jobs>>

\* What store.save makes of an item: live again, whatever the bundle said of
\* its validity, and embedded anew.
Imported(item) ==
  [val |-> item.val, tier |-> item.tier, live |-> TRUE, by |-> "import", vec |-> item.val]

\* store.save, or its refusal (safety, write rules, limits), which is counted
\* and passed over.
SaveItem(ok) ==
  LET item == Head(job.todo) IN
  /\ job.pc = "save"
  /\ entries' = IF ok THEN With(item.key, Imported(item)) ELSE entries
  /\ job' = [job EXCEPT !.pc = "check", !.todo = Tail(@)]
  /\ synced' = (synced /\ ~ok)
  /\ UNCHANGED <<md, bundle, ops, jobs>>

\* restore_embeddings: the bundle's vector, for every key of the bundle that is
\* in the store, imported or skipped.
Restored(k) == IF k \in DOMAIN bundle THEN [entries[k] EXCEPT !.vec = bundle[k].vec] ELSE entries[k]

\* End of the import; a bundle also restores its vectors unless the embedding
\* model has changed.
EndImport(sameModel) ==
  /\ job.pc = "check" /\ job.todo = <<>>
  /\ entries' = IF job.kind = "bundle" /\ sameModel
                  THEN [k \in DOMAIN entries |-> Restored(k)] ELSE entries
  /\ job' = NoJob
  /\ UNCHANGED <<md, bundle, synced, ops, jobs>>

-----------------------------------------------------------------------------
(* Agents and users *)

AgentSave(k, val, tier) ==
  /\ ops < MaxSteps /\ ops' = ops + 1
  /\ entries' = With(k, [val |-> val, tier |-> tier, live |-> TRUE, by |-> "agent", vec |-> val])
  /\ synced' = FALSE
  /\ UNCHANGED <<md, bundle, job, jobs>>

\* The entry is superseded or contradicted.
AgentClose(k) ==
  /\ ops < MaxSteps /\ ops' = ops + 1
  /\ k \in DOMAIN entries /\ entries[k].live
  /\ entries' = [entries EXCEPT ![k].live = FALSE]
  /\ synced' = FALSE
  /\ UNCHANGED <<md, bundle, job, jobs>>

\* A delete, or garbage collection.
AgentDelete(k) ==
  /\ ops < MaxSteps /\ ops' = ops + 1
  /\ k \in DOMAIN entries
  /\ entries' = [x \in DOMAIN entries \ {k} |-> entries[x]]
  /\ synced' = FALSE
  /\ UNCHANGED <<md, bundle, job, jobs>>

UserEdit(k) ==
  /\ ops < MaxSteps /\ ops' = ops + 1
  /\ md' = Append(md, [head |-> k, val |-> "plain"])
  /\ synced' = FALSE
  /\ UNCHANGED <<entries, bundle, job, jobs>>

-----------------------------------------------------------------------------
TfInit ==
  /\ entries = <<>> /\ md = <<>> /\ bundle = <<>> /\ job = NoJob
  /\ synced = FALSE /\ ops = 0 /\ jobs = 0

TfNext ==
  \/ BeginSyncTo \/ ReplaceMd \/ SyncToFails \/ Export \/ BeginFromMd \/ CheckItem
  \/ \E b \in BOOLEAN : BeginImport(b) \/ SaveItem(b) \/ EndImport(b)
  \/ \E k \in BaseKeys :
       \/ \E val \in {"plain", "headed"}, tier \in {"durable", "session"} : AgentSave(k, val, tier)
       \/ AgentClose(k) \/ AgentDelete(k) \/ UserEdit(k)

TfSpec == TfInit /\ [][TfNext]_tfVars

-----------------------------------------------------------------------------
(* Properties *)

\* A round trip through MEMORY.md brings nothing new, for keys that are their
\* own slug and values without headings.
RoundTripStable ==
  LET ks == Keyed(md) IN
  (/\ synced /\ job.pc # "replace"
   /\ \A k \in DOMAIN entries : Slug(k) = k /\ entries[k].val = "plain")
    => \A i \in DOMAIN ks : Found(ks[i].key)
=============================================================================

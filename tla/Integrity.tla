------------------------------ MODULE Integrity ------------------------------
(***************************************************************************)
(* Integrity hashes: the host's signing key, the hash every save stamps on *)
(* an entry, and the passes that verify, upgrade and re-sign entries. A    *)
(* hash is ideal: it is the key, the canonical form and the text it was    *)
(* computed over. The legacy form joins the fields with pipes, so two      *)
(* different contents may have one text. The key is loaded lazily and      *)
(* without a lock; a saver holds the store's lock while it loads it, a     *)
(* pass does not.                                                          *)
(***************************************************************************)
EXTENDS Integers, FiniteSets

CONSTANTS Entries,     \* keys of entries
          Contents,    \* what a hash covers: key, value, tier, source
          Pipe,        \* the legacy canonical text of a content
          Nothing,     \* no entry, no key, no hash
          ShortFile,   \* a key file that is truncated
          MaxKeys,     \* bound on generated keys
          MaxSaves, MaxPasses, MaxFaults, MaxBoots

VARIABLES file,        \* ~/.tapps-brain/integrity.key
          cachedKey,   \* integrity._cached_key
          envKey,      \* TAPPS_BRAIN_INTEGRITY_KEY: Nothing, a key (0) or garbage (-1)
          regen,       \* TAPPS_BRAIN_INTEGRITY_KEY_REGENERATE
          keys,        \* keys generated so far
          entry, signedRow,  \* an entry in the cache and in the table
          saver,       \* the thread that saves
          keeper,      \* the thread that runs a pass
          verdicts,    \* what the last verify_integrity said of the rows it read
          spent        \* bounds: saves, passes, faults, boots

igVars == <<file, cachedKey, envKey, regen, keys, entry, signedRow, saver, keeper, verdicts,
            spent>>

Resting == [at |-> "idle"]

-----------------------------------------------------------------------------
(* Hashes.                                                                 *)

\* compute_integrity_hash and its legacy form.
HashOf(k, form, content) ==
  [key |-> k, form |-> form, text |-> IF form = 1 THEN Pipe[content] ELSE content]

\* verify_integrity's test of one entry, by the version it carries.
Verifies(e, k) == e.hash = HashOf(k, e.version, e.content)

\* _stamp_integrity_hash, and the model_copy of both passes.
Stamped(e, k) == [e EXCEPT !.hash = HashOf(k, 2, e.content), !.version = 2]

\* An entry as a save makes it. The last four fields are bookkeeping of the
\* model: the content an agent wrote or an operator vouched for, whether a
\* legacy hash covered it and whether it was changed in the database since,
\* and the thread whose object it is.
NewEntry(c) == [content |-> c, hash |-> Nothing, version |-> 1, written |-> c,
                old |-> FALSE, touched |-> FALSE, by |-> "saver"]

-----------------------------------------------------------------------------
(* The signing key, loaded by the thread whose record is t.                *)

\* _ensure_key up to the decision, with get_signing_key's cache in front.
KeyLookup(t) ==
  IF cachedKey # Nothing THEN [t EXCEPT !.at = "sign"]
  ELSE CASE envKey = 0 -> [t EXCEPT !.at = "cache", !.key = 0]
         [] envKey = -1 -> Resting
         [] envKey = Nothing /\ file = Nothing -> [t EXCEPT !.at = "generate", !.key = file]
         [] envKey = Nothing /\ file = ShortFile ->
              IF regen THEN [t EXCEPT !.at = "generate", !.key = file] ELSE Resting
         [] OTHER -> [t EXCEPT !.at = "cache", !.key = file]

\* The look at the environment and at the file.
FindKey(t) == t.at = "key" /\ UNCHANGED <<file, cachedKey, keys>>

\* A key is generated and os.replace puts it in place, whatever is there now.
GenerateKey(t) ==
  /\ t.at = "generate" /\ keys < MaxKeys
  /\ keys' = keys + 1
  /\ file' = keys + 1
  /\ UNCHANGED cachedKey

\* The module-level cache is assigned.
CacheKey(t) ==
  /\ t.at = "cache"
  /\ cachedKey' = t.key
  /\ UNCHANGED <<file, keys>>

\* What the three steps make of the thread's record.
AfterKeyStep(t) ==
  CASE t.at = "key" -> KeyLookup(t)
    [] t.at = "generate" -> [t EXCEPT !.at = "cache", !.key = keys + 1]
    [] t.at = "cache" -> [t EXCEPT !.at = "sign"]

KeyStep(t) == FindKey(t) \/ GenerateKey(t) \/ CacheKey(t)

-----------------------------------------------------------------------------
(* A save. It holds the store's lock from its start until it has assigned. *)

LockFree == saver.at \in {"idle", "persist"}

BeginSave(k, c) ==
  /\ saver.at = "idle" /\ spent.saves < MaxSaves
  /\ spent' = [spent EXCEPT !.saves = @ + 1]
  /\ saver' = [at |-> "key", entry |-> k, key |-> Nothing, new |-> NewEntry(c), old |-> entry[k]]
  /\ UNCHANGED <<file, cachedKey, envKey, regen, keys, entry, signedRow, keeper, verdicts>>

SaverKeyStep ==
  /\ saver.at \in {"key", "generate", "cache"}
  /\ KeyStep(saver)
  /\ saver' = AfterKeyStep(saver)
  /\ UNCHANGED <<envKey, regen, entry, signedRow, keeper, verdicts, spent>>

\* The hash is stamped and the entry assigned; the lock is given back.
AssignSave ==
  /\ saver.at = "sign"
  /\ LET e == Stamped(saver.new, cachedKey)
     IN  /\ entry' = [entry EXCEPT ![saver.entry] = e]
         /\ saver' = [saver EXCEPT !.at = "persist", !.new = e]
  /\ UNCHANGED <<file, cachedKey, envKey, regen, keys, signedRow, keeper, verdicts, spent>>

\* The row is written, or the entry is put back if it is still this thread's.
Persisted(t, who) ==
  \/ /\ signedRow' = [signedRow EXCEPT ![t.entry] = t.new]
     /\ UNCHANGED entry
  \/ /\ entry' = IF entry[t.entry] # Nothing /\ entry[t.entry].by = who
                 THEN [entry EXCEPT ![t.entry] = t.old] ELSE entry
     /\ UNCHANGED signedRow

PersistSave ==
  /\ saver.at = "persist"
  /\ Persisted(saver, "saver")
  /\ saver' = Resting
  /\ UNCHANGED <<file, cachedKey, envKey, regen, keys, keeper, verdicts, spent>>

-----------------------------------------------------------------------------
(* verify_integrity, rehash_integrity_v1 and resign_integrity.             *)

\* A pass lists the keys; verify copies the entries in the same breath.
BeginPass(kind) ==
  /\ keeper.at = "idle" /\ LockFree /\ spent.passes < MaxPasses
  /\ spent' = [spent EXCEPT !.passes = @ + 1]
  /\ keeper' = [at |-> "next", kind |-> kind, todo |-> {k \in Entries : entry[k] # Nothing},
                seen |-> IF kind = "verify" THEN entry ELSE Nothing, entry |-> Nothing,
                key |-> Nothing, new |-> Nothing, old |-> Nothing]
  /\ UNCHANGED <<file, cachedKey, envKey, regen, keys, entry, signedRow, saver, verdicts>>

\* The next entry is read, and skipped when it is gone, or without a hash, or
\* of the current version and the pass only upgrades.
ReadNext(k) ==
  /\ keeper.at = "next" /\ k \in keeper.todo /\ (keeper.kind = "verify" \/ LockFree)
  /\ LET e == IF keeper.kind = "verify" THEN keeper.seen[k] ELSE entry[k]
         skip == \/ e = Nothing
                 \/ keeper.kind # "resign" /\ e.hash = Nothing
                 \/ keeper.kind = "rehash" /\ e.version >= 2
     IN  keeper' = IF skip THEN [keeper EXCEPT !.todo = @ \ {k}]
                   ELSE [keeper EXCEPT !.at = "key", !.todo = @ \ {k}, !.entry = k, !.old = e]
  /\ UNCHANGED <<file, cachedKey, envKey, regen, keys, entry, signedRow, saver, verdicts, spent>>

\* The pass raises when there is no key; what it did so far stays.
KeeperKeyStep ==
  /\ keeper.at \in {"key", "generate", "cache"}
  /\ KeyStep(keeper)
  /\ keeper' = AfterKeyStep(keeper)
  /\ UNCHANGED <<envKey, regen, entry, signedRow, saver, verdicts, spent>>

\* resign_integrity takes the stored content for authentic.
Vouched(e, kind) ==
  IF kind = "resign" THEN [e EXCEPT !.written = e.content, !.touched = FALSE] ELSE e

\* Upgraded whatever its legacy hash says.
RewrittenUnchecked(e, kind) ==
  [Stamped(Vouched(e, kind), cachedKey) EXCEPT !.by = "keeper"]

\* What a pass would put in place of e: rehash leaves an entry whose legacy
\* hash does not match, resign one that is up to date.
Rewritten(e, kind) ==
  IF \/ kind = "rehash" /\ ~Verifies(e, cachedKey)
     \/ kind = "resign" /\ e.version = 2 /\ Verifies(e, cachedKey)
  THEN e
  ELSE [Stamped(Vouched(e, kind), cachedKey) EXCEPT !.by = "keeper"]

VerifyOne ==
  /\ keeper.at = "sign" /\ keeper.kind = "verify"
  /\ verdicts' = [verdicts EXCEPT ![keeper.entry] =
                    [of |-> keeper.old, key |-> cachedKey, ok |-> Verifies(keeper.old, cachedKey)]]
  /\ keeper' = [keeper EXCEPT !.at = "next"]
  /\ UNCHANGED <<file, cachedKey, envKey, regen, keys, entry, signedRow, saver, spent>>

\* The copy replaces whatever the cache holds by now.
RewriteOne ==
  /\ keeper.at = "sign" /\ keeper.kind # "verify" /\ LockFree
  /\ LET e == Rewritten(keeper.old, keeper.kind)
     IN  IF e = keeper.old
         THEN keeper' = [keeper EXCEPT !.at = "next"] /\ UNCHANGED entry
         ELSE /\ entry' = [entry EXCEPT ![keeper.entry] = e]
              /\ keeper' = [keeper EXCEPT !.at = "persist", !.new = e]
  /\ UNCHANGED <<file, cachedKey, envKey, regen, keys, signedRow, saver, verdicts, spent>>

\* A failed write is skipped over and the pass goes on.
PersistOne ==
  /\ keeper.at = "persist"
  /\ Persisted(keeper, "keeper")
  /\ keeper' = [keeper EXCEPT !.at = "next"]
  /\ UNCHANGED <<file, cachedKey, envKey, regen, keys, saver, verdicts, spent>>

EndPass ==
  /\ keeper.at = "next" /\ keeper.todo = {}
  /\ keeper' = Resting
  /\ UNCHANGED <<file, cachedKey, envKey, regen, keys, entry, signedRow, saver, verdicts, spent>>

-----------------------------------------------------------------------------
(* The surroundings.                                                       *)

\* A row's content is changed in the database.
Tamper(k, c) ==
  /\ signedRow[k] # Nothing /\ signedRow[k].content # c /\ spent.faults < MaxFaults
  /\ signedRow' = [signedRow EXCEPT ![k].content = c, ![k].touched = TRUE]
  /\ spent' = [spent EXCEPT !.faults = @ + 1]
  /\ UNCHANGED <<file, cachedKey, envKey, regen, keys, entry, saver, keeper, verdicts>>

\* The key file is cut short.
Truncate ==
  /\ file \notin {Nothing, ShortFile} /\ spent.faults < MaxFaults
  /\ file' = ShortFile
  /\ spent' = [spent EXCEPT !.faults = @ + 1]
  /\ UNCHANGED <<cachedKey, envKey, regen, keys, entry, signedRow, saver, keeper, verdicts>>

\* The process starts again, perhaps with other settings.
Boot(env, flag) ==
  /\ spent.boots < MaxBoots
  /\ spent' = [spent EXCEPT !.boots = @ + 1]
  /\ envKey' = env /\ regen' = flag
  /\ cachedKey' = Nothing
  /\ entry' = [k \in Entries |-> IF signedRow[k] = Nothing THEN Nothing ELSE [signedRow[k] EXCEPT !.by = "load"]]
  /\ saver' = Resting /\ keeper' = Resting
  /\ UNCHANGED <<file, keys, signedRow, verdicts>>

-----------------------------------------------------------------------------
\* A row of before the JSON form: hashed under key 1, or not at all.
LegacyRow(c, hashed) ==
  [NewEntry(c) EXCEPT !.hash = IF hashed THEN HashOf(1, 1, c) ELSE Nothing, !.old = hashed,
                      !.by = "load"]

IgInit ==
  /\ \/ file = Nothing /\ keys = 0 /\ signedRow = [k \in Entries |-> Nothing]
     \/ /\ file = 1 /\ keys = 1
        /\ signedRow \in [Entries -> {LegacyRow(c, hashed) : c \in Contents, hashed \in BOOLEAN}]
  /\ entry = signedRow
  /\ cachedKey = Nothing /\ envKey = Nothing /\ regen = FALSE
  /\ saver = Resting /\ keeper = Resting
  /\ verdicts = [k \in Entries |-> Nothing]
  /\ spent = [saves |-> 0, passes |-> 0, faults |-> 0, boots |-> 0]

IgNext ==
  \/ \E k \in Entries, c \in Contents : BeginSave(k, c)
  \/ SaverKeyStep
  \/ AssignSave
  \/ PersistSave
  \/ \E kind \in {"verify", "rehash", "resign"} : BeginPass(kind)
  \/ \E k \in Entries : ReadNext(k)
  \/ KeeperKeyStep
  \/ VerifyOne
  \/ RewriteOne
  \/ PersistOne
  \/ EndPass
  \/ \E k \in Entries, c \in Contents : Tamper(k, c)
  \/ Truncate
  \/ \E env \in {Nothing, 0, -1}, flag \in BOOLEAN : Boot(env, flag)

IgSpec == IgInit /\ [][IgNext]_igVars

-----------------------------------------------------------------------------
(* Properties.                                                             *)

\* verify_integrity vouches for an entry whose content is not what was
\* written or vouched for only when a legacy hash, whose text cannot tell the two
\* contents apart, once covered it: an upgrade never launders any other
\* change, whoever saves or tampers meanwhile.
VouchedIsGenuine ==
  \A k \in Entries :
     (verdicts[k] # Nothing /\ verdicts[k].ok) =>
        LET e == verdicts[k].of
        IN  \/ e.content = e.written
            \/ e.old /\ Pipe[e.content] = Pipe[e.written]
=============================================================================

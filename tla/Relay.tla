-------------------------------- MODULE Relay --------------------------------
(***************************************************************************)
(* The memory relay: a sub-agent hands over a document of items, and the   *)
(* import saves them one by one into the store of the parent. An item that *)
(* is malformed is skipped with a warning, a save may be refused or may    *)
(* raise, and an error the import does not expect ends it half way; the    *)
(* operator then runs the same document again. The parent's store may hold *)
(* memories of its own under the same keys. Left out: other saves into it  *)
(* meanwhile, and the entries a save closes, merges or evicts beside its   *)
(* own.                                                                    *)
(***************************************************************************)
EXTENDS Integers, Sequences, FiniteSets

CONSTANTS ItemKeys,    \* keys that match the slug pattern
          RelayValues, \* values, as normalize_for_dedup sees them
          Absent,      \* a field that is not there
          Malformed,   \* a field the import cannot use
          DocLength,   \* items of a document
          MaxRuns      \* bound on imports of it

ASSUME RelayAssumption == DocLength \in Nat /\ MaxRuns \in Nat /\ Absent \notin RelayValues

MemoryScopes == {"branch", "session"}
AgentScopes == {"hive", "domain"}

\* key stands for every field whose form decides on the item alone (key, value,
\* tier, tags, memory_group); what is saved beside the value goes with the scopes.
Items == [key : ItemKeys \cup {Malformed}, value : RelayValues,
          visibility : {Absent, Malformed, "branch"},
          scope : {Absent, Malformed, "session", "hive"},
          agent_scope : {Absent, Malformed, "domain"}]

VARIABLES doc,       \* the document
          import,    \* the import: pc, at (items done), imported, skipped, refused
          held,      \* the rows of the store: value, memory scope, agent scope
          before,    \* the rows before the first import
          runs

rlVars == <<doc, import, held, before, runs>>

NotHeld == [value |-> Absent, memory |-> "project", agent |-> "private"]
NoImport == [pc |-> "idle", at |-> 0, imported |-> 0, skipped |-> 0, refused |-> 0]

-----------------------------------------------------------------------------
\* resolve_relay_scopes: scope is read only without a visibility, as a memory
\* scope if it is one and as an agent scope otherwise; agent_scope wins.
ResolveScopes(i) ==
  LET read == i.scope # Absent /\ i.visibility = Absent
      memory == IF read /\ i.scope \in MemoryScopes THEN i.scope ELSE i.visibility
      agent == IF i.agent_scope # Absent THEN i.agent_scope
               ELSE IF read /\ i.scope \in AgentScopes THEN i.scope ELSE Absent
  IN  IF Malformed \in {agent, memory} \/ (read /\ i.scope = Malformed) THEN Malformed
      ELSE [memory |-> IF memory = Absent THEN "project" ELSE memory,
            agent |-> IF agent = Absent THEN "private" ELSE agent]

\* _coerce_relay_item_save_kwargs gives arguments for save.
Usable(i) == i.key # Malformed /\ ResolveScopes(i) # Malformed

\* A document that does not parse is refused before the store is opened.
RefuseDocument ==
  /\ import.pc = "idle" /\ runs < MaxRuns
  /\ import' = [NoImport EXCEPT !.pc = "rejected"]
  /\ runs' = runs + 1
  /\ UNCHANGED <<doc, held, before>>

BeginRelay ==
  /\ import.pc \in {"idle", "raised"} /\ runs < MaxRuns
  /\ import' = [NoImport EXCEPT !.pc = "items"]
  /\ runs' = runs + 1
  /\ UNCHANGED <<doc, held, before>>

\* The next item of the document.
Item == doc[import.at + 1]

More == import.pc = "items" /\ import.at < DocLength

SkipItem ==
  /\ More /\ ~Usable(Item)
  /\ import' = [import EXCEPT !.at = @ + 1, !.skipped = @ + 1]
  /\ UNCHANGED <<doc, held, before, runs>>

ItemRow(i) == [value |-> i.value, memory |-> ResolveScopes(i).memory, agent |-> ResolveScopes(i).agent]

\* A key that is there already is left alone.
SaveOnce(i) == IF held[i.key] # NotHeld THEN held ELSE [held EXCEPT ![i.key] = ItemRow(i)]

\* What a save leaves in the store: a key that holds the same value already is
\* only reinforced (_handle_dedup), and keeps its scopes; the import counts it
\* like any other.
Saved(i) == IF held[i.key].value = i.value THEN held ELSE [held EXCEPT ![i.key] = ItemRow(i)]

ImportItem ==
  /\ More /\ Usable(Item)
  /\ held' = Saved(Item)
  /\ import' = [import EXCEPT !.at = @ + 1, !.imported = @ + 1]
  /\ UNCHANGED <<doc, before, runs>>

CountRefused == [import EXCEPT !.at = @ + 1, !.skipped = @ + 1, !.refused = @ + 1]

\* save answers with an error (also when the entry it reinforced has gone), or
\* raises a TypeError or a ValueError.
RefusedItem ==
  /\ More /\ Usable(Item)
  /\ import' = CountRefused
  /\ UNCHANGED <<doc, held, before, runs>>

\* save raises anything else: the import ends here.
RelayRaises ==
  /\ More /\ Usable(Item)
  /\ import' = [import EXCEPT !.pc = "raised"]
  /\ UNCHANGED <<doc, held, before, runs>>

EndRelay ==
  /\ import.pc = "items" /\ import.at = DocLength
  /\ import' = [import EXCEPT !.pc = "done"]
  /\ UNCHANGED <<doc, held, before, runs>>

-----------------------------------------------------------------------------
RlInit ==
  /\ doc \in [1..DocLength -> Items]
  /\ import = NoImport
  /\ held \in [ItemKeys -> {NotHeld} \cup {[NotHeld EXCEPT !.value = v] : v \in RelayValues}]
  /\ before = held
  /\ runs = 0

RlNext ==
  \/ RefuseDocument \/ BeginRelay \/ SkipItem \/ ImportItem \/ RefusedItem
  \/ RelayRaises \/ EndRelay

RlSpec == RlInit /\ [][RlNext]_rlVars

-----------------------------------------------------------------------------
(* Properties.                                                             *)

\* The usable items of a key; the last is what the document means for it.
ItemsOf(k) == {n \in 1..DocLength : Usable(doc[n]) /\ doc[n].key = k}
LastOf(k) == {n \in ItemsOf(k) : \A m \in ItemsOf(k) : m <= n}

\* Running the document again after an import broke off completes it: a run that
\* ends with nothing refused leaves for each key the value of its last usable
\* item, whatever the earlier runs had saved. What is saved beside the value may
\* be an earlier item's of the same value, or the store's own, but always of one
\* of them; and a key the document has no usable item for is as it was.
RerunCompletes ==
  (import.pc = "done" /\ import.refused = 0) =>
    \A k \in ItemKeys :
      /\ \A n \in LastOf(k) : held[k].value = doc[n].value
      /\ held[k] \in {before[k]} \cup {ItemRow(doc[n]) : n \in ItemsOf(k)}
=============================================================================

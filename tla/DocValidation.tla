---------------------------- MODULE DocValidation ----------------------------
(***************************************************************************)
(* validate_entries: MemoryDocValidator looks up the libraries each entry  *)
(* makes claims about (one lookup per subject and batch, within a budget), *)
(* classifies the entry, and apply_results writes confidence, the          *)
(* contradicted mark and the doc-* tags back, entry by entry, through a    *)
(* get and an update_fields. The tags are also the validator's memory: an  *)
(* entry tagged within the interval is skipped. Other callers re-tag       *)
(* entries between any two of these steps.                                 *)
(*                                                                         *)
(* User tags are never evicted and are counted; of the doc-* tags the      *)
(* order matters. A doc-* tag is [kind, day] (or [kind, ref]); confidence  *)
(* is in tenths.                                                           *)
(***************************************************************************)
EXTENDS Integers, Sequences, FiniteSets

CONSTANTS Entries,     \* keys, in the order of the cache
          Claims,      \* DvKeys -> sequence of the subjects it makes claims about
          MaxTags, MaxDocTags, MaxRefTags,
          MaxLookups,  \* validate_batch's budget
          Interval,    \* revalidation_interval_days
          Floor,       \* _CONFIDENCE_FLOOR
          Ceiling,     \* _source_ceiling of the entries' source
          Unread,      \* a subject the batch has not looked up; no snapshot
          MaxDay       \* bound: days that pass

VARIABLES entry,     \* DvKeys -> [user (tags), docs (tags, oldest first), conf]
          batch,     \* the running validate_entries
          today,
          adjusted   \* DvKeys -> date of the last confidence change since the last re-tag

dvVars == <<entry, batch, today, adjusted>>

DvKeys == {Entries[i] : i \in 1 .. Len(Entries)}

Subjects == UNION {{Claims[k][i] : i \in 1 .. Len(Claims[k])} : k \in DvKeys}

ASSUME DvAssumption ==
  /\ Entries \in Seq(DvKeys)
  /\ \A i, j \in 1 .. Len(Entries) : Entries[i] = Entries[j] => i = j
  /\ \A k \in DvKeys : Claims[k] \in Seq(Subjects)
  /\ MaxTags \in Nat /\ MaxDocTags \in Nat \ {0} /\ MaxRefTags \in Nat /\ MaxRefTags < MaxDocTags
  /\ Interval \in Nat

DocTag(kind, n) == [kind |-> kind, n |-> n]
Stamps == {"doc-validated", "doc-contradicted", "doc-checked"}

-----------------------------------------------------------------------------
(* _manage_doc_tags *)

WithoutOldest(docs, n) == SubSeq(docs, n + 1, Len(docs))

\* The newest doc-* tag is the one evicted.
WithoutNewest(docs, n) == SubSeq(docs, 1, Len(docs) - n)

AtLeast0(n) == IF n > 0 THEN n ELSE 0

ManageEvictsNewest(user, docs, new) ==
  IF \E i \in 1 .. Len(docs) : docs[i] = new THEN docs
  ELSE LET few  == WithoutNewest(docs, AtLeast0(Len(docs) - MaxDocTags + 1))
           room == WithoutNewest(few, AtLeast0(user + Len(few) - MaxTags + 1))
       IN  IF user + Len(room) < MaxTags THEN Append(room, new) ELSE room

ManageDocTags(user, docs, new) ==
  IF \E i \in 1 .. Len(docs) : docs[i] = new THEN docs
  ELSE LET few  == WithoutOldest(docs, AtLeast0(Len(docs) - MaxDocTags + 1))
           room == WithoutOldest(few, AtLeast0(user + Len(few) - MaxTags + 1))
       IN  IF user + Len(room) < MaxTags THEN Append(room, new) ELSE room

-----------------------------------------------------------------------------
(* validate_batch *)

RecentlyValidated(docs) ==
  \E i \in 1 .. Len(docs) : docs[i].kind \in Stamps /\ today - docs[i].n < Interval

NoBatch == [pc |-> "idle", todo |-> << >>, docs |-> [s \in Subjects |-> Unread],
            lookups |-> 0, asked |-> 0, report |-> << >>, snap |-> Unread, stamp |-> 0]

\* The entries as they are now: the batch works on this copy until it
\* applies its report.
BeginBatch ==
  /\ batch.pc = "idle"
  /\ batch' = [NoBatch EXCEPT !.pc = "validate",
                              !.todo = [i \in 1 .. Len(Entries) |->
                                          [key |-> Entries[i], docs |-> entry[Entries[i]].docs]]]
  /\ UNCHANGED <<entry, today, adjusted>>

Verdicts == {"confirmed", "contradicted", "inconclusive", "no_docs"}

\* validate_entry's overall status from its claims' alignments: one
\* contradiction flags the entry, whatever else is confirmed.
Overall(al) == CASE \E i \in 1 .. Len(al) : al[i] = "contradicted" -> "flagged"
                 [] \A i \in 1 .. Len(al) : al[i] # "contradicted" /\
                      \E j \in 1 .. Len(al) : al[j] = "confirmed" -> "validated"
                 [] OTHER -> "inconclusive"

\* Confirmed claims raise by a tenth or two, contradicted ones lower by two,
\* averaged over the claims (rounded here to a tenth, at least one).
Adjustment(al) == CASE Overall(al) = "validated" -> 1
                    [] Overall(al) = "flagged" -> 0 - 1
                    [] OTHER -> 0

\* The claims' subjects not yet in the batch's document cache; a subject two
\* claims share is counted for each.
NewLookups(claims) == Cardinality({i \in 1 .. Len(claims) : batch.docs[claims[i]] = Unread})

\* The subjects the next entry makes the batch look up.
Unknown == IF batch.todo = << >> THEN {}
           ELSE LET cl == Claims[Head(batch.todo).key]
                IN  {s \in Subjects : batch.docs[s] = Unread /\ \E i \in 1 .. Len(cl) : cl[i] = s}

\* doc_references: the claims the documents confirm, in order.
Confirmed(cl, docs) ==
  LET hits == {i \in 1 .. Len(cl) : docs[cl[i]] = "confirmed"}
      nth(n) == CHOOSE i \in hits : Cardinality({j \in hits : j <= i}) = n
  IN  [n \in 1 .. Cardinality(hits) |-> cl[nth(n)]]

SkipEntry(ev) == [batch EXCEPT !.todo = Tail(@), !.report = Append(@, ev)]

\* One turn of validate_batch's loop with validate_entry and its lookups
\* (a failed lookup is remembered too, as "no_docs").
ValidateOne(verdict) ==
  LET e  == Head(batch.todo)
      cl == Claims[e.key]
      new == NewLookups(cl)
      docs == [s \in Subjects |-> IF s \in Unknown THEN verdict[s] ELSE batch.docs[s]]
      al == [i \in 1 .. Len(cl) |-> docs[cl[i]]]
  IN  /\ batch.pc = "validate" /\ batch.todo # << >>
      /\ batch' = IF RecentlyValidated(e.docs) \/ batch.lookups + new > MaxLookups \/ cl = << >>
                  THEN SkipEntry([key |-> e.key, status |-> "skipped", adj |-> 0, refs |-> << >>])
                  ELSE [SkipEntry([key |-> e.key, status |-> Overall(al), adj |-> Adjustment(al),
                              refs |-> Confirmed(cl, docs)])
                        EXCEPT !.docs = docs, !.lookups = @ + new,
                               !.asked = @ + Cardinality(Unknown)]
      /\ UNCHANGED <<entry, today, adjusted>>

\* The end of the batch: strict mode raises when anything is flagged, and
\* nothing is applied; otherwise apply_results starts with today's stamp.
EndBatch(strict) ==
  /\ batch.pc = "validate" /\ batch.todo = << >>
  /\ batch' = IF strict /\ \E i \in 1 .. Len(batch.report) : batch.report[i].status = "flagged"
              THEN NoBatch
              ELSE [NoBatch EXCEPT !.pc = "apply", !.report = batch.report, !.stamp = today]
  /\ UNCHANGED <<entry, today, adjusted>>

-----------------------------------------------------------------------------
(* apply_results *)

\* The tags after a verdict: its stamp, then the references of a validated one.
Tagged(user, docs, ev) ==
  LET stamp == CASE ev.status = "validated" -> "doc-validated"
                 [] ev.status = "flagged"   -> "doc-contradicted"
                 [] OTHER -> "doc-checked"
      n == IF ev.status # "validated" THEN 0
           ELSE IF Len(ev.refs) < MaxRefTags THEN Len(ev.refs) ELSE MaxRefTags
      after[i \in 0 .. n] ==
        IF i = 0 THEN ManageDocTags(user, docs, DocTag(stamp, batch.stamp))
        ELSE ManageDocTags(user, after[i - 1], DocTag("doc-ref", ev.refs[i]))
  IN  after[n]

\* The boost is capped by the source's ceiling and the penalty by the floor.
NewConf(conf, ev) ==
  CASE ev.status = "validated" -> IF conf + ev.adj < Ceiling THEN conf + ev.adj ELSE Ceiling
    [] ev.status = "flagged" -> IF conf + ev.adj > Floor THEN conf + ev.adj ELSE Floor
    [] OTHER -> conf

\* store.get: skipped entries are passed over.
ApplyRead ==
  /\ batch.pc = "apply" /\ batch.report # << >> /\ batch.snap = Unread
  /\ batch' = IF Head(batch.report).status = "skipped"
              THEN [batch EXCEPT !.report = Tail(@)]
              ELSE [batch EXCEPT !.snap = entry[Head(batch.report).key]]
  /\ UNCHANGED <<entry, today, adjusted>>

\* store.update_fields with values worked out from the copy just read.
ApplyWrite ==
  LET ev == Head(batch.report)
      snap == batch.snap
  IN  /\ batch.pc = "apply" /\ batch.snap # Unread
      /\ entry' = [entry EXCEPT ![ev.key] =
                     [user |-> snap.user, docs |-> Tagged(snap.user, snap.docs, ev),
                      conf |-> NewConf(snap.conf, ev)]]
      /\ adjusted' = [adjusted EXCEPT ![ev.key] = IF ev.adj # 0 THEN batch.stamp ELSE @]
      /\ batch' = [batch EXCEPT !.report = Tail(@), !.snap = Unread]
      /\ UNCHANGED today

ApplyEnd ==
  /\ batch.pc = "apply" /\ batch.report = << >>
  /\ batch' = NoBatch
  /\ UNCHANGED <<entry, today, adjusted>>

\* Another caller saves the entry with tags of its own.
Retag(k, n) ==
  /\ entry' = [entry EXCEPT ![k].user = n, ![k].docs = << >>]
  /\ adjusted' = [adjusted EXCEPT ![k] = Unread]
  /\ UNCHANGED <<batch, today>>

Midnight ==
  /\ today < MaxDay
  /\ today' = today + 1
  /\ UNCHANGED <<entry, batch, adjusted>>

DvInit ==
  /\ entry = [k \in DvKeys |-> [user |-> MaxTags - 1, docs |-> << >>, conf |-> Floor]]
  /\ batch = NoBatch
  /\ today = 0
  /\ adjusted = [k \in DvKeys |-> Unread]

DvNext ==
  \/ BeginBatch
  \/ \E verdict \in [Unknown -> Verdicts] : ValidateOne(verdict)
  \/ \E strict \in BOOLEAN : EndBatch(strict)
  \/ ApplyRead \/ ApplyWrite \/ ApplyEnd
  \/ \E k \in DvKeys, n \in {1, MaxTags} : Retag(k, n)
  \/ Midnight

DvSpec == DvInit /\ [][DvNext]_dvVars

-----------------------------------------------------------------------------
(* Properties *)

\* The stamp survives the references written after it: an entry with room for
\* the validator's tags, left alone by others, is not adjusted twice within
\* the interval, so a verdict never compounds.
AdjustedOncePerInterval ==
  [][\A k \in DvKeys :
       (/\ adjusted[k] # Unread /\ adjusted'[k] # Unread
        /\ batch.snap # Unread /\ batch'.snap = Unread
        /\ Head(batch.report).key = k /\ Head(batch.report).adj # 0
        /\ entry[k].user <= MaxTags - MaxDocTags)
       => batch.stamp - adjusted[k] >= Interval]_dvVars
=============================================================================

----------------------------- MODULE AtomicStore -----------------------------
(***************************************************************************)
(* What MemoryStore promises a caller who is alone with it: a map from     *)
(* keys to versions on which every operation takes effect at once or not   *)
(* at all.  A key gets a version nobody has seen before, or disappears;    *)
(* it never goes back to an older version, and what was removed does not   *)
(* come back.  A failed operation may use up version numbers.              *)
(***************************************************************************)
EXTENDS Naturals

CONSTANT Keys
VARIABLES kv,   \* the version a reader sees under a key, 0 for none
          used  \* the last version that was, or could have been, seen

Init == kv \in [Keys -> {0, 1}] /\ used = kv

Put(k) ==
    /\ used[k] < used'[k]
    /\ kv'[k] = used'[k]
    /\ \A j \in Keys \ {k} : kv'[j] = kv[j] /\ used'[j] = used[j]

\* An eviction happens inside the save that needs the room; both the removal
\* and the version the save has prepared but not published show in one step.
Remove(k) ==
    /\ kv' = [kv EXCEPT ![k] = 0]
    /\ \A j \in Keys : used[j] <= used'[j]

Burn == kv' = kv /\ \A j \in Keys : used[j] <= used'[j]

Next == Burn \/ \E k \in Keys : Put(k) \/ Remove(k)

Spec == Init /\ [][Next]_<<kv, used>>
=============================================================================

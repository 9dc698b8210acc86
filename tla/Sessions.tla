------------------------------ MODULE Sessions ------------------------------
(***************************************************************************)
(* The session index. A store keeps the chunks of a session in the table   *)
(* session_chunks or, without PostgreSQL, in a dictionary of the process   *)
(* that holds at most MaxInMemory chunks. The two are driven here by the   *)
(* same calls, which is what the comments of the in-memory path promise    *)
(* they may be. A call is one step: the dictionary has a lock, and writers *)
(* of one session queue for its row 0 inside one transaction.              *)
(***************************************************************************)
EXTENDS Integers, Sequences, FiniteSets

CONSTANTS SessionIds,
          ChunkTexts,         \* chunks as a client sends them
          WordsOf,       \* the words of a chunk, within the allowed length
          Words,         \* words to search for
          ChunksPerCall,     \* max_chunks: chunks of one call
          MaxInMemory,   \* _MAX_IN_MEMORY_CHUNKS_PER_KEY
          TtlDays,
          MaxSessionDay, \* bound on time
          MaxCalls       \* bound on calls

ASSUME SessionsAssumption ==
  /\ ChunksPerCall \in Nat \ {0} /\ MaxInMemory \in Nat \ {0} /\ TtlDays \in Nat \ {0}
  /\ WordsOf \in [ChunkTexts -> SUBSET Words]

VARIABLES bucket,     \* the dictionary: its chunks, each with its place in the insertion order
          chunkTable, \* session_chunks
          evicted,    \* whether the dictionary ever evicted
          found,      \* the answers of the last search
          sessionDay, calls

snVars == <<bucket, chunkTable, evicted, found, sessionDay, calls>>

NoAnswer == [query |-> {}, mem |-> {}, sql |-> {}]

-----------------------------------------------------------------------------
\* Chunks are cut to the allowed length first; blank ones are dropped after,
\* and the rest numbered.
Trimmed(chunks) ==
  LET kept == {i \in 1..Len(chunks) : i <= ChunksPerCall /\ WordsOf[chunks[i]] # {}}
      nth(n) == CHOOSE i \in kept : Cardinality({j \in kept : j <= i}) = n
  IN  [n \in 1..Cardinality(kept) |-> chunks[nth(n)]]

Chunk(s, i, text, created) == [sid |-> s, idx |-> i, text |-> text, created |-> created]

Under(C, s, i) == {c \in C : c.sid = s /\ c.idx = i}

\* Both indexes keep the date of a chunk that is written again.
CreatedAt(C, s, i) ==
  IF Under(C, s, i) = {} THEN sessionDay ELSE (CHOOSE c \in Under(C, s, i) : TRUE).created

\* The dictionary keeps its keys in the order in which they came.
Entry(c, place) == [chunk |-> c, place |-> place]
Contents(b) == {e.chunk : e \in b}
Filed(b, s, i) == {e \in b : e.chunk.sid = s /\ e.chunk.idx = i}
LastPlace(b) == CHOOSE n \in {0} \cup {e.place : e \in b} : \A e \in b : e.place <= n

\* The oldest chunk of another session, the first inserted among equals.
Victim(b, s) ==
  LET others == {e \in b : e.chunk.sid # s}
      before(e, f) == \/ e.chunk.created < f.chunk.created
                      \/ e.chunk.created = f.chunk.created /\ e.place <= f.place
  IN  {e \in others : \A f \in others : before(e, f)}

\* One chunk goes in: an update keeps its place and its date, a new one may
\* cost another session its oldest.
Write(b, s, i, text, created) ==
  LET c == Chunk(s, i, text, created)
      grown == b \cup {Entry(c, LastPlace(b) + 1)}
      old == Filed(b, s, i)
  IN  IF old # {} THEN (b \ old) \cup {Entry(c, e.place) : e \in old}
      ELSE IF Cardinality(grown) <= MaxInMemory THEN grown
      ELSE grown \ Victim(grown, s)

\* The date of a rewritten chunk is the date of the rewriting.
PutChunkAnew(b, s, i, text) == Write(b, s, i, text, sessionDay)

PutChunk(b, s, i, text) == Write(b, s, i, text, CreatedAt(Contents(b), s, i))

\* The chunks of a call, in order.
PutAll(b, s, texts) ==
  LET after[n \in 0..Len(texts)] ==
        IF n = 0 THEN b ELSE PutChunk(after[n - 1], s, n - 1, texts[n])
  IN  after[Len(texts)]

\* index_session: what a longer write of the session left is dropped.
IndexInMemory(s, texts) ==
  {e \in PutAll(bucket, s, texts) : e.chunk.sid # s \/ e.chunk.idx < Len(texts)}

\* SessionIndex.save_chunks: ON CONFLICT updates the content only.
SaveChunks(s, texts) ==
  {c \in chunkTable : c.sid # s}
    \cup {Chunk(s, i, texts[i + 1], CreatedAt(chunkTable, s, i)) : i \in 0..(Len(texts) - 1)}

\* MemoryStore.index_session; a call with nothing to index changes nothing.
IndexSession(s, chunks) ==
  LET texts == Trimmed(chunks)
  IN  /\ calls < MaxCalls /\ texts # <<>>
      /\ calls' = calls + 1
      /\ bucket' = IndexInMemory(s, texts)
      /\ chunkTable' = SaveChunks(s, texts)
      /\ evicted' = (evicted \/ \E c \in Contents(bucket) :
                                   c.sid # s /\ c \notin Contents(bucket'))
      /\ UNCHANGED <<found, sessionDay>>

\* search_session_index: any common word makes a hit.
SearchInMemory(q) == {c \in Contents(bucket) : WordsOf[c.text] \cap q # {}}

\* SessionIndex.search: plainto_tsquery wants every word.
SearchTable(q) == {c \in chunkTable : q \subseteq WordsOf[c.text]}

\* MemoryStore.search_sessions, before the limit.
SearchSessions(q) ==
  /\ q # {} /\ calls < MaxCalls
  /\ calls' = calls + 1
  /\ found' = [query |-> q, mem |-> SearchInMemory(q), sql |-> SearchTable(q)]
  /\ UNCHANGED <<bucket, chunkTable, evicted, sessionDay>>

\* Both paths delete what is older than the cut-off.
ChunkExpired(c) == c.created < sessionDay - TtlDays

\* MemoryStore.cleanup_sessions.
CleanupSessions ==
  /\ calls < MaxCalls
  /\ calls' = calls + 1
  /\ bucket' = {e \in bucket : ~ChunkExpired(e.chunk)}
  /\ chunkTable' = {c \in chunkTable : ~ChunkExpired(c)}
  /\ UNCHANGED <<evicted, found, sessionDay>>

SessionDayPasses ==
  /\ sessionDay < MaxSessionDay
  /\ sessionDay' = sessionDay + 1
  /\ UNCHANGED <<bucket, chunkTable, evicted, found, calls>>

-----------------------------------------------------------------------------
SnInit ==
  /\ bucket = {} /\ chunkTable = {}
  /\ evicted = FALSE
  /\ found = NoAnswer
  /\ sessionDay = 0 /\ calls = 0

SnNext ==
  \/ \E s \in SessionIds, chunks \in UNION {[1..n -> ChunkTexts] : n \in 1..(ChunksPerCall + 1)} :
       IndexSession(s, chunks)
  \/ \E q \in SUBSET Words : SearchSessions(q)
  \/ CleanupSessions
  \/ SessionDayPasses

SnSpec == SnInit /\ [][SnNext]_snVars

-----------------------------------------------------------------------------
(* Properties.                                                             *)

\* Until something is evicted the dictionary holds what the table holds, dates
\* included, so that both expire the same chunks.
IndexesAgree == ~evicted => Contents(bucket) = chunkTable
=============================================================================

------------------------------ MODULE ChunkMap ------------------------------
(***************************************************************************)
(* The chunk map of a download: class ChunkMap of ft/ftchunkmap.cc.        *)
(*                                                                         *)
(* A file is a sequence of chunks.  A chunk that is being downloaded is    *)
(* cut into slices: a peer (or several that share it) feeds on the chunk,  *)
(* every request takes the next slice of it, and the chunk is finished     *)
(* when the sizes of its received slices add up to its own.  Finished      *)
(* chunks are checked against a checksum of another source.                *)
(*                                                                         *)
(* The unit of size and offset is the piece, a number of bytes so small    *)
(* that slices and blocks are whole pieces.  The methods run under the     *)
(* mutex of the ftFileCreator that owns the map; they are operators here   *)
(* and become actions in module FileCreator.                               *)
(***************************************************************************)
EXTENDS Integers, FiniteSets, FiniteSetsExt

CONSTANTS
    Peers,      \* sources; they are numbers because std::map orders them
    FileSize,   \* in pieces
    ChunkSize,  \* CHUNKMAP_FIXED_CHUNK_SIZE, in pieces
    Word32,     \* uint32_t counts modulo 2^32
    Word64,     \* uint64_t counts modulo 2^64
    AssumeAvailability,  \* _assume_availability: unknown sources have everything
    Nil

ASSUME ChunkMapAssumption ==
    /\ Peers \subseteq Nat
    /\ FileSize \in Nat \ {0} /\ ChunkSize \in Nat \ {0}
    /\ Word32 \in Nat /\ Word32 > ChunkSize
    /\ Word64 \in Nat /\ Word64 >= Word32 /\ Word64 > FileSize
    /\ AssumeAvailability \in BOOLEAN
    /\ Nil \notin Nat

NumChunks == (FileSize + ChunkSize - 1) \div ChunkSize
Chunks == 0 .. NumChunks - 1
Offsets == 0 .. FileSize - 1
ChunkOf(o) == o \div ChunkSize
Start(c) == c * ChunkSize
SizeOfChunk(c) == IF c = NumChunks - 1 THEN FileSize - Start(c) ELSE ChunkSize
End(c) == Start(c) + SizeOfChunk(c)
Pieces(c) == Start(c) .. End(c) - 1

VARIABLES
    map,          \* _map
    feed,         \* _active_chunks_feed: the _offset of the peer's Chunk
    slices,       \* _slices_to_download[..]._slices: offset -> size, 0 if none
    downloading,  \* the chunks that have an entry in _slices_to_download
    remains,      \* _slices_to_download[..]._remains
    avail,        \* _peers_chunks_availability: the chunks a source has
    total,        \* _total_downloaded
    complete,     \* _file_is_complete
    toCheck       \* _chunks_checking_queue

chunkVars == <<map, feed, slices, downloading, remains, avail, total, complete, toCheck>>

States == {"outstanding", "active", "checking", "done"}

ChunkMapTypeOK ==
    /\ map \in [Chunks -> States]
    /\ feed \in [Peers -> Offsets \cup {Nil}]
    /\ slices \in [Offsets -> 0..ChunkSize]
    /\ downloading \subseteq Chunks
    /\ remains \in [Chunks -> 0 .. Word32 - 1]
    /\ avail \in [Peers -> (SUBSET Chunks) \cup {Nil}]
    /\ total \in 0 .. Word64 - 1
    /\ complete \in BOOLEAN
    /\ toCheck \subseteq Chunks

\* What a loop over the chunks adds up.
Sum(w) ==
    LET upTo[n \in 0..NumChunks] == IF n = 0 THEN 0 ELSE upTo[n - 1] + w[n - 1]
    IN  upTo[NumChunks]

\* The constructor.
NewChunkMap ==
    /\ map = [c \in Chunks |-> "outstanding"]
    /\ feed = [p \in Peers |-> Nil]
    /\ slices = [o \in Offsets |-> 0]
    /\ downloading = {}
    /\ remains = [c \in Chunks |-> 0]
    /\ avail = [p \in Peers |-> Nil]
    /\ total = 0
    /\ complete = FALSE
    /\ toCheck = {}

(* A new map, and setAvailabilityMap with the chunks D that the saved       *)
(* transfer list calls done.                                                *)
Load(D) ==
    /\ map' = [c \in Chunks |-> IF c \in D THEN "done" ELSE "outstanding"]
    /\ feed' = [p \in Peers |-> Nil]
    /\ slices' = [o \in Offsets |-> 0]
    /\ downloading' = {}
    /\ remains' = [c \in Chunks |-> 0]
    /\ avail' = [p \in Peers |-> Nil]
    /\ total' = Sum([c \in Chunks |-> IF c \in D THEN SizeOfChunk(c) ELSE 0]) % Word64
    /\ complete' = (D = Chunks)
    /\ toCheck' = {}
-----------------------------------------------------------------------------
(* updateTotalDownloaded, for a map m, entries dl and their remains r: what *)
(* each chunk counts for, and the sum of it.                                *)
Counted(m, dl, r) ==
    [c \in Chunks |->
       (IF m[c] \in {"checking", "done"} THEN SizeOfChunk(c) ELSE 0)
       + (IF c \in dl THEN ((SizeOfChunk(c) - r[c]) % Word32)
                             - (IF m[c] = "checking" THEN SizeOfChunk(c) ELSE 0)
          ELSE 0)]

Recount(m, dl, r) == Sum(Counted(m, dl, r)) % Word64

UpdateTotalDownloaded(m, dl, r) ==
    /\ total' = Recount(m, dl, r)
    /\ complete' = \A c \in Chunks : m[c] = "done"

SlicesOf(c) == {o \in Pieces(c) : slices[o] # 0}
Cleared(c) == [o \in Offsets |-> IF o \in Pieces(c) THEN 0 ELSE slices[o]]

(* dataReceived: slice id is complete.  With the last slice the chunk goes  *)
(* to the checking queue, except that a file of one chunk is just done.     *)
DataReceived(id) ==
    LET n == ChunkOf(id)
        r == [remains EXCEPT ![n] = (@ - slices[id]) % Word32]
        state == IF n > 0 \/ FileSize > ChunkSize THEN "checking" ELSE "done"
    IN  \/ /\ n \notin downloading \/ slices[id] = 0
           /\ UNCHANGED chunkVars
        \/ /\ n \in downloading /\ slices[id] # 0 /\ r[n] # 0
           /\ total' = (total + slices[id]) % Word64
           /\ remains' = r
           /\ slices' = [slices EXCEPT ![id] = 0]
           /\ UNCHANGED <<map, feed, downloading, avail, complete, toCheck>>
        \/ /\ n \in downloading /\ slices[id] # 0 /\ r[n] = 0
           /\ map' = [map EXCEPT ![n] = state]
           /\ toCheck' = IF state = "checking" THEN toCheck \cup {n} ELSE toCheck
           /\ downloading' = downloading \ {n}
           /\ remains' = r
           /\ slices' = Cleared(n)
           /\ UpdateTotalDownloaded(map', downloading', r)
           /\ UNCHANGED <<feed, avail>>

\* getChunksToCheck hands the queue over to the checksum requests.
GetChunksToCheck ==
    /\ toCheck' = {}
    /\ UNCHANGED <<map, feed, slices, downloading, remains, avail, total, complete>>

\* Mutant: the progress is not restored when the check fails.
CheckingResultKeepsTotal(c, succeeded) ==
    /\ map[c] = "checking"
    /\ map' = [map EXCEPT ![c] = IF succeeded THEN "done" ELSE "outstanding"]
    /\ complete' = \A i \in Chunks : map'[i] = "done"
    /\ UNCHANGED <<feed, slices, downloading, remains, avail, total, toCheck>>

\* Mutant: a result is used although the chunk does not wait for one.
CheckingResultAnyState(c, succeeded) ==
    /\ map[c] # "outstanding"
    /\ map' = [map EXCEPT ![c] = IF succeeded THEN "done" ELSE "outstanding"]
    /\ complete' = \A i \in Chunks : map'[i] = "done"
    /\ UpdateTotalDownloaded(map', downloading, remains)
    /\ UNCHANGED <<feed, slices, downloading, remains, avail, toCheck>>

\* setChunkCheckingResult.
SetChunkCheckingResult(c, succeeded) ==
    /\ map[c] = "checking"
    /\ \/ /\ succeeded
          /\ map' = [map EXCEPT ![c] = "done"]
          /\ complete' = \A i \in Chunks : map'[i] = "done"
          /\ UNCHANGED total
       \/ /\ ~succeeded
          /\ map' = [map EXCEPT ![c] = "outstanding"]
          /\ total' = (total - SizeOfChunk(c)) % Word64
          /\ UNCHANGED complete
    /\ UNCHANGED <<feed, slices, downloading, remains, avail, toCheck>>

\* forceCheck.
ForceCheckChunks ==
    /\ map' = [c \in Chunks |-> "checking"]
    /\ toCheck' = Chunks
    /\ UpdateTotalDownloaded(map', downloading, remains)
    /\ UNCHANGED <<feed, slices, downloading, remains, avail>>

\* Mutant: the peers that feed on the chunk are not freed.
RemoveInactiveKeepsFeed(c) ==
    /\ c \in downloading
    /\ map' = [map EXCEPT ![c] = "outstanding"]
    /\ total' = (total - ((SizeOfChunk(c) - remains[c]) % Word32)) % Word64
    /\ slices' = Cleared(c)
    /\ downloading' = downloading \ {c}
    /\ remains' = [remains EXCEPT ![c] = 0]
    /\ UNCHANGED <<feed, avail, complete, toCheck>>

\* One round of removeInactiveChunks, for a chunk without data for an hour.
RemoveInactiveChunk(c) ==
    /\ c \in downloading
    /\ map' = [map EXCEPT ![c] = "outstanding"]
    /\ total' = (total - ((SizeOfChunk(c) - remains[c]) % Word32)) % Word64
    /\ feed' = [p \in Peers |-> IF feed[p] # Nil /\ ChunkOf(feed[p]) = c THEN Nil ELSE feed[p]]
    /\ slices' = Cleared(c)
    /\ downloading' = downloading \ {c}
    /\ remains' = [remains EXCEPT ![c] = 0]
    /\ UNCHANGED <<avail, complete, toCheck>>

\* setPeerAvailabilityMap, removeFileSource.
SetPeerAvailabilityMap(p, S) ==
    /\ avail' = [avail EXCEPT ![p] = S]
    /\ UNCHANGED <<map, feed, slices, downloading, remains, total, complete, toCheck>>
-----------------------------------------------------------------------------
(* getDataChunk: the next slice for peer p, of at most hint pieces.         *)

\* getSourceChunksInfo makes a record for a source that has none.
SourceChunksInfo(p) ==
    IF avail[p] # Nil THEN avail[p] ELSE IF AssumeAvailability THEN Chunks ELSE {}

KnowSource(p) == avail' = [avail EXCEPT ![p] = SourceChunksInfo(p)]

\* The feeds of other peers that p could share: it has the chunk.
Shareable(p) == {q \in Peers : feed[q] # Nil /\ ChunkOf(feed[q]) \in SourceChunksInfo(p)}

\* p is not much slower than whoever asked for the last slice (cdi._slices.rbegin()).
FastEnough(q, hint) ==
    LET S == SlicesOf(ChunkOf(feed[q])) IN S # {} /\ 7 * slices[Max(S)] <= 10 * hint

Sharers(p, hint) == {q \in Shareable(p) : FastEnough(q, hint)}

\* getAvailableChunk: the strategies differ in which of these they prefer.
AvailableChunks(p) == {c \in SourceChunksInfo(p) : map[c] = "outstanding"}

\* Chunk::getSlice, and the bookkeeping at the end of getDataChunk.
SliceSize(o, hint) == Min({hint, End(ChunkOf(o)) - o})

\* Mutant: an empty feed is not erased.
CutSliceKeepsFeed(q, o, n) ==
    /\ slices' = [slices EXCEPT ![o] = n]
    /\ feed' = [feed EXCEPT ![q] = o + n]

CutSlice(q, o, n) ==
    /\ slices' = [slices EXCEPT ![o] = n]
    /\ feed' = [feed EXCEPT ![q] = IF o + n = End(ChunkOf(o)) THEN Nil ELSE o + n]

\* p has a chunk of its own.
NextSlice(p, o, n, hint) ==
    /\ feed[p] # Nil /\ o = feed[p] /\ n = SliceSize(o, hint)
    /\ CutSlice(p, o, n)
    /\ downloading' = downloading \cup {ChunkOf(o)}
    /\ UNCHANGED <<map, remains, avail, total, complete, toCheck>>

(* p takes a slice of a chunk that q feeds on: the first feed that p is     *)
(* fast enough for or, if there is none and no new chunk either, the last   *)
(* feed looked at.  operator[] enters the chunks it looks at.               *)
SharedSlice(p, q, o, n, hint) ==
    /\ feed[p] = Nil
    /\ \/ Sharers(p, hint) # {} /\ q = Min(Sharers(p, hint))
       \/ /\ Sharers(p, hint) = {} /\ AvailableChunks(p) = {}
          /\ Shareable(p) # {} /\ q = Max(Shareable(p))
    /\ o = feed[q] /\ n = SliceSize(o, hint)
    /\ CutSlice(q, o, n)
    /\ downloading' = downloading \cup {ChunkOf(feed[r]) : r \in {s \in Shareable(p) : s <= q}}
    /\ KnowSource(p)
    /\ UNCHANGED <<map, remains, total, complete, toCheck>>

\* Mutant: the last chunk is taken to be as large as the others.
NewChunkSliceFullSize(p, c, n, hint) ==
    /\ feed[p] = Nil /\ Sharers(p, hint) = {} /\ c \in AvailableChunks(p)
    /\ n = SliceSize(Start(c), hint)
    /\ map' = [map EXCEPT ![c] = "active"]
    /\ CutSlice(p, Start(c), n)
    /\ downloading' = downloading \cup {c} \cup {ChunkOf(feed[r]) : r \in Shareable(p)}
    /\ remains' = [remains EXCEPT ![c] = ChunkSize]
    /\ KnowSource(p)
    /\ UNCHANGED <<total, complete, toCheck>>

\* p starts a new chunk.
NewChunkSlice(p, c, n, hint) ==
    /\ feed[p] = Nil /\ Sharers(p, hint) = {} /\ c \in AvailableChunks(p)
    /\ n = SliceSize(Start(c), hint)
    /\ map' = [map EXCEPT ![c] = "active"]
    /\ CutSlice(p, Start(c), n)
    /\ downloading' = downloading \cup {c} \cup {ChunkOf(feed[r]) : r \in Shareable(p)}
    /\ remains' = [remains EXCEPT ![c] = SizeOfChunk(c)]
    /\ KnowSource(p)
    /\ UNCHANGED <<total, complete, toCheck>>

GetDataChunk(p, o, n, hint) ==
    \/ NextSlice(p, o, n, hint)
    \/ \E q \in Peers : SharedSlice(p, q, o, n, hint)
    \/ \E c \in Chunks : o = Start(c) /\ NewChunkSlice(p, c, n, hint)

\* No slice for p: a pending one may be asked of p as well (reAskPendingChunk).
NoDataChunk(p, hint) ==
    /\ feed[p] = Nil /\ Shareable(p) = {} /\ AvailableChunks(p) = {}
    /\ KnowSource(p)
    /\ UNCHANGED <<map, feed, slices, downloading, remains, total, complete, toCheck>>
=============================================================================

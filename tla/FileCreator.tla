---------------------------- MODULE FileCreator ----------------------------
(***************************************************************************)
(* A download: class ftFileCreator of ft/ftfilecreator.cc, which owns a    *)
(* ChunkMap, and the calls that ftTransferModule, ftDataMultiplex and      *)
(* ftController make to it from several threads, each under ftcMutex.      *)
(*                                                                         *)
(* The creator tracks the slices that were asked for in mChunks.  A source *)
(* ships a slice in blocks (ftServer::sendData), which arrive late, twice, *)
(* in any order or not at all; one that arrives in the middle of a part    *)
(* splits it in two, which then share the counter of the slice.  When the  *)
(* last part of a slice is gone, the chunk map is told.                    *)
(***************************************************************************)
EXTENDS ChunkMap

CONSTANTS
    SourceMaps, \* the chunk maps that sources send
    BlockSize,  \* the largest block that sendData ships, in pieces
    Blocks,     \* which blocks arrive, see Arrives
    Refs,       \* the counters that parts point to (ref_cnt)
    ForceInDownload,  \* the user forces checks of running downloads
    MaxPerPeer  \* MAX_FTCHUNKS_PER_PEER

\* ftChunk: a part of a slice, which has the slice's id and shares its counter.
Part == [size : 1..ChunkSize, id : Offsets, peer : Peers, ref : Refs]

\* Where a part may start: a part of wrapped size also at the end of the file.
Places == 0 .. FileSize

ASSUME FileCreatorAssumption ==
    /\ SourceMaps \subseteq SUBSET Chunks
    /\ Nil \notin Part
    /\ BlockSize \in Nat \ {0}
    /\ Blocks \in {"pending", "fitting", "late"} /\ ForceInDownload \in BOOLEAN
    /\ MaxPerPeer \in Nat \ {0} /\ MaxPerPeer < Word32

VARIABLES
    parts,     \* mChunks: the part that starts at an offset
    refCnt,    \* *ref_cnt of each counter
    perPeer,   \* mChunksPerPeer[..].cnt, a uint32_t
    written,   \* the pieces that are on the disk
    saved,     \* the chunks the saved transfer list calls done
    verified,  \* history: the chunks that have passed a check
    forced,    \* history: the chunks that were checked by force and not received since
    asked      \* history, kept for late blocks: the blocks that were asked for

vars == <<map, feed, slices, downloading, remains, avail, total, complete, toCheck,
          parts, refCnt, perPeer, written, saved, verified, forced, asked>>

TypeOK ==
    /\ ChunkMapTypeOK
    /\ parts \in [Places -> Part \cup {Nil}]
    /\ refCnt \in [Refs -> 0..ChunkSize]
    /\ perPeer \in [Peers -> 0 .. Word32 - 1]
    /\ written \subseteq Offsets
    /\ saved \subseteq Chunks
    /\ verified \subseteq Chunks
    /\ forced \subseteq Chunks

Init ==
    /\ NewChunkMap
    /\ parts = [o \in Places |-> Nil]
    /\ refCnt = [r \in Refs |-> 0]
    /\ perPeer = [p \in Peers |-> 0]
    /\ written = {}
    /\ saved = {}
    /\ verified = {}
    /\ forced = {}
    /\ asked = {}
-----------------------------------------------------------------------------
\* The offsets of the parts of slice id.
PartsOf(id) == {o \in Places : parts[o] # Nil /\ parts[o].id = id}

FreeRef(r) == \A o \in Places : parts[o] # Nil => parts[o].ref # r

\* sendData answers a request for n pieces from o on with these blocks <<offset, size>>.
BlocksOf(o, n) ==
    {<<o + k * BlockSize, Min({BlockSize, n - k * BlockSize})>> : k \in 0 .. (n - 1) \div BlockSize}

Ask(o, n) == asked' = IF Blocks = "late" THEN asked \cup BlocksOf(o, n) ELSE asked

(* getMissingChunk asks p for a part that is older than two minutes: but    *)
(* for the time of the part, which is not modelled, this only looks up p.   *)
ReAsk(p) ==
    /\ \E o \in Places : parts[o] # Nil /\ Ask(o, parts[o].size)
    /\ KnowSource(p)
    /\ UNCHANGED <<map, feed, slices, downloading, remains, total, complete, toCheck>>
    /\ UNCHANGED <<parts, refCnt, perPeer, written, saved, verified, forced>>

\* getMissingChunk gives p a new slice.
GetMissingChunk(p, o, n, hint, r) ==
    /\ perPeer[p] < MaxPerPeer
    /\ GetDataChunk(p, o, n, hint)
    /\ FreeRef(r)
    /\ refCnt' = [refCnt EXCEPT ![r] = 1]
    /\ parts' = [parts EXCEPT ![o] = [size |-> n, id |-> o, peer |-> p, ref |-> r]]
    /\ perPeer' = [perPeer EXCEPT ![p] = @ + 1]
    /\ Ask(o, n)
    /\ UNCHANGED <<written, saved, verified, forced>>

NothingMissing(p, hint) ==
    /\ perPeer[p] < MaxPerPeer
    /\ NoDataChunk(p, hint)
    /\ UNCHANGED <<parts, refCnt, perPeer, written, saved, verified, forced, asked>>

\* A block of n pieces at o of a slice that is pending.
PendingBlock(o, n) == \E id \in Offsets : slices[id] # 0 /\ <<o, n>> \in BlocksOf(id, slices[id])

\* A block that does not reach over the end of the part at its offset.
Fits(o, n) == parts[o] # Nil => n <= parts[o].size

(* recvFileData looks at the sender of a block only, so the creator takes   *)
(* any block.  Those that arrive here are the blocks of pending slices, as  *)
(* often as they like; or all blocks that fit; or all that were ever asked  *)
(* for.  addFileData cuts a block off at the end of the file.               *)
Arrives(o, n) ==
    /\ o + n <= FileSize
    /\ \/ Blocks = "pending" /\ PendingBlock(o, n)
       \/ Blocks = "fitting" /\ Fits(o, n)
       \/ Blocks = "late" /\ <<o, n>> \in asked

(* locked_notifyReceived looks for a part that starts at the block, of      *)
(* whatever size, then for the first one that contains it.                  *)
Holding(o, n) ==
    IF parts[o] # Nil THEN {o}
    ELSE {u \in Places : parts[u] # Nil /\ u < o /\ (u + parts[u].size) % Word64 >= o + n}

\* What lies behind the block in the part at u; the size is a uint64_t.
Rest(u, o, n) == (parts[u].size - (o - u) - n) % Word64

\* Mutant: what lies before the block is forgotten.
SplitDropsHead(u, o, n) ==
    [v \in Places |->
        IF v = o + n /\ Rest(u, o, n) # 0 THEN [parts[u] EXCEPT !.size = Rest(u, o, n)]
        ELSE IF v \in {u, o} THEN Nil ELSE parts[v]]

(* The part at u without the block: it keeps what lies before the block,    *)
(* and what lies behind it becomes a part in the place of whatever is there.*)
Split(u, o, n) ==
    [v \in Places |->
        IF v = o + n /\ Rest(u, o, n) # 0 THEN [parts[u] EXCEPT !.size = Rest(u, o, n)]
        ELSE IF v = u /\ u < o THEN [parts[u] EXCEPT !.size = o - u]
        ELSE IF v = o THEN Nil ELSE parts[v]]

\* Mutant: a split does not count the second part.
TakeOutOneRef(u, o, n) ==
    LET c == parts[u]
        last == Rest(u, o, n) = 0
    IN  /\ parts' = Split(u, o, n)
        /\ refCnt' = [refCnt EXCEPT ![c.ref] = IF last THEN 0 ELSE @]
        /\ \/ /\ last
              /\ DataReceived(c.id)
              /\ perPeer' = [perPeer EXCEPT ![c.peer] = (@ - 1) % Word32]
           \/ /\ ~last
              /\ UNCHANGED <<chunkVars, perPeer>>

(* A block of the part at u is taken out of it.  The counter of the slice   *)
(* goes up with a split and down when nothing lies behind the block.        *)
TakeOut(u, o, n) ==
    LET c == parts[u]
        last == Rest(u, o, n) = 0
        cnt == refCnt[c.ref] + (IF u < o THEN 1 ELSE 0) - (IF last THEN 1 ELSE 0)
    IN  /\ parts' = Split(u, o, n)
        /\ refCnt' = [refCnt EXCEPT ![c.ref] = cnt]
        /\ \/ /\ last /\ cnt = 0
              /\ DataReceived(c.id)
              /\ perPeer' = [perPeer EXCEPT ![c.peer] = (@ - 1) % Word32]
           \/ /\ ~(last /\ cnt = 0)
              /\ UNCHANGED <<chunkVars, perPeer>>

(* addFileData writes the block to the disk, whether or not a part waits    *)
(* for it.  A chunk whose state changes has been received.                  *)
AddFileData(o, n) ==
    /\ Arrives(o, n)
    /\ written' = written \cup (o .. o + n - 1)
    /\ \/ /\ Holding(o, n) = {}
          /\ UNCHANGED <<chunkVars, parts, refCnt, perPeer>>
       \/ /\ Holding(o, n) # {}
          /\ TakeOut(Min(Holding(o, n)), o, n)
    /\ forced' = {c \in forced : map'[c] = map[c]}
    /\ UNCHANGED <<saved, verified, asked>>

(* removeInactiveChunks, for one chunk: the parts of its slices are         *)
(* dropped, and the counter of the peer goes down with each of them.        *)
RemoveInactive(c) ==
    LET gone == UNION {PartsOf(id) : id \in SlicesOf(c)} IN
    /\ RemoveInactiveChunk(c)
    /\ parts' = [o \in Places |-> IF o \in gone THEN Nil ELSE parts[o]]
    /\ refCnt' = [r \in Refs |-> refCnt[r] - Cardinality({o \in gone : parts[o].ref = r})]
    /\ perPeer' = [p \in Peers |->
         (perPeer[p] - Cardinality({o \in gone : parts[o].peer = p})) % Word32]
    /\ UNCHANGED <<written, saved, verified, forced, asked>>

(* verifyChunk: a checksum for chunk c has come, from any source or out of  *)
(* the cache of ftDataMultiplex, and at any time.  Nothing says that it is  *)
(* one of the right content; the file must only reach into the chunk.       *)
VerifyChunk(c, succeeded) ==
    /\ succeeded => \E x \in written : Start(c) <= x
    /\ SetChunkCheckingResult(c, succeeded)
    /\ verified' = IF succeeded THEN verified \cup {c} ELSE verified
    /\ UNCHANGED <<parts, refCnt, perPeer, written, saved, forced, asked>>

\* ftTransferModule::queryInactive fetches the chunks to ask checksums for.
QueryInactive ==
    /\ ~complete
    /\ GetChunksToCheck
    /\ UNCHANGED <<parts, refCnt, perPeer, written, saved, verified, forced, asked>>

(* By the user at any time, or by checkFile when the hash of the complete   *)
(* file is wrong.                                                           *)
ForceCheck ==
    /\ ForceInDownload \/ downloading = {}
    /\ ForceCheckChunks
    /\ forced' = Chunks
    /\ UNCHANGED <<parts, refCnt, perPeer, written, saved, verified, asked>>

SetSourceMap(p, S) ==
    /\ SetPeerAvailabilityMap(p, S)
    /\ UNCHANGED <<parts, refCnt, perPeer, written, saved, verified, forced, asked>>

RemoveFileSource(p) == SetSourceMap(p, Nil)

\* ftController::saveList: getAvailabilityMap compresses the map to what is done.
SaveList ==
    /\ saved' = {c \in Chunks : map[c] = "done"}
    /\ UNCHANGED <<chunkVars, parts, refCnt, perPeer, written, verified, forced, asked>>

\* The process ends and starts again with what was saved last.
Restart ==
    /\ Load(saved)
    /\ parts' = [o \in Places |-> Nil]
    /\ refCnt' = [r \in Refs |-> 0]
    /\ perPeer' = [p \in Peers |-> 0]
    /\ UNCHANGED <<written, saved, verified, forced, asked>>

Next ==
    \/ \E p \in Peers, hint \in 1..ChunkSize, r \in Refs, o \in Offsets, n \in 1..ChunkSize :
         GetMissingChunk(p, o, n, hint, r)
    \/ \E p \in Peers, hint \in 1..ChunkSize : NothingMissing(p, hint)
    \/ \E p \in Peers : ReAsk(p)
    \/ \E o \in Offsets, n \in 1..BlockSize : AddFileData(o, n)
    \/ \E c \in Chunks : RemoveInactive(c)
    \/ \E c \in Chunks, succeeded \in BOOLEAN : VerifyChunk(c, succeeded)
    \/ QueryInactive
    \/ ForceCheck
    \/ \E p \in Peers, S \in SourceMaps : SetSourceMap(p, S)
    \/ \E p \in Peers : RemoveFileSource(p)
    \/ SaveList
    \/ Restart

Spec == Init /\ [][Next]_vars
-----------------------------------------------------------------------------
(* Properties.  They are about downloads whose checks are not forced while *)
(* a chunk is being downloaded.  Otherwise such a chunk may be given out a  *)
(* second time with slices of the first time pending, and most of them     *)
(* fail: see CompleteHasNoSlices.                                          *)

\* The pieces of slice o, of the part at o, and those peers have yet to ask for.
SlicePieces(o) == o .. o + slices[o] - 1
PartPieces(o) == o .. o + parts[o].size - 1
Feeders(c) == {p \in Peers : feed[p] # Nil /\ ChunkOf(feed[p]) = c}
Unasked(c) == UNION {feed[p] .. End(c) - 1 : p \in Feeders(c)}

(* A chunk has slices pending, and somebody feeding on it, only while it is *)
(* active; and one peer at most feeds on it ("Exactly 1 chunk per peer").   *)
ActiveIsDownloading ==
    \A c \in Chunks :
        /\ c \in downloading <=> map[c] = "active"
        /\ SlicesOf(c) # {} \/ Feeders(c) # {} => c \in downloading
        /\ Cardinality(Feeders(c)) <= 1

(* No piece is in two slices, and what a chunk still lacks is its pending   *)
(* slices and what nobody has asked for: the chunk is finished neither too  *)
(* early nor never.                                                         *)
RemainsExact ==
    \A c \in downloading :
        /\ \A o, u \in SlicesOf(c) : o # u => SlicePieces(o) \cap SlicePieces(u) = {}
        /\ \A o \in SlicesOf(c) : SlicePieces(o) \cap Unasked(c) = {}
        /\ remains[c] = Cardinality((UNION {SlicePieces(o) : o \in SlicesOf(c)}) \cup Unasked(c))

(* The creator and the chunk map agree on the slices: a pending slice has   *)
(* parts, the counter they share is their number, and they do not overlap,  *)
(* so the chunk map hears of the slice exactly when its last block arrives. *)
PartsMatchSlices ==
    /\ \A id \in Offsets : slices[id] # 0 <=> PartsOf(id) # {}
    /\ \A o \in Places : parts[o] # Nil =>
         /\ PartPieces(o) \subseteq SlicePieces(parts[o].id)
         /\ refCnt[parts[o].ref] = Cardinality(PartsOf(parts[o].id))
         /\ \A u \in Places \ {o} : parts[u] # Nil =>
              /\ PartPieces(o) \cap PartPieces(u) = {}
              /\ parts[o].ref = parts[u].ref => parts[o].id = parts[u].id

(* A piece of an active chunk that is not on the disk is in a part, where   *)
(* it will be asked for again, or has yet to be asked for.                  *)
NothingLost ==
    \A c \in Chunks : map[c] = "active" =>
        \A x \in Pieces(c) \ written :
            x \in Unasked(c) \/ \E o \in Places : parts[o] # Nil /\ x \in PartPieces(o)

(* "partial : shrink chunk" (ftfilecreator.cc:462): what a block leaves of  *)
(* a part is less than the part was.                                        *)
BlocksShrinkParts ==
    [][\A o \in Offsets, n \in 1..BlockSize : AddFileData(o, n) =>
         \A v \in Places : parts'[v] # Nil =>
            \E u \in Places : parts[u] # Nil /\ u <= v /\ v + parts'[v].size <= u + parts[u].size]_vars

(* The progress that is counted step by step is what updateTotalDownloaded  *)
(* would compute from the map.                                              *)
TotalExact == total = Recount(map, downloading, remains)

(* A chunk is checked, and then done, only when all of it is on the disk,   *)
(* also after restarts: done chunks are served to others.  The exception is *)
(* a check that was forced, of chunks that were not received.  What is done *)
(* has passed a check, unless it is the only chunk.                         *)
DoneIsThere ==
    \A c \in Chunks :
        /\ map[c] \in {"checking", "done"} /\ c \notin forced => Pieces(c) \subseteq written
        /\ map[c] = "done" /\ NumChunks > 1 => c \in verified

(* The creator keeps the promise of ChunkLife: whatever arrives, in which    *)
(* order and how often, a chunk only moves along its life cycle, one chunk  *)
(* at a time, and isComplete() answers what the states of all chunks say.   *)
Life == INSTANCE ChunkLife
ImplementsChunkLife == Life!LifeSpec

(* "ERROR: file still has pending slices but all chunks are marked as       *)
(* DONE !!" (updateTotalDownloaded).                                        *)
CompleteHasNoSlices == complete => downloading = {}

(* The count of a peer is the number of slices it was asked for ("increase  *)
(* number of chunks for this peer", ftfilecreator.cc:581).                  *)
PerPeerExact ==
    \A p \in Peers :
        perPeer[p] = Cardinality({parts[o].id : o \in {u \in Places : parts[u] # Nil /\ parts[u].peer = p}})
-----------------------------------------------------------------------------
(* getFileData for a local reader, which takes unverified data too: which  *)
(* pieces it returns of the n pieces from o on.                            *)
HasChunkState(o, n, state) ==
    \A c \in Chunks : Start(c) < o + n /\ o < Start(c) + ChunkSize => map[c] = state

GetFileData(o, n) ==
    LET starts == {u \in o .. o + n - 1 : parts[u] # Nil}
        m == IF starts = {} THEN n ELSE Min(starts) - o
        cut == \E u \in 0 .. o - 1 : parts[u] # Nil /\ u + parts[u].size \in o .. o + n - 1
        inFile == \E x \in written : x >= o + m - 1
    IN  IF HasChunkState(o, n, "done") THEN o .. o + n - 1
        ELSE IF ~cut /\ ~HasChunkState(o, m, "outstanding") /\ inFile THEN o .. o + m - 1
        ELSE {}

(* "Returns false in case [...] the requested data was not downloaded yet"  *)
(* (RsFiles::getFileData, rsfiles.h).                                       *)
ReturnsWhatIsThere ==
    \A o \in Offsets : \A n \in 1 .. FileSize - o : GetFileData(o, n) \subseteq written
=============================================================================

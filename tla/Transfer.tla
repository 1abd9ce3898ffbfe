------------------------------ MODULE Transfer ------------------------------
(***************************************************************************)
(* A download from the first request to the completed file: the control    *)
(* of ftTransferModule (ft/fttransfermodule.cc), the checksums and threads *)
(* of ftDataMultiplex (ft/ftdatamultiplex.cc) and the completion of        *)
(* ftController (ft/ftcontroller.cc) over the chunks of ChunkLife.         *)
(*                                                                         *)
(* Four threads meet here.  The controller's thread ticks the transfer and *)
(* completes files; the multiplexer's thread takes data from and computes  *)
(* checksums for other peers; ftServer's thread receives checksums, asks   *)
(* for them and verifies chunks; the hashing thread reads the whole file.  *)
(* The user pauses, cancels and forces checks.                             *)
(*                                                                         *)
(* What is on the disk for a chunk, and what a checksum is the checksum    *)
(* of, is the right content ("good"), the content that corrupt sources     *)
(* have ("bad"), or anything else ("junk").                                *)
(***************************************************************************)
EXTENDS ChunkLife, Naturals, Sequences, SequencesExt, FiniteSetsExt

CONSTANTS
    Sources,     \* numbers, because std::map orders the sources
    Corrupt,     \* sources that have another content in some chunks, and its checksums
    Mute,        \* sources that never answer a checksum request
    Disturbed,   \* what may meet a file that is being hashed or completed,
                 \* "late" data or a "force"d check, or verified: it cannot be "open"ed
    MaxFaults,   \* bound on transient faults, forced checks, lost files, restarts
    Nil

ASSUME TransferAssumption ==
    /\ Sources \subseteq Nat /\ IsFiniteSet(Sources)
    /\ Corrupt \subseteq Sources /\ Mute \subseteq Sources
    /\ Disturbed \subseteq {"late", "force", "open"}
    /\ MaxFaults \in Nat
    /\ Nil \notin Seq(Sources)
    /\ Nil \notin [read : SUBSET Chunks, right : BOOLEAN, over : BOOLEAN]

VARIABLES
    disk,      \* the content of each chunk of the partial file
    toAsk,     \* Sha1CacheEntry::_to_ask: the sources asked, the last one last
    crc,       \* Sha1CacheEntry::_map, "none" if not set
    received,  \* Sha1CacheEntry::_received
    stat,      \* mFileStatus.stat
    flag,      \* mFlag
    hashing,   \* _hash_thread: how far it is, and whether all it read was right
    mux,       \* what the multiplexer's thread is doing
    done,      \* the file is in ftController::mDone
    phase,     \* mState, and whether the file is in mDownloads
    faults

vars == <<lifeVars, disk, toAsk, crc, received, stat, flag, hashing, mux, done,
          phase, faults>>

Contents == {"good", "bad", "junk"}
Idle == [job |-> "idle"]

\* The module, the creator and the entry in mClients exist.
Alive == phase \in {"running", "paused"}

TypeOK ==
    /\ LifeTypeOK
    /\ disk \in [Chunks -> Contents]
    /\ toAsk \in [Chunks -> SeqOf(Sources, Cardinality(Sources)) \cup {Nil}]
    /\ crc \in [Chunks -> Contents \cup {"none"}]
    /\ received \subseteq Chunks
    /\ stat \in {"init", "downloading", "checking"}
    /\ flag \in {"downloading", "checking", "complete"}
    /\ hashing \in [read : SUBSET Chunks, right : BOOLEAN, over : BOOLEAN] \cup {Nil}
    /\ mux \in {Idle, [job |-> "data"]}
               \cup [job : {"crc"}, of : Chunks, content : Contents \cup {"none"}]
    /\ done \in BOOLEAN
    /\ phase \in {"running", "paused", "completed", "failed", "cancelled"}
    /\ faults \in 0..MaxFaults

Init ==
    /\ LifeInit
    /\ disk = [c \in Chunks |-> "junk"]
    /\ toAsk = [c \in Chunks |-> Nil]
    /\ crc = [c \in Chunks |-> "none"]
    /\ received = {}
    /\ stat = "init" /\ flag = "downloading"
    /\ hashing = Nil /\ mux = Idle
    /\ done = FALSE /\ phase = "running"
    /\ faults = 0

Fault == faults < MaxFaults /\ faults' = faults + 1

cacheVars == <<toAsk, crc, received>>
moduleVars == <<stat, flag, hashing>>
-----------------------------------------------------------------------------
(* The controller's thread.                                                *)

\* ftTransferModule::forceCheck.  A hashing thread is not touched.
ForceCheck ==
    /\ CheckAgain
    /\ flag' = "downloading"
    /\ stat' = "downloading"

\* sendSingleChunkCRCRequests for all chunks in the queue.
SendSingleChunkCRCRequests ==
    toAsk' = [c \in Chunks |-> IF c \in toCheck /\ toAsk[c] = Nil THEN <<>> ELSE toAsk[c]]

(* A tick of a file that is not complete: the sources are asked for more,   *)
(* and the chunks that wait for a check get into the list of requests.      *)
TickDownloading(C) ==
    /\ phase = "running" /\ stat \in {"init", "downloading"} /\ ~complete
    /\ stat' = "downloading"
    /\ C \subseteq ChunksIn("outstanding")
    /\ Become(C, "active")
    /\ SendSingleChunkCRCRequests
    /\ toCheck' = {}
    /\ UNCHANGED <<saved, disk, crc, received, flag, hashing, mux, done, phase, faults>>

\* Mutant: a wrong hash is not noticed.
CheckFileTrusting ==
    \/ /\ hashing = Nil
       /\ hashing' = [read |-> {}, right |-> TRUE, over |-> FALSE]
       /\ flag' = "checking" /\ stat' = "checking"
       /\ UNCHANGED lifeVars
    \/ /\ hashing # Nil /\ hashing.over
       /\ hashing' = Nil
       /\ flag' = "complete" /\ stat' = "checking"
       /\ UNCHANGED lifeVars

(* checkFile starts the thread, waits for it, and compares the hash: the    *)
(* file is complete or all its chunks are checked again.                    *)
CheckFile ==
    \/ /\ hashing = Nil
       /\ hashing' = [read |-> {}, right |-> TRUE, over |-> FALSE]
       /\ flag' = "checking" /\ stat' = "checking"
       /\ UNCHANGED lifeVars
    \/ /\ hashing # Nil /\ ~hashing.over
       /\ flag' = "checking" /\ stat' = "checking"
       /\ UNCHANGED <<lifeVars, hashing>>
    \/ /\ hashing # Nil /\ hashing.over /\ hashing.right
       /\ hashing' = Nil
       /\ flag' = "complete" /\ stat' = "checking"
       /\ UNCHANGED lifeVars
    \/ /\ hashing # Nil /\ hashing.over /\ ~hashing.right
       /\ hashing' = Nil
       /\ ForceCheck

\* A tick of a file whose chunks are all done, or that is being hashed.
TickChecking ==
    /\ phase = "running"
    /\ \/ stat \in {"init", "downloading"} /\ complete
       \/ stat = "checking" /\ flag = "checking"
    /\ CheckFile
    /\ UNCHANGED <<cacheVars, disk, mux, done, phase, faults>>

\* A tick of a file with the right hash: FlagFileComplete.
TickComplete ==
    /\ phase = "running" /\ flag = "complete"
    /\ done' = TRUE
    /\ UNCHANGED <<lifeVars, cacheVars, moduleVars, disk, mux, phase, faults>>

(* removeTransferModule, and the module and the creator are deleted: their  *)
(* fields no longer mean anything.  ~ftTransferModule leaves the hashing    *)
(* thread alone.                                                            *)
DeleteModule ==
    /\ map' = [c \in Chunks |-> "outstanding"]
    /\ toCheck' = {} /\ complete' = FALSE /\ saved' = {}
    /\ stat' = "init" /\ flag' = "downloading"

(* completeFile, with ctrlMutex released since the tick.  Moving the file   *)
(* may fail.                                                                *)
CompleteFile ==
    /\ done
    /\ done' = FALSE
    /\ \/ /\ Alive /\ complete
          /\ phase' \in {"completed", "failed"}
          /\ DeleteModule
       \/ /\ ~(Alive /\ complete)
          /\ UNCHANGED <<lifeVars, stat, flag, phase>>
    /\ UNCHANGED <<cacheVars, hashing, disk, mux, faults>>

\* ftFileCreator::removeInactiveChunks, for one chunk.
RemoveInactiveChunks(c) ==
    /\ Alive /\ Fault
    /\ GiveUp(c)
    /\ UNCHANGED <<cacheVars, moduleVars, disk, mux, done, phase>>
-----------------------------------------------------------------------------
(* The hashing thread, which takes no mutex.                               *)

(* It reads the chunks of the file, in any order; nothing at all if the     *)
(* file is not finished when it starts.  The creator it reads through may   *)
(* have been deleted, which nothing prevents.                               *)
HashReceivedData(c) ==
    /\ hashing # Nil /\ ~hashing.over /\ c \notin hashing.read
    /\ LET start == hashing.read = {} IN
       hashing' =
         IF start /\ ~complete THEN [read |-> {}, right |-> FALSE, over |-> TRUE]
         ELSE [read |-> hashing.read \cup {c},
               right |-> hashing.right /\ disk[c] = "good",
               over |-> hashing.read \cup {c} = Chunks]
    /\ UNCHANGED <<lifeVars, cacheVars, stat, flag, disk, mux, done, phase, faults>>
-----------------------------------------------------------------------------
(* The multiplexer's thread, which does one thing at a time.               *)

\* handleRecvData looks up the module and releases its mutex.
HandleRecvData ==
    /\ mux = Idle /\ Alive
    /\ mux' = [job |-> "data"]
    /\ UNCHANGED <<lifeVars, cacheVars, moduleVars, disk, done, phase, faults>>

(* recvFileData with the last piece of an active chunk, or with a piece     *)
(* that nobody waits for; it is written in any case.  The chunk is then     *)
(* right, as a corrupt source has it, or, by a transient fault, neither.    *)
RecvFileData(c, v) ==
    /\ mux.job = "data" /\ Alive
    /\ v = "bad" => Corrupt # {}
    /\ IF v = "junk" THEN Fault ELSE UNCHANGED faults
    /\ mux' = Idle
    /\ \/ /\ map[c] = "active"
          /\ Receive(c)
          /\ disk' = [disk EXCEPT ![c] = v]
       \/ /\ map[c] # "active" /\ (~complete \/ "late" \in Disturbed)
          /\ \E w \in {disk[c], v, "junk"} :
               /\ disk[c] = v => w = v
               /\ disk' = [disk EXCEPT ![c] = w]
          /\ UNCHANGED lifeVars
    /\ UNCHANGED <<cacheVars, moduleVars, done, phase>>

\* The data is of another file, or not from a source, or the module is gone.
IgnoreFileData ==
    /\ mux.job = "data"
    /\ mux' = Idle
    /\ UNCHANGED <<lifeVars, cacheVars, moduleVars, disk, done, phase, faults>>

(* handleRecvChunkCrcRequest, for a peer that asks for a checksum that is   *)
(* not in the cache: handleSearchRequest makes the creator the server.      *)
HandleRecvChunkCrcRequest(c) ==
    /\ mux = Idle /\ Alive /\ crc[c] = "none"
    /\ mux' = [job |-> "crc", of |-> c, content |-> "none"]
    /\ UNCHANGED <<lifeVars, cacheVars, moduleVars, disk, done, phase, faults>>

\* It reads the chunk from the file,
ReadChunk(c) ==
    /\ mux = [job |-> "crc", of |-> c, content |-> "none"]
    /\ IF Alive THEN mux' = [mux EXCEPT !.content = disk[c]] ELSE mux' = Idle
    /\ UNCHANGED <<lifeVars, cacheVars, moduleVars, disk, done, phase, faults>>

\* and updates the cache.
UpdateCache(c) ==
    /\ mux \in [job : {"crc"}, of : {c}, content : Contents]
    /\ crc' = [crc EXCEPT ![c] = mux.content]
    /\ mux' = Idle
    /\ UNCHANGED <<lifeVars, toAsk, received, moduleVars, disk, done, phase, faults>>
-----------------------------------------------------------------------------
(* The thread of ftServer.                                                 *)

\* Mutant: the source that was asked last is asked again.
AskNextNewest(c) ==
    LET new == Sources \ Range(toAsk[c]) IN
    IF new # {} THEN Append(toAsk[c], Min(new)) ELSE toAsk[c]

\* Mutant: a source that is asked again is in the list twice.
AskNextTwice(c) ==
    LET new == Sources \ Range(toAsk[c]) IN
    Append(toAsk[c], IF new # {} THEN Min(new) ELSE Head(toAsk[c]))

\* The first source not yet asked, or else the one asked longest ago, is asked now.
AskNext(c) ==
    LET new == Sources \ Range(toAsk[c]) IN
    IF new # {} THEN Append(toAsk[c], Min(new))
    ELSE Append(Tail(toAsk[c]), Head(toAsk[c]))

(* handlePendingCrcRequests asks for c, for the first time or because no    *)
(* answer came within MAX_CHECKING_CHUNK_WAIT_DELAY.                        *)
HandlePendingCrcRequests(c) ==
    /\ Alive /\ toAsk[c] # Nil /\ Sources # {}
    /\ toAsk' = [toAsk EXCEPT ![c] = AskNext(c)]
    /\ UNCHANGED <<lifeVars, crc, received, moduleVars, disk, mux, done, phase, faults>>

ChecksumsOf(p) == IF p \in Corrupt THEN {"good", "bad"} ELSE {"good"}

\* Mutant: the checksum is stored but not put on the list of those to verify.
RecvSingleChunkCRCSilent(c, p) ==
    /\ Alive /\ p \notin Mute
    /\ toAsk[c] # Nil /\ p \in Range(toAsk[c])
    /\ toAsk' = [toAsk EXCEPT ![c] = Nil]
    /\ \E v \in ChecksumsOf(p) : crc' = [crc EXCEPT ![c] = v]
    /\ UNCHANGED <<lifeVars, received, moduleVars, disk, mux, done, phase, faults>>

(* recvSingleChunkCRC.  The sender need not have been asked: it may be late *)
(* or have been asked twice.                                                *)
RecvSingleChunkCRC(c, p) ==
    /\ Alive /\ p \notin Mute
    /\ toAsk' = [toAsk EXCEPT ![c] = Nil]
    /\ \E v \in ChecksumsOf(p) : crc' = [crc EXCEPT ![c] = v]
    /\ received' = received \cup {c}
    /\ UNCHANGED <<lifeVars, moduleVars, disk, mux, done, phase, faults>>

(* dispatchReceivedChunkCheckSum: verifyChunk reads the chunk and compares  *)
(* it with what the cache holds by now.  Two junk contents may differ.  If  *)
(* it cannot open the file, nothing is done with the checksum.              *)
DispatchReceivedChunkCheckSum(c) ==
    /\ Alive /\ c \in received
    /\ received' = received \ {c}
    /\ \/ /\ map[c] = "checking"
          /\ \/ crc[c] = disk[c] /\ Checked(c, TRUE)
             \/ (crc[c] # disk[c] \/ disk[c] = "junk") /\ Checked(c, FALSE)
       \/ /\ map[c] # "checking" \/ "open" \in Disturbed
          /\ UNCHANGED lifeVars
    /\ UNCHANGED <<toAsk, crc, moduleVars, disk, mux, done, phase, faults>>

\* dispatchReceivedChunkCheckSum drops the checksums of a file that is no client.
DropChunkCheckSums ==
    /\ ~Alive
    /\ \E c \in Chunks : toAsk[c] # Nil \/ crc[c] # "none" \/ c \in received
    /\ toAsk' = [c \in Chunks |-> Nil]
    /\ crc' = [c \in Chunks |-> "none"]
    /\ received' = {}
    /\ UNCHANGED <<lifeVars, moduleVars, disk, mux, done, phase, faults>>
-----------------------------------------------------------------------------
(* The user, and the end of the process.                                   *)

\* FileControl(RS_FILE_CTRL_PAUSE), and back.  checkDownloadQueue does the same.
FileControlPause ==
    /\ phase = "running"
    /\ Fault
    /\ phase' = "paused"
    /\ UNCHANGED <<lifeVars, cacheVars, moduleVars, disk, mux, done>>

FileControlStart ==
    /\ phase = "paused"
    /\ phase' = "running"
    /\ UNCHANGED <<lifeVars, cacheVars, moduleVars, disk, mux, done, faults>>

(* FileControl(RS_FILE_CTRL_FORCE_CHECK), here only with no chunk being     *)
(* downloaded (see module FileCreator).                                     *)
FileControlForceCheck ==
    /\ Alive /\ ChunksIn("active") = {}
    /\ hashing # Nil \/ done => "force" \in Disturbed
    /\ Fault
    /\ ForceCheck
    /\ UNCHANGED <<cacheVars, hashing, disk, mux, done, phase>>

\* FileCancel.
FileCancel ==
    /\ Alive /\ ~complete
    /\ phase' = "cancelled"
    /\ DeleteModule
    /\ disk' = [c \in Chunks |-> "junk"]
    /\ UNCHANGED <<cacheVars, hashing, mux, done, faults>>

SaveList ==
    /\ Alive
    /\ Save
    /\ UNCHANGED <<cacheVars, moduleVars, disk, mux, done, phase, faults>>

\* The process ends and starts again with what was saved last.
Restart ==
    /\ Alive /\ Fault
    /\ Reload
    /\ toAsk' = [c \in Chunks |-> Nil]
    /\ crc' = [c \in Chunks |-> "none"]
    /\ received' = {}
    /\ stat' = "init" /\ flag' = "downloading"
    /\ hashing' = Nil /\ mux' = Idle /\ done' = FALSE
    /\ UNCHANGED <<disk, phase>>

Next ==
    \/ \E C \in SUBSET Chunks : TickDownloading(C)
    \/ TickChecking
    \/ TickComplete
    \/ CompleteFile
    \/ \E c \in Chunks : RemoveInactiveChunks(c)
    \/ \E c \in Chunks : HashReceivedData(c)
    \/ HandleRecvData
    \/ \E c \in Chunks, v \in Contents : RecvFileData(c, v)
    \/ IgnoreFileData
    \/ \E c \in Chunks : HandleRecvChunkCrcRequest(c)
    \/ \E c \in Chunks : ReadChunk(c)
    \/ \E c \in Chunks : UpdateCache(c)
    \/ \E c \in Chunks : HandlePendingCrcRequests(c)
    \/ \E c \in Chunks, p \in Sources : RecvSingleChunkCRC(c, p)
    \/ \E c \in Chunks : DispatchReceivedChunkCheckSum(c)
    \/ DropChunkCheckSums
    \/ FileControlPause
    \/ FileControlStart
    \/ FileControlForceCheck
    \/ FileCancel
    \/ SaveList
    \/ Restart

Spec == Init /\ [][Next]_vars

LastAsked(c, p) == toAsk[c] \notin {Nil, <<>>} /\ Last(toAsk[c]) = p

(* Fairness: the threads keep running; sources deliver the chunks they are  *)
(* asked for; and a source that is not mute, and asked again and again for  *)
(* a checksum, answers at some time before another one is asked.            *)
Fairness ==
    /\ WF_vars(\E C \in SUBSET Chunks : C = ChunksIn("outstanding") /\ TickDownloading(C))
    /\ WF_vars(TickChecking)
    /\ WF_vars(TickComplete)
    /\ WF_vars(CompleteFile)
    /\ WF_vars(\E c \in Chunks : HashReceivedData(c))
    /\ \A c \in Chunks :
         /\ WF_vars(HandleRecvData /\ map[c] = "active")
         /\ SF_vars(map[c] = "active" /\ \E v \in Contents : RecvFileData(c, v))
         /\ WF_vars(ReadChunk(c) \/ UpdateCache(c))
         /\ WF_vars(HandlePendingCrcRequests(c))
         /\ WF_vars(DispatchReceivedChunkCheckSum(c))
         /\ \A p \in Sources : SF_vars(LastAsked(c, p) /\ RecvSingleChunkCRC(c, p))

FairSpec == Spec /\ Fairness
-----------------------------------------------------------------------------
(* Properties.                                                             *)

(* A file is handed to the user as completed only with the right content,   *)
(* even if sources are corrupt, checksums are forged by the node itself     *)
(* (UpdateCache), chunks are given up and the process restarts.             *)
CompletedIsRight ==
    /\ phase \in {"completed", "failed"} => \A c \in Chunks : disk[c] = "good"
    /\ flag = "complete" => complete

(* A chunk that waits for a check is on its way to one: nobody else would   *)
(* ever ask for its checksum again.                                         *)
NoChunkForgotten ==
    Alive => \A c \in ChunksIn("checking") :
                c \in toCheck \/ toAsk[c] # Nil \/ c \in received

(* A download that is not paused ends, if the sources have the right        *)
(* content and one of them answers: transient faults are repaired.          *)
EveryDownloadEnds == phase = "running" ~> phase # "running"
=============================================================================

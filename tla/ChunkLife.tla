----------------------------- MODULE ChunkLife -----------------------------
(***************************************************************************)
(* What ftFileCreator promises about the chunks of a download, without the *)
(* slices, parts and counters by which it keeps the promise: a chunk is    *)
(* taken up, given up or received, checked, and done only after a check.   *)
(* Module FileCreator implements this specification; module Transfer adds  *)
(* to it what ftTransferModule and ftDataMultiplex do with the chunks.     *)
(***************************************************************************)
CONSTANT Chunks

VARIABLES
    map,       \* ChunkMap::_map
    toCheck,   \* ChunkMap::_chunks_checking_queue
    complete,  \* ChunkMap::_file_is_complete
    saved      \* the chunks the saved transfer list calls done

lifeVars == <<map, toCheck, complete, saved>>

States == {"outstanding", "active", "checking", "done"}

LifeTypeOK ==
    /\ map \in [Chunks -> States]
    /\ toCheck \subseteq Chunks
    /\ complete \in BOOLEAN
    /\ saved \subseteq Chunks

LifeInit ==
    /\ map = [c \in Chunks |-> "outstanding"]
    /\ toCheck = {}
    /\ complete = FALSE
    /\ saved = {}

ChunksIn(state) == {c \in Chunks : map[c] = state}

Become(C, state) ==
    /\ map' = [c \in Chunks |-> IF c \in C THEN state ELSE map[c]]
    /\ complete' = \A c \in Chunks : map'[c] = "done"
-----------------------------------------------------------------------------
\* Requests for slices of the chunks in C are sent.
TakeUp(C) ==
    /\ C \subseteq ChunksIn("outstanding")
    /\ Become(C, "active")
    /\ UNCHANGED <<toCheck, saved>>

\* No data of chunk c for an hour.
GiveUp(c) ==
    /\ map[c] = "active"
    /\ Become({c}, "outstanding")
    /\ UNCHANGED <<toCheck, saved>>

\* The last piece of c arrives.  The only chunk of a file is not checked by itself.
Receive(c) ==
    /\ map[c] = "active"
    /\ \/ /\ Chunks # {c}
          /\ Become({c}, "checking")
          /\ toCheck' = toCheck \cup {c}
       \/ /\ Chunks = {c}
          /\ Become({c}, "done")
          /\ UNCHANGED toCheck
    /\ UNCHANGED saved

\* Checksums will be asked for the chunks in the queue.
FetchToCheck ==
    /\ toCheck' = {}
    /\ UNCHANGED <<map, complete, saved>>

\* A checksum is compared with chunk c, if it is waiting for one.
Checked(c, succeeded) ==
    /\ map[c] = "checking"
    /\ Become({c}, IF succeeded THEN "done" ELSE "outstanding")
    /\ UNCHANGED <<toCheck, saved>>

\* All chunks are to be checked again.
CheckAgain ==
    /\ Become(Chunks, "checking")
    /\ toCheck' = Chunks
    /\ UNCHANGED saved

Save ==
    /\ saved' = ChunksIn("done")
    /\ UNCHANGED <<map, toCheck, complete>>

Reload ==
    /\ map' = [c \in Chunks |-> IF c \in saved THEN "done" ELSE "outstanding"]
    /\ complete' = (saved = Chunks)
    /\ toCheck' = {}
    /\ UNCHANGED saved

LifeNext ==
    \/ \E c \in Chunks : TakeUp({c}) \/ GiveUp(c) \/ Receive(c)
    \/ FetchToCheck
    \/ \E c \in Chunks, succeeded \in BOOLEAN : Checked(c, succeeded)
    \/ CheckAgain
    \/ Save
    \/ Reload

LifeSpec == LifeInit /\ [][LifeNext]_lifeVars
=============================================================================

--------------------------- MODULE TransferProofs ---------------------------
(***************************************************************************)
(* A completed file is right, and no chunk is left waiting for a checksum, *)
(* for every set of chunks and of sources, corrupt or mute.                *)
(***************************************************************************)
EXTENDS Transfer, NumberFacts

-----------------------------------------------------------------------------
(* Inductive invariants.                                                   *)

\* A source is in the list of those asked for a chunk at most once.
AskedOnce ==
    \A c \in Chunks : toAsk[c] # Nil =>
        \A i, j \in DOMAIN toAsk[c] : toAsk[c][i] = toAsk[c][j] => i = j

TypesOK == TypeOK /\ AskedOnce

\* The file is complete only when all its chunks are done.
CompleteIsDone == complete => \A c \in Chunks : map[c] = "done"

(* While the hashing thread runs, the file is complete, and what the thread *)
(* has found right is right.                                                *)
HashingIsRight ==
    hashing # Nil =>
        /\ Alive /\ complete
        /\ stat = "checking" /\ flag = "checking"
        /\ hashing.right => \A c \in hashing.read : disk[c] = "good"
        /\ hashing.over /\ hashing.right => hashing.read = Chunks

(* The flags of the transfer module: a file that is flagged as complete is  *)
(* right, and only such a file is in mDone.                                 *)
FlagsAreRight ==
    /\ flag = "checking" => hashing # Nil
    /\ flag = "complete" =>
         /\ Alive /\ complete /\ stat = "checking"
         /\ \A c \in Chunks : disk[c] = "good"
    /\ done => flag = "complete"
-----------------------------------------------------------------------------
(* Facts about the list of the sources asked.                              *)

\* A list without duplicates is no longer than there are sources.
LEMMA ShortList ==
    ASSUME NEW s \in Seq(Sources),
           \A i, j \in DOMAIN s : s[i] = s[j] => i = j
    PROVE  s \in SeqOf(Sources, Cardinality(Sources))
<1> USE TransferAssumption
<1>1. s \in [1..Len(s) -> Sources] /\ Len(s) \in Nat /\ DOMAIN s = 1..Len(s)
  OBVIOUS
<1>2. IsFiniteSet(1..Len(s)) /\ Cardinality(1..Len(s)) = Len(s)
  <2> DEFINE n == Len(s)
  <2>1. n \in Nat
    BY <1>1
  <2> HIDE DEF n
  <2>2. IsFiniteSet(1..n) /\ Cardinality(1..n) = n
    BY <2>1, FS_Interval
  <2>3. QED
    BY <2>2 DEF n
<1>3. s \in Injection(1..Len(s), Sources)
  BY <1>1 DEF Injection, IsInjective
<1>4. Len(s) <= Cardinality(Sources)
  BY <1>2, <1>3, FS_Injection
<1>5. Cardinality(Sources) \in Nat
  BY FS_CardinalityType
<1>6. QED
  BY <1>1, <1>4, <1>5 DEF SeqOf

(* The source that is asked next goes to the end of the list, which stays   *)
(* a list of sources without duplicates.                                    *)
LEMMA AskNextKeepsList ==
    ASSUME NEW c \in Chunks, Sources # {}, toAsk[c] \in Seq(Sources),
           \A i, j \in DOMAIN toAsk[c] : toAsk[c][i] = toAsk[c][j] => i = j
    PROVE  /\ AskNext(c) \in Seq(Sources)
           /\ \A i, j \in DOMAIN AskNext(c) : AskNext(c)[i] = AskNext(c)[j] => i = j
<1> USE TransferAssumption
<1> DEFINE s == toAsk[c]
           new == Sources \ Range(s)
<1>1. CASE new # {}
  <2>1. Min(new) \in new
    BY <1>1, MinIsLeast
  <2>2. AskNext(c) = Append(s, Min(new))
    BY <1>1 DEF AskNext
  <2>3. \A i \in DOMAIN s : s[i] # Min(new)
    BY <2>1 DEF Range
  <2> DEFINE m == Min(new)
  <2>4. m \in Sources /\ AskNext(c) = Append(s, m) /\ \A i \in DOMAIN s : s[i] # m
    BY <2>1, <2>2, <2>3
  <2> HIDE DEF m
  <2>5. QED
    BY <2>4
<1>2. CASE new = {}
  <2>1. AskNext(c) = Append(Tail(s), Head(s))
    BY <1>2 DEF AskNext
  <2>2. s # <<>>
    BY <1>2 DEF Range
  <2>3. Tail(s) \in Seq(Sources) /\ Head(s) \in Sources /\ Len(Tail(s)) = Len(s) - 1
    BY <2>2
  <2>4. \A i \in 1..Len(s) : AskNext(c)[i] = IF i = Len(s) THEN s[1] ELSE s[i + 1]
    BY <2>1, <2>2, <2>3
  <2>5. AskNext(c) \in Seq(Sources) /\ DOMAIN AskNext(c) = 1..Len(s)
    BY <2>1, <2>2, <2>3
  <2>6. QED
    BY <2>2, <2>4, <2>5
<1>3. QED
  BY <1>1, <1>2

-----------------------------------------------------------------------------
(* Types.                                                                  *)

\* The lists of sources of a state that is well typed.
LEMMA ListsAreSequences ==
    ASSUME TypeOK, NEW c \in Chunks, toAsk[c] # Nil
    PROVE  toAsk[c] \in Seq(Sources)
<1>1. toAsk[c] \in SeqOf(Sources, Cardinality(Sources))
  BY DEF TypeOK
<1>2. PICK n \in 0..Cardinality(Sources) : toAsk[c] \in [1..n -> Sources]
  BY <1>1 DEF SeqOf
<1>3. Cardinality(Sources) \in Nat
  BY FS_CardinalityType, TransferAssumption
<1>4. n \in Nat
  BY <1>2, <1>3
<1>5. QED
  BY <1>2, <1>4

\* An empty list of requests is one.
LEMMA EmptyList == <<>> \in SeqOf(Sources, Cardinality(Sources))
<1>1. <<>> \in Seq(Sources) /\ \A i, j \in DOMAIN <<>> : <<>>[i] = <<>>[j] => i = j
  OBVIOUS
<1>2. QED
  BY <1>1, ShortList

\* Become keeps the types of the chunk map.
LEMMA BecomeTypes ==
    ASSUME LifeTypeOK, NEW C, NEW state \in States, Become(C, state)
    PROVE  map' \in [Chunks -> States] /\ complete' \in BOOLEAN
<1>1. map' \in [Chunks -> States]
  BY DEF LifeTypeOK, Become
<1>2. complete' \in BOOLEAN
  BY Zenon DEF Become
<1>3. QED
  BY <1>1, <1>2

\* Every operation on the chunks keeps the types of the chunk map.
LEMMA LifeTypes == LifeTypeOK /\ LifeNext => LifeTypeOK'
<1> SUFFICES ASSUME LifeTypeOK, LifeNext PROVE LifeTypeOK'
  OBVIOUS
<1> USE DEF LifeTypeOK
<1>1. ASSUME NEW c \in Chunks, TakeUp({c}) \/ GiveUp(c) \/ Receive(c)
      PROVE  LifeTypeOK'
  BY <1>1, BecomeTypes DEF TakeUp, GiveUp, Receive, States
<1>2. ASSUME NEW c \in Chunks, NEW succeeded \in BOOLEAN, Checked(c, succeeded)
      PROVE  LifeTypeOK'
  BY <1>2, BecomeTypes DEF Checked, States
<1>3. CASE CheckAgain
  BY <1>3, BecomeTypes DEF CheckAgain, States
<1>4. CASE FetchToCheck \/ Save
  BY <1>4 DEF FetchToCheck, Save, ChunksIn
<1>5. CASE Reload
  <2>1. complete' \in BOOLEAN
    BY <1>5, Zenon DEF Reload
  <2>2. QED
    BY <1>5, <2>1 DEF Reload, States
<1>6. QED
  BY <1>1, <1>2, <1>3, <1>4, <1>5 DEF LifeNext

\* The initial state is well typed.
LEMMA InitTypes == Init => TypesOK
<1> SUFFICES ASSUME Init PROVE TypesOK
  OBVIOUS
<1>1. TypeOK
  <2>1. LifeTypeOK
    BY DEF Init, LifeInit, LifeTypeOK, States
  <2>2. done \in BOOLEAN
    BY DEF Init
  <2>3. faults \in 0..MaxFaults
    BY TransferAssumption DEF Init
  <2>4. QED
    BY <2>1, <2>2, <2>3 DEF Init, TypeOK, Contents, Idle
<1>2. AskedOnce
  BY DEF Init, AskedOnce
<1>3. QED
  BY <1>1, <1>2 DEF TypesOK

\* No step of a thread, of the user or of the network breaks a type.
LEMMA NextTypes == TypesOK /\ [Next]_vars => TypesOK'
<1> SUFFICES ASSUME TypesOK, [Next]_vars PROVE TypesOK'
  OBVIOUS
<1> USE TransferAssumption DEF TypesOK, TypeOK, LifeTypeOK
<1> USE DEF cacheVars, moduleVars, lifeVars
<1>1. ASSUME NEW C \in SUBSET Chunks, TickDownloading(C)
      PROVE  TypesOK'
  <2>1. toAsk' \in [Chunks -> SeqOf(Sources, Cardinality(Sources)) \cup {Nil}]
    BY <1>1, EmptyList DEF TickDownloading, SendSingleChunkCRCRequests
  <2>2. TypeOK'
    BY <1>1, <2>1 DEF TickDownloading, Become, States
  <2>3. AskedOnce'
    BY <1>1 DEF TickDownloading, SendSingleChunkCRCRequests, AskedOnce
  <2>4. QED
    BY <2>2, <2>3
<1>2. CASE TickChecking
  <2>1. TypeOK'
    <3>1. LifeTypeOK'
      <4>1. CASE UNCHANGED lifeVars
        BY <4>1
      <4>2. CASE CheckAgain
        BY <4>2, LifeTypes DEF LifeNext
      <4>3. QED
        BY <1>2, <4>1, <4>2 DEF TickChecking, CheckFile, ForceCheck
    <3>2. hashing' \in [read : SUBSET Chunks, right : BOOLEAN, over : BOOLEAN] \cup {Nil}
      <4>1. [read |-> {}, right |-> TRUE, over |-> FALSE]
              \in [read : SUBSET Chunks, right : BOOLEAN, over : BOOLEAN]
        OBVIOUS
      <4>2. hashing' \in {hashing, Nil, [read |-> {}, right |-> TRUE, over |-> FALSE]}
        BY <1>2 DEF TickChecking, CheckFile
      <4>3. QED
        BY <4>1, <4>2
    <3>3. QED
      BY <1>2, <3>1, <3>2 DEF TickChecking, CheckFile, ForceCheck
  <2>2. AskedOnce'
    BY <1>2 DEF TickChecking, AskedOnce
  <2>3. QED
    BY <2>1, <2>2
<1>3. CASE TickComplete
  <2>1. TypeOK'
    BY <1>3 DEF TickComplete
  <2>2. AskedOnce'
    BY <1>3 DEF TickComplete, AskedOnce
  <2>3. QED
    BY <2>1, <2>2
<1>4. CASE CompleteFile
  <2>1. TypeOK'
    <3>1. LifeTypeOK'
      <4>1. CASE UNCHANGED lifeVars
        BY <4>1
      <4>2. CASE DeleteModule
        BY <4>2 DEF DeleteModule, States
      <4>3. QED
        BY <1>4, <4>1, <4>2 DEF CompleteFile
    <3>2. done' \in BOOLEAN
      BY <1>4 DEF CompleteFile
    <3>3. QED
      BY <1>4, <3>1, <3>2 DEF CompleteFile, DeleteModule
  <2>2. AskedOnce'
    BY <1>4 DEF CompleteFile, AskedOnce
  <2>3. QED
    BY <2>1, <2>2
<1>5. ASSUME NEW c \in Chunks, RemoveInactiveChunks(c)
      PROVE  TypesOK'
  <2>1. TypeOK'
    BY <1>5 DEF RemoveInactiveChunks, Fault, GiveUp, Become, States
  <2>2. AskedOnce'
    BY <1>5 DEF RemoveInactiveChunks, AskedOnce
  <2>3. QED
    BY <2>1, <2>2
<1>6. ASSUME NEW c \in Chunks, HashReceivedData(c)
      PROVE  TypesOK'
  <2>1. TypeOK'
    BY <1>6 DEF HashReceivedData
  <2>2. AskedOnce'
    BY <1>6 DEF HashReceivedData, AskedOnce
  <2>3. QED
    BY <2>1, <2>2
<1>7. CASE HandleRecvData
  <2>1. TypeOK'
    BY <1>7 DEF HandleRecvData
  <2>2. AskedOnce'
    BY <1>7 DEF HandleRecvData, AskedOnce
  <2>3. QED
    BY <2>1, <2>2
<1>8. ASSUME NEW c \in Chunks, NEW v \in Contents, RecvFileData(c, v)
      PROVE  TypesOK'
  <2>1. TypeOK'
    <3>1. LifeTypeOK'
      <4>1. CASE UNCHANGED lifeVars
        BY <4>1
      <4>2. CASE Receive(c)
        BY <4>2, LifeTypes DEF LifeNext
      <4>3. QED
        BY <1>8, <4>1, <4>2 DEF RecvFileData
    <3>2. disk' \in [Chunks -> Contents] /\ faults' \in 0..MaxFaults
      BY <1>8 DEF RecvFileData, Fault, Contents
    <3>3. QED
      BY <1>8, <3>1, <3>2 DEF RecvFileData
  <2>2. AskedOnce'
    BY <1>8 DEF RecvFileData, AskedOnce
  <2>3. QED
    BY <2>1, <2>2
<1>9. CASE IgnoreFileData
  <2>1. TypeOK'
    BY <1>9 DEF IgnoreFileData
  <2>2. AskedOnce'
    BY <1>9 DEF IgnoreFileData, AskedOnce
  <2>3. QED
    BY <2>1, <2>2
<1>10. ASSUME NEW c \in Chunks, HandleRecvChunkCrcRequest(c)
      PROVE  TypesOK'
  <2>1. TypeOK'
    BY <1>10 DEF HandleRecvChunkCrcRequest
  <2>2. AskedOnce'
    BY <1>10 DEF HandleRecvChunkCrcRequest, AskedOnce
  <2>3. QED
    BY <2>1, <2>2
<1>11. ASSUME NEW c \in Chunks, ReadChunk(c)
      PROVE  TypesOK'
  <2>1. TypeOK'
    BY <1>11 DEF ReadChunk
  <2>2. AskedOnce'
    BY <1>11 DEF ReadChunk, AskedOnce
  <2>3. QED
    BY <2>1, <2>2
<1>12. ASSUME NEW c \in Chunks, UpdateCache(c)
      PROVE  TypesOK'
  <2>1. TypeOK'
    BY <1>12 DEF UpdateCache
  <2>2. AskedOnce'
    BY <1>12 DEF UpdateCache, AskedOnce
  <2>3. QED
    BY <2>1, <2>2
<1>13. ASSUME NEW c \in Chunks, HandlePendingCrcRequests(c)
      PROVE  TypesOK'
  <2>1. toAsk[c] \in Seq(Sources)
    BY <1>13, ListsAreSequences DEF HandlePendingCrcRequests
  <2>2. \A i, j \in DOMAIN toAsk[c] : toAsk[c][i] = toAsk[c][j] => i = j
    BY <1>13 DEF HandlePendingCrcRequests, AskedOnce
  <2>3. /\ AskNext(c) \in Seq(Sources)
        /\ \A i, j \in DOMAIN AskNext(c) : AskNext(c)[i] = AskNext(c)[j] => i = j
    BY <1>13, <2>1, <2>2, AskNextKeepsList DEF HandlePendingCrcRequests
  <2>4. AskNext(c) \in SeqOf(Sources, Cardinality(Sources))
    BY <2>3, ShortList
  <2>5. TypeOK'
    BY <1>13, <2>4 DEF HandlePendingCrcRequests
  <2>6. AskedOnce'
    BY <1>13, <2>3 DEF HandlePendingCrcRequests, AskedOnce
  <2>7. QED
    BY <2>5, <2>6
<1>14. ASSUME NEW c \in Chunks, NEW p \in Sources, RecvSingleChunkCRC(c, p)
      PROVE  TypesOK'
  <2>1. TypeOK'
    BY <1>14 DEF RecvSingleChunkCRC, ChecksumsOf, Contents
  <2>2. AskedOnce'
    BY <1>14 DEF RecvSingleChunkCRC, AskedOnce
  <2>3. QED
    BY <2>1, <2>2
<1>15. ASSUME NEW c \in Chunks, DispatchReceivedChunkCheckSum(c)
      PROVE  TypesOK'
  <2>1. TypeOK'
    <3>1. LifeTypeOK'
      <4>1. CASE UNCHANGED lifeVars
        BY <4>1
      <4>2. CASE Checked(c, TRUE) \/ Checked(c, FALSE)
        BY <4>2, LifeTypes DEF LifeNext
      <4>3. QED
        BY <1>15, <4>1, <4>2 DEF DispatchReceivedChunkCheckSum
    <3>2. QED
      BY <1>15, <3>1 DEF DispatchReceivedChunkCheckSum
  <2>2. AskedOnce'
    BY <1>15 DEF DispatchReceivedChunkCheckSum, AskedOnce
  <2>3. QED
    BY <2>1, <2>2
<1>16. CASE DropChunkCheckSums
  <2>1. TypeOK'
    BY <1>16 DEF DropChunkCheckSums
  <2>2. AskedOnce'
    BY <1>16 DEF DropChunkCheckSums, AskedOnce
  <2>3. QED
    BY <2>1, <2>2
<1>17. CASE FileControlPause
  <2>1. TypeOK'
    BY <1>17 DEF FileControlPause, Fault
  <2>2. AskedOnce'
    BY <1>17 DEF FileControlPause, AskedOnce
  <2>3. QED
    BY <2>1, <2>2
<1>18. CASE FileControlStart
  <2>1. TypeOK'
    BY <1>18 DEF FileControlStart
  <2>2. AskedOnce'
    BY <1>18 DEF FileControlStart, AskedOnce
  <2>3. QED
    BY <2>1, <2>2
<1>19. CASE FileControlForceCheck
  <2>1. TypeOK'
    BY <1>19 DEF FileControlForceCheck, ForceCheck, CheckAgain, Become, Fault, States
  <2>2. AskedOnce'
    BY <1>19 DEF FileControlForceCheck, AskedOnce
  <2>3. QED
    BY <2>1, <2>2
<1>20. CASE FileCancel
  <2>1. TypeOK'
    BY <1>20 DEF FileCancel, DeleteModule, States, Contents
  <2>2. AskedOnce'
    BY <1>20 DEF FileCancel, AskedOnce
  <2>3. QED
    BY <2>1, <2>2
<1>21. CASE SaveList
  <2>1. TypeOK'
    BY <1>21 DEF SaveList, Save, ChunksIn
  <2>2. AskedOnce'
    BY <1>21 DEF SaveList, AskedOnce
  <2>3. QED
    BY <2>1, <2>2
<1>22. CASE Restart
  <2>1. TypeOK'
    <3>1. LifeTypeOK'
      BY <1>22, LifeTypes DEF Restart, LifeNext
    <3>2. done' \in BOOLEAN
      BY <1>22 DEF Restart
    <3>3. QED
      BY <1>22, <3>1, <3>2 DEF Restart, Fault
  <2>2. AskedOnce'
    BY <1>22 DEF Restart, AskedOnce
  <2>3. QED
    BY <2>1, <2>2
<1>23. CASE UNCHANGED vars
  <2>1. TypeOK'
    BY <1>23 DEF vars
  <2>2. AskedOnce'
    BY <1>23 DEF vars, AskedOnce
  <2>3. QED
    BY <2>1, <2>2
<1>24. QED
  BY <1>1, <1>2, <1>3, <1>4, <1>5, <1>6, <1>7, <1>8, <1>9, <1>10, <1>11,
     <1>12, <1>13, <1>14, <1>15, <1>16, <1>17, <1>18, <1>19, <1>20, <1>21,
     <1>22, <1>23 DEF Next

(* The types of Transfer are those of the code's fields in every reachable  *)
(* state; in particular a source is asked again only after all others were. *)
THEOREM TypesAreRight == Spec => []TypeOK
<1>1. TypesOK => TypeOK
  BY DEF TypesOK
<1>2. QED
  BY <1>1, InitTypes, NextTypes, PTL DEF Spec

-----------------------------------------------------------------------------
(* Chunks that wait for a check.                                           *)

(* Unless a chunk that is to be verified cannot be read, every chunk that   *)
(* waits for a check stays in one of the three queues that lead to one.     *)
LEMMA NextForgetsNothing ==
    ASSUME "open" \notin Disturbed, TypesOK, NoChunkForgotten, [Next]_vars
    PROVE  NoChunkForgotten'
<1> USE TransferAssumption
    DEF TypesOK, TypeOK, LifeTypeOK, NoChunkForgotten, ChunksIn, Alive, cacheVars, moduleVars, lifeVars
<1>1. ASSUME NEW C \in SUBSET Chunks, TickDownloading(C)
      PROVE  NoChunkForgotten'
  <2>1. <<>> # Nil
    <3>1. <<>> \in Seq(Sources)
      OBVIOUS
    <3>2. QED
      BY <3>1
  <2>2. QED
    BY <1>1, <2>1 DEF TickDownloading, SendSingleChunkCRCRequests, Become
<1>2. CASE TickChecking
  BY <1>2 DEF TickChecking, CheckFile, ForceCheck, CheckAgain, Become
<1>3. CASE TickComplete
  BY <1>3 DEF TickComplete
<1>4. CASE CompleteFile
  BY <1>4 DEF CompleteFile, DeleteModule
<1>5. ASSUME NEW c \in Chunks, RemoveInactiveChunks(c)
      PROVE  NoChunkForgotten'
  BY <1>5 DEF RemoveInactiveChunks, GiveUp, Become
<1>6. ASSUME NEW c \in Chunks, HashReceivedData(c)
      PROVE  NoChunkForgotten'
  BY <1>6 DEF HashReceivedData
<1>7. CASE HandleRecvData
  BY <1>7 DEF HandleRecvData
<1>8. ASSUME NEW c \in Chunks, NEW v \in Contents, RecvFileData(c, v)
      PROVE  NoChunkForgotten'
  BY <1>8 DEF RecvFileData, Receive, Become
<1>9. CASE IgnoreFileData
  BY <1>9 DEF IgnoreFileData
<1>10. ASSUME NEW c \in Chunks, HandleRecvChunkCrcRequest(c)
      PROVE  NoChunkForgotten'
  BY <1>10 DEF HandleRecvChunkCrcRequest
<1>11. ASSUME NEW c \in Chunks, ReadChunk(c)
      PROVE  NoChunkForgotten'
  BY <1>11 DEF ReadChunk
<1>12. ASSUME NEW c \in Chunks, UpdateCache(c)
      PROVE  NoChunkForgotten'
  BY <1>12 DEF UpdateCache
<1>13. ASSUME NEW c \in Chunks, HandlePendingCrcRequests(c)
      PROVE  NoChunkForgotten'
  <2>1. AskNext(c) \in Seq(Sources)
    BY <1>13, ListsAreSequences, AskNextKeepsList DEF HandlePendingCrcRequests, AskedOnce
  <2>2. QED
    BY <1>13, <2>1 DEF HandlePendingCrcRequests
<1>14. ASSUME NEW c \in Chunks, NEW p \in Sources, RecvSingleChunkCRC(c, p)
      PROVE  NoChunkForgotten'
  BY <1>14 DEF RecvSingleChunkCRC
<1>15. ASSUME NEW c \in Chunks, DispatchReceivedChunkCheckSum(c)
      PROVE  NoChunkForgotten'
  BY <1>15 DEF DispatchReceivedChunkCheckSum, Checked, Become
<1>16. CASE DropChunkCheckSums
  BY <1>16 DEF DropChunkCheckSums
<1>17. CASE FileControlPause
  BY <1>17 DEF FileControlPause
<1>18. CASE FileControlStart
  BY <1>18 DEF FileControlStart
<1>19. CASE FileControlForceCheck
  BY <1>19 DEF FileControlForceCheck, ForceCheck, CheckAgain, Become
<1>20. CASE FileCancel
  BY <1>20 DEF FileCancel, DeleteModule
<1>21. CASE SaveList
  BY <1>21 DEF SaveList, Save
<1>22. CASE Restart
  BY <1>22 DEF Restart, Reload
<1>23. CASE UNCHANGED vars
  BY <1>23 DEF vars
<1>24. QED
  BY <1>1, <1>2, <1>3, <1>4, <1>5, <1>6, <1>7, <1>8, <1>9, <1>10, <1>11,
     <1>12, <1>13, <1>14, <1>15, <1>16, <1>17, <1>18, <1>19, <1>20, <1>21,
     <1>22, <1>23 DEF Next

(* ftDataMultiplex loses no check: as long as a chunk that is to be         *)
(* verified can be read, a chunk in the state "checking" is in              *)
(* _chunks_checking_queue, in _to_ask or in _received, whatever the four    *)
(* threads do in between.                                                   *)
THEOREM NoChunkIsForgotten ==
    ASSUME "open" \notin Disturbed
    PROVE  Spec => []NoChunkForgotten
<1>1. Init => NoChunkForgotten
  BY DEF Init, LifeInit, NoChunkForgotten, ChunksIn
<1>2. TypesOK /\ NoChunkForgotten /\ [Next]_vars => NoChunkForgotten'
  BY NextForgetsNothing
<1>3. QED
  BY <1>1, <1>2, InitTypes, NextTypes, PTL DEF Spec

-----------------------------------------------------------------------------
(* Completed files.                                                        *)

RightOK ==
    /\ TypesOK
    /\ CompleteIsDone
    /\ HashingIsRight
    /\ FlagsAreRight
    /\ CompletedIsRight

\* The initial state satisfies the invariant.
LEMMA InitRight == Init => RightOK
<1> SUFFICES ASSUME Init PROVE RightOK
  OBVIOUS
<1>1. TypesOK
  BY InitTypes
<1>2. CompleteIsDone /\ HashingIsRight /\ FlagsAreRight /\ CompletedIsRight
  BY DEF Init, LifeInit, CompleteIsDone, HashingIsRight, FlagsAreRight, CompletedIsRight
<1>3. QED
  BY <1>1, <1>2 DEF RightOK

(* Unless late data or a forced check meets a file that is being hashed or  *)
(* completed, every step keeps the invariant.                               *)
LEMMA NextRight ==
    ASSUME "late" \notin Disturbed, "force" \notin Disturbed, RightOK, [Next]_vars
    PROVE  RightOK'
<1>0. TypesOK'
  BY NextTypes DEF RightOK
<1> SUFFICES (CompleteIsDone /\ HashingIsRight /\ FlagsAreRight /\ CompletedIsRight)'
  BY <1>0 DEF RightOK
<1> DEFINE Goal == CompleteIsDone /\ HashingIsRight /\ FlagsAreRight /\ CompletedIsRight
<1> USE TransferAssumption
    DEF RightOK, TypesOK, TypeOK, LifeTypeOK, CompleteIsDone, HashingIsRight, FlagsAreRight,
        CompletedIsRight, ChunksIn, Alive, cacheVars, moduleVars, lifeVars
<1>1. ASSUME NEW C \in SUBSET Chunks, TickDownloading(C)
      PROVE  Goal'
  BY <1>1 DEF TickDownloading, Become
<1>2. CASE TickChecking
  <2> USE DEF TickChecking
  <2>1. phase' = phase /\ disk' = disk /\ done' = done /\ phase = "running"
    BY <1>2
  <2>2. ~done /\ flag # "complete"
    BY <1>2
  <2>3. CASE /\ hashing = Nil
             /\ hashing' = [read |-> {}, right |-> TRUE, over |-> FALSE]
             /\ flag' = "checking" /\ stat' = "checking"
             /\ UNCHANGED lifeVars
    <3>1. complete
      BY <1>2, <2>3
    <3>2. hashing' # Nil
      <4>1. [read |-> {}, right |-> TRUE, over |-> FALSE]
              \in [read : SUBSET Chunks, right : BOOLEAN, over : BOOLEAN]
        OBVIOUS
      <4>2. QED
        BY <2>3, <4>1
    <3>3. QED
      BY <2>1, <2>2, <2>3, <3>1, <3>2
  <2>4. CASE /\ hashing # Nil /\ ~hashing.over
             /\ flag' = "checking" /\ stat' = "checking"
             /\ UNCHANGED <<lifeVars, hashing>>
    BY <2>1, <2>2, <2>4
  <2>5. CASE /\ hashing # Nil /\ hashing.over /\ hashing.right
             /\ hashing' = Nil
             /\ flag' = "complete" /\ stat' = "checking"
             /\ UNCHANGED lifeVars
    BY <2>1, <2>2, <2>5
  <2>6. CASE hashing' = Nil /\ ForceCheck
    <3>1. complete' => \A k \in Chunks : map'[k] = "done"
      BY <2>6 DEF ForceCheck, CheckAgain, Become
    <3>2. flag' = "downloading" /\ hashing' = Nil
      BY <2>6 DEF ForceCheck
    <3>3. QED
      BY <2>1, <2>2, <3>1, <3>2
  <2>7. QED
    BY <1>2, <2>3, <2>4, <2>5, <2>6 DEF CheckFile
<1>3. CASE TickComplete
  BY <1>3 DEF TickComplete
<1>4. CASE CompleteFile
  BY <1>4 DEF CompleteFile, DeleteModule
<1>5. ASSUME NEW c \in Chunks, RemoveInactiveChunks(c)
      PROVE  Goal'
  BY <1>5 DEF RemoveInactiveChunks, GiveUp, Become
<1>6. ASSUME NEW c \in Chunks, HashReceivedData(c)
      PROVE  Goal'
  <2> USE DEF HashReceivedData
  <2>1. hashing # Nil /\ complete
    BY <1>6
  <2>2. hashing' = [read |-> hashing.read \cup {c},
                    right |-> hashing.right /\ disk[c] = "good",
                    over |-> hashing.read \cup {c} = Chunks]
    BY <1>6, <2>1
  <2>3. hashing' # Nil
    <3> DEFINE r == hashing.right /\ disk[c] = "good"
               o == hashing.read \cup {c} = Chunks
    <3>1. r \in BOOLEAN /\ o \in BOOLEAN /\ hashing.read \cup {c} \in SUBSET Chunks
      BY <2>1
    <3>2. hashing' = [read |-> hashing.read \cup {c}, right |-> r, over |-> o]
      BY <2>2
    <3> HIDE DEF r, o
    <3>3. QED
      BY <3>1, <3>2
  <2>4. hashing'.right => \A k \in hashing'.read : disk[k] = "good"
    BY <2>1, <2>2
  <2>5. hashing'.over /\ hashing'.right => hashing'.read = Chunks
    BY <2>2
  <2>6. QED
    BY <1>6, <2>1, <2>3, <2>4, <2>5
<1>7. CASE HandleRecvData
  BY <1>7 DEF HandleRecvData
<1>8. ASSUME NEW c \in Chunks, NEW v \in Contents, RecvFileData(c, v)
      PROVE  Goal'
  <2> USE DEF RecvFileData
  <2>1. ~complete /\ hashing = Nil /\ flag = "downloading" /\ ~done /\ Alive
    BY <1>8
  <2>2. complete' => \A k \in Chunks : map'[k] = "done"
    <3>1. CASE Receive(c)
      BY <3>1 DEF Receive, Become
    <3>2. CASE UNCHANGED lifeVars
      BY <3>2, <2>1
    <3>3. QED
      BY <1>8, <3>1, <3>2
  <2>3. QED
    BY <1>8, <2>1, <2>2
<1>9. CASE IgnoreFileData
  BY <1>9 DEF IgnoreFileData
<1>10. ASSUME NEW c \in Chunks, HandleRecvChunkCrcRequest(c)
      PROVE  Goal'
  BY <1>10 DEF HandleRecvChunkCrcRequest
<1>11. ASSUME NEW c \in Chunks, ReadChunk(c)
      PROVE  Goal'
  BY <1>11 DEF ReadChunk
<1>12. ASSUME NEW c \in Chunks, UpdateCache(c)
      PROVE  Goal'
  BY <1>12 DEF UpdateCache
<1>13. ASSUME NEW c \in Chunks, HandlePendingCrcRequests(c)
      PROVE  Goal'
  BY <1>13 DEF HandlePendingCrcRequests
<1>14. ASSUME NEW c \in Chunks, NEW p \in Sources, RecvSingleChunkCRC(c, p)
      PROVE  Goal'
  BY <1>14 DEF RecvSingleChunkCRC
<1>15. ASSUME NEW c \in Chunks, DispatchReceivedChunkCheckSum(c)
      PROVE  Goal'
  <2> USE DEF DispatchReceivedChunkCheckSum
  <2>1. CASE UNCHANGED lifeVars
    BY <1>15, <2>1
  <2>2. CASE Checked(c, TRUE) \/ Checked(c, FALSE)
    <3>1. ~complete /\ hashing = Nil /\ flag = "downloading" /\ ~done
      BY <2>2 DEF Checked
    <3>2. complete' => \A k \in Chunks : map'[k] = "done"
      BY <2>2 DEF Checked, Become
    <3>3. QED
      BY <1>15, <3>1, <3>2
  <2>3. QED
    BY <1>15, <2>1, <2>2
<1>16. CASE DropChunkCheckSums
  BY <1>16 DEF DropChunkCheckSums
<1>17. CASE FileControlPause
  BY <1>17 DEF FileControlPause
<1>18. CASE FileControlStart
  BY <1>18 DEF FileControlStart
<1>19. CASE FileControlForceCheck
  BY <1>19 DEF FileControlForceCheck, ForceCheck, CheckAgain, Become
<1>20. CASE FileCancel
  BY <1>20 DEF FileCancel, DeleteModule
<1>21. CASE SaveList
  BY <1>21 DEF SaveList, Save
<1>22. CASE Restart
  BY <1>22 DEF Restart, Reload
<1>23. CASE UNCHANGED vars
  BY <1>23 DEF vars
<1>24. QED
  BY <1>1, <1>2, <1>3, <1>4, <1>5, <1>6, <1>7, <1>8, <1>9, <1>10, <1>11,
     <1>12, <1>13, <1>14, <1>15, <1>16, <1>17, <1>18, <1>19, <1>20, <1>21,
     <1>22, <1>23 DEF Next

(* ftController hands out only files with the right content, although       *)
(* sources are corrupt, checksums may be of the node's own bad data, chunks *)
(* are given up and the process restarts, as long as no data is written and *)
(* no check is forced between the start of the hash and the completion.     *)
THEOREM CompletedFilesAreRight ==
    ASSUME "late" \notin Disturbed, "force" \notin Disturbed
    PROVE  Spec => []CompletedIsRight
<1>1. RightOK /\ [Next]_vars => RightOK'
  BY NextRight
<1>2. RightOK => CompletedIsRight
  BY DEF RightOK
<1>3. QED
  BY <1>1, <1>2, InitRight, PTL DEF Spec

=============================================================================

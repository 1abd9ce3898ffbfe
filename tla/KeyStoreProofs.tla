--------------------------- MODULE KeyStoreProofs ---------------------------
(***************************************************************************)
(* The key store is consistent for every set of keys, destinations,        *)
(* packets and objects, and for any number of late callbacks.              *)
(***************************************************************************)
EXTENDS KeyStore, TLAPS

\* What the maps hold has been allocated, and a late callback knows its entry.
ObjectsOK ==
    /\ \A o \in InfoIds : armed[o] \/ late[o] > 0 => infoKey[o] \in Keys
    /\ \A b \in BufIds : armed[b] \/ late[b] > 0 => bufDest[b] \in Dests

\* What a buffer in the map holds, and that it waits for an unknown key.
BuffersOK ==
    \A d \in Dests : buffers[d] # Nil =>
        /\ bufDest[buffers[d]] = d
        /\ packet[buffers[d]] \in taken
        /\ Dst[packet[buffers[d]]] = d
        /\ destToInfo[d] = Nil

\* Only packets that were written are sent.
SentWasTaken == \A s \in sent : s[1] \in taken

IInv ==
    /\ TypeOK
    /\ ObjectsOK
    /\ MapsAgree
    /\ BuffersOK
    /\ SentWasTaken
    /\ SentToOwner
    /\ SentOnce
    /\ EverythingExpires

\* The initial state satisfies the invariant.
LEMMA InitIInv == Init => IInv
<1> SUFFICES ASSUME Init PROVE IInv
  OBVIOUS
<1> USE KeyStoreAssumption DEF Init
<1>1. TypeOK
  <2>1. 0 \in 0..MaxLate
    OBVIOUS
  <2>2. late \in [Objects -> 0..MaxLate]
    BY <2>1
  <2>3. QED
    BY <2>2 DEF TypeOK
<1>2. ObjectsOK
  BY DEF ObjectsOK, Objects
<1>3. MapsAgree /\ BuffersOK /\ SentOnce /\ EverythingExpires
  BY DEF MapsAgree, BuffersOK, SentOnce, EverythingExpires
<1>4. SentWasTaken /\ SentToOwner
  BY DEF SentWasTaken, SentToOwner
<1>5. QED
  BY <1>1, <1>2, <1>3, <1>4 DEF IInv
\* Every operation and every callback keeps the invariant.
LEMMA NextIInv == IInv /\ [Next]_vars => IInv'
<1> SUFFICES ASSUME IInv, [Next]_vars PROVE IInv'
  OBVIOUS
<1> USE KeyStoreAssumption
    DEF IInv, TypeOK, ObjectsOK, MapsAgree, BuffersOK, SentWasTaken, SentToOwner,
        SentOnce, EverythingExpires, Objects
<1>1. ASSUME NEW m \in Msgs, SendKnown(m) PROVE IInv'
  <2>1. TypeOK'
    BY <1>1 DEF SendKnown, WritePC, ResetTimer
  <2>2. ObjectsOK'
    BY <1>1 DEF SendKnown, WritePC, ResetTimer
  <2>3. MapsAgree'
    BY <1>1 DEF SendKnown, WritePC, ResetTimer
  <2>4. BuffersOK'
    BY <1>1 DEF SendKnown, WritePC, ResetTimer
  <2>5. SentWasTaken'
    BY <1>1 DEF SendKnown, WritePC, ResetTimer
  <2>6. SentToOwner'
    BY <1>1 DEF SendKnown, WritePC, ResetTimer
  <2>7. SentOnce'
    BY <1>1 DEF SendKnown, WritePC, ResetTimer
  <2>8. EverythingExpires'
    BY <1>1 DEF SendKnown, WritePC, ResetTimer
  <2>9. QED
    BY <2>1, <2>2, <2>3, <2>4, <2>5, <2>6, <2>7, <2>8
<1>2. ASSUME NEW m \in Msgs, NEW b \in BufIds, SendUnknown(m, b) PROVE IInv'
  <2>1. TypeOK'
    BY <1>2 DEF SendUnknown, WritePC, FreeObject, ResetTimer
  <2>2. ObjectsOK'
    BY <1>2 DEF SendUnknown, WritePC, FreeObject, ResetTimer
  <2>3. MapsAgree'
    BY <1>2 DEF SendUnknown, WritePC, FreeObject, ResetTimer
  <2>4. BuffersOK'
    BY <1>2 DEF SendUnknown, WritePC, FreeObject, ResetTimer
  <2>5. SentWasTaken'
    BY <1>2 DEF SendUnknown, WritePC, FreeObject, ResetTimer
  <2>6. SentToOwner'
    BY <1>2 DEF SendUnknown, WritePC, FreeObject, ResetTimer
  <2>7. SentOnce'
    BY <1>2 DEF SendUnknown, WritePC, FreeObject, ResetTimer
  <2>8. EverythingExpires'
    BY <1>2 DEF SendUnknown, WritePC, FreeObject, ResetTimer
  <2>9. QED
    BY <2>1, <2>2, <2>3, <2>4, <2>5, <2>6, <2>7, <2>8
<1>3. ASSUME NEW k \in Keys, UpdateKnown(k) PROVE IInv'
  <2>1. TypeOK'
    BY <1>3 DEF UpdateKnown, ResetTimer
  <2>2. ObjectsOK'
    BY <1>3 DEF UpdateKnown, ResetTimer
  <2>3. MapsAgree'
    BY <1>3 DEF UpdateKnown, ResetTimer
  <2>4. BuffersOK'
    BY <1>3 DEF UpdateKnown, ResetTimer
  <2>5. SentWasTaken'
    BY <1>3 DEF UpdateKnown, ResetTimer
  <2>6. SentToOwner'
    BY <1>3 DEF UpdateKnown, ResetTimer
  <2>7. SentOnce'
    BY <1>3 DEF UpdateKnown, ResetTimer
  <2>8. EverythingExpires'
    BY <1>3 DEF UpdateKnown, ResetTimer
  <2>9. QED
    BY <2>1, <2>2, <2>3, <2>4, <2>5, <2>6, <2>7, <2>8
<1>4. ASSUME NEW k \in Keys, NEW o \in InfoIds, UpdateNew(k, o) PROVE IInv'
  <2>1. TypeOK'
    BY <1>4 DEF UpdateNew, FreeObject, ResetTimer, WaitingFor
  <2>2. ObjectsOK'
    BY <1>4 DEF UpdateNew, FreeObject, ResetTimer, WaitingFor
  <2>3. MapsAgree'
    BY <1>4 DEF UpdateNew, FreeObject, ResetTimer, WaitingFor
  <2>4. BuffersOK'
    BY <1>4 DEF UpdateNew, FreeObject, ResetTimer, WaitingFor
  <2>5. SentWasTaken'
    BY <1>4 DEF UpdateNew, FreeObject, ResetTimer, WaitingFor
  <2>6. SentToOwner'
    BY <1>4 DEF UpdateNew, FreeObject, ResetTimer, WaitingFor
  <2>7. SentOnce'
    BY <1>4 DEF UpdateNew, FreeObject, ResetTimer, WaitingFor
  <2>8. EverythingExpires'
    BY <1>4 DEF UpdateNew, FreeObject, ResetTimer, WaitingFor
  <2>9. QED
    BY <2>1, <2>2, <2>3, <2>4, <2>5, <2>6, <2>7, <2>8
<1>5. ASSUME NEW o \in Objects, Fire(o) PROVE IInv'
  <2>1. TypeOK'
    BY <1>5 DEF Fire
  <2>2. ObjectsOK'
    BY <1>5 DEF Fire
  <2>3. MapsAgree'
    BY <1>5 DEF Fire
  <2>4. BuffersOK'
    BY <1>5 DEF Fire
  <2>5. SentWasTaken'
    BY <1>5 DEF Fire
  <2>6. SentToOwner'
    BY <1>5 DEF Fire
  <2>7. SentOnce'
    BY <1>5 DEF Fire
  <2>8. EverythingExpires'
    BY <1>5 DEF Fire
  <2>9. QED
    BY <2>1, <2>2, <2>3, <2>4, <2>5, <2>6, <2>7, <2>8
<1>6. ASSUME NEW o \in InfoIds, ExpireInfo(o) PROVE IInv'
  <2>1. TypeOK'
    BY <1>6 DEF ExpireInfo
  <2>2. ObjectsOK'
    BY <1>6 DEF ExpireInfo
  <2>3. MapsAgree'
    BY <1>6 DEF ExpireInfo
  <2>4. BuffersOK'
    BY <1>6 DEF ExpireInfo
  <2>5. SentWasTaken'
    BY <1>6 DEF ExpireInfo
  <2>6. SentToOwner'
    BY <1>6 DEF ExpireInfo
  <2>7. SentOnce'
    BY <1>6 DEF ExpireInfo
  <2>8. EverythingExpires'
    BY <1>6 DEF ExpireInfo
  <2>9. QED
    BY <2>1, <2>2, <2>3, <2>4, <2>5, <2>6, <2>7, <2>8
<1>7. ASSUME NEW b \in BufIds, ExpireBuffer(b) PROVE IInv'
  <2>1. TypeOK'
    BY <1>7 DEF ExpireBuffer
  <2>2. ObjectsOK'
    BY <1>7 DEF ExpireBuffer
  <2>3. MapsAgree'
    BY <1>7 DEF ExpireBuffer
  <2>4. BuffersOK'
    BY <1>7 DEF ExpireBuffer
  <2>5. SentWasTaken'
    BY <1>7 DEF ExpireBuffer
  <2>6. SentToOwner'
    BY <1>7 DEF ExpireBuffer
  <2>7. SentOnce'
    BY <1>7 DEF ExpireBuffer
  <2>8. EverythingExpires'
    BY <1>7 DEF ExpireBuffer
  <2>9. QED
    BY <2>1, <2>2, <2>3, <2>4, <2>5, <2>6, <2>7, <2>8
<1>8. CASE UNCHANGED vars
  BY <1>8 DEF vars
<1> HIDE DEF IInv
<1>9. QED
  BY <1>1, <1>2, <1>3, <1>4, <1>5, <1>6, <1>7, <1>8 DEF Next, ReadPC, PathNotify, Update
\* The inductive invariant holds in every reachable state.
THEOREM KeyStoreInvariant == Spec => []IInv
  BY InitIInv, NextIInv, PTL DEF Spec

\* The maps, objects and timers keep their types.
THEOREM KeyStoreTypeOK == Spec => []TypeOK
<1>1. IInv => TypeOK
  BY DEF IInv
<1>2. QED
  BY <1>1, KeyStoreInvariant, PTL

(* keyToInfo, addrToInfo and subnetToInfo agree, however late the callbacks *)
(* of resetTimeout are.                                                     *)
THEOREM KeyStoreMapsAgree == Spec => []MapsAgree
<1>1. IInv => MapsAgree
  BY DEF IInv
<1>2. QED
  BY <1>1, KeyStoreInvariant, PTL

\* No packet waits for a key that update has already entered.
THEOREM KeyStoreNoStrandedPacket == Spec => []NoStrandedPacket
<1>1. IInv => NoStrandedPacket
  BY KeyStoreAssumption DEF IInv, TypeOK, MapsAgree, BuffersOK, NoStrandedPacket, WaitingFor
<1>2. QED
  BY <1>1, KeyStoreInvariant, PTL

\* WriteTo is called with the key that owns the packet's destination.
THEOREM KeyStoreSentToOwner == Spec => []SentToOwner
<1>1. IInv => SentToOwner
  BY DEF IInv
<1>2. QED
  BY <1>1, KeyStoreInvariant, PTL

\* update does not send a packet again.
THEOREM KeyStoreSentOnce == Spec => []SentOnce
<1>1. IInv => SentOnce
  BY DEF IInv
<1>2. QED
  BY <1>1, KeyStoreInvariant, PTL

\* Every entry has a timer or a callback that will delete it.
THEOREM KeyStoreEverythingExpires == Spec => []EverythingExpires
<1>1. IInv => EverythingExpires
  BY DEF IInv
<1>2. QED
  BY <1>1, KeyStoreInvariant, PTL

(* A callback left over from a replaced object deletes nothing of the new   *)
(* one: the identity checks of the callbacks are enough.                    *)
THEOREM KeyStoreOnlyOwnTimerRemoves == Spec => OnlyOwnTimerRemoves
<1> DEFINE Own ==
      \A d \in Dests :
         /\ destToInfo[d] # Nil /\ destToInfo'[d] = Nil => late[destToInfo[d]] > 0
         /\ buffers[d] # Nil /\ buffers'[d] = Nil /\ destToInfo'[d] = Nil
              => late[buffers[d]] > 0
<1>1. ASSUME IInv, Next PROVE Own
  <2> USE KeyStoreAssumption DEF IInv, TypeOK, BuffersOK
  <2>0. CASE \E m \in Msgs : SendKnown(m)
    BY <2>0 DEF SendKnown, WritePC
  <2>1. ASSUME NEW m \in Msgs, NEW b \in BufIds, SendUnknown(m, b) PROVE Own
    <3>1. \A d \in Dests : buffers[d] # Nil => buffers'[d] # Nil
      BY <2>1 DEF SendUnknown, WritePC
    <3>2. QED
      BY <2>1, <3>1 DEF SendUnknown, WritePC
  <2>2. CASE \E k \in Keys : UpdateKnown(k) \/ \E o \in InfoIds : UpdateNew(k, o)
    BY <2>2 DEF UpdateKnown, UpdateNew
  <2>3. CASE \E o \in Objects : Fire(o)
    BY <2>3 DEF Fire
  <2>4. CASE \E o \in InfoIds : ExpireInfo(o)
    BY <2>4 DEF ExpireInfo
  <2>5. CASE \E b \in BufIds : ExpireBuffer(b)
    BY <2>5 DEF ExpireBuffer
  <2>6. QED
    BY <1>1, <2>0, <2>1, <2>2, <2>3, <2>4, <2>5 DEF Next, ReadPC, PathNotify, Update
<1>2. IInv /\ [Next]_vars => [Own]_vars
  BY <1>1
<1>3. QED
  BY <1>2, InitIInv, NextIInv, PTL DEF Spec, OnlyOwnTimerRemoves
=============================================================================

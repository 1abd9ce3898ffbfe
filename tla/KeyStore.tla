------------------------------ MODULE KeyStore ------------------------------
(***************************************************************************)
(* The key store between the TUN interface and the router:                 *)
(* src/ipv6rwc/ipv6rwc.go.  It maps the IPv6 addresses and /64 subnets of  *)
(* other nodes to their keys, keeps one packet per destination while the   *)
(* key is looked up, and forgets both two minutes after their last use.    *)
(*                                                                         *)
(* Every operation runs under k.mutex, except that a timer fires outside   *)
(* it: its callback then waits for the mutex, and Timer.Stop, whose result *)
(* the code ignores, does not take it back.  The callbacks recognise the   *)
(* object they were made for by its identity, so keyInfo and buffer        *)
(* objects are explicit.                                                   *)
(*                                                                         *)
(* sendToAddress / addrToInfo / addrBuffer and sendToSubnet / subnetToInfo *)
(* / subnetBuffer are the same code twice; a destination here is an        *)
(* address or a subnet.                                                    *)
(***************************************************************************)
EXTENDS Naturals

CONSTANTS
    Keys,      \* public keys of other nodes
    Dests,     \* IPv6 addresses and subnets
    DestsOf,   \* the address and the subnet of each key (module address)
    Msgs,      \* packets
    Dst,       \* the destination of each packet
    InfoIds,   \* keyInfo objects
    BufIds,    \* buffer objects
    MaxLate,   \* bound: callbacks of one object that wait for the mutex
    Nil        \* Go's nil

(* Addresses are made of the leading bits of a hashed key: that no two keys *)
(* of the network share one is what the address scheme relies on.           *)
ASSUME KeyStoreAssumption ==
    /\ DestsOf \in [Keys -> SUBSET Dests]
    /\ \A j, k \in Keys : DestsOf[j] \cap DestsOf[k] # {} => j = k
    /\ Dst \in [Msgs -> Dests]
    /\ InfoIds \cap BufIds = {}
    /\ Nil \notin Keys \cup Msgs \cup Dests \cup InfoIds \cup BufIds
    /\ MaxLate \in Nat \ {0}

Objects == InfoIds \cup BufIds

VARIABLES
    keyToInfo,   \* k.keyToInfo
    destToInfo,  \* k.addrToInfo and k.subnetToInfo
    buffers,     \* k.addrBuffer and k.subnetBuffer
    infoKey,     \* keyInfo.key
    bufDest,     \* the destination captured by the callback of a buffer
    packet,      \* buffer.packet
    armed,       \* the object's latest timer runs
    late,        \* fired callbacks of the object that wait for the mutex
    taken,       \* packets the TUN side has written
    sent         \* <<packet, key>>: handed to core.WriteTo

vars == <<keyToInfo, destToInfo, buffers, infoKey, bufDest, packet, armed, late,
          taken, sent>>

TypeOK ==
    /\ keyToInfo \in [Keys -> InfoIds \cup {Nil}]
    /\ destToInfo \in [Dests -> InfoIds \cup {Nil}]
    /\ buffers \in [Dests -> BufIds \cup {Nil}]
    /\ infoKey \in [InfoIds -> Keys \cup {Nil}]
    /\ bufDest \in [BufIds -> Dests \cup {Nil}]
    /\ packet \in [BufIds -> Msgs \cup {Nil}]
    /\ armed \in [Objects -> BOOLEAN]
    /\ late \in [Objects -> 0..MaxLate]
    /\ taken \subseteq Msgs
    /\ sent \subseteq Msgs \X Keys

Init ==
    /\ keyToInfo = [k \in Keys |-> Nil]
    /\ destToInfo = [d \in Dests |-> Nil]
    /\ buffers = [d \in Dests |-> Nil]
    /\ infoKey = [o \in InfoIds |-> Nil]
    /\ bufDest = [b \in BufIds |-> Nil]
    /\ packet = [b \in BufIds |-> Nil]
    /\ armed = [o \in Objects |-> FALSE]
    /\ late = [o \in Objects |-> 0]
    /\ taken = {}
    /\ sent = {}

-----------------------------------------------------------------------------
\* Nothing refers to the object: no map, no timer, no callback.
FreeObject(o) ==
    /\ ~armed[o] /\ late[o] = 0
    /\ \A k \in Keys : keyToInfo[k] # o
    /\ \A d \in Dests : destToInfo[d] # o /\ buffers[d] # o

\* Mutant: the timer is stopped and not started again.
ResetTimerStops(o) == armed' = [armed EXCEPT ![o] = FALSE]

\* timeout.Stop() and time.AfterFunc: at most one timer of an object runs.
ResetTimer(o) == armed' = [armed EXCEPT ![o] = TRUE]

(* writePC: the TUN side writes a packet with our source and a valid        *)
(* destination (any other packet is dropped), or readPC answers an          *)
(* oversized packet with PacketTooBig.                                      *)
WritePC(m) == m \notin taken /\ taken' = taken \cup {m}

\* sendToAddress, sendToSubnet: the key of the destination is known.
SendKnown(m) ==
    /\ WritePC(m)
    /\ LET o == destToInfo[Dst[m]] IN
       /\ o # Nil
       /\ ResetTimer(o)
       /\ sent' = sent \cup {<<m, infoKey[o]>>}
    /\ UNCHANGED <<keyToInfo, destToInfo, buffers, infoKey, bufDest, packet, late>>

\* Mutants: the look at the map was before the mutex; there is no timer.
SendUnknownUnchecked(m, b) ==
    /\ WritePC(m)
    /\ \/ b = buffers[Dst[m]]
       \/ buffers[Dst[m]] = Nil /\ FreeObject(b)
    /\ buffers' = [buffers EXCEPT ![Dst[m]] = b]
    /\ bufDest' = [bufDest EXCEPT ![b] = Dst[m]]
    /\ packet' = [packet EXCEPT ![b] = m]
    /\ ResetTimer(b)
    /\ UNCHANGED <<keyToInfo, destToInfo, infoKey, late, sent>>
SendUnknownNoTimer(m, b) ==
    /\ WritePC(m)
    /\ destToInfo[Dst[m]] = Nil
    /\ b = buffers[Dst[m]] \/ FreeObject(b)
    /\ buffers' = [buffers EXCEPT ![Dst[m]] = b]
    /\ bufDest' = [bufDest EXCEPT ![b] = Dst[m]]
    /\ packet' = [packet EXCEPT ![b] = m]
    /\ UNCHANGED <<keyToInfo, destToInfo, infoKey, armed, late, sent>>

(* The key is not known: keep the packet, instead of the one that waited,   *)
(* and start a lookup (its answer is Update).                               *)
SendUnknown(m, b) ==
    /\ WritePC(m)
    /\ destToInfo[Dst[m]] = Nil
    /\ \/ b = buffers[Dst[m]]
       \/ buffers[Dst[m]] = Nil /\ FreeObject(b)
    /\ buffers' = [buffers EXCEPT ![Dst[m]] = b]
    /\ bufDest' = [bufDest EXCEPT ![b] = Dst[m]]
    /\ packet' = [packet EXCEPT ![b] = m]
    /\ ResetTimer(b)
    /\ UNCHANGED <<keyToInfo, destToInfo, infoKey, late, sent>>

\* update, for a key that has an entry: only the timeout is reset.
UpdateKnown(k) ==
    /\ keyToInfo[k] # Nil
    /\ ResetTimer(keyToInfo[k])
    /\ UNCHANGED <<keyToInfo, destToInfo, buffers, infoKey, bufDest, packet, late,
                   taken, sent>>

\* The destinations of k that have a packet waiting.
WaitingFor(k) == {d \in DestsOf[k] : buffers[d] # Nil}

\* Mutants: info.key is not set; the buffers are kept; all buffers are sent.
UpdateNewNoKey(k, o) ==
    /\ keyToInfo[k] = Nil
    /\ FreeObject(o)
    /\ keyToInfo' = [keyToInfo EXCEPT ![k] = o]
    /\ destToInfo' = [d \in Dests |-> IF d \in DestsOf[k] THEN o ELSE destToInfo[d]]
    /\ sent' = sent \cup {<<packet[buffers[d]], k>> : d \in WaitingFor(k)}
    /\ buffers' = [d \in Dests |-> IF d \in DestsOf[k] THEN Nil ELSE buffers[d]]
    /\ ResetTimer(o)
    /\ UNCHANGED <<infoKey, bufDest, packet, late, taken>>
UpdateNewKeepsBuffers(k, o) ==
    /\ keyToInfo[k] = Nil
    /\ FreeObject(o)
    /\ infoKey' = [infoKey EXCEPT ![o] = k]
    /\ keyToInfo' = [keyToInfo EXCEPT ![k] = o]
    /\ destToInfo' = [d \in Dests |-> IF d \in DestsOf[k] THEN o ELSE destToInfo[d]]
    /\ sent' = sent \cup {<<packet[buffers[d]], k>> : d \in WaitingFor(k)}
    /\ ResetTimer(o)
    /\ UNCHANGED <<buffers, bufDest, packet, late, taken>>
UpdateNewSendsAll(k, o) ==
    /\ keyToInfo[k] = Nil
    /\ FreeObject(o)
    /\ infoKey' = [infoKey EXCEPT ![o] = k]
    /\ keyToInfo' = [keyToInfo EXCEPT ![k] = o]
    /\ destToInfo' = [d \in Dests |-> IF d \in DestsOf[k] THEN o ELSE destToInfo[d]]
    /\ sent' = sent \cup {<<packet[buffers[d]], k>> : d \in {e \in Dests : buffers[e] # Nil}}
    /\ buffers' = [d \in Dests |-> IF d \in DestsOf[k] THEN Nil ELSE buffers[d]]
    /\ ResetTimer(o)
    /\ UNCHANGED <<bufDest, packet, late, taken>>

(* update, for a new key: enter it in the three maps and send what waited   *)
(* for it.                                                                  *)
UpdateNew(k, o) ==
    /\ keyToInfo[k] = Nil
    /\ FreeObject(o)
    /\ infoKey' = [infoKey EXCEPT ![o] = k]
    /\ keyToInfo' = [keyToInfo EXCEPT ![k] = o]
    /\ destToInfo' = [d \in Dests |-> IF d \in DestsOf[k] THEN o ELSE destToInfo[d]]
    /\ sent' = sent \cup {<<packet[buffers[d]], k>> : d \in WaitingFor(k)}
    /\ buffers' = [d \in Dests |-> IF d \in DestsOf[k] THEN Nil ELSE buffers[d]]
    /\ ResetTimer(o)
    /\ UNCHANGED <<bufDest, packet, late, taken>>

Update(k) == UpdateKnown(k) \/ \E o \in InfoIds : UpdateNew(k, o)

(* readPC: a well-formed packet for us, of a size the TUN side takes, has   *)
(* come from k.  (It is passed on if its source is k's.)                    *)
ReadPC(k) == Update(k)

\* SetPathNotify: the router has found a path to k, as a lookup asked it to.
PathNotify(k) == Update(k)

\* The latest timer of an object runs out; its callback waits for the mutex.
Fire(o) ==
    /\ armed[o]
    /\ late[o] < MaxLate
    /\ armed' = [armed EXCEPT ![o] = FALSE]
    /\ late' = [late EXCEPT ![o] = @ + 1]
    /\ UNCHANGED <<keyToInfo, destToInfo, buffers, infoKey, bufDest, packet,
                   taken, sent>>

\* Mutant: the identity of the address entry is not compared.
ExpireInfoUnchecked(o) ==
    /\ late[o] > 0
    /\ late' = [late EXCEPT ![o] = @ - 1]
    /\ keyToInfo' = [keyToInfo EXCEPT ![infoKey[o]] = IF @ = o THEN Nil ELSE @]
    /\ destToInfo' = [d \in Dests |-> IF d \in DestsOf[infoKey[o]] THEN Nil ELSE destToInfo[d]]
    /\ UNCHANGED <<buffers, infoKey, bufDest, packet, armed, taken, sent>>

\* A callback of resetTimeout: delete the entries that are still this object.
ExpireInfo(o) ==
    /\ late[o] > 0
    /\ late' = [late EXCEPT ![o] = @ - 1]
    /\ keyToInfo' = [keyToInfo EXCEPT ![infoKey[o]] = IF @ = o THEN Nil ELSE @]
    /\ destToInfo' = [d \in Dests |->
         IF d \in DestsOf[infoKey[o]] /\ destToInfo[d] = o THEN Nil ELSE destToInfo[d]]
    /\ UNCHANGED <<buffers, infoKey, bufDest, packet, armed, taken, sent>>

\* Mutant: the identity of the buffer is not compared.
ExpireBufferUnchecked(b) ==
    /\ late[b] > 0
    /\ late' = [late EXCEPT ![b] = @ - 1]
    /\ buffers' = [buffers EXCEPT ![bufDest[b]] = Nil]
    /\ UNCHANGED <<keyToInfo, destToInfo, infoKey, bufDest, packet, armed, taken, sent>>

\* A callback of sendToAddress or sendToSubnet.
ExpireBuffer(b) ==
    /\ late[b] > 0
    /\ late' = [late EXCEPT ![b] = @ - 1]
    /\ buffers' = [buffers EXCEPT ![bufDest[b]] = IF @ = b THEN Nil ELSE @]
    /\ UNCHANGED <<keyToInfo, destToInfo, infoKey, bufDest, packet, armed, taken, sent>>

Next ==
    \/ \E m \in Msgs : SendKnown(m)
    \/ \E m \in Msgs, b \in BufIds : SendUnknown(m, b)
    \/ \E k \in Keys : ReadPC(k)
    \/ \E k \in Keys : PathNotify(k)
    \/ \E o \in Objects : Fire(o)
    \/ \E o \in InfoIds : ExpireInfo(o)
    \/ \E b \in BufIds : ExpireBuffer(b)

(* The runtime fires timers and schedules callbacks.  Only a new packet for *)
(* its destination resets the timer of a buffer, and there are finitely     *)
(* many packets.  Nothing is assumed of the timers of keys, which traffic   *)
(* may reset for ever.                                                      *)
Fairness == \A b \in BufIds : WF_vars(Fire(b)) /\ WF_vars(ExpireBuffer(b))

Spec == Init /\ [][Next]_vars /\ Fairness
-----------------------------------------------------------------------------
(* Properties.                                                             *)

(* The three maps agree: a key is known exactly when its address and its    *)
(* subnet are, through the same object, whatever callbacks are late.        *)
MapsAgree ==
    /\ \A k \in Keys : keyToInfo[k] # Nil =>
         /\ infoKey[keyToInfo[k]] = k
         /\ \A d \in DestsOf[k] : destToInfo[d] = keyToInfo[k]
    /\ \A d \in Dests : destToInfo[d] # Nil =>
         /\ infoKey[destToInfo[d]] # Nil
         /\ d \in DestsOf[infoKey[destToInfo[d]]]
         /\ keyToInfo[infoKey[destToInfo[d]]] = destToInfo[d]

(* No packet waits in a buffer for a key that is known: nothing would send  *)
(* it, since update flushes the buffers only when it adds a key.            *)
NoStrandedPacket ==
    \A k \in Keys : keyToInfo[k] # Nil => WaitingFor(k) = {}

\* A packet is handed to the router for the node that owns its destination.
SentToOwner == \A s \in sent : Dst[s[1]] \in DestsOf[s[2]]

\* A packet handed to the router is in no buffer, so it is not sent again.
SentOnce ==
    \A d \in Dests : buffers[d] # Nil => \A k \in Keys : <<packet[buffers[d]], k>> \notin sent

(* Everything in the maps has a timer running or a callback on its way: the *)
(* store does not grow without bound.                                       *)
EverythingExpires ==
    /\ \A d \in Dests : destToInfo[d] # Nil => armed[destToInfo[d]] \/ late[destToInfo[d]] > 0
    /\ \A d \in Dests : buffers[d] # Nil => armed[buffers[d]] \/ late[buffers[d]] > 0

(* An entry is taken out only by a timer of its own: a callback left over   *)
(* from an object that was replaced does no harm to the new one.            *)
OnlyOwnTimerRemoves ==
    [][\A d \in Dests :
         /\ destToInfo[d] # Nil /\ destToInfo'[d] = Nil => late[destToInfo[d]] > 0
         /\ buffers[d] # Nil /\ buffers'[d] = Nil /\ destToInfo'[d] = Nil
              => late[buffers[d]] > 0]_vars

\* A packet does not wait for ever.
Waits(m) == \E d \in Dests : buffers[d] # Nil /\ packet[buffers[d]] = m
PacketLeaves == \A m \in Msgs : Waits(m) ~> ~Waits(m)
=============================================================================

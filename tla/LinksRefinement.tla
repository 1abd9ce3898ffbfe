-------------------------- MODULE LinksRefinement --------------------------
(***************************************************************************)
(* The peering manager implements the peer list of module PeerList, for    *)
(* the peers that only we dial.                                            *)
(***************************************************************************)
EXTENDS LinksProofs

(* The entry of such a peer is a dialer's link, and two peers have two      *)
(* links.                                                                   *)
LEMMA PeerEntry ==
  ASSUME IInv, NEW i \in Peers, links[i] # Nil
  PROVE  /\ links[i] \in Dialers
         /\ pc[links[i]] # "idle"
         /\ info[links[i]] = i
  BY LinksAssumption
  DEF IInv, TypeOK, SlotsOK, EntryHasOwner, InHandler, Peers, SharedInfos, Procs, Infos

(* A step that leaves the entries of the peers, and what their links show,  *)
(* as they are is a step of the peer list or a stutter.                     *)
LEMMA Stutter ==
  ASSUME \A i \in Peers : links'[i] = links[i],
         \A i \in Peers : links[i] # Nil =>
            /\ kind'[links[i]] = kind[links[i]]
            /\ (conn'[links[i]] = Nil) = (conn[links[i]] = Nil)
            /\ cancelled'[links[i]] = cancelled[links[i]],
         Halted' = Halted
  PROVE  UNCHANGED PL!vars
<1>1. Listed' = Listed
  BY DEF Listed
<1>2. Kept' = Kept
  BY <1>1 DEF Kept, Listed
<1>3. Up' = Up
  BY <1>1 DEF Up, Listed
<1>4. Leaving' = Leaving
  BY <1>1 DEF Leaving, Listed
<1>5. QED
  BY <1>1, <1>2, <1>3, <1>4 DEF PL!vars

\* Only cancellation makes a persistent link give up.
LEMMA GivesUp == IInv /\ GivesUpWhenDone /\ [Next]_vars => GivesUpWhenDone'
<1> SUFFICES ASSUME IInv, GivesUpWhenDone, [Next]_vars,
                    NEW g \in Dialers, pc'[g] = "exit", kind'[g] = "persistent",
                    info'[g] \notin SharedInfos
             PROVE  Done(g)'
  BY DEF GivesUpWhenDone
<1> USE LinksAssumption DEF IInv, TypeOK, Done, Procs, GivesUpWhenDone
<1>1. CASE Api
  BY <1>1 DEF Api, AddNew, AddKnown, Kicked, Remove, RemoveIncoming,
     RetryPeersNow, Listen, CloseListener, Stop
<1>2. CASE ClosePacketConn
  BY <1>2 DEF ClosePacketConn
<1>3. ASSUME NEW h \in Dialers, Dialer(h) PROVE Done(g)'
  <2>1. CASE LoopTop(h)
    BY <2>1 DEF LoopTop
  <2>2. CASE DialOK(h) \/ RecordFailure(h) \/ BackoffOver(h) \/ Detach(h)
    BY <2>2 DEF DialOK, RecordFailure, BackoffOver, Detach
  <2>3. CASE DialFail(h)
    BY <2>3 DEF DialFail
  <2>4. CASE BackoffCancelled(h)
    BY <2>4 DEF BackoffCancelled
  <2>5. CASE Attach(h)
    BY <2>5 DEF Attach, UpIsHandled, InHandler
  <2>6. CASE Exit(h)
    BY <2>6 DEF Exit, Gone
  <2>7. QED
    BY <1>3, <2>1, <2>2, <2>3, <2>4, <2>5, <2>6 DEF Dialer
<1>4. ASSUME NEW a \in Accepters, Accepter(a) PROVE Done(g)'
  BY <1>4 DEF Accepter, RejectDuplicate, Register, Drop, Gone
<1>5. ASSUME NEW p \in Procs, Handler(p) PROVE Done(g)'
  BY <1>5 DEF Handler, HandshakeOK, HandshakeFail, HandlerEnds, HandlerReturn
<1>6. CASE Environment
  BY <1>6 DEF Environment, Accept, ConnLost, HandlerReturn
<1>7. CASE UNCHANGED vars
  BY <1>7 DEF vars
<1>8. QED
  BY <1>1, <1>2, <1>3, <1>4, <1>5, <1>6, <1>7 DEF Next
\* The calls of the API.
LEMMA ApiRefines == ASSUME IInv, Api PROVE [PL!Next]_(PL!vars)
<1> USE LinksAssumption DEF IInv, TypeOK, Procs, Infos, Peers, SharedInfos, Halted
<1>1. ASSUME NEW i \in DialInfos, NEW g \in Dialers,
             NEW k \in {"persistent", "ephemeral"}, AddNew(g, i, k)
      PROVE [PL!Next]_(PL!vars)
  <2>1. \A j \in Peers : links[j] # Nil => links[j] # g
    BY <1>1, PeerEntry DEF AddNew, Free
  <2>2. CASE i \notin Peers
    BY <1>1, <2>1, <2>2, Stutter DEF AddNew
  <2>3. CASE i \in Peers
    <3>1. conn[g] = Nil /\ ~cancelled[g]
      BY <1>1 DEF AddNew, Free, SlotsOK
    <3>2. Listed' = Listed \cup {i} /\ i \notin Listed
      BY <1>1, <2>3 DEF AddNew, Listed
    <3>3. Kept' = IF k = "persistent" THEN Kept \cup {i} ELSE Kept
      BY <1>1, <2>1, <2>3, <3>2 DEF AddNew, Listed, Kept
    <3>4. Up' = Up /\ Leaving' = Leaving
      BY <1>1, <2>1, <2>3, <3>1, <3>2 DEF AddNew, Listed, Up, Leaving
    <3>5. PL!Add(i, k = "persistent")
      BY <1>1, <3>2, <3>3, <3>4 DEF PL!Add, AddNew
    <3>6. QED
      BY <2>3, <3>5 DEF PL!Next
  <2>4. QED
    BY <2>2, <2>3
<1>2. ASSUME NEW i \in DialInfos, AddKnown(i) PROVE [PL!Next]_(PL!vars)
  BY <1>2, Stutter DEF AddKnown
<1>3. ASSUME NEW i \in Infos, Remove(i) PROVE [PL!Next]_(PL!vars)
  <2>1. \A j \in Peers : j # i /\ links[j] # Nil => links[j] # links[i]
    BY PeerEntry, <1>3 DEF Remove, EntryHasOwner
  <2>2. CASE i \notin Peers
    BY <1>3, <2>1, <2>2, Stutter DEF Remove
  <2>3. CASE i \in Peers
    <3>1. Listed' = Listed /\ Kept' = Kept /\ Up' = Up
      BY <1>3 DEF Remove, Listed, Kept, Up
    <3>2. Leaving' = Leaving \cup {i} /\ i \in Listed
      BY <1>3, <2>1, <2>3, <3>1 DEF Remove, Listed, Leaving
    <3>3. PL!Remove(i)
      BY <1>3, <3>1, <3>2 DEF PL!Remove, Remove
    <3>4. QED
      BY <2>3, <3>3 DEF PL!Next
  <2>4. QED
    BY <2>2, <2>3
<1>4. ASSUME NEW i \in Infos, RemoveIncoming(i) PROVE [PL!Next]_(PL!vars)
  <2>1. Listed' = {}
    BY <1>4 DEF RemoveIncoming, Listed
  <2>2. PL!Crash
    BY <1>4, <2>1 DEF RemoveIncoming, PL!Crash, Kept, Up, Leaving
  <2>3. QED
    BY <2>2 DEF PL!Next
<1>5. CASE RetryPeersNow \/ Listen \/ CloseListener
  BY <1>5, Stutter DEF RetryPeersNow, Listen, CloseListener
<1>6. CASE Stop
  <2>1. Listed' = Listed /\ Kept' = Kept /\ Up' = Up /\ Leaving' = Leaving
    BY <1>6 DEF Stop, Listed, Kept, Up, Leaving
  <2>2. PL!Halt
    BY <1>6, <2>1 DEF Stop, PL!Halt
  <2>3. QED
    BY <2>2 DEF PL!Next
<1>7. QED
  BY <1>1, <1>2, <1>3, <1>4, <1>5, <1>6 DEF Api

\* The steps of a dialer.
LEMMA DialerRefines ==
  ASSUME IInv, GivesUpWhenDone, NEW g \in Dialers, Dialer(g)
  PROVE [PL!Next]_(PL!vars)
<1> DEFINE i == info[g]
<1> USE LinksAssumption DEF IInv, TypeOK, Procs, Infos, Peers, SharedInfos, Halted
<1>1. pc[g] # "idle" /\ i \in DialInfos /\ obj[g] = g
  BY DEF Dialer, LoopTop, DialOK, DialFail, RecordFailure, BackoffOver,
     BackoffCancelled, Attach, Detach, Exit, SlotsOK
<1>2. i \in Peers => links[i] = g
  BY <1>1 DEF OwnerIsListed
<1>3. \A j \in Peers : j # i /\ links[j] # Nil => links[j] # g
  BY PeerEntry
<1>4. CASE LoopTop(g) \/ DialOK(g) \/ DialFail(g) \/ BackoffOver(g) \/ BackoffCancelled(g)
  BY <1>4, Stutter DEF LoopTop, DialOK, DialFail, BackoffOver, BackoffCancelled
<1>5. CASE RecordFailure(g)
  <2>1. i \in Peers => conn[g] = Nil
    BY <1>1, <1>5 DEF RecordFailure, UpIsHandled, InHandler
  <2>2. QED
    BY <1>1, <1>3, <1>5, <2>1, Stutter DEF RecordFailure
<1>6. CASE Attach(g)
  <2>1. CASE i \notin Peers
    BY <1>1, <1>3, <1>6, <2>1, Stutter DEF Attach
  <2>2. CASE i \in Peers
    <3>1. conn[g] = Nil
      BY <1>1, <1>6, <2>2 DEF Attach, UpIsHandled, InHandler
    <3>2. Listed' = Listed /\ Kept' = Kept /\ Leaving' = Leaving
      BY <1>6 DEF Attach, Listed, Kept, Leaving
    <3>3. Up' = Up \cup {i} /\ i \in Listed \ Up
      BY <1>2, <1>3, <1>6, <2>2, <3>1, <3>2 DEF Attach, Up, Listed
    <3>4. PL!Connect(i)
      BY <1>6, <3>2, <3>3 DEF PL!Connect, Attach
    <3>5. QED
      BY <2>2, <3>4 DEF PL!Next
  <2>3. QED
    BY <2>1, <2>2
<1>7. CASE Detach(g)
  <2>1. CASE i \notin Peers
    BY <1>1, <1>3, <1>7, <2>1, Stutter DEF Detach
  <2>2. CASE i \in Peers
    <3>1. conn[g] = g
      BY <1>1, <1>7, <2>2 DEF Detach, UpIsHandled, InHandler
    <3>2. Listed' = Listed /\ Kept' = Kept /\ Leaving' = Leaving
      BY <1>7 DEF Detach, Listed, Kept, Leaving
    <3>3. Up' = Up \ {i} /\ i \in Up
      BY <1>2, <1>3, <1>7, <2>2, <3>1, <3>2 DEF Detach, Up, Listed
    <3>4. PL!Disconnect(i)
      BY <1>7, <3>2, <3>3 DEF PL!Disconnect, Detach
    <3>5. QED
      BY <2>2, <3>4 DEF PL!Next
  <2>3. QED
    BY <2>1, <2>2
<1>8. CASE Exit(g)
  <2>1. CASE i \notin Peers
    BY <1>1, <1>3, <1>8, <2>1, Stutter DEF Exit, Unlink, Gone
  <2>2. CASE i \in Peers
    <3>1. conn[g] = Nil
      BY <1>1, <1>8, <2>2 DEF Exit, UpIsHandled, InHandler
    <3>2. kind[g] = "persistent" => cancelled[g] \/ Halted
      BY <1>8, <2>2 DEF Exit, GivesUpWhenDone, Done
    <3>3. Listed' = Listed \ {i} /\ i \in Listed
      BY <1>1, <1>2, <1>8, <2>2 DEF Exit, Unlink, Listed
    <3>4. Kept' = Kept \ {i} /\ Leaving' = Leaving \ {i} /\ Up' = Up /\ i \notin Up
      BY <1>1, <1>2, <1>3, <1>8, <2>2, <3>1, <3>3 DEF Exit, Unlink, Gone, Listed, Kept, Up, Leaving
    <3>5. i \in Kept => i \in Leaving \/ Halted
      BY <1>2, <2>2, <3>2, <3>3 DEF Kept, Leaving
    <3>6. PL!Leave(i)
      BY <1>8, <3>3, <3>4, <3>5 DEF PL!Leave, Exit
    <3>7. QED
      BY <2>2, <3>6 DEF PL!Next
  <2>3. QED
    BY <2>1, <2>2
<1>9. QED
  BY <1>4, <1>5, <1>6, <1>7, <1>8 DEF Dialer

\* Incoming connections do not touch the entry of a peer that only we dial.
LEMMA AccepterRefines ==
  ASSUME IInv, NEW a \in Accepters, Accepter(a)
  PROVE UNCHANGED PL!vars
<1> USE LinksAssumption DEF IInv, TypeOK, Procs, Infos, Peers, SharedInfos, Halted
<1>1. info[a] \in AcceptInfos
  BY DEF Accepter, RejectDuplicate, Register, Drop, SlotsOK
<1>2. \A j \in Peers : links[j] # Nil => links[j] # a /\ links[j] # links[info[a]]
  BY <1>1, PeerEntry DEF EntryHasOwner
<1>3. CASE RejectDuplicate(a)
  BY <1>2, <1>3, Stutter DEF RejectDuplicate, Gone
<1>4. CASE Register(a)
  BY <1>1, <1>2, <1>4, Stutter DEF Register
<1>5. CASE Drop(a)
  BY <1>1, <1>2, <1>5, Stutter DEF Drop, Unlink, Gone
<1>6. QED
  BY <1>3, <1>4, <1>5 DEF Accepter

(* The manager implements the peer list: a persistent peer leaves it only   *)
(* after RemovePeer or Stop, and no peer leaves it with a connection.       *)
THEOREM LinksImplementPeerList == Spec => ImplementsPeerList
<1>1. Init => PL!Init
  BY DEF Init, PL!Init, Listed, Kept, Up, Leaving, Halted, Peers, Infos
<1>2. Init => GivesUpWhenDone
  BY DEF Init, GivesUpWhenDone, Procs
<1>3. IInv /\ GivesUpWhenDone /\ [Next]_vars => [PL!Next]_(PL!vars)
  <2> SUFFICES ASSUME IInv, GivesUpWhenDone, [Next]_vars PROVE [PL!Next]_(PL!vars)
    OBVIOUS
  <2>1. CASE ClosePacketConn
    BY <2>1, Stutter DEF ClosePacketConn, Halted
  <2>2. ASSUME NEW p \in Procs, Handler(p) \/ ConnLost(p) PROVE UNCHANGED PL!vars
    BY <2>2, Stutter DEF Handler, HandshakeOK, HandshakeFail, HandlerEnds, ConnLost,
       HandlerReturn, Halted
  <2>3. ASSUME NEW a \in Accepters, NEW i \in AcceptInfos, Accept(a, i)
        PROVE UNCHANGED PL!vars
    BY <2>3, Stutter DEF Accept, Halted
  <2>4. CASE UNCHANGED vars
    BY <2>4, Stutter DEF vars, Halted
  <2>5. QED
    BY <2>1, <2>2, <2>3, <2>4, ApiRefines, DialerRefines, AccepterRefines
    DEF Next, Environment
<1>4. QED
  BY <1>1, <1>2, <1>3, InitIInv, NextIInv, GivesUp, PTL
  DEF Spec, ImplementsPeerList, PL!Spec
=============================================================================

---------------------------- MODULE LinksProofs ----------------------------
(***************************************************************************)
(* The peering manager keeps its promises for every number of goroutines,  *)
(* every set of infos and every backoff limit.  The argument is the        *)
(* inductive invariant IInv of module Links.                               *)
(***************************************************************************)
EXTENDS Links, TLAPS

\* The initial state satisfies the invariant.
LEMMA InitIInv == Init => IInv
<1> SUFFICES ASSUME Init PROVE IInv
  OBVIOUS
<1> USE LinksAssumption DEF Init
<1>1. TypeOK
  <2>1. 0 \in 0..BackoffLimit
    OBVIOUS
  <2>2. backoff \in [Procs -> 0..BackoffLimit]
    BY <2>1
  <2>3. QED
    BY <2>2 DEF TypeOK, PCs, Kinds
<1>2. SlotsOK
  BY DEF SlotsOK, InHandler, Procs
<1>3. EntryHasOwner
  BY DEF EntryHasOwner
<1>4. OwnerIsListed
  BY DEF OwnerIsListed, InHandler, Procs, Infos
<1>5. UpIsHandled
  BY DEF UpIsHandled
<1>6. SocketsOK
  BY DEF SocketsOK, Procs
<1>7. QED
  BY <1>1, <1>2, <1>3, <1>4, <1>5, <1>6 DEF IInv

\* The API calls and Core.Stop.
LEMMA ApiIInv == IInv /\ Api => IInv'
<1> SUFFICES ASSUME IInv, Api PROVE IInv'
  OBVIOUS
<1> USE LinksAssumption
    DEF IInv, TypeOK, SlotsOK, EntryHasOwner, OwnerIsListed, UpIsHandled,
        SocketsOK, InHandler, Procs, Infos, PCs, Kinds, SharedInfos
<1>1. ASSUME NEW i \in DialInfos, NEW g \in Dialers,
             NEW k \in {"persistent", "ephemeral"}, AddNew(g, i, k)
      PROVE IInv'
  <2>1. TypeOK'
    BY <1>1 DEF AddNew, Free
  <2>2. SlotsOK'
    BY <1>1 DEF AddNew, Free
  <2>3. EntryHasOwner'
    BY <1>1 DEF AddNew, Free
  <2>4. OwnerIsListed'
    BY <1>1 DEF AddNew, Free
  <2>5. UpIsHandled'
    BY <1>1 DEF AddNew, Free
  <2>6. SocketsOK'
    BY <1>1 DEF AddNew, Free
  <2>7. QED
    BY <2>1, <2>2, <2>3, <2>4, <2>5, <2>6
<1>2. ASSUME NEW i \in DialInfos, AddKnown(i) PROVE IInv'
  BY <1>2 DEF AddKnown, Kicked
<1>3. ASSUME NEW i \in Infos, Remove(i) PROVE IInv'
  <2>1. TypeOK'
    BY <1>3 DEF Remove
  <2>2. SlotsOK'
    BY <1>3 DEF Remove
  <2>3. EntryHasOwner'
    BY <1>3 DEF Remove
  <2>4. OwnerIsListed'
    BY <1>3 DEF Remove
  <2>5. UpIsHandled'
    BY <1>3 DEF Remove
  <2>6. SocketsOK'
    BY <1>3 DEF Remove
  <2>7. QED
    BY <2>1, <2>2, <2>3, <2>4, <2>5, <2>6
<1>4. ASSUME NEW i \in Infos, RemoveIncoming(i) PROVE IInv'
  <2>1. TypeOK'
    <3>1. backoff' \in [Procs -> 0..BackoffLimit]
      BY <1>4 DEF RemoveIncoming
    <3>2. QED
      BY <1>4, <3>1 DEF RemoveIncoming
  <2>2. SlotsOK'
    BY <1>4 DEF RemoveIncoming
  <2>3. EntryHasOwner'
    BY <1>4 DEF RemoveIncoming
  <2>4. OwnerIsListed'
    BY <1>4 DEF RemoveIncoming
  <2>5. UpIsHandled'
    BY <1>4 DEF RemoveIncoming
  <2>6. SocketsOK'
    BY <1>4 DEF RemoveIncoming
  <2>7. QED
    BY <2>1, <2>2, <2>3, <2>4, <2>5, <2>6
<1>5. CASE RetryPeersNow
  BY <1>5 DEF RetryPeersNow, Kicked
<1>6. CASE Listen
  BY <1>6 DEF Listen
<1>7. CASE CloseListener
  BY <1>7 DEF CloseListener
<1>8. CASE Stop
  BY <1>8 DEF Stop
<1> HIDE DEF IInv
<1>9. QED
  BY <1>1, <1>2, <1>3, <1>4, <1>5, <1>6, <1>7, <1>8 DEF Api
\* The steps of a dialer.
LEMMA DialerIInv ==
  ASSUME NEW g \in Dialers, IInv, Dialer(g) PROVE IInv'
<1> USE LinksAssumption
    DEF IInv, TypeOK, SlotsOK, EntryHasOwner, OwnerIsListed, UpIsHandled,
        SocketsOK, InHandler, Procs, Infos, PCs, Kinds, SharedInfos
<1>1. CASE LoopTop(g)
  <2>1. TypeOK'
    BY <1>1 DEF LoopTop
  <2>2. SlotsOK'
    BY <1>1 DEF LoopTop
  <2>3. EntryHasOwner'
    BY <1>1 DEF LoopTop
  <2>4. OwnerIsListed'
    BY <1>1 DEF LoopTop
  <2>5. UpIsHandled'
    BY <1>1 DEF LoopTop
  <2>6. SocketsOK'
    BY <1>1 DEF LoopTop
  <2>7. QED
    BY <2>1, <2>2, <2>3, <2>4, <2>5, <2>6
<1>2. CASE DialOK(g)
  <2>1. TypeOK'
    BY <1>2 DEF DialOK
  <2>2. SlotsOK'
    BY <1>2 DEF DialOK
  <2>3. EntryHasOwner'
    BY <1>2 DEF DialOK
  <2>4. OwnerIsListed'
    BY <1>2 DEF DialOK
  <2>5. UpIsHandled'
    BY <1>2 DEF DialOK
  <2>6. SocketsOK'
    BY <1>2 DEF DialOK
  <2>7. QED
    BY <2>1, <2>2, <2>3, <2>4, <2>5, <2>6
<1>3. CASE DialFail(g)
  <2>1. TypeOK'
    BY <1>3 DEF DialFail
  <2>2. SlotsOK'
    BY <1>3 DEF DialFail
  <2>3. EntryHasOwner'
    BY <1>3 DEF DialFail
  <2>4. OwnerIsListed'
    BY <1>3 DEF DialFail
  <2>5. UpIsHandled'
    BY <1>3 DEF DialFail
  <2>6. SocketsOK'
    BY <1>3 DEF DialFail
  <2>7. QED
    BY <2>1, <2>2, <2>3, <2>4, <2>5, <2>6
<1>4. CASE RecordFailure(g)
  <2>1. TypeOK'
    BY <1>4 DEF RecordFailure, CountFailure
  <2>2. SlotsOK'
    BY <1>4 DEF RecordFailure, CountFailure
  <2>3. EntryHasOwner'
    BY <1>4 DEF RecordFailure, CountFailure
  <2>4. OwnerIsListed'
    BY <1>4 DEF RecordFailure, CountFailure
  <2>5. UpIsHandled'
    BY <1>4 DEF RecordFailure, CountFailure
  <2>6. SocketsOK'
    BY <1>4 DEF RecordFailure, CountFailure
  <2>7. QED
    BY <2>1, <2>2, <2>3, <2>4, <2>5, <2>6
<1>5. CASE BackoffOver(g)
  <2>1. TypeOK'
    BY <1>5 DEF BackoffOver
  <2>2. SlotsOK'
    BY <1>5 DEF BackoffOver
  <2>3. EntryHasOwner'
    BY <1>5 DEF BackoffOver
  <2>4. OwnerIsListed'
    BY <1>5 DEF BackoffOver
  <2>5. UpIsHandled'
    BY <1>5 DEF BackoffOver
  <2>6. SocketsOK'
    BY <1>5 DEF BackoffOver
  <2>7. QED
    BY <2>1, <2>2, <2>3, <2>4, <2>5, <2>6
<1>6. CASE BackoffCancelled(g)
  <2>1. TypeOK'
    BY <1>6 DEF BackoffCancelled
  <2>2. SlotsOK'
    BY <1>6 DEF BackoffCancelled
  <2>3. EntryHasOwner'
    BY <1>6 DEF BackoffCancelled
  <2>4. OwnerIsListed'
    BY <1>6 DEF BackoffCancelled
  <2>5. UpIsHandled'
    BY <1>6 DEF BackoffCancelled
  <2>6. SocketsOK'
    BY <1>6 DEF BackoffCancelled
  <2>7. QED
    BY <2>1, <2>2, <2>3, <2>4, <2>5, <2>6
<1>7. CASE Attach(g)
  <2>1. TypeOK'
    BY <1>7 DEF Attach
  <2>2. SlotsOK'
    BY <1>7 DEF Attach
  <2>3. EntryHasOwner'
    BY <1>7 DEF Attach
  <2>4. OwnerIsListed'
    BY <1>7 DEF Attach
  <2>5. UpIsHandled'
    BY <1>7 DEF Attach
  <2>6. SocketsOK'
    BY <1>7 DEF Attach
  <2>7. QED
    BY <2>1, <2>2, <2>3, <2>4, <2>5, <2>6
<1>8. CASE Detach(g)
  <2>1. TypeOK'
    BY <1>8 DEF Detach, CountFailure
  <2>2. SlotsOK'
    BY <1>8 DEF Detach, CountFailure
  <2>3. EntryHasOwner'
    BY <1>8 DEF Detach, CountFailure
  <2>4. OwnerIsListed'
    BY <1>8 DEF Detach, CountFailure
  <2>5. UpIsHandled'
    BY <1>8 DEF Detach, CountFailure
  <2>6. SocketsOK'
    BY <1>8 DEF Detach, CountFailure
  <2>7. QED
    BY <2>1, <2>2, <2>3, <2>4, <2>5, <2>6
<1>9. CASE Exit(g)
  <2>1. TypeOK'
    BY <1>9 DEF Exit, Unlink, Gone
  <2>2. SlotsOK'
    BY <1>9 DEF Exit, Unlink, Gone
  <2>3. EntryHasOwner'
    BY <1>9 DEF Exit, Unlink, Gone
  <2>4. OwnerIsListed'
    BY <1>9 DEF Exit, Unlink, Gone
  <2>5. UpIsHandled'
    BY <1>9 DEF Exit, Unlink, Gone
  <2>6. SocketsOK'
    BY <1>9 DEF Exit, Unlink, Gone
  <2>7. QED
    BY <2>1, <2>2, <2>3, <2>4, <2>5, <2>6
<1> HIDE DEF IInv
<1>10. QED
  BY <1>1, <1>2, <1>3, <1>4, <1>5, <1>6, <1>7, <1>8, <1>9 DEF Dialer

\* The steps of an accepter.
LEMMA AccepterIInv ==
  ASSUME NEW a \in Accepters, IInv, Accepter(a) PROVE IInv'
<1> USE LinksAssumption
    DEF IInv, TypeOK, SlotsOK, EntryHasOwner, OwnerIsListed, UpIsHandled,
        SocketsOK, InHandler, Procs, Infos, PCs, Kinds, SharedInfos
<1>1. CASE RejectDuplicate(a)
  <2>1. TypeOK'
    BY <1>1 DEF RejectDuplicate, Gone
  <2>2. SlotsOK'
    BY <1>1 DEF RejectDuplicate, Gone
  <2>3. EntryHasOwner'
    BY <1>1 DEF RejectDuplicate, Gone
  <2>4. OwnerIsListed'
    BY <1>1 DEF RejectDuplicate, Gone
  <2>5. UpIsHandled'
    BY <1>1 DEF RejectDuplicate, Gone
  <2>6. SocketsOK'
    BY <1>1 DEF RejectDuplicate, Gone
  <2>7. QED
    BY <2>1, <2>2, <2>3, <2>4, <2>5, <2>6
<1>2. CASE Register(a)
  <2>1. TypeOK'
    BY <1>2 DEF Register
  <2>2. SlotsOK'
    BY <1>2 DEF Register
  <2>3. EntryHasOwner'
    BY <1>2 DEF Register
  <2>4. OwnerIsListed'
    BY <1>2 DEF Register
  <2>5. UpIsHandled'
    BY <1>2 DEF Register
  <2>6. SocketsOK'
    BY <1>2 DEF Register
  <2>7. QED
    BY <2>1, <2>2, <2>3, <2>4, <2>5, <2>6
<1>3. CASE Drop(a)
  <2>1. TypeOK'
    BY <1>3 DEF Drop, Unlink, Gone
  <2>2. SlotsOK'
    BY <1>3 DEF Drop, Unlink, Gone
  <2>3. EntryHasOwner'
    BY <1>3 DEF Drop, Unlink, Gone
  <2>4. OwnerIsListed'
    BY <1>3 DEF Drop, Unlink, Gone
  <2>5. UpIsHandled'
    BY <1>3 DEF Drop, Unlink, Gone
  <2>6. SocketsOK'
    BY <1>3 DEF Drop, Unlink, Gone
  <2>7. QED
    BY <2>1, <2>2, <2>3, <2>4, <2>5, <2>6
<1> HIDE DEF IInv
<1>4. QED
  BY <1>1, <1>2, <1>3 DEF Accepter

\* The steps of the handler, on either side.
LEMMA HandlerIInv ==
  ASSUME NEW p \in Procs, IInv, Handler(p) \/ ConnLost(p) PROVE IInv'
<1> USE LinksAssumption
    DEF IInv, TypeOK, SlotsOK, EntryHasOwner, OwnerIsListed, UpIsHandled,
        SocketsOK, InHandler, Procs, Infos, PCs, Kinds, SharedInfos
<1>1. CASE HandshakeOK(p)
  <2>1. TypeOK'
    BY <1>1 DEF HandshakeOK
  <2>2. SlotsOK'
    BY <1>1 DEF HandshakeOK
  <2>3. EntryHasOwner'
    BY <1>1 DEF HandshakeOK
  <2>4. OwnerIsListed'
    BY <1>1 DEF HandshakeOK
  <2>5. UpIsHandled'
    BY <1>1 DEF HandshakeOK
  <2>6. SocketsOK'
    BY <1>1 DEF HandshakeOK
  <2>7. QED
    BY <2>1, <2>2, <2>3, <2>4, <2>5, <2>6
<1>2. CASE HandshakeFail(p)
  <2>1. TypeOK'
    BY <1>2 DEF HandshakeFail
  <2>2. SlotsOK'
    BY <1>2 DEF HandshakeFail
  <2>3. EntryHasOwner'
    BY <1>2 DEF HandshakeFail
  <2>4. OwnerIsListed'
    BY <1>2 DEF HandshakeFail
  <2>5. UpIsHandled'
    BY <1>2 DEF HandshakeFail
  <2>6. SocketsOK'
    BY <1>2 DEF HandshakeFail
  <2>7. QED
    BY <2>1, <2>2, <2>3, <2>4, <2>5, <2>6
<1>3. CASE HandlerReturn(p)
  <2>1. TypeOK'
    BY <1>3 DEF HandlerReturn
  <2>2. SlotsOK'
    BY <1>3 DEF HandlerReturn
  <2>3. EntryHasOwner'
    BY <1>3 DEF HandlerReturn
  <2>4. OwnerIsListed'
    BY <1>3 DEF HandlerReturn
  <2>5. UpIsHandled'
    BY <1>3 DEF HandlerReturn
  <2>6. SocketsOK'
    BY <1>3 DEF HandlerReturn
  <2>7. QED
    BY <2>1, <2>2, <2>3, <2>4, <2>5, <2>6
<1> HIDE DEF IInv
<1>4. QED
  BY <1>1, <1>2, <1>3 DEF Handler, HandlerEnds, ConnLost

\* Every step keeps the invariant.
LEMMA NextIInv == IInv /\ [Next]_vars => IInv'
<1> SUFFICES ASSUME IInv, [Next]_vars PROVE IInv'
  OBVIOUS
<1>1. CASE Api
  BY <1>1, ApiIInv
<1>2. CASE ClosePacketConn
  <2> USE LinksAssumption
      DEF IInv, TypeOK, SlotsOK, EntryHasOwner, OwnerIsListed, UpIsHandled,
          SocketsOK, InHandler, Procs, Infos, PCs, Kinds, SharedInfos
  <2>1. QED
    BY <1>2 DEF ClosePacketConn
<1>3. ASSUME NEW g \in Dialers, Dialer(g) PROVE IInv'
  BY <1>3, DialerIInv
<1>4. ASSUME NEW a \in Accepters, Accepter(a) PROVE IInv'
  BY <1>4, AccepterIInv
<1>5. ASSUME NEW p \in Procs, Handler(p) \/ ConnLost(p) PROVE IInv'
  BY <1>5, HandlerIInv
<1>6. ASSUME NEW a \in Accepters, NEW i \in AcceptInfos, Accept(a, i) PROVE IInv'
  <2> USE LinksAssumption
      DEF IInv, TypeOK, SlotsOK, EntryHasOwner, OwnerIsListed, UpIsHandled,
          SocketsOK, InHandler, Procs, Infos, PCs, Kinds, SharedInfos
  <2>1. TypeOK'
    BY <1>6 DEF Accept, Free
  <2>2. SlotsOK'
    BY <1>6 DEF Accept, Free
  <2>3. EntryHasOwner'
    BY <1>6 DEF Accept, Free
  <2>4. OwnerIsListed' /\ UpIsHandled' /\ SocketsOK'
    BY <1>6 DEF Accept, Free
  <2>5. QED
    BY <2>1, <2>2, <2>3, <2>4
<1>7. CASE UNCHANGED vars
  <2> USE LinksAssumption
      DEF IInv, TypeOK, SlotsOK, EntryHasOwner, OwnerIsListed, UpIsHandled,
          SocketsOK, InHandler, Procs, Infos, PCs, Kinds, SharedInfos
  <2>1. QED
    BY <1>7 DEF vars
<1>8. QED
  BY <1>1, <1>2, <1>3, <1>4, <1>5, <1>6, <1>7 DEF Next, Environment

\* The inductive invariant holds in every reachable state.
THEOREM LinksInvariant == Spec => []IInv
  BY InitIInv, NextIInv, PTL DEF Spec

(* The fields of the manager, of its goroutines and of its links keep their *)
(* types; the failure counter of backoffNow stays below its cap.            *)
THEOREM LinksTypeOK == Spec => []TypeOK
<1>1. IInv => TypeOK
  BY DEF IInv
<1>2. QED
  BY <1>1, LinksInvariant, PTL

(* Every entry of _links belongs to a goroutine that still runs and will    *)
(* delete it, whatever add, remove, accept and stop did in between.         *)
THEOREM EntriesOwned == Spec => []EntryHasOwner
<1>1. IInv => EntryHasOwner
  BY DEF IInv
<1>2. QED
  BY <1>1, LinksInvariant, PTL

\* No dialer of an ordinary peer is ever out of reach of links.remove.
THEOREM DialersListed == Spec => []RunningDialerIsListed
<1>1. IInv => RunningDialerIsListed
  BY DEF IInv, TypeOK, SlotsOK, OwnerIsListed, RunningDialerIsListed, Procs, Infos
<1>2. QED
  BY <1>1, LinksInvariant, PTL

\* An ordinary peer has at most one connection in the hands of a handler.
THEOREM NoSecondPeering == Spec => []SinglePeeringUnshared
<1>1. IInv => SinglePeeringUnshared
  BY DEF IInv, OwnerIsListed, SinglePeeringUnshared, SinglePeering
<1>2. QED
  BY <1>1, LinksInvariant, PTL

\* The early return that would leak a dialled socket is not taken.
THEOREM SocketsClosed == Spec => []NoLeakedSocket
<1>1. IInv => NoLeakedSocket
  BY DEF IInv, SocketsOK, NoLeakedSocket
<1>2. QED
  BY <1>1, LinksInvariant, PTL

\* A link of an ordinary peer is Up exactly while its own handler runs.
THEOREM UpMeansHandled == Spec => []UpIsHandled
<1>1. IInv => UpIsHandled
  BY DEF IInv
<1>2. QED
  BY <1>1, LinksInvariant, PTL
=============================================================================

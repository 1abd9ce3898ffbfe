------------------------------- MODULE Links -------------------------------
(***************************************************************************)
(* The peering manager of the node: src/core/link.go, with the part of     *)
(* core.go that stops the node and retries peers.                          *)
(*                                                                         *)
(* One actor (phony.Inbox) owns the map _links from link infos to link     *)
(* objects.  Around it run goroutines: one DIALER per successful call of   *)
(* links.add (the closure of lines 281-377) and one ACCEPTER per accepted  *)
(* connection (the closure of lines 459-530).  A goroutine touches _links  *)
(* and the underscore fields of a link only inside phony.Block, which is   *)
(* one atomic step; between two such blocks everything may interleave.     *)
(*                                                                         *)
(* Every goroutine creates at most one link object and holds at most one   *)
(* socket at a time, so goroutine p, the link object it creates and the    *)
(* linkConn it wraps share the identifier p.                               *)
(***************************************************************************)
EXTENDS Naturals, FiniteSets

CONSTANTS
    Dialers,      \* goroutine slots for links.add
    Accepters,    \* goroutine slots for accepted connections
    DialInfos,    \* linkInfo keys (uri, sintf) that links.add is called with
    AcceptInfos,  \* linkInfo keys an accepted connection can compute
    BackoffLimit, \* the cap on the failure counter: 32 in the code
    Nil           \* Go's nil

ASSUME LinksAssumption ==
    /\ Dialers \cap Accepters = {}
    /\ Nil \notin Dialers \cup Accepters \cup DialInfos \cup AcceptInfos
    /\ BackoffLimit \in Nat \ {0}

Procs == Dialers \cup Accepters
Infos == DialInfos \cup AcceptInfos

(* urlForLinkInfo drops the port of a link-local peer, so a connection such *)
(* a peer opens towards us has the same key as the one we open towards it.  *)
(* For every other peer the two keys differ in the port.                    *)
SharedInfos == DialInfos \cap AcceptInfos

VARIABLES
    links,      \* l._links: link info -> link object, Nil if there is no entry
    pc,         \* where each goroutine stands; "idle" is an unused slot
    info,       \* the link info each goroutine captured
    kind,       \* link.linkType of the link object
    obj,        \* the link object ("state") each goroutine works on
    conn,       \* link._conn of each link object
    cancelled,  \* the link's own context has been cancelled by remove
    sock,       \* the goroutine's socket
    backoff,    \* consecutive failures of a dialer
    listening,  \* a listener accepts connections
    node        \* life of the node

vars == <<links, pc, info, kind, obj, conn, cancelled, sock, backoff,
          listening, node>>

PCs == {"idle", "top", "dial", "dialed", "dialfailed", "backoff", "accepted",
        "shake", "live", "ended", "exit"}
Kinds == {"persistent", "ephemeral", "incoming", "none"}

TypeOK ==
    /\ links \in [Infos -> Procs \cup {Nil}]
    /\ pc \in [Procs -> PCs]
    /\ info \in [Procs -> Infos \cup {Nil}]
    /\ kind \in [Procs -> Kinds]
    /\ obj \in [Procs -> Procs \cup {Nil}]
    /\ conn \in [Procs -> Procs \cup {Nil}]
    /\ cancelled \in [Procs -> BOOLEAN]
    /\ sock \in [Procs -> {"none", "open", "closed"}]
    /\ backoff \in [Procs -> 0..BackoffLimit]
    /\ listening \in BOOLEAN
    /\ node \in {"running", "stopping", "stopped", "panicked"}

Init ==
    /\ links = [i \in Infos |-> Nil]
    /\ pc = [p \in Procs |-> "idle"]
    /\ info = [p \in Procs |-> Nil]
    /\ kind = [p \in Procs |-> "none"]
    /\ obj = [p \in Procs |-> Nil]
    /\ conn = [p \in Procs |-> Nil]
    /\ cancelled = [p \in Procs |-> FALSE]
    /\ sock = [p \in Procs |-> "none"]
    /\ backoff = [p \in Procs |-> 0]
    /\ listening = FALSE
    /\ node = "running"
-----------------------------------------------------------------------------
(* A slot can be given to a new goroutine once nothing refers to the objects *)
(* of the previous one: that is what the garbage collector guarantees.       *)
Free(p) ==
    /\ pc[p] = "idle"
    /\ \A q \in Procs : obj[q] # p /\ conn[q] # p

\* Mutants: a context not derived from the core's; remove that is not seen.
DoneOwnOnly(g) == cancelled[g]
DoneCoreOnly(g) == node # "running"

\* The link's context, or the core's from which it is derived, is cancelled.
Done(g) == cancelled[g] \/ node # "running"

\* What a goroutine leaves behind when it returns.
Gone(p) ==
    /\ pc' = [pc EXCEPT ![p] = "idle"]
    /\ info' = [info EXCEPT ![p] = Nil]
    /\ kind' = [kind EXCEPT ![p] = "none"]
    /\ obj' = [obj EXCEPT ![p] = Nil]
    /\ conn' = [conn EXCEPT ![p] = Nil]
    /\ cancelled' = [cancelled EXCEPT ![p] = FALSE]
    /\ sock' = [sock EXCEPT ![p] = "none"]
    /\ backoff' = [backoff EXCEPT ![p] = 0]

\* delete(l._links, info), if the entry is still this link object.
Unlink(p) ==
    links' = IF links[info[p]] = obj[p]
             THEN [links EXCEPT ![info[p]] = Nil] ELSE links

\* A kick is received only by a goroutine that sits in the select of backoffNow.
Kicked(L) == [p \in Procs |-> IF p \in L /\ pc[p] = "backoff" THEN "top" ELSE pc[p]]
-----------------------------------------------------------------------------
(* The API: blocks that run in the links actor.                            *)

(* links.add for an info that has an entry: kick its goroutine and return   *)
(* ErrLinkAlreadyConfigured.                                                *)
AddKnown(i) ==
    /\ links[i] # Nil
    /\ pc' = Kicked({links[i]})
    /\ UNCHANGED <<links, info, kind, obj, conn, cancelled, sock,
                   backoff, listening, node>>

\* Mutant: the look-up of lines 217-225 is missing.
AddNewUnchecked(g, i, k) ==
    /\ node # "panicked"
    /\ Free(g)
    /\ links' = [links EXCEPT ![i] = g]
    /\ pc' = [pc EXCEPT ![g] = "top"]
    /\ info' = [info EXCEPT ![g] = i]
    /\ kind' = [kind EXCEPT ![g] = k]
    /\ obj' = [obj EXCEPT ![g] = g]
    /\ UNCHANGED <<conn, cancelled, sock, backoff, listening, node>>

(* links.add for a new info: create the link object, store it, start the    *)
(* dialer.  (A URI whose options do not parse changes nothing.)             *)
AddNew(g, i, k) ==
    /\ node # "panicked"
    /\ links[i] = Nil
    /\ Free(g)
    /\ links' = [links EXCEPT ![i] = g]
    /\ pc' = [pc EXCEPT ![g] = "top"]
    /\ info' = [info EXCEPT ![g] = i]
    /\ kind' = [kind EXCEPT ![g] = k]
    /\ obj' = [obj EXCEPT ![g] = g]
    /\ UNCHANGED <<conn, cancelled, sock, backoff, listening, node>>

\* links.remove: cancel the link and close its connection, if it has one.
Remove(i) ==
    /\ links[i] # Nil
    /\ kind[links[i]] # "incoming"
    /\ LET c == conn[links[i]] IN
       sock' = IF c # Nil THEN [sock EXCEPT ![c] = "closed"] ELSE sock
    /\ cancelled' = [cancelled EXCEPT ![links[i]] = TRUE]
    /\ UNCHANGED <<links, pc, info, kind, obj, conn, backoff, listening, node>>

(* The link of an incoming connection is made without a cancel function     *)
(* (lines 482-486): calling it panics, nothing recovers in the actor, and   *)
(* the process is gone.                                                     *)
RemoveIncoming(i) ==
    /\ links[i] # Nil
    /\ kind[links[i]] = "incoming"
    /\ links' = [j \in Infos |-> Nil]
    /\ pc' = [p \in Procs |-> "idle"]
    /\ info' = [p \in Procs |-> Nil]
    /\ kind' = [p \in Procs |-> "none"]
    /\ obj' = [p \in Procs |-> Nil]
    /\ conn' = [p \in Procs |-> Nil]
    /\ cancelled' = [p \in Procs |-> FALSE]
    /\ sock' = [p \in Procs |-> "none"]
    /\ backoff' = [p \in Procs |-> 0]
    /\ listening' = FALSE
    /\ node' = "panicked"

\* Core.RetryPeersNow: kick every entry.
RetryPeersNow ==
    /\ pc' = Kicked({links[i] : i \in Infos})
    /\ UNCHANGED <<links, info, kind, obj, conn, cancelled, sock,
                   backoff, listening, node>>

\* links.listen has started its accept loop.
Listen ==
    /\ node = "running"
    /\ ~listening
    /\ listening' = TRUE
    /\ UNCHANGED <<links, pc, info, kind, obj, conn, cancelled, sock,
                   backoff, node>>

\* Listener.Close: Accept returns an error and the accept loop ends.
CloseListener ==
    /\ listening
    /\ listening' = FALSE
    /\ UNCHANGED <<links, pc, info, kind, obj, conn, cancelled, sock,
                   backoff, node>>

(* Core._close, first part: cancel the core's context and close the         *)
(* listeners recorded in tcp._listeners, tls._listeners and                 *)
(* unix._listeners.  links.listen records none of the listeners it makes.   *)
Stop ==
    /\ node = "running"
    /\ node' = "stopping"
    /\ UNCHANGED <<links, pc, info, kind, obj, conn, cancelled, sock,
                   backoff, listening>>

\* Core._close, second part: PacketConn.Close; HandleConn now returns.
ClosePacketConn ==
    /\ node = "stopping"
    /\ node' = "stopped"
    /\ UNCHANGED <<links, pc, info, kind, obj, conn, cancelled, sock,
                   backoff, listening>>
-----------------------------------------------------------------------------
(* A dialer: the goroutine of links.add.                                   *)

\* The check at the head of the loop, then the call of links.connect.
LoopTop(g) ==
    /\ pc[g] = "top"
    /\ pc' = [pc EXCEPT ![g] = IF Done(g) THEN "exit" ELSE "dial"]
    /\ UNCHANGED <<links, info, kind, obj, conn, cancelled, sock,
                   backoff, listening, node>>

(* The dial succeeds.  It may do so after a cancellation: the SOCKS dialer  *)
(* ignores its context, and in the others a connection can be ready at the  *)
(* moment the context ends.                                                 *)
DialOK(g) ==
    /\ pc[g] = "dial"
    /\ pc' = [pc EXCEPT ![g] = "dialed"]
    /\ sock' = [sock EXCEPT ![g] = "open"]
    /\ UNCHANGED <<links, info, kind, obj, conn, cancelled, backoff,
                   listening, node>>

\* Mutant: the test of linkType is the wrong way round.
DialFailGivesUp(g) ==
    /\ pc[g] = "dial"
    /\ pc' = [pc EXCEPT ![g] = IF kind[g] = "ephemeral" THEN "dialfailed" ELSE "exit"]
    /\ UNCHANGED <<links, info, kind, obj, conn, cancelled, sock,
                   backoff, listening, node>>

\* No address, no usable interface, refused, timed out or cancelled.
DialFail(g) ==
    /\ pc[g] = "dial"
    /\ pc' = [pc EXCEPT ![g] = IF kind[g] = "persistent" THEN "dialfailed" ELSE "exit"]
    /\ UNCHANGED <<links, info, kind, obj, conn, cancelled, sock,
                   backoff, listening, node>>

\* Mutant: the counter is not capped.
CountFailureUncapped(g) == backoff' = [backoff EXCEPT ![g] = @ + 1]

\* The first lines of backoffNow; the goroutine then waits in its select.
CountFailure(g) ==
    backoff' = [backoff EXCEPT ![g] = IF @ < BackoffLimit THEN @ + 1 ELSE @]

\* A persistent link records its error and backs off.
RecordFailure(g) ==
    /\ pc[g] = "dialfailed"
    /\ conn' = [conn EXCEPT ![g] = Nil]
    /\ pc' = [pc EXCEPT ![g] = "backoff"]
    /\ CountFailure(g)
    /\ UNCHANGED <<links, info, kind, obj, cancelled, sock, listening, node>>

\* Mutant: the select has no timer, only a kick or the contexts end it.
BackoffOverNoTimer(g) ==
    /\ pc[g] = "backoff"
    /\ Done(g)
    /\ pc' = [pc EXCEPT ![g] = "top"]
    /\ UNCHANGED <<links, info, kind, obj, conn, cancelled, sock,
                   backoff, listening, node>>

\* backoffNow returns true: the timer has run out.
BackoffOver(g) ==
    /\ pc[g] = "backoff"
    /\ pc' = [pc EXCEPT ![g] = "top"]
    /\ UNCHANGED <<links, info, kind, obj, conn, cancelled, sock,
                   backoff, listening, node>>

\* backoffNow returns false: the link or the node is going away.
BackoffCancelled(g) ==
    /\ pc[g] = "backoff"
    /\ Done(g)
    /\ pc' = [pc EXCEPT ![g] = "exit"]
    /\ UNCHANGED <<links, info, kind, obj, conn, cancelled, sock,
                   backoff, listening, node>>

\* Mutant: a link that was cancelled while it dialled returns at once.
AttachChecksContext(g) ==
    /\ pc[g] = "dialed"
    /\ conn' = [conn EXCEPT ![g] = g]
    /\ pc' = [pc EXCEPT ![g] = IF conn[g] = Nil /\ ~Done(g) THEN "shake" ELSE "exit"]
    /\ UNCHANGED <<links, info, kind, obj, cancelled, sock, backoff,
                   listening, node>>

(* Store the new connection in the link.  If the link had one, the          *)
(* goroutine returns; the field is overwritten and the socket stays open    *)
(* all the same.                                                            *)
Attach(g) ==
    /\ pc[g] = "dialed"
    /\ conn' = [conn EXCEPT ![g] = g]
    /\ pc' = [pc EXCEPT ![g] = IF conn[g] = Nil THEN "shake" ELSE "exit"]
    /\ UNCHANGED <<links, info, kind, obj, cancelled, sock, backoff,
                   listening, node>>

\* Mutant: the block of lines 361-366 is missing.
DetachKeepsConn(g) ==
    /\ g \in Dialers
    /\ pc[g] = "ended"
    /\ pc' = [pc EXCEPT ![g] = IF kind[g] = "persistent" THEN "backoff" ELSE "top"]
    /\ UNCHANGED <<links, info, kind, obj, conn, cancelled, sock, backoff,
                   listening, node>>

(* The handler has returned and the socket is closed: clear _conn, record   *)
(* the error (the handler's own errors only; it returns nil once HandleConn *)
(* was entered).  A persistent link backs off, any other one goes round the *)
(* loop again.                                                              *)
Detach(g) ==
    /\ g \in Dialers
    /\ pc[g] = "ended"
    /\ conn' = [conn EXCEPT ![g] = Nil]
    /\ \/ /\ kind[g] = "persistent"
          /\ pc' = [pc EXCEPT ![g] = "backoff"]
          /\ CountFailure(g)
       \/ /\ kind[g] # "persistent"
          /\ pc' = [pc EXCEPT ![g] = "top"]
          /\ UNCHANGED backoff
    /\ UNCHANGED <<links, info, kind, obj, cancelled, sock, listening, node>>

\* Mutant: the deferred block is missing.
ExitKeepsEntry(g) ==
    /\ pc[g] = "exit"
    /\ Gone(g)
    /\ UNCHANGED <<links, listening, node>>

\* The deferred block of the dialer.
Exit(g) ==
    /\ pc[g] = "exit"
    /\ Unlink(g)
    /\ Gone(g)
    /\ UNCHANGED <<listening, node>>
-----------------------------------------------------------------------------
(* An accepter: the goroutine that links.listen starts per connection.     *)

\* Accept returns a connection whose info is i.
Accept(a, i) ==
    /\ listening
    /\ Free(a)
    /\ pc' = [pc EXCEPT ![a] = "accepted"]
    /\ info' = [info EXCEPT ![a] = i]
    /\ sock' = [sock EXCEPT ![a] = "open"]
    /\ UNCHANGED <<links, kind, obj, conn, cancelled, backoff,
                   listening, node>>

\* The link of this info has a connection: the new one is dropped.
RejectDuplicate(a) ==
    /\ pc[a] = "accepted"
    /\ links[info[a]] # Nil
    /\ conn[links[info[a]]] # Nil
    /\ Gone(a)
    /\ UNCHANGED <<links, listening, node>>

\* Mutant: the look at _conn (lines 488-492) is missing.
RegisterUnchecked(a) ==
    /\ pc[a] = "accepted"
    /\ LET L == IF links[info[a]] = Nil THEN a ELSE links[info[a]] IN
       /\ kind' = IF L = a THEN [kind EXCEPT ![a] = "incoming"] ELSE kind
       /\ conn' = [conn EXCEPT ![L] = a]
       /\ links' = [links EXCEPT ![info[a]] = L]
       /\ obj' = [obj EXCEPT ![a] = L]
    /\ pc' = [pc EXCEPT ![a] = "shake"]
    /\ UNCHANGED <<info, cancelled, sock, backoff, listening, node>>

(* The connection goes into the link of this info, which is a dialer's link *)
(* between two connections, or a new one.                                   *)
Register(a) ==
    /\ pc[a] = "accepted"
    /\ LET L == IF links[info[a]] = Nil THEN a ELSE links[info[a]] IN
       /\ conn[L] = Nil
       /\ kind' = IF L = a THEN [kind EXCEPT ![a] = "incoming"] ELSE kind
       /\ conn' = [conn EXCEPT ![L] = a]
       /\ links' = [links EXCEPT ![info[a]] = L]
       /\ obj' = [obj EXCEPT ![a] = L]
    /\ pc' = [pc EXCEPT ![a] = "shake"]
    /\ UNCHANGED <<info, cancelled, sock, backoff, listening, node>>

(* The handler has returned: drop the entry.  The _conn of a dialer's link  *)
(* that the connection had joined is not cleared.                           *)
Drop(a) ==
    /\ a \in Accepters
    /\ pc[a] = "ended"
    /\ Unlink(a)
    /\ Gone(a)
    /\ UNCHANGED <<listening, node>>
-----------------------------------------------------------------------------
(* links.handler, on either side.                                          *)

(* The remote's metadata arrived within the deadline and passed every       *)
(* check.  The look at AllowedPublicKeys runs in the core's actor, which    *)
(* Core.Stop occupies until it is done.                                     *)
HandshakeOK(p) ==
    /\ pc[p] = "shake"
    /\ sock[p] = "open"
    /\ node # "stopping"
    /\ pc' = [pc EXCEPT ![p] = "live"]
    /\ backoff' = [backoff EXCEPT ![p] = 0]
    /\ UNCHANGED <<links, info, kind, obj, conn, cancelled, sock,
                   listening, node>>

\* Deadline, I/O error, bad password or version, or a key that is not wanted.
HandshakeFail(p) ==
    /\ pc[p] = "shake"
    /\ pc' = [pc EXCEPT ![p] = "ended"]
    /\ sock' = [sock EXCEPT ![p] = "closed"]
    /\ UNCHANGED <<links, info, kind, obj, conn, cancelled, backoff,
                   listening, node>>

\* HandleConn returns and the socket is closed.
HandlerReturn(p) ==
    /\ pc[p] = "live"
    /\ pc' = [pc EXCEPT ![p] = "ended"]
    /\ sock' = [sock EXCEPT ![p] = "closed"]
    /\ UNCHANGED <<links, info, kind, obj, conn, cancelled, backoff,
                   listening, node>>

\* It must return: the socket was closed by us, or the PacketConn was.
HandlerEnds(p) == (sock[p] = "closed" \/ node = "stopped") /\ HandlerReturn(p)

\* The remote or the network ends the connection, or ironwood times it out.
ConnLost(p) == HandlerReturn(p)
-----------------------------------------------------------------------------
Api ==
    \/ \E i \in DialInfos, g \in Dialers, k \in {"persistent", "ephemeral"} : AddNew(g, i, k)
    \/ \E i \in DialInfos : AddKnown(i)
    \/ \E i \in Infos : Remove(i) \/ RemoveIncoming(i)
    \/ RetryPeersNow
    \/ Listen
    \/ CloseListener
    \/ Stop

Dialer(g) ==
    \/ LoopTop(g)
    \/ DialOK(g)
    \/ DialFail(g)
    \/ RecordFailure(g)
    \/ BackoffOver(g)
    \/ BackoffCancelled(g)
    \/ Attach(g)
    \/ Detach(g)
    \/ Exit(g)

Accepter(a) ==
    \/ RejectDuplicate(a)
    \/ Register(a)
    \/ Drop(a)

Handler(p) ==
    \/ HandshakeOK(p)
    \/ HandshakeFail(p)
    \/ HandlerEnds(p)

\* What the other side and the network decide.
Environment ==
    \/ \E a \in Accepters, i \in AcceptInfos : Accept(a, i)
    \/ \E p \in Procs : ConnLost(p)

Next ==
    \/ Api
    \/ ClosePacketConn
    \/ \E g \in Dialers : Dialer(g)
    \/ \E a \in Accepters : Accepter(a)
    \/ \E p \in Procs : Handler(p)
    \/ Environment

(* The Go scheduler runs every goroutine that can run, an actor handles     *)
(* every message it is sent, and dial, handshake and backoff are bounded by *)
(* timers.  Nobody has to call the API or to connect to us, and a           *)
(* connection may stay up for ever.                                         *)
Fairness ==
    /\ WF_vars(ClosePacketConn)
    /\ \A g \in Dialers : WF_vars(Dialer(g))
    /\ \A a \in Accepters : WF_vars(Accepter(a))
    /\ \A p \in Procs : WF_vars(Handler(p))

Spec == Init /\ [][Next]_vars /\ Fairness
-----------------------------------------------------------------------------
(* Safety.  The promises below are about infos that are not shared between *)
(* the two directions, unless they say otherwise: for shared (link-local)  *)
(* infos several of them are false, see NoDuplicatePeering.                *)

InHandler(p) == pc[p] \in {"shake", "live", "ended"}

(* Every entry of _links, of a shared info too, is a link whose goroutine   *)
(* is still running and will delete it: an entry nobody would ever delete   *)
(* makes links.add refuse that peer for good (lines 217-225).               *)
EntryHasOwner ==
    \A i \in Infos : links[i] # Nil =>
        LET L == links[i] IN pc[L] # "idle" /\ info[L] = i /\ obj[L] = L

(* A dialer that still runs is the entry of its info, through every race of *)
(* add, remove, retry and stop: there is never a second dialer of the same  *)
(* peer, nor one that remove cannot find.                                   *)
RunningDialerIsListed ==
    \A g \in Dialers :
        pc[g] # "idle" /\ info[g] \notin SharedInfos => links[info[g]] = g

(* At most one connection per info is in the hands of a handler             *)
(* ("If this node is already connected to us, just drop the connection").   *)
SinglePeering(S) ==
    \A p, q \in Procs :
        InHandler(p) /\ InHandler(q) /\ info[p] = info[q] /\ info[p] \in S => p = q

SinglePeeringUnshared == SinglePeering(Infos \ SharedInfos)

(* "This prevents duplicate peerings" (lines 473-475), for every info.      *)
NoDuplicatePeering == SinglePeering(Infos)

(* A dialer never returns with its socket open: the early return of lines   *)
(* 350-352 (a connection "has come up in this time") is not taken.          *)
NoLeakedSocket ==
    \A g \in Dialers : pc[g] = "exit" /\ info[g] \notin SharedInfos => sock[g] # "open"

(* What GetPeers reports as Up is a connection that a handler is working    *)
(* on, for the very link that reports it; and the other way round.          *)
UpIsHandled ==
    \A p \in Procs : pc[p] # "idle" /\ info[p] \notin SharedInfos =>
        /\ conn[p] \in {p, Nil}
        /\ conn[p] = p <=> InHandler(p)
-----------------------------------------------------------------------------
(* The inductive invariant behind the promises above.                      *)

\* What the slots of the two sorts of goroutines hold.
SlotsOK ==
    /\ \A p \in Procs : pc[p] = "idle" =>
         info[p] = Nil /\ obj[p] = Nil /\ conn[p] = Nil /\ kind[p] = "none"
           /\ ~cancelled[p] /\ sock[p] # "open" /\ backoff[p] = 0
    /\ \A g \in Dialers : pc[g] # "idle" =>
         /\ pc[g] # "accepted"
         /\ info[g] \in DialInfos
         /\ obj[g] = g
         /\ kind[g] \in {"persistent", "ephemeral"}
    /\ \A a \in Accepters :
         /\ pc[a] \in {"idle", "accepted", "shake", "live", "ended"}
         /\ pc[a] # "idle" => info[a] \in AcceptInfos
         /\ pc[a] = "accepted" => obj[a] = Nil /\ conn[a] = Nil
         /\ InHandler(a) =>
              \/ obj[a] = a /\ conn[a] = a /\ kind[a] = "incoming"
              \/ obj[a] \in Dialers /\ conn[a] = Nil /\ info[a] \in SharedInfos

(* A goroutine that counts, a running dialer or an accepter in its handler, *)
(* is the entry of its info.                                                *)
OwnerIsListed ==
    \A p \in Procs :
        /\ info[p] \in Infos \ SharedInfos
        /\ p \in Dialers \/ InHandler(p)
        => links[info[p]] = p

\* Where a dialer has an open socket.
SocketsOK ==
    \A g \in Dialers : info[g] \notin SharedInfos /\ sock[g] = "open" =>
        pc[g] \in {"dialed", "shake", "live"}

\* A persistent link gives up only because it was told to.
GivesUpWhenDone ==
    \A g \in Dialers :
        pc[g] = "exit" /\ kind[g] = "persistent" /\ info[g] \notin SharedInfos => Done(g)

IInv ==
    /\ TypeOK
    /\ SlotsOK
    /\ EntryHasOwner
    /\ OwnerIsListed
    /\ UpIsHandled
    /\ SocketsOK
-----------------------------------------------------------------------------
(* The refinement: the links of unshared dial infos implement PeerList.    *)
Peers == DialInfos \ SharedInfos
Listed == {i \in Peers : links[i] # Nil}
Kept == {i \in Listed : kind[links[i]] = "persistent"}
Up == {i \in Listed : conn[links[i]] # Nil}
Leaving == {i \in Listed : cancelled[links[i]]}
Halted == node # "running"

PL == INSTANCE PeerList WITH
    listed <- Listed, kept <- Kept, up <- Up, leaving <- Leaving, halted <- Halted

(* "This adds the peer to the peer list, so that they will be called again  *)
(* if the connection drops" (api.go): a persistent peer leaves the list     *)
(* only after RemovePeer or Stop, and never with a connection.              *)
ImplementsPeerList == PL!Spec
-----------------------------------------------------------------------------
(* Liveness.                                                               *)

(* A persistent dialer that backs off dials again, unless it is cancelled.  *)
PersistentRetries ==
    \A g \in Dialers : pc[g] = "backoff" ~> pc[g] = "dial" \/ Done(g)

(* Once the node stops, every goroutine that runs comes to its end.         *)
StopDrains ==
    \A p \in Procs :
        node = "stopping" /\ pc[p] # "idle" ~> pc[p] = "idle"

(* A removed peer goes away, if remove found its connection, or found it    *)
(* neither dialling nor about to store a connection.                        *)
RemoveStops ==
    \A g \in Dialers :
        /\ cancelled[g]
        /\ \/ pc[g] \in {"top", "dialfailed", "backoff"}
           \/ InHandler(g) /\ sock[g] = "closed"
        ~> pc[g] = "idle"

(* The same without the condition: "we will close the connection and stop   *)
(* it from retrying" (lines 393-394).                                       *)
RemovedPeerGoes ==
    \A g \in Dialers : cancelled[g] ~> pc[g] = "idle"

(* "if the connection drops, the peer will not be called again              *)
(* automatically" (CallPeer, api.go:206-207).                               *)
CalledOnce ==
    [][\A g \in Dialers :
         kind[g] = "ephemeral" /\ pc[g] = "ended" => pc'[g] # "top"]_vars

(* "Stop shuts down the Yggdrasil node" (core.go:148): it accepts no         *)
(* connection any more.                                                     *)
StoppedAcceptsNothing ==
    [][node = "stopped" => \A a \in Accepters : pc[a] = "idle" => pc'[a] = "idle"]_vars
=============================================================================

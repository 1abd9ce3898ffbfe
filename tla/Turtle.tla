------------------------------- MODULE Turtle -------------------------------
(***************************************************************************)
(* The turtle router (turtle/p3turtle.cc) of the nodes of a network of     *)
(* friends: requests for a tunnel to whoever serves a hash flood the       *)
(* network, the answers come back along the way of the request and leave a *)
(* tunnel at every node they pass, and data then follows the tunnel.       *)
(*                                                                         *)
(* The router's own thread (tick) handles the incoming items, digs tunnels *)
(* and washes; the threads of the client services call monitorTunnels,     *)
(* stopMonitoringTunnels and sendTurtleData.  The maps are protected by     *)
(* mTurtleMtx.  forceReDiggTunnels looks a hash up, lets go of the mutex    *)
(* and then digs; its only caller (p3GxsTunnelService::tick) is on the      *)
(* router's own thread, which alone removes hashes, so that it is one step. *)
(*                                                                         *)
(* Left open: to which friends a request is forwarded (probabilities, slow *)
(* links and the depth limit exclude any of them) and when a tunnel or a   *)
(* request is too old.                                                     *)
(***************************************************************************)
EXTENDS Naturals, Sequences, FiniteSets, Functions

CONSTANTS
    Nodes,
    Friends,      \* Friends[n]: the nodes that n is connected to
    Hashes,
    Serves,       \* Serves[n]: the hashes for which a service of n takes requests
    Wants,        \* Wants[n]: the hashes that the services of n may ask for
    MaxRequests,  \* how many request ids are used; ids are random and do not collide
    MaxItems,     \* how many items are under way
    MaxData,      \* how many of them are data, which changes nothing at the nodes it passes
    Nil

ASSUME TurtleAssumption ==
    /\ Friends \in [Nodes -> SUBSET Nodes]
    /\ \A n \in Nodes : n \notin Friends[n] /\ \A m \in Friends[n] : n \in Friends[m]
    /\ Serves \in [Nodes -> SUBSET Hashes] /\ Wants \in [Nodes -> SUBSET Hashes]
    /\ MaxRequests \in Nat /\ MaxItems \in Nat /\ MaxData \in Nat
    /\ Nil \notin Nodes \cup Hashes

VARIABLES
    hashes,    \* _incoming_file_hashes of each node, by hash
    toRemove,  \* _hashes_to_remove of each node
    requests,  \* _tunnel_requests_origins of each node, by request id
    tunnels,   \* _local_tunnels of each node, by tunnel id
    vpeers,    \* _virtual_peers of each node: the tunnels whose virtual peer is there
    outgoing,  \* _outgoing_tunnel_client_services of each node: its tunnels
    clients,   \* the virtual peers that the client services of each node know of
    net,       \* the items under way
    nextId     \* the next request id

vars == <<hashes, toRemove, requests, tunnels, vpeers, outgoing, clients, net, nextId>>

RequestIds == 1..MaxRequests

(* The tunnel id is made of the prints of the nodes that the request went   *)
(* through and of the node that serves it: one id for one route and hash.   *)
TunnelId(hash, partial, server) == [hash |-> hash, route |-> Append(partial, server)]

Init ==
    /\ hashes = [n \in Nodes |-> <<>>]
    /\ toRemove = [n \in Nodes |-> {}]
    /\ requests = [n \in Nodes |-> <<>>]
    /\ tunnels = [n \in Nodes |-> <<>>]
    /\ vpeers = [n \in Nodes |-> {}]
    /\ outgoing = [n \in Nodes |-> {}]
    /\ clients = [n \in Nodes |-> {}]
    /\ net = {}
    /\ nextId = 1

\* A map with a value for a key, whether the key was there or not.
Put(map, key, value) == [k \in DOMAIN map \cup {key} |-> IF k = key THEN value ELSE map[k]]

Without(map, keys) == Restrict(map, DOMAIN map \ keys)

Send(items, without) ==
    /\ net' = (net \ without) \cup items
    /\ Cardinality(net') <= MaxItems
-----------------------------------------------------------------------------
(* Requests.                                                               *)

\* Mutant: the id is not changed on the way, so that all routes share it.
PerturbNot(partial, n) == IF partial = <<>> THEN <<n>> ELSE partial

\* generatePersonalFilePrint of the id so far and the bias of the node.
Perturb(partial, n) == Append(partial, n)

\* The request goes to some of the friends, but not to the one it came from.
ForwardedBy(n, from, req, hash, partial, friends) ==
    {[kind |-> "open", from |-> n, to |-> f, req |-> req, hash |-> hash,
      partial |-> Perturb(partial, n)] : f \in friends \ {from}}

\* diggTunnel: a request of our own, for a hash that its callers have found.
DiggTunnel(n, h) ==
    /\ nextId \in RequestIds
    /\ nextId' = nextId + 1
    /\ hashes' = [hashes EXCEPT ![n][h].last_request = nextId]
    /\ requests' = [requests EXCEPT ![n] =
                        Put(@, nextId, [origin |-> n, responses |-> {}, recent |-> TRUE])]
    /\ \E friends \in SUBSET Friends[n] :
         Send(ForwardedBy(n, n, nextId, h, <<>>, friends), {})
    /\ UNCHANGED <<toRemove, tunnels, vpeers, outgoing, clients>>

(* manageTunnels: some hash that has no tunnels, or has had them for long,  *)
(* is due; or forceReDiggTunnels.                                           *)
ManageTunnels(n, h) ==
    /\ h \in DOMAIN hashes[n]
    /\ DiggTunnel(n, h)

\* handleTunnelRequest, of an item.
HandleTunnelRequest(n, i) ==
    LET tid == TunnelId(i.hash, i.partial, n)
        end == [src |-> i.from, dst |-> n, hash |-> i.hash]
        ok == [kind |-> "ok", from |-> n, to |-> i.from, req |-> i.req, tid |-> tid]
    IN
    /\ i \in net /\ i.kind = "open" /\ i.to = n
    /\ \/ /\ i.req \in DOMAIN requests[n]
          /\ net' = net \ {i}
          /\ UNCHANGED <<requests, tunnels, vpeers, outgoing, clients>>
       \/ /\ i.req \notin DOMAIN requests[n]
          /\ requests' = [requests EXCEPT ![n] =
                            Put(@, i.req, [origin |-> i.from, responses |-> {}, recent |-> TRUE])]
          /\ \/ /\ i.hash \in Serves[n]
                /\ Send({ok}, {i})
                /\ tunnels' = [tunnels EXCEPT ![n] = Put(@, tid, end)]
                /\ vpeers' = [vpeers EXCEPT ![n] = @ \cup {tid}]
                /\ outgoing' = [outgoing EXCEPT ![n] = @ \cup {tid}]
                /\ clients' = [clients EXCEPT ![n] = @ \cup {tid}]
             \/ /\ i.hash \notin Serves[n]
                /\ \E friends \in SUBSET Friends[n] :
                     Send(ForwardedBy(n, i.from, i.req, i.hash, i.partial, friends), {i})
                /\ UNCHANGED <<tunnels, vpeers, outgoing, clients>>
    /\ UNCHANGED <<hashes, toRemove, nextId>>

\* Mutant: the side to the source is not filled in.
NoteTunnelHalf(n, i) == Put(tunnels[n], i.tid, [src |-> Nil, dst |-> i.from, hash |-> Nil])

(* The tunnel of an answer is noted at every node, before the answer is     *)
(* found to be too late; a tunnel that is there already stays as it is.     *)
NoteTunnel(n, i) ==
    IF i.tid \in DOMAIN tunnels[n] THEN tunnels[n]
    ELSE Put(tunnels[n], i.tid, [src |-> requests[n][i.req].origin, dst |-> i.from, hash |-> Nil])

\* Mutant: the tunnel is not listed under its hash.
ListTunnelNot(n, h, tid) == hashes[n][h]

ListTunnel(n, h, tid) == [hashes[n][h] EXCEPT !.tunnels = @ \cup {tid}]

(* handleTunnelResult: the answer to our own request, or one to be passed   *)
(* on.  Answers are late once TUNNEL_REQUESTS_RESULT_TIME has passed.        *)
HandleTunnelResult(n, i, late) ==
    LET r == requests[n][i.req]
        known == i.req \in DOMAIN requests[n]
        noted == NoteTunnel(n, i)
        asked == {h \in DOMAIN hashes[n] : hashes[n][h].last_request = i.req}
    IN
    /\ i \in net /\ i.kind = "ok" /\ i.to = n
    /\ \/ /\ ~known \/ i.tid \in r.responses
          /\ net' = net \ {i}
          /\ UNCHANGED <<hashes, requests, tunnels, vpeers, clients>>
       \/ /\ known /\ i.tid \notin r.responses
          /\ late \/ r.recent
          /\ requests' = [requests EXCEPT ![n][i.req] =
                            [r EXCEPT !.responses = @ \cup {i.tid}, !.recent = ~late]]
          /\ \/ /\ late \/ (r.origin = n /\ asked = {})
                /\ net' = net \ {i}
                /\ tunnels' = [tunnels EXCEPT ![n] = noted]
                /\ UNCHANGED <<hashes, vpeers, clients>>
             \/ /\ ~late /\ r.origin = n
                /\ \E h \in asked :
                     /\ hashes' = [hashes EXCEPT ![n][h] = ListTunnel(n, h, i.tid)]
                     /\ tunnels' = [tunnels EXCEPT ![n] =
                                      Put(noted, i.tid, [noted[i.tid] EXCEPT !.hash = h])]
                /\ clients' = [clients EXCEPT ![n] = @ \cup {i.tid}]
                /\ vpeers' = [vpeers EXCEPT ![n] = @ \cup {i.tid}]
                /\ net' = net \ {i}
             \/ /\ ~late /\ r.origin # n
                /\ Send({[i EXCEPT !.from = n, !.to = r.origin]}, {i})
                /\ tunnels' = [tunnels EXCEPT ![n] = noted]
                /\ UNCHANGED <<hashes, vpeers, clients>>
    /\ UNCHANGED <<toRemove, outgoing, nextId>>
-----------------------------------------------------------------------------
(* Data.                                                                   *)

\* routeGenericTunnelItem: passed on, or for us, or not from where it should be.
RouteGenericTunnelItem(n, i) ==
    LET t == tunnels[n][i.tid]
        on == [i EXCEPT !.from = n, !.to = IF i.from = t.dst THEN t.src ELSE t.dst]
    IN
    /\ i \in net /\ i.kind = "data" /\ i.to = n
    /\ \/ /\ i.tid \in DOMAIN tunnels[n]
          /\ (i.from = t.dst /\ t.src # n) \/ (i.from = t.src /\ t.dst # n)
          /\ Send({on}, {i})
       \/ /\ i.tid \in DOMAIN tunnels[n] =>
               ~(i.from = t.dst /\ t.src # n) /\ ~(i.from = t.src /\ t.dst # n)
          /\ net' = net \ {i}
    /\ UNCHANGED <<hashes, toRemove, requests, tunnels, vpeers, outgoing, clients, nextId>>

\* sendTurtleData to a virtual peer that the client knows of.
SendTurtleData(n, tid) ==
    LET t == tunnels[n][tid] IN
    /\ tid \in clients[n] /\ tid \in vpeers[n] /\ tid \in DOMAIN tunnels[n]
    /\ n \in {t.src, t.dst}
    /\ Cardinality({i \in net : i.kind = "data"}) < MaxData
    /\ Send({[kind |-> "data", from |-> n, to |-> IF t.src = n THEN t.dst ELSE t.src,
              tid |-> tid]}, {})
    /\ UNCHANGED <<hashes, toRemove, requests, tunnels, vpeers, outgoing, clients, nextId>>

\* An item is lost with the connection to the friend, or dropped while routing is off.
Lose(i) ==
    /\ i \in net
    /\ net' = net \ {i}
    /\ UNCHANGED <<hashes, toRemove, requests, tunnels, vpeers, outgoing, clients, nextId>>
-----------------------------------------------------------------------------
(* Monitoring.                                                             *)

MonitorTunnels(n, h) ==
    /\ h \in Wants[n]
    /\ h \notin DOMAIN hashes[n] \/ h \in toRemove[n]
    /\ toRemove' = [toRemove EXCEPT ![n] = @ \ {h}]
    /\ hashes' = IF h \in DOMAIN hashes[n] THEN hashes
                 ELSE [hashes EXCEPT ![n] =
                         Put(@, h, [tunnels |-> {}, last_request |-> 0])]
    /\ UNCHANGED <<requests, tunnels, vpeers, outgoing, clients, net, nextId>>

StopMonitoringTunnels(n, h) ==
    /\ h \in Wants[n] /\ h \notin toRemove[n]
    /\ toRemove' = [toRemove EXCEPT ![n] = @ \cup {h}]
    /\ UNCHANGED <<hashes, requests, tunnels, vpeers, outgoing, clients, net, nextId>>

(* locked_closeTunnel, of several tunnels: the ends lose the virtual peer   *)
(* and tell the client service, if the hash is still there.                 *)
Starting(n, tids) == {t \in tids : tunnels[n][t].src = n}

Ending(n, tids) == {t \in tids : tunnels[n][t].src # n /\ tunnels[n][t].dst = n}

CloseTunnels(n, tids, gone) ==
    LET ended == Ending(n, tids) \cap outgoing[n]
        told == {t \in Starting(n, tids) : tunnels[n][t].hash \in DOMAIN hashes[n]}
        left == [h \in DOMAIN hashes[n] \ gone |->
                   [hashes[n][h] EXCEPT !.tunnels = @ \ tids]]
    IN  /\ tunnels' = [tunnels EXCEPT ![n] = Without(@, tids)]
        /\ vpeers' = [vpeers EXCEPT ![n] = @ \ (Starting(n, tids) \cup ended)]
        /\ outgoing' = [outgoing EXCEPT ![n] = @ \ ended]
        /\ hashes' = [hashes EXCEPT ![n] = left]
        /\ clients' = [clients EXCEPT ![n] = @ \ (told \cup ended)]

\* Mutant: a hash goes without its tunnels.
TunnelsOfNone(n, gone) == {}

TunnelsOf(n, gone) == (UNION {hashes[n][h].tunnels : h \in gone}) \cap DOMAIN tunnels[n]

(* autoWash: the hashes that are no longer wanted go with their tunnels,    *)
(* then the tunnels that are too old.  Requests are forgotten after ten     *)
(* minutes, when no item of them is under way any more: that is not seen.   *)
AutoWash(n, old) ==
    LET gone == toRemove[n] \cap DOMAIN hashes[n] IN
    /\ toRemove[n] # {} \/ old # {}
    /\ CloseTunnels(n, old \cup TunnelsOf(n, gone), gone)
    /\ toRemove' = [toRemove EXCEPT ![n] = {}]
    /\ UNCHANGED <<requests, net, nextId>>

Next ==
    \/ \E n \in Nodes : \E h \in DOMAIN hashes[n] : ManageTunnels(n, h)
    \/ \E n \in Nodes, i \in net : HandleTunnelRequest(n, i)
    \/ \E n \in Nodes, i \in net, late \in BOOLEAN : HandleTunnelResult(n, i, late)
    \/ \E n \in Nodes, i \in net : RouteGenericTunnelItem(n, i)
    \/ \E n \in Nodes : \E tid \in clients[n] : SendTurtleData(n, tid)
    \/ \E i \in net : Lose(i)
    \/ \E n \in Nodes : \E h \in Wants[n] : MonitorTunnels(n, h)
    \/ \E n \in Nodes : \E h \in Wants[n] : StopMonitoringTunnels(n, h)
    \/ \E n \in Nodes : \E old \in SUBSET DOMAIN tunnels[n] : AutoWash(n, old)

Spec == Init /\ [][Next]_vars
-----------------------------------------------------------------------------
TypeOK ==
    /\ nextId \in 1 .. MaxRequests + 1
    /\ toRemove \in [Nodes -> SUBSET Hashes]
    /\ \A n \in Nodes :
         /\ DOMAIN hashes[n] \subseteq Wants[n]
         /\ \A h \in DOMAIN hashes[n] : hashes[n][h].last_request \in 0..MaxRequests
         /\ DOMAIN requests[n] \subseteq RequestIds
         /\ \A r \in DOMAIN requests[n] : requests[n][r].origin \in Friends[n] \cup {n}
         /\ \A t \in DOMAIN tunnels[n] :
              {tunnels[n][t].src, tunnels[n][t].dst} \subseteq Friends[n] \cup {n}

(* Data fits the tunnel it comes in: routeGenericTunnelItem never meets an  *)
(* item from a friend that is neither end of the hop, however the tunnel    *)
(* was dug, closed and dug again at the nodes on the way.                   *)
DataFitsTunnel ==
    \A i \in net : i.kind = "data" /\ i.tid \in DOMAIN tunnels[i.to] =>
        i.from \in {tunnels[i.to][i.tid].src, tunnels[i.to][i.tid].dst}

(* Neighbours on a tunnel agree about it.                                   *)
HopsAgree ==
    \A n, m \in Nodes : \A t \in DOMAIN tunnels[n] \cap DOMAIN tunnels[m] :
        n # m => (tunnels[n][t].dst = m <=> tunnels[m][t].src = n)

(* What a hash lists is a tunnel that starts here for this hash, and all of *)
(* them are listed: getSourceVirtualPeersList calls anything else weird.    *)
(* A node may serve the hash as well: tunnels that end here are not listed. *)
ListedTunnels ==
    \A n \in Nodes :
        /\ \A h \in DOMAIN hashes[n] : \A t \in hashes[n][h].tunnels :
             /\ t \in DOMAIN tunnels[n] /\ t.hash = h
             /\ tunnels[n][t].src = n /\ tunnels[n][t].hash = h
        /\ \A t \in DOMAIN tunnels[n] : tunnels[n][t].src = n /\ tunnels[n][t].hash # Nil =>
             tunnels[n][t].hash \in DOMAIN hashes[n] /\ t \in hashes[n][tunnels[n][t].hash].tunnels

(* The client services know of the virtual peers that are there, and of no  *)
(* others: none is left behind when its tunnel goes, or its hash.           *)
ClientsInformed ==
    \A n \in Nodes : clients[n] = vpeers[n] /\ vpeers[n] \subseteq DOMAIN tunnels[n]
=============================================================================

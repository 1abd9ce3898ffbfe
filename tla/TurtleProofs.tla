---------------------------- MODULE TurtleProofs ----------------------------
(***************************************************************************)
(* Tunnels are consistent for every network of friends, every placement of *)
(* hashes and services and any number of requests.                         *)
(*                                                                         *)
(* The argument is about routes.  A request passes a node once, because    *)
(* _tunnel_requests_origins remembers it; so the nodes that the partial    *)
(* tunnel id was made from form a path without repetitions, along which    *)
(* each node remembers the one before it.  The answer goes back along this *)
(* path, so what every node notes are its two neighbours on it.            *)
(***************************************************************************)
EXTENDS Turtle, TLAPS

-----------------------------------------------------------------------------
(* Types of everything a node holds and of the items under way.            *)

TunnelIds == [hash : Hashes, route : Seq(Nodes)]

HashInfos == [tunnels : SUBSET TunnelIds, last_request : 0..MaxRequests]

Requests == [origin : Nodes, responses : SUBSET TunnelIds, recent : BOOLEAN]

Tunnels == [src : Nodes, dst : Nodes, hash : Hashes \cup {Nil}]

OpenItems == [kind : {"open"}, from : Nodes, to : Nodes, req : RequestIds,
              hash : Hashes, partial : Seq(Nodes)]

OkItems == [kind : {"ok"}, from : Nodes, to : Nodes, req : RequestIds, tid : TunnelIds]

DataItems == [kind : {"data"}, from : Nodes, to : Nodes, tid : TunnelIds]

ShapeOK ==
    /\ DOMAIN hashes = Nodes /\ DOMAIN requests = Nodes /\ DOMAIN tunnels = Nodes
    /\ vpeers \in [Nodes -> SUBSET TunnelIds]
    /\ outgoing \in [Nodes -> SUBSET TunnelIds]
    /\ clients \in [Nodes -> SUBSET TunnelIds]
    /\ \A n \in Nodes :
         /\ \A h \in DOMAIN hashes[n] : hashes[n][h] \in HashInfos
         /\ \A r \in DOMAIN requests[n] : requests[n][r] \in Requests
         /\ DOMAIN tunnels[n] \subseteq TunnelIds
         /\ \A t \in DOMAIN tunnels[n] :
              tunnels[n][t] \in Tunnels /\ ~(tunnels[n][t].src = n /\ tunnels[n][t].dst = n)
    /\ net \subseteq OpenItems \cup OkItems \cup DataItems
    /\ \A i \in net : i.to \in Friends[i.from]

-----------------------------------------------------------------------------
(* Routes.                                                                 *)

\* The neighbours on a route; the ends are their own.
Before(route, k) == IF k = 1 THEN route[1] ELSE route[k - 1]

After(route, k) == IF k = Len(route) THEN route[k] ELSE route[k + 1]

\* No node is on the route twice.
Straight(route) == \A j, k \in 1..Len(route) : route[j] = route[k] => j = k

\* Every node on the route has the request, from the node before it.
RequestsAlong(req, route) ==
    \A k \in 1..Len(route) :
        req \in DOMAIN requests[route[k]] /\ requests[route[k]][req].origin = Before(route, k)

\* An id that is not yet used is nowhere.
IdsUsed ==
    /\ \A n \in Nodes :
         /\ \A r \in DOMAIN requests[n] : r < nextId
         /\ \A h \in DOMAIN hashes[n] : hashes[n][h].last_request < nextId
    /\ \A i \in net : i.kind \in {"open", "ok"} => i.req < nextId

(* A request has come to its sender by its route; an answer and data are    *)
(* between two neighbours on the route.                                     *)
ItemRoute(i) ==
    /\ i.kind = "open" =>
         /\ Len(i.partial) > 0 /\ i.partial[Len(i.partial)] = i.from
         /\ Straight(i.partial)
         /\ RequestsAlong(i.req, i.partial)
    /\ i.kind = "ok" =>
         /\ Straight(i.tid.route)
         /\ RequestsAlong(i.req, i.tid.route)
         /\ \E k \in 1 .. Len(i.tid.route) - 1 :
              i.to = i.tid.route[k] /\ i.from = i.tid.route[k + 1]
    /\ i.kind = "data" =>
         /\ Straight(i.tid.route)
         /\ \E k \in 1 .. Len(i.tid.route) - 1 :
              {i.from, i.to} = {i.tid.route[k], i.tid.route[k + 1]}

ItemRoutes == \A i \in net : ItemRoute(i)

\* A tunnel leads from a node to its neighbours on the route.
TunnelRoute(n, t, tunnel) ==
    /\ Len(t.route) > 1 /\ Straight(t.route)
    /\ \E k \in 1..Len(t.route) :
         /\ t.route[k] = n
         /\ tunnel.src = Before(t.route, k)
         /\ tunnel.dst = After(t.route, k)

TunnelRoutes ==
    \A n \in Nodes : \A t \in DOMAIN tunnels[n] : TunnelRoute(n, t, tunnels[n][t])

\* The last request for a hash, and what answers it, is for this hash.
HashOf(i) == IF i.kind = "open" THEN i.hash ELSE i.tid.hash

RequestHashes ==
    \A i \in net : i.kind \in {"open", "ok"} =>
        \A n \in Nodes : \A h \in DOMAIN hashes[n] :
            hashes[n][h].last_request = i.req => HashOf(i) = h

\* A virtual peer is the other end of a tunnel that starts or ends here.
VirtualPeers ==
    \A n \in Nodes : \A t \in vpeers[n] :
        /\ t \in DOMAIN tunnels[n]
        /\ \/ tunnels[n][t].src = n /\ tunnels[n][t].hash # Nil
           \/ tunnels[n][t].src # n /\ tunnels[n][t].dst = n /\ t \in outgoing[n]
-----------------------------------------------------------------------------
(* Types.                                                                  *)

TypesOK == TypeOK /\ ShapeOK

\* The kind of an item tells what it is.
LEMMA ItemKinds ==
    ASSUME ShapeOK, NEW i \in net
    PROVE  /\ i.kind = "open" => i \in OpenItems
           /\ i.kind = "ok" => i \in OkItems
           /\ i.kind = "data" => i \in DataItems
           /\ i.from \in Nodes /\ i.to \in Nodes /\ i.from # i.to
           /\ i.from \in Friends[i.to]
<1>1. i \in OpenItems \cup OkItems \cup DataItems
  BY DEF ShapeOK
<1>2. i.from \in Nodes /\ i.to \in Nodes /\ i.to \in Friends[i.from]
  BY <1>1 DEF ShapeOK, OpenItems, OkItems, DataItems
<1>3. QED
  BY <1>1, <1>2, TurtleAssumption DEF OpenItems, OkItems, DataItems

\* What a node sends on of a request.
LEMMA Forwarded ==
    ASSUME NEW n \in Nodes, NEW from, NEW req \in RequestIds, NEW h \in Hashes,
           NEW partial \in Seq(Nodes), NEW friends \in SUBSET Friends[n],
           NEW i \in ForwardedBy(n, from, req, h, partial, friends)
    PROVE  /\ i \in OpenItems /\ i.kind = "open" /\ i.from = n /\ i.to \in Friends[n]
           /\ i.req = req /\ i.hash = h /\ i.partial = Append(partial, n)
<1>1. PICK f \in friends :
        i = [kind |-> "open", from |-> n, to |-> f, req |-> req, hash |-> h,
             partial |-> Append(partial, n)]
  BY DEF ForwardedBy, Perturb
<1>2. f \in Friends[n] /\ f \in Nodes
  BY TurtleAssumption
<1>3. Append(partial, n) \in Seq(Nodes)
  OBVIOUS
<1>4. QED
  BY <1>1, <1>2, <1>3 DEF OpenItems

\* The initial state is well typed.
LEMMA InitTypes == Init => TypesOK
<1> SUFFICES ASSUME Init PROVE TypesOK
  OBVIOUS
<1>1. TypeOK
  BY TurtleAssumption DEF Init, TypeOK
<1>2. ShapeOK
  BY TurtleAssumption DEF Init, ShapeOK
<1>3. QED
  BY <1>1, <1>2 DEF TypesOK

\* diggTunnel keeps the types.
LEMMA DiggTypes ==
    ASSUME TypesOK, NEW n \in Nodes, NEW h \in DOMAIN hashes[n], DiggTunnel(n, h)
    PROVE  TypesOK'
<1> USE TurtleAssumption DEF TypesOK
<1> DEFINE entry == hashes[n][h]
           new == [entry EXCEPT !.last_request = nextId]
           req == [origin |-> n, responses |-> {}, recent |-> TRUE]
<1>1. nextId \in RequestIds /\ nextId' = nextId + 1 /\ h \in Hashes
  BY DEF DiggTunnel, TypeOK
<1>2. entry \in HashInfos
  BY DEF ShapeOK, HashInfos
<1>3. new \in HashInfos /\ new.last_request \in 0..MaxRequests
  BY <1>1, <1>2 DEF HashInfos, RequestIds
<1>4. req \in Requests /\ req.origin = n
  BY DEF Requests
<1>5. /\ hashes' = [hashes EXCEPT ![n] = [hashes[n] EXCEPT ![h] = new]]
      /\ requests' = [requests EXCEPT ![n] = Put(requests[n], nextId, req)]
      /\ UNCHANGED <<toRemove, tunnels, vpeers, outgoing, clients>>
  BY DEF DiggTunnel
<1>6. \A i \in net' : i \in net \/ (i \in OpenItems /\ i.to \in Friends[i.from])
  <2>1. PICK friends \in SUBSET Friends[n] :
          net' = (net \ {}) \cup ForwardedBy(n, n, nextId, h, <<>>, friends)
    BY DEF DiggTunnel, Send
  <2> DEFINE none == <<>>
  <2>2. none \in Seq(Nodes)
    OBVIOUS
  <2> HIDE DEF none
  <2>3. ASSUME NEW i \in ForwardedBy(n, n, nextId, h, none, friends)
        PROVE  i \in OpenItems /\ i.to \in Friends[i.from]
    BY <1>1, <2>1, <2>2, <2>3, Forwarded
  <2>4. QED
    BY <2>1, <2>3 DEF none
<1> HIDE DEF new, req
<1>7. TypeOK'
  BY <1>1, <1>3, <1>4, <1>5 DEF TypeOK, Put, RequestIds, ShapeOK
<1>8. ShapeOK'
  <2>3. \A m \in Nodes :
          /\ \A k \in DOMAIN hashes'[m] : hashes'[m][k] \in HashInfos
          /\ \A r \in DOMAIN requests'[m] : requests'[m][r] \in Requests
    BY <1>3, <1>4, <1>5 DEF ShapeOK, Put
  <2>4. QED
    BY <1>5, <1>6, <2>3 DEF ShapeOK
<1>9. QED
  BY <1>7, <1>8

\* handleTunnelRequest keeps the types.
LEMMA RequestTypes ==
    ASSUME TypesOK, NEW n \in Nodes, NEW i \in net, HandleTunnelRequest(n, i)
    PROVE  TypesOK'
<1> USE TurtleAssumption DEF TypesOK
<1> DEFINE tid == TunnelId(i.hash, i.partial, n)
           end == [src |-> i.from, dst |-> n, hash |-> i.hash]
           ok == [kind |-> "ok", from |-> n, to |-> i.from, req |-> i.req, tid |-> tid]
           req == [origin |-> i.from, responses |-> {}, recent |-> TRUE]
<1>1. /\ i \in OpenItems /\ i.to = n /\ i.from \in Nodes /\ i.from \in Friends[n] /\ i.from # n
      /\ i.req \in RequestIds /\ i.hash \in Hashes /\ i.partial \in Seq(Nodes)
  BY ItemKinds DEF HandleTunnelRequest, OpenItems
<1>2. tid \in TunnelIds
  BY <1>1 DEF TunnelId, TunnelIds
<1>3. end \in Tunnels /\ end.src = i.from /\ end.dst = n
  BY <1>1 DEF Tunnels
<1>4. ok \in OkItems /\ ok.to \in Friends[ok.from]
  BY <1>1, <1>2 DEF OkItems
<1>5. req \in Requests /\ req.origin = i.from
  BY <1>1 DEF Requests
<1>6. UNCHANGED <<hashes, toRemove, nextId>>
  BY DEF HandleTunnelRequest
<1>7. requests' = requests \/ requests' = [requests EXCEPT ![n] = Put(requests[n], i.req, req)]
  BY DEF HandleTunnelRequest
<1>8. \/ UNCHANGED <<tunnels, vpeers, outgoing, clients>>
      \/ /\ tunnels' = [tunnels EXCEPT ![n] = Put(tunnels[n], tid, end)]
         /\ vpeers' = [vpeers EXCEPT ![n] = @ \cup {tid}]
         /\ outgoing' = [outgoing EXCEPT ![n] = @ \cup {tid}]
         /\ clients' = [clients EXCEPT ![n] = @ \cup {tid}]
  BY DEF HandleTunnelRequest
<1>9. \A j \in net' : j \in net \/ (j \in OpenItems \cup OkItems /\ j.to \in Friends[j.from])
  <2>1. CASE net' = net \ {i}
    BY <2>1
  <2>2. CASE Send({ok}, {i})
    BY <2>2, <1>4 DEF Send
  <2>3. ASSUME NEW friends \in SUBSET Friends[n],
               Send(ForwardedBy(n, i.from, i.req, i.hash, i.partial, friends), {i})
        PROVE  \A j \in net' : j \in net \/ (j \in OpenItems /\ j.to \in Friends[j.from])
    <3>1. ASSUME NEW j \in ForwardedBy(n, i.from, i.req, i.hash, i.partial, friends)
          PROVE  j \in OpenItems /\ j.to \in Friends[j.from]
      BY <1>1, <3>1, Forwarded
    <3>2. QED
      BY <2>3, <3>1 DEF Send
  <2>4. QED
    BY <2>1, <2>2, <2>3 DEF HandleTunnelRequest
<1> HIDE DEF tid, end, req, ok
<1>10. TypeOK'
  <2>1. \A m \in Nodes :
          /\ DOMAIN requests'[m] \subseteq RequestIds
          /\ \A r \in DOMAIN requests'[m] : requests'[m][r].origin \in Friends[m] \cup {m}
    <3>1. CASE requests' = requests
      BY <3>1 DEF TypeOK
    <3>2. CASE requests' = [requests EXCEPT ![n] = Put(requests[n], i.req, req)]
      <4>1. /\ \A m \in Nodes \ {n} : requests'[m] = requests[m]
            /\ DOMAIN requests'[n] = DOMAIN requests[n] \cup {i.req}
            /\ requests'[n][i.req] = req
            /\ \A k \in DOMAIN requests[n] \ {i.req} : requests'[n][k] = requests[n][k]
        <5>1. DOMAIN requests = Nodes /\ DOMAIN tunnels = Nodes
          BY DEF ShapeOK
        <5>2. QED
          BY <3>2, <5>1 DEF Put
      <4>2. QED
        <5>1. \A m \in Nodes :
                /\ DOMAIN requests[m] \subseteq RequestIds
                /\ \A r \in DOMAIN requests[m] : requests[m][r].origin \in Friends[m] \cup {m}
          BY DEF TypeOK
        <5>2. i.req \in RequestIds /\ req.origin \in Friends[n]
          BY <1>1, <1>5
        <5>3. QED
          BY <4>1, <5>1, <5>2
    <3>3. QED
      BY <1>7, <3>1, <3>2
  <2>2. \A m \in Nodes : \A t \in DOMAIN tunnels'[m] :
          {tunnels'[m][t].src, tunnels'[m][t].dst} \subseteq Friends[m] \cup {m}
    <3>1. CASE tunnels' = tunnels
      BY <3>1 DEF TypeOK
    <3>2. CASE tunnels' = [tunnels EXCEPT ![n] = Put(tunnels[n], tid, end)]
      <4>1. /\ \A m \in Nodes \ {n} : tunnels'[m] = tunnels[m]
            /\ DOMAIN tunnels'[n] = DOMAIN tunnels[n] \cup {tid}
            /\ tunnels'[n][tid] = end
            /\ \A k \in DOMAIN tunnels[n] \ {tid} : tunnels'[n][k] = tunnels[n][k]
        <5>1. DOMAIN requests = Nodes /\ DOMAIN tunnels = Nodes
          BY DEF ShapeOK
        <5>2. QED
          BY <3>2, <5>1 DEF Put
      <4>2. QED
        BY <1>1, <1>3, <4>1 DEF TypeOK
    <3>3. QED
      BY <1>8, <3>1, <3>2
  <2>3. QED
    BY <1>6, <2>1, <2>2 DEF TypeOK
<1>11. ShapeOK'
  <2>1. \A m \in Nodes : \A r \in DOMAIN requests'[m] : requests'[m][r] \in Requests
    BY <1>5, <1>7 DEF ShapeOK, Put
  <2>2. \A m \in Nodes :
          /\ DOMAIN tunnels'[m] \subseteq TunnelIds
          /\ \A t \in DOMAIN tunnels'[m] :
               tunnels'[m][t] \in Tunnels /\ ~(tunnels'[m][t].src = m /\ tunnels'[m][t].dst = m)
    BY <1>1, <1>2, <1>3, <1>8, SMTT(30) DEF ShapeOK, Put
  <2>3. /\ vpeers' \in [Nodes -> SUBSET TunnelIds]
        /\ outgoing' \in [Nodes -> SUBSET TunnelIds]
        /\ clients' \in [Nodes -> SUBSET TunnelIds]
    BY <1>2, <1>8 DEF ShapeOK
  <2>4. DOMAIN hashes' = Nodes /\ DOMAIN requests' = Nodes /\ DOMAIN tunnels' = Nodes
    BY <1>6, <1>7, <1>8 DEF ShapeOK
  <2>5. QED
    BY <1>6, <1>9, <2>1, <2>2, <2>3, <2>4 DEF ShapeOK
<1>12. QED
  BY <1>10, <1>11

(* The tunnel that an answer leaves at a node: new, with the node's         *)
(* neighbours, or the one that was there.                                   *)
LEMMA Noted ==
    ASSUME TypesOK, NEW n \in Nodes, NEW i \in net, i.kind = "ok", i.to = n,
           i.req \in DOMAIN requests[n]
    PROVE  /\ DOMAIN NoteTunnel(n, i) = DOMAIN tunnels[n] \cup {i.tid}
           /\ i.tid \in TunnelIds
           /\ \A t \in DOMAIN tunnels[n] : NoteTunnel(n, i)[t] = tunnels[n][t]
           /\ i.tid \notin DOMAIN tunnels[n] =>
                NoteTunnel(n, i)[i.tid] = [src |-> requests[n][i.req].origin, dst |-> i.from, hash |-> Nil]
           /\ \A t \in DOMAIN NoteTunnel(n, i) :
                /\ NoteTunnel(n, i)[t] \in Tunnels
                /\ NoteTunnel(n, i)[t].src \in Friends[n] \cup {n}
                /\ NoteTunnel(n, i)[t].dst \in Friends[n] \cup {n}
                /\ ~(NoteTunnel(n, i)[t].src = n /\ NoteTunnel(n, i)[t].dst = n)
<1> USE TurtleAssumption DEF TypesOK
<1> DEFINE new == [src |-> requests[n][i.req].origin, dst |-> i.from, hash |-> Nil]
<1>1. i.tid \in TunnelIds /\ i.from \in Nodes /\ i.from \in Friends[n] /\ i.from # n
  BY ItemKinds DEF OkItems
<1>2. new \in Tunnels /\ new.src \in Friends[n] \cup {n} /\ new.dst = i.from
  BY <1>1 DEF Tunnels, TypeOK, ShapeOK, Requests
<1>3. ASSUME i.tid \in DOMAIN tunnels[n] PROVE NoteTunnel(n, i) = tunnels[n]
  BY <1>3 DEF NoteTunnel
<1>4. ASSUME i.tid \notin DOMAIN tunnels[n] PROVE NoteTunnel(n, i) = Put(tunnels[n], i.tid, new)
  BY <1>4 DEF NoteTunnel
<1> HIDE DEF new
<1>5. /\ DOMAIN NoteTunnel(n, i) = DOMAIN tunnels[n] \cup {i.tid}
      /\ \A t \in DOMAIN tunnels[n] : NoteTunnel(n, i)[t] = tunnels[n][t]
      /\ i.tid \notin DOMAIN tunnels[n] => NoteTunnel(n, i)[i.tid] = new
  <2>1. CASE i.tid \in DOMAIN tunnels[n]
    <3>1. NoteTunnel(n, i) = tunnels[n]
      BY <1>3, <2>1
    <3>2. QED
      BY <2>1, <3>1
  <2>2. CASE i.tid \notin DOMAIN tunnels[n]
    BY <1>4, <2>2 DEF Put
  <2>3. QED
    BY <2>1, <2>2
<1>6. \A t \in DOMAIN tunnels[n] :
        /\ tunnels[n][t] \in Tunnels
        /\ tunnels[n][t].src \in Friends[n] \cup {n}
        /\ tunnels[n][t].dst \in Friends[n] \cup {n}
        /\ ~(tunnels[n][t].src = n /\ tunnels[n][t].dst = n)
  BY DEF TypeOK, ShapeOK
<1>7. \A t \in DOMAIN NoteTunnel(n, i) :
        /\ NoteTunnel(n, i)[t] \in Tunnels
        /\ NoteTunnel(n, i)[t].src \in Friends[n] \cup {n}
        /\ NoteTunnel(n, i)[t].dst \in Friends[n] \cup {n}
        /\ ~(NoteTunnel(n, i)[t].src = n /\ NoteTunnel(n, i)[t].dst = n)
  BY <1>1, <1>2, <1>5, <1>6
<1>8. QED
  BY <1>1, <1>5, <1>7 DEF new

(* What handleTunnelResult may do: drop the item, note its tunnel, list it  *)
(* under the hash that was asked for, or pass it on.                        *)
Answered(n, i, late) ==
    /\ i.req \in DOMAIN requests[n]
    /\ requests' = [requests EXCEPT ![n][i.req] =
                      [requests[n][i.req] EXCEPT !.responses = @ \cup {i.tid}, !.recent = ~late]]
    /\ UNCHANGED <<toRemove, outgoing, nextId>>

Dropped(i) ==
    /\ net' = net \ {i}
    /\ UNCHANGED <<hashes, requests, tunnels, vpeers, clients, toRemove, outgoing, nextId>>

NotedOnly(n, i, late) ==
    /\ Answered(n, i, late)
    /\ net' = net \ {i}
    /\ tunnels' = [tunnels EXCEPT ![n] = NoteTunnel(n, i)]
    /\ UNCHANGED <<hashes, vpeers, clients>>

Listed(n, i, late, h) ==
    /\ Answered(n, i, late)
    /\ requests[n][i.req].origin = n
    /\ h \in DOMAIN hashes[n] /\ hashes[n][h].last_request = i.req
    /\ hashes' = [hashes EXCEPT ![n][h] = ListTunnel(n, h, i.tid)]
    /\ tunnels' = [tunnels EXCEPT ![n] =
                     Put(NoteTunnel(n, i), i.tid, [NoteTunnel(n, i)[i.tid] EXCEPT !.hash = h])]
    /\ clients' = [clients EXCEPT ![n] = @ \cup {i.tid}]
    /\ vpeers' = [vpeers EXCEPT ![n] = @ \cup {i.tid}]
    /\ net' = net \ {i}

PassedOn(n, i, late) ==
    /\ Answered(n, i, late)
    /\ requests[n][i.req].origin # n
    /\ net' = (net \ {i}) \cup {[i EXCEPT !.from = n, !.to = requests[n][i.req].origin]}
    /\ tunnels' = [tunnels EXCEPT ![n] = NoteTunnel(n, i)]
    /\ UNCHANGED <<hashes, vpeers, clients>>

\* These are the ways in which handleTunnelResult ends.
LEMMA ResultCases ==
    ASSUME NEW n, NEW i, NEW late, HandleTunnelResult(n, i, late)
    PROVE  /\ i \in net /\ i.kind = "ok" /\ i.to = n
           /\ \/ Dropped(i)
              \/ NotedOnly(n, i, late)
              \/ \E h \in DOMAIN hashes[n] : Listed(n, i, late, h)
              \/ PassedOn(n, i, late)
<1> USE DEF HandleTunnelResult
<1> DEFINE asked == {h \in DOMAIN hashes[n] : hashes[n][h].last_request = i.req}
<1>1. CASE ~(i.req \in DOMAIN requests[n]) \/ i.tid \in requests[n][i.req].responses
  BY <1>1 DEF Dropped
<1>2. CASE i.req \in DOMAIN requests[n] /\ i.tid \notin requests[n][i.req].responses
  <2>1. Answered(n, i, late)
    BY <1>2 DEF Answered
  <2>2. CASE late \/ (requests[n][i.req].origin = n /\ asked = {})
    BY <1>2, <2>1, <2>2 DEF NotedOnly
  <2>3. CASE ~late /\ requests[n][i.req].origin = n /\ asked # {}
    <3>1. PICK h \in asked :
            /\ hashes' = [hashes EXCEPT ![n][h] = ListTunnel(n, h, i.tid)]
            /\ tunnels' = [tunnels EXCEPT ![n] =
                 Put(NoteTunnel(n, i), i.tid, [NoteTunnel(n, i)[i.tid] EXCEPT !.hash = h])]
      BY <1>2, <2>3
    <3>2. /\ vpeers' = [vpeers EXCEPT ![n] = @ \cup {i.tid}] /\ net' = net \ {i}
          /\ clients' = [clients EXCEPT ![n] = @ \cup {i.tid}]
      BY <1>2, <2>3
    <3>3. Listed(n, i, late, h)
      BY <2>1, <2>3, <3>1, <3>2 DEF Listed
    <3>4. QED
      BY <3>3
  <2>4. CASE ~late /\ requests[n][i.req].origin # n
    BY <1>2, <2>1, <2>4 DEF PassedOn, Send
  <2>5. QED
    BY <1>2, <2>2, <2>3, <2>4
<1>3. QED
  BY <1>1, <1>2

\* An answer changes nothing in the requests but what has been answered.
LEMMA AnsweredRequests ==
    ASSUME TypesOK, NEW n \in Nodes, NEW i \in net, NEW late \in BOOLEAN,
           i.kind = "ok", i.to = n, Answered(n, i, late)
    PROVE  /\ DOMAIN requests' = Nodes
           /\ \A m \in Nodes :
                /\ DOMAIN requests'[m] = DOMAIN requests[m]
                /\ \A r \in DOMAIN requests[m] :
                     /\ requests'[m][r] \in Requests
                     /\ requests'[m][r].origin = requests[m][r].origin
<1> DEFINE old == requests[n][i.req]
           new == [old EXCEPT !.responses = @ \cup {i.tid}, !.recent = ~late]
<1>1. old \in Requests /\ i.tid \in TunnelIds
  BY ItemKinds DEF Answered, TypesOK, ShapeOK, OkItems
<1>2. new \in Requests /\ new.origin = old.origin
  BY <1>1 DEF Requests
<1>3. requests' = [requests EXCEPT ![n][i.req] = new]
  BY DEF Answered
<1> HIDE DEF new
<1>4. DOMAIN requests = Nodes /\ \A m \in Nodes : \A r \in DOMAIN requests[m] : requests[m][r] \in Requests
  BY DEF TypesOK, ShapeOK
<1>5. QED
  BY <1>2, <1>3, <1>4

\* handleTunnelResult keeps the types.
LEMMA ResultTypes ==
    ASSUME TypesOK, NEW n \in Nodes, NEW i \in net, NEW late \in BOOLEAN,
           HandleTunnelResult(n, i, late)
    PROVE  TypesOK'
<1>0. i.kind = "ok" /\ i.to = n
  BY ResultCases
<1>1. CASE Dropped(i)
  BY <1>1 DEF TypesOK, TypeOK, ShapeOK, Dropped
<1>2. ASSUME Answered(n, i, late) PROVE TypesOK'
  <2> DEFINE noted == NoteTunnel(n, i)
  <2>1. /\ DOMAIN requests' = Nodes
        /\ \A m \in Nodes :
             /\ DOMAIN requests'[m] = DOMAIN requests[m]
             /\ \A r \in DOMAIN requests[m] :
                  /\ requests'[m][r] \in Requests
                  /\ requests'[m][r].origin = requests[m][r].origin
    BY <1>0, <1>2, AnsweredRequests
  <2>2. UNCHANGED <<toRemove, outgoing, nextId>> /\ i.req \in DOMAIN requests[n]
    BY <1>2 DEF Answered
  <2>3. /\ DOMAIN noted = DOMAIN tunnels[n] \cup {i.tid}
        /\ i.tid \in TunnelIds
        /\ \A t \in DOMAIN noted :
             /\ noted[t] \in Tunnels
             /\ noted[t].src \in Friends[n] \cup {n}
             /\ noted[t].dst \in Friends[n] \cup {n}
             /\ ~(noted[t].src = n /\ noted[t].dst = n)
    BY <1>0, <2>2, Noted, ZenonT(30)
  <2> HIDE DEF noted
  <2>4. /\ DOMAIN hashes' = Nodes /\ vpeers' \in [Nodes -> SUBSET TunnelIds]
        /\ clients' \in [Nodes -> SUBSET TunnelIds]
        /\ \A m \in Nodes :
             /\ DOMAIN hashes'[m] = DOMAIN hashes[m]
             /\ \A h \in DOMAIN hashes[m] : hashes'[m][h] \in HashInfos
    <3>1. CASE UNCHANGED <<hashes, vpeers, clients>>
      BY <3>1 DEF TypesOK, ShapeOK
    <3>2. ASSUME NEW h \in DOMAIN hashes[n], Listed(n, i, late, h) PROVE <2>4!:
      <4>1. hashes[n][h] \in HashInfos /\ DOMAIN hashes = Nodes
        BY DEF TypesOK, ShapeOK
      <4>2. ListTunnel(n, h, i.tid) \in HashInfos
        BY <2>3, <4>1 DEF ListTunnel, HashInfos
      <4>3. /\ DOMAIN hashes' = Nodes
            /\ \A m \in Nodes :
                 /\ DOMAIN hashes'[m] = DOMAIN hashes[m]
                 /\ \A k \in DOMAIN hashes[m] : hashes'[m][k] \in HashInfos
        BY <3>2, <4>1, <4>2 DEF Listed, TypesOK, ShapeOK
      <4>4. /\ vpeers' \in [Nodes -> SUBSET TunnelIds]
            /\ clients' \in [Nodes -> SUBSET TunnelIds]
        BY <2>3, <3>2 DEF Listed, TypesOK, ShapeOK
      <4>5. QED
        BY <4>3, <4>4
    <3>3. QED
      BY <1>0, <1>2, <3>1, <3>2, ResultCases DEF Dropped, NotedOnly, PassedOn
  <2>5. /\ DOMAIN tunnels' = Nodes
        /\ \A m \in Nodes \ {n} : tunnels'[m] = tunnels[m]
        /\ DOMAIN tunnels'[n] \subseteq TunnelIds
        /\ \A t \in DOMAIN tunnels'[n] :
             /\ tunnels'[n][t] \in Tunnels
             /\ tunnels'[n][t].src \in Friends[n] \cup {n}
             /\ tunnels'[n][t].dst \in Friends[n] \cup {n}
             /\ ~(tunnels'[n][t].src = n /\ tunnels'[n][t].dst = n)
    <3>1. DOMAIN tunnels = Nodes /\ DOMAIN tunnels[n] \subseteq TunnelIds
      BY DEF TypesOK, ShapeOK
    <3>2. CASE tunnels' = tunnels
      BY <3>1, <3>2 DEF TypesOK, TypeOK, ShapeOK
    <3>3. CASE tunnels' = [tunnels EXCEPT ![n] = noted]
      BY <2>3, <3>1, <3>3
    <3>4. ASSUME NEW h \in DOMAIN hashes[n], Listed(n, i, late, h) PROVE <2>5!:
      <4> DEFINE new == [noted[i.tid] EXCEPT !.hash = h]
      <4>1. h \in Hashes
        BY TurtleAssumption DEF TypesOK, TypeOK
      <4>2. new \in Tunnels /\ new.src = noted[i.tid].src /\ new.dst = noted[i.tid].dst
        BY <2>3, <4>1 DEF Tunnels
      <4>3. tunnels' = [tunnels EXCEPT ![n] = Put(noted, i.tid, new)]
        BY <3>4 DEF Listed, noted
      <4> HIDE DEF new
      <4>4. QED
        BY <2>3, <3>1, <4>2, <4>3 DEF Put
    <3>5. QED
      BY <1>0, <1>2, <3>2, <3>3, <3>4, ResultCases DEF Dropped, NotedOnly, PassedOn, noted
  <2>6. \A j \in net' : j \in net \/ (j \in OkItems /\ j.to \in Friends[j.from])
    <3>1. CASE net' = net \ {i}
      BY <3>1
    <3>2. CASE PassedOn(n, i, late)
      <4> DEFINE on == [i EXCEPT !.from = n, !.to = requests[n][i.req].origin]
      <4>1. i \in OkItems
        BY <1>0, ItemKinds DEF TypesOK
      <4>2. requests[n][i.req].origin \in Friends[n] /\ requests[n][i.req].origin \in Nodes
        BY <2>2, <3>2, TurtleAssumption DEF PassedOn, TypesOK, TypeOK
      <4>3. on \in OkItems /\ on.to \in Friends[on.from]
        BY <4>1, <4>2 DEF OkItems
      <4>4. QED
        BY <3>2, <4>3 DEF PassedOn
    <3>3. QED
      BY <1>0, <3>1, <3>2, ResultCases DEF Dropped, NotedOnly, Listed
  <2>7. TypeOK'
    <3>1. \A m \in Nodes : DOMAIN hashes'[m] \subseteq Wants[m]
      BY <2>2, <2>4 DEF TypesOK, TypeOK
    <3>2. \A m \in Nodes : \A h \in DOMAIN hashes'[m] : hashes'[m][h].last_request \in 0..MaxRequests
      BY <2>4 DEF HashInfos
    <3>3. QED
      BY <2>1, <2>2, <2>5, <3>1, <3>2 DEF TypesOK, TypeOK
  <2>8. ShapeOK'
    <3>1. /\ DOMAIN hashes' = Nodes /\ DOMAIN requests' = Nodes /\ DOMAIN tunnels' = Nodes
          /\ vpeers' \in [Nodes -> SUBSET TunnelIds]
          /\ outgoing' \in [Nodes -> SUBSET TunnelIds]
          /\ clients' \in [Nodes -> SUBSET TunnelIds]
      BY <2>1, <2>2, <2>4, <2>5 DEF TypesOK, TypeOK, ShapeOK
    <3>2. \A m \in Nodes :
            /\ \A h \in DOMAIN hashes'[m] : hashes'[m][h] \in HashInfos
            /\ \A r \in DOMAIN requests'[m] : requests'[m][r] \in Requests
      BY <2>1, <2>2, <2>4 DEF TypesOK, ShapeOK
    <3>3. \A m \in Nodes :
            /\ DOMAIN tunnels'[m] \subseteq TunnelIds
            /\ \A t \in DOMAIN tunnels'[m] :
                 tunnels'[m][t] \in Tunnels /\ ~(tunnels'[m][t].src = m /\ tunnels'[m][t].dst = m)
      BY <2>2, <2>5 DEF TypesOK, ShapeOK
    <3>4. net' \subseteq OpenItems \cup OkItems \cup DataItems /\ \A j \in net' : j.to \in Friends[j.from]
      BY <2>2, <2>6 DEF TypesOK, ShapeOK
    <3>5. QED
      BY <3>1, <3>2, <3>3, <3>4 DEF ShapeOK
  <2>9. QED
    BY <2>7, <2>8 DEF TypesOK
<1>3. QED
  BY <1>1, <1>2, ResultCases DEF NotedOnly, Listed, PassedOn

\* The tunnels of a set of hashes.
LEMMA TunnelsOfHashes ==
    ASSUME NEW n, NEW gone
    PROVE  \A t : t \in TunnelsOf(n, gone) <=>
                    t \in DOMAIN tunnels[n] /\ \E h \in gone : t \in hashes[n][h].tunnels
<1> DEFINE lists == {hashes[n][h].tunnels : h \in gone}
<1>1. \A l : l \in lists <=> \E h \in gone : l = hashes[n][h].tunnels
  OBVIOUS
<1>2. TunnelsOf(n, gone) = (UNION lists) \cap DOMAIN tunnels[n]
  BY DEF TunnelsOf
<1> HIDE DEF lists
<1>3. \A t : t \in TunnelsOf(n, gone) <=> t \in DOMAIN tunnels[n] /\ \E l \in lists : t \in l
  BY <1>2
<1>4. QED
  BY <1>1, <1>3

(* What autoWash does to the maps of one node.                             *)
LEMMA Washed ==
    ASSUME TypesOK, NEW n \in Nodes, NEW old \in SUBSET DOMAIN tunnels[n], AutoWash(n, old)
    PROVE  \E tids \in SUBSET DOMAIN tunnels[n] : \E gone \in SUBSET DOMAIN hashes[n] :
             /\ CloseTunnels(n, tids, gone)
             /\ TunnelsOf(n, gone) \subseteq tids
             /\ UNCHANGED <<requests, net, nextId>>
<1> DEFINE gone == toRemove[n] \cap DOMAIN hashes[n]
           tids == old \cup TunnelsOf(n, gone)
<1>1. tids \in SUBSET DOMAIN tunnels[n] /\ gone \in SUBSET DOMAIN hashes[n]
  <2>1. gone \in SUBSET DOMAIN hashes[n]
    OBVIOUS
  <2> HIDE DEF gone
  <2>2. TunnelsOf(n, gone) \subseteq DOMAIN tunnels[n]
    BY TunnelsOfHashes
  <2>3. QED
    BY <2>1, <2>2
<1>2. CloseTunnels(n, tids, gone) /\ UNCHANGED <<requests, net, nextId>>
  BY DEF AutoWash
<1>3. TunnelsOf(n, gone) \subseteq tids
  OBVIOUS
<1> HIDE DEF gone, tids
<1>4. QED
  BY <1>1, <1>2, <1>3

(* What closing tunnels leaves.                                            *)
LEMMA Closed ==
    ASSUME TypesOK, NEW n \in Nodes, NEW tids \in SUBSET DOMAIN tunnels[n],
           NEW gone \in SUBSET DOMAIN hashes[n], CloseTunnels(n, tids, gone)
    PROVE  /\ DOMAIN hashes' = Nodes /\ DOMAIN tunnels' = Nodes
           /\ vpeers' \in [Nodes -> SUBSET TunnelIds]
           /\ outgoing' \in [Nodes -> SUBSET TunnelIds]
           /\ clients' \in [Nodes -> SUBSET TunnelIds]
           /\ \A m \in Nodes \ {n} :
                /\ hashes'[m] = hashes[m] /\ tunnels'[m] = tunnels[m]
                /\ vpeers'[m] = vpeers[m] /\ outgoing'[m] = outgoing[m] /\ clients'[m] = clients[m]
           /\ DOMAIN tunnels'[n] = DOMAIN tunnels[n] \ tids
           /\ \A t \in DOMAIN tunnels'[n] : tunnels'[n][t] = tunnels[n][t]
           /\ DOMAIN hashes'[n] = DOMAIN hashes[n] \ gone
           /\ \A h \in DOMAIN hashes'[n] :
                /\ hashes'[n][h] \in HashInfos
                /\ hashes'[n][h].tunnels = hashes[n][h].tunnels \ tids
                /\ hashes'[n][h].last_request = hashes[n][h].last_request
<1> DEFINE ended == Ending(n, tids) \cap outgoing[n]
           told == {t \in Starting(n, tids) : tunnels[n][t].hash \in DOMAIN hashes[n]}
           left == [h \in DOMAIN hashes[n] \ gone |-> [hashes[n][h] EXCEPT !.tunnels = @ \ tids]]
<1>1. /\ tunnels' = [tunnels EXCEPT ![n] = Without(tunnels[n], tids)]
      /\ vpeers' = [vpeers EXCEPT ![n] = vpeers[n] \ (Starting(n, tids) \cup ended)]
      /\ outgoing' = [outgoing EXCEPT ![n] = outgoing[n] \ ended]
      /\ hashes' = [hashes EXCEPT ![n] = left]
      /\ clients' = [clients EXCEPT ![n] = clients[n] \ (told \cup ended)]
  BY DEF CloseTunnels
<1>2. /\ DOMAIN hashes = Nodes /\ DOMAIN tunnels = Nodes
      /\ vpeers \in [Nodes -> SUBSET TunnelIds] /\ outgoing \in [Nodes -> SUBSET TunnelIds]
      /\ clients \in [Nodes -> SUBSET TunnelIds]
  BY DEF TypesOK, ShapeOK
<1>3. \A h \in DOMAIN left :
        /\ left[h] \in HashInfos
        /\ left[h].tunnels = hashes[n][h].tunnels \ tids
        /\ left[h].last_request = hashes[n][h].last_request
  <2> SUFFICES ASSUME NEW h \in DOMAIN hashes[n] \ gone
               PROVE  /\ left[h] \in HashInfos
                      /\ left[h].tunnels = hashes[n][h].tunnels \ tids
                      /\ left[h].last_request = hashes[n][h].last_request
                  OBVIOUS
  <2>1. hashes[n][h] \in HashInfos
    BY DEF TypesOK, ShapeOK
  <2>2. left[h] = [hashes[n][h] EXCEPT !.tunnels = @ \ tids]
    OBVIOUS
  <2>3. QED
    BY <2>1, <2>2 DEF HashInfos
<1>4. DOMAIN left = DOMAIN hashes[n] \ gone
  OBVIOUS
<1>5. /\ DOMAIN Without(tunnels[n], tids) = DOMAIN tunnels[n] \ tids
      /\ \A t \in DOMAIN tunnels[n] \ tids : Without(tunnels[n], tids)[t] = tunnels[n][t]
  BY DEF Without, Restrict
<1> HIDE DEF ended, told, left
<1>6. QED
  BY <1>1, <1>2, <1>3, <1>4, <1>5

\* Every step keeps the types.
LEMMA NextTypes == TypesOK /\ [Next]_vars => TypesOK'
<1> SUFFICES ASSUME TypesOK, [Next]_vars PROVE TypesOK'
  OBVIOUS
<1>1. ASSUME NEW n \in Nodes, NEW h \in DOMAIN hashes[n], ManageTunnels(n, h)
      PROVE  TypesOK'
  BY <1>1, DiggTypes DEF ManageTunnels, TypesOK, TypeOK
<1>2. ASSUME NEW n \in Nodes, NEW i \in net, HandleTunnelRequest(n, i)
      PROVE  TypesOK'
  BY <1>2, RequestTypes
<1>3. ASSUME NEW n \in Nodes, NEW i \in net, NEW late \in BOOLEAN, HandleTunnelResult(n, i, late)
      PROVE  TypesOK'
  BY <1>3, ResultTypes
<1>4. ASSUME NEW n \in Nodes, NEW i \in net, RouteGenericTunnelItem(n, i)
      PROVE  TypesOK'
  <2> DEFINE t == tunnels[n][i.tid]
             next == IF i.from = t.dst THEN t.src ELSE t.dst
             on == [i EXCEPT !.from = n, !.to = next]
  <2>1. i \in DataItems /\ i.to = n
    BY <1>4, ItemKinds DEF TypesOK, RouteGenericTunnelItem
  <2>2. CASE /\ i.tid \in DOMAIN tunnels[n]
             /\ (i.from = t.dst /\ t.src # n) \/ (i.from = t.src /\ t.dst # n)
             /\ Send({on}, {i})
    <3>1. {t.src, t.dst} \subseteq Friends[n] \cup {n}
      BY <2>2 DEF TypesOK, TypeOK
    <3>2. i.from # n
      BY <2>1, ItemKinds DEF TypesOK
    <3>3. next \in Friends[n]
      BY <2>2, <3>1, <3>2
    <3>4. on \in DataItems /\ on.to \in Friends[on.from]
      <4> HIDE DEF next
      <4>1. next \in Nodes
        BY <3>3, TurtleAssumption
      <4>2. QED
        BY <2>1, <3>3, <4>1 DEF DataItems
    <3>5. \A j \in net' : j \in net \/ (j \in DataItems /\ j.to \in Friends[j.from])
      BY <2>2, <3>4 DEF Send
    <3>6. QED
      BY <1>4, <3>5 DEF RouteGenericTunnelItem, TypesOK, TypeOK, ShapeOK
  <2>3. CASE net' = net \ {i}
    BY <1>4, <2>3 DEF RouteGenericTunnelItem, TypesOK, TypeOK, ShapeOK
  <2>4. QED
    BY <1>4, <2>2, <2>3 DEF RouteGenericTunnelItem
<1>5. ASSUME NEW n \in Nodes, NEW tid \in clients[n], SendTurtleData(n, tid)
      PROVE  TypesOK'
  <2> DEFINE t == tunnels[n][tid]
             i == [kind |-> "data", from |-> n, to |-> IF t.src = n THEN t.dst ELSE t.src,
                   tid |-> tid]
  <2>1. {t.src, t.dst} \subseteq Friends[n] \cup {n} /\ ~(t.src = n /\ t.dst = n)
    BY <1>5 DEF SendTurtleData, TypesOK, TypeOK, ShapeOK
  <2>2. (IF t.src = n THEN t.dst ELSE t.src) \in Friends[n] /\ tid \in TunnelIds
    BY <1>5, <2>1 DEF SendTurtleData, TypesOK, ShapeOK
  <2>3. i \in DataItems /\ i.to \in Friends[i.from]
    BY <2>2, TurtleAssumption DEF DataItems
  <2>4. \A j \in net' : j \in net \/ (j \in DataItems /\ j.to \in Friends[j.from])
    BY <1>5, <2>3 DEF SendTurtleData, Send
  <2>5. QED
    BY <1>5, <2>4 DEF SendTurtleData, TypesOK, TypeOK, ShapeOK
<1>6. ASSUME NEW i \in net, Lose(i)
      PROVE  TypesOK'
  BY <1>6 DEF Lose, TypesOK, TypeOK, ShapeOK
<1>7. ASSUME NEW n \in Nodes, NEW h \in Wants[n], MonitorTunnels(n, h)
      PROVE  TypesOK'
  <2> DEFINE new == [tunnels |-> {}, last_request |-> 0]
  <2>1. new \in HashInfos /\ new.last_request \in 0..MaxRequests
    BY TurtleAssumption DEF HashInfos
  <2>2. hashes' = hashes \/ hashes' = [hashes EXCEPT ![n] = Put(hashes[n], h, new)]
    BY <1>7 DEF MonitorTunnels
  <2> HIDE DEF new
  <2>3. /\ DOMAIN hashes' = Nodes
        /\ \A m \in Nodes :
             /\ DOMAIN hashes'[m] \subseteq Wants[m]
             /\ \A k \in DOMAIN hashes'[m] :
                  hashes'[m][k] \in HashInfos /\ hashes'[m][k].last_request \in 0..MaxRequests
    BY <2>1, <2>2 DEF TypesOK, TypeOK, ShapeOK, Put
  <2>4. toRemove' \in [Nodes -> SUBSET Hashes]
    BY <1>7 DEF MonitorTunnels, TypesOK, TypeOK
  <2>5. QED
    BY <1>7, <2>3, <2>4 DEF MonitorTunnels, TypesOK, TypeOK, ShapeOK
<1>8. ASSUME NEW n \in Nodes, NEW h \in Wants[n], StopMonitoringTunnels(n, h)
      PROVE  TypesOK'
  <2>1. h \in Hashes
    BY TurtleAssumption
  <2>2. toRemove' \in [Nodes -> SUBSET Hashes]
    BY <1>8, <2>1 DEF StopMonitoringTunnels, TypesOK, TypeOK
  <2>3. QED
    BY <1>8, <2>2 DEF StopMonitoringTunnels, TypesOK, TypeOK, ShapeOK
<1>11. ASSUME NEW n \in Nodes, NEW old \in SUBSET DOMAIN tunnels[n], AutoWash(n, old)
       PROVE  TypesOK'
  <2>1. PICK tids \in SUBSET DOMAIN tunnels[n], gone \in SUBSET DOMAIN hashes[n] :
          CloseTunnels(n, tids, gone) /\ UNCHANGED <<requests, net, nextId>>
    BY <1>11, Washed
  <2>2. toRemove' \in [Nodes -> SUBSET Hashes]
    BY <1>11 DEF AutoWash, TypesOK, TypeOK
  <2>3. /\ DOMAIN hashes' = Nodes /\ DOMAIN tunnels' = Nodes
        /\ vpeers' \in [Nodes -> SUBSET TunnelIds]
        /\ outgoing' \in [Nodes -> SUBSET TunnelIds]
        /\ clients' \in [Nodes -> SUBSET TunnelIds]
        /\ \A m \in Nodes \ {n} : hashes'[m] = hashes[m] /\ tunnels'[m] = tunnels[m]
        /\ DOMAIN tunnels'[n] \subseteq DOMAIN tunnels[n]
        /\ \A t \in DOMAIN tunnels'[n] : tunnels'[n][t] = tunnels[n][t]
        /\ DOMAIN hashes'[n] \subseteq DOMAIN hashes[n]
        /\ \A h \in DOMAIN hashes'[n] :
             /\ hashes'[n][h] \in HashInfos
             /\ hashes'[n][h].last_request = hashes[n][h].last_request
    BY <2>1, Closed
  <2>4. TypeOK'
    BY <2>1, <2>2, <2>3 DEF TypesOK, TypeOK
  <2>5. ShapeOK'
    BY <2>1, <2>3 DEF TypesOK, ShapeOK
  <2>6. QED
    BY <2>4, <2>5 DEF TypesOK
<1>12. CASE UNCHANGED vars
  BY <1>12 DEF vars, TypesOK, TypeOK, ShapeOK
<1>13. QED
  BY <1>1, <1>2, <1>3, <1>4, <1>5, <1>6, <1>7, <1>8, <1>11, <1>12 DEF Next

(* The maps of every node are well typed in every reachable state: hashes   *)
(* are only those a service asked for, and requests and tunnels lead to     *)
(* friends or end at the node itself.                                       *)
THEOREM TypesAreRight == Spec => []TypeOK
<1>1. TypesOK => TypeOK
  BY DEF TypesOK
<1>2. QED
  BY <1>1, InitTypes, NextTypes, PTL DEF Spec

-----------------------------------------------------------------------------
(* Request ids.                                                            *)

\* The initial state uses no id.
LEMMA InitIds == Init => IdsUsed
BY DEF Init, IdsUsed

\* diggTunnel uses an id that is nowhere.
LEMMA DiggIds ==
    ASSUME TypesOK, IdsUsed, NEW n \in Nodes, NEW h \in DOMAIN hashes[n], DiggTunnel(n, h)
    PROVE  IdsUsed'
<1> DEFINE entry == hashes[n][h]
           new == [entry EXCEPT !.last_request = nextId]
           req == [origin |-> n, responses |-> {}, recent |-> TRUE]
<1>1. nextId \in Nat /\ nextId \in RequestIds /\ nextId' = nextId + 1
  BY TurtleAssumption DEF DiggTunnel, RequestIds
<1>2. DOMAIN hashes = Nodes /\ DOMAIN requests = Nodes
  BY DEF TypesOK, ShapeOK
<1>3. new.last_request = nextId
  BY DEF TypesOK, ShapeOK, HashInfos
<1>4. /\ hashes' = [hashes EXCEPT ![n] = [hashes[n] EXCEPT ![h] = new]]
      /\ requests' = [requests EXCEPT ![n] = Put(requests[n], nextId, req)]
  BY DEF DiggTunnel
<1> HIDE DEF new, req
<1>5. \A m \in Nodes :
        /\ DOMAIN requests[m] \subseteq Nat
        /\ \A k \in DOMAIN hashes[m] : hashes[m][k].last_request \in Nat
  BY TurtleAssumption DEF TypesOK, TypeOK, RequestIds
<1>6. \A m \in Nodes :
        /\ \A r \in DOMAIN requests'[m] : r < nextId'
        /\ \A k \in DOMAIN hashes'[m] : hashes'[m][k].last_request < nextId'
  BY <1>1, <1>2, <1>3, <1>4, <1>5 DEF Put, IdsUsed
<1>7. \A i \in net' : i \in net \/ i.req = nextId
  <2>1. PICK friends \in SUBSET Friends[n] :
          net' = (net \ {}) \cup ForwardedBy(n, n, nextId, h, <<>>, friends)
    BY DEF DiggTunnel, Send
  <2>2. QED
    BY <2>1 DEF ForwardedBy
<1>8. \A i \in net : i.kind \in {"open", "ok"} => i.req \in Nat
  BY ItemKinds, TurtleAssumption DEF TypesOK, OpenItems, OkItems, RequestIds
<1>9. \A i \in net' : i.kind \in {"open", "ok"} => i.req < nextId'
  BY <1>1, <1>7, <1>8 DEF IdsUsed
<1>10. QED
  BY <1>6, <1>9 DEF IdsUsed

(* No other step uses an id that an item or a request does not bring.       *)
LEMMA NextIds == TypesOK /\ IdsUsed /\ [Next]_vars => IdsUsed'
<1> SUFFICES ASSUME TypesOK, IdsUsed, [Next]_vars PROVE IdsUsed'
  OBVIOUS
<1> USE DEF IdsUsed
<1>0. DOMAIN hashes = Nodes /\ DOMAIN requests = Nodes
  BY DEF TypesOK, ShapeOK
<1>1. ASSUME NEW n \in Nodes, NEW h \in DOMAIN hashes[n], ManageTunnels(n, h)
      PROVE  IdsUsed'
  BY <1>1, DiggIds DEF ManageTunnels, TypesOK, TypeOK
<1>2. ASSUME NEW n \in Nodes, NEW i \in net, HandleTunnelRequest(n, i)
      PROVE  IdsUsed'
  <2> DEFINE req == [origin |-> i.from, responses |-> {}, recent |-> TRUE]
             ok == [kind |-> "ok", from |-> n, to |-> i.from, req |-> i.req,
                    tid |-> TunnelId(i.hash, i.partial, n)]
  <2>1. i.req < nextId /\ nextId' = nextId /\ hashes' = hashes
    BY <1>2 DEF HandleTunnelRequest
  <2>2. requests' = requests \/ requests' = [requests EXCEPT ![n] = Put(requests[n], i.req, req)]
    BY <1>2 DEF HandleTunnelRequest
  <2>3. \A j \in net' : j \in net \/ j.req = i.req
    <3>1. CASE net' = net \ {i}
      BY <3>1
    <3>2. CASE Send({ok}, {i})
      BY <3>2 DEF Send
    <3>3. ASSUME NEW friends \in SUBSET Friends[n],
                 Send(ForwardedBy(n, i.from, i.req, i.hash, i.partial, friends), {i})
          PROVE  <2>3!:
      BY <3>3 DEF Send, ForwardedBy
    <3>4. QED
      BY <1>2, <3>1, <3>2, <3>3 DEF HandleTunnelRequest
  <2> HIDE DEF req
  <2>4. \A m \in Nodes : \A r \in DOMAIN requests'[m] : r < nextId
    BY <1>0, <2>1, <2>2 DEF Put
  <2>5. QED
    BY <2>1, <2>3, <2>4
<1>3. ASSUME NEW n \in Nodes, NEW i \in net, NEW late \in BOOLEAN, HandleTunnelResult(n, i, late)
      PROVE  IdsUsed'
  <2>0. i.kind = "ok" /\ i.to = n
    BY <1>3, ResultCases
  <2>1. CASE Dropped(i)
    BY <2>1 DEF Dropped
  <2>2. ASSUME Answered(n, i, late) PROVE IdsUsed'
    <3>1. nextId' = nextId /\ i.req < nextId
      BY <2>0, <2>2 DEF Answered
    <3>2. \A m \in Nodes : DOMAIN requests'[m] = DOMAIN requests[m]
      BY <2>0, <2>2, AnsweredRequests
    <3>3. \A m \in Nodes : \A k \in DOMAIN hashes'[m] :
            k \in DOMAIN hashes[m] /\ hashes'[m][k].last_request = hashes[m][k].last_request
      <4>1. CASE hashes' = hashes
        BY <4>1
      <4>2. ASSUME NEW h \in DOMAIN hashes[n], Listed(n, i, late, h) PROVE <3>3!:
        <5>1. ListTunnel(n, h, i.tid).last_request = hashes[n][h].last_request
          BY DEF ListTunnel, TypesOK, ShapeOK, HashInfos
        <5>2. QED
          BY <1>0, <4>2, <5>1 DEF Listed
      <4>3. QED
        BY <1>3, <2>0, <4>1, <4>2, ResultCases DEF Dropped, NotedOnly, PassedOn
    <3>4. \A j \in net' : j \in net \/ j.req = i.req
      <4>1. CASE net' = net \ {i}
        BY <4>1
      <4>2. CASE PassedOn(n, i, late)
        <5>1. i \in OkItems
          BY <2>0, ItemKinds DEF TypesOK
        <5>2. [i EXCEPT !.from = n, !.to = requests[n][i.req].origin].req = i.req
          BY <5>1 DEF OkItems
        <5>3. QED
          BY <4>2, <5>2 DEF PassedOn
      <4>3. QED
        BY <1>3, <4>1, <4>2, ResultCases DEF Dropped, NotedOnly, Listed
    <3>5. QED
      BY <3>1, <3>2, <3>3, <3>4
  <2>3. QED
    BY <1>3, <2>1, <2>2, ResultCases DEF NotedOnly, Listed, PassedOn
<1>4. ASSUME NEW n \in Nodes, NEW i \in net, RouteGenericTunnelItem(n, i)
      PROVE  IdsUsed'
  <2>1. i \in DataItems
    BY <1>4, ItemKinds DEF TypesOK, RouteGenericTunnelItem
  <2>2. \A to : [i EXCEPT !.from = n, !.to = to].kind = "data"
    BY <2>1 DEF DataItems
  <2>3. \A j \in net' : j \in net \/ j.kind = "data"
    <3> DEFINE t == tunnels[n][i.tid]
               next == IF i.from = t.dst THEN t.src ELSE t.dst
               on == [i EXCEPT !.from = n, !.to = next]
    <3>1. CASE Send({on}, {i})
      <4>1. on.kind = "data"
        BY <2>2
      <4> HIDE DEF on
      <4>2. QED
        BY <3>1, <4>1 DEF Send
    <3>2. CASE net' = net \ {i}
      BY <3>2
    <3>3. QED
      BY <1>4, <3>1, <3>2 DEF RouteGenericTunnelItem
  <2>4. QED
    BY <1>4, <2>3 DEF RouteGenericTunnelItem
<1>5. ASSUME NEW n \in Nodes, NEW tid \in clients[n], SendTurtleData(n, tid)
      PROVE  IdsUsed'
  <2>1. \A j \in net' : j \in net \/ j.kind = "data"
    BY <1>5 DEF SendTurtleData, Send
  <2>2. QED
    BY <1>5, <2>1 DEF SendTurtleData
<1>6. ASSUME NEW i \in net, Lose(i)
      PROVE  IdsUsed'
  BY <1>6 DEF Lose
<1>7. ASSUME NEW n \in Nodes, NEW h \in Wants[n], MonitorTunnels(n, h)
      PROVE  IdsUsed'
  <2> DEFINE new == [tunnels |-> {}, last_request |-> 0]
  <2>1. new.last_request < nextId
    BY DEF TypesOK, TypeOK
  <2>2. hashes' = hashes \/ hashes' = [hashes EXCEPT ![n] = Put(hashes[n], h, new)]
    BY <1>7 DEF MonitorTunnels
  <2> HIDE DEF new
  <2>3. \A m \in Nodes : \A k \in DOMAIN hashes'[m] : hashes'[m][k].last_request < nextId
    BY <1>0, <2>1, <2>2 DEF Put
  <2>4. QED
    BY <1>7, <2>3 DEF MonitorTunnels
<1>8. ASSUME NEW n \in Nodes, NEW h \in Wants[n], StopMonitoringTunnels(n, h)
      PROVE  IdsUsed'
  BY <1>8 DEF StopMonitoringTunnels
<1>11. ASSUME NEW n \in Nodes, NEW old \in SUBSET DOMAIN tunnels[n], AutoWash(n, old)
       PROVE  IdsUsed'
  <2>1. PICK tids \in SUBSET DOMAIN tunnels[n], gone \in SUBSET DOMAIN hashes[n] :
          CloseTunnels(n, tids, gone) /\ UNCHANGED <<requests, net, nextId>>
    BY <1>11, Washed
  <2>2. /\ \A m \in Nodes \ {n} : hashes'[m] = hashes[m]
        /\ DOMAIN hashes'[n] \subseteq DOMAIN hashes[n]
        /\ \A h \in DOMAIN hashes'[n] : hashes'[n][h].last_request = hashes[n][h].last_request
    BY <2>1, Closed
  <2>3. QED
    BY <2>1, <2>2
<1>12. CASE UNCHANGED vars
  BY <1>12 DEF vars
<1>13. QED
  BY <1>1, <1>2, <1>3, <1>4, <1>5, <1>6, <1>7, <1>8, <1>11, <1>12 DEF Next

-----------------------------------------------------------------------------
(* Routes.                                                                 *)

\* What a node remembers of a request stays.
Remembered ==
    \A n \in Nodes : \A r \in DOMAIN requests[n] :
        r \in DOMAIN requests'[n] /\ requests'[n][r].origin = requests[n][r].origin

RoutesOK == TypesOK /\ IdsUsed /\ ItemRoutes /\ TunnelRoutes

\* As long as requests are remembered, items that stay are on their routes.
LEMMA ItemRouteStays ==
    ASSUME TypesOK, Remembered, NEW i \in net, ItemRoute(i)
    PROVE  ItemRoute(i)'
<1>1. ASSUME NEW req, NEW route \in Seq(Nodes), RequestsAlong(req, route)
      PROVE  RequestsAlong(req, route)'
  <2>1. \A k \in 1..Len(route) : route[k] \in Nodes
    OBVIOUS
  <2>2. QED
    BY <1>1, <2>1 DEF RequestsAlong, Remembered
<1>2. ShapeOK
  BY DEF TypesOK
<1>3. CASE i.kind = "open"
  <2>1. i.partial \in Seq(Nodes)
    BY <1>2, <1>3, ItemKinds DEF OpenItems
  <2>2. RequestsAlong(i.req, i.partial)'
    BY <1>1, <1>3, <2>1 DEF ItemRoute
  <2>3. QED
    BY <1>3, <2>2 DEF ItemRoute
<1>4. CASE i.kind = "ok"
  <2>1. i.tid.route \in Seq(Nodes)
    BY <1>2, <1>4, ItemKinds DEF OkItems, TunnelIds
  <2>2. RequestsAlong(i.req, i.tid.route)'
    BY <1>1, <1>4, <2>1 DEF ItemRoute
  <2>3. QED
    BY <1>4, <2>2 DEF ItemRoute
<1>5. CASE i.kind \notin {"open", "ok"}
  BY <1>5 DEF ItemRoute
<1>6. QED
  BY <1>3, <1>4, <1>5

(* A step that adds no item and no tunnel keeps the routes.                 *)
LEMMA QuietRoutes ==
    ASSUME RoutesOK, Remembered, net' \subseteq net,
           \A n \in Nodes : \A t \in DOMAIN tunnels'[n] :
               t \in DOMAIN tunnels[n] /\ tunnels'[n][t] = tunnels[n][t]
    PROVE  ItemRoutes' /\ TunnelRoutes'
<1>1. ItemRoutes'
  BY ItemRouteStays DEF RoutesOK, ItemRoutes
<1>2. TunnelRoutes'
  BY DEF RoutesOK, TunnelRoutes, TunnelRoute
<1>3. QED
  BY <1>1, <1>2

(* A request that is sent on by a node that had not seen it: the route gets *)
(* longer by this node, which is not on it yet.                             *)
LEMMA RouteGrows ==
    ASSUME TypesOK, NEW i \in net, i.kind = "open", ItemRoute(i), Remembered,
           i.req \notin DOMAIN requests[i.to],
           i.req \in DOMAIN requests'[i.to],
           requests'[i.to][i.req].origin = i.from
    PROVE  LET route == Append(i.partial, i.to) IN
             /\ route \in Seq(Nodes) /\ Len(route) = Len(i.partial) + 1 /\ Len(route) > 1
             /\ route[Len(route)] = i.to /\ route[Len(route) - 1] = i.from
             /\ Straight(route)
             /\ RequestsAlong(i.req, route)'
<1> DEFINE p == i.partial
           n == i.to
           route == Append(p, n)
<1>1. p \in Seq(Nodes) /\ n \in Nodes
  BY ItemKinds DEF TypesOK, OpenItems
<1>2. Len(p) > 0 /\ p[Len(p)] = i.from /\ Straight(p) /\ RequestsAlong(i.req, p)
  BY DEF ItemRoute
<1>3. \A k \in 1..Len(p) : p[k] # n
  BY <1>2 DEF RequestsAlong
<1>4. \A k \in 1..Len(p) :
        i.req \in DOMAIN requests'[p[k]] /\ requests'[p[k]][i.req].origin = Before(p, k)
  BY <1>1, <1>2 DEF RequestsAlong, Remembered
<1>5. i.req \in DOMAIN requests'[n] /\ requests'[n][i.req].origin = i.from
  OBVIOUS
<1> HIDE DEF p, n
<1>6. /\ route \in Seq(Nodes) /\ Len(route) = Len(p) + 1 /\ Len(p) \in Nat
      /\ \A k \in 1..Len(p) : route[k] = p[k]
      /\ route[Len(p) + 1] = n
  BY <1>1
<1> HIDE DEF route
<1>7. Straight(route)
  BY <1>2, <1>3, <1>6 DEF Straight
<1>8. RequestsAlong(i.req, route)'
  <2> SUFFICES ASSUME NEW k \in 1..Len(route)
               PROVE  /\ i.req \in DOMAIN requests'[route[k]]
                      /\ requests'[route[k]][i.req].origin = Before(route, k)
    BY DEF RequestsAlong
  <2>1. CASE k \in 1..Len(p)
    <3>1. Before(route, k) = Before(p, k)
      BY <1>6, <2>1 DEF Before
    <3>2. QED
      BY <1>4, <1>6, <2>1, <3>1
  <2>2. CASE k = Len(p) + 1
    <3>1. Before(route, k) = i.from
      BY <1>2, <1>6, <2>2 DEF Before
    <3>2. QED
      BY <1>5, <1>6, <2>2, <3>1
  <2>3. QED
    BY <1>6, <2>1, <2>2
<1>9. Len(route) > 1 /\ route[Len(route)] = n /\ route[Len(route) - 1] = i.from
  BY <1>2, <1>6
<1>10. QED
  BY <1>6, <1>7, <1>8, <1>9 DEF p, n, route

\* The route of a request of our own is this node.
LEMMA DiggRoutes ==
    ASSUME RoutesOK, NEW n \in Nodes, NEW h \in DOMAIN hashes[n], DiggTunnel(n, h)
    PROVE  ItemRoutes' /\ TunnelRoutes'
<1> DEFINE req == [origin |-> n, responses |-> {}, recent |-> TRUE]
<1>1. nextId \in RequestIds /\ nextId \in Nat /\ h \in Hashes /\ tunnels' = tunnels
  BY TurtleAssumption DEF DiggTunnel, RequestIds, RoutesOK, TypesOK, TypeOK
<1>2. nextId \notin DOMAIN requests[n] /\ DOMAIN requests = Nodes
  BY <1>1 DEF RoutesOK, IdsUsed, TypesOK, ShapeOK
<1>3. requests' = [requests EXCEPT ![n] = Put(requests[n], nextId, req)] /\ req.origin = n
  BY DEF DiggTunnel
<1> HIDE DEF req
<1>4. /\ Remembered
      /\ nextId \in DOMAIN requests'[n] /\ requests'[n][nextId].origin = n
  BY <1>2, <1>3 DEF Remembered, Put
<1>5. PICK friends \in SUBSET Friends[n] :
        net' = (net \ {}) \cup ForwardedBy(n, n, nextId, h, <<>>, friends)
  BY DEF DiggTunnel, Send
<1>6. ASSUME NEW i \in ForwardedBy(n, n, nextId, h, <<>>, friends)
      PROVE  ItemRoute(i)'
  <2> DEFINE none == <<>>
             one == Append(none, n)
  <2>1. none \in Seq(Nodes) /\ Len(one) = 1 /\ one[1] = n
    OBVIOUS
  <2>2. i \in ForwardedBy(n, n, nextId, h, none, friends)
    BY <1>6
  <2> HIDE DEF none
  <2>3. i.kind = "open" /\ i.from = n /\ i.req = nextId /\ i.partial = one
    <3>1. PICK f \in friends :
            i = [kind |-> "open", from |-> n, to |-> f, req |-> nextId, hash |-> h, partial |-> one]
      BY <2>2 DEF ForwardedBy, Perturb
    <3> HIDE DEF one
    <3>2. QED
      BY <3>1
  <2> HIDE DEF one
  <2>4. Len(i.partial) = 1 /\ i.partial[1] = n
    BY <2>1, <2>3
  <2>5. RequestsAlong(i.req, i.partial)'
    BY <1>4, <2>3, <2>4 DEF RequestsAlong, Before
  <2>6. Straight(i.partial)
    BY <2>4 DEF Straight
  <2>7. QED
    BY <2>3, <2>4, <2>5, <2>6 DEF ItemRoute
<1>7. ItemRoutes'
  BY <1>4, <1>5, <1>6, ItemRouteStays DEF RoutesOK, ItemRoutes
<1>8. TunnelRoutes'
  BY <1>1 DEF RoutesOK, TunnelRoutes, TunnelRoute
<1>9. QED
  BY <1>7, <1>8

(* A request that is forwarded has a longer route; where it is served, the  *)
(* route is the tunnel's, and the answer starts its way back.               *)
LEMMA RequestRoutes ==
    ASSUME RoutesOK, NEW n \in Nodes, NEW i \in net, HandleTunnelRequest(n, i)
    PROVE  ItemRoutes' /\ TunnelRoutes'
<1> DEFINE tid == TunnelId(i.hash, i.partial, n)
           route == Append(i.partial, n)
           end == [src |-> i.from, dst |-> n, hash |-> i.hash]
           ok == [kind |-> "ok", from |-> n, to |-> i.from, req |-> i.req, tid |-> tid]
           req == [origin |-> i.from, responses |-> {}, recent |-> TRUE]
<1>0. TypesOK /\ ShapeOK /\ i.kind = "open" /\ i.to = n
  BY DEF RoutesOK, TypesOK, HandleTunnelRequest
<1>1. CASE i.req \in DOMAIN requests[n]
  <2>1. net' = net \ {i} /\ requests' = requests /\ tunnels' = tunnels
    BY <1>1 DEF HandleTunnelRequest
  <2>2. QED
    BY <2>1, QuietRoutes DEF Remembered
<1>2. CASE i.req \notin DOMAIN requests[n]
  <2>1. requests' = [requests EXCEPT ![n] = Put(requests[n], i.req, req)] /\ req.origin = i.from
    BY <1>2 DEF HandleTunnelRequest
  <2>2. DOMAIN requests = Nodes /\ DOMAIN tunnels = Nodes
    BY <1>0 DEF ShapeOK
  <2> HIDE DEF req
  <2>3. Remembered /\ i.req \in DOMAIN requests'[n] /\ requests'[n][i.req].origin = i.from
    BY <1>2, <2>1, <2>2 DEF Remembered, Put
  <2>4. /\ route \in Seq(Nodes) /\ Len(route) > 1 /\ Len(route) \in Nat
        /\ route[Len(route)] = n /\ route[Len(route) - 1] = i.from
        /\ Straight(route)
        /\ RequestsAlong(i.req, route)'
    BY <1>0, <1>2, <2>3, RouteGrows DEF RoutesOK, ItemRoutes
  <2>5. /\ i.from \in Nodes /\ i.req \in RequestIds /\ i.hash \in Hashes
        /\ i.partial \in Seq(Nodes)
    BY <1>0, ItemKinds DEF OpenItems
  <2>6. ASSUME NEW j \in net, j \in net' PROVE ItemRoute(j)'
    BY <1>0, <2>3, <2>6, ItemRouteStays DEF RoutesOK, ItemRoutes
  <2>7. CASE i.hash \in Serves[n]
    <3>1. /\ net' = (net \ {i}) \cup {ok}
          /\ tunnels' = [tunnels EXCEPT ![n] = Put(tunnels[n], tid, end)]
      BY <1>2, <2>7 DEF HandleTunnelRequest, Send
    <3>2. ok.kind = "ok" /\ ok.from = n /\ ok.to = i.from /\ ok.req = i.req /\ ok.tid = tid
      OBVIOUS
    <3>3. tid.route = route
      BY DEF TunnelId
    <3>4. end.src = i.from /\ end.dst = n
      OBVIOUS
    <3> HIDE DEF tid, ok, end, route
    <3>5. ItemRoute(ok)'
      <4>1. Len(route) - 1 \in 1 .. Len(route) - 1 /\ (Len(route) - 1) + 1 = Len(route)
        BY <2>4
      <4>2. \E k \in 1 .. Len(route) - 1 : ok.to = route[k] /\ ok.from = route[k + 1]
        BY <2>4, <3>2, <4>1
      <4>3. QED
        BY <2>4, <3>2, <3>3, <4>2 DEF ItemRoute
    <3>6. ItemRoutes'
      BY <2>6, <3>1, <3>5 DEF ItemRoutes
    <3>7. TunnelRoute(n, tid, end)
      <4>1. Len(route) \in 1..Len(route) /\ Len(route) # 1
        BY <2>4
      <4>2. Before(route, Len(route)) = i.from /\ After(route, Len(route)) = n
        BY <2>4, <4>1 DEF Before, After
      <4>3. QED
        BY <2>4, <3>3, <3>4, <4>1, <4>2 DEF TunnelRoute
    <3>8. TunnelRoutes'
      <4>1. ASSUME NEW m \in Nodes, NEW t \in DOMAIN tunnels'[m]
            PROVE  TunnelRoute(m, t, tunnels'[m][t])
        BY <2>2, <3>1, <3>7 DEF RoutesOK, TunnelRoutes, Put
      <4>2. QED
        BY <4>1 DEF TunnelRoutes, TunnelRoute
    <3>9. QED
      BY <3>6, <3>8
  <2>8. CASE i.hash \notin Serves[n]
    <3>1. PICK friends \in SUBSET Friends[n] :
            net' = (net \ {i}) \cup ForwardedBy(n, i.from, i.req, i.hash, i.partial, friends)
      BY <1>2, <2>8 DEF HandleTunnelRequest, Send
    <3>2. ASSUME NEW j \in ForwardedBy(n, i.from, i.req, i.hash, i.partial, friends)
          PROVE  ItemRoute(j)'
      <4>1. j.kind = "open" /\ j.from = n /\ j.req = i.req /\ j.partial = route
        <5>1. PICK f \in friends :
                j = [kind |-> "open", from |-> n, to |-> f, req |-> i.req, hash |-> i.hash,
                     partial |-> route]
          BY <3>2 DEF ForwardedBy, Perturb
        <5> HIDE DEF route
        <5>2. QED
          BY <5>1
      <4> HIDE DEF route
      <4>2. QED
        BY <2>4, <4>1 DEF ItemRoute
    <3>3. ItemRoutes'
      BY <2>6, <3>1, <3>2 DEF ItemRoutes
    <3>4. tunnels' = tunnels
      BY <1>2, <2>8 DEF HandleTunnelRequest
    <3>5. QED
      BY <3>3, <3>4 DEF RoutesOK, TunnelRoutes, TunnelRoute
  <2>9. QED
    BY <2>7, <2>8
<1>3. QED
  BY <1>1, <1>2

(* Where an answer is noted, the node is on the answer's route, and its     *)
(* neighbours there are the origin of the request and the sender.           *)
LEMMA AnswerNeighbours ==
    ASSUME RoutesOK, NEW i \in net, i.kind = "ok"
    PROVE  LET route == i.tid.route
               n == i.to
           IN /\ route \in Seq(Nodes) /\ Len(route) > 1 /\ Straight(route)
              /\ n \in Nodes /\ i.req \in DOMAIN requests[n]
              /\ \E k \in 1 .. Len(route) - 1 :
                   /\ route[k] = n /\ route[k + 1] = i.from
                   /\ requests[n][i.req].origin = Before(route, k)
<1> DEFINE route == i.tid.route
           n == i.to
<1>1. i \in OkItems /\ route \in Seq(Nodes) /\ n \in Nodes /\ Len(route) \in Nat
  BY ItemKinds DEF RoutesOK, TypesOK, OkItems, TunnelIds
<1>2. /\ Straight(route) /\ RequestsAlong(i.req, route)
      /\ \E k \in 1 .. Len(route) - 1 : i.to = route[k] /\ i.from = route[k + 1]
  BY DEF RoutesOK, ItemRoutes, ItemRoute
<1>3. PICK k \in 1 .. Len(route) - 1 : i.to = route[k] /\ i.from = route[k + 1]
  BY <1>2
<1> HIDE DEF route
<1>4. k \in 1..Len(route) /\ Len(route) > 1
  BY <1>1, <1>3
<1>5. i.req \in DOMAIN requests[n] /\ requests[n][i.req].origin = Before(route, k)
  BY <1>2, <1>3, <1>4 DEF RequestsAlong
<1>6. QED
  BY <1>1, <1>2, <1>3, <1>4, <1>5 DEF route

(* The tunnel that an answer leaves is on the route of the answer.          *)
LEMMA NotedRoute ==
    ASSUME RoutesOK, NEW i \in net, i.kind = "ok"
    PROVE  \A t \in DOMAIN NoteTunnel(i.to, i) : TunnelRoute(i.to, t, NoteTunnel(i.to, i)[t])
<1> DEFINE route == i.tid.route
           n == i.to
           new == [src |-> requests[n][i.req].origin, dst |-> i.from, hash |-> Nil]
<1>1. /\ route \in Seq(Nodes) /\ Len(route) > 1 /\ Straight(route) /\ Len(route) \in Nat
      /\ n \in Nodes /\ i.req \in DOMAIN requests[n]
      /\ \E k \in 1 .. Len(route) - 1 :
           /\ route[k] = n /\ route[k + 1] = i.from
           /\ requests[n][i.req].origin = Before(route, k)
  BY AnswerNeighbours
<1>2. PICK k \in 1 .. Len(route) - 1 :
        /\ route[k] = n /\ route[k + 1] = i.from
        /\ requests[n][i.req].origin = Before(route, k)
  BY <1>1
<1>3. /\ DOMAIN NoteTunnel(n, i) = DOMAIN tunnels[n] \cup {i.tid}
      /\ \A t \in DOMAIN tunnels[n] : NoteTunnel(n, i)[t] = tunnels[n][t]
      /\ i.tid \notin DOMAIN tunnels[n] => NoteTunnel(n, i)[i.tid] = new
  BY <1>1, Noted DEF RoutesOK
<1>4. new.src = Before(route, k) /\ new.dst = i.from
  BY <1>2
<1> HIDE DEF new, route, n
<1>5. k \in 1..Len(route) /\ After(route, k) = i.from
  BY <1>1, <1>2 DEF After
<1>6. TunnelRoute(n, i.tid, new)
  BY <1>1, <1>2, <1>4, <1>5 DEF TunnelRoute, route
<1>7. \A t \in DOMAIN tunnels[n] : TunnelRoute(n, t, tunnels[n][t])
  BY <1>1 DEF RoutesOK, TunnelRoutes
<1>8. \A t \in DOMAIN NoteTunnel(n, i) : TunnelRoute(n, t, NoteTunnel(n, i)[t])
  BY <1>3, <1>6, <1>7
<1>9. QED
  BY <1>8 DEF n

\* An answer stays on its route, and so do the tunnels it leaves.
LEMMA ResultRoutes ==
    ASSUME RoutesOK, NEW n \in Nodes, NEW i \in net, NEW late \in BOOLEAN,
           HandleTunnelResult(n, i, late)
    PROVE  ItemRoutes' /\ TunnelRoutes'
<1>0. TypesOK /\ ShapeOK /\ i.kind = "ok" /\ i.to = n
  BY ResultCases DEF RoutesOK, TypesOK
<1>1. CASE Dropped(i)
  BY <1>1, QuietRoutes DEF Dropped, Remembered
<1>2. ASSUME Answered(n, i, late) PROVE ItemRoutes' /\ TunnelRoutes'
  <2> DEFINE noted == NoteTunnel(n, i)
  <2>1. Remembered
    BY <1>0, <1>2, AnsweredRequests DEF Remembered
  <2>2. ASSUME NEW j \in net PROVE ItemRoute(j)'
    BY <1>0, <2>1, ItemRouteStays DEF RoutesOK, ItemRoutes
  <2>3. \A t \in DOMAIN noted : TunnelRoute(n, t, noted[t])
    BY <1>0, NotedRoute
  <2>4. i.req \in DOMAIN requests[n] /\ DOMAIN tunnels = Nodes
    BY <1>0, <1>2 DEF Answered, ShapeOK
  <2>5. i.tid \in DOMAIN noted /\ noted[i.tid] \in Tunnels
    <3>1. /\ DOMAIN noted = DOMAIN tunnels[n] \cup {i.tid}
          /\ \A t \in DOMAIN noted : noted[t] \in Tunnels
      BY <1>0, <2>4, Noted, ZenonT(30)
    <3> HIDE DEF noted
    <3>2. QED
      BY <3>1
  <2> HIDE DEF noted
  <2>6. TunnelRoutes'
    <3>1. \A m \in Nodes : \A t \in DOMAIN tunnels[m] : TunnelRoute(m, t, tunnels[m][t])
      BY DEF RoutesOK, TunnelRoutes
    <3>2. \A m \in Nodes : \A t \in DOMAIN tunnels'[m] : TunnelRoute(m, t, tunnels'[m][t])
      <4>1. CASE tunnels' = tunnels
        BY <3>1, <4>1
      <4>2. CASE tunnels' = [tunnels EXCEPT ![n] = noted]
        BY <2>3, <2>4, <3>1, <4>2
      <4>3. ASSUME NEW h \in DOMAIN hashes[n], Listed(n, i, late, h) PROVE <3>2!:
        <5> DEFINE new == [noted[i.tid] EXCEPT !.hash = h]
        <5>1. new.src = noted[i.tid].src /\ new.dst = noted[i.tid].dst
          BY <2>5 DEF Tunnels
        <5>2. tunnels' = [tunnels EXCEPT ![n] = Put(noted, i.tid, new)]
          BY <4>3 DEF Listed, noted
        <5> HIDE DEF new
        <5>3. TunnelRoute(n, i.tid, new)
          BY <2>3, <2>5, <5>1 DEF TunnelRoute
        <5>4. QED
          BY <2>3, <2>4, <2>5, <3>1, <5>2, <5>3 DEF Put
      <4>4. QED
        BY <1>0, <4>1, <4>2, <4>3, ResultCases DEF Dropped, NotedOnly, PassedOn, noted
    <3>3. QED
      BY <3>2 DEF TunnelRoutes, TunnelRoute
  <2>7. ItemRoutes'
    <3>1. CASE net' = net \ {i}
      BY <2>2, <3>1 DEF ItemRoutes
    <3>2. CASE PassedOn(n, i, late)
      <4> DEFINE origin == requests[n][i.req].origin
                 on == [i EXCEPT !.from = n, !.to = origin]
                 route == i.tid.route
      <4>1. PICK k \in 1 .. Len(route) - 1 :
              route[k] = n /\ origin = Before(route, k)
        BY <1>0, AnswerNeighbours
      <4>2. origin # n /\ route \in Seq(Nodes) /\ Len(route) \in Nat
        BY <1>0, <3>2, AnswerNeighbours DEF PassedOn
      <4>3. i \in OkItems
        BY <1>0, ItemKinds
      <4>4. on.kind = "ok" /\ on.from = n /\ on.to = origin /\ on.req = i.req /\ on.tid = i.tid
        BY <4>3 DEF OkItems
      <4>5. /\ Straight(i.tid.route)
            /\ RequestsAlong(i.req, i.tid.route)'
        BY <1>0, <2>2 DEF ItemRoute
      <4>6. \E l \in 1 .. Len(route) - 1 : origin = route[l] /\ n = route[l + 1]
        <5> HIDE DEF route, origin
        <5>1. k # 1 /\ origin = route[k - 1]
          BY <4>1, <4>2 DEF Before
        <5>2. k - 1 \in 1 .. Len(route) - 1 /\ (k - 1) + 1 = k
          BY <4>1, <4>2, <5>1
        <5>3. QED
          BY <4>1, <5>1, <5>2
      <4>7. net' = (net \ {i}) \cup {on}
        BY <3>2 DEF PassedOn
      <4>8. ASSUME NEW j, j = on PROVE ItemRoute(j)'
        <5>1. /\ j.kind = "ok" /\ j.req = i.req /\ j.tid = i.tid
              /\ \E l \in 1 .. Len(route) - 1 : j.to = route[l] /\ j.from = route[l + 1]
          BY <4>4, <4>6, <4>8
        <5>2. QED
          BY <4>5, <5>1 DEF ItemRoute
      <4>9. QED
        BY <2>2, <4>7, <4>8 DEF ItemRoutes
    <3>3. QED
      BY <1>0, <3>1, <3>2, ResultCases DEF Dropped, NotedOnly, Listed
  <2>8. QED
    BY <2>6, <2>7
<1>3. QED
  BY <1>1, <1>2, ResultCases DEF NotedOnly, Listed, PassedOn

(* Data that a node sends along one of its tunnels is between neighbours.   *)
LEMMA DataBetweenNeighbours ==
    ASSUME RoutesOK, NEW n \in Nodes, NEW tid \in DOMAIN tunnels[n],
           NEW to \in {tunnels[n][tid].src, tunnels[n][tid].dst}, to # n,
           NEW j, j.kind = "data", j.from = n, j.to = to, j.tid = tid
    PROVE  ItemRoute(j)'
<1> DEFINE route == tid.route
<1>1. /\ tid \in TunnelIds /\ route \in Seq(Nodes) /\ Len(route) \in Nat
  BY DEF RoutesOK, TypesOK, ShapeOK, TunnelIds
<1>2. TunnelRoute(n, tid, tunnels[n][tid])
  BY DEF RoutesOK, TunnelRoutes
<1>3. /\ Straight(route)
      /\ \E k \in 1..Len(route) :
           /\ route[k] = n
           /\ tunnels[n][tid].src = Before(route, k)
           /\ tunnels[n][tid].dst = After(route, k)
  BY <1>2 DEF TunnelRoute
<1>4. PICK k \in 1..Len(route) :
           /\ route[k] = n
           /\ tunnels[n][tid].src = Before(route, k)
           /\ tunnels[n][tid].dst = After(route, k)
  BY <1>3
<1>5. \E l \in 1 .. Len(route) - 1 : {n, to} = {route[l], route[l + 1]}
  <2> HIDE DEF route
  <2>1. CASE to = Before(route, k)
    <3>1. k # 1 /\ to = route[k - 1]
      BY <1>4, <2>1 DEF Before
    <3>2. k - 1 \in 1 .. Len(route) - 1 /\ (k - 1) + 1 = k
      BY <1>1, <1>4, <3>1
    <3>3. {n, to} = {route[k - 1], route[(k - 1) + 1]}
      BY <1>4, <3>1, <3>2
    <3>4. QED
      BY <3>2, <3>3
  <2>2. CASE to = After(route, k)
    <3>1. k # Len(route) /\ to = route[k + 1]
      BY <1>4, <2>2 DEF After
    <3>2. k \in 1 .. Len(route) - 1
      BY <1>1, <1>4, <3>1
    <3>3. QED
      BY <1>4, <3>1, <3>2
  <2>3. QED
    BY <1>4, <2>1, <2>2
<1>6. QED
  BY <1>3, <1>5 DEF ItemRoute

\* Every step keeps the routes.
LEMMA NextRoutes == RoutesOK /\ [Next]_vars => RoutesOK'
<1> SUFFICES ASSUME RoutesOK, [Next]_vars PROVE RoutesOK'
  OBVIOUS
<1>0. TypesOK /\ TypeOK /\ ShapeOK
  BY DEF RoutesOK, TypesOK
<1> SUFFICES ItemRoutes' /\ TunnelRoutes'
  BY NextTypes, NextIds DEF RoutesOK
<1>1. ASSUME NEW n \in Nodes, NEW h \in DOMAIN hashes[n], ManageTunnels(n, h)
      PROVE  ItemRoutes' /\ TunnelRoutes'
  BY <1>0, <1>1, DiggRoutes DEF ManageTunnels, TypeOK
<1>2. ASSUME NEW n \in Nodes, NEW i \in net, HandleTunnelRequest(n, i)
      PROVE  ItemRoutes' /\ TunnelRoutes'
  BY <1>2, RequestRoutes
<1>3. ASSUME NEW n \in Nodes, NEW i \in net, NEW late \in BOOLEAN, HandleTunnelResult(n, i, late)
      PROVE  ItemRoutes' /\ TunnelRoutes'
  BY <1>3, ResultRoutes
<1>4. ASSUME NEW n \in Nodes, NEW i \in net, RouteGenericTunnelItem(n, i)
      PROVE  ItemRoutes' /\ TunnelRoutes'
  <2> DEFINE t == tunnels[n][i.tid]
             next == IF i.from = t.dst THEN t.src ELSE t.dst
             on == [i EXCEPT !.from = n, !.to = next]
  <2>1. requests' = requests /\ tunnels' = tunnels
    BY <1>4 DEF RouteGenericTunnelItem
  <2>2. CASE /\ i.tid \in DOMAIN tunnels[n]
             /\ (i.from = t.dst /\ t.src # n) \/ (i.from = t.src /\ t.dst # n)
             /\ Send({on}, {i})
    <3>1. i \in DataItems /\ i.from # n
      BY <1>0, <1>4, ItemKinds DEF RouteGenericTunnelItem
    <3>2. next \in {t.src, t.dst} /\ next # n
      BY <2>2, <3>1
    <3>3. on.kind = "data" /\ on.from = n /\ on.to = next /\ on.tid = i.tid
      <4> HIDE DEF next
      <4>1. QED
        BY <3>1 DEF DataItems
    <3>4. net' = (net \ {i}) \cup {on}
      BY <2>2 DEF Send
    <3>5. ASSUME NEW j, j = on PROVE ItemRoute(j)'
      <4>1. j.kind = "data" /\ j.from = n /\ j.to = next /\ j.tid = i.tid
        BY <3>3, <3>5
      <4> HIDE DEF next
      <4>2. QED
        BY <2>2, <3>2, <4>1, DataBetweenNeighbours
    <3>6. ItemRoutes'
      <4> HIDE DEF on
      <4>1. ASSUME NEW j \in net PROVE ItemRoute(j)'
        BY <1>0, <2>1, ItemRouteStays DEF RoutesOK, ItemRoutes, Remembered
      <4>2. QED
        BY <3>4, <3>5, <4>1 DEF ItemRoutes
    <3>7. QED
      BY <2>1, <3>6 DEF RoutesOK, TunnelRoutes, TunnelRoute
  <2>3. CASE net' = net \ {i}
    BY <2>1, <2>3, QuietRoutes DEF Remembered
  <2>4. QED
    BY <1>4, <2>2, <2>3 DEF RouteGenericTunnelItem
<1>5. ASSUME NEW n \in Nodes, NEW tid \in clients[n], SendTurtleData(n, tid)
      PROVE  ItemRoutes' /\ TunnelRoutes'
  <2> DEFINE t == tunnels[n][tid]
             to == IF t.src = n THEN t.dst ELSE t.src
             i == [kind |-> "data", from |-> n, to |-> to, tid |-> tid]
  <2>1. requests' = requests /\ tunnels' = tunnels /\ tid \in DOMAIN tunnels[n]
    BY <1>5 DEF SendTurtleData
  <2>2. to \in {t.src, t.dst} /\ to # n
    BY <1>0, <2>1 DEF ShapeOK
  <2>3. net' = (net \ {}) \cup {i}
    BY <1>5 DEF SendTurtleData, Send
  <2>4. ASSUME NEW j, j = i PROVE ItemRoute(j)'
    <3>1. j.kind = "data" /\ j.from = n /\ j.to = to /\ j.tid = tid
      BY <2>4
    <3> HIDE DEF to
    <3>2. QED
      BY <2>1, <2>2, <3>1, DataBetweenNeighbours
  <2>5. ASSUME NEW j \in net PROVE ItemRoute(j)'
    BY <1>0, <2>1, ItemRouteStays DEF RoutesOK, ItemRoutes, Remembered
  <2> HIDE DEF i
  <2>6. ItemRoutes'
    BY <2>3, <2>4, <2>5 DEF ItemRoutes
  <2>7. QED
    BY <2>1, <2>6 DEF RoutesOK, TunnelRoutes, TunnelRoute
<1>6. ASSUME NEW i \in net, Lose(i)
      PROVE  ItemRoutes' /\ TunnelRoutes'
  BY <1>6, QuietRoutes DEF Lose, Remembered
<1>7. ASSUME NEW n \in Nodes, NEW h \in Wants[n],
             MonitorTunnels(n, h) \/ StopMonitoringTunnels(n, h)
      PROVE  ItemRoutes' /\ TunnelRoutes'
  BY <1>7, QuietRoutes DEF MonitorTunnels, StopMonitoringTunnels, Remembered
<1>10. ASSUME NEW n \in Nodes, NEW old \in SUBSET DOMAIN tunnels[n], AutoWash(n, old)
       PROVE  ItemRoutes' /\ TunnelRoutes'
  <2>1. PICK tids \in SUBSET DOMAIN tunnels[n], gone \in SUBSET DOMAIN hashes[n] :
          CloseTunnels(n, tids, gone) /\ UNCHANGED <<requests, net, nextId>>
    BY <1>0, <1>10, Washed
  <2>2. /\ \A m \in Nodes \ {n} : tunnels'[m] = tunnels[m]
        /\ DOMAIN tunnels'[n] \subseteq DOMAIN tunnels[n]
        /\ \A t \in DOMAIN tunnels'[n] : tunnels'[n][t] = tunnels[n][t]
    BY <1>0, <2>1, Closed
  <2>3. \A m \in Nodes : \A t \in DOMAIN tunnels'[m] :
          t \in DOMAIN tunnels[m] /\ tunnels'[m][t] = tunnels[m][t]
    BY <2>2
  <2>4. QED
    BY <2>1, <2>3, QuietRoutes DEF Remembered
<1>11. CASE UNCHANGED vars
  BY <1>11, QuietRoutes DEF vars, Remembered
<1>12. QED
  BY <1>1, <1>2, <1>3, <1>4, <1>5, <1>6, <1>7, <1>10, <1>11 DEF Next

(* Routes are right in every reachable state.                              *)
LEMMA RoutesAreRight == Spec => []RoutesOK
<1>1. Init => RoutesOK
  <2>1. Init => ItemRoutes /\ TunnelRoutes
    BY DEF Init, ItemRoutes, TunnelRoutes
  <2>2. QED
    BY <2>1, InitTypes, InitIds DEF RoutesOK
<1>2. QED
  BY <1>1, NextRoutes, PTL DEF Spec

(* Two nodes of a tunnel agree on who is next and who was before: the       *)
(* answer goes back along the way of the request, and no node is on this    *)
(* way twice, because a node handles a request once.                        *)
THEOREM HopsAlwaysAgree == Spec => []HopsAgree
<1>1. RoutesOK => HopsAgree
  <2> SUFFICES ASSUME RoutesOK, NEW n \in Nodes, NEW m \in Nodes, n # m,
                      NEW t \in DOMAIN tunnels[n] \cap DOMAIN tunnels[m]
               PROVE  tunnels[n][t].dst = m <=> tunnels[m][t].src = n
    BY DEF HopsAgree
  <2> DEFINE route == t.route
  <2>1. route \in Seq(Nodes) /\ Len(route) \in Nat
    BY DEF RoutesOK, TypesOK, ShapeOK, TunnelIds
  <2>2. TunnelRoute(n, t, tunnels[n][t]) /\ TunnelRoute(m, t, tunnels[m][t])
    BY DEF RoutesOK, TunnelRoutes
  <2>3. Straight(route)
    BY <2>2 DEF TunnelRoute
  <2>4. PICK k \in 1..Len(route) :
          route[k] = n /\ tunnels[n][t].dst = After(route, k)
    BY <2>2 DEF TunnelRoute
  <2>5. PICK l \in 1..Len(route) :
          route[l] = m /\ tunnels[m][t].src = Before(route, l)
    BY <2>2 DEF TunnelRoute
  <2> HIDE DEF route
  <2>6. After(route, k) = m <=> l = k + 1
    BY <2>1, <2>3, <2>4, <2>5 DEF After, Straight
  <2>7. Before(route, l) = n <=> l = k + 1
    BY <2>1, <2>3, <2>4, <2>5 DEF Before, Straight
  <2>8. QED
    BY <2>4, <2>5, <2>6, <2>7
<1>2. QED
  BY <1>1, RoutesAreRight, PTL

(* routeGenericTunnelItem never meets data from a friend that is not a      *)
(* neighbour on the tunnel, however often tunnels are closed and dug again. *)
THEOREM DataAlwaysFits == Spec => []DataFitsTunnel
<1>1. RoutesOK => DataFitsTunnel
  <2> SUFFICES ASSUME RoutesOK, NEW i \in net, i.kind = "data", i.tid \in DOMAIN tunnels[i.to]
               PROVE  i.from \in {tunnels[i.to][i.tid].src, tunnels[i.to][i.tid].dst}
    BY DEF DataFitsTunnel
  <2> DEFINE route == i.tid.route
             n == i.to
             tunnel == tunnels[n][i.tid]
  <2>1. i \in DataItems /\ n \in Nodes /\ i.from # n
    BY ItemKinds DEF RoutesOK, TypesOK
  <2>2. route \in Seq(Nodes) /\ Len(route) \in Nat
    BY <2>1 DEF DataItems, TunnelIds
  <2>3. TunnelRoute(n, i.tid, tunnel)
    BY <2>1 DEF RoutesOK, TunnelRoutes
  <2>4. /\ Straight(route)
        /\ \E l \in 1 .. Len(route) - 1 : {i.from, n} = {route[l], route[l + 1]}
    BY DEF RoutesOK, ItemRoutes, ItemRoute
  <2>5. PICK k \in 1..Len(route) :
          route[k] = n /\ tunnel.src = Before(route, k) /\ tunnel.dst = After(route, k)
    BY <2>3 DEF TunnelRoute
  <2>6. PICK l \in 1 .. Len(route) - 1 : {i.from, n} = {route[l], route[l + 1]}
    BY <2>4
  <2> HIDE DEF route, n, tunnel
  <2>7. CASE n = route[l] /\ i.from = route[l + 1]
    <3>1. k = l
      BY <2>2, <2>4, <2>5, <2>6, <2>7 DEF Straight
    <3>2. After(route, k) = i.from
      BY <2>2, <2>6, <2>7, <3>1 DEF After
    <3>3. QED
      BY <2>5, <3>2 DEF tunnel, n
  <2>8. CASE n = route[l + 1] /\ i.from = route[l]
    <3>1. k = l + 1
      BY <2>2, <2>4, <2>5, <2>6, <2>8 DEF Straight
    <3>2. Before(route, k) = i.from
      BY <2>2, <2>6, <2>8, <3>1 DEF Before
    <3>3. QED
      BY <2>5, <3>2 DEF tunnel, n
  <2>9. QED
    BY <2>1, <2>6, <2>7, <2>8
<1>2. QED
  BY <1>1, RoutesAreRight, PTL

-----------------------------------------------------------------------------
(* Hashes and their tunnels.                                               *)

ListsOK == RoutesOK /\ RequestHashes /\ ListedTunnels

(* Items that follow from others keep their hash, and so the requests of    *)
(* the hashes.                                                              *)
LEMMA SameHashes ==
    ASSUME TypesOK, RequestHashes,
           \A j \in net' : j.kind \in {"open", "ok"} =>
               \E i \in net : i.kind \in {"open", "ok"} /\ i.req = j.req /\ HashOf(i) = HashOf(j),
           \A m \in Nodes : \A k \in DOMAIN hashes'[m] :
               \/ hashes'[m][k].last_request = 0
               \/ k \in DOMAIN hashes[m] /\ hashes'[m][k].last_request = hashes[m][k].last_request
    PROVE  RequestHashes'
<1> SUFFICES ASSUME NEW j \in net', j.kind \in {"open", "ok"}, NEW m \in Nodes,
                    NEW k \in DOMAIN hashes'[m], hashes'[m][k].last_request = j.req
             PROVE  HashOf(j) = k
  BY DEF RequestHashes, HashOf
<1>1. PICK i \in net : i.kind \in {"open", "ok"} /\ i.req = j.req /\ HashOf(i) = HashOf(j)
  OBVIOUS
<1>2. i.req \in RequestIds
  BY <1>1, ItemKinds DEF TypesOK, OpenItems, OkItems
<1>3. i.req # 0
  BY <1>2, TurtleAssumption DEF RequestIds
<1>4. k \in DOMAIN hashes[m] /\ hashes[m][k].last_request = i.req
  BY <1>1, <1>3
<1>5. QED
  BY <1>1, <1>4 DEF RequestHashes

(* A step that notes no tunnel and lists none keeps the lists.              *)
LEMMA SameLists ==
    ASSUME ListedTunnels, tunnels' = tunnels,
           \A m \in Nodes :
               /\ \A k \in DOMAIN hashes[m] :
                    k \in DOMAIN hashes'[m] /\ hashes'[m][k].tunnels = hashes[m][k].tunnels
               /\ \A k \in DOMAIN hashes'[m] \ DOMAIN hashes[m] : hashes'[m][k].tunnels = {}
    PROVE  ListedTunnels'
<1> SUFFICES ASSUME NEW n \in Nodes
             PROVE  /\ \A h \in DOMAIN hashes'[n] : \A t \in hashes'[n][h].tunnels :
                         t \in DOMAIN tunnels[n] /\ t.hash = h /\ tunnels[n][t].src = n /\ tunnels[n][t].hash = h
                    /\ \A t \in DOMAIN tunnels[n] :
                         tunnels[n][t].src = n /\ tunnels[n][t].hash # Nil =>
                           /\ tunnels[n][t].hash \in DOMAIN hashes'[n]
                           /\ t \in hashes'[n][tunnels[n][t].hash].tunnels
  BY DEF ListedTunnels
<1>1. \A h \in DOMAIN hashes'[n] : \A t \in hashes'[n][h].tunnels :
        t \in DOMAIN tunnels[n] /\ t.hash = h /\ tunnels[n][t].src = n /\ tunnels[n][t].hash = h
  BY DEF ListedTunnels
<1>2. \A t \in DOMAIN tunnels[n] : tunnels[n][t].src = n /\ tunnels[n][t].hash # Nil =>
        /\ tunnels[n][t].hash \in DOMAIN hashes'[n]
        /\ t \in hashes'[n][tunnels[n][t].hash].tunnels
  BY DEF ListedTunnels
<1>3. QED
  BY <1>1, <1>2

\* A new request is for the hash it is dug for, and lists nothing.
LEMMA DiggLists ==
    ASSUME ListsOK, NEW n \in Nodes, NEW h \in DOMAIN hashes[n], DiggTunnel(n, h)
    PROVE  RequestHashes' /\ ListedTunnels'
<1> DEFINE entry == hashes[n][h]
           new == [entry EXCEPT !.last_request = nextId]
<1>0. TypesOK /\ ShapeOK /\ IdsUsed /\ DOMAIN hashes = Nodes
  BY DEF ListsOK, RoutesOK, TypesOK, ShapeOK
<1>1. nextId \in RequestIds /\ nextId \in Nat /\ tunnels' = tunnels
  BY TurtleAssumption DEF DiggTunnel, RequestIds
<1>2. entry \in HashInfos
  BY <1>0, TurtleAssumption DEF ShapeOK, HashInfos
<1>3. /\ new.last_request = nextId
      /\ new.tunnels = hashes[n][h].tunnels
  BY <1>2 DEF HashInfos
<1>4. hashes' = [hashes EXCEPT ![n] = [hashes[n] EXCEPT ![h] = new]]
  BY DEF DiggTunnel
<1> HIDE DEF new
<1>5. /\ \A m \in Nodes \ {n} : hashes'[m] = hashes[m]
      /\ DOMAIN hashes'[n] = DOMAIN hashes[n]
      /\ hashes'[n][h] = new
      /\ \A k \in DOMAIN hashes[n] \ {h} : hashes'[n][k] = hashes[n][k]
  BY <1>0, <1>4 DEF Put
<1>6. ListedTunnels'
  <2>1. ASSUME NEW m \in Nodes
        PROVE  /\ \A k \in DOMAIN hashes[m] :
                    k \in DOMAIN hashes'[m] /\ hashes'[m][k].tunnels = hashes[m][k].tunnels
               /\ \A k \in DOMAIN hashes'[m] \ DOMAIN hashes[m] : hashes'[m][k].tunnels = {}
    BY <1>3, <1>5
  <2>2. QED
    BY <1>1, <2>1, SameLists DEF ListsOK
<1>7. RequestHashes'
  <2>1. PICK friends \in SUBSET Friends[n] :
          net' = (net \ {}) \cup ForwardedBy(n, n, nextId, h, <<>>, friends)
    BY DEF DiggTunnel, Send
  <2>2. ASSUME NEW j \in ForwardedBy(n, n, nextId, h, <<>>, friends)
        PROVE  j.req = nextId /\ HashOf(j) = h
    BY <2>2 DEF ForwardedBy, HashOf
  <2>3. ASSUME NEW m \in Nodes, NEW k \in DOMAIN hashes'[m]
        PROVE  \/ m = n /\ k = h /\ hashes'[m][k].last_request = nextId
               \/ k \in DOMAIN hashes[m] /\ hashes'[m][k] = hashes[m][k]
    BY <1>3, <1>5
  <2>4. SUFFICES ASSUME NEW j \in net', j.kind \in {"open", "ok"}, NEW m \in Nodes,
                        NEW k \in DOMAIN hashes'[m], hashes'[m][k].last_request = j.req
                 PROVE  HashOf(j) = k
    BY DEF RequestHashes, HashOf
  <2>5. CASE j \in net
    <3>1. j.req < nextId /\ j.req \in Nat
      BY <1>0, <2>4, <2>5, ItemKinds, TurtleAssumption DEF IdsUsed, OpenItems, OkItems, RequestIds
    <3>2. k \in DOMAIN hashes[m] /\ hashes[m][k].last_request = j.req
      BY <1>1, <2>3, <2>4, <3>1
    <3>3. QED
      BY <2>4, <2>5, <3>2 DEF ListsOK, RequestHashes
  <2>6. CASE j \notin net
    <3>1. j.req = nextId /\ HashOf(j) = h
      BY <2>1, <2>2, <2>6
    <3>2. \A q \in DOMAIN hashes[m] : hashes[m][q].last_request < nextId /\ hashes[m][q].last_request \in Nat
      BY <1>0, TurtleAssumption DEF IdsUsed, TypesOK, TypeOK
    <3>3. QED
      BY <1>1, <2>3, <2>4, <3>1, <3>2
  <2>7. QED
    BY <2>5, <2>6
<1>8. QED
  BY <1>6, <1>7

(* A tunnel that ends at a node does not start there, so that a node which  *)
(* serves a hash and asks for it never notes one over the other.            *)
LEMMA EndStartsElsewhere ==
    ASSUME TunnelRoutes, NEW n \in Nodes, NEW t \in DOMAIN tunnels[n],
           t.route \in Seq(Nodes), t.route[Len(t.route)] = n
    PROVE  tunnels[n][t].src # n
<1> DEFINE route == t.route
           src == tunnels[n][t].src
<1>1. TunnelRoute(n, t, tunnels[n][t])
  BY DEF TunnelRoutes
<1>2. PICK k \in 1..Len(route) : route[k] = n /\ src = Before(route, k)
  BY <1>1 DEF TunnelRoute
<1>3. Len(route) > 1 /\ Straight(route) /\ Len(route) \in Nat /\ route[Len(route)] = n
  BY <1>1 DEF TunnelRoute
<1> SUFFICES src # n
  OBVIOUS
<1> HIDE DEF route, src
<1>4. k = Len(route)
  BY <1>2, <1>3 DEF Straight
<1>5. src = route[k - 1] /\ k - 1 \in 1..Len(route)
  BY <1>2, <1>3, <1>4 DEF Before
<1>6. QED
  BY <1>2, <1>3, <1>5 DEF Straight

(* handleTunnelRequest: a tunnel that ends here is not one that starts      *)
(* here, so no list is touched.                                             *)
LEMMA RequestLists ==
    ASSUME ListsOK, NEW n \in Nodes, NEW i \in net, HandleTunnelRequest(n, i)
    PROVE  RequestHashes' /\ ListedTunnels'
<1> DEFINE tid == TunnelId(i.hash, i.partial, n)
           end == [src |-> i.from, dst |-> n, hash |-> i.hash]
           ok == [kind |-> "ok", from |-> n, to |-> i.from, req |-> i.req, tid |-> tid]
<1>0. /\ TypesOK /\ TypeOK /\ ShapeOK /\ i.kind = "open" /\ i.to = n /\ hashes' = hashes
      /\ DOMAIN tunnels = Nodes /\ DOMAIN hashes[n] \subseteq Wants[n]
  BY DEF ListsOK, RoutesOK, TypesOK, TypeOK, ShapeOK, HandleTunnelRequest
<1>1. i.from # n /\ HashOf(i) = i.hash
  BY <1>0, ItemKinds DEF HashOf
<1>2. \A j \in net' : j \in net \/ (j.req = i.req /\ HashOf(j) = HashOf(i))
  <2>1. CASE net' = net \ {i}
    BY <2>1
  <2>2. CASE Send({ok}, {i})
    <3>1. ok.req = i.req /\ HashOf(ok) = i.hash
      BY DEF HashOf, TunnelId
    <3> HIDE DEF ok
    <3>2. QED
      BY <1>1, <2>2, <3>1 DEF Send
  <2>3. ASSUME NEW friends \in SUBSET Friends[n],
               Send(ForwardedBy(n, i.from, i.req, i.hash, i.partial, friends), {i})
        PROVE  <1>2!:
    <3>1. ASSUME NEW j \in ForwardedBy(n, i.from, i.req, i.hash, i.partial, friends)
          PROVE  j.req = i.req /\ HashOf(j) = i.hash
      BY <3>1 DEF ForwardedBy, HashOf
    <3>2. QED
      BY <1>1, <2>3, <3>1 DEF Send
  <2>4. QED
    BY <2>1, <2>2, <2>3 DEF HandleTunnelRequest
<1>3. RequestHashes'
  BY <1>0, <1>2, SameHashes DEF ListsOK
<1>4. ListedTunnels'
  <2>1. CASE tunnels' = tunnels
    BY <1>0, <2>1, SameLists DEF ListsOK
  <2>2. CASE /\ i.hash \in Serves[n]
             /\ tunnels' = [tunnels EXCEPT ![n] = Put(tunnels[n], tid, end)]
    <3>1. end.src = i.from
      OBVIOUS
    <3>a. tid.route \in Seq(Nodes) /\ tid.route[Len(tid.route)] = n
      <4>1. i.partial \in Seq(Nodes)
        BY <1>0, ItemKinds DEF OpenItems
      <4>2. tid.route = Append(i.partial, n)
        BY DEF TunnelId
      <4> HIDE DEF tid
      <4>3. QED
        BY <4>1, <4>2
    <3> HIDE DEF tid, end
    <3>2. /\ \A m \in Nodes \ {n} : tunnels'[m] = tunnels[m]
          /\ DOMAIN tunnels'[n] = DOMAIN tunnels[n] \cup {tid}
          /\ tunnels'[n][tid] = end
          /\ \A t \in DOMAIN tunnels[n] \ {tid} : tunnels'[n][t] = tunnels[n][t]
      BY <1>0, <2>2 DEF Put
    <3>3. tid \in DOMAIN tunnels[n] => tunnels[n][tid].src # n
      BY <3>a, EndStartsElsewhere DEF ListsOK, RoutesOK
    <3>4. ASSUME NEW m \in Nodes, NEW h \in DOMAIN hashes[m], NEW t \in hashes[m][h].tunnels
          PROVE  t \in DOMAIN tunnels'[m] /\ t.hash = h /\ tunnels'[m][t].src = m /\ tunnels'[m][t].hash = h
      <4>1. t \in DOMAIN tunnels[m] /\ t.hash = h /\ tunnels[m][t].src = m /\ tunnels[m][t].hash = h
        BY DEF ListsOK, ListedTunnels
      <4>2. m = n => t # tid
        BY <3>3, <4>1
      <4>3. QED
        BY <3>2, <4>1, <4>2
    <3>5. ASSUME NEW m \in Nodes, NEW t \in DOMAIN tunnels'[m],
                 tunnels'[m][t].src = m, tunnels'[m][t].hash # Nil
          PROVE  /\ tunnels'[m][t].hash \in DOMAIN hashes[m]
                 /\ t \in hashes[m][tunnels'[m][t].hash].tunnels
      <4>1. t \in DOMAIN tunnels[m] /\ tunnels'[m][t] = tunnels[m][t]
        BY <1>1, <3>1, <3>2, <3>5
      <4>2. QED
        BY <3>5, <4>1 DEF ListsOK, ListedTunnels
    <3>6. QED
      BY <1>0, <3>4, <3>5 DEF ListedTunnels
  <2>3. QED
    BY <2>1, <2>2 DEF HandleTunnelRequest
<1>5. QED
  BY <1>3, <1>4

(* The tunnel of the answer to a request of the node's own starts at the    *)
(* node, whether the tunnel is new or was there: the node is the first on   *)
(* the route.                                                               *)
LEMMA OwnTunnelStartsHere ==
    ASSUME RoutesOK, NEW i \in net, i.kind = "ok",
           requests[i.to][i.req].origin = i.to
    PROVE  NoteTunnel(i.to, i)[i.tid].src = i.to
<1> DEFINE route == i.tid.route
           n == i.to
           tunnel == NoteTunnel(n, i)[i.tid]
<1>1. /\ route \in Seq(Nodes) /\ Len(route) > 1 /\ Straight(route)
      /\ n \in Nodes /\ i.req \in DOMAIN requests[n]
      /\ \E k \in 1 .. Len(route) - 1 : route[k] = n /\ requests[n][i.req].origin = Before(route, k)
  BY AnswerNeighbours
<1>2. PICK k \in 1 .. Len(route) - 1 : route[k] = n /\ n = Before(route, k)
  BY <1>1
<1>3. i.tid \in DOMAIN NoteTunnel(n, i)
  <2>1. DOMAIN NoteTunnel(n, i) = DOMAIN tunnels[n] \cup {i.tid}
    BY <1>1, Noted DEF RoutesOK
  <2>2. QED
    BY <2>1
<1>4. TunnelRoute(n, i.tid, tunnel)
  BY <1>3, NotedRoute
<1>5. PICK j \in 1..Len(route) : route[j] = n /\ tunnel.src = Before(route, j)
  BY <1>4 DEF TunnelRoute
<1> HIDE DEF route, n, tunnel
<1>6. Len(route) \in Nat /\ k \in 1..Len(route)
  BY <1>1, <1>2
<1>7. j = k
  BY <1>1, <1>2, <1>5, <1>6 DEF Straight
<1>8. tunnel.src = n
  BY <1>2, <1>5, <1>7
<1>9. QED
  BY <1>8 DEF tunnel, n

(* handleTunnelResult: the tunnel of an answer to our own request starts    *)
(* here and is listed under the hash of the request; another one is not     *)
(* for any hash.                                                            *)
LEMMA ResultLists ==
    ASSUME ListsOK, NEW n \in Nodes, NEW i \in net, NEW late \in BOOLEAN,
           HandleTunnelResult(n, i, late)
    PROVE  RequestHashes' /\ ListedTunnels'
<1>0. /\ RoutesOK /\ TypesOK /\ ShapeOK /\ i.kind = "ok" /\ i.to = n /\ i \in OkItems
      /\ DOMAIN tunnels = Nodes /\ DOMAIN hashes = Nodes
  <2>1. RoutesOK /\ TypesOK /\ ShapeOK /\ i.kind = "ok" /\ i.to = n
    BY ResultCases DEF ListsOK, RoutesOK, TypesOK
  <2>2. QED
    BY <2>1, ItemKinds DEF ShapeOK
<1>1. CASE Dropped(i)
  BY <1>0, <1>1, SameHashes, SameLists DEF ListsOK, Dropped
<1>2. ASSUME Answered(n, i, late) PROVE RequestHashes' /\ ListedTunnels'
  <2> DEFINE noted == NoteTunnel(n, i)
  <2>1. i.req \in DOMAIN requests[n]
    BY <1>2 DEF Answered
  <2>2. /\ DOMAIN noted = DOMAIN tunnels[n] \cup {i.tid}
        /\ \A t \in DOMAIN tunnels[n] : noted[t] = tunnels[n][t]
        /\ i.tid \notin DOMAIN tunnels[n] => noted[i.tid].hash = Nil
        /\ \A t \in DOMAIN noted : noted[t] \in Tunnels
    <3>1. /\ DOMAIN noted = DOMAIN tunnels[n] \cup {i.tid}
          /\ \A t \in DOMAIN tunnels[n] : noted[t] = tunnels[n][t]
          /\ i.tid \notin DOMAIN tunnels[n] =>
               noted[i.tid] = [src |-> requests[n][i.req].origin, dst |-> i.from, hash |-> Nil]
          /\ \A t \in DOMAIN noted : noted[t] \in Tunnels
      BY <1>0, <2>1, Noted
    <3> HIDE DEF noted
    <3>2. QED
      BY <3>1
  <2> HIDE DEF noted
  <2>3. ASSUME NEW h \in DOMAIN hashes[n], Listed(n, i, late, h)
        PROVE  /\ \A m \in Nodes \ {n} : hashes'[m] = hashes[m]
               /\ DOMAIN hashes'[n] = DOMAIN hashes[n]
               /\ \A k \in DOMAIN hashes[n] \ {h} : hashes'[n][k] = hashes[n][k]
               /\ hashes'[n][h].tunnels = hashes[n][h].tunnels \cup {i.tid}
               /\ hashes'[n][h].last_request = hashes[n][h].last_request
    <3>1. /\ ListTunnel(n, h, i.tid).tunnels = hashes[n][h].tunnels \cup {i.tid}
          /\ ListTunnel(n, h, i.tid).last_request = hashes[n][h].last_request
      BY <1>0 DEF ListTunnel, ShapeOK, HashInfos
    <3>2. hashes' = [hashes EXCEPT ![n][h] = ListTunnel(n, h, i.tid)]
      BY <2>3 DEF Listed
    <3>3. QED
      BY <1>0, <3>1, <3>2
  <2>4. RequestHashes'
    <3>1. \A j \in net' : j \in net \/ (j.kind = "ok" /\ j.req = i.req /\ j.tid = i.tid)
      <4>1. CASE net' = net \ {i}
        BY <4>1
      <4>2. CASE PassedOn(n, i, late)
        <5> DEFINE on == [i EXCEPT !.from = n, !.to = requests[n][i.req].origin]
        <5>1. on.kind = "ok" /\ on.req = i.req /\ on.tid = i.tid
          BY <1>0 DEF OkItems
        <5>2. net' = (net \ {i}) \cup {on}
          BY <4>2 DEF PassedOn
        <5> HIDE DEF on
        <5>3. QED
          BY <5>1, <5>2
      <4>3. QED
        BY <4>1, <4>2, ResultCases DEF Dropped, NotedOnly, Listed
    <3>2. \A j \in net' : j.kind \in {"open", "ok"} =>
            \E k \in net : k.kind \in {"open", "ok"} /\ k.req = j.req /\ HashOf(k) = HashOf(j)
      BY <1>0, <3>1 DEF HashOf
    <3>3. \A m \in Nodes : \A k \in DOMAIN hashes'[m] :
            k \in DOMAIN hashes[m] /\ hashes'[m][k].last_request = hashes[m][k].last_request
      <4>1. CASE hashes' = hashes
        BY <4>1
      <4>2. ASSUME NEW h \in DOMAIN hashes[n], Listed(n, i, late, h) PROVE <3>3!:
        BY <2>3, <4>2
      <4>3. QED
        BY <4>1, <4>2, ResultCases DEF Dropped, NotedOnly, PassedOn
    <3>4. QED
      BY <1>0, <3>2, <3>3, SameHashes DEF ListsOK
  <2>5. CASE hashes' = hashes /\ tunnels' = [tunnels EXCEPT ![n] = noted]
    <3>1. \A m \in Nodes \ {n} : tunnels'[m] = tunnels[m]
      BY <1>0, <2>5
    <3>2. tunnels'[n] = noted
      BY <1>0, <2>5
    <3>3. ASSUME NEW m \in Nodes, NEW h \in DOMAIN hashes[m], NEW t \in hashes[m][h].tunnels
          PROVE  t \in DOMAIN tunnels'[m] /\ t.hash = h /\ tunnels'[m][t].src = m /\ tunnels'[m][t].hash = h
      <4>1. t \in DOMAIN tunnels[m] /\ t.hash = h /\ tunnels[m][t].src = m /\ tunnels[m][t].hash = h
        BY DEF ListsOK, ListedTunnels
      <4>2. QED
        BY <2>2, <3>1, <3>2, <4>1
    <3>4. ASSUME NEW m \in Nodes, NEW t \in DOMAIN tunnels'[m],
                 tunnels'[m][t].src = m, tunnels'[m][t].hash # Nil
          PROVE  /\ tunnels'[m][t].hash \in DOMAIN hashes[m]
                 /\ t \in hashes[m][tunnels'[m][t].hash].tunnels
      <4>1. t \in DOMAIN tunnels[m] /\ tunnels'[m][t] = tunnels[m][t]
        BY <2>2, <3>1, <3>2, <3>4
      <4>2. QED
        BY <3>4, <4>1 DEF ListsOK, ListedTunnels
    <3>5. ListedTunnels'
      BY <2>5, <3>3, <3>4 DEF ListedTunnels
    <3>6. QED
      BY <2>4, <3>5
  <2>6. ASSUME NEW h \in DOMAIN hashes[n], Listed(n, i, late, h) PROVE ListedTunnels'
    <3> DEFINE new == [noted[i.tid] EXCEPT !.hash = h]
    <3>1. new.hash = h /\ new.src = n
      <4>1. noted[i.tid].src = n
        BY <1>0, <2>6, OwnTunnelStartsHere DEF Listed, noted
      <4>2. QED
        BY <2>2, <4>1 DEF Tunnels
    <3>2. tunnels' = [tunnels EXCEPT ![n] = Put(noted, i.tid, new)]
      BY <2>6 DEF Listed, noted
    <3> HIDE DEF new
    <3>3. /\ \A m \in Nodes \ {n} : tunnels'[m] = tunnels[m]
          /\ DOMAIN tunnels'[n] = DOMAIN tunnels[n] \cup {i.tid}
          /\ tunnels'[n][i.tid] = new
          /\ \A t \in DOMAIN tunnels[n] \ {i.tid} : tunnels'[n][t] = tunnels[n][t]
      BY <1>0, <2>2, <3>2 DEF Put
    <3>4. i.tid.hash = h
      <4>1. hashes[n][h].last_request = i.req /\ HashOf(i) = i.tid.hash
        BY <1>0, <2>6 DEF Listed, HashOf
      <4>2. QED
        BY <1>0, <4>1 DEF ListsOK, RequestHashes
    <3>5. ASSUME NEW m \in Nodes, NEW k \in DOMAIN hashes'[m], NEW t \in hashes'[m][k].tunnels
          PROVE  t \in DOMAIN tunnels'[m] /\ t.hash = k /\ tunnels'[m][t].src = m /\ tunnels'[m][t].hash = k
      <4>1. CASE m = n /\ t = i.tid
        <5>1. k = h
          <6>1. CASE k # h
            <7>1. t \in hashes[n][k].tunnels /\ k \in DOMAIN hashes[n]
              BY <2>3, <2>6, <3>5, <4>1, <6>1
            <7>2. t.hash = k
              BY <7>1 DEF ListsOK, ListedTunnels
            <7>3. QED
              BY <3>4, <4>1, <7>2
          <6>2. QED
            BY <6>1
        <5>2. QED
          BY <3>1, <3>3, <3>4, <4>1, <5>1
      <4>2. CASE ~(m = n /\ t = i.tid)
        <5>1. k \in DOMAIN hashes[m] /\ t \in hashes[m][k].tunnels
          BY <2>3, <2>6, <3>5, <4>2
        <5>2. t \in DOMAIN tunnels[m] /\ t.hash = k /\ tunnels[m][t].src = m /\ tunnels[m][t].hash = k
          BY <5>1 DEF ListsOK, ListedTunnels
        <5>3. QED
          BY <3>3, <4>2, <5>2
      <4>3. QED
        BY <4>1, <4>2
    <3>6. ASSUME NEW m \in Nodes, NEW t \in DOMAIN tunnels'[m],
                 tunnels'[m][t].src = m, tunnels'[m][t].hash # Nil
          PROVE  /\ tunnels'[m][t].hash \in DOMAIN hashes'[m]
                 /\ t \in hashes'[m][tunnels'[m][t].hash].tunnels
      <4>1. CASE m = n /\ t = i.tid
        BY <2>3, <2>6, <3>1, <3>3, <4>1
      <4>2. CASE ~(m = n /\ t = i.tid)
        <5>1. t \in DOMAIN tunnels[m] /\ tunnels'[m][t] = tunnels[m][t]
          BY <3>3, <3>6, <4>2
        <5> DEFINE k == tunnels[m][t].hash
        <5>2. k \in DOMAIN hashes[m] /\ t \in hashes[m][k].tunnels
          BY <3>6, <5>1 DEF ListsOK, ListedTunnels
        <5>3. k \in DOMAIN hashes'[m] /\ t \in hashes'[m][k].tunnels
          BY <2>3, <2>6, <5>2
        <5>4. QED
          BY <5>1, <5>3
      <4>3. QED
        BY <4>1, <4>2
    <3>7. QED
      BY <3>5, <3>6 DEF ListedTunnels
  <2>7. CASE hashes' = hashes /\ tunnels' = tunnels
    BY <2>4, <2>7, SameLists DEF ListsOK
  <2>8. QED
    BY <2>4, <2>5, <2>6, <2>7, ResultCases DEF Dropped, NotedOnly, PassedOn, noted
<1>3. QED
  BY <1>1, <1>2, ResultCases DEF NotedOnly, Listed, PassedOn

\* autoWash: a hash goes with all its tunnels, and a tunnel from all lists.
LEMMA WashLists ==
    ASSUME ListsOK, NEW n \in Nodes, NEW old \in SUBSET DOMAIN tunnels[n], AutoWash(n, old)
    PROVE  RequestHashes' /\ ListedTunnels'
<1>0. TypesOK
  BY DEF ListsOK, RoutesOK
<1>1. PICK tids \in SUBSET DOMAIN tunnels[n], gone \in SUBSET DOMAIN hashes[n] :
        /\ CloseTunnels(n, tids, gone)
        /\ TunnelsOf(n, gone) \subseteq tids
        /\ UNCHANGED <<requests, net, nextId>>
  BY <1>0, Washed
<1>a. \A m \in Nodes \ {n} : hashes'[m] = hashes[m] /\ tunnels'[m] = tunnels[m]
  BY <1>0, <1>1, Closed
<1>b. DOMAIN tunnels'[n] = DOMAIN tunnels[n] \ tids
  BY <1>0, <1>1, Closed
<1>c. \A t \in DOMAIN tunnels'[n] : tunnels'[n][t] = tunnels[n][t]
  BY <1>0, <1>1, Closed
<1>d. DOMAIN hashes'[n] = DOMAIN hashes[n] \ gone
  BY <1>0, <1>1, Closed
<1>e. \A h \in DOMAIN hashes'[n] :
        /\ hashes'[n][h].tunnels = hashes[n][h].tunnels \ tids
        /\ hashes'[n][h].last_request = hashes[n][h].last_request
  <2> SUFFICES ASSUME NEW h \in DOMAIN hashes'[n]
               PROVE  /\ hashes'[n][h].tunnels = hashes[n][h].tunnels \ tids
                      /\ hashes'[n][h].last_request = hashes[n][h].last_request
    OBVIOUS
  <2>1. hashes'[n][h].tunnels = hashes[n][h].tunnels \ tids
    <3> DEFINE left == [k \in DOMAIN hashes[n] \ gone |-> [hashes[n][k] EXCEPT !.tunnels = @ \ tids]]
    <3>1. hashes' = [hashes EXCEPT ![n] = left]
      BY <1>1 DEF CloseTunnels
    <3>2. DOMAIN hashes = Nodes
      BY <1>0 DEF TypesOK, ShapeOK
    <3>3. hashes'[n] = left
      BY <3>1, <3>2
    <3>4. h \in DOMAIN hashes[n] \ gone
      BY <1>d
    <3>5. hashes[n][h] \in HashInfos
      BY <1>0, <3>4 DEF TypesOK, ShapeOK
    <3>6. left[h].tunnels = hashes[n][h].tunnels \ tids
      BY <3>4, <3>5 DEF HashInfos
    <3>7. QED
      BY <3>3, <3>6
  <2>2. hashes'[n][h].last_request = hashes[n][h].last_request
    BY <1>0, <1>1, Closed
  <2>3. QED
    BY <2>1, <2>2
<1>2. /\ \A m \in Nodes \ {n} : hashes'[m] = hashes[m] /\ tunnels'[m] = tunnels[m]
      /\ DOMAIN tunnels'[n] = DOMAIN tunnels[n] \ tids
      /\ \A t \in DOMAIN tunnels'[n] : tunnels'[n][t] = tunnels[n][t]
      /\ DOMAIN hashes'[n] = DOMAIN hashes[n] \ gone
      /\ \A h \in DOMAIN hashes'[n] :
           /\ hashes'[n][h].tunnels = hashes[n][h].tunnels \ tids
           /\ hashes'[n][h].last_request = hashes[n][h].last_request
  BY ONLY <1>a, <1>b, <1>c, <1>d, <1>e
<1>3. RequestHashes'
  <2>1. \A m \in Nodes : \A k \in DOMAIN hashes'[m] :
          k \in DOMAIN hashes[m] /\ hashes'[m][k].last_request = hashes[m][k].last_request
    BY <1>2
  <2>2. QED
    BY <1>0, <1>1, <2>1, SameHashes DEF ListsOK
<1>4. ASSUME NEW m \in Nodes, NEW h \in DOMAIN hashes'[m], NEW t \in hashes'[m][h].tunnels
      PROVE  t \in DOMAIN tunnels'[m] /\ t.hash = h /\ tunnels'[m][t].src = m /\ tunnels'[m][t].hash = h
  <2>1. h \in DOMAIN hashes[m] /\ t \in hashes[m][h].tunnels /\ (m = n => t \notin tids)
    BY <1>2, <1>4
  <2>2. t \in DOMAIN tunnels[m] /\ t.hash = h /\ tunnels[m][t].src = m /\ tunnels[m][t].hash = h
    BY <2>1 DEF ListsOK, ListedTunnels
  <2>3. QED
    BY <1>2, <2>1, <2>2
<1>5. ASSUME NEW m \in Nodes, NEW t \in DOMAIN tunnels'[m],
             tunnels'[m][t].src = m, tunnels'[m][t].hash # Nil
      PROVE  /\ tunnels'[m][t].hash \in DOMAIN hashes'[m]
             /\ t \in hashes'[m][tunnels'[m][t].hash].tunnels
  <2> DEFINE h == tunnels[m][t].hash
  <2>1. t \in DOMAIN tunnels[m] /\ tunnels'[m][t] = tunnels[m][t] /\ (m = n => t \notin tids)
    BY <1>2, <1>5
  <2>2. h \in DOMAIN hashes[m] /\ t \in hashes[m][h].tunnels
    BY <1>5, <2>1 DEF ListsOK, ListedTunnels
  <2> HIDE DEF h
  <2>3. m = n => h \notin gone
    BY <1>1, <2>1, <2>2, TunnelsOfHashes
  <2>4. h \in DOMAIN hashes'[m] /\ t \in hashes'[m][h].tunnels
    BY <1>2, <2>1, <2>2, <2>3
  <2>5. QED
    BY <2>1, <2>4 DEF h
<1>6. ListedTunnels'
  BY <1>4, <1>5 DEF ListedTunnels
<1>7. QED
  BY <1>3, <1>6

\* Every step keeps the lists.
LEMMA NextLists == ListsOK /\ [Next]_vars => ListsOK'
<1> SUFFICES ASSUME ListsOK, [Next]_vars PROVE ListsOK'
  OBVIOUS
<1>0. RoutesOK /\ TypesOK /\ TypeOK /\ ShapeOK /\ DOMAIN hashes = Nodes
  BY DEF ListsOK, RoutesOK, TypesOK, ShapeOK
<1> SUFFICES RequestHashes' /\ ListedTunnels'
  BY <1>0, NextRoutes DEF ListsOK
<1> DEFINE Sent == \A j \in net' : j.kind \in {"open", "ok"} => j \in net
<1>a. ASSUME Sent, hashes' = hashes, tunnels' = tunnels
      PROVE  RequestHashes' /\ ListedTunnels'
  <2>1. RequestHashes'
    BY <1>0, <1>a, SameHashes DEF ListsOK
  <2>2. ListedTunnels'
    BY <1>a, SameLists DEF ListsOK
  <2>3. QED
    BY <2>1, <2>2
<1>1. ASSUME NEW n \in Nodes, NEW h \in DOMAIN hashes[n], ManageTunnels(n, h)
      PROVE  RequestHashes' /\ ListedTunnels'
  BY <1>0, <1>1, DiggLists DEF ManageTunnels, TypeOK
<1>2. ASSUME NEW n \in Nodes, NEW i \in net, HandleTunnelRequest(n, i)
      PROVE  RequestHashes' /\ ListedTunnels'
  BY <1>2, RequestLists
<1>3. ASSUME NEW n \in Nodes, NEW i \in net, NEW late \in BOOLEAN, HandleTunnelResult(n, i, late)
      PROVE  RequestHashes' /\ ListedTunnels'
  BY <1>3, ResultLists
<1>4. ASSUME NEW n \in Nodes, NEW i \in net, RouteGenericTunnelItem(n, i)
      PROVE  RequestHashes' /\ ListedTunnels'
  <2> DEFINE t == tunnels[n][i.tid]
             next == IF i.from = t.dst THEN t.src ELSE t.dst
             on == [i EXCEPT !.from = n, !.to = next]
  <2>1. i \in DataItems
    BY <1>0, <1>4, ItemKinds DEF RouteGenericTunnelItem
  <2>2. on.kind = "data"
    <3> HIDE DEF next
    <3>1. QED
      BY <2>1 DEF DataItems
  <2>3. Sent
    <3>1. CASE Send({on}, {i})
      <4> HIDE DEF on
      <4>1. QED
        BY <2>2, <3>1 DEF Send
    <3>2. CASE net' = net \ {i}
      BY <3>2
    <3>3. QED
      BY <1>4, <3>1, <3>2 DEF RouteGenericTunnelItem
  <2>4. QED
    BY <1>4, <1>a, <2>3 DEF RouteGenericTunnelItem
<1>5. ASSUME NEW n \in Nodes, NEW tid \in clients[n], SendTurtleData(n, tid)
      PROVE  RequestHashes' /\ ListedTunnels'
  <2>1. Sent
    BY <1>5 DEF SendTurtleData, Send
  <2>2. QED
    BY <1>5, <1>a, <2>1 DEF SendTurtleData
<1>6. ASSUME NEW i \in net, Lose(i)
      PROVE  RequestHashes' /\ ListedTunnels'
  BY <1>6, <1>a DEF Lose
<1>7. ASSUME NEW n \in Nodes, NEW h \in Wants[n], MonitorTunnels(n, h)
      PROVE  RequestHashes' /\ ListedTunnels'
  <2> DEFINE new == [tunnels |-> {}, last_request |-> 0]
  <2>1. new.tunnels = {} /\ new.last_request = 0
    OBVIOUS
  <2>2. \/ hashes' = hashes
        \/ h \notin DOMAIN hashes[n] /\ hashes' = [hashes EXCEPT ![n] = Put(hashes[n], h, new)]
    BY <1>7 DEF MonitorTunnels
  <2> HIDE DEF new
  <2>3. \A m \in Nodes :
          /\ \A k \in DOMAIN hashes[m] : k \in DOMAIN hashes'[m] /\ hashes'[m][k] = hashes[m][k]
          /\ \A k \in DOMAIN hashes'[m] \ DOMAIN hashes[m] : hashes'[m][k] = new
    BY <1>0, <2>2 DEF Put
  <2>4. RequestHashes'
    <3>1. \A m \in Nodes : \A k \in DOMAIN hashes'[m] :
            \/ hashes'[m][k].last_request = 0
            \/ k \in DOMAIN hashes[m] /\ hashes'[m][k].last_request = hashes[m][k].last_request
      BY <2>1, <2>3
    <3>2. net' = net
      BY <1>7 DEF MonitorTunnels
    <3>3. QED
      BY <1>0, <3>1, <3>2, SameHashes DEF ListsOK
  <2>5. ListedTunnels'
    <3>1. tunnels' = tunnels
      BY <1>7 DEF MonitorTunnels
    <3>2. ASSUME NEW m \in Nodes
          PROVE  /\ \A k \in DOMAIN hashes[m] :
                      k \in DOMAIN hashes'[m] /\ hashes'[m][k].tunnels = hashes[m][k].tunnels
                 /\ \A k \in DOMAIN hashes'[m] \ DOMAIN hashes[m] : hashes'[m][k].tunnels = {}
      BY <2>1, <2>3
    <3>3. QED
      BY <3>1, <3>2, SameLists DEF ListsOK
  <2>6. QED
    BY <2>4, <2>5
<1>8. ASSUME NEW n \in Nodes, NEW h \in Wants[n], StopMonitoringTunnels(n, h)
      PROVE  RequestHashes' /\ ListedTunnels'
  BY <1>8, <1>a DEF StopMonitoringTunnels
<1>11. ASSUME NEW n \in Nodes, NEW old \in SUBSET DOMAIN tunnels[n], AutoWash(n, old)
       PROVE  RequestHashes' /\ ListedTunnels'
  BY <1>11, WashLists
<1>12. CASE UNCHANGED vars
  BY <1>12, <1>a DEF vars
<1>13. QED
  BY <1>1, <1>2, <1>3, <1>4, <1>5, <1>6, <1>7, <1>8, <1>11, <1>12 DEF Next

(* Lists and tunnels agree in every reachable state.                       *)
LEMMA ListsAreRight == Spec => []ListsOK
<1>1. Init => RoutesOK
  <2>1. Init => ItemRoutes /\ TunnelRoutes
    BY DEF Init, ItemRoutes, TunnelRoutes
  <2>2. QED
    BY <2>1, InitTypes, InitIds DEF RoutesOK
<1>2. Init => RequestHashes /\ ListedTunnels
  BY DEF Init, RequestHashes, ListedTunnels
<1>3. Init => ListsOK
  BY <1>1, <1>2 DEF ListsOK
<1>4. QED
  BY <1>3, NextLists, PTL DEF Spec

(* What getSourceVirtualPeersList would call weird never happens: a hash    *)
(* lists the tunnels that start here for it, and no others.                 *)
THEOREM TunnelsAreListed == Spec => []ListedTunnels
<1>1. ListsOK => ListedTunnels
  BY DEF ListsOK
<1>2. QED
  BY <1>1, ListsAreRight, PTL

-----------------------------------------------------------------------------
(* Virtual peers and the clients.                                          *)

PeersOK == ListsOK /\ VirtualPeers

\* What is a virtual peer, of one tunnel.
PeerAt(n, t) ==
    /\ t \in DOMAIN tunnels[n]
    /\ \/ tunnels[n][t].src = n /\ tunnels[n][t].hash # Nil
       \/ tunnels[n][t].src # n /\ tunnels[n][t].dst = n /\ t \in outgoing[n]

\* The tunnels that serve a request have their virtual peer.
LEMMA RequestPeers ==
    ASSUME PeersOK, NEW n \in Nodes, NEW i \in net, HandleTunnelRequest(n, i)
    PROVE  VirtualPeers' /\ (ClientsInformed => ClientsInformed')
<1> DEFINE tid == TunnelId(i.hash, i.partial, n)
           end == [src |-> i.from, dst |-> n, hash |-> i.hash]
<1>0. /\ TypesOK /\ DOMAIN tunnels = Nodes /\ DOMAIN vpeers = Nodes
      /\ DOMAIN outgoing = Nodes /\ DOMAIN clients = Nodes
  BY DEF PeersOK, ListsOK, RoutesOK, TypesOK, ShapeOK
<1>1. i.from # n
  <2>1. i.kind = "open" /\ i.to = n
    BY DEF HandleTunnelRequest
  <2>2. QED
    BY <1>0, <2>1, ItemKinds DEF TypesOK
<1>2. \/ UNCHANGED <<tunnels, vpeers, outgoing, clients>>
      \/ /\ tunnels' = [tunnels EXCEPT ![n] = Put(tunnels[n], tid, end)]
         /\ vpeers' = [vpeers EXCEPT ![n] = vpeers[n] \cup {tid}]
         /\ outgoing' = [outgoing EXCEPT ![n] = outgoing[n] \cup {tid}]
         /\ clients' = [clients EXCEPT ![n] = clients[n] \cup {tid}]
  BY DEF HandleTunnelRequest
<1>3. CASE UNCHANGED <<tunnels, vpeers, outgoing, clients>>
  BY <1>3 DEF PeersOK, VirtualPeers, ClientsInformed
<1>4. CASE /\ tunnels' = [tunnels EXCEPT ![n] = Put(tunnels[n], tid, end)]
           /\ vpeers' = [vpeers EXCEPT ![n] = vpeers[n] \cup {tid}]
           /\ outgoing' = [outgoing EXCEPT ![n] = outgoing[n] \cup {tid}]
           /\ clients' = [clients EXCEPT ![n] = clients[n] \cup {tid}]
  <2>1. end.src # n /\ end.dst = n
    BY <1>1
  <2> HIDE DEF tid, end
  <2>2. /\ DOMAIN tunnels'[n] = DOMAIN tunnels[n] \cup {tid}
        /\ tunnels'[n][tid] = end
        /\ \A t \in DOMAIN tunnels[n] \ {tid} : tunnels'[n][t] = tunnels[n][t]
        /\ \A m \in Nodes \ {n} : tunnels'[m] = tunnels[m]
    BY <1>0, <1>4 DEF Put
  <2>3. /\ vpeers'[n] = vpeers[n] \cup {tid} /\ outgoing'[n] = outgoing[n] \cup {tid}
        /\ clients'[n] = clients[n] \cup {tid}
        /\ \A m \in Nodes \ {n} :
             vpeers'[m] = vpeers[m] /\ outgoing'[m] = outgoing[m] /\ clients'[m] = clients[m]
    BY <1>0, <1>4
  <2>4. ASSUME NEW m \in Nodes, NEW t \in vpeers'[m]
        PROVE  /\ t \in DOMAIN tunnels'[m]
               /\ \/ tunnels'[m][t].src = m /\ tunnels'[m][t].hash # Nil
                  \/ tunnels'[m][t].src # m /\ tunnels'[m][t].dst = m /\ t \in outgoing'[m]
    <3>1. CASE m = n /\ t = tid
      BY <2>1, <2>2, <2>3, <3>1
    <3>2. CASE ~(m = n /\ t = tid)
      <4>1. t \in vpeers[m]
        BY <2>3, <2>4, <3>2
      <4>2. PeerAt(m, t)
        BY <4>1 DEF PeersOK, VirtualPeers, PeerAt
      <4>3. t \in DOMAIN tunnels'[m] /\ tunnels'[m][t] = tunnels[m][t] /\ (t \in outgoing[m] => t \in outgoing'[m])
        BY <2>2, <2>3, <3>2, <4>2 DEF PeerAt
      <4>4. QED
        BY <4>2, <4>3 DEF PeerAt
    <3>3. QED
      BY <3>1, <3>2
  <2>5. VirtualPeers'
    BY <2>4 DEF VirtualPeers
  <2>6. ClientsInformed => ClientsInformed'
    BY <2>2, <2>3 DEF ClientsInformed
  <2>7. QED
    BY <2>5, <2>6
<1>5. QED
  BY <1>2, <1>3, <1>4

(* An answer to a request of the node's own leaves a virtual peer, and its  *)
(* client hears of it.                                                      *)
LEMMA ResultPeers ==
    ASSUME PeersOK, NEW n \in Nodes, NEW i \in net, NEW late \in BOOLEAN,
           HandleTunnelResult(n, i, late)
    PROVE  VirtualPeers' /\ (ClientsInformed => ClientsInformed')
<1>0. /\ TypesOK /\ RoutesOK /\ DOMAIN tunnels = Nodes /\ DOMAIN vpeers = Nodes
      /\ DOMAIN clients = Nodes /\ outgoing' = outgoing
      /\ i.kind = "ok" /\ i.to = n
  BY DEF PeersOK, ListsOK, RoutesOK, TypesOK, ShapeOK, HandleTunnelResult
<1> DEFINE noted == NoteTunnel(n, i)
<1>a. ASSUME i.req \in DOMAIN requests[n]
      PROVE  /\ DOMAIN noted = DOMAIN tunnels[n] \cup {i.tid}
             /\ \A t \in DOMAIN tunnels[n] : noted[t] = tunnels[n][t]
             /\ noted[i.tid] \in Tunnels
  BY <1>0, <1>a, Noted, ZenonT(30)
<1> HIDE DEF noted
<1>1. CASE vpeers' = vpeers /\ clients' = clients /\
           (tunnels' = tunnels
             \/ (i.req \in DOMAIN requests[n] /\ tunnels' = [tunnels EXCEPT ![n] = noted]))
  <2>1. \A m \in Nodes : \A t \in DOMAIN tunnels[m] :
          t \in DOMAIN tunnels'[m] /\ tunnels'[m][t] = tunnels[m][t]
    BY <1>0, <1>1, <1>a
  <2>2. VirtualPeers'
    BY <1>0, <1>1, <2>1 DEF PeersOK, VirtualPeers
  <2>3. ClientsInformed => ClientsInformed'
    BY <1>1, <2>1 DEF ClientsInformed
  <2>4. QED
    BY <2>2, <2>3
<1>2. ASSUME NEW h \in DOMAIN hashes[n], Listed(n, i, late, h)
      PROVE  VirtualPeers' /\ (ClientsInformed => ClientsInformed')
  <2> DEFINE new == [noted[i.tid] EXCEPT !.hash = h]
  <2>1. i.req \in DOMAIN requests[n] /\ requests[n][i.req].origin = n
    BY <1>2 DEF Listed, Answered
  <2>2. new.src = n /\ new.hash = h
    BY <1>0, <1>a, <2>1, OwnTunnelStartsHere DEF Tunnels, noted
  <2>3. h # Nil
    BY <1>0, TurtleAssumption DEF TypesOK, TypeOK
  <2>4. /\ tunnels' = [tunnels EXCEPT ![n] = Put(noted, i.tid, new)]
        /\ vpeers' = [vpeers EXCEPT ![n] = vpeers[n] \cup {i.tid}]
        /\ clients' = [clients EXCEPT ![n] = clients[n] \cup {i.tid}]
    BY <1>2 DEF Listed, noted
  <2> HIDE DEF new
  <2>5. /\ DOMAIN tunnels'[n] = DOMAIN tunnels[n] \cup {i.tid}
        /\ tunnels'[n][i.tid] = new
        /\ \A t \in DOMAIN tunnels[n] \ {i.tid} : tunnels'[n][t] = tunnels[n][t]
        /\ \A m \in Nodes \ {n} : tunnels'[m] = tunnels[m]
    BY <1>0, <1>a, <2>1, <2>4 DEF Put
  <2>6. ASSUME NEW m \in Nodes, NEW t \in vpeers'[m]
        PROVE  /\ t \in DOMAIN tunnels'[m]
               /\ \/ tunnels'[m][t].src = m /\ tunnels'[m][t].hash # Nil
                  \/ tunnels'[m][t].src # m /\ tunnels'[m][t].dst = m /\ t \in outgoing'[m]
    <3>1. CASE m = n /\ t = i.tid
      BY <2>2, <2>3, <2>5, <3>1
    <3>2. CASE ~(m = n /\ t = i.tid)
      <4>1. t \in vpeers[m]
        BY <1>0, <2>4, <2>6, <3>2
      <4>2. PeerAt(m, t)
        BY <4>1 DEF PeersOK, VirtualPeers, PeerAt
      <4>3. t \in DOMAIN tunnels'[m] /\ tunnels'[m][t] = tunnels[m][t]
        BY <2>5, <3>2, <4>2 DEF PeerAt
      <4>4. QED
        BY <1>0, <4>2, <4>3 DEF PeerAt
    <3>3. QED
      BY <3>1, <3>2
  <2>7. VirtualPeers'
    BY <2>6 DEF VirtualPeers
  <2>8. ASSUME ClientsInformed PROVE ClientsInformed'
    <3>2. /\ clients'[n] = clients[n] \cup {i.tid} /\ vpeers'[n] = vpeers[n] \cup {i.tid}
          /\ \A m \in Nodes \ {n} : clients'[m] = clients[m] /\ vpeers'[m] = vpeers[m]
      BY <1>0, <2>4
    <3>3. QED
      BY <2>5, <2>8, <3>2 DEF ClientsInformed
  <2>9. QED
    BY <2>7, <2>8
<1>3. CASE Dropped(i)
  BY <1>1, <1>3 DEF Dropped
<1>4. CASE NotedOnly(n, i, late) \/ PassedOn(n, i, late)
  BY <1>1, <1>4 DEF NotedOnly, PassedOn, Answered, noted
<1>5. QED
  BY <1>2, <1>3, <1>4, ResultCases

(* autoWash: a virtual peer goes with its tunnel and with no other, and the *)
(* client is told: the hash of a tunnel that starts here is still there.    *)
LEMMA WashPeers ==
    ASSUME PeersOK, NEW n \in Nodes, NEW old \in SUBSET DOMAIN tunnels[n], AutoWash(n, old)
    PROVE  VirtualPeers' /\ (ClientsInformed => ClientsInformed')
<1>0. /\ TypesOK /\ DOMAIN vpeers = Nodes /\ DOMAIN outgoing = Nodes /\ DOMAIN clients = Nodes
  BY DEF PeersOK, ListsOK, RoutesOK, TypesOK, ShapeOK
<1>1. PICK tids \in SUBSET DOMAIN tunnels[n], gone \in SUBSET DOMAIN hashes[n] :
        CloseTunnels(n, tids, gone)
  BY <1>0, Washed
<1> DEFINE ended == Ending(n, tids) \cap outgoing[n]
           started == Starting(n, tids)
           told == {t \in started : tunnels[n][t].hash \in DOMAIN hashes[n]}
<1>2. /\ vpeers' = [vpeers EXCEPT ![n] = vpeers[n] \ (started \cup ended)]
      /\ outgoing' = [outgoing EXCEPT ![n] = outgoing[n] \ ended]
      /\ clients' = [clients EXCEPT ![n] = clients[n] \ (told \cup ended)]
  BY <1>1 DEF CloseTunnels
<1>3. \A t : t \in started <=> t \in tids /\ tunnels[n][t].src = n
  BY DEF Starting
<1>4. \A t : t \in ended <=> /\ t \in tids /\ t \in outgoing[n]
                             /\ tunnels[n][t].src # n /\ tunnels[n][t].dst = n
  BY DEF Ending
<1>5. \A t : t \in told <=> t \in started /\ tunnels[n][t].hash \in DOMAIN hashes[n]
  OBVIOUS
<1>6. \A m \in Nodes \ {n} : tunnels'[m] = tunnels[m]
  BY <1>0, <1>1, Closed
<1>7. DOMAIN tunnels'[n] = DOMAIN tunnels[n] \ tids
  BY <1>0, <1>1, Closed
<1>8. \A t \in DOMAIN tunnels'[n] : tunnels'[n][t] = tunnels[n][t]
  BY <1>0, <1>1, Closed
<1> HIDE DEF ended, started, told
<1>9. /\ \A t : t \in vpeers'[n] <=> t \in vpeers[n] /\ t \notin started /\ t \notin ended
      /\ \A t : t \in outgoing'[n] <=> t \in outgoing[n] /\ t \notin ended
      /\ \A t : t \in clients'[n] <=> t \in clients[n] /\ t \notin told /\ t \notin ended
      /\ \A m \in Nodes \ {n} :
           vpeers'[m] = vpeers[m] /\ outgoing'[m] = outgoing[m] /\ clients'[m] = clients[m]
  BY <1>0, <1>2
<1>10. ASSUME NEW t \in vpeers[n] PROVE PeerAt(n, t) /\ (t \in started => t \in told)
  <2>1. PeerAt(n, t)
    BY <1>10 DEF PeersOK, VirtualPeers, PeerAt
  <2>2. CASE t \in started
    <3>1. tunnels[n][t].src = n /\ tunnels[n][t].hash # Nil /\ t \in DOMAIN tunnels[n]
      BY <1>3, <2>1, <2>2 DEF PeerAt
    <3>2. tunnels[n][t].hash \in DOMAIN hashes[n]
      BY <3>1 DEF PeersOK, ListsOK, ListedTunnels
    <3>3. QED
      BY <1>5, <2>1, <2>2, <3>2
  <2>3. QED
    BY <2>1, <2>2
<1>11. ASSUME NEW m \in Nodes, NEW t \in vpeers'[m]
       PROVE  /\ t \in DOMAIN tunnels'[m]
              /\ \/ tunnels'[m][t].src = m /\ tunnels'[m][t].hash # Nil
                 \/ tunnels'[m][t].src # m /\ tunnels'[m][t].dst = m /\ t \in outgoing'[m]
  <2>1. CASE m # n
    BY <1>6, <1>9, <1>11, <2>1 DEF PeersOK, VirtualPeers
  <2>2. CASE m = n
    <3>1. t \in vpeers[n] /\ t \notin started /\ t \notin ended
      BY <1>9, <1>11, <2>2
    <3>2. PeerAt(n, t)
      BY <1>10, <3>1
    <3>3. t \notin tids
      BY <1>3, <1>4, <3>1, <3>2 DEF PeerAt
    <3>4. t \in DOMAIN tunnels'[n] /\ tunnels'[n][t] = tunnels[n][t]
      BY <1>7, <1>8, <3>2, <3>3 DEF PeerAt
    <3>5. t \in outgoing[n] => t \in outgoing'[n]
      BY <1>9, <3>1
    <3>6. QED
      BY <2>2, <3>2, <3>4, <3>5 DEF PeerAt
  <2>3. QED
    BY <2>1, <2>2
<1>12. VirtualPeers'
  BY <1>11 DEF VirtualPeers
<1>13. ASSUME ClientsInformed PROVE ClientsInformed'
  <2>1. clients[n] = vpeers[n]
    BY <1>13 DEF ClientsInformed
  <2>2. \A t : t \in clients'[n] <=> t \in vpeers'[n]
    BY <1>5, <1>9, <1>10, <2>1
  <2>3. clients'[n] = vpeers'[n]
    BY <2>2
  <2>4. \A m \in Nodes : clients'[m] = vpeers'[m]
    BY <1>9, <1>13, <2>3 DEF ClientsInformed
  <2>5. \A m \in Nodes : vpeers'[m] \subseteq DOMAIN tunnels'[m]
    BY <1>11
  <2>6. QED
    BY <2>4, <2>5 DEF ClientsInformed
<1>14. QED
  BY <1>12, <1>13

\* Every step keeps the virtual peers and their clients.
LEMMA NextPeers ==
    ASSUME PeersOK, [Next]_vars
    PROVE  PeersOK' /\ (ClientsInformed => ClientsInformed')
<1> DEFINE Goal == VirtualPeers' /\ (ClientsInformed => ClientsInformed')
<1> SUFFICES Goal
  BY NextLists DEF PeersOK
<1>1. ASSUME UNCHANGED <<tunnels, vpeers, outgoing, clients>> PROVE Goal
  BY <1>1 DEF PeersOK, VirtualPeers, ClientsInformed
<1>2. CASE \E n \in Nodes, i \in net : HandleTunnelRequest(n, i)
  BY <1>2, RequestPeers
<1>3. CASE \E n \in Nodes, i \in net, late \in BOOLEAN : HandleTunnelResult(n, i, late)
  BY <1>3, ResultPeers
<1>4. CASE \E n \in Nodes : \E old \in SUBSET DOMAIN tunnels[n] : AutoWash(n, old)
  BY <1>4, WashPeers
<1>5. CASE \E n \in Nodes : \E h \in DOMAIN hashes[n] : ManageTunnels(n, h)
  BY <1>1, <1>5 DEF ManageTunnels, DiggTunnel
<1>6. CASE \E n \in Nodes, i \in net : RouteGenericTunnelItem(n, i)
  BY <1>1, <1>6 DEF RouteGenericTunnelItem
<1>7. CASE \E n \in Nodes : \E tid \in clients[n] : SendTurtleData(n, tid)
  BY <1>1, <1>7 DEF SendTurtleData
<1>8. CASE \E i \in net : Lose(i)
  BY <1>1, <1>8 DEF Lose
<1>9. CASE \E n \in Nodes : \E h \in Wants[n] : MonitorTunnels(n, h)
  BY <1>1, <1>9 DEF MonitorTunnels
<1>10. CASE \E n \in Nodes : \E h \in Wants[n] : StopMonitoringTunnels(n, h)
  BY <1>1, <1>10 DEF StopMonitoringTunnels
<1>13. CASE UNCHANGED vars
  BY <1>1, <1>13 DEF vars
<1> HIDE DEF Goal
<1>14. QED
  BY <1>2, <1>3, <1>4, <1>5, <1>6, <1>7, <1>8, <1>9, <1>10, <1>13 DEF Next

(* The virtual peers that the client services know of (addVirtualPeer,      *)
(* removeVirtualPeer) are those that the router keeps, and each has its     *)
(* tunnel, however tunnels are dug, washed and dug again, at nodes that ask *)
(* for a hash, serve it or do both.                                         *)
THEOREM ClientsAreInformed == Spec => []ClientsInformed
<1> DEFINE All == PeersOK /\ ClientsInformed
<1>1. Init => All
  <2> SUFFICES ASSUME Init PROVE All
    OBVIOUS
  <2>2. ItemRoutes /\ TunnelRoutes /\ RequestHashes /\ ListedTunnels
    BY DEF Init, ItemRoutes, TunnelRoutes, RequestHashes, ListedTunnels
  <2>3. PeersOK
    BY <2>2, InitTypes, InitIds DEF Init, PeersOK, ListsOK, RoutesOK, VirtualPeers
  <2>4. ClientsInformed
    BY DEF Init, ClientsInformed
  <2>5. QED
    BY <2>3, <2>4
<1>2. All /\ [Next]_vars => All'
  BY NextPeers
<1>3. All => ClientsInformed
  OBVIOUS
<1>4. QED
  BY <1>1, <1>2, <1>3, PTL DEF Spec
=============================================================================

# Verification of noirajjo

TLA+ models of the parts of this repository whose correctness depends on
interleavings, lost messages and timers, with TLC runs on small instances and
TLAPS proofs for all instances. `PROJECT.json` lists components, runs, mutants,
the map from definitions to source lines, findings, hazards and theorems.

Paths below are relative to `src/noirajjo/noirajjo/src/` (Go) and
`src/retroshare/libretroshare/src/` (C++).

## The system

The repository holds two programs.

**The node**, a Go program derived from Yggdrasil: an end-to-end encrypted IPv6
overlay. The routing itself is in a library (ironwood). What is here:

| component | state | operations | talks to |
|---|---|---|---|
| peering manager, `core/link*.go` | `_links`: link info -> link (connection, context, kick channel); one goroutine per dialled peer, per accepted connection and per listener | add, remove, listen, shutdown, retry; dial, back off, handshake, handle | router library (`HandleConn`), API, multicast |
| core and API, `core/core.go`, `api.go`, `options.go` | contexts, node identity | Stop, AddPeer, CallPeer, RemovePeer, GetPeers, RetryPeersNow, path notification | all others |
| key store, `ipv6rwc/ipv6rwc.go` | `keyToInfo`, `addrToInfo`, `subnetToInfo`, two maps of one-packet buffers, a timer in each entry | send, update, read, time out | TUN adapter above, core below |
| debug protocol and node info, `core/proto.go`, `nodeinfo.go` | pending callbacks by key, timers | request, response, clean-up | router library, admin socket |
| handshake metadata, `core/version.go` | none | encode, decode, check | peering manager |
| multicast discovery, `multicast/multicast.go` | interfaces, listeners, announce timer | start, stop, announce, listen | peering manager |
| address scheme, `address/address.go` | none | key to address and back | key store |
| admin socket, TUN adapter, configuration, commands | sockets, devices | I/O | API |

**libretroshare**, a C++ friend-to-friend library of about 260 000 lines. What
carries its own logic:

| component | state | operations | talks to |
|---|---|---|---|
| download of a file, `ft/ftchunkmap.*`, `ft/ftfilecreator.cc` | chunk states, slices asked for, feeds, parts, counters, the partial file | hand out a slice, take a block, time out, check a chunk, save, load | transfer module, multiplexer, controller |
| transfer control, `ft/fttransfermodule.cc`, `ftdatamultiplex.cc`, `ftcontroller.cc`, `ftserver.cc` | sources and rates, checksum requests, hashing thread, download queue | tick, receive, request and receive checksums, hash, complete | the download, turtle, friends |
| TCP over UDP, `tcponudp/tcpstream.cc` | sequence numbers, windows, timers | connect, send, retransmit, close | pqi |
| turtle tunnels, `turtle/p3turtle.cc` | tunnel requests and their origins, tunnels | search, dig, route, expire | transfer |
| global router, GXS exchange and tunnels, pqi, chat and mail | queues of items, group databases, TLS connections | store and forward, synchronise, connect | friends |
| serialisation, threads, PGP, UPnP, Tor, JSON API | | library code and I/O | |

What is hard in them: in the node, goroutines that decide on something in one
actor message and act on it in a later one, timers whose callbacks cannot be
taken back, and objects that are replaced while somebody still holds the old
one. In the download, two books on the same slices (chunk map and file
creator), unsigned remainders, and blocks that come late, twice or never. In
the transfer, four threads that hold different mutexes, or none, work on one
file. In TCP over UDP and the turtle, several machines agree through messages
that are lost, doubled, late or out of order. The
list `hazards` in `PROJECT.json` has them line by line, with the properties that
watch them.

## Modules

| module | models | used by |
|---|---|---|
| `Links` | the peering manager | `MCLinks`, proofs |
| `PeerList` | abstract: what the peering manager promises | `Links` (`INSTANCE`) |
| `KeyStore` | the key store | `MCKeyStore`, proofs |
| `ChunkMap` | operators: the chunk map of a download | `FileCreator` |
| `FileCreator` | a download and the calls other threads make to it | `MCFileCreator`, proofs |
| `ChunkLife` | abstract: what the file creator promises about chunks | `FileCreator` (`INSTANCE`), `Transfer` |
| `Transfer` | a download from the first request to the completed file | `MCTransfer`, proofs |
| `TcpStream` | two TCP streams over UDP | `MCTcpStream`, proofs |
| `Turtle` | the turtle routers of a network of friends | `MCTurtle`, proofs |
| `LinksProofs`, `LinksRefinement`, `KeyStoreProofs`, `FileCreatorProofs`, `TransferProofs`, `TcpStreamProofs`, `TurtleProofs` | theorems about the module each is named after | |
| `NumberFacts` | lemmas about numbers and finite sets | `FileCreatorProofs`, `TransferProofs`, `TcpStreamProofs` |
| `MCLinks`, `MCKeyStore`, `MCFileCreator`, `MCTransfer`, `MCTcpStream`, `MCTurtle` | instances for TLC | the `.cfg` files |

`FileCreator` implements `ChunkLife`, and `Transfer` is built on `ChunkLife`: the
transfer control composes with the promise of the creator and not with its
slices and parts.

Operators whose comment says "Mutant" are wrong versions of the definition that
follows them. No specification uses them; each breaks one property and shows
that the property depends on that piece of code.

### Links

The actor of `links` runs one message at a time, so an action is one such
message, or one step of a goroutine between two of them. A goroutine is a slot:
`Dialers` are those of `links.add`, `Accepters` those of accepted connections.
`pc` is where it stands, `obj` the link object it works on, `sock` its socket. A
link object is named by the goroutine that made it, so `links[i]` is the slot
whose link is stored under info `i`; a slot is free again once nothing refers to
it. Dial, handshake and handler succeed or fail as they like. `kind` is
persistent (AddPeer), ephemeral (CallPeer) or incoming. `SharedInfos` are the
infos of link-local peers: `urlForLinkInfo` drops the port of those, so the same
info stands for connections in both directions; every other peer has one info
when we dial it and another when it dials us.

`RemoveIncoming` is the case in which `remove` meets an entry made by an accepted
connection and calls a nil cancel function: the process ends.

Abstracted: addresses and options, transports (a dial of any of them either
succeeds or fails), the contents of the handshake, traffic counters.

### KeyStore

One mutex protects the maps; an action is one critical section. Addresses and
subnets are both `Dests`, since their code is the same line by line. Objects are
explicit because a timer callback compares identities: `armed[o]` says that the
timer of `o` runs, `late[o]` counts callbacks that were fired and wait for the
mutex (`Timer.Stop` does not take those back; `MaxLate` bounds them). An object
is used again only when nothing refers to it. `taken` and `sent` are history.

### ChunkMap and FileCreator

The unit of size is the piece, of any number of bytes; requests, slices and blocks
are whole pieces. `map`, `feed`, `slices`, `downloading`, `remains`, `avail`, `total`,
`complete`, `toCheck` are the members of `ChunkMap`; `parts`, `refCnt`, `perPeer`
those of `ftFileCreator`; `written` is the partial file, `saved` the transfer list
on disk. Each method of the creator runs under `ftcMutex` and is one action. Peers
are numbers because `getDataChunk` walks a `std::map` in their order. `remains[c]`
is 0 for a chunk without an entry, which is what `operator[]` would give it.

A source answers a request in blocks of at most `BlockSize` pieces (`BlocksOf`,
8 KB in `ftServer::sendData`), and `recvFileData` asks only who sent a block, not
whether anybody waits for it. So `AddFileData` takes a block of any size at any
place: it is written to the disk, and `locked_notifyReceived` looks for the part
that begins where the block does, whatever its length, or else for the first part
that contains it (`Holding`), takes the block out of it (`Split`) and counts
(`TakeOut`). A part that is shorter than a block at its offset gets a size that
wraps (`Rest`). `Blocks` says which blocks arrive:

- `"pending"`: those of slices that are still pending, as often and in whatever
  order; none of these reaches over the end of the part at its offset
  (`AskedBlocksFit`);
- `"fitting"`: any block at any offset, asked for or not, that does not do so
  (`Fits`), which includes late blocks of slices that were given up;
- `"late"`: all blocks that were ever asked for (`asked` remembers them), as often
  as they like. These may be too long, and the accounts break (`download_late`).

`VerifyChunk` may succeed for any chunk that the file reaches into. The code compares
the disk with a checksum from a cache which `ftDataMultiplex` also fills from the
disk itself, so that a check that was forced can pass for a chunk that was never
received. `forced` remembers the chunks that were checked by force and not received
since, and `DoneIsThere` leaves them out.

Abstracted: time (a part may be asked for again, and a chunk may be inactive, at
any moment); the strategies, which pick one of the available outstanding chunks
(any of them here); rates (the size hint is arbitrary); the contents of the
file (a checksum may fail for any reason). A failed open, seek or write is a lost
block. `removeInactiveChunks` handles one chunk per step here and all inactive ones
in the code: its rounds are independent. `ForceInDownload` lets the user force checks
in the middle of a download; `checkFile` forces them only when nothing is being
downloaded.

`ImplementsChunkLife` is the refinement to `ChunkLife`. Chunks, states, the
queue of checks, completeness and the saved list map to themselves; slices,
parts and counters are what the creator hides. In `ChunkLife` a chunk becomes
done only by a successful check (or, if it is the only chunk, by its last
block, when the hash of the file is its check), and active only from
outstanding.

### Transfer

The steps are those of four threads. The controller's thread ticks the transfer
module (`TickDownloading`, `TickChecking`, `TickComplete`) and completes files
(`CompleteFile`) under `ctrlMutex`, which it releases in between. The thread of
the multiplexer takes data (`HandleRecvData`, then `RecvFileData` or
`IgnoreFileData`: its mutex is released in between) and computes checksums for
other peers (`HandleRecvChunkCrcRequest`, `ReadChunk`, `UpdateCache`). The thread
of `ftServer` receives checksums, verifies chunks and asks for checksums. The
hashing thread reads the file without a mutex. The user pauses, cancels and
forces checks.

`toAsk`, `crc` and `received` are the three maps of the checksum cache. The
sources in `toAsk[c]` are in the order of their time stamps, which is all
`handlePendingCrcRequests` looks at. What is on the disk, and what a checksum is
of, is one of three contents: the right one, that of corrupt sources, any other.
Corrupt sources have a checksum for their content too, so that a corrupt chunk
passes its check and only the hash of the file finds it.

`MaxFaults` bounds transient faults: a damaged chunk, a chunk given up, a forced
check, a restart, a pause. `Disturbed` switches on three things that break
properties: data that comes when all chunks are done (`transfer_late`), a check
forced while the file is hashed or completed, and a file that cannot be opened
for a check (see Further disagreements).

Abstracted: rates, the download queue (it pauses and resumes, as the user does),
what a deleted object does to a thread that still uses it.

### TcpStream

The methods of the class are functions of the record of a stream; the actions are
the calls from outside: `connect`, `recvPkt`, `tick`, `write`, `read`,
`closeWrite`, `close`. The fields have the names of the members; `inQueue` and
`outQueue` each stand for the buffers between user and network in their order,
since only their concatenation matters. Bytes are numbered, so the sequence that
arrives shows what was lost, doubled or exchanged. Sequence numbers are modulo
`SeqSpace`, with the two different ways in which the code compares them and
computes what is in transit.

Both ends connect, as they do in libretroshare (`pqi/pqissludp.cc`), and one of
them, the SSL client, writes first (`Connecting`, `Eager`). A stream is closed by its
user, a time-out (`Close`) or the exchange of FINs. A closed stream may be opened
again: `connect` does not ask whether it was used before, and `handleIncoming` lets a
closed stream answer any SYN, however old, with a sequence number of its own. Each
time it begins another life (`Opened`, `lives`); `Isn` gives the numbers that
`genSequenceNo` returns and bounds how often. Datagrams of two lives then mix, bytes
written in the first are gone, and only the chance of a random 32-bit number keeps
the second apart from them. `Integrity`, `NothingDropped` and `EndOfStream` therefore
speak of the time before a stream is opened a second time (`OneLife`), and promise
nothing after it. In libretroshare itself little of this is left: `tou_close`
deletes the object once it is closed, so only a stream that timed out can be opened
again, until its user closes it.

`Overtaking` lets the packet that ends a handshake be another than the first one
sent behind the SYN, which was lost or is late. `incoming_SynRcvd` takes it for the
first one (`tcp_order`).

The network may lose a datagram (when it is sent: losing it later is the same to
both ends), deliver it twice and in any order; `Capacity[e]` bounds how many
different ones are under way to end `e`. Timers are due at any time, the
congestion window has any size between one segment and the maximum. Giving up
after too many retransmissions, or without any packet for too long, is `Close` of an
`Impatient` end.

### Turtle

Each node has the maps of a `p3turtle`; the item queues between friends are the
set `net`. A request goes to any subset of the friends, which covers the
probabilities, the slow links and the depth limit. A tunnel id is a hash of the
route of the request, the file hash and a bias of each node: here it is the route
itself, so that ids of different routes differ. Request ids are random in the
code and fresh here. A request is forgotten after ten minutes, long after its
last answer is too late; the model keeps it. Whether an answer is late is chosen
when it arrives; once one was late, all later ones to the same request are.
`clients` is what the client services were told by `addVirtualPeer` and
`removeVirtualPeer`.

A node may serve a hash and monitor it at the same time, as the service of
`gxs/rsgxsnettunnel.cc` does: `Serves` and `Wants` are independent, and a node's
tables hold the tunnels that start at it and those that end at it.
`forceReDiggTunnels` looks a hash up and digs in two critical sections; its only
caller, `p3GxsTunnelService::tick`, runs on the thread that also washes and digs, and
nobody else removes hashes, so it is a case of `ManageTunnels`. `MaxData` bounds how
many of the items under way are data, which change nothing at the nodes they pass.
Searches are not in the model: they follow the same scheme of origins and have no
tunnels.

## Runs

| run | instance | checks |
|---|---|---|
| `links` | two dialers, one accepter, an ordinary and a link-local peer | types, ownership of entries, no second dialer, no leaked socket, Up means handled |
| `links_live` | one dialer, two accepters | single peering, refinement of `PeerList`, retry, drain after Stop, removal |
| `keystore` | two keys with two destinations each, three packets, two objects of each sort | maps agree, no packet stranded, misdirected, sent twice or kept for ever, only an entry's own timer removes it |
| `download` | two sources, chunks of two pieces and of one, blocks of one piece or two at any place that they fit, three slices at a time | the books of chunk map and file creator agree, no piece is lost, progress is exact, done means checked and there; refinement of `ChunkLife` |
| `transfer` | two chunks, a source with corrupt data and checksums, one fault | a completed file has the right content; a chunk that waits for a check is queued, asked for or about to be verified |
| `transfer_live` | one chunk, a source that answers and one that is mute, three faults | every download that is not paused ends |
| `tcp` | both ends connect and may time out or close, one writes two bytes at once; numbers wrap; two datagrams under way to the reader, one to the writer | up to the step that opens a stream a second time: integrity and order of the stream, no byte dropped, end of stream only after all data, a timer for everything that is not acknowledged |
| `turtle` | three friends, two routes between two of them that both serve and monitor a hash, two requests, two items under way, one of them data | hops of a tunnel agree, data fits its tunnel, hashes list exactly their tunnels, clients know exactly the virtual peers there are |

Why these bounds are enough to meet the cases: a race in `Links` is between one
goroutine and the API, or between two goroutines over one info, so two dialers, or
one with two accepters, meet all of them; `BackoffLimit = 1` is reached and held at.
In `KeyStore` one object can be replaced by another under the same destination while
a callback of the first is late. In `download`, a slice of two pieces can be
answered by one block, by two, or by one behind a gap that splits it, two sources
can share a chunk, the last chunk is shorter than the others, and 32-bit and 64-bit
counters wrap at 4 and 8. A block in the middle, which leaves a part before and one
behind it, needs slices of three pieces: the proof covers it, and a larger instance
(a file of four pieces, chunks of three, one slice for each source; 865 188 states),
which takes too long to be kept among the runs, agrees. In `transfer` two chunks
make a file whose chunks are checked one by one (a file of one chunk is not) and let
the threads be at different chunks. In `tcp` the SYNs cross or one end answers the
other, two segments can be exchanged, doubled and lost, the window holds two of
them, and the numbers of the writer pass zero in the middle of the data. In `turtle`
two requests for one hash dig the same tunnel twice, or one on each route, or a
tunnel in each direction, and the second one meets what is left of the first at each
node. `download` uses the symmetry of its counters. `transfer`, which checks safety
only, that of the chunks. The state spaces are finite by the bounds in the
constants; two runs have constraints to be small enough. In `tcp`, `OneLife` ends
where only `TypeOK` and `TimerRuns` still say something, and the reader does not end
its own half of the stream before it has read something (`ReadsFirst`); in `turtle`,
only one of the two ends stops to monitor the hash (`KeepsMonitoring`). The theorems
do without these. Deadlock is not checked: a node that was stopped, or a file that
is complete, has nothing left to do.

Four runs show the code doing what a comment or a document says it does not
(`findings` has the quotations):

- `links_remove`: a peer removed after its dial succeeded and before the
  connection is stored stays connected.
- `transfer_late`: a block that arrives when its chunk has been hashed is written
  all the same, and the file is completed with it.
- `tcp_order`: when the packet that should end the handshake and the first segment
  are lost or late, the stream begins with the second segment. It needs an end that
  connects and writes first; both are true of the SSL client. `tcp` is the same
  configuration without this (`Overtaking = FALSE`).
- `download_late`: a chunk times out while a slice of two pieces is asked for, is
  taken up again by a source with a slice of one piece at the same place, and then
  the block of two pieces comes: the size of the part wraps to nearly 2^64 bytes
  (`chunk.size -= chunk_size`), and the part is stored behind the block, in the place
  of whatever part is there.

### Further disagreements

These definitions are in the modules and TLC refutes each of them on the instance
given, against what the line quoted says. They are not among the runs, which are
kept to one for each question.

| definition | instance | what happens | said at |
|---|---|---|---|
| `Links!CalledOnce` | one dialer and one accepter, `DialInfos = {wan}`, `AcceptInfos = {in}` | a peer reached through CallPeer is dialled again when its connection drops | `core/api.go:206`: "the peer will not be called again automatically" |
| `Links!NoDuplicatePeering` | the same with `DialInfos = AcceptInfos = {lan}` | a link-local peer that connects while our own dial to it fails ends up with two connections | `core/link.go:474`: "This prevents duplicate peerings." |
| `Links!StoppedAcceptsNothing` | as `CalledOnce` | listeners are not recorded, so a stopped node keeps accepting | `core/core.go:148`: "Stop shuts down the Yggdrasil node." |
| `FileCreator!PerPeerExact` | `FileSize = ChunkSize = 3`, `BlockSize = 1`, `Blocks = "pending"`, `Peers = {1}` | the count of slices per peer goes down once per part; it wraps and the peer is not asked any more | `ft/ftfilecreator.cc:581`: "increase number of chunks for this peer." |
| `FileCreator!ReturnsWhatIsThere` | the same with `Peers = {1, 2}` | a local reader gets bytes out of a slice that has not arrived | `ft/ftfilecreator.cc:94`: "Only send the data if we actually have it." |
| `FileCreator!CompleteHasNoSlices` | the same with `ForceInDownload = TRUE` | a check forced during the download completes the file with slices pending | `ft/ftchunkmap.cc:206`: "ERROR: file still has pending slices but all chunks are marked as DONE !!" |
| `Transfer!CompletedIsRight` | `Disturbed = {"force"}`, one fault | a result of the hashing thread from before a forced check completes the file that was changed after it | `ft/fttransfermodule.cc:528`: "Check if file hash matches the hashed data" |
| `Transfer!NoChunkForgotten` | `Disturbed = {"open"}` | `verifyChunk` cannot open the file and nobody asks for the checksum again | nothing is said |

The other properties of `FileCreator` are therefore stated, and checked, for
downloads whose checks are not forced while a chunk is active, and for blocks that do
not reach over the end of the part at their offset. A check that is forced when
nothing is being downloaded may still call chunks done that were never received:
nothing in the code says otherwise, and `DoneIsThere` excepts exactly these.

## Fairness

`Links` assumes weak fairness of each goroutine and of the end of `Stop`: the Go
scheduler and the actor run what is ready, a dial is bounded by its timeouts, a
handshake by its deadline of six seconds, a backoff by its timer. A SOCKS dial
has no timeout of its own and ends when the proxy does. Nothing is assumed of
the API, of peers that connect, or of connections that break.

`KeyStore` assumes that the timers of buffers fire and their callbacks run. Only
a new packet for the same destination resets such a timer, and the model has
finitely many. Nothing is assumed of the timers of keys, which traffic may
reset for ever.

`Transfer` (`FairSpec`) assumes that the four threads keep running: a tick, a
completion, a verification or a request that is due happens. Sources deliver the
chunks they are asked for, and a source that is not mute, and is asked for a
checksum again and again, answers some time before the next one is asked; the
multiplexer, which is busy with other requests again and again, takes the data of
an active chunk at some time (strong fairness, since these steps are enabled only
while a request is the last one, or data is at hand). Nothing is assumed of the
user, of faults or of restarts, of which there are at most `MaxFaults`.

`FileCreator`, `TcpStream` and `Turtle` have safety properties only and no fairness.
That a stream delivers in the end is not claimed: a FIN is not sent again (nothing
in the library calls `closeWrite`; streams are closed by `close`, which sends
nothing), and two ends that connect at once can stay in SYN_RCVD until they give up
(see `hazards`).

## Proofs

The theorems hold for every value of the constants under the named assumption of
each module (`LinksAssumption`, `KeyStoreAssumption`, `ChunkMapAssumption`,
`FileCreatorAssumption`, `TransferAssumption`, `TcpStreamAssumption`,
`TurtleAssumption`). Some have a hypothesis on a constant that switches on a case in
which the code breaks the property: TLC finds that counterexample (see Runs), and
the theorem says that nothing else breaks it.

**Links.** `IInv` is `TypeOK`, `SlotsOK`, `EntryHasOwner`, `OwnerIsListed`,
`UpIsHandled` and `SocketsOK`. `RunningDialerIsListed` alone is not inductive: a
clean-up deletes the entry of an info whoever owns it, so one needs that the only
possible owner is the goroutine that cleans up (`OwnerIsListed`), which for an
unshared info holds since its dialer and an accepter never have it in common
(`SlotsOK` keeps dialers within `DialInfos` and accepters within `AcceptInfos`).
`UpIsHandled` is needed to see that the early return with an open socket is not
taken, and `SocketsOK` to carry that over the loop. From `IInv`: `LinksTypeOK`,
`EntriesOwned`, `DialersListed`, `NoSecondPeering`, `SocketsClosed`,
`UpMeansHandled`. Of these, `LinksTypeOK` and `EntriesOwned` are about all infos;
the others exclude those of link-local peers, for which single
peering fails (`NoDuplicatePeering` above).

`LinksImplementPeerList` is the refinement: every step is a step of `PeerList` or
leaves the list alone. It needs one invariant more, `GivesUpWhenDone`: a
persistent link is at its exit only if it was cancelled or the node stops.

**KeyStore.** `IInv` is `TypeOK`, `MapsAgree`, `SentToOwner`, `SentOnce` and
`EverythingExpires` with three conjuncts more: `ObjectsOK` (an object whose timer
runs or whose callback is late knows the key or destination it was made for, so
that the callback looks at the right entry), `BuffersOK` (a buffer in the map is
under its own destination, holds a packet that was taken for it, and that
destination is unknown) and `SentWasTaken` (so a new packet was not sent
before). `NoStrandedPacket` follows from `MapsAgree` and `BuffersOK`. The
assumption that no two keys share a destination is essential: if two did, the
second would take over the destination of the first, and when it expires the
first is still known by key, `update` would not enter it again, and packets to
it would be buffered and dropped. All safety properties, and the action property
`OnlyOwnTimerRemoves`, are theorems.

**FileCreator.** The theorems are about downloads in whose middle no check is forced
(`ForceInDownload = FALSE`), and about blocks, asked for or not, that do not reach
over the end of the part at their offset (`Blocks # "late"`; otherwise
`download_late`). They hold for every size of blocks, slices, chunks and files. That
blocks fit is no assumption as long as only blocks of pending slices arrive:
`AskedBlocksFit` shows it, from `AlignedOK` (parts begin and end where blocks do, or
with their slice). `CreatorOK`, the inductive invariant, has a part for each book.
For the chunk map: `ActiveOnly` (a chunk has an entry exactly while it is active),
`SlicesOK` (slices lie in active chunks and do not overlap), `FeedsOK` (one peer at
most feeds on a chunk, and behind all slices cut from it) and `RemainsOK` (the
remainder of a chunk is the number of pieces that are in a slice or still behind the
feed). For the creator: `PartsOK` (parts lie in their slices, do not overlap, and
share a counter exactly if they are of one slice), `CountersOK` (the counter of a
slice is the number of its parts), `PiecesOK` (a piece of an active chunk is
written, in a part, or behind the feed), `AlignedOK`, `TotalExact`, `CompleteOK` and
`DoneOK` (what was received and not checked by force since is written, what is done
or saved as done was checked). None of these is inductive alone: that a received
slice takes off `remains` what is left of it needs that slices do not overlap; that
the last part of a slice is recognised by its counter needs that counters are not
shared; that nothing is lost when a part is split needs that the rest of it goes
into a new part of the same slice (`SplitParts`). A chunk is complete when its
remainder is zero, which by `RemainsOK` and `PiecesOK` means that all its pieces are
written (`ReceivedSlice`). From `CreatorOK`: `TypesAreRight`,
`ActiveAreDownloading`, `RemainsAreExact`, `PartsAlwaysMatchSlices`,
`NothingIsLost`, `TotalIsExact`, `DoneIsOnDisk`, `AskedBlocksFit`.
`CreatorImplementsChunkLife` is the refinement: with the invariant, the action of
each method is a step of `ChunkLife` or leaves the chunks alone. `total` is a sum
over all chunks, defined by recursion on their number; what the proof needs of it
(it exists, and changes by what one summand changes) is shown by looking at the
least number for which it would fail.

**Transfer.** `TypesAreRight` needs that no source is asked twice for the same
chunk (`AskedOnce`), or the list of those asked would have no bound.
`NoChunkIsForgotten` holds if a chunk to be verified can be read (`"open" \notin
Disturbed`) and needs only the types: each step that takes a chunk out of one of the
three maps of the checksum cache puts it into the next one or changes its state.
`CompletedFilesAreRight` holds if neither late data nor a forced check meets a
file that is being hashed (`"late", "force" \notin Disturbed`). Its
invariant `RightOK` follows the file through the threads: a file is complete
only when its chunks are done (`CompleteIsDone`); while the hashing thread runs
nobody writes, and what it has read as right stays right (`HashingIsRight`); the
flag `complete`, and the list of what is done, stand for a right file
(`FlagsAreRight`).

**TcpStream.** `TypesAreRight` and `TimerAlwaysRuns` hold without any hypothesis;
their invariant `TypesOK` says of each stream that its window sizes, numbers and
queues are within their bounds and that packets wait only while the timer runs
(`Sound`).

`WhatArrivesIsWhatWasWritten` and `EndOfStreamIsTheEnd` speak of streams in their
first life and have two hypotheses. No end that connects writes before it has read,
or no packet ends a handshake but the first one behind the SYN (`Connecting \cap
Eager = {} \/ ~Overtaking`): otherwise the stream can begin with the second segment,
as `tcp_order` shows. The second alternative allows both ends to connect and to write
at once, as libretroshare does, as long as the network does not bring a later packet
first. And no end has more bytes to write than there
are sequence numbers (`Total[e] < SeqSpace`): a datagram of the model may arrive at
any later time, so beyond that an old one could pass for a new one; in the network
it lives much shorter than it takes to write 2^32 bytes. The number of lives only
grows, so before a step into a state of the first life is another one
(`OneLifeBefore`), and `Once`, which says that `IInv` holds while no stream is
opened a second time, is the invariant of every behaviour. The invariant `IInv`
relates each half of a stream to what the peer has written, and not to the state of
the peer: `outSeqno` and `inQueue` stand where the bytes sent so far end, every
packet in a queue or under way has the bytes that belong at its number (`OutOK`,
`PacketOK`), and what was delivered is the beginning of what was written, with
`inAckno` where it ends (`InOK`). A step of one end changes what the other half of
the argument knows of it only by more bytes written, which keeps all of this. The
invariant needs to know which end sent the first SYN, which the code does not
remember (`first`): an end in `syn_rcvd` takes its first `inAckno` from whatever
packet acknowledges its SYN, and that is right only since its peer has not written
anything yet, or since the packet is the first one behind the SYN.

`NothingIsDropped` says that the sender never lets go of a byte the receiver still
needs. `acknowledge` drops a packet by its first number, and `incoming_Established`
takes `outAcked` from any packet that is not behind `inAckno`, late ones included, so
one needs that nobody ever acknowledges the middle
of a packet, and that no number in any packet is beyond what has been received.
`KInv` therefore adds to `IInv` the places where the segments of each end begin and
end (`cuts`, which grow as segments are sent): every packet is one segment
(`Whole`), every acknowledgement stands at one of these places and not beyond what
arrived (`Refers`), and whatever has been sent and has not arrived is in `outPkt`
(`Sender`). A late acknowledgement takes `outAcked` back by any distance, and
`isOldSequence` tells numbers apart only within half of their range, so the
hypothesis is `2 * Total[e] < SeqSpace`. Window, segment size, the limit of `inPkt`,
initial numbers and the number of datagrams under way are arbitrary.

The two loops of the code, over `inPkt` and over the full segments, are recursive
functions; that a loop keeps an invariant of its body is shown by looking at the
first round after which it would fail.

**Turtle.** The argument is about routes. A node takes a request once, so the nodes
a request passed form a path without repetitions, and each remembers the one before
it (`ItemRoutes`); the answer goes back along that path, and each node enters its
two neighbours on it (`TunnelRoutes`). Two nodes that have the same tunnel therefore
see the same route from two of its places: `HopsAlwaysAgree`, and from it
`DataAlwaysFits`. `IdsUsed` is what makes request ids fresh. `TunnelsAreListed`
needs that an answer to the last request for a hash is about that hash
(`RequestHashes`), and `ClientsAreInformed` that a virtual peer is the other end of
a tunnel that starts or ends at the node (`VirtualPeers`): which of the two decides
who is told when it is closed, also at a node that serves the hash it monitors,
since a request that a node sent is never answered by the node itself. None of these
theorems has a hypothesis. The number of nodes, routes and hashes and the length of
a route are not bounded.

**Only model-checked**: liveness (`PersistentRetries`, `StopDrains`,
`RemoveStops`, `PacketLeaves`, `EveryDownloadEnds`), which the prover does not
reach, and the counterexamples. Every invariant and action property the passing
runs check, and both refinements, are theorems, some of them with the hypotheses
named above.

## Not modelled

Components with status `not_modelled` in `PROJECT.json`. The admin socket, the TUN
adapter, configuration, commands and the support code are I/O and library code; GXS,
the global router, pqi and the chat services are large and come after what is
planned below. Of modelled components: searches of the turtle router, the order of
the download queue, the servers of finished files. Memory safety and data races are
below the level of these models: for instance, the multiplexer calls the transfer
module after it has released its mutex (`ft/ftdatamultiplex.cc:820`), while
`completeFile` or a cancel may delete it. `Transfer` has this interleaving, and not
what a deleted object does.

## Plan

1. Done: `Links`, `PeerList`, their proofs and the refinement.
2. Done: `KeyStore` and its proofs.
3. Done: `ChunkMap` and `FileCreator`, model-checked; its abstract specification
   `ChunkLife`.
4. Done: `Transfer` over `ChunkLife`, with liveness.
5. Done: `TcpStream` over a network that loses, doubles and reorders.
6. Done: tunnels of the turtle router.
7. Done: proofs of the invariants of `Transfer`, `TcpStream` and `Turtle`, of the
   accounts of `FileCreator` and of its refinement of `ChunkLife`.
8. After that: `Proto` (requests, responses and timers of `proto.go` and
   `nodeinfo.go`), `Multicast`, `Handshake` of `version.go` with two sides,
   `Address` as a pure algorithm, the global router.

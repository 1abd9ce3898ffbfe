----------------------------- MODULE TcpStream -----------------------------
(***************************************************************************)
(* TCP over UDP: two objects of class TcpStream (tcponudp/tcpstream.cc)    *)
(* that are connected by datagrams which may be lost, duplicated and       *)
(* reordered.  libretroshare runs its encrypted links over such streams    *)
(* when both friends are behind firewalls.                                 *)
(*                                                                         *)
(* Every method runs under tcpMtx.  It is written here as a function of    *)
(* the record of the stream; the datagrams it sends are collected in the   *)
(* field sent.  Timers fire at any time; which congestion window applies,  *)
(* and how often a packet has been sent again, is left open.               *)
(*                                                                         *)
(* A stream that was closed may connect again, and a SYN, however late,    *)
(* opens it again: each time the stream begins another life.               *)
(***************************************************************************)
EXTENDS Integers, Sequences, FiniteSets, SequencesExt

CONSTANTS
    Ends,        \* the two streams
    Connecting,  \* the ends that call connect; both do in libretroshare (pqissludp)
    Total,       \* Total[e]: how many bytes end e has to write
    Eager,       \* the ends that write at once, not only after reading something
    Isn,         \* Isn[e]: what genSequenceNo returns each time e is opened; bounds how often
    SeqSpace,    \* sequence numbers are uint32
    MaxSeg,      \* MAX_SEG
    MaxWin,      \* maxWinSize
    MaxInPkt,    \* kMaxQueueSize, of inPkt
    Capacity,    \* Capacity[e]: how many different datagrams are under way to end e
    Overtaking,  \* the packet that ends a handshake may be another than the first one sent
    Impatient    \* the ends that may time out, or whose user may close them

ASSUME TcpStreamAssumption ==
    /\ IsFiniteSet(Ends) /\ Cardinality(Ends) = 2
    /\ Connecting \subseteq Ends /\ Eager \subseteq Ends
    /\ Total \in [Ends -> Nat]
    /\ SeqSpace \in Nat /\ SeqSpace % 2 = 0
    /\ MaxSeg \in Nat \ {0} /\ MaxWin \in Nat /\ MaxWin >= MaxSeg /\ SeqSpace > 2 * MaxWin
    /\ Isn \in [Ends -> Seq(0 .. SeqSpace - 1) \ {<<>>}]
    /\ MaxInPkt \in Nat \ {0} /\ Capacity \in [Ends -> Nat \ {0}]
    /\ Overtaking \in BOOLEAN /\ Impatient \subseteq Ends

VARIABLES
    stream,   \* the two streams
    net,      \* net[e]: the datagrams under way to end e
    written,  \* written[e]: how many bytes the user of e has written
    got       \* got[e]: the bytes the user of e has read

vars == <<stream, net, written, got>>

Peer(e) == CHOOSE f \in Ends : f # e

Seqno == 0 .. SeqSpace - 1

TcpStates == {"closed", "syn_sent", "syn_rcvd", "established", "fin_wait_1", "fin_wait_2",
              "closing", "close_wait", "last_ack"}

\* The states that are not smaller than TCP_ESTABLISHED.
Connected(s) == s.state \notin {"closed", "syn_sent", "syn_rcvd"}

Fresh ==
    [state |-> "closed", inStreamActive |-> FALSE, outStreamActive |-> FALSE,
     outSeqno |-> 0, outAcked |-> 0, outWinSize |-> 0, inAckno |-> 0,
     lastSentAck |-> 0, lastSentWinSize |-> 0, retransTimerOn |-> FALSE,
     inQueue |-> <<>>,   \* inQueue, then inData: the bytes to be sent
     outQueue |-> <<>>,  \* outDataRead, outQueue, outDataNet: the bytes to be read
     inPkt |-> <<>>, outPkt |-> <<>>, sent |-> {},
     lives |-> 0]        \* history: how often it was opened

Init ==
    /\ stream = [e \in Ends |-> Fresh]
    /\ net = [e \in Ends |-> {}]
    /\ written = [e \in Ends |-> 0]
    /\ got = [e \in Ends |-> <<>>]
-----------------------------------------------------------------------------
(* Sequence numbers and sending.                                           *)

\* isOldSequence: the difference as an int is negative.
IsOldSequence(tst, curr) == (tst - curr) % SeqSpace >= SeqSpace \div 2

\* UpdateInWinSize, which is called whenever the bytes to be read change.
InWinSize(s) ==
    LET queued == Len(s.outQueue) IN
    IF queued < MaxWin THEN MaxWin
    ELSE IF queued < 2 * MaxWin THEN 2 * MaxWin - queued ELSE 0

\* The packets of q that are in S, in their order.
Only(q, S) ==
    LET upTo[n \in 0..Len(q)] ==
          IF n = 0 THEN <<>>
          ELSE IF q[n] \in S THEN Append(upTo[n - 1], q[n]) ELSE upTo[n - 1]
    IN  upTo[Len(q)]

\* The packets of q that do not begin before the number seqno.
NotBefore(q, seqno) == Only(q, {p \in ToSet(q) : ~IsOldSequence(p.seqno, seqno)})

Packet(syn, fin, ack, data) ==
    [syn |-> syn, fin |-> fin, ack |-> ack, data |-> data, seqno |-> 0, ackno |-> 0, winsize |-> 0]

\* toSend.  A packet to be sent again if need be stays in outPkt.
ToSend(s, p, retrans) ==
    LET q == [p EXCEPT !.seqno = s.outSeqno,
                       !.winsize = InWinSize(s),
                       !.ack = @ \/ ~p.syn,
                       !.ackno = IF p.ack \/ ~p.syn THEN s.inAckno ELSE 0]
    IN  [s EXCEPT !.outSeqno = (@ + Len(p.data) + (IF p.syn THEN 1 ELSE 0)) % SeqSpace,
                  !.lastSentAck = q.ackno,
                  !.lastSentWinSize = q.winsize,
                  !.retransTimerOn = @ \/ retrans,
                  !.outPkt = IF retrans THEN Append(@, q) ELSE @,
                  !.sent = @ \cup {q}]

SendAck(s) == ToSend(s, Packet(FALSE, FALSE, TRUE, <<>>), FALSE)

\* genSequenceNo, when a closed stream is opened.
Opened(e, s) ==
    LET isn == Isn[e][s.lives + 1] IN
    [s EXCEPT !.outSeqno = isn, !.outAcked = isn, !.lives = @ + 1]

\* cleanup: the buffers are emptied; the timer is left as it is.
Cleanup(s) ==
    [s EXCEPT !.state = "closed", !.inStreamActive = FALSE, !.outStreamActive = FALSE,
              !.inQueue = <<>>, !.outQueue = <<>>, !.inPkt = <<>>, !.outPkt = <<>>]
-----------------------------------------------------------------------------
(* handleIncoming, by state.                                               *)

\* incoming_Closed, also for a SYN that crosses our own.
IncomingClosed(e, s, p) ==
    LET t == [s EXCEPT !.inAckno = (p.seqno + 1) % SeqSpace, !.outWinSize = p.winsize]
        rsp == IF s.state = "closed" THEN ToSend(Opened(e, t), Packet(TRUE, FALSE, TRUE, <<>>), TRUE)
               ELSE ToSend(t, Packet(FALSE, FALSE, TRUE, <<>>), TRUE)
    IN  IF p.syn /\ ~p.ack THEN [rsp EXCEPT !.state = "syn_rcvd"] ELSE s

IncomingSynSent(e, s, p) ==
    LET t == SendAck([s EXCEPT !.inAckno = (p.seqno + 1) % SeqSpace,
                               !.outWinSize = p.winsize, !.outAcked = p.ackno])
    IN  IF ~(p.syn /\ p.ack) THEN IncomingClosed(e, s, p)
        ELSE IF p.ackno # s.outSeqno THEN s
        ELSE [t EXCEPT !.state = "established", !.inStreamActive = TRUE, !.outStreamActive = TRUE]

(* One packet of check_InPkts, which is next in the stream: its data and    *)
(* its acknowledgement are taken, then its FIN, then its acknowledgement of *)
(* our FIN.                                                                 *)
TakePacket(s, p) ==
    LET newer == p.ack /\ IsOldSequence(s.outAcked, p.ackno)
        t == [s EXCEPT !.inAckno = (p.seqno + Len(p.data)) % SeqSpace,
                       !.outAcked = IF newer THEN p.ackno ELSE @,
                       !.outWinSize = IF newer THEN p.winsize ELSE @,
                       !.outQueue = @ \o p.data]
        u == [SendAck(t) EXCEPT !.inStreamActive = FALSE]
        fin == CASE ~p.fin -> t
                 [] p.fin /\ s.state = "established" -> [u EXCEPT !.state = "close_wait"]
                 [] p.fin /\ s.state = "fin_wait_1" -> [u EXCEPT !.state = "closing"]
                 [] p.fin /\ s.state = "fin_wait_2" -> Cleanup(u)
                 [] OTHER -> u
    IN  IF ~(p.ack /\ ~fin.outStreamActive /\ p.ackno = fin.outSeqno) THEN fin
        ELSE CASE fin.state = "fin_wait_1" -> [fin EXCEPT !.state = "fin_wait_2"]
               [] fin.state \in {"last_ack", "closing"} -> Cleanup(fin)
               [] OTHER -> fin

\* Mutant: a packet behind a gap is taken as well.
FirstInPktAny(s) ==
    LET at == {i \in 1..Len(s.inPkt) : ~IsOldSequence(s.inPkt[i].seqno, s.inAckno)} IN
    IF at = {} THEN 0 ELSE CHOOSE i \in at : \A j \in at : i <= j

\* Where the first packet is that comes next in the stream; 0 if there is none.
FirstInPkt(s) ==
    LET at == {i \in 1..Len(s.inPkt) : s.inPkt[i].seqno = s.inAckno} IN
    IF at = {} THEN 0 ELSE CHOOSE i \in at : \A j \in at : i <= j

\* One round of check_InPkts.
TakeNext(s) ==
    LET i == FirstInPkt(s) IN
    IF i = 0 THEN s ELSE TakePacket([s EXCEPT !.inPkt = RemoveAt(@, i)], s.inPkt[i])

(* check_InPkts uses as many packets as possible and discards the old ones. *)
CheckInPkts(s) ==
    LET after[n \in 0..Len(s.inPkt)] == IF n = 0 THEN s ELSE TakeNext(after[n - 1])
        end == after[Len(s.inPkt)]
    IN  [end EXCEPT !.inPkt = NotBefore(@, end.inAckno)]

\* Mutant: the queue has no limit.
QueuePacketAlways(q, p) == Append(q, p)

\* A packet is put behind the others; if there are too many the first one goes.
QueuePacket(q, p) == IF Len(q) >= MaxInPkt THEN Append(Tail(q), p) ELSE Append(q, p)

\* incoming_Established: the acknowledgement is used at once, the packet is queued.
IncomingEstablished(s, p) ==
    LET inWindow == /\ ~IsOldSequence(p.seqno, s.inAckno)
                    /\ IsOldSequence(p.seqno, s.inAckno + MaxWin)
        t == IF inWindow
             THEN [s EXCEPT !.outAcked = IF p.ack THEN p.ackno ELSE @, !.outWinSize = p.winsize]
             ELSE SendAck(s)
    IN  CheckInPkts([t EXCEPT !.inPkt = QueuePacket(@, p)])

\* incoming_SynRcvd: the stream starts where the first packet with our ACK says.
IncomingSynRcvd(s, p) ==
    LET t == [s EXCEPT !.inAckno = p.seqno, !.outWinSize = p.winsize, !.outAcked = p.ackno,
                       !.state = "established", !.inStreamActive = TRUE, !.outStreamActive = TRUE]
    IN  IF ~p.ack \/ p.ackno # s.outSeqno THEN s
        ELSE IF p.data = <<>> THEN t ELSE IncomingEstablished(t, p)

HandleIncoming(e, s, p) ==
    CASE s.state = "closed" -> IncomingClosed(e, s, p)
      [] s.state = "syn_sent" -> IncomingSynSent(e, s, p)
      [] s.state = "syn_rcvd" -> IncomingSynRcvd(s, p)
      [] OTHER -> IncomingEstablished(s, p)
-----------------------------------------------------------------------------
(* tick: send.                                                             *)

\* Mutant: a packet is dropped when its first byte is acknowledged, or next to be.
AcknowledgeTooMuch(s) ==
    LET rest == Only(s.outPkt, {p \in ToSet(s.outPkt) : IsOldSequence(s.outAcked, p.seqno)}) IN
    [s EXCEPT !.outPkt = rest, !.retransTimerOn = @ /\ rest # <<>>]

\* Mutant: the timer is stopped by every acknowledgement.
AcknowledgeStopsTimer(s) ==
    LET rest == NotBefore(s.outPkt, s.outAcked) IN
    [s EXCEPT !.outPkt = rest, !.retransTimerOn = @ /\ rest = s.outPkt]

\* acknowledge: packets that begin before outAcked are done with.
Acknowledge(s) ==
    LET rest == NotBefore(s.outPkt, s.outAcked) IN
    [s EXCEPT !.outPkt = rest, !.retransTimerOn = @ /\ rest # <<>>]

\* retrans sends the first packet again, if the timer is due.
Retrans(s, due) ==
    LET p == Head(s.outPkt)
        q == [p EXCEPT !.ackno = IF p.syn THEN @ ELSE s.inAckno, !.winsize = InWinSize(s)]
    IN  IF ~(due /\ s.retransTimerOn) \/ s.outPkt = <<>> THEN s
        ELSE [s EXCEPT !.outPkt = <<q>> \o Tail(@),
                       !.lastSentAck = IF p.syn THEN @ ELSE q.ackno,
                       !.lastSentWinSize = q.winsize,
                       !.sent = @ \cup {q}]

\* What the window leaves, with the code's arithmetic for a wrapped outSeqno.
MaxSend(s, congestWinSize) ==
    LET inTransit == IF s.outSeqno < s.outAcked THEN (SeqSpace - 1 - s.outAcked) + s.outSeqno
                     ELSE s.outSeqno - s.outAcked
        win == IF s.outWinSize < congestWinSize THEN s.outWinSize ELSE congestWinSize
    IN  IF win > inTransit THEN win - inTransit ELSE 0

\* A full segment is sent.
SendSegment(s) ==
    ToSend([s EXCEPT !.inQueue = SubSeq(@, MaxSeg + 1, Len(@))],
           Packet(FALSE, FALSE, TRUE, SubSeq(s.inQueue, 1, MaxSeg)), TRUE)

\* Full segments while the window allows, or else the rest.
SendData(s, congestWinSize) ==
    LET room == MaxSend(s, congestWinSize)
        full == Len(s.inQueue) \div MaxSeg
        n == IF full <= room \div MaxSeg THEN full ELSE room \div MaxSeg
        rest == Len(s.inQueue) % MaxSeg
        after[i \in 0..n] == IF i = 0 THEN s ELSE SendSegment(after[i - 1])
    IN  CASE n > 0 -> after[n]
          [] n = 0 /\ full = 0 /\ rest > 0 /\ rest <= room ->
               ToSend([s EXCEPT !.inQueue = <<>>], Packet(FALSE, FALSE, TRUE, s.inQueue), TRUE)
          [] OTHER -> s

\* Nothing was sent: a FIN or an ACK may be due.  A FIN is not sent again.
SendControl(s, keepAlive) ==
    LET needsAck == \/ IsOldSequence(s.lastSentAck, s.inAckno)
                    \/ s.lastSentWinSize < MaxSeg /\ InWinSize(s) > MaxSeg
                    \/ keepAlive
        fin == ToSend(s, Packet(FALSE, TRUE, TRUE, <<>>), FALSE)
    IN  CASE ~s.outStreamActive /\ s.inQueue = <<>> /\ s.state = "established" ->
               [fin EXCEPT !.state = "fin_wait_1"]
          [] ~s.outStreamActive /\ s.inQueue = <<>> /\ s.state = "close_wait" ->
               [fin EXCEPT !.state = "last_ack"]
          [] OTHER -> IF needsAck THEN SendAck(s) ELSE s

Send(s, congestWinSize, due, keepAlive) ==
    LET t == Retrans(Acknowledge(s), due)
        u == SendData(t, congestWinSize)
    IN  IF ~Connected(t) THEN t ELSE IF u # t THEN u ELSE SendControl(t, keepAlive)
-----------------------------------------------------------------------------
(* The datagrams s.sent leave; any of them may be lost.  When a datagram is *)
(* lost cannot be told, so it is lost at once.                              *)
Commit(e, s, under) ==
    /\ stream' = [stream EXCEPT ![e] = [s EXCEPT !.sent = {}]]
    /\ \E arriving \in SUBSET s.sent :
         /\ net' = [under EXCEPT ![Peer(e)] = @ \cup arriving]
         /\ Cardinality(net'[Peer(e)]) <= Capacity[Peer(e)]

\* connect, and what a closed stream does with a SYN, open it, as often as Isn bounds it.
MayOpen(e) == stream[e].state = "closed" => stream[e].lives < Len(Isn[e])

Connect(e) ==
    LET s == ToSend(Opened(e, stream[e]), Packet(TRUE, FALSE, FALSE, <<>>), TRUE) IN
    /\ e \in Connecting /\ stream[e].state = "closed" /\ MayOpen(e)
    /\ Commit(e, [s EXCEPT !.state = "syn_sent"], net)
    /\ UNCHANGED <<written, got>>

\* p ends the handshake of s, but an earlier packet behind the SYN is still under way or lost.
Overtakes(s, p) == s.state = "syn_rcvd" /\ p.ack /\ p.ackno = s.outSeqno /\ p.seqno # s.inAckno

\* recvPkt.  The datagram may come a second time.
RecvPkt(e, p) ==
    /\ p \in net[e] /\ MayOpen(e)
    /\ Overtaking \/ ~Overtakes(stream[e], p)
    /\ \E under \in {net, [net EXCEPT ![e] = @ \ {p}]} :
         Commit(e, HandleIncoming(e, stream[e], p), under)
    /\ UNCHANGED <<written, got>>

\* tick, with any congestion window; the timers may be due.
Tick(e) ==
    /\ stream[e].state # "closed"
    /\ \E s \in {Send(stream[e], congestWinSize, due, keepAlive) :
                   congestWinSize \in MaxSeg..MaxWin, due \in BOOLEAN, keepAlive \in BOOLEAN} :
         Commit(e, s, net)
    /\ UNCHANGED <<written, got>>

\* write, of n bytes.  The bytes are numbered.
Write(e, n) ==
    /\ Connected(stream[e]) /\ stream[e].outStreamActive
    /\ n <= Total[e] - written[e]
    /\ e \in Eager \/ got[e] # <<>>
    /\ written' = [written EXCEPT ![e] = @ + n]
    /\ stream' = [stream EXCEPT ![e].inQueue = @ \o [i \in 1..n |-> written[e] + i]]
    /\ UNCHANGED <<net, got>>

\* read, of n bytes.
Read(e, n) ==
    /\ Connected(stream[e]) /\ n <= Len(stream[e].outQueue)
    /\ got' = [got EXCEPT ![e] = @ \o SubSeq(stream[e].outQueue, 1, n)]
    /\ stream' = [stream EXCEPT ![e].outQueue = SubSeq(@, n + 1, Len(@))]
    /\ UNCHANGED <<net, written>>

\* closeWrite, once all is written.
CloseWrite(e) ==
    /\ written[e] = Total[e]
    /\ stream[e].outStreamActive
    /\ stream' = [stream EXCEPT ![e].outStreamActive = FALSE]
    /\ UNCHANGED <<net, written, got>>

(* close by the user, kNoPktTimeout in recv_check, or too many              *)
(* retransmissions.                                                         *)
Close(e) ==
    /\ e \in Impatient /\ stream[e].state # "closed"
    /\ stream' = [stream EXCEPT ![e] = Cleanup(@)]
    /\ UNCHANGED <<net, written, got>>

Next ==
    \/ \E e \in Ends : Connect(e)
    \/ \E e \in Ends : \E p \in net[e] : RecvPkt(e, p)
    \/ \E e \in Ends : Tick(e)
    \/ \E e \in Ends, n \in 1..MaxWin : Write(e, n)
    \/ \E e \in Ends, n \in 1..MaxWin : Read(e, n)
    \/ \E e \in Ends : CloseWrite(e)
    \/ \E e \in Ends : Close(e)

Spec == Init /\ [][Next]_vars
-----------------------------------------------------------------------------
(* The numbers stay within their width, the queue of packets within its     *)
(* bound, and a segment within MAX_SEG.                                      *)
TypeOK ==
    \A e \in Ends :
      /\ stream[e].state \in TcpStates
      /\ \A x \in {"outSeqno", "outAcked", "inAckno", "lastSentAck"} : stream[e][x] \in Seqno
      /\ \A x \in {"outWinSize", "lastSentWinSize"} : stream[e][x] \in 0..MaxWin
      /\ Len(stream[e].inPkt) <= MaxInPkt
      /\ \A p \in net[e] \cup ToSet(stream[e].inPkt) \cup ToSet(stream[e].outPkt) :
           /\ p.seqno \in Seqno /\ p.ackno \in Seqno /\ p.winsize \in 0..MaxWin
           /\ Len(p.data) <= MaxSeg
      /\ stream[e].sent = {} /\ stream[e].lives \in Nat
      /\ written[e] \in 0..Total[e]

\* What has arrived at e in sequence, whether it has been read or not.
Received(e) == got[e] \o stream[e].outQueue

\* What e has written and still holds, to be sent or sent again.
Pending(e) ==
    ToSet(stream[e].inQueue) \cup UNION {ToSet(p.data) : p \in ToSet(stream[e].outPkt)}

(* No stream has been opened twice.  After that the packets of two lives   *)
(* mix on the network, and only the chance of genSequenceNo keeps them      *)
(* apart, so nothing is said of them.                                       *)
OneLife == \A e \in Ends : stream[e].lives <= 1

(* The bytes that arrive are those that were written, in order: nothing is  *)
(* lost, doubled or exchanged, whatever the network does.                   *)
Integrity == OneLife => \A e \in Ends : Received(e) = [i \in 1..Len(Received(e)) |-> i]

(* A byte is kept until the other end has it: as long as both ends are      *)
(* open, what has not arrived is in a queue or will be sent again.          *)
NothingDropped ==
    OneLife => \A e \in Ends : LET f == Peer(e) IN
        stream[e].state # "closed" /\ stream[f].state # "closed" =>
            1..written[e] \subseteq Pending(e) \cup ToSet(Received(f))

(* A reader that is told that the stream has ended has been given all of it.*)
EndOfStream ==
    OneLife => \A e \in Ends :
        Connected(stream[e]) /\ ~stream[e].inStreamActive /\ stream[e].outQueue = <<>> =>
            Len(got[e]) = written[Peer(e)]

(* A packet that waits for an acknowledgement has a timer running, or it    *)
(* would never be sent again.                                               *)
TimerRuns ==
    \A e \in Ends : stream[e].outPkt # <<>> => stream[e].retransTimerOn
=============================================================================

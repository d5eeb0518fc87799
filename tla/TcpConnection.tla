--------------------------- MODULE TcpConnection ---------------------------
(* The handlers of TcpConnection, of TcpServer and its Acceptor, of TcpClient *)
(* and of UdpSocket, UdpServer and UdpClient, as functions on the loop. A    *)
(* handler that calls back into the program has a set of results, one for    *)
(* each thing the callback may do.                                           *)
(*                                                                           *)
(* Bytes an object is asked to send are numbered 1, 2, ...; 0 is a byte      *)
(* nobody asked for. A datagram is one such number.                          *)
EXTENDS EventLoop, SequencesExt

Junk == 0

NewConnection(kind) ==
    [kind |-> kind,          \* "accepted", "client", "udpserver" or "udpclient"
     m_closed |-> FALSE,
     m_status |-> "init",    \* TcpClient; UdpClient: "connecting"
     m_iovecList |-> <<>>,   \* or m_bufferList: blocks of bytes
     asked |-> 0,            \* bytes the program has asked to send
     written |-> <<>>,       \* bytes the kernel has taken
     unfinished |-> 0,       \* sends whose completion is awaited
     short |-> FALSE,        \* history: a direct write took less than it was given
     why |-> "open"]         \* history: "cause" or "nothing", once closed

Udp(net, c) == net.conn[c].kind \in {"udpserver", "udpclient"}

Smaller(a, b) == IF a < b THEN a ELSE b

Space(net, c) ==
    IF net.sock[c].kind \in {"open", "datagram"} /\ ~Pending(net.sock[c])
    THEN Room - net.sock[c].unsent ELSE 0

MayAsk(net, n) == n <= net.asks

(* The end of c's socket, or an error of it, that the kernel still tells.    *)
Owed(net, c) ==
    net.sock[c].fin \/ Pending(net.sock[c]) \/ net.sock[c].kind = "reset"

(* One that it tells or has told.                                            *)
Gone(net, c) ==
    net.sock[c].fin \/ net.sock[c].error \/ net.sock[c].kind = "reset"

-----------------------------------------------------------------------------
(* Closing.                                                                  *)
onConnectionClose(net, c) ==
    removeEvent([net EXCEPT !.m_connections = @ \ {c}], c)

TcpOnCloseBeforeCallback(net, c) ==
    IF net.conn[c].m_closed THEN net
    ELSE onConnectionClose(Close([net EXCEPT !.conn[c].m_closed = TRUE], c), c)

TcpOnClose(net, c) ==
    IF net.conn[c].m_closed THEN net
    ELSE LET closed == [net EXCEPT !.conn[c].m_closed = TRUE]
         IN  Close(IF net.conn[c].kind = "accepted" THEN onConnectionClose(closed, c)
                   ELSE closed, c)

TcpClientOnClose(net, c) ==
    LET left == IF net.conn[c].m_status \in {"connecting", "connected"}
                THEN removeEvent(net, c) ELSE net
    IN  TcpOnClose([left EXCEPT !.conn[c].m_status = "disconnected"], c)

UdpOnClose(net, c) ==
    IF net.conn[c].m_closed THEN net
    ELSE Close([net EXCEPT !.conn[c].m_closed = TRUE], c)

UdpClientOnClose(net, c) ==
    IF net.conn[c].m_status = "connecting"
    THEN UdpOnClose([removeEvent(net, c) EXCEPT !.conn[c].m_status = "disconnected"], c)
    ELSE net

(* What a closed object still holds is never used, and forgotten here.       *)
onClose(net, c, why) ==
    LET known == IF net.conn[c].m_closed THEN net
                 ELSE [net EXCEPT !.conn[c] = [@ EXCEPT !.why = why, !.m_iovecList = <<>>,
                                                        !.written = <<>>, !.unfinished = 0]]
        kind == net.conn[c].kind
    IN  CASE kind = "accepted"  -> TcpOnClose(known, c)
          [] kind = "client"    -> TcpClientOnClose(known, c)
          [] kind = "udpserver" -> UdpOnClose(known, c)
          [] kind = "udpclient" -> UdpClientOnClose(known, c)

(* The loop was told that c has ended.                                       *)
Ended(net, c) == onClose(net, c, IF Gone(net, c) THEN "cause" ELSE "nothing")

-----------------------------------------------------------------------------
(* Sending. write takes what there is room for, and fails when there is none; *)
(* then it takes the error away, if that is why.                             *)
Numbered(first, n) == [i \in 1 .. n |-> first + i]

Written(net, c, bytes) ==
    [net EXCEPT !.conn[c].written = @ \o bytes, !.sock[c].unsent = @ + Len(bytes)]

Tried(net, c) == [net EXCEPT !.sock[c].taken = net.sock[c].error]

QueuedUnasked(net, c, blocks) == [net EXCEPT !.conn[c].m_iovecList = @ \o blocks]

Queued(net, c, blocks) ==
    enableWriting([net EXCEPT !.conn[c].m_iovecList = @ \o blocks], c, TRUE)

Asked(net, c, n) ==
    [net EXCEPT !.asks = @ - n, !.conn[c].asked = @ + n, !.conn[c].unfinished = @ + 1]

(* sendInLoop of a list of n nodes.                                          *)
SendList(net, c, n) ==
    Queued(Asked(net, c, n), c,
           [i \in 1 .. n |-> <<net.conn[c].asked + i>>])

(* sendInLoop of one block, up to its completion. A failed write returns -1  *)
(* as an unsigned number, and what is queued after a short one begins where  *)
(* the block begins.                                                         *)
SentData(net, c, n) ==
    LET data == Numbered(net.conn[c].asked, n)
        asked == Asked(net, c, n)
        took == Smaller(n, Space(net, c))
        rest == IF took = 0 THEN Append(data, Junk) ELSE SubSeq(data, 1, n - took)
    IN  IF net.conn[c].m_iovecList # <<>> THEN Queued(asked, c, <<data>>)
        ELSE IF took = n
        THEN Written([asked EXCEPT !.conn[c].unfinished = 0], c, data)
        ELSE LET wrote == IF took = 0 THEN Tried(asked, c)
                          ELSE Written(asked, c, SubSeq(data, 1, took))
             IN  Queued([wrote EXCEPT !.conn[c].short = TRUE], c, <<rest>>)

(* m_WriteCompleteCallback: the program may have more to send, a list or one *)
(* block, after which it waits.                                              *)
Completed(net, c) ==
    LET done == [net EXCEPT !.conn[c].unfinished = 0]
    IN  {done} \cup IF MayAsk(done, 1) THEN {SendList(done, c, 1), SentData(done, c, 1)} ELSE {}

(* A write that took the whole block completes at once.                      *)
SendData(net, c, n) ==
    LET sent == SentData(net, c, n)
    IN  IF sent.conn[c].m_iovecList = <<>> THEN Completed(sent, c) ELSE {sent}

UdpSendData(net, c) ==
    LET data == Numbered(net.conn[c].asked, 1)
        asked == [net EXCEPT !.asks = @ - 1, !.conn[c].asked = @ + 1]
    IN  IF net.conn[c].m_iovecList # <<>> THEN Queued(asked, c, <<data>>)
        ELSE IF Space(net, c) > 0 THEN Written(asked, c, data)
        ELSE Queued(Tried(asked, c), c, <<data>>)

UdpSendList(net, c) ==
    Queued([net EXCEPT !.asks = @ - 1, !.conn[c].asked = @ + 1], c, <<Numbered(net.conn[c].asked, 1)>>)

(* clientSend asks for a connection; the others write to what they have.     *)
Sends(net, c) ==
    IF net.conn[c].m_closed \/ ~MayAsk(net, 1) THEN {}
    ELSE IF Udp(net, c) THEN {UdpSendData(net, c), UdpSendList(net, c)}
    ELSE UNION {{SendList(net, c, n)} \cup SendData(net, c, n) : n \in {n \in 1 .. 2 : MayAsk(net, n)}}

(* A callback does nothing, answers, or closes a connection of this loop: its *)
(* own, or the one of a publisher it replaces.                               *)
Reactions(net, c) ==
    {net} \cup Sends(net, c)
          \cup {onClose(net, d, "cause") : d \in {d \in Conns : net.fd[d] # NoFd}}

-----------------------------------------------------------------------------
(* Reading.                                                                  *)
TcpOnReadOnce(net, c) ==
    LET read == [net EXCEPT !.sock[c].unread = 0]
    IN  IF net.conn[c].m_closed THEN {net} ELSE {Ended(a, c) : a \in Reactions(read, c)}

TcpOnRead(net, c) ==
    IF net.conn[c].m_closed THEN {net}
    ELSE IF net.sock[c].kind = "reset" THEN {Ended(net, c)}
    ELSE LET read == [net EXCEPT !.sock[c].unread = 0]
             answered == IF net.sock[c].unread > 0 THEN Reactions(read, c) ELSE {read}
         IN  {IF a.sock[c].fin THEN Ended(a, c) ELSE a : a \in answered}

UdpOnRead(net, c) ==
    IF net.conn[c].m_closed THEN {net}
    ELSE IF Pending(net.sock[c]) THEN {Ended(net, c)}
    ELSE LET read == [net EXCEPT !.sock[c].unread = 0]
         IN  IF net.sock[c].unread > 0 THEN Reactions(read, c) ELSE {read}

(* While connecting, any event means that the connection is there or failed. *)
Connected(net, c) ==
    LET now == [net EXCEPT !.conn[c].m_status = "connected", !.sock[c].error = FALSE]
    IN  IF net.sock[c].error THEN {Ended(net, c)} ELSE {now} \cup Sends(now, c)

onRead(net, c) ==
    IF Udp(net, c) THEN UdpOnRead(net, c)
    ELSE IF net.conn[c].kind = "client" /\ net.conn[c].m_status # "connected"
    THEN IF net.conn[c].m_status = "connecting" THEN Connected(net, c) ELSE {net}
    ELSE TcpOnRead(net, c)

-----------------------------------------------------------------------------
(* Writing. onWrite of TcpConnection calls writev until nothing is left, and *)
(* the loop does nothing else meanwhile: m_writing names whose turn it is.   *)
onWrite(net, c) ==
    IF net.conn[c].kind = "client" /\ net.conn[c].m_status # "connected"
    THEN IF net.conn[c].m_status = "connecting" THEN Connected(net, c) ELSE {net}
    ELSE IF net.conn[c].m_closed THEN {net}
    ELSE {[net EXCEPT !.writing = c]}

(* A turn of the loop that clears the list: a block that was written is      *)
(* erased, one that was written in part is cut.                              *)
EraseKeepingFront(now) ==
    IF now.ret = 0 THEN now
    ELSE IF Len(Head(now.blocks)) > now.ret THEN [now EXCEPT !.ret = 0]
    ELSE [blocks |-> Tail(now.blocks), ret |-> now.ret - Len(Head(now.blocks))]

Erase(now) ==
    IF now.ret = 0 THEN now
    ELSE LET front == Head(now.blocks)
         IN  IF Len(front) > now.ret
             THEN [blocks |-> <<SubSeq(front, now.ret + 1, Len(front))>> \o Tail(now.blocks),
                   ret |-> 0]
             ELSE [blocks |-> Tail(now.blocks), ret |-> now.ret - Len(front)]

(* What is left of the blocks when the first n bytes are gone.               *)
Rest(blocks, n) ==
    LET turn[i \in 0 .. Len(blocks)] ==
            IF i = 0 THEN [blocks |-> blocks, ret |-> n] ELSE Erase(turn[i - 1])
    IN  turn[Len(blocks)].blocks

writevSilently(net, c) ==
    LET list == net.conn[c].m_iovecList
        n == Smaller(Len(FlattenSeq(list)), Space(net, c))
        left == Rest(list, n)
        took == [Written(net, c, SubSeq(FlattenSeq(list), 1, n)) EXCEPT
                    !.conn[c].m_iovecList = left]
    IN  IF left = <<>> THEN {[enableWriting(took, c, FALSE) EXCEPT !.writing = None]} ELSE {took}

writev(net, c) ==
    LET list == net.conn[c].m_iovecList
        n == Smaller(Len(FlattenSeq(list)), Space(net, c))
        left == Rest(list, n)
        took == [Written(net, c, SubSeq(FlattenSeq(list), 1, n)) EXCEPT
                    !.conn[c].m_iovecList = left]
    IN  IF left = <<>> THEN Completed([enableWriting(took, c, FALSE) EXCEPT !.writing = None], c) ELSE {took}

(* UdpSocket::onWrite leaves when the kernel takes no more, and only then.   *)
UdpWriteStep(net, c) ==
    LET list == net.conn[c].m_iovecList
    IN  IF list = <<>> THEN Sends(net, c)
        ELSE IF Pending(net.sock[c]) THEN {[Ended(net, c) EXCEPT !.writing = None]}
        ELSE IF Space(net, c) = 0 THEN {[net EXCEPT !.writing = None]}
        ELSE {[Written(net, c, Head(list)) EXCEPT !.conn[c].m_iovecList = Tail(list)]}

-----------------------------------------------------------------------------
(* Acceptor and TcpServer.                                                   *)

(* A socket is added before it listens, and listens whether or not bind      *)
(* succeeded: on a port nobody knows when it did not. Without a descriptor   *)
(* the program ends.                                                         *)
open(net) ==
    LET closed == Close(net, Acceptor)
        fresh == addEvent(OpenSocket(closed, Acceptor, Socket("fresh")), Acceptor)
    IN  IF FreeFds(closed) = {} THEN [closed EXCEPT !.alive = FALSE]
        ELSE [fresh EXCEPT !.sock[Acceptor] = Socket("listening")]

(* Stop, then open again: who waited to be accepted is turned away.          *)
TurnedAway(net) ==
    [net EXCEPT !.backlog = <<>>,
                !.sock = [o \in DOMAIN @ |-> IF \E i \in DOMAIN net.backlog : net.backlog[i] = o
                                             THEN NoSocket ELSE @[o]]]
AcceptorOnClose(net) == TurnedAway(open(removeEvent(net, Acceptor)))

onAccept(net, c) ==
    addEvent([net EXCEPT !.m_connections = @ \cup {c}], c)

-----------------------------------------------------------------------------
(* Connecting, and opening UDP sockets. Without a descriptor all of them     *)
(* close. connect is refused, pending, or made at once: then the callback    *)
(* may send.                                                                 *)
ConnectInLoop(net, c, answer) ==
    LET opened == [OpenSocket(net, c, Socket("fresh")) EXCEPT !.conn[c].m_status = "connecting"]
        asking == enableWriting(addEvent(opened, c), c, TRUE)
    IN  IF FreeFds(net) = {} THEN {onClose(net, c, "cause")}
        ELSE CASE answer = "refused" -> {onClose(asking, c, "cause")}
               [] answer = "pending" -> {[asking EXCEPT !.sock[c] = Socket("connecting")]}
               [] answer = "made"    -> Connected([asking EXCEPT !.sock[c] = Socket("open")], c)

UdpOpen(net, c) ==
    IF FreeFds(net) = {} THEN onClose(net, c, "cause")
    ELSE LET opened == addEvent(OpenSocket(net, c, Socket("datagram")), c)
         IN  IF net.conn[c].kind = "udpclient"
             THEN [opened EXCEPT !.conn[c].m_status = "connecting"] ELSE opened

(* UdpServer::Stop.                                                          *)
UdpStop(net, c) == onClose(removeEvent(net, c), c, "cause")
=============================================================================

------------------------------ MODULE Network ------------------------------
(* One event loop with a TcpServer and other connections on it: the order in *)
(* which EventLoop::loop runs handlers, queued tasks and timeouts, while     *)
(* peers connect, send, read, close and reset, and other threads queue tasks. *)
(*                                                                           *)
(* A handler is one step, since it runs on the loop's thread and what the    *)
(* kernel adds meanwhile is seen by its next call; only accepting and        *)
(* writing, which repeat a system call, are cut.                             *)
EXTENDS TcpConnection

CONSTANT
    Programs   \* [kinds, ports, messages, posts, asks]: what the objects are, "none"
               \* where there is none, and bounds on the messages of peers, on the
               \* tasks of other threads and on the bytes that are sent

Kinds == {"none", "accepted", "client", "udpserver", "udpclient"}

ASSUME NetworkAssumption ==
    Programs \subseteq [kinds : [Conns -> Kinds], ports : SUBSET BOOLEAN,
                        messages : Nat, posts : Nat, asks : Nat]

VARIABLES
    net,        \* the loop, its sockets and its objects
    stage,      \* where loop() is
    batch,      \* m_epollEvents still to be looked at
    running     \* functionsTmp of RunCallbackFunctions

vars == <<net, stage, batch, running>>

Task(do, on) == [do |-> do, on |-> on]

(* How the program starts its server and the other objects, from another     *)
(* thread.                                                                   *)
FirstTasks(kinds) ==
    {Task("open", Acceptor) : c \in {c \in Conns : kinds[c] = "accepted"}} \cup
    {Task("connect", c) : c \in {c \in Conns : kinds[c] \notin {"accepted", "none"}}}

Started(p, port) ==
    [fd |-> [o \in Objects |-> NoFd],
     eventsMap |-> [f \in Fds |-> None],
     want |-> [o \in Objects \cup {Pipe} |-> {}],
     watched |-> {},
     ready |-> {},
     sock |-> [o \in Objects \cup {Pipe} |-> NoSocket],
     backlog |-> <<>>,
     pipe |-> 0,
     tasks |-> <<>>,
     conn |-> [c \in Conns |-> NewConnection(p.kinds[c])],
     m_connections |-> {},
     port |-> port,             \* bind succeeds
     alive |-> TRUE,            \* the process runs
     writing |-> None,          \* whose onWrite has not returned
     stray |-> {},              \* history: who got the event of another
     first |-> FirstTasks(p.kinds),
     came |-> {},               \* accepted connections that were made
     messages |-> p.messages,   \* bounds: what may still come
     posts |-> p.posts,
     asks |-> p.asks]

Init ==
    /\ \E p \in Programs : \E port \in p.ports : net = Started(p, port)
    /\ stage = "tasks" /\ batch = {} /\ running = <<>>

Free == net.alive /\ net.writing = None

-----------------------------------------------------------------------------
(* The loop.                                                                 *)
(* OnTimer may find a connection that had no traffic for 30 seconds; then    *)
(* the loop waits.                                                           *)
OnTimer(n) ==
    {n} \cup {onClose(n, c, "cause") :
                 c \in n.m_connections \ n.ready}

Waits == stage = "tasks" /\ running = <<>>

Wait ==
    /\ Free /\ Waits
    /\ \E n \in OnTimer(net) :
        /\ batch' = epoll_wait(n)
        /\ net' = [n EXCEPT !.ready = {}]
    /\ stage' = "dispatch"
    /\ UNCHANGED running

(* The handlers of one object for what was reported of a descriptor. The loop *)
(* keeps a reference into m_eventsMap: if onRead erased the entry, what      *)
(* onWrite is then called on is undefined.                                   *)
Handle(n, o, e) ==
    LET told == [n EXCEPT !.stray = IF e.of = o THEN @ ELSE @ \cup {o}]
        read == IF "IN" \in e.events THEN onRead(told, o) ELSE {told}
    IN  IF "ERR" \in e.events \/ ("HUP" \in e.events /\ "IN" \notin e.events)
        THEN {Ended(told, o)}
        ELSE IF "OUT" \notin e.events THEN read
        ELSE UNION {IF r.eventsMap[e.fd] = o THEN onWrite(r, o)
                    ELSE {r, [r EXCEPT !.alive = FALSE]} : r \in read}

Dispatch ==
    /\ Free /\ stage = "dispatch"
    /\ \E e \in batch :
        LET o == IF e.of = Pipe THEN Pipe ELSE net.eventsMap[e.fd]
        IN  /\ batch' = batch \ {e}
            /\ stage' = IF o = Acceptor /\ "IN" \in e.events /\ "ERR" \notin e.events
                         THEN "accept" ELSE stage
            /\ \/ o = Pipe /\ net' = ReadPipe(net)
               \/ o = None /\ UNCHANGED net
               \/ /\ o = Acceptor
                  /\ net' = IF "HUP" \in e.events /\ {"IN", "ERR"} \cap e.events = {}
                            THEN AcceptorOnClose(net) ELSE net
               \/ o \in Conns /\ net' \in Handle(net, o, e)
    /\ UNCHANGED running

(* Acceptor::onRead accepts until nobody waits.                              *)
Accept ==
    /\ Free /\ stage = "accept"
    /\ IF net.sock[Acceptor].kind = "listening" /\ net.backlog # <<>> /\ FreeFds(net) # {}
       THEN LET c == Head(net.backlog)
                taken == [OpenSocket(net, c, net.sock[c]) EXCEPT !.backlog = Tail(@)]
            IN  net' = onAccept(taken, c) /\ UNCHANGED stage
       ELSE /\ stage' = "dispatch"
            /\ net' = IF net.sock[Acceptor].kind = "listening" /\ net.backlog = <<>>
                      THEN net ELSE AcceptorOnClose(net)
    /\ UNCHANGED <<batch, running>>

(* One turn of TcpConnection::onWrite or UdpSocket::onWrite. With no room the *)
(* turn changes nothing; after a reset one ends the process with SIGPIPE.    *)
Write ==
    /\ net.alive /\ net.writing # None
    /\ LET c == net.writing
       IN  net' \in IF Udp(net, c) THEN UdpWriteStep(net, c)
                    ELSE IF net.sock[c].kind = "reset" THEN {[net EXCEPT !.alive = FALSE]}
                    ELSE writev(net, c)
    /\ net' # net
    /\ UNCHANGED <<stage, batch, running>>

RunCallbackFunctions ==
    /\ Free /\ stage = "dispatch" /\ batch = {}
    /\ stage' = "tasks"
    /\ running' = net.tasks
    /\ net' = [net EXCEPT !.tasks = <<>>]
    /\ UNCHANGED batch

Done(n, task) ==
    LET c == task.on
    IN  CASE task.do = "open" -> {open(n)}
          [] task.do = "close" -> {onClose(n, c, "cause")}
          [] task.do = "stop" -> {UdpStop(n, c)}
          [] task.do = "send" -> {n} \cup Sends(n, c)
          [] task.do = "connect" ->
                IF Udp(n, c) THEN {UdpOpen(n, c)}
                ELSE UNION {ConnectInLoop(n, c, answer) : answer \in {"refused", "pending", "made"}}

RunTask ==
    /\ Free /\ stage = "tasks" /\ running # <<>>
    /\ net' \in Done(net, Head(running))
    /\ running' = Tail(running)
    /\ UNCHANGED <<stage, batch>>

Loop == Wait \/ Dispatch \/ Accept \/ Write \/ RunCallbackFunctions \/ RunTask

-----------------------------------------------------------------------------
(* Other threads.                                                            *)
Outside == net.alive /\ UNCHANGED <<stage, batch, running>>

Start ==
    /\ Outside
    /\ \E t \in net.first :
        net' = runInLoop([net EXCEPT !.first = @ \ {t}], t)

(* clientSend does nothing before the connection is there.                   *)
Post ==
    /\ Outside /\ net.posts > 0
    /\ \E c \in Conns, do \in {"close", "send", "stop"} :
        /\ net.fd[c] # NoFd
        /\ do = "stop" => net.conn[c].kind = "udpserver"
        /\ do = "send" /\ net.conn[c].kind = "client" => net.conn[c].m_status = "connected"
        /\ net' = runInLoop([net EXCEPT !.posts = @ - 1], Task(do, c))

(* TcpServer::Stop does not go through the queue.                            *)
Stop ==
    /\ Outside /\ net.posts > 0 /\ net.fd[Acceptor] # NoFd
    /\ net' = removeEvent([net EXCEPT !.posts = @ - 1], Acceptor)

-----------------------------------------------------------------------------
(* Peers and the kernel.                                                     *)
Connect ==
    /\ Outside /\ net.port /\ net.sock[Acceptor].kind = "listening"
    /\ \E c \in Conns :
        /\ net.conn[c].kind = "accepted" /\ c \notin net.came
        /\ \A d \in Conns : net.conn[d].kind = "accepted" /\ d < c => d \in net.came
        /\ net' = Happened([net EXCEPT !.came = @ \cup {c}, !.backlog = Append(@, c),
                                       !.sock[c] = Socket("open")], Acceptor, {"IN"})

PeerSends(c) ==
    /\ Outside /\ net.messages > 0
    /\ net.sock[c].kind \in {"open", "datagram"}
    /\ ~net.sock[c].fin /\ net.sock[c].unread = 0
    /\ net' = Happened([net EXCEPT !.messages = @ - 1, !.sock[c].unread = 1], c, {"IN"})

PeerReads(c) ==
    /\ Outside /\ net.sock[c].kind \in {"open", "datagram"} /\ net.sock[c].unsent > 0
    /\ net' = Happened([net EXCEPT !.sock[c].unsent = @ - 1], c, {"OUT"})

(* A change of the connection's state wakes whatever it waits for.           *)
PeerCloses(c) ==
    /\ Outside /\ net.sock[c].kind = "open" /\ ~net.sock[c].fin
    /\ net' = Happened([net EXCEPT !.sock[c].fin = TRUE], c, {"HUP"})

PeerResets(c) ==
    /\ Outside /\ net.sock[c].kind \in {"open", "connecting"}
    /\ net' = Happened([net EXCEPT !.sock[c] = [Socket("reset") EXCEPT !.error = TRUE]],
                       c, {"HUP"})

ConnectionMade(c) ==
    /\ Outside /\ net.sock[c].kind = "connecting"
    /\ net' = Happened([net EXCEPT !.sock[c] = Socket("open")], c, {"HUP"})

PortUnreachable(c) ==
    /\ Outside /\ net.conn[c].kind = "udpclient" /\ net.sock[c].kind = "datagram"
    /\ Len(net.conn[c].written) > 0 /\ ~Pending(net.sock[c])
    /\ net' = Happened([net EXCEPT !.sock[c].error = TRUE, !.sock[c].taken = FALSE], c, {"ERR"})

Environment ==
    \/ Start \/ Post \/ Stop \/ Connect
    \/ \E c \in Conns : \/ PeerSends(c) \/ PeerReads(c) \/ PeerCloses(c) \/ PeerResets(c)
                        \/ ConnectionMade(c) \/ PortUnreachable(c)

Next == Loop \/ Environment

Spec == Init /\ [][Next]_vars

-----------------------------------------------------------------------------
(* Descriptors of a UdpServer that closed without removing its event.        *)
UdpLeft ==
    {f \in Fds : LET o == net.eventsMap[f]
                 IN  o \in Conns /\ net.conn[o].kind = "udpserver" /\ net.conn[o].m_closed}

(* A connection of the server is open and is the one the loop finds for its  *)
(* descriptor, whatever descriptors were closed and given out again before.  *)
(* The exception is a descriptor a UdpServer had: its entry stays, addEvent  *)
(* refuses the new connection, and nothing is ever read from it              *)
(* (TcpServer::onAccet, onConnectionClose, EventLoop::addEvent).             *)
ConnectionsWatched ==
    \A c \in net.m_connections :
        /\ net.fd[c] # NoFd /\ ~net.conn[c].m_closed
        /\ \/ c \in net.watched /\ net.eventsMap[net.fd[c]] = c
           \/ net.fd[c] \in UdpLeft

Waiting(o) == o \in net.ready

(* Edges are reported once: whenever the loop goes to sleep, epoll still has *)
(* to report every connection that has bytes to read, that has ended, or     *)
(* that has bytes to write and room for them (TcpConnection::onRead, onWrite, *)
(* sendInLoop, TcpClient::updateConnectStatus).                              *)
NothingUnnoticed ==
    Waits /\ net.writing = None =>
        \A c \in net.watched \cap Conns :
            /\ net.sock[c].unread > 0 \/ Owed(net, c) => Waiting(c)
            /\ net.conn[c].m_iovecList # <<>> =>
                  "OUT" \in net.want[c] /\ (Space(net, c) > 0 => Waiting(c))

(* The loop does not sleep its second out while a task is queued, however    *)
(* many wakeups the pipe holds that were never read (EventLoop::wakeup,      *)
(* PipeEvent::onRead, RunCallbackFunctions).                                 *)
WokenForTasks == Waits /\ net.tasks # <<>> => Waiting(Pipe)

(* What the kernel is given is what the program asked to send, in order and  *)
(* once, across lists, direct writes, short writes and turns of onWrite -    *)
(* unless a direct write was cut short, after which sendInLoop queues the    *)
(* wrong bytes (TcpConnection::sendInLoop, onWrite).                         *)
BytesInOrderUnlessShort ==
    \A c \in Conns : ~net.conn[c].short =>
        /\ \A i \in DOMAIN net.conn[c].written : net.conn[c].written[i] = i
        /\ net.fd[c] # NoFd /\ ~net.conn[c].m_closed =>
              Len(net.conn[c].written) + Len(FlattenSeq(net.conn[c].m_iovecList))
                  = net.conn[c].asked

(* A program that waits for m_WriteCompleteCallback, as RtmpContext does,    *)
(* has bytes in the queue of an open connection: onWrite will come to them   *)
(* and call it.                                                              *)
CompletionOwed ==
    \A c \in Conns : net.conn[c].unfinished > 0 => net.conn[c].m_iovecList # <<>>

(* A connection closes because its peer ended it, the program asked, or it   *)
(* was idle - unless the loop gave it an event of the connection that had    *)
(* its descriptor when epoll_wait returned (EventLoop::loop).                *)
ClosedForCauseUnlessStray ==
    \A c \in Conns : net.conn[c].why = "nothing" => c \in net.stray
=============================================================================

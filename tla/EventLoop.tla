----------------------------- MODULE EventLoop -----------------------------
(* network::EventLoop and network::Event over Linux's epoll: descriptors,    *)
(* m_eventsMap, what an event asks epoll for, and the edge triggered set of  *)
(* sockets that have something to report, in whatever order the kernel will. *)
(* Sockets belong to the kernel and are modelled from the calls the code     *)
(* makes.                                                                    *)
(*                                                                           *)
(* A state is a record `net`; an operation is a function from such a record  *)
(* to the next one, since one handler of the loop performs several.          *)
EXTENDS Naturals, Sequences, FiniteSets

CONSTANTS
    Acceptor,   \* the TcpServer's Acceptor
    Pipe,       \* the loop's PipeEvent
    Conns,      \* TcpConnection, TcpClient, UdpServer and UdpClient objects
    Fds,        \* the descriptors a process may have for them
    PipeRoom,   \* wakeups the pipe can hold
    Room,       \* what the kernel takes to send for one socket
    None

ASSUME EventLoopAssumption ==
    /\ Conns \subseteq Nat /\ Fds \subseteq Nat \ {0}
    /\ PipeRoom \in Nat \ {0} /\ Room \in Nat \ {0}
    /\ Acceptor # Pipe /\ {Acceptor, Pipe} \cap Conns = {}
    /\ None \notin Conns \cup {Acceptor, Pipe}

Objects == Conns \cup {Acceptor}

NoFd == 0   \* -1 in the code

-----------------------------------------------------------------------------
(* The kernel. A stream socket is "fresh" before connect or listen,          *)
(* "connecting", "open", or "reset" by its peer or by a connection that was  *)
(* refused; fin says that the peer has closed, error that SO_ERROR was set,  *)
(* and taken that a call which failed has taken the error away.              *)
NoSocket == [kind |-> "none", unread |-> 0, unsent |-> 0,
             fin |-> FALSE, error |-> FALSE, taken |-> FALSE]

Socket(kind) == [NoSocket EXCEPT !.kind = kind]

Pending(s) == s.error /\ ~s.taken

When(condition, flag) == IF condition THEN {flag} ELSE {}

(* What poll says of a socket; nobody asks for EPOLLRDHUP.                   *)
Mask(net, o) ==
    LET s == net.sock[o]
    IN  IF o = Pipe THEN When(net.pipe > 0, "IN")
        ELSE CASE s.kind = "fresh" -> {"OUT", "HUP"}
               [] s.kind = "listening" -> When(net.backlog # <<>>, "IN")
               [] s.kind \in {"open", "datagram"} ->
                     When(s.unread > 0 \/ s.fin, "IN") \cup When(s.unsent < Room, "OUT")
                         \cup When(Pending(s), "ERR")
               [] s.kind = "reset" -> {"IN", "OUT", "HUP"} \cup When(Pending(s), "ERR")
               [] OTHER -> {}

Reported(net, o) == Mask(net, o) \cap (net.want[o] \cup {"ERR", "HUP"})

(* Something of keys happened on o: if o asked for any of it, o joins those  *)
(* epoll_wait will look at.                                                  *)
Happened(net, o, keys) ==
    IF o \in net.watched /\ keys \cap (net.want[o] \cup {"ERR", "HUP"}) # {}
    THEN [net EXCEPT !.ready = @ \cup {o}]
    ELSE net

(* EPOLL_CTL_ADD and EPOLL_CTL_MOD look at the socket at once.               *)
Polled(net, o) == Happened(net, o, Mask(net, o))

Forgotten(net, o) ==
    [net EXCEPT !.watched = @ \ {o}, !.ready = @ \ {o}]

FreeFds(net) == Fds \ {net.fd[o] : o \in Objects}

(* socket() and accept4() return the lowest descriptor that is free.         *)
OpenSocket(net, o, s) ==
    [net EXCEPT !.fd[o] = CHOOSE f \in FreeFds(net) : \A g \in FreeFds(net) : f <= g,
                !.sock[o] = s]

Close(net, o) ==
    IF net.fd[o] = NoFd THEN net
    ELSE [Forgotten(net, o) EXCEPT !.fd[o] = NoFd, !.sock[o] = NoSocket]

-----------------------------------------------------------------------------
(* Descriptor -1 is never in m_eventsMap.                                    *)
Mapped(net, o) == net.fd[o] # NoFd /\ net.eventsMap[net.fd[o]] # None

addEvent(net, o) ==
    IF Mapped(net, o) THEN net
    ELSE Polled([net EXCEPT !.eventsMap[net.fd[o]] = o, !.want[o] = {"IN"},
                            !.watched = @ \cup {o}], o)

(* By descriptor: the entry goes whoever's it is.                            *)
removeEvent(net, o) ==
    IF Mapped(net, o) THEN [Forgotten(net, o) EXCEPT !.eventsMap[net.fd[o]] = None]
    ELSE net

enableWriting(net, o, enable) ==
    IF Mapped(net, o)
    THEN Polled([net EXCEPT !.want[o] = IF enable THEN @ \cup {"OUT"} ELSE @ \ {"OUT"}], o)
    ELSE net

-----------------------------------------------------------------------------
(* The loop's pipe, made by the first wakeup, has descriptors of its own. A  *)
(* full pipe takes nothing, and then nothing happens on it.                  *)
wakeup(net) ==
    LET made == [net EXCEPT !.want[Pipe] = {"IN"}, !.watched = @ \cup {Pipe}]
    IN  IF net.pipe = PipeRoom THEN net
        ELSE Happened([made EXCEPT !.pipe = @ + 1], Pipe, {"IN"})

ReadPipeNothing(net) == net

(* PipeEvent::onRead takes one wakeup, however many there are.               *)
ReadPipe(net) == [net EXCEPT !.pipe = IF @ > 0 THEN @ - 1 ELSE 0]

(* runInLoop of another thread.                                              *)
runInLoop(net, task) == wakeup([net EXCEPT !.tasks = Append(@, task)])

(* What one call of epoll_wait returns: descriptors and what is reported of  *)
(* each. `of` is who it is about, which the kernel does not tell.            *)
epoll_wait(net) ==
    {[fd |-> IF o = Pipe THEN NoFd ELSE net.fd[o], of |-> o, events |-> Reported(net, o)] :
        o \in {o \in net.ready : Reported(net, o) # {}}}
=============================================================================

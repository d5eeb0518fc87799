---------------------------- MODULE NetworkProofs ----------------------------
(* Proofs about Network: the inductive invariant LoopInv, that every step of *)
(* the loop, of its handlers, of other threads, peers and the kernel keeps   *)
(* it, and the six safety properties that follow. Then those about           *)
(* PlayerPump, the wakeups of one connection through such a loop.            *)
EXTENDS Network, PlayerPump, SequenceTheorems, WellFoundedInduction,
        NaturalsInduction, TLAPS

-----------------------------------------------------------------------------
(* The invariant.                                                            *)

(* Lists of blocks, as m_iovecList and m_bufferList hold them.               *)
Lists(S) == Seq(Seq(S))

(* What poll may report.                                                     *)
Flags == {"IN", "OUT", "ERR", "HUP"}

(* The values the variable net takes: its sockets, its connections, its      *)
(* tasks and the whole record.                                               *)
Sockets == [kind : {"none", "fresh", "listening", "connecting", "open", "datagram", "reset"},
            unread : Nat, unsent : Nat, fin : BOOLEAN, error : BOOLEAN, taken : BOOLEAN]

Connections == [kind : Kinds, m_closed : BOOLEAN,
                m_status : {"init", "connecting", "connected", "disconnected"},
                m_iovecList : Lists(Nat), asked : Nat, written : Seq(Nat),
                unfinished : Nat, short : BOOLEAN, why : {"open", "cause", "nothing"}]

Tasks == [do : {"open", "connect", "close", "stop", "send"}, on : Objects]

Nets == [fd : [Objects -> Fds \cup {NoFd}],
         eventsMap : [Fds -> Objects \cup {None}],
         want : [Objects \cup {Pipe} -> SUBSET {"IN", "OUT"}],
         watched : SUBSET (Objects \cup {Pipe}),
         ready : SUBSET (Objects \cup {Pipe}),
         sock : [Objects \cup {Pipe} -> Sockets],
         backlog : Seq(Conns),
         pipe : Nat,
         tasks : Seq(Tasks),
         conn : [Conns -> Connections],
         m_connections : SUBSET Conns,
         port : BOOLEAN, alive : BOOLEAN,
         writing : Conns \cup {None},
         stray : SUBSET Conns,
         first : SUBSET Tasks,
         came : SUBSET Conns,
         messages : Nat, posts : Nat, asks : Nat]

(* One connection: its flags, its bytes and its socket.                      *)
Fresh(n, c) ==
  /\ n.conn[c].asked = 0 /\ n.conn[c].m_iovecList = <<>> /\ n.conn[c].written = <<>>
  /\ n.conn[c].unfinished = 0 /\ ~n.conn[c].short /\ n.conn[c].m_status = "init"

(* The bytes 1, 2, ..., k.                                                   *)
Numbers(k) == [i \in 1 .. k |-> i]

(* Taken and queued bytes are what was asked, in order, unless a direct      *)
(* write was cut short; a completion that is awaited has bytes ahead of it;  *)
(* a datagram is one number.                                                 *)
BytesOK(k) ==
  /\ k.unfinished > 0 => k.m_iovecList # <<>>
  /\ k.kind \in {"udpserver", "udpclient"} =>
        k.unfinished = 0 /\ \A i \in 1 .. Len(k.m_iovecList) : Len(k.m_iovecList[i]) = 1
  /\ k.m_closed => k.written = <<>> /\ k.m_iovecList = <<>>
  /\ ~k.short /\ ~k.m_closed => k.written \o FlattenSeq(k.m_iovecList) = Numbers(k.asked)

BytesInv(n, c) == BytesOK(n.conn[c])

(* A connection without a descriptor has closed or was never started; a      *)
(* started one has a socket, and a client that still connects has sent       *)
(* nothing and waits for EPOLLOUT.                                           *)
StatusInv(n, c) ==
  /\ n.conn[c].why = "nothing" => c \in n.stray
  /\ n.conn[c].m_closed => n.fd[c] = NoFd /\ n.conn[c].kind # "none"
  /\ n.fd[c] = NoFd /\ ~n.conn[c].m_closed => Fresh(n, c)
  /\ n.fd[c] # NoFd => /\ n.conn[c].kind # "none" /\ n.sock[c].kind # "none"
                       /\ n.conn[c].kind = "client" => n.conn[c].m_status \in {"connecting", "connected"}
                       /\ n.conn[c].kind = "udpclient" => n.conn[c].m_status = "connecting"
  /\ n.fd[c] # NoFd /\ n.conn[c].kind = "client" /\ n.conn[c].m_status = "connecting" =>
        n.sock[c].unsent = 0 /\ n.conn[c].m_iovecList = <<>> /\ "OUT" \in n.want[c]

(* The kernel's side of one connection.                                      *)
SocketInv(n, c) ==
  /\ n.sock[c].kind \notin {"fresh", "listening"}
  /\ n.sock[c].unsent <= Room
  /\ n.sock[c].unread > 0 => n.sock[c].kind \in {"open", "datagram"}
  /\ n.sock[c].fin => n.sock[c].kind = "open"
  /\ n.sock[c].error => n.sock[c].kind \in {"reset", "datagram"}
  /\ n.sock[c].kind = "reset" => n.sock[c].error
  /\ n.sock[c].taken => n.sock[c].error
  /\ n.sock[c].kind = "datagram" => Udp(n, c)
  /\ Udp(n, c) => n.sock[c].kind \in {"none", "datagram"}

(* Descriptors, the map of events and what epoll watches.                    *)
Left(n, o) == o \in Conns /\ n.conn[o].kind = "udpserver" /\ n.conn[o].m_closed

(* No descriptor belongs to two objects; an entry of m_eventsMap names the   *)
(* owner of the descriptor or a UdpServer that left it behind; what epoll    *)
(* watches is found again in the map.                                        *)
MapInv(n) ==
  /\ \A o, p \in Objects : n.fd[o] = n.fd[p] /\ n.fd[o] # NoFd => o = p
  /\ \A f \in Fds : n.eventsMap[f] # None => n.fd[n.eventsMap[f]] = f \/ Left(n, n.eventsMap[f])
  /\ \A o \in Objects : o \in n.watched =>
        n.fd[o] # NoFd /\ n.eventsMap[n.fd[o]] = o /\ "IN" \in n.want[o]
  /\ n.ready \subseteq n.watched

(* The connections of the server and those that wait to be accepted.         *)
ServerInv(n) ==
  /\ \A c \in n.m_connections :
        /\ n.conn[c].kind = "accepted" /\ n.fd[c] # NoFd
        /\ c \in n.watched \/ Left(n, n.eventsMap[n.fd[c]])
  /\ \A c \in Conns : n.conn[c].kind = "accepted" /\ c \notin n.came =>
        n.fd[c] = NoFd /\ ~n.conn[c].m_closed
  /\ \A i \in 1 .. Len(n.backlog) :
        /\ n.conn[n.backlog[i]].kind = "accepted" /\ n.backlog[i] \in n.came
        /\ n.fd[n.backlog[i]] = NoFd /\ ~n.conn[n.backlog[i]].m_closed
        /\ n.sock[n.backlog[i]].kind # "none"
        /\ \A j \in 1 .. Len(n.backlog) : n.backlog[i] = n.backlog[j] => i = j

(* The connection whose onWrite has not returned is open.                    *)
WritingInv(n) ==
  n.writing # None =>
    /\ ~n.conn[n.writing].m_closed /\ n.fd[n.writing] # NoFd
    /\ n.conn[n.writing].kind = "client" => n.conn[n.writing].m_status = "connected"

(* What holds of the loop's state at every moment.                           *)
Core(n) ==
  /\ n \in Nets
  /\ \A c \in Conns : BytesInv(n, c) /\ StatusInv(n, c) /\ SocketInv(n, c)
  /\ MapInv(n) /\ ServerInv(n)

(* What the loop was told and has not looked at.                             *)
Events == [fd : Fds \cup {NoFd}, of : Objects \cup {Pipe}, events : SUBSET Flags]

(* An event that epoll_wait returned is about the owner of the descriptor,   *)
(* or that owner has closed since; it reports an end only when there was     *)
(* one.                                                                      *)
BatchInv(n, b) ==
  /\ b \subseteq Events
  /\ \A e \in b :
        /\ e.of # Pipe => e.fd \in Fds
        /\ e.of \in Conns => 
             /\ n.fd[e.of] = e.fd \/ n.conn[e.of].m_closed
             /\ "ERR" \in e.events => Gone(n, e.of) \/ n.conn[e.of].m_closed
             /\ "HUP" \in e.events => "IN" \in e.events
             /\ ("IN" \in e.events /\ "ERR" \notin e.events /\ "OUT" \notin e.events
                /\ n.conn[e.of].kind = "client") =>
                   n.conn[e.of].m_status # "connecting" \/ n.conn[e.of].m_closed

(* Something to read or an end of c is still to be reported, or in the       *)
(* batch.                                                                    *)
NoticedIn(n, b, c) ==
  n.sock[c].unread > 0 \/ Owed(n, c) =>
    \/ c \in n.ready
    \/ \E e \in b : e.of = c /\ ("IN" \in e.events \/ "ERR" \in e.events)
    \/ n.writing = c /\ ~Udp(n, c)

(* Bytes that c has queued and has room for are still to be reported, or in  *)
(* the batch, or c is writing.                                               *)
NoticedOut(n, b, c) ==
  n.conn[c].m_iovecList # <<>> =>
    /\ "OUT" \in n.want[c]
    /\ Space(n, c) > 0 => \/ c \in n.ready
                          \/ \E e \in b : e.of = c /\ "OUT" \in e.events
                          \/ n.writing = c

Noticed(n, b) == \A c \in Conns : c \in n.watched => NoticedIn(n, b, c) /\ NoticedOut(n, b, c)

(* What is queued: objects are started once.                                 *)
Starts(t) == t.do \in {"open", "connect"}

(* A task finds its object in the state that its handler expects.            *)
TaskOK(n, t) ==
  /\ t \in Tasks
  /\ t.do = "open" <=> t.on = Acceptor
  /\ Starts(t) => n.fd[t.on] = NoFd
  /\ t.do = "connect" => ~n.conn[t.on].m_closed /\ n.conn[t.on].kind \notin {"none", "accepted"}
  /\ ~Starts(t) => n.fd[t.on] # NoFd \/ n.conn[t.on].m_closed
  /\ t.do = "stop" => n.conn[t.on].kind = "udpserver"
  /\ t.do = "send" /\ n.conn[t.on].kind = "client" => n.conn[t.on].m_status = "connected" \/ n.conn[t.on].m_closed

(* Every task is sound, and each object is started by one task at most.      *)
TasksInv(n, q) ==
  /\ q \in Seq(Tasks)
  /\ \A t \in n.first : Starts(t) /\ TaskOK(n, t) /\ \A i \in 1 .. Len(q) : q[i] # t
  /\ \A i \in 1 .. Len(q) : TaskOK(n, q[i]) /\ \A j \in 1 .. Len(q) : Starts(q[i]) /\ q[i] = q[j] => i = j

(* Once a task is queued the pipe is watched; a full pipe has an event to    *)
(* come; and when the loop is about to wait with a task queued, the pipe is  *)
(* among those epoll has to report.                                          *)
WakeInv(n, b, g) ==
  /\ n.pipe \in 0 .. PipeRoom
  /\ n.pipe > 0 \/ n.tasks # <<>> => Pipe \in n.watched /\ "IN" \in n.want[Pipe]
  /\ n.pipe = PipeRoom => Pipe \in n.ready \/ \E e \in b : e.of = Pipe
  /\ g = "tasks" => b = {} /\ (n.tasks # <<>> => Pipe \in n.ready)

(* What each stage of the loop may assume.                                   *)
StageInv(n, g, r) ==
  /\ g \in {"tasks", "dispatch", "accept"}
  /\ r \in Seq(Tasks) /\ (g # "tasks" => r = <<>>)
  /\ g = "accept" /\ n.alive => n.fd[Acceptor] # NoFd
  /\ n.writing # None => g = "dispatch"

(* The inductive invariant of the loop.                                      *)
LoopInv ==
  /\ Core(net) /\ WritingInv(net) /\ BatchInv(net, batch) /\ Noticed(net, batch)
  /\ TasksInv(net, running \o net.tasks) /\ WakeInv(net, batch, stage)
  /\ StageInv(net, stage, running)

-----------------------------------------------------------------------------
(* Induction over the numbers, sequences, and lists of blocks.               *)

(* A set of numbers that holds 0 and, with each number, the next one holds   *)
(* them all.                                                                 *)
LEMMA Counted ==
  ASSUME NEW T, 0 \in T, \A n \in Nat : n \in T => n + 1 \in T
  PROVE  \A n \in Nat : n \in T
<1> DEFINE R == OpToRel(<, Nat)
           U == Nat \ T
<1>1. IsWellFoundedOn(R, Nat)
  BY NatLessThanWellFounded, Zenon
<1>2. \A x, y \in Nat : x < y => <<x, y>> \in R
  BY DEF OpToRel
<1> HIDE DEF R
<1> SUFFICES ASSUME U # {} PROVE FALSE
  OBVIOUS
<1>3. PICK m \in U : \A y \in U : ~ (<<y, m>> \in R)
  BY <1>1, WFMin, Zenon
<1>4. m # 0 /\ m - 1 \in Nat /\ m - 1 < m
  OBVIOUS
<1>5. m - 1 \in T
  BY <1>2, <1>3, <1>4, Zenon
<1> QED
  BY <1>4, <1>5

(* Facts about sequences and lists of blocks.                                *)
LEMMA Associates ==
  ASSUME NEW S, NEW x \in Seq(S), NEW y \in Seq(S), NEW z \in Seq(S)
  PROVE  (x \o y) \o z = x \o (y \o z)
  OBVIOUS

(* A sequence that is not empty ends in a last element.                      *)
LEMMA LastApart ==
  ASSUME NEW S, NEW s \in Seq(S), s # <<>>
  PROVE  \E v \in Seq(S), b \in S : s = Append(v, b) /\ Len(v) = Len(s) - 1
<1>1. PICK v \in Seq(S), b \in S : s = Append(v, b)
  BY SequenceEmptyOrAppend
<1> QED
  BY <1>1

(* So does a list of blocks.                                                 *)
LEMMA ListApart ==
  ASSUME NEW S, NEW s \in Lists(S), Len(s) > 0
  PROVE  \E v \in Lists(S), b \in Seq(S) : s = Append(v, b) /\ Len(v) = Len(s) - 1
<1>1. s \in Seq(Seq(S)) /\ s # <<>>
  BY DEF Lists
<1> QED
  BY <1>1, LastApart DEF Lists

(* What a list of blocks is made of.                                         *)
LEMMA ListType ==
  ASSUME NEW S, NEW s \in Lists(S)
  PROVE  /\ Len(s) \in Nat /\ (Len(s) = 0 <=> s = <<>>) /\ <<>> \in Lists(S)
         /\ \A i \in 1 .. Len(s) : s[i] \in Seq(S)
         /\ s # <<>> => /\ Head(s) = s[1] /\ Head(s) \in Seq(S)
                        /\ Tail(s) \in Lists(S) /\ Len(Tail(s)) = Len(s) - 1
<1> USE DEF Lists
<1>2. s # <<>> => /\ Head(s) = s[1] /\ Head(s) \in Seq(S)
                  /\ Tail(s) \in Lists(S) /\ Len(Tail(s)) = Len(s) - 1
  OBVIOUS
<1>3. /\ Len(s) \in Nat /\ (Len(s) = 0 <=> s = <<>>) /\ <<>> \in Lists(S)
      /\ \A i \in 1 .. Len(s) : s[i] \in Seq(S)
  OBVIOUS
<1> QED BY <1>2, <1>3

(* A block is added to a list.                                               *)
LEMMA ListAppend ==
  ASSUME NEW S, NEW s \in Lists(S), NEW b \in Seq(S)
  PROVE  /\ Append(s, b) \in Lists(S)
         /\ Len(Append(s, b)) = Len(s) + 1
         /\ Append(s, b)[Len(s) + 1] = b
         /\ \A i \in 1 .. Len(s) : Append(s, b)[i] = s[i]
<1>1. s \in Seq(Seq(S))
  BY DEF Lists
<1> QED
  BY <1>1, AppendProperties DEF Lists

(* f[i] is the concatenation of the first i blocks of s: the function that   *)
(* FlattenSeq chooses.                                                       *)
Flattening(s, f) ==
  f = [i \in 1 .. Len(s) |-> IF i = 1 THEN s[i] ELSE f[i - 1] \o s[i]]

(* There is such a function, by counting up the blocks.                      *)
LEMMA FlatteningExists ==
  ASSUME NEW S, NEW s \in Lists(S), s # <<>>
  PROVE  \E f : Flattening(s, f)
<1> DEFINE Up(n, g) == g = [i \in 1 .. n |-> IF i = 1 THEN s[i] ELSE g[i - 1] \o s[i]]
           T == {n \in Nat : \E g : Up(n, g)}
<1>1. 0 \in T
  <2> DEFINE g == [i \in {} |-> 0]
  <2>1. Up(0, g)
    OBVIOUS
  <2> QED
    BY <2>1, Zenon
<1>2. ASSUME NEW n \in Nat, n \in T PROVE n + 1 \in T
  <2>1. PICK g : Up(n, g)
    BY <1>2, Zenon
  <2> DEFINE h == [i \in 1 .. n + 1 |-> IF i = n + 1 THEN IF n + 1 = 1 THEN s[n + 1] ELSE g[n] \o s[n + 1]
                                        ELSE g[i]]
  <2>2. \A i \in 1 .. n : g[i] = IF i = 1 THEN s[i] ELSE g[i - 1] \o s[i]
    BY <2>1, Zenon
  <2>3. \A i \in 1 .. n : h[i] = g[i]
    OBVIOUS
  <2>4. \A i \in 1 .. n + 1 : h[i] = IF i = 1 THEN s[i] ELSE h[i - 1] \o s[i]
    <3> TAKE i \in 1 .. n + 1
    <3>1. CASE i = n + 1
      <4>1. n # 0 => h[i - 1] = g[n]
        BY <3>1, <2>3
      <4> QED BY <3>1, <4>1
    <3>2. CASE i # n + 1
      <4>1. i \in 1 .. n /\ (i # 1 => i - 1 \in 1 .. n)
        BY <3>2
      <4> QED BY <4>1, <2>2, <2>3
    <3> QED BY <3>1, <3>2
  <2>5. h = [i \in 1 .. n + 1 |-> h[i]]
    OBVIOUS
  <2> HIDE DEF h
  <2>6. Up(n + 1, h)
    BY <2>4, <2>5, Zenon
  <2>7. n + 1 \in Nat /\ \E f : Up(n + 1, f)
    <3> HIDE DEF Up
    <3> QED BY <2>6
  <2> QED
    BY <2>7, Zenon
<1> HIDE DEF T
<1>3. Len(s) \in T
  BY <1>1, <1>2, Counted
<1> QED
  BY <1>3, Zenon DEF T, Flattening

(* FlattenSeq returns its last value.                                        *)
LEMMA FlattenIs ==
  ASSUME NEW S, NEW s \in Lists(S), s # <<>>
  PROVE  \E f : Flattening(s, f) /\ FlattenSeq(s) = f[Len(s)]
<1> DEFINE flatten[i \in 1 .. Len(s)] == IF i = 1 THEN s[i] ELSE flatten[i - 1] \o s[i]
<1>1. FlattenSeq(s) = flatten[Len(s)]
  BY DEF FlattenSeq
<1>2. flatten = CHOOSE f : Flattening(s, f)
  BY Zenon DEF Flattening
<1>3. Flattening(s, flatten)
  BY <1>2, FlatteningExists, Zenon
<1> QED BY <1>1, <1>3, Zenon

(* What it is at each block.                                                 *)
LEMMA FlatteningAt ==
  ASSUME NEW s, NEW f, Flattening(s, f), NEW i \in 1 .. Len(s)
  PROVE  f[i] = IF i = 1 THEN s[i] ELSE f[i - 1] \o s[i]
  BY Zenon DEF Flattening

(* On a common prefix of two lists the functions agree.                      *)
LEMMA FlattenAgrees ==
  ASSUME NEW S, NEW s \in Lists(S), NEW t \in Lists(S), Len(s) <= Len(t),
         \A i \in 1 .. Len(s) : s[i] = t[i],
         NEW f, Flattening(s, f), NEW g, Flattening(t, g)
  PROVE  \A i \in 1 .. Len(s) : f[i] = g[i] /\ f[i] \in Seq(S)
<1> DEFINE T == {n \in Nat : n \in 1 .. Len(s) => f[n] = g[n] /\ f[n] \in Seq(S)}
<1>1. 0 \in T
  OBVIOUS
<1>2. ASSUME NEW n \in Nat, n \in T PROVE n + 1 \in T
  <2> SUFFICES ASSUME n + 1 \in 1 .. Len(s)
               PROVE  f[n + 1] = g[n + 1] /\ f[n + 1] \in Seq(S)
    OBVIOUS
  <2>1. /\ f[n + 1] = IF n + 1 = 1 THEN s[n + 1] ELSE f[n + 1 - 1] \o s[n + 1]
        /\ g[n + 1] = IF n + 1 = 1 THEN t[n + 1] ELSE g[n + 1 - 1] \o t[n + 1]
    <3>1. n + 1 \in 1 .. Len(t)
      OBVIOUS
    <3> HIDE DEF T
    <3> QED BY <3>1, FlatteningAt
  <2>2. s[n + 1] = t[n + 1] /\ s[n + 1] \in Seq(S) /\ n + 1 - 1 = n
    BY ListType
  <2>3. CASE n = 0
    BY <2>1, <2>2, <2>3
  <2>4. CASE n # 0
    <3>1. f[n] = g[n] /\ f[n] \in Seq(S)
      BY <1>2, <2>4
    <3> QED BY <2>1, <2>2, <2>4, <3>1
  <2> QED BY <2>3, <2>4
<1> HIDE DEF T
<1>3. \A n \in Nat : n \in T
  BY <1>1, <1>2, Counted
<1> QED
  BY <1>3 DEF T

(* The bytes of a list are a sequence.                                       *)
LEMMA FlattenType ==
  ASSUME NEW S, NEW s \in Lists(S)
  PROVE  FlattenSeq(s) \in Seq(S)
<1>1. CASE s = <<>>
  BY <1>1 DEF FlattenSeq
<1>2. CASE s # <<>>
  <2>1. PICK f : Flattening(s, f) /\ FlattenSeq(s) = f[Len(s)]
    BY <1>2, FlattenIs
  <2>2. \A i \in 1 .. Len(s) : f[i] \in Seq(S)
    BY <2>1, FlattenAgrees
  <2> QED BY <1>2, <2>1, <2>2
<1> QED BY <1>1, <1>2

(* A block appended to a list goes behind its bytes.                         *)
LEMMA FlattenAppend ==
  ASSUME NEW S, NEW s \in Lists(S), NEW b \in Seq(S)
  PROVE  FlattenSeq(Append(s, b)) = FlattenSeq(s) \o b
<1> DEFINE t == Append(s, b)
<1>0. /\ t \in Lists(S) /\ t # <<>> /\ Len(t) = Len(s) + 1 /\ t[Len(t)] = b
      /\ \A i \in 1 .. Len(s) : s[i] = t[i]
  <2>1. t \in Lists(S) /\ Len(t) = Len(s) + 1 /\ t[Len(s) + 1] = b /\ Len(s) \in Nat
    BY ListType, ListAppend
  <2>2. \A i \in 1 .. Len(s) : Append(s, b)[i] = s[i]
    BY ListAppend
  <2>3. t # <<>>
    <3> HIDE DEF t
    <3>1. (Len(t) = 0 <=> t = <<>>) /\ Len(s) \in Nat
      BY <2>1, ListType
    <3> QED BY <2>1, <3>1
  <2> QED BY <2>1, <2>2, <2>3
<1> HIDE DEF t
<1>1. PICK g : Flattening(t, g) /\ FlattenSeq(t) = g[Len(t)]
  BY <1>0, FlattenIs
<1>2. g[Len(t)] = IF Len(t) = 1 THEN b ELSE g[Len(t) - 1] \o b
  BY <1>0, <1>1, FlatteningAt
<1>3. CASE s = <<>>
  BY <1>0, <1>1, <1>2, <1>3 DEF FlattenSeq, t
<1>4. CASE s # <<>>
  <2>1. PICK f : Flattening(s, f) /\ FlattenSeq(s) = f[Len(s)]
    BY <1>4, FlattenIs
  <2>2. f[Len(s)] = g[Len(s)]
    <3>1. Len(s) \in 1 .. Len(s) /\ Len(s) <= Len(t)
      BY <1>0, <1>4
    <3>2. \A i \in 1 .. Len(s) : f[i] = g[i]
      <4>1. /\ t \in Lists(S) /\ Len(s) <= Len(t) /\ Flattening(s, f) /\ Flattening(t, g)
            /\ \A i \in 1 .. Len(s) : s[i] = t[i]
        BY <3>1, <1>0, <1>1, <2>1
      <4> QED BY <4>1, FlattenAgrees, SMT
    <3> QED BY <3>1, <3>2
  <2>3. Len(t) # 1 /\ Len(t) - 1 = Len(s)
    BY <1>0, <1>4
  <2> QED BY <1>1, <1>2, <2>1, <2>2, <2>3, Zenon DEF t
<1> QED BY <1>3, <1>4

(* The bytes of a list begin with those of its first block.                  *)
LEMMA FlattenCons ==
  ASSUME NEW S, NEW s \in Lists(S), s # <<>>
  PROVE  FlattenSeq(s) = Head(s) \o FlattenSeq(Tail(s))
<1> DEFINE Holds(u) == FlattenSeq(u) = Head(u) \o FlattenSeq(Tail(u))
           T == {n \in Nat : \A u \in Lists(S) : Len(u) = n + 1 => Holds(u)}
<1>1. 0 \in T
  <2> SUFFICES ASSUME NEW u \in Lists(S), Len(u) = 1
               PROVE  Holds(u)
    OBVIOUS
  <2>0. PICK v \in Lists(S), b \in Seq(S) : u = Append(v, b) /\ Len(v) = 0
    <3>1. Len(u) > 0 /\ Len(u) - 1 = 0
      OBVIOUS
    <3>2. PICK v \in Lists(S), b \in Seq(S) : u = Append(v, b) /\ Len(v) = Len(u) - 1
      BY <3>1, ListApart, Zenon
    <3> QED BY <3>1, <3>2
  <2>5. Len(v) = 0
    BY <2>0
  <2>6. v = <<>>
    BY <2>5, EmptySeq
  <2>1. u = Append(<<>>, b) /\ Head(u) = b /\ Tail(u) = <<>>
    BY <2>0, <2>6
  <2>2. FlattenSeq(<<>>) = <<>> /\ <<>> \in Lists(S)
    BY ListType, Zenon DEF FlattenSeq
  <2>3. FlattenSeq(u) = FlattenSeq(<<>>) \o b
    BY <2>1, <2>2, FlattenAppend, Zenon
  <2>4. <<>> \o b = b /\ b \o <<>> = b
    BY ConcatEmptySeq
  <2> QED BY <2>1, <2>2, <2>3, <2>4, Zenon
<1>2. ASSUME NEW n \in Nat, n \in T PROVE n + 1 \in T
  <2> SUFFICES ASSUME NEW u \in Lists(S), Len(u) = n + 2
               PROVE  Holds(u)
    OBVIOUS
  <2>0. PICK v \in Lists(S), b \in Seq(S) : u = Append(v, b) /\ Len(v) = n + 1
    <3>1. Len(u) > 0 /\ Len(u) - 1 = n + 1
      OBVIOUS
    <3>2. PICK v \in Lists(S), b \in Seq(S) : u = Append(v, b) /\ Len(v) = Len(u) - 1
      BY <3>1, ListApart, Zenon
    <3> QED BY <3>1, <3>2, Zenon
  <2>1. Len(v) = n + 1 /\ v # <<>>
    BY <2>0
  <2> DEFINE w == Tail(v)
  <2>2. /\ Head(v) = Head(u) /\ Head(u) \in Seq(S)
        /\ w \in Lists(S) /\ Tail(u) = Append(w, b)
    <3>1. Head(v) \in Seq(S) /\ w \in Lists(S) /\ Head(v) = v[1]
      BY <2>1, ListType
    <3>2. v \in Seq(Seq(S)) /\ b \in Seq(S)
      BY DEF Lists
    <3>3. Head(u) = Head(v) /\ Tail(u) = Append(w, b)
      BY <2>0, <2>1, <3>2, HeadTailAppend, Zenon
    <3> QED BY <3>1, <3>3, Zenon
  <2>3. Holds(v)
    BY <1>2, <2>1, Zenon
  <2> HIDE DEF w
  <2>4. FlattenSeq(u) = FlattenSeq(v) \o b /\ FlattenSeq(Tail(u)) = FlattenSeq(w) \o b
    BY <2>0, <2>2, FlattenAppend, Zenon
  <2>5. FlattenSeq(v) = Head(u) \o FlattenSeq(w)
    BY <2>2, <2>3, Zenon DEF w
  <2>6. FlattenSeq(w) \in Seq(S)
    BY <2>2, FlattenType
  <2>7. (Head(u) \o FlattenSeq(w)) \o b = Head(u) \o (FlattenSeq(w) \o b)
    <3>1. Head(u) \in Seq(S) /\ FlattenSeq(w) \in Seq(S) /\ b \in Seq(S)
      BY <2>0, <2>2, <2>6
    <3> HIDE DEF w
    <3> DEFINE y == FlattenSeq(w)
               x == Head(u)
    <3>2. x \in Seq(S) /\ y \in Seq(S)
      BY <3>1
    <3> HIDE DEF x, y
    <3>3. (x \o y) \o b = x \o (y \o b)
      BY <3>2, <3>1
    <3> QED BY <3>3, Zenon DEF x, y
  <2> QED BY <2>2, <2>4, <2>5, <2>7, Zenon
<1> HIDE DEF T
<1>3. \A n \in Nat : n \in T
  BY <1>1, <1>2, Counted, Zenon
<1>4. Len(s) - 1 \in Nat /\ Len(s) = (Len(s) - 1) + 1
  OBVIOUS
<1> QED
  BY <1>3, <1>4, Zenon DEF T

(* The bytes of two lists, one behind the other.                             *)
LEMMA FlattenConcat ==
  ASSUME NEW S, NEW s \in Lists(S), NEW t \in Lists(S)
  PROVE  FlattenSeq(s \o t) = FlattenSeq(s) \o FlattenSeq(t)
<1> DEFINE T == {n \in Nat : \A u \in Lists(S) :
                    Len(u) = n => FlattenSeq(s \o u) = FlattenSeq(s) \o FlattenSeq(u)}
<1>1. 0 \in T
  <2> SUFFICES ASSUME NEW u \in Lists(S), Len(u) = 0
               PROVE  FlattenSeq(s \o u) = FlattenSeq(s) \o FlattenSeq(u)
    OBVIOUS
  <2>1. u = <<>> /\ s \o u = s /\ FlattenSeq(u) = <<>>
    <3>1. u = <<>>
      BY ListType
    <3>2. s \o <<>> = s
      BY DEF Lists
    <3> QED BY <3>1, <3>2 DEF FlattenSeq
  <2>2. FlattenSeq(s) \in Seq(S)
    BY FlattenType
  <2> QED BY <2>1, <2>2
<1>2. ASSUME NEW n \in Nat, n \in T PROVE n + 1 \in T
  <2> SUFFICES ASSUME NEW u \in Lists(S), Len(u) = n + 1
               PROVE  FlattenSeq(s \o u) = FlattenSeq(s) \o FlattenSeq(u)
    OBVIOUS
  <2>0. PICK v \in Lists(S), b \in Seq(S) : u = Append(v, b) /\ Len(v) = n
    <3>1. Len(u) > 0 /\ Len(u) - 1 = n
      OBVIOUS
    <3>2. PICK v \in Lists(S), b \in Seq(S) : u = Append(v, b) /\ Len(v) = Len(u) - 1
      BY <3>1, ListApart
    <3> QED BY <3>1, <3>2
  <2>1. Len(v) = n
    BY <2>0
  <2>2. s \o u = Append(s \o v, b) /\ s \o v \in Lists(S)
    BY <2>0 DEF Lists
  <2>3. FlattenSeq(s \o v) = FlattenSeq(s) \o FlattenSeq(v)
    BY <1>2, <2>1
  <2>4. FlattenSeq(s \o u) = FlattenSeq(s \o v) \o b /\ FlattenSeq(u) = FlattenSeq(v) \o b
    BY <2>0, <2>2, FlattenAppend, Zenon
  <2>5. FlattenSeq(s) \in Seq(S) /\ FlattenSeq(v) \in Seq(S)
    BY FlattenType
  <2>6. (FlattenSeq(s) \o FlattenSeq(v)) \o b = FlattenSeq(s) \o (FlattenSeq(v) \o b)
    BY <2>0, <2>5, Associates
  <2> QED BY <2>3, <2>4, <2>6
<1> HIDE DEF T
<1>3. \A n \in Nat : n \in T
  BY <1>1, <1>2, Counted, Zenon
<1>4. Len(t) \in Nat
  OBVIOUS
<1> QED
  BY <1>3, <1>4 DEF T

-----------------------------------------------------------------------------
(* What writev leaves of a list (TcpConnection::onWrite).                    *)

(* What is left of q when its first k elements have gone.                    *)
After(q, k) == SubSeq(q, k + 1, Len(q))

(* Its length and its elements.                                              *)
LEMMA AfterIs ==
  ASSUME NEW S, NEW q \in Seq(S), NEW k \in 0 .. Len(q)
  PROVE  /\ After(q, k) \in Seq(S) /\ Len(After(q, k)) = Len(q) - k
         /\ \A i \in 1 .. Len(q) - k : After(q, k)[i] = q[k + i]
  BY DEF After

(* Only the first of two parts is cut.                                       *)
LEMMA AfterInFront ==
  ASSUME NEW S, NEW h \in Seq(S), NEW t \in Seq(S), NEW k \in 0 .. Len(h)
  PROVE  After(h \o t, k) = After(h, k) \o t
<1> DEFINE q == h \o t
           a == After(h, k)
           l == After(q, k)
           r == a \o t
<1>1. /\ q \in Seq(S) /\ Len(q) = Len(h) + Len(t) /\ k \in 0 .. Len(q)
      /\ \A i \in 1 .. Len(h) + Len(t) : q[i] = IF i <= Len(h) THEN h[i] ELSE t[i - Len(h)]
  OBVIOUS
<1>2. a \in Seq(S) /\ Len(a) = Len(h) - k /\ \A i \in 1 .. Len(h) - k : a[i] = h[k + i]
  BY AfterIs
<1> HIDE DEF q, a
<1>3. l \in Seq(S) /\ Len(l) = Len(q) - k /\ \A i \in 1 .. Len(q) - k : l[i] = q[k + i]
  BY <1>1, AfterIs, Zenon
<1>4. /\ r \in Seq(S) /\ Len(r) = Len(a) + Len(t)
      /\ \A i \in 1 .. Len(a) + Len(t) : r[i] = IF i <= Len(a) THEN a[i] ELSE t[i - Len(a)]
  BY <1>2, ConcatProperties, Zenon
<1> HIDE DEF l, r
<1>5. ASSUME NEW i \in 1 .. Len(l) PROVE l[i] = r[i]
  BY <1>1, <1>2, <1>3, <1>4
<1>6. Len(l) = Len(r)
  BY <1>1, <1>2, <1>3, <1>4
<1>7. l = r
  BY <1>3, <1>4, <1>5, <1>6, SeqEqual, Zenon
<1> QED BY <1>7 DEF l, r, q, a

(* All of the first part goes, and some of the second.                       *)
LEMMA AfterFront ==
  ASSUME NEW S, NEW h \in Seq(S), NEW t \in Seq(S),
         NEW k \in Len(h) .. Len(h) + Len(t)
  PROVE  After(h \o t, k) = After(t, k - Len(h))
<1> DEFINE q == h \o t
           m == k - Len(h)
           l == After(q, k)
           r == After(t, m)
<1>1. /\ q \in Seq(S) /\ Len(q) = Len(h) + Len(t) /\ k \in 0 .. Len(q) /\ m \in 0 .. Len(t)
      /\ \A i \in 1 .. Len(h) + Len(t) : q[i] = IF i <= Len(h) THEN h[i] ELSE t[i - Len(h)]
  OBVIOUS
<1>2. m = k - Len(h)
  OBVIOUS
<1> HIDE DEF q, m
<1>3. l \in Seq(S) /\ Len(l) = Len(q) - k /\ \A i \in 1 .. Len(q) - k : l[i] = q[k + i]
  BY <1>1, AfterIs, Zenon
<1>4. r \in Seq(S) /\ Len(r) = Len(t) - m /\ \A i \in 1 .. Len(t) - m : r[i] = t[m + i]
  BY <1>1, AfterIs
<1> HIDE DEF l, r
<1>5. ASSUME NEW i \in 1 .. Len(l) PROVE l[i] = r[i]
  BY <1>1, <1>2, <1>3, <1>4
<1>6. Len(l) = Len(r)
  BY <1>1, <1>2, <1>3, <1>4
<1>7. l = r
  BY <1>3, <1>4, <1>5, <1>6, SeqEqual, Zenon
<1> QED BY <1>7 DEF l, r, q, m

(* now is on the way to clearing the first n bytes of s.                     *)
Clearing(S, s, n, now, i) ==
  /\ now.blocks \in Lists(S) /\ now.ret \in 0 .. Len(FlattenSeq(now.blocks))
  /\ After(FlattenSeq(now.blocks), now.ret) = After(FlattenSeq(s), n)
  /\ now.ret = 0 \/ Len(now.blocks) = Len(s) - i

(* One turn of the loop in onWrite that clears the list keeps that account.  *)
LEMMA EraseClears ==
  ASSUME NEW S, NEW s \in Lists(S), NEW n \in Nat, NEW now, NEW i \in Nat, Clearing(S, s, n, now, i)
  PROVE  Clearing(S, s, n, Erase(now), i + 1)
<1>1. CASE now.ret = 0
  BY <1>1 DEF Erase, Clearing
<1>2. CASE now.ret # 0
  <2> DEFINE b == now.blocks
             k == now.ret
             h == Head(b)
             t == Tail(b)
  <2>1. b \in Lists(S) /\ k \in 1 .. Len(FlattenSeq(b)) /\ After(FlattenSeq(b), k) = After(FlattenSeq(s), n)
        /\ Len(b) = Len(s) - i
    BY <1>2 DEF Clearing
  <2>2. b # <<>>
    BY <2>1 DEF FlattenSeq
  <2>3. h \in Seq(S) /\ t \in Lists(S) /\ Len(t) = Len(b) - 1
    BY <2>1, <2>2, ListType
  <2>4. FlattenSeq(b) = h \o FlattenSeq(t)
    BY <2>1, <2>2, FlattenCons, Zenon
  <2>5. FlattenSeq(t) \in Seq(S)
    BY <2>3, FlattenType
  <2>6. Erase(now) = IF Len(h) > k THEN [blocks |-> <<After(h, k)>> \o t, ret |-> 0]
                     ELSE [blocks |-> t, ret |-> k - Len(h)]
    BY <1>2 DEF Erase, After
  <2> HIDE DEF b, k, h, t
  <2>7. Len(FlattenSeq(b)) = Len(h) + Len(FlattenSeq(t))
    BY <2>3, <2>4, <2>5
  <2>8. Len(s) \in Nat /\ Len(b) \in Nat
    BY <2>1, ListType
  <2>9. CASE Len(h) > k
    <3> DEFINE a == After(h, k)
               u == <<a>> \o t
    <3>1. k \in 0 .. Len(h) /\ Len(h) \in Nat
      BY <2>1, <2>3, <2>9
    <3>2. a \in Seq(S)
      BY <2>3, <3>1, AfterIs
    <3> HIDE DEF a
    <3>3. u \in Lists(S) /\ u # <<>> /\ Head(u) = a /\ Tail(u) = t
      <4>1. t \in Seq(Seq(S))
        BY <2>3 DEF Lists
      <4>2. u # <<>> /\ Head(u) = a /\ Tail(u) = t
        BY <3>2, <4>1
      <4>3. u \in Lists(S)
        BY <3>2, <4>1 DEF Lists
      <4> QED BY <4>2, <4>3
    <3> HIDE DEF u
    <3>4. FlattenSeq(u) = a \o FlattenSeq(t)
      BY <3>3, FlattenCons, Zenon
    <3>5. After(FlattenSeq(b), k) = a \o FlattenSeq(t)
      BY <2>3, <2>4, <2>5, <3>1, AfterInFront, Zenon DEF a
    <3>6. a \o FlattenSeq(t) \in Seq(S)
      BY <3>2, <2>5
    <3>7. After(FlattenSeq(u), 0) = FlattenSeq(u) /\ 0 \in 0 .. Len(FlattenSeq(u))
      BY <3>4, <3>6, SubSeqFull DEF After
    <3>8. Erase(now).blocks = u /\ Erase(now).ret = 0
      BY <2>6, <2>9 DEF u, a
    <3> QED BY <2>1, <3>3, <3>4, <3>5, <3>7, <3>8, Zenon DEF Clearing
  <2>10. CASE ~(Len(h) > k)
    <3>1. k \in Len(h) .. Len(h) + Len(FlattenSeq(t)) /\ k - Len(h) \in 0 .. Len(FlattenSeq(t))
      BY <2>1, <2>3, <2>5, <2>7, <2>10
    <3>2. After(FlattenSeq(b), k) = After(FlattenSeq(t), k - Len(h))
      BY <2>3, <2>4, <2>5, <3>1, AfterFront
    <3>3. Erase(now).blocks = t /\ Erase(now).ret = k - Len(h)
      BY <2>6, <2>10
    <3>4. Len(t) = Len(s) - (i + 1)
      BY <2>1, <2>3, <2>8
    <3> QED BY <2>1, <2>3, <3>1, <3>2, <3>3, <3>4, Zenon DEF Clearing
  <2> QED BY <2>9, <2>10
<1> QED BY <1>1, <1>2

(* f[i] is the list after i turns: the function that Rest chooses.           *)
Turns(s, n, f) ==
  f = [i \in 0 .. Len(s) |-> IF i = 0 THEN [blocks |-> s, ret |-> n] ELSE Erase(f[i - 1])]

(* There is such a function.                                                 *)
LEMMA TurnsExist ==
  ASSUME NEW S, NEW s \in Lists(S), NEW m
  PROVE  \E f : Turns(s, m, f)
<1> DEFINE Up(n, g) == g = [i \in 0 .. n |-> IF i = 0 THEN [blocks |-> s, ret |-> m] ELSE Erase(g[i - 1])]
           T == {n \in Nat : \E g : Up(n, g)}
<1>1. 0 \in T
  <2> DEFINE g == [i \in {0} |-> [blocks |-> s, ret |-> m]]
  <2>1. Up(0, g)
    OBVIOUS
  <2> QED
    BY <2>1, Zenon
<1>2. ASSUME NEW n \in Nat, n \in T PROVE n + 1 \in T
  <2>1. PICK g : Up(n, g)
    BY <1>2
  <2> DEFINE h == [i \in 0 .. n + 1 |-> IF i = n + 1 THEN Erase(g[n]) ELSE g[i]]
  <2>2. \A i \in 0 .. n : g[i] = IF i = 0 THEN [blocks |-> s, ret |-> m] ELSE Erase(g[i - 1])
    BY <2>1
  <2>3. \A i \in 0 .. n : h[i] = g[i]
    OBVIOUS
  <2>4. \A i \in 0 .. n + 1 : h[i] = IF i = 0 THEN [blocks |-> s, ret |-> m] ELSE Erase(h[i - 1])
    <3> TAKE i \in 0 .. n + 1
    <3>1. CASE i = n + 1
      <4>1. h[i - 1] = g[n] /\ h[i] = Erase(g[n]) /\ i # 0
        BY <3>1, <2>3
      <4> QED BY <4>1
    <3>2. CASE i # n + 1
      <4>1. i \in 0 .. n /\ (i # 0 => i - 1 \in 0 .. n)
        BY <3>2
      <4>2. h[i] = g[i] /\ (i # 0 => h[i - 1] = g[i - 1])
        BY <4>1, <2>3
      <4>3. g[i] = IF i = 0 THEN [blocks |-> s, ret |-> m] ELSE Erase(g[i - 1])
        BY <4>1, <2>2
      <4> HIDE DEF h
      <4> QED BY <4>2, <4>3
    <3> QED BY <3>1, <3>2
  <2>5. h = [i \in 0 .. n + 1 |-> h[i]]
    OBVIOUS
  <2> HIDE DEF h
  <2>6. Up(n + 1, h)
    BY <2>4, <2>5, Zenon
  <2>7. n + 1 \in Nat /\ \E f : Up(n + 1, f)
    <3> HIDE DEF Up
    <3> QED BY <2>6
  <2> QED
    BY <2>7
<1> HIDE DEF T
<1>3. Len(s) \in T
  BY <1>1, <1>2, Counted, ListType
<1> QED
  BY <1>3 DEF T, Turns

(* After writev has taken n bytes the list holds the others, in order.       *)
LEMMA RestIs ==
  ASSUME NEW S, NEW s \in Lists(S), NEW n \in 0 .. Len(FlattenSeq(s))
  PROVE  /\ Rest(s, n) \in Lists(S) /\ FlattenSeq(Rest(s, n)) = After(FlattenSeq(s), n)
         /\ s = <<>> => Rest(s, n) = <<>>
<1> DEFINE turn[i \in 0 .. Len(s)] == IF i = 0 THEN [blocks |-> s, ret |-> n] ELSE Erase(turn[i - 1])
<1>0. Len(s) \in Nat /\ FlattenSeq(s) \in Seq(S) /\ n \in Nat
  BY ListType, FlattenType
<1>1. Rest(s, n) = turn[Len(s)].blocks
  BY DEF Rest
<1>2. turn = CHOOSE f : Turns(s, n, f)
  BY Zenon DEF Turns
<1>3. Turns(s, n, turn)
  BY <1>2, TurnsExist, Zenon
<1> HIDE DEF turn
<1>4. \A i \in 0 .. Len(s) : turn[i] = IF i = 0 THEN [blocks |-> s, ret |-> n] ELSE Erase(turn[i - 1])
  BY <1>3, Zenon DEF Turns
<1> DEFINE T == {i \in Nat : i <= Len(s) => Clearing(S, s, n, turn[i], i)}
<1>5. 0 \in T
  BY <1>0, <1>4 DEF Clearing
<1>6. ASSUME NEW i \in Nat, i \in T PROVE i + 1 \in T
  <2> SUFFICES ASSUME i + 1 <= Len(s) PROVE Clearing(S, s, n, turn[i + 1], i + 1)
    OBVIOUS
  <2>1. Clearing(S, s, n, turn[i], i)
    BY <1>0, <1>6
  <2>2. turn[i + 1] = Erase(turn[i])
    BY <1>0, <1>4
  <2> QED BY <1>0, <2>1, <2>2, EraseClears
<1>7. Len(s) \in T
  <2> HIDE DEF T
  <2> QED BY <1>0, <1>5, <1>6, Counted
<1> DEFINE now == turn[Len(s)]
<1>8. Clearing(S, s, n, now, Len(s))
  BY <1>0, <1>7
<1> HIDE DEF now, T
<1>9. now.ret = 0
  <2>1. CASE Len(now.blocks) = Len(s) - Len(s)
    <3>1. now.blocks = <<>>
      BY <1>0, <1>8, <2>1, ListType DEF Clearing
    <3>2. FlattenSeq(now.blocks) = <<>>
      BY <3>1 DEF FlattenSeq
    <3> QED BY <1>8, <3>2 DEF Clearing
  <2> QED BY <1>8, <2>1 DEF Clearing
<1>10. now.blocks \in Lists(S) /\ FlattenSeq(now.blocks) \in Seq(S)
  BY <1>8, FlattenType DEF Clearing
<1>11. After(FlattenSeq(now.blocks), 0) = FlattenSeq(now.blocks)
  BY <1>10, SubSeqFull DEF After
<1>12. s = <<>> => now.blocks = s
  <2>1. s = <<>> => Len(s) = 0
    BY ListType
  <2>2. turn[0].blocks = s
    BY <1>0, <1>4
  <2> QED BY <2>1, <2>2 DEF now
<1> QED
  BY <1>1, <1>8, <1>9, <1>10, <1>11, <1>12 DEF Clearing, now

-----------------------------------------------------------------------------
(* The operations of EventLoop on one object, and what they leave alone.     *)

(* Everything that may be watched.                                           *)
All == Objects \cup {Pipe}

(* All that may change is c, which stays what it is, and the loop goes on    *)
(* doing what it does.                                                       *)
Elsewhere(n, m, c) ==
  /\ m \in Nets
  /\ \A o \in All : o # c =>
        /\ m.want[o] = n.want[o] /\ m.sock[o] = n.sock[o]
        /\ o \in m.watched <=> o \in n.watched
        /\ o \in m.ready <=> o \in n.ready
  /\ \A o \in Objects : o # c => m.fd[o] = n.fd[o]
  /\ \A d \in Conns : d # c => /\ m.conn[d] = n.conn[d]
                               /\ d \in m.m_connections <=> d \in n.m_connections
  /\ m.conn[c].kind = n.conn[c].kind
  /\ m.backlog = n.backlog /\ m.pipe = n.pipe /\ m.tasks = n.tasks /\ m.port = n.port
  /\ m.first = n.first /\ m.came = n.came /\ m.writing = n.writing
  /\ n.stray \subseteq m.stray /\ (m.alive => n.alive)

(* Descriptors, the map, what is watched and the server's connections stay.  *)
Linked(n, m) ==
  /\ m.fd = n.fd /\ m.eventsMap = n.eventsMap /\ m.watched = n.watched
  /\ m.m_connections = n.m_connections

(* Two steps that concern c alone are one.                                   *)
LEMMA ElsewhereTrans ==
  ASSUME NEW n, NEW m, NEW k, NEW c, Elsewhere(n, m, c), Elsewhere(m, k, c)
  PROVE  Elsewhere(n, k, c)
<1>1. m.conn[c].kind = n.conn[c].kind /\ k.conn[c].kind = m.conn[c].kind
  BY DEF Elsewhere
<1> QED
  BY <1>1, Zenon DEF Elsewhere

(* A socket as the calls make it.                                            *)
LEMMA SocketTypes ==
  /\ NoSocket \in Sockets /\ NoSocket.kind = "none" /\ NoSocket.unread = 0 /\ NoSocket.unsent = 0
  /\ ~NoSocket.fin /\ ~NoSocket.error /\ ~NoSocket.taken
  /\ \A k \in {"fresh", "listening", "connecting", "open", "datagram", "reset"} :
        /\ Socket(k) \in Sockets /\ Socket(k).kind = k /\ Socket(k).unread = 0
        /\ Socket(k).unsent = 0 /\ ~Socket(k).fin /\ ~Socket(k).error /\ ~Socket(k).taken
  BY Zenon DEF NoSocket, Sockets, Socket

(* The parts of the state that belong to c.                                  *)
LEMMA ConnTypes ==
  ASSUME NEW n \in Nets, NEW c \in Conns
  PROVE  n.conn[c] \in Connections /\ n.sock[c] \in Sockets /\ n.fd[c] \in Fds \cup {NoFd}
         /\ n.want[c] \subseteq {"IN", "OUT"} /\ c \in Objects /\ c \in All
  BY DEF Nets, All, Objects

(* One field of the state of c is changed, and nothing else.                 *)
WithConn(n, c, k) == [n EXCEPT !.conn[c] = k]

(* Only the object of c changes.                                             *)
LEMMA PutConn ==
  ASSUME NEW n \in Nets, NEW c \in Conns, NEW k \in Connections, k.kind = n.conn[c].kind
  PROVE  LET m == WithConn(n, c, k) IN
         /\ Elsewhere(n, m, c) /\ Linked(n, m) /\ m.conn[c] = k
         /\ m.ready = n.ready /\ m.sock = n.sock /\ m.want = n.want /\ m.asks = n.asks
<1> USE DEF WithConn
<1> DEFINE m == WithConn(n, c, k)
<1>1. m \in Nets
  BY Zenon DEF Nets
<1>2. m.conn[c] = k /\ \A d \in Conns \ {c} : m.conn[d] = n.conn[d]
  BY DEF Nets
<1> QED
  BY <1>1, <1>2, Zenon DEF Nets, Elsewhere, Linked

(* Only the socket of c changes.                                             *)
LEMMA PutSock ==
  ASSUME NEW n \in Nets, NEW c \in Conns, NEW k \in Sockets,
         NEW m, m = [n EXCEPT !.sock[c] = k]
  PROVE  /\ Elsewhere(n, m, c) /\ Linked(n, m) /\ m.sock[c] = k
         /\ m.ready = n.ready /\ m.conn = n.conn /\ m.want = n.want /\ m.asks = n.asks
<1>0. c \in All
  BY DEF All, Objects
<1>1. m \in Nets
  BY <1>0, Zenon DEF Nets, All
<1>2. m.sock[c] = k /\ \A o \in All \ {c} : m.sock[o] = n.sock[o]
  BY <1>0 DEF Nets, All
<1> QED
  BY <1>1, <1>2, Zenon DEF Nets, Elsewhere, Linked

(* Only what c asked epoll for changes.                                      *)
LEMMA PutWant ==
  ASSUME NEW n \in Nets, NEW c \in Objects, NEW k \in SUBSET {"IN", "OUT"},
         NEW m, m = [n EXCEPT !.want[c] = k]
  PROVE  /\ Elsewhere(n, m, c) /\ Linked(n, m) /\ m.want[c] = k
         /\ m.ready = n.ready /\ m.conn = n.conn /\ m.sock = n.sock /\ m.asks = n.asks
<1>0. c \in All
  BY DEF All, Objects
<1>1. m \in Nets
  BY <1>0, Zenon DEF Nets, All
<1>2. m.want[c] = k /\ \A o \in All \ {c} : m.want[o] = n.want[o]
  BY <1>0 DEF Nets, All
<1> QED
  BY <1>1, <1>2, Zenon DEF Nets, Elsewhere, Linked

(* Happened puts c among the ready if it asked for what happened.            *)
LEMMA HappenedIs ==
  ASSUME NEW n \in Nets, NEW c \in Objects, NEW keys
  PROVE  LET m == Happened(n, c, keys) IN
         /\ Elsewhere(n, m, c) /\ Linked(n, m)
         /\ m.conn = n.conn /\ m.want = n.want /\ m.sock = n.sock /\ m.asks = n.asks
         /\ n.ready \subseteq m.ready
         /\ c \in m.ready <=> \/ c \in n.ready
                              \/ c \in n.watched /\ keys \cap (n.want[c] \cup {"ERR", "HUP"}) # {}
<1>1. c \in All
  BY DEF All, Objects
<1>2. CASE c \in n.watched /\ keys \cap (n.want[c] \cup {"ERR", "HUP"}) # {}
  <2> DEFINE m == [n EXCEPT !.ready = @ \cup {c}]
  <2>1. m \in Nets
    BY <1>1, Zenon DEF Nets, All
  <2>2. m.ready = n.ready \cup {c}
    BY DEF Nets
  <2>3. Elsewhere(n, m, c) /\ Linked(n, m) /\ m.conn = n.conn /\ m.want = n.want /\ m.sock = n.sock
        /\ m.asks = n.asks
    BY <2>1, <2>2, Zenon DEF Nets, Elsewhere, Linked
  <2> HIDE DEF m
  <2> QED BY <1>2, <2>2, <2>3 DEF Happened, m
<1>3. CASE ~(c \in n.watched /\ keys \cap (n.want[c] \cup {"ERR", "HUP"}) # {})
  BY <1>3 DEF Happened, Elsewhere, Linked
<1> QED BY <1>2, <1>3

(* Close lets the descriptor go, and epoll forgets it.                       *)
LEMMA CloseIs ==
  ASSUME NEW n \in Nets, NEW c \in Objects
  PROVE  LET m == Close(n, c) IN
         /\ Elsewhere(n, m, c)
         /\ m.eventsMap = n.eventsMap /\ m.conn = n.conn /\ m.want = n.want /\ m.asks = n.asks
         /\ m.m_connections = n.m_connections
         /\ n.fd[c] = NoFd => m = n
         /\ n.fd[c] # NoFd => m.sock[c] = NoSocket /\ c \notin m.watched /\ c \notin m.ready
         /\ m.fd[c] = NoFd
<1>0. c \in All /\ c \in Objects
  BY DEF All, Objects
<1>1. CASE n.fd[c] # NoFd
  <2> DEFINE m == [Forgotten(n, c) EXCEPT !.fd[c] = NoFd, !.sock[c] = NoSocket]
  <2>1. m \in Nets
    BY <1>0, SocketTypes, Zenon DEF Nets, All, Forgotten
  <2>2. /\ m.sock[c] = NoSocket /\ \A o \in All \ {c} : m.sock[o] = n.sock[o]
        /\ m.fd[c] = NoFd /\ \A o \in Objects \ {c} : m.fd[o] = n.fd[o]
        /\ m.watched = n.watched \ {c} /\ m.ready = n.ready \ {c}
    BY <1>0 DEF Nets, All, Forgotten
  <2>3. Elsewhere(n, m, c) /\ m.eventsMap = n.eventsMap /\ m.conn = n.conn /\ m.want = n.want
        /\ m.asks = n.asks /\ m.m_connections = n.m_connections
    BY <2>1, <2>2 DEF Nets, Elsewhere, Forgotten
  <2> HIDE DEF m
  <2> QED BY <1>1, <2>2, <2>3 DEF Close, m
<1>2. CASE n.fd[c] = NoFd
  BY <1>2 DEF Close, Elsewhere
<1> QED BY <1>1, <1>2

(* An open descriptor is one, and its entry an object or nothing.            *)
LEMMA MappedIs ==
  ASSUME NEW n \in Nets, NEW o \in Objects, n.fd[o] # NoFd
  PROVE  n.fd[o] \in Fds /\ n.eventsMap[n.fd[o]] \in Objects \cup {None}
  BY DEF Nets

(* removeEvent takes the entry away and forgets the object, if there is an   *)
(* entry.                                                                    *)
LEMMA removeEventIs ==
  ASSUME NEW n \in Nets, NEW c \in Objects
  PROVE  LET m == removeEvent(n, c) IN
         /\ Elsewhere(n, m, c)
         /\ m.fd = n.fd /\ m.conn = n.conn /\ m.want = n.want /\ m.sock = n.sock /\ m.asks = n.asks
         /\ m.m_connections = n.m_connections
         /\ ~Mapped(n, c) => m = n
         /\ Mapped(n, c) => /\ m.eventsMap = [n.eventsMap EXCEPT ![n.fd[c]] = None]
                            /\ m.watched = n.watched \ {c} /\ m.ready = n.ready \ {c}
<1>0. c \in All /\ c \in Objects
  BY DEF All, Objects
<1>1. CASE Mapped(n, c)
  <2> DEFINE m == [Forgotten(n, c) EXCEPT !.eventsMap[n.fd[c]] = None]
  <2>0. n.fd[c] \in Fds
    BY <1>0, <1>1, MappedIs DEF Mapped
  <2>1. m \in Nets
    BY <1>0, <2>0, Zenon DEF Nets, All, Forgotten
  <2>2. /\ m.eventsMap = [n.eventsMap EXCEPT ![n.fd[c]] = None]
        /\ m.watched = n.watched \ {c} /\ m.ready = n.ready \ {c}
    BY <1>0 DEF Nets, All, Forgotten
  <2>3. Elsewhere(n, m, c) /\ m.fd = n.fd /\ m.conn = n.conn /\ m.want = n.want /\ m.sock = n.sock
        /\ m.asks = n.asks /\ m.m_connections = n.m_connections
    BY <2>1, <2>2 DEF Nets, Elsewhere, Forgotten
  <2> HIDE DEF m
  <2> QED BY <1>1, <2>2, <2>3 DEF removeEvent, m
<1>2. CASE ~Mapped(n, c)
  BY <1>2 DEF removeEvent, Elsewhere
<1> QED BY <1>1, <1>2

(* Asked to report something new, epoll looks at the socket at once.         *)
LEMMA PolledIs ==
  ASSUME NEW n \in Nets, NEW c \in Objects, NEW k \in SUBSET {"IN", "OUT"}
  PROVE  LET m == Polled([n EXCEPT !.want[c] = k], c) IN
         /\ Elsewhere(n, m, c) /\ Linked(n, m)
         /\ m.conn = n.conn /\ m.sock = n.sock /\ m.asks = n.asks
         /\ m.want[c] = k /\ n.ready \subseteq m.ready
         /\ c \in m.ready => c \in n.ready \/ c \in n.watched
         /\ c \in n.watched /\ Mask(n, c) \cap k # {} => c \in m.ready
<1> DEFINE a == [n EXCEPT !.want[c] = k]
           m == Happened(a, c, Mask(a, c))
<1>1. /\ Elsewhere(n, a, c) /\ Linked(n, a) /\ a.want[c] = k
      /\ a.ready = n.ready /\ a.conn = n.conn /\ a.sock = n.sock /\ a.asks = n.asks
  <2> DEFINE P(x) == /\ Elsewhere(n, x, c) /\ Linked(n, x) /\ x.want[c] = k
                     /\ x.ready = n.ready /\ x.conn = n.conn /\ x.sock = n.sock /\ x.asks = n.asks
  <2>1. \A x : x = [n EXCEPT !.want[c] = k] => P(x)
    BY PutWant, Zenon
  <2> HIDE DEF P
  <2>2. P(a)
    BY <2>1
  <2> QED BY <2>2 DEF P
<1>2. Mask(a, c) = Mask(n, c)
  <2>1. a.sock = n.sock /\ a.pipe = n.pipe /\ a.backlog = n.backlog
    BY DEF Nets
  <2> HIDE DEF a
  <2> QED BY <2>1 DEF Mask
<1> HIDE DEF a
<1>3. a \in Nets
  BY <1>1 DEF Elsewhere
<1>4. /\ Elsewhere(a, m, c) /\ Linked(a, m)
      /\ m.conn = a.conn /\ m.want = a.want /\ m.sock = a.sock /\ m.asks = a.asks
      /\ a.ready \subseteq m.ready
      /\ c \in m.ready <=> \/ c \in a.ready
                           \/ c \in a.watched /\ Mask(a, c) \cap (a.want[c] \cup {"ERR", "HUP"}) # {}
  BY <1>3, HappenedIs
<1> HIDE DEF m
<1>5. Elsewhere(n, m, c)
  BY <1>1, <1>4, ElsewhereTrans
<1>6. Linked(n, m) /\ a.watched = n.watched
  BY <1>1, <1>4 DEF Linked
<1> QED BY <1>1, <1>2, <1>4, <1>5, <1>6, Zenon DEF Polled, m, a

(* What a handler may make of c: it may close it, take what was unread, and  *)
(* find it connected. It never gives a closed one a descriptor.              *)
Ages(n, m, c) ==
  /\ m.conn[c].kind = n.conn[c].kind
  /\ c \in m.watched => c \in n.watched
  /\ n.fd[c] = NoFd => m.conn[c].m_closed = n.conn[c].m_closed
  /\ n.conn[c].m_closed => m.conn[c].m_closed
  /\ \/ m.conn[c].m_closed
     \/ /\ m.fd[c] = n.fd[c]
        /\ \/ m.conn[c].m_status = n.conn[c].m_status
           \/ n.conn[c].m_status = "connecting" /\ m.conn[c].m_status = "connected"
        /\ Gone(m, c) = Gone(n, c) /\ m.sock[c].kind = n.sock[c].kind
        /\ m.sock[c].fin = n.sock[c].fin /\ m.sock[c].error = n.sock[c].error
        /\ n.sock[c].taken => m.sock[c].taken
        /\ m.sock[c].unread \in {0, n.sock[c].unread}

(* epoll has c to report to whom has it queued, if there is room.            *)
OutSettled(n, c) == "OUT" \in n.want[c] /\ (Space(n, c) > 0 => c \in n.ready)

-----------------------------------------------------------------------------
(* What handlers of connections may do.                                      *)

(* What c has to be told is kept.                                            *)
KeepsAt(n, m, c) ==
  c \in m.watched =>
    /\ c \in n.ready => c \in m.ready
    /\ m.conn[c].m_iovecList # <<>> =>
          \/ OutSettled(m, c)
          \/ /\ n.conn[c].m_iovecList # <<>>
             /\ "OUT" \in n.want[c] => "OUT" \in m.want[c]
             /\ Space(m, c) > 0 => Space(n, c) > 0

(* What the handlers of connections leave alone.                             *)
Aside(n, m) ==
  /\ m.pipe = n.pipe /\ m.tasks = n.tasks /\ m.first = n.first /\ m.writing = n.writing
  /\ Pipe \in m.watched <=> Pipe \in n.watched
  /\ Pipe \in m.ready <=> Pipe \in n.ready
  /\ m.want[Pipe] = n.want[Pipe] /\ m.fd[Acceptor] = n.fd[Acceptor]
  /\ m.sock[Acceptor] = n.sock[Acceptor]
  /\ n.stray \subseteq m.stray /\ (m.alive => n.alive)

(* What every handler of a connection keeps.                                 *)
Handled(n, m) ==
  /\ Core(m) /\ Aside(n, m)
  /\ \A c \in Conns : Ages(n, m, c) /\ KeepsAt(n, m, c)

(* Ages, KeepsAt and Handled go from step to step.                           *)
LEMMA AgesTrans ==
  ASSUME NEW n, NEW m, NEW k, NEW c, Ages(n, m, c), Ages(m, k, c)
  PROVE  Ages(n, k, c)
<1>1. CASE k.conn[c].m_closed
  BY <1>1, Zenon DEF Ages
<1>2. CASE ~k.conn[c].m_closed
  BY <1>2 DEF Ages
<1> QED BY <1>1, <1>2

(* The same of KeepsAt.                                                      *)
LEMMA KeepsTrans ==
  ASSUME NEW n, NEW m, NEW k, NEW c, KeepsAt(n, m, c), KeepsAt(m, k, c),
         Ages(m, k, c)
  PROVE  KeepsAt(n, k, c)
<1> SUFFICES ASSUME c \in k.watched, c \in m.watched
             PROVE  KeepsAt(n, k, c)
  BY DEF KeepsAt, Ages
<1>1. c \in n.ready => c \in k.ready
  BY DEF KeepsAt
<1> SUFFICES ASSUME k.conn[c].m_iovecList # <<>>, ~OutSettled(k, c)
             PROVE  /\ n.conn[c].m_iovecList # <<>>
                    /\ "OUT" \in n.want[c] => "OUT" \in k.want[c]
                    /\ Space(k, c) > 0 => Space(n, c) > 0
  BY <1>1 DEF KeepsAt
<1>2. /\ m.conn[c].m_iovecList # <<>>
      /\ "OUT" \in m.want[c] => "OUT" \in k.want[c]
      /\ Space(k, c) > 0 => Space(m, c) > 0
  BY DEF KeepsAt
<1>3. ~OutSettled(m, c)
  BY <1>2 DEF KeepsAt, OutSettled
<1> QED BY <1>2, <1>3 DEF KeepsAt

(* The same of Handled.                                                      *)
LEMMA HandledTrans ==
  ASSUME NEW n, NEW m, NEW k, Handled(n, m), Handled(m, k)
  PROVE  Handled(n, k)
<1>1. Aside(n, k)
  BY DEF Handled, Aside
<1>2. \A c \in Conns : Ages(n, k, c) /\ KeepsAt(n, k, c)
  BY AgesTrans, KeepsTrans DEF Handled
<1> QED BY <1>1, <1>2 DEF Handled

(* A connection nothing happens to does not age.                             *)
LEMMA AgesSame ==
  ASSUME NEW n, NEW m, NEW c, m.conn[c] = n.conn[c], m.sock[c] = n.sock[c], m.fd[c] = n.fd[c],
         c \in m.watched => c \in n.watched
  PROVE  Ages(n, m, c)
  BY DEF Ages, Gone, Owed, Pending

(* And keeps what it has to be told.                                         *)
LEMMA KeepsSame ==
  ASSUME NEW n, NEW m, NEW c, m.conn[c] = n.conn[c], m.sock[c] = n.sock[c],
         m.want[c] = n.want[c], c \in n.ready => c \in m.ready
  PROVE  KeepsAt(n, m, c)
  BY DEF KeepsAt, Space, Pending

(* Doing nothing is a handler's outcome.                                     *)
LEMMA SameHandled ==
  ASSUME NEW n, Core(n)
  PROVE  Handled(n, n)
  BY AgesSame, KeepsSame DEF Handled, Aside

(* Those nothing happened to.                                                *)
LEMMA OthersKeep ==
  ASSUME NEW n, Core(n), NEW m, NEW c \in Conns, Elsewhere(n, m, c), NEW d \in Conns, d # c
  PROVE  BytesInv(m, d) /\ StatusInv(m, d) /\ SocketInv(m, d) /\ Ages(n, m, d) /\ KeepsAt(n, m, d)
<1>1. d \in All /\ d \in Objects
  BY DEF All, Objects
<1>2. /\ m.conn[d] = n.conn[d] /\ m.sock[d] = n.sock[d] /\ m.fd[d] = n.fd[d]
      /\ m.want[d] = n.want[d] /\ n.stray \subseteq m.stray
      /\ d \in m.watched <=> d \in n.watched
      /\ d \in m.ready <=> d \in n.ready
  BY <1>1 DEF Elsewhere
<1>3. BytesInv(m, d)
  BY <1>2 DEF Core, BytesInv
<1>4. StatusInv(m, d)
  <2>1. StatusInv(n, d)
    BY DEF Core
  <2> QED BY <1>2, <2>1 DEF StatusInv, Fresh
<1>5. SocketInv(m, d)
  BY <1>2 DEF Core, SocketInv, Udp
<1> QED BY <1>2, <1>3, <1>4, <1>5, AgesSame, KeepsSame

(* A step that concerns one connection leaves the loop aside.                *)
LEMMA ElsewhereAside ==
  ASSUME NEW n, NEW m, NEW c \in Conns, Elsewhere(n, m, c)
  PROVE  Aside(n, m)
<1>1. Pipe \in All /\ Acceptor \in All /\ Acceptor \in Objects /\ c # Pipe /\ c # Acceptor
  BY EventLoopAssumption DEF All, Objects
<1> QED BY <1>1 DEF Elsewhere, Aside

(* A change of c that leaves its descriptor and its place in the map alone.  *)
LEMMA QuietCore ==
  ASSUME NEW n, Core(n), NEW m, NEW c \in Conns, Elsewhere(n, m, c), Linked(n, m),
         m.ready \subseteq m.watched,
         n.conn[c].m_closed => m.conn[c].m_closed,
         n.conn[c].kind = "accepted" => m.conn[c].m_closed = n.conn[c].m_closed,
         m.conn[c].m_closed \/ (m.sock[c].kind = "none" => n.sock[c].kind = "none"),
         "IN" \in n.want[c] => "IN" \in m.want[c],
         BytesInv(m, c), StatusInv(m, c), SocketInv(m, c)
  PROVE  Core(m)
<1>1. \A d \in Conns : BytesInv(m, d) /\ StatusInv(m, d) /\ SocketInv(m, d)
  BY OthersKeep
<1>2. /\ \A d \in Conns : m.conn[d].kind = n.conn[d].kind
      /\ \A d \in Conns : n.conn[d].m_closed => m.conn[d].m_closed
      /\ \A d \in Conns : n.conn[d].kind = "accepted" => m.conn[d].m_closed = n.conn[d].m_closed
  BY DEF Elsewhere
<1>l. \A o : Left(n, o) => Left(m, o)
  BY <1>2 DEF Left
<1>3. MapInv(m)
  <2>1. \A o \in Objects : o \in m.watched => "IN" \in m.want[o]
    <3>1. \A o \in Objects : o \in All /\ (o # c => m.want[o] = n.want[o])
      BY DEF Elsewhere, All
    <3>2. \A o \in Objects : o \in n.watched => "IN" \in n.want[o]
      BY DEF Core, MapInv
    <3> QED BY <3>1, <3>2 DEF Linked
  <2>2. MapInv(n)
    BY DEF Core
  <2> QED BY <1>l, <2>1, <2>2 DEF MapInv, Linked
<1>4. ServerInv(m)
  <2>0. ServerInv(n) /\ m.backlog = n.backlog /\ m.came = n.came /\ n \in Nets
    BY DEF Core, Elsewhere
  <2>1. \A d \in m.m_connections :
          /\ m.conn[d].kind = "accepted" /\ m.fd[d] # NoFd
          /\ d \in m.watched \/ Left(m, m.eventsMap[m.fd[d]])
    <3>1. \A d \in n.m_connections : d \in Conns
      BY <2>0 DEF Nets
    <3> QED BY <1>2, <1>l, <2>0, <3>1 DEF ServerInv, Linked
  <2>2. \A d \in Conns : m.conn[d].kind = "accepted" /\ d \notin m.came =>
            m.fd[d] = NoFd /\ ~m.conn[d].m_closed
    BY <1>2, <2>0 DEF ServerInv, Linked
  <2>3. ASSUME NEW i \in 1 .. Len(m.backlog)
        PROVE  /\ m.conn[m.backlog[i]].kind = "accepted" /\ m.backlog[i] \in m.came
               /\ m.fd[m.backlog[i]] = NoFd /\ ~m.conn[m.backlog[i]].m_closed
               /\ m.sock[m.backlog[i]].kind # "none"
               /\ \A j \in 1 .. Len(m.backlog) : m.backlog[i] = m.backlog[j] => i = j
    <3> DEFINE d == n.backlog[i]
    <3>1. d \in Conns /\ d \in All /\ m.backlog[i] = d
      BY <2>0 DEF Nets, All, Objects
    <3>2. /\ n.conn[d].kind = "accepted" /\ d \in n.came
          /\ n.fd[d] = NoFd /\ ~n.conn[d].m_closed /\ n.sock[d].kind # "none"
          /\ \A j \in 1 .. Len(n.backlog) : d = n.backlog[j] => i = j
      BY <2>0 DEF ServerInv
    <3>3. m.sock[d].kind # "none"
      <4> HIDE DEF d
      <4>1. CASE d # c
        BY <3>1, <3>2, <4>1 DEF Elsewhere
      <4>2. CASE d = c
        BY <1>2, <3>1, <3>2, <4>2
      <4> QED BY <4>1, <4>2
    <3> QED BY <1>2, <2>0, <3>1, <3>2, <3>3 DEF Linked
  <2> QED BY <2>1, <2>2, <2>3 DEF ServerInv
<1>5. m \in Nets
  BY DEF Elsewhere
<1> QED BY <1>1, <1>3, <1>4, <1>5 DEF Core

(* A step that changes the fields of one connection, and neither its         *)
(* descriptor nor the map, is a handler's outcome if it keeps what is said   *)
(* of that connection.                                                       *)
LEMMA QuietHandled ==
  ASSUME NEW n, Core(n), NEW m, NEW c \in Conns, Elsewhere(n, m, c), Linked(n, m),
         m.ready \subseteq m.watched,
         m.conn[c].m_closed = n.conn[c].m_closed,
         "IN" \in n.want[c] => "IN" \in m.want[c],
         BytesInv(m, c), StatusInv(m, c), SocketInv(m, c), Ages(n, m, c), KeepsAt(n, m, c)
  PROVE  Handled(n, m)
<1>1. m.conn[c].m_closed \/ (m.sock[c].kind = "none" => n.sock[c].kind = "none")
  BY DEF Ages
<1>2. Core(m)
  BY <1>1, QuietCore
<1>3. \A d \in Conns : Ages(n, m, d) /\ KeepsAt(n, m, d)
  BY OthersKeep
<1> QED BY <1>2, <1>3, ElsewhereAside DEF Handled

(* c is closed: whoever finds its descriptor in the map has it.              *)
LEMMA ShutHandled ==
  ASSUME NEW n, Core(n), NEW m, NEW c \in Conns, Elsewhere(n, m, c),
         n.fd[c] # NoFd, m.fd[c] = NoFd, m.conn[c].m_closed,
         m.conn[c].written = <<>>, m.conn[c].m_iovecList = <<>>, m.conn[c].unfinished = 0,
         m.conn[c].why = "nothing" => c \in m.stray,
         m.sock[c] = NoSocket, c \notin m.watched, c \notin m.ready,
         c \notin m.m_connections,
         \A f \in Fds : \/ m.eventsMap[f] = n.eventsMap[f]
                        \/ f = n.fd[c] /\ m.eventsMap[f] = None,
         n.conn[c].kind = "udpserver" \/ m.eventsMap[n.fd[c]] # c
  PROVE  Handled(n, m)
<1>0. MapInv(n) /\ ServerInv(n) /\ n \in Nets /\ m \in Nets
  BY DEF Core, Elsewhere
<1>1. BytesInv(m, c) /\ StatusInv(m, c) /\ SocketInv(m, c) /\ Ages(n, m, c) /\ KeepsAt(n, m, c)
  <2>1. m.conn[c].kind = n.conn[c].kind /\ n.conn[c].kind # "none"
    BY DEF Elsewhere, Core, StatusInv
  <2>2. BytesInv(m, c)
    BY SMT DEF BytesInv, BytesOK
  <2>3. StatusInv(m, c)
    BY <2>1 DEF StatusInv
  <2>4. SocketInv(m, c)
    BY SocketTypes, EventLoopAssumption DEF SocketInv
  <2>5. Ages(n, m, c) /\ KeepsAt(n, m, c)
    BY <2>1, Zenon DEF Ages, KeepsAt
  <2> QED BY <2>2, <2>3, <2>4, <2>5
<1>2. \A d \in Conns : /\ BytesInv(m, d) /\ StatusInv(m, d) /\ SocketInv(m, d)
                       /\ Ages(n, m, d) /\ KeepsAt(n, m, d)
  BY <1>1, OthersKeep
<1>3. /\ \A o \in Objects : o # c => m.fd[o] = n.fd[o]
      /\ \A o \in Objects : o # c => m.want[o] = n.want[o]
      /\ \A o \in All : o \in m.watched => o \in n.watched /\ o # c
      /\ \A o \in All : o \in m.ready => o \in n.ready /\ o # c
      /\ \A d \in Conns : d # c => (d \in m.watched <=> d \in n.watched)
      /\ \A d \in Conns : Left(n, d) => Left(m, d)
      /\ n.conn[c].kind = "udpserver" => Left(m, c)
      /\ \A d \in Conns : d # c => m.conn[d] = n.conn[d]
      /\ m.conn[c].kind = n.conn[c].kind
  BY DEF Elsewhere, All, Objects, Left
<1>4. MapInv(m)
  <2>1. \A o, p \in Objects : m.fd[o] = m.fd[p] /\ m.fd[o] # NoFd => o = p
    BY <1>0, <1>3 DEF MapInv
  <2>2. ASSUME NEW f \in Fds, m.eventsMap[f] # None
        PROVE  m.fd[m.eventsMap[f]] = f \/ Left(m, m.eventsMap[f])
    <3>1. m.eventsMap[f] = n.eventsMap[f] /\ n.eventsMap[f] \in Objects
      BY <1>0, <2>2 DEF Nets
    <3>2. n.fd[n.eventsMap[f]] = f \/ Left(n, n.eventsMap[f])
      BY <1>0, <3>1, <2>2 DEF MapInv
    <3>3. CASE n.eventsMap[f] = c
      <4>1. n.conn[c].kind = "udpserver" \/ n.fd[c] # f
        BY <3>1, <3>3
      <4>2. CASE Left(n, c)
        BY <1>3, <3>1, <3>3, <4>2
      <4> QED BY <1>3, <3>1, <3>2, <3>3, <4>1, <4>2
    <3>4. CASE n.eventsMap[f] # c
      <4>1. Left(n, n.eventsMap[f]) => Left(m, n.eventsMap[f])
        BY <1>3 DEF Left
      <4> QED BY <1>3, <3>1, <3>2, <3>4, <4>1
    <3> QED BY <3>3, <3>4
  <2>3. ASSUME NEW o \in Objects, o \in m.watched
        PROVE  m.fd[o] # NoFd /\ m.eventsMap[m.fd[o]] = o /\ "IN" \in m.want[o]
    <3>1. o # c /\ o \in n.watched
      BY <1>3, <2>3 DEF All
    <3>2. n.fd[o] # NoFd /\ n.eventsMap[n.fd[o]] = o /\ "IN" \in n.want[o]
      BY <1>0, <3>1 DEF MapInv
    <3>3. n.fd[o] # n.fd[c] /\ n.fd[o] \in Fds
      BY <1>0, <3>1, <3>2 DEF MapInv, Objects, Nets
    <3> QED BY <1>3, <3>1, <3>2, <3>3
  <2>4. m.ready \subseteq m.watched
    <3>1. \A o \in All : o \in m.ready => o \in n.watched /\ o # c
      BY <1>0, <1>3 DEF MapInv
    <3>2. \A o \in All : o \in n.watched /\ o # c => o \in m.watched
      BY DEF Elsewhere
    <3>3. m.ready \subseteq All
      BY <1>0 DEF Nets, All
    <3> QED BY <3>1, <3>2, <3>3
  <2> QED BY <2>1, <2>2, <2>3, <2>4 DEF MapInv
<1>5. ServerInv(m)
  <2>1. ASSUME NEW d \in m.m_connections
        PROVE  /\ m.conn[d].kind = "accepted" /\ m.fd[d] # NoFd
               /\ d \in m.watched \/ Left(m, m.eventsMap[m.fd[d]])
    <3>1. d \in Conns /\ d # c /\ d \in n.m_connections /\ d \in Objects
      BY <1>0, <2>1 DEF Elsewhere, Nets, Objects
    <3>2. /\ n.conn[d].kind = "accepted" /\ n.fd[d] # NoFd
          /\ d \in n.watched \/ Left(n, n.eventsMap[n.fd[d]])
      BY <1>0, <3>1 DEF ServerInv
    <3>3. n.fd[d] # n.fd[c] /\ n.fd[d] \in Fds
      BY <1>0, <3>1, <3>2 DEF MapInv, Objects, Nets
    <3>4. Left(n, n.eventsMap[n.fd[d]]) => Left(m, m.eventsMap[m.fd[d]])
      BY <1>3, <3>1, <3>3 DEF Left
    <3> QED BY <1>3, <3>1, <3>2, <3>4
  <2>2. \A d \in Conns : m.conn[d].kind = "accepted" /\ d \notin m.came =>
            m.fd[d] = NoFd /\ ~m.conn[d].m_closed
    BY <1>0, <1>3 DEF ServerInv, Elsewhere, Objects
  <2>3. ASSUME NEW i \in 1 .. Len(m.backlog)
        PROVE  /\ m.conn[m.backlog[i]].kind = "accepted" /\ m.backlog[i] \in m.came
               /\ m.fd[m.backlog[i]] = NoFd /\ ~m.conn[m.backlog[i]].m_closed
               /\ m.sock[m.backlog[i]].kind # "none"
               /\ \A j \in 1 .. Len(m.backlog) : m.backlog[i] = m.backlog[j] => i = j
    <3>1. m.backlog = n.backlog /\ m.came = n.came /\ n.backlog[i] \in Conns
      BY <1>0 DEF Elsewhere, Nets
    <3>2. /\ n.conn[n.backlog[i]].kind = "accepted" /\ n.backlog[i] \in n.came
          /\ n.fd[n.backlog[i]] = NoFd /\ ~n.conn[n.backlog[i]].m_closed
          /\ n.sock[n.backlog[i]].kind # "none"
          /\ \A j \in 1 .. Len(n.backlog) : n.backlog[i] = n.backlog[j] => i = j
      BY <1>0, <3>1 DEF ServerInv
    <3>3. n.backlog[i] # c /\ n.backlog[i] \in Objects /\ n.backlog[i] \in All
      BY <3>1, <3>2 DEF Objects, All
    <3>4. m.sock[n.backlog[i]] = n.sock[n.backlog[i]]
      BY <3>3 DEF Elsewhere
    <3> QED BY <1>3, <3>1, <3>2, <3>3, <3>4
  <2> QED BY <2>1, <2>2, <2>3 DEF ServerInv
<1>6. Core(m)
  BY <1>0, <1>2, <1>4, <1>5 DEF Core
<1> QED BY <1>2, <1>6, ElsewhereAside DEF Handled

(* A record of one connection whose fields change.                           *)
LEMMA ConnFields ==
  ASSUME NEW k \in Connections
  PROVE  /\ \A b \in BOOLEAN : [k EXCEPT !.m_closed = b] \in Connections
         /\ \A b \in {"init", "connecting", "connected", "disconnected"} :
               [k EXCEPT !.m_status = b] \in Connections
         /\ \A w \in {"open", "cause", "nothing"} :
               [k EXCEPT !.why = w, !.m_iovecList = <<>>, !.written = <<>>, !.unfinished = 0]
                  \in Connections
<1>1. <<>> \in Seq(Nat) /\ <<>> \in Lists(Nat) /\ 0 \in Nat
  BY DEF Lists
<1> QED BY <1>1, Zenon DEF Connections

(* c, still with its descriptor, as it is when its socket gets closed.       *)
Closing(n, a, c) ==
  /\ Elsewhere(n, a, c) /\ a.fd = n.fd
  /\ a.conn[c].m_closed /\ a.conn[c].written = <<>> /\ a.conn[c].m_iovecList = <<>>
  /\ a.conn[c].unfinished = 0 /\ (a.conn[c].why = "nothing" => c \in a.stray)
  /\ c \notin a.m_connections

(* So is closing a connection whose entry has gone, was not its own, or is a *)
(* UdpServer's.                                                              *)
LEMMA CloseHandled ==
  ASSUME NEW n, Core(n), NEW c \in Conns, n.fd[c] # NoFd, NEW a, Closing(n, a, c),
         \/ a.eventsMap = [n.eventsMap EXCEPT ![n.fd[c]] = None]
         \/ a.eventsMap = n.eventsMap /\ n.conn[c].kind = "udpserver"
         \/ a.eventsMap = n.eventsMap /\ ~Mapped(n, c)
  PROVE  Handled(n, Close(a, c)) /\ Close(a, c).conn[c].m_closed
<1> DEFINE m == Close(a, c)
<1>0. a \in Nets /\ n \in Nets /\ n.fd[c] \in Fds /\ c \notin {None} /\ c \in Objects
  BY EventLoopAssumption DEF Closing, Elsewhere, Core, Nets, Objects
<1>1. /\ Elsewhere(a, m, c) /\ m.eventsMap = a.eventsMap /\ m.conn = a.conn
      /\ m.m_connections = a.m_connections
      /\ a.fd[c] # NoFd => m.sock[c] = NoSocket /\ c \notin m.watched /\ c \notin m.ready
      /\ m.fd[c] = NoFd
  BY <1>0, CloseIs
<1> HIDE DEF m
<1>2. Elsewhere(n, m, c) /\ a.fd[c] # NoFd /\ a.stray \subseteq m.stray
  BY <1>1, ElsewhereTrans DEF Closing, Elsewhere
<1>3. \A f \in Fds : \/ m.eventsMap[f] = n.eventsMap[f]
                     \/ f = n.fd[c] /\ m.eventsMap[f] = None
  BY <1>0, <1>1 DEF Nets
<1>4. n.conn[c].kind = "udpserver" \/ m.eventsMap[n.fd[c]] # c
  BY <1>0, <1>1 DEF Nets, Mapped
<1>5. Handled(n, m)
  BY <1>1, <1>2, <1>3, <1>4, ShutHandled DEF Closing
<1> QED BY <1>1, <1>5 DEF m, Closing

(* The record of c when it is about to close for a reason.                   *)
Knowing(n, c, why) ==
  [n EXCEPT !.conn[c] = [@ EXCEPT !.why = why, !.m_iovecList = <<>>,
                                  !.written = <<>>, !.unfinished = 0]]

(* What onClose forgets of a connection.                                     *)
LEMMA KnownIs ==
  ASSUME NEW n \in Nets, NEW c \in Conns, NEW why \in {"cause", "nothing"}
  PROVE  LET m == Knowing(n, c, why)
         IN  /\ Elsewhere(n, m, c) /\ Linked(n, m) /\ m.asks = n.asks /\ m.ready = n.ready
             /\ m.conn[c].m_closed = n.conn[c].m_closed /\ m.conn[c].m_status = n.conn[c].m_status
             /\ m.conn[c].written = <<>> /\ m.conn[c].m_iovecList = <<>> /\ m.sock = n.sock
             /\ m.want = n.want
             /\ m.conn[c].unfinished = 0 /\ m.conn[c].why = why
             /\ m.conn[c].asked = n.conn[c].asked /\ m.conn[c].short = n.conn[c].short
<1> DEFINE k == [n.conn[c] EXCEPT !.why = why, !.m_iovecList = <<>>, !.written = <<>>, !.unfinished = 0]
           m == [n EXCEPT !.conn[c] = k]
<1>1. k \in Connections
  BY ConnTypes, ConnFields, Zenon
<1>2. /\ k.kind = n.conn[c].kind /\ k.m_closed = n.conn[c].m_closed
      /\ k.m_status = n.conn[c].m_status
      /\ k.written = <<>> /\ k.m_iovecList = <<>> /\ k.unfinished = 0 /\ k.why = why
      /\ k.asked = n.conn[c].asked /\ k.short = n.conn[c].short
  BY ConnTypes DEF Connections
<1>3. m = Knowing(n, c, why)
  BY DEF Nets, Knowing
<1> HIDE DEF k
<1>4. m = WithConn(n, c, k)
  BY DEF WithConn
<1> HIDE DEF m
<1>5. /\ Elsewhere(n, m, c) /\ Linked(n, m) /\ m.conn[c] = k /\ m.asks = n.asks
      /\ m.ready = n.ready /\ m.sock = n.sock /\ m.want = n.want
  <2>1. k.kind = n.conn[c].kind
    BY <1>2
  <2> QED BY <1>1, <1>4, <2>1, PutConn
<1> QED BY <1>2, <1>3, <1>5

(* m_closed is set.                                                          *)
WithClosed(n, c) == [n EXCEPT !.conn[c].m_closed = TRUE]

(* Only m_closed changes.                                                    *)
LEMMA SetClosed ==
  ASSUME NEW n \in Nets, NEW c \in Conns
  PROVE  LET m == WithClosed(n, c)
         IN  /\ Elsewhere(n, m, c) /\ Linked(n, m) /\ m.conn[c].m_closed
             /\ m.conn[c].written = n.conn[c].written /\ m.conn[c].m_iovecList = n.conn[c].m_iovecList
             /\ m.conn[c].unfinished = n.conn[c].unfinished /\ m.conn[c].why = n.conn[c].why
             /\ m.ready = n.ready /\ m.sock = n.sock /\ m.want = n.want
<1> DEFINE k == [n.conn[c] EXCEPT !.m_closed = TRUE]
           m == [n EXCEPT !.conn[c] = k]
<1>1. k \in Connections
  BY ConnTypes, ConnFields, Zenon
<1>2. /\ k.kind = n.conn[c].kind /\ k.m_closed
      /\ k.written = n.conn[c].written /\ k.m_iovecList = n.conn[c].m_iovecList
      /\ k.unfinished = n.conn[c].unfinished /\ k.why = n.conn[c].why
  BY ConnTypes DEF Connections
<1>3. m = WithClosed(n, c)
  BY DEF Nets, WithClosed
<1> HIDE DEF k
<1>4. m = WithConn(n, c, k)
  BY DEF WithConn
<1> HIDE DEF m
<1>5. /\ Elsewhere(n, m, c) /\ Linked(n, m) /\ m.conn[c] = k
      /\ m.ready = n.ready /\ m.sock = n.sock /\ m.want = n.want
  <2>1. k.kind = n.conn[c].kind
    BY <1>2
  <2> QED BY <1>1, <1>4, <2>1, PutConn
<1> QED BY <1>2, <1>3, <1>5

(* m_status is set.                                                          *)
WithStatus(n, c, s) == [n EXCEPT !.conn[c].m_status = s]

(* Only m_status changes.                                                    *)
LEMMA SetStatus ==
  ASSUME NEW n \in Nets, NEW c \in Conns,
         NEW s \in {"init", "connecting", "connected", "disconnected"}
  PROVE  LET m == WithStatus(n, c, s)
         IN  /\ Elsewhere(n, m, c) /\ Linked(n, m)
             /\ m.ready = n.ready /\ m.sock = n.sock /\ m.want = n.want /\ m.asks = n.asks
             /\ m.conn[c].m_closed = n.conn[c].m_closed /\ m.conn[c].m_status = s
             /\ m.conn[c].written = n.conn[c].written /\ m.conn[c].m_iovecList = n.conn[c].m_iovecList
             /\ m.conn[c].unfinished = n.conn[c].unfinished /\ m.conn[c].why = n.conn[c].why
             /\ m.conn[c].asked = n.conn[c].asked /\ m.conn[c].short = n.conn[c].short
<1> DEFINE k == [n.conn[c] EXCEPT !.m_status = s]
           m == [n EXCEPT !.conn[c] = k]
<1>1. k \in Connections
  BY ConnTypes, ConnFields, Zenon
<1>2. /\ k.kind = n.conn[c].kind /\ k.m_closed = n.conn[c].m_closed /\ k.m_status = s
      /\ k.written = n.conn[c].written /\ k.m_iovecList = n.conn[c].m_iovecList
      /\ k.unfinished = n.conn[c].unfinished /\ k.why = n.conn[c].why
      /\ k.asked = n.conn[c].asked /\ k.short = n.conn[c].short
  BY ConnTypes DEF Connections
<1>3. m = WithStatus(n, c, s)
  BY DEF Nets, WithStatus
<1> HIDE DEF k
<1>4. m = WithConn(n, c, k)
  BY DEF WithConn
<1> HIDE DEF m
<1>5. /\ Elsewhere(n, m, c) /\ Linked(n, m) /\ m.conn[c] = k
      /\ m.ready = n.ready /\ m.sock = n.sock /\ m.want = n.want /\ m.asks = n.asks
  <2>1. k.kind = n.conn[c].kind
    BY <1>2
  <2> QED BY <1>1, <1>4, <2>1, PutConn
<1> QED BY <1>2, <1>3, <1>5

(* A connection leaves the server's list.                                    *)
LEMMA LeaveServer ==
  ASSUME NEW n \in Nets, NEW c \in Conns
  PROVE  LET m == [n EXCEPT !.m_connections = @ \ {c}]
         IN  /\ Elsewhere(n, m, c) /\ m.fd = n.fd /\ m.eventsMap = n.eventsMap
             /\ m.watched = n.watched /\ m.conn = n.conn /\ c \notin m.m_connections
<1> DEFINE m == [n EXCEPT !.m_connections = @ \ {c}]
<1>1. m \in Nets /\ m.m_connections = n.m_connections \ {c}
  BY Zenon DEF Nets
<1> QED BY <1>1, Zenon DEF Nets, Elsewhere

(* onClose of a connection that has a descriptor.                            *)
LEMMA onCloseOpen ==
  ASSUME NEW n, Core(n), NEW c \in Conns, NEW why \in {"cause", "nothing"},
         why = "nothing" => c \in n.stray, n.fd[c] # NoFd,
         NEW x, Elsewhere(n, x, c), Linked(n, x), x.conn = n.conn
  PROVE  Handled(n, onClose(x, c, why)) /\ onClose(x, c, why).conn[c].m_closed
<1> DEFINE known == Knowing(x, c, why)
<1>0. n \in Nets /\ ServerInv(n) /\ StatusInv(n, c) /\ ~n.conn[c].m_closed /\ c \in Objects
  BY DEF Core, StatusInv, Objects
<1>1. /\ Elsewhere(n, known, c) /\ Linked(n, known)
      /\ ~known.conn[c].m_closed /\ known.conn[c].m_status = n.conn[c].m_status
      /\ known.conn[c].written = <<>> /\ known.conn[c].m_iovecList = <<>>
      /\ known.conn[c].unfinished = 0 /\ known.conn[c].why = why
  <2>1. x \in Nets
    BY DEF Elsewhere
  <2>2. /\ Elsewhere(x, known, c) /\ Linked(x, known)
        /\ known.conn[c].m_closed = x.conn[c].m_closed /\ known.conn[c].m_status = x.conn[c].m_status
        /\ known.conn[c].written = <<>> /\ known.conn[c].m_iovecList = <<>>
        /\ known.conn[c].unfinished = 0 /\ known.conn[c].why = why
    BY <2>1, KnownIs
  <2> HIDE DEF known
  <2>3. Elsewhere(n, known, c) /\ Linked(n, known)
    BY <2>2, ElsewhereTrans DEF Linked
  <2> QED BY <1>0, <2>2, <2>3
<1>2. /\ onClose(x, c, why) = CASE n.conn[c].kind = "accepted"  -> TcpOnClose(known, c)
                                [] n.conn[c].kind = "client"    -> TcpClientOnClose(known, c)
                                [] n.conn[c].kind = "udpserver" -> UdpOnClose(known, c)
                                [] n.conn[c].kind = "udpclient" -> UdpClientOnClose(known, c)
  BY <1>0, Zenon DEF onClose, Knowing
<1> HIDE DEF known
<1>3. known \in Nets /\ known.conn[c].kind = n.conn[c].kind /\ known.fd = n.fd
      /\ known.eventsMap = n.eventsMap /\ known.m_connections = n.m_connections
      /\ (Mapped(known, c) <=> Mapped(n, c)) /\ n.stray \subseteq known.stray
  BY <1>1 DEF Elsewhere, Linked, Mapped
<1>4. n.conn[c].kind # "accepted" => c \notin n.m_connections
  BY <1>0 DEF ServerInv
<1>5. CASE n.conn[c].kind = "accepted"
  <2> DEFINE closed == WithClosed(known, c)
             gone == [closed EXCEPT !.m_connections = @ \ {c}]
             a == removeEvent(gone, c)
  <2>1. onClose(x, c, why) = Close(a, c)
    <3>1. onClose(x, c, why) = TcpOnClose(known, c)
      BY <1>2, <1>5, SMT
    <3>2. closed.conn[c].kind = "accepted"
      BY <1>3, <1>5, SetClosed DEF Elsewhere
    <3> QED BY <1>1, <1>3, <1>5, <3>1, Zenon DEF TcpOnClose, onConnectionClose, WithClosed
  <2>2. /\ Elsewhere(known, closed, c) /\ Linked(known, closed) /\ closed.conn[c].m_closed
        /\ closed.conn[c].written = <<>> /\ closed.conn[c].m_iovecList = <<>>
        /\ closed.conn[c].unfinished = 0 /\ closed.conn[c].why = why
    BY <1>1, <1>3, SetClosed
  <2> HIDE DEF closed
  <2>3. closed \in Nets
    BY <2>2 DEF Elsewhere
  <2>4. /\ Elsewhere(closed, gone, c) /\ gone.fd = closed.fd /\ gone.eventsMap = closed.eventsMap
        /\ gone.conn = closed.conn /\ c \notin gone.m_connections
    BY <2>3, LeaveServer
  <2> HIDE DEF gone
  <2>5. gone \in Nets
    BY <2>4 DEF Elsewhere
  <2>6. /\ Elsewhere(gone, a, c) /\ a.fd = gone.fd /\ a.conn = gone.conn
        /\ a.m_connections = gone.m_connections
        /\ ~Mapped(gone, c) => a = gone
        /\ Mapped(gone, c) => a.eventsMap = [gone.eventsMap EXCEPT ![gone.fd[c]] = None]
    BY <1>0, <2>5, removeEventIs
  <2> HIDE DEF a
  <2>7. Elsewhere(n, a, c)
    BY <1>1, <2>2, <2>4, <2>6, ElsewhereTrans
  <2>8. n.stray \subseteq a.stray
    BY <2>7 DEF Elsewhere
  <2>9. Closing(n, a, c)
    BY <1>3, <2>2, <2>4, <2>6, <2>7, <2>8 DEF Closing, Linked
  <2>10. gone.fd = n.fd /\ gone.eventsMap = n.eventsMap
    BY <1>3, <2>2, <2>4 DEF Linked
  <2>11. \/ a.eventsMap = [n.eventsMap EXCEPT ![n.fd[c]] = None]
         \/ a.eventsMap = n.eventsMap /\ ~Mapped(n, c)
    BY <2>6, <2>10 DEF Mapped
  <2> QED BY <2>1, <2>9, <2>11, CloseHandled
<1>6. CASE n.conn[c].kind = "client"
  <2> DEFINE left == removeEvent(known, c)
             off == WithStatus(left, c, "disconnected")
             a == WithClosed(off, c)
  <2>1. /\ Elsewhere(known, left, c) /\ left.fd = known.fd /\ left.conn = known.conn
        /\ left.m_connections = known.m_connections
        /\ ~Mapped(known, c) => left = known
        /\ Mapped(known, c) => left.eventsMap = [known.eventsMap EXCEPT ![known.fd[c]] = None]
    BY <1>0, <1>3, removeEventIs
  <2>2. left \in Nets
    BY <2>1 DEF Elsewhere
  <2>3. /\ Elsewhere(left, off, c) /\ Linked(left, off)
        /\ off.conn[c].m_closed = left.conn[c].m_closed
        /\ off.conn[c].written = left.conn[c].written /\ off.conn[c].m_iovecList = left.conn[c].m_iovecList
        /\ off.conn[c].unfinished = left.conn[c].unfinished /\ off.conn[c].why = left.conn[c].why
    <3> HIDE DEF left
    <3> QED BY <2>2, SetStatus
  <2>4. off \in Nets /\ off.conn[c].kind = left.conn[c].kind
    BY <2>3 DEF Elsewhere
  <2>5. /\ Elsewhere(off, a, c) /\ Linked(off, a) /\ a.conn[c].m_closed
        /\ a.conn[c].written = off.conn[c].written /\ a.conn[c].m_iovecList = off.conn[c].m_iovecList
        /\ a.conn[c].unfinished = off.conn[c].unfinished /\ a.conn[c].why = off.conn[c].why
    <3> HIDE DEF off
    <3> QED BY <2>4, SetClosed
  <2>6. a.conn[c].kind = off.conn[c].kind
    BY <2>5 DEF Elsewhere
  <2>7. onClose(x, c, why) = Close(a, c)
    <3>1. onClose(x, c, why) = TcpClientOnClose(known, c)
      BY <1>2, <1>6, SMT
    <3>2. known.conn[c].m_status \in {"connecting", "connected"}
      BY <1>0, <1>1, <1>6 DEF StatusInv
    <3>3. TcpClientOnClose(known, c) = TcpOnClose(off, c)
      BY <3>2, Zenon DEF TcpClientOnClose, WithStatus
    <3>4. off.conn[c].kind # "accepted" /\ ~off.conn[c].m_closed
      BY <1>1, <1>3, <1>6, <2>1, <2>3, <2>4
    <3>5. TcpOnClose(off, c) = Close(a, c)
      <4> HIDE DEF off
      <4> QED BY <3>4, Zenon DEF TcpOnClose, WithClosed
    <3> QED BY <3>1, <3>3, <3>5
  <2> HIDE DEF left, off, a
  <2>8. Elsewhere(n, a, c)
    BY <1>1, <2>1, <2>3, <2>5, ElsewhereTrans
  <2>9. n.stray \subseteq a.stray
    BY <2>8 DEF Elsewhere
  <2>10. Closing(n, a, c)
    BY <1>1, <1>3, <1>4, <1>6, <2>1, <2>3, <2>5, <2>8, <2>9 DEF Closing, Linked
  <2>11. \/ a.eventsMap = [n.eventsMap EXCEPT ![n.fd[c]] = None]
         \/ a.eventsMap = n.eventsMap /\ ~Mapped(n, c)
    BY <1>3, <2>1, <2>3, <2>5 DEF Linked
  <2> QED BY <2>7, <2>10, <2>11, CloseHandled
<1>7. CASE n.conn[c].kind = "udpserver"
  <2> DEFINE a == WithClosed(known, c)
  <2>1. onClose(x, c, why) = Close(a, c)
    <3>1. onClose(x, c, why) = UdpOnClose(known, c)
      BY <1>2, <1>7, SMT
    <3> QED BY <1>1, <3>1, Zenon DEF UdpOnClose, WithClosed
  <2>2. /\ Elsewhere(known, a, c) /\ Linked(known, a) /\ a.conn[c].m_closed
        /\ a.conn[c].written = <<>> /\ a.conn[c].m_iovecList = <<>>
        /\ a.conn[c].unfinished = 0 /\ a.conn[c].why = why
    BY <1>1, <1>3, SetClosed
  <2> HIDE DEF a
  <2>3. Elsewhere(n, a, c)
    BY <1>1, <2>2, ElsewhereTrans
  <2>4. n.stray \subseteq a.stray
    BY <2>3 DEF Elsewhere
  <2>5. Closing(n, a, c) /\ a.eventsMap = n.eventsMap
    BY <1>3, <1>4, <1>7, <2>2, <2>3, <2>4 DEF Closing, Linked
  <2> QED BY <1>7, <2>1, <2>5, CloseHandled, Zenon
<1>8. CASE n.conn[c].kind = "udpclient"
  <2> DEFINE left == removeEvent(known, c)
             off == WithStatus(left, c, "disconnected")
             a == WithClosed(off, c)
  <2>1. /\ Elsewhere(known, left, c) /\ left.fd = known.fd /\ left.conn = known.conn
        /\ left.m_connections = known.m_connections
        /\ ~Mapped(known, c) => left = known
        /\ Mapped(known, c) => left.eventsMap = [known.eventsMap EXCEPT ![known.fd[c]] = None]
    BY <1>0, <1>3, removeEventIs
  <2>2. left \in Nets
    BY <2>1 DEF Elsewhere
  <2>3. /\ Elsewhere(left, off, c) /\ Linked(left, off)
        /\ off.conn[c].m_closed = left.conn[c].m_closed
        /\ off.conn[c].written = left.conn[c].written /\ off.conn[c].m_iovecList = left.conn[c].m_iovecList
        /\ off.conn[c].unfinished = left.conn[c].unfinished /\ off.conn[c].why = left.conn[c].why
    <3> HIDE DEF left
    <3> QED BY <2>2, SetStatus
  <2>4. off \in Nets
    BY <2>3 DEF Elsewhere
  <2>5. /\ Elsewhere(off, a, c) /\ Linked(off, a) /\ a.conn[c].m_closed
        /\ a.conn[c].written = off.conn[c].written /\ a.conn[c].m_iovecList = off.conn[c].m_iovecList
        /\ a.conn[c].unfinished = off.conn[c].unfinished /\ a.conn[c].why = off.conn[c].why
    <3> HIDE DEF off
    <3> QED BY <2>4, SetClosed
  <2>7. onClose(x, c, why) = Close(a, c)
    <3>1. onClose(x, c, why) = UdpClientOnClose(known, c)
      BY <1>2, <1>8, SMT
    <3>2. known.conn[c].m_status = "connecting"
      BY <1>0, <1>1, <1>8 DEF StatusInv
    <3>3. UdpClientOnClose(known, c) = UdpOnClose(off, c)
      BY <3>2, Zenon DEF UdpClientOnClose, WithStatus
    <3>4. ~off.conn[c].m_closed
      BY <1>1, <2>1, <2>3
    <3>5. UdpOnClose(off, c) = Close(a, c)
      <4> HIDE DEF off
      <4> QED BY <3>4, Zenon DEF UdpOnClose, WithClosed
    <3> QED BY <3>1, <3>3, <3>5
  <2> HIDE DEF left, off, a
  <2>8. Elsewhere(n, a, c)
    BY <1>1, <2>1, <2>3, <2>5, ElsewhereTrans
  <2>9. n.stray \subseteq a.stray
    BY <2>8 DEF Elsewhere
  <2>10. Closing(n, a, c)
    BY <1>1, <1>3, <1>4, <1>8, <2>1, <2>3, <2>5, <2>8, <2>9 DEF Closing, Linked
  <2>11. \/ a.eventsMap = [n.eventsMap EXCEPT ![n.fd[c]] = None]
         \/ a.eventsMap = n.eventsMap /\ ~Mapped(n, c)
    BY <1>3, <2>1, <2>3, <2>5 DEF Linked
  <2> QED BY <2>7, <2>10, <2>11, CloseHandled
<1>9. n.conn[c].kind \in {"accepted", "client", "udpserver", "udpclient"}
  BY <1>0, ConnTypes DEF StatusInv, Connections, Kinds
<1> QED BY <1>5, <1>6, <1>7, <1>8, <1>9

(* Closing what is closed may tell a client that it is.                      *)
LEMMA onCloseClosed ==
  ASSUME NEW n, Core(n), NEW c \in Conns, NEW why, n.conn[c].m_closed
  PROVE  Handled(n, onClose(n, c, why)) /\ onClose(n, c, why).conn[c].m_closed
<1> DEFINE off == WithStatus(n, c, "disconnected")
<1>0. n \in Nets /\ StatusInv(n, c) /\ n.fd[c] = NoFd
  BY DEF Core, StatusInv
<1>1. onClose(n, c, why) = CASE n.conn[c].kind = "accepted"  -> TcpOnClose(n, c)
                                [] n.conn[c].kind = "client"    -> TcpClientOnClose(n, c)
                                [] n.conn[c].kind = "udpserver" -> UdpOnClose(n, c)
                                [] n.conn[c].kind = "udpclient" -> UdpClientOnClose(n, c)
  BY Zenon DEF onClose
<1>2. /\ Elsewhere(n, off, c) /\ Linked(n, off)
      /\ off.ready = n.ready /\ off.sock = n.sock /\ off.want = n.want
      /\ off.conn[c].m_closed = n.conn[c].m_closed /\ off.conn[c].m_status = "disconnected"
      /\ off.conn[c].written = n.conn[c].written /\ off.conn[c].m_iovecList = n.conn[c].m_iovecList
      /\ off.conn[c].unfinished = n.conn[c].unfinished /\ off.conn[c].why = n.conn[c].why
      /\ off.conn[c].asked = n.conn[c].asked /\ off.conn[c].short = n.conn[c].short
  <2>1. n \in Nets /\ "disconnected" \in {"init", "connecting", "connected", "disconnected"}
    BY <1>0
  <2>2. off = WithStatus(n, c, "disconnected")
    OBVIOUS
  <2> HIDE DEF off
  <2>3. /\ Elsewhere(n, off, c) /\ Linked(n, off)
        /\ off.ready = n.ready /\ off.sock = n.sock /\ off.want = n.want
    BY <2>1, <2>2, SetStatus
  <2>4. /\ off.conn[c].m_closed = n.conn[c].m_closed /\ off.conn[c].m_status = "disconnected"
        /\ off.conn[c].written = n.conn[c].written /\ off.conn[c].m_iovecList = n.conn[c].m_iovecList
    BY <2>1, <2>2, SetStatus, Zenon
  <2>5. /\ off.conn[c].unfinished = n.conn[c].unfinished /\ off.conn[c].why = n.conn[c].why
        /\ off.conn[c].asked = n.conn[c].asked /\ off.conn[c].short = n.conn[c].short
    BY <2>1, <2>2, SetStatus
  <2> QED BY <2>3, <2>4, <2>5
<1>3. removeEvent(n, c) = n
  BY <1>0 DEF removeEvent, Mapped
<1>4. onClose(n, c, why) \in {n, off}
  <2>1. TcpOnClose(n, c) = n /\ UdpOnClose(n, c) = n
    BY Zenon DEF TcpOnClose, UdpOnClose
  <2>2. TcpOnClose(off, c) = off /\ UdpOnClose(off, c) = off
    <3> HIDE DEF off
    <3> QED BY <1>2 DEF TcpOnClose, UdpOnClose
  <2>3. TcpClientOnClose(n, c) = off
    BY <1>3, <2>2 DEF TcpClientOnClose, WithStatus
  <2>4. UdpClientOnClose(n, c) \in {n, off}
    BY <1>3, <2>2 DEF UdpClientOnClose, WithStatus
  <2>5. n.conn[c].kind \in {"accepted", "client", "udpserver", "udpclient"}
    BY <1>0, ConnTypes DEF StatusInv, Connections, Kinds
  <2> HIDE DEF off
  <2> QED BY <1>1, <2>1, <2>3, <2>4, <2>5, SMT
<1> HIDE DEF off
<1>5. Handled(n, off)
  <2>1. /\ off.conn[c].kind = n.conn[c].kind /\ off.fd[c] = n.fd[c] /\ n.stray \subseteq off.stray
        /\ off.watched = n.watched
    BY <1>2 DEF Elsewhere, Linked
  <2>2. BytesInv(off, c) /\ SocketInv(off, c)
    <3>1. BytesInv(n, c) /\ SocketInv(n, c)
      BY DEF Core
    <3>2. BytesInv(off, c)
      BY <1>2, <2>1, <3>1 DEF BytesInv, BytesOK
    <3>3. SocketInv(off, c)
      BY <1>2, <2>1, <3>1 DEF SocketInv, Udp
    <3> QED BY <3>2, <3>3
  <2>3. StatusInv(off, c)
    BY <1>0, <1>2, <2>1 DEF StatusInv
  <2>4. Ages(n, off, c)
    BY <1>2, <2>1 DEF Ages
  <2>5. KeepsAt(n, off, c)
    BY <1>2, <2>1 DEF KeepsAt, Space, Pending
  <2>6. off.ready \subseteq off.watched
    BY <1>2, <2>1 DEF Core, MapInv
  <2> QED BY <1>2, <2>2, <2>3, <2>4, <2>5, <2>6, QuietHandled, Zenon
<1> QED BY <1>2, <1>4, <1>5, SameHandled, Zenon

(* Whatever closes an object that was opened keeps what holds.               *)
LEMMA onCloseHandled ==
  ASSUME NEW n, Core(n), NEW c \in Conns, NEW why \in {"cause", "nothing"},
         why = "nothing" => c \in n.stray, n.fd[c] # NoFd \/ n.conn[c].m_closed
  PROVE  Handled(n, onClose(n, c, why)) /\ onClose(n, c, why).conn[c].m_closed
<1>1. n \in Nets => Elsewhere(n, n, c) /\ Linked(n, n)
  BY DEF Elsewhere, Linked
<1>2. CASE n.fd[c] # NoFd
  BY <1>1, <1>2, onCloseOpen DEF Core
<1>3. CASE n.conn[c].m_closed
  BY <1>3, onCloseClosed
<1> QED BY <1>2, <1>3

(* c and its socket with other values, and another count of bytes to ask for. *)
Put(n, a, c, k, s) == [n EXCEPT !.asks = a, !.conn[c] = k, !.sock[c] = s]

(* Put changes the object and the socket of one connection and the number of *)
(* bytes that may be asked for.                                              *)
LEMMA PutIs ==
  ASSUME NEW n \in Nets, NEW a \in Nat, NEW c \in Conns, NEW k \in Connections,
         k.kind = n.conn[c].kind, NEW s \in Sockets
  PROVE  LET m == Put(n, a, c, k, s) IN
         /\ Elsewhere(n, m, c) /\ Linked(n, m) /\ m.conn[c] = k /\ m.sock[c] = s /\ m.asks = a
         /\ m.ready = n.ready /\ m.want = n.want
<1> DEFINE m == Put(n, a, c, k, s)
<1>0. c \in All
  BY ConnTypes
<1>1. m \in Nets
  BY <1>0, Zenon DEF Nets, All, Put
<1>2. m.conn[c] = k /\ \A d \in Conns \ {c} : m.conn[d] = n.conn[d]
  BY DEF Nets, Put
<1>3. m.sock[c] = s /\ \A o \in All \ {c} : m.sock[o] = n.sock[o]
  BY <1>0 DEF Nets, All, Put
<1>4. /\ m.ready = n.ready /\ m.want = n.want /\ m.asks = a /\ Linked(n, m)
  BY DEF Nets, Put, Linked
<1>5. Elsewhere(n, m, c)
  BY <1>1, <1>2, <1>3, <1>4 DEF Nets, Elsewhere, Linked, Put
<1> QED
  BY <1>2, <1>3, <1>4, <1>5


(* What asking, queueing, writing and completing make of an object.          *)
AskedOf(k, i) == [k EXCEPT !.asked = @ + i, !.unfinished = @ + 1]
(* The changes that sending makes to an object and to its socket.            *)
QueuedOf(k, b) == [k EXCEPT !.m_iovecList = @ \o b]
(* The kernel takes b.                                                       *)
WrittenOf(k, b) == [k EXCEPT !.written = @ \o b]
(* The completion was called.                                                *)
CompleteOf(k) == [k EXCEPT !.unfinished = 0]
(* The socket holds i more.                                                  *)
FilledOf(s, i) == [s EXCEPT !.unsent = @ + i]

(* A call that failed took the error away.                                   *)
TriedOf(s) == [s EXCEPT !.taken = s.error]

(* Each of them is an object again.                                          *)
LEMMA ObjectFields ==
  ASSUME NEW k \in Connections
  PROVE  /\ \A i \in Nat : /\ AskedOf(k, i) \in Connections
                           /\ AskedOf(k, i) = [k EXCEPT !.asked = k.asked + i,
                                                       !.unfinished = k.unfinished + 1]
         /\ \A b \in Lists(Nat) : /\ QueuedOf(k, b) \in Connections
                           /\ QueuedOf(k, b) = [k EXCEPT !.m_iovecList = k.m_iovecList \o b]
         /\ \A b \in Seq(Nat) : /\ WrittenOf(k, b) \in Connections
                           /\ WrittenOf(k, b) = [k EXCEPT !.written = k.written \o b]
         /\ CompleteOf(k) \in Connections
         /\ CompleteOf(k) = [k EXCEPT !.unfinished = 0]
<1>1. ASSUME NEW b \in Lists(Nat) PROVE k.m_iovecList \o b \in Lists(Nat)
  <2>1. k.m_iovecList \in Seq(Seq(Nat)) /\ b \in Seq(Seq(Nat))
    BY DEF Lists, Connections
  <2>2. k.m_iovecList \o b \in Seq(Seq(Nat))
    BY <2>1, ConcatProperties
  <2> QED BY <2>2 DEF Lists
<1>2. ASSUME NEW b \in Seq(Nat) PROVE k.written \o b \in Seq(Nat)
  <2>1. k.written \in Seq(Nat)
    BY DEF Connections
  <2> QED BY <2>1
<1>3. ASSUME NEW i \in Nat PROVE AskedOf(k, i) \in Connections
  <2>1. k.asked + i \in Nat /\ k.unfinished + 1 \in Nat
    BY DEF Connections
  <2> DEFINE x == k.asked + i
             y == k.unfinished + 1
  <2>2. AskedOf(k, i) = [k EXCEPT !.asked = x, !.unfinished = y]
    BY DEF AskedOf
  <2> HIDE DEF x, y
  <2>3. x \in Nat /\ y \in Nat
    BY <2>1 DEF x, y
  <2> QED BY <2>2, <2>3, Zenon DEF Connections
<1>4. \A b \in Lists(Nat) : QueuedOf(k, b) \in Connections
  BY <1>1, Zenon DEF Connections, QueuedOf
<1>5. \A b \in Seq(Nat) : WrittenOf(k, b) \in Connections
  BY <1>2, Zenon DEF Connections, WrittenOf
<1>6. CompleteOf(k) \in Connections
  BY DEF Connections, CompleteOf
<1> QED BY <1>3, <1>4, <1>5, <1>6, Zenon DEF AskedOf, QueuedOf, WrittenOf, CompleteOf

(* The operations of sending, written as Put: asking.                        *)
LEMMA AskedPuts ==
  ASSUME NEW n \in Nets, NEW c \in Conns, NEW i \in Nat
  PROVE Asked(n, c, i) = Put(n, n.asks - i, c, AskedOf(n.conn[c], i), n.sock[c])
<1> DEFINE k == AskedOf(n.conn[c], i)
           x == n.asks - i
<1>1. c \in All BY ConnTypes
<1>2. Asked(n, c, i) = [n EXCEPT !.asks = x, !.conn[c] = k]
  BY Zenon DEF Asked, Nets, AskedOf
<1> HIDE DEF k, x
<1>3. [n EXCEPT !.asks = x, !.conn[c] = k] = [n EXCEPT !.asks = x, !.conn[c] = k, !.sock[c] = n.sock[c]]
  BY <1>1, Zenon DEF Nets, All
<1> QED BY <1>2, <1>3 DEF Put, k, x, AskedOf

(* Of two Puts the last one counts.                                          *)
LEMMA PutTwice ==
  ASSUME NEW n \in Nets, NEW c \in Conns, NEW a, NEW k, NEW s, NEW a2, NEW k2, NEW s2
  PROVE Put(Put(n, a, c, k, s), a2, c, k2, s2) = Put(n, a2, c, k2, s2)
<1> DEFINE x == [n.conn EXCEPT ![c] = k]
           y == [n.sock EXCEPT ![c] = s]
           x2 == [n.conn EXCEPT ![c] = k2]
           y2 == [n.sock EXCEPT ![c] = s2]
           m == [n EXCEPT !.asks = a, !.conn = x, !.sock = y]
<1>1. c \in All BY ConnTypes
<1>2. Put(n, a, c, k, s) = m
  BY <1>1 DEF Nets, All, Put
<1>3. Put(n, a2, c, k2, s2) = [n EXCEPT !.asks = a2, !.conn = x2, !.sock = y2]
  BY <1>1 DEF Nets, All, Put
<1>4. [x EXCEPT ![c] = k2] = x2 /\ [y EXCEPT ![c] = s2] = y2
  BY <1>1, Zenon DEF Nets, All
<1> HIDE DEF x, y, x2, y2
<1>5. m.conn = x /\ m.sock = y
  BY DEF Nets
<1>6. [m EXCEPT !.asks = a2, !.conn = x2, !.sock = y2] = [n EXCEPT !.asks = a2, !.conn = x2, !.sock = y2]
  BY Zenon DEF Nets
<1>7. Put(m, a2, c, k2, s2) = [m EXCEPT !.asks = a2, !.conn[c] = k2, !.sock[c] = s2]
  BY DEF Put
<1>8. Put(m, a2, c, k2, s2) = [m EXCEPT !.asks = a2, !.conn = x2, !.sock = y2]
  <2> HIDE DEF m
  <2> QED BY <1>4, <1>5, <1>7, Zenon
<1> QED BY <1>2, <1>3, <1>6, <1>8

(* Writing, as Put.                                                          *)
LEMMA WrittenPuts ==
  ASSUME NEW n \in Nets, NEW c \in Conns, NEW b
  PROVE Written(n, c, b) = Put(n, n.asks, c, WrittenOf(n.conn[c], b), FilledOf(n.sock[c], Len(b)))
<1> DEFINE k == WrittenOf(n.conn[c], b)
           s == FilledOf(n.sock[c], Len(b))
<1>1. c \in All BY ConnTypes
<1>2. Written(n, c, b) = [n EXCEPT !.conn[c] = k, !.sock[c] = s]
  BY <1>1 DEF Written, Nets, All, WrittenOf, FilledOf
<1> HIDE DEF k, s
<1>3. [n EXCEPT !.conn[c] = k, !.sock[c] = s] = [n EXCEPT !.asks = n.asks, !.conn[c] = k, !.sock[c] = s]
  BY <1>1, Zenon DEF Nets, All
<1> QED BY <1>2, <1>3 DEF Put, k, s, WrittenOf, FilledOf

(* Failing, as Put.                                                          *)
LEMMA TriedPuts ==
  ASSUME NEW n \in Nets, NEW c \in Conns, NEW a \in Nat, NEW k \in Connections, NEW s \in Sockets
  PROVE  Tried(Put(n, a, c, k, s), c) = Put(n, a, c, k, TriedOf(s))
<1>1. c \in All BY ConnTypes
<1>2. Put(n, a, c, k, s).sock[c] = s
  BY <1>1, Zenon DEF Put, Nets, All
<1> QED BY <1>1, <1>2, Zenon DEF Tried, Put, Nets, All, TriedOf

(* Completing, as Put.                                                       *)
LEMMA PutUnfinished ==
  ASSUME NEW n \in Nets, NEW c \in Conns, NEW a \in Nat, NEW k \in Connections, NEW s \in Sockets
  PROVE [Put(n, a, c, k, s) EXCEPT !.conn[c].unfinished = 0] = Put(n, a, c, CompleteOf(k), s)
<1>1. c \in All BY ConnTypes
<1> QED BY <1>1, Zenon DEF Put, Nets, All, CompleteOf
(* Changing nothing, as Put.                                                 *)
LEMMA SamePuts ==
  ASSUME NEW n \in Nets, NEW c \in Conns
  PROVE Put(n, n.asks, c, n.conn[c], n.sock[c]) = n
<1>1. c \in All BY ConnTypes
<1> QED BY <1>1, Zenon DEF Put, Nets, All
(* Queueing, as Put.                                                         *)
LEMMA PutQueued ==
  ASSUME NEW n \in Nets, NEW c \in Conns, NEW a \in Nat, NEW k \in Connections, NEW s \in Sockets, NEW b
  PROVE QueuedUnasked(Put(n, a, c, k, s), c, b) = Put(n, a, c, QueuedOf(k, b), s)
<1>1. c \in All BY ConnTypes
<1> QED BY <1>1, Zenon DEF Put, Nets, All, QueuedUnasked, QueuedOf

(* How sending and reading may change an object and its socket.              *)
Goes(n, c, k, s) ==
  /\ k \in Connections /\ BytesOK(k)
  /\ k.kind = n.conn[c].kind /\ k.m_closed = n.conn[c].m_closed
  /\ k.m_status = n.conn[c].m_status /\ k.why = n.conn[c].why
  /\ s \in Sockets /\ s.kind = n.sock[c].kind /\ s.fin = n.sock[c].fin
  /\ s.error = n.sock[c].error /\ s.unread \in {0, n.sock[c].unread}
  /\ (n.sock[c].taken => s.taken) /\ (s.taken => s.error)
  /\ n.sock[c].unsent <= s.unsent /\ s.unsent <= Room

-----------------------------------------------------------------------------
(* Sending.                                                                  *)

(* c may be given bytes to send.                                             *)
Sendable(n, c) ==
  n.fd[c] # NoFd /\ (n.conn[c].kind = "client" => n.conn[c].m_status = "connected")

(* A socket with space is one that poll calls writable.                      *)
LEMMA RoomForMore ==
  ASSUME NEW n \in Nets, NEW c \in Conns, Space(n, c) > 0
  PROVE  "OUT" \in Mask(n, c)
<1>1. n.sock[c].kind \in {"open", "datagram"} /\ n.sock[c].unsent < Room /\ c # Pipe
  BY ConnTypes, EventLoopAssumption DEF Space, Sockets, Pending
<1>2. Mask(n, c) = When(n.sock[c].unread > 0 \/ n.sock[c].fin, "IN")
                     \cup When(n.sock[c].unsent < Room, "OUT") \cup When(Pending(n.sock[c]), "ERR")
  BY <1>1 DEF Mask
<1> QED BY <1>1, <1>2 DEF When

(* A socket that holds more has space only if it had before.                 *)
LEMMA LessSpace ==
  ASSUME NEW n \in Nets, NEW m \in Nets, NEW c \in Conns, m.sock[c].kind = n.sock[c].kind,
         m.sock[c].error = n.sock[c].error, m.sock[c].taken = n.sock[c].taken,
         n.sock[c].unsent <= m.sock[c].unsent,
         Space(m, c) > 0
  PROVE  Space(n, c) > 0
<1>1. n.sock[c].unsent \in Nat /\ m.sock[c].unsent \in Nat /\ Room \in Nat
  BY ConnTypes, EventLoopAssumption DEF Sockets
<1> QED BY <1>1 DEF Space, Pending

(* What holds of c by itself when it changes so.                             *)
LEMMA GoesOn ==
  ASSUME NEW n, Core(n), NEW c \in Conns, Sendable(n, c), NEW k, NEW s, Goes(n, c, k, s),
         NEW m \in Nets, m.conn[c] = k, m.sock[c] = s, m.fd = n.fd, m.watched = n.watched,
         n.stray \subseteq m.stray
  PROVE  BytesInv(m, c) /\ StatusInv(m, c) /\ SocketInv(m, c) /\ Ages(n, m, c)
<1>1. BytesInv(m, c)
  BY DEF Goes, BytesInv
<1>2. StatusInv(m, c)
  <2>1. StatusInv(n, c)
    BY DEF Core
  <2> QED BY <2>1 DEF StatusInv, Goes, Sendable
<1>3. SocketInv(m, c)
  <2>1. SocketInv(n, c)
    BY DEF Core
  <2>2. Udp(m, c) <=> Udp(n, c)
    BY DEF Goes, Udp
  <2> QED BY <2>1, <2>2 DEF SocketInv, Goes
<1>4. Ages(n, m, c)
  BY DEF Ages, Goes, Gone, Owed, Pending
<1> QED BY <1>1, <1>2, <1>3, <1>4

(* Put is applied to what Goes allows.                                       *)
LEMMA PutGoes ==
  ASSUME NEW n, Core(n), NEW c \in Conns, NEW k, NEW s, Goes(n, c, k, s), NEW a \in Nat
  PROVE  LET m == Put(n, a, c, k, s) IN
         /\ Elsewhere(n, m, c) /\ Linked(n, m) /\ m.conn[c] = k /\ m.sock[c] = s
         /\ m.ready = n.ready /\ m.want = n.want
<1>1. n \in Nets /\ k \in Connections /\ s \in Sockets /\ k.kind = n.conn[c].kind
  BY DEF Core, Goes
<1> QED BY <1>1, PutIs

(* A send that queues nothing new is a handler's outcome.                    *)
LEMMA PutHandled ==
  ASSUME NEW n, Core(n), NEW c \in Conns, Sendable(n, c), NEW k, NEW s, Goes(n, c, k, s),
         NEW a \in Nat, k.m_iovecList # <<>> => n.conn[c].m_iovecList # <<>>,
         s.taken = n.sock[c].taken
  PROVE  /\ Handled(n, Put(n, a, c, k, s))
         /\ Put(n, a, c, k, s).conn[c].m_closed = n.conn[c].m_closed
<1> DEFINE m == Put(n, a, c, k, s)
<1>0. n \in Nets /\ k \in Connections /\ s \in Sockets /\ k.kind = n.conn[c].kind
  BY DEF Core, Goes
<1>1. /\ Elsewhere(n, m, c) /\ Linked(n, m) /\ m.conn[c] = k /\ m.sock[c] = s
      /\ m.ready = n.ready /\ m.want = n.want
  BY PutGoes
<1> HIDE DEF m
<1>2. m \in Nets /\ n.stray \subseteq m.stray /\ m.fd = n.fd /\ m.watched = n.watched
  BY <1>1 DEF Elsewhere, Linked
<1>3. BytesInv(m, c) /\ StatusInv(m, c) /\ SocketInv(m, c) /\ Ages(n, m, c)
  BY <1>1, <1>2, GoesOn
<1>4. KeepsAt(n, m, c)
  <2>1. Space(m, c) > 0 => Space(n, c) > 0
    BY <1>0, <1>1, <1>2, LessSpace DEF Goes
  <2> QED BY <1>1, <2>1 DEF KeepsAt
<1>5. m.ready \subseteq m.watched /\ m.conn[c].m_closed = n.conn[c].m_closed
  BY <1>1, <1>2 DEF Core, MapInv, Goes
<1>6. Handled(n, m)
  BY <1>1, <1>3, <1>4, <1>5, QuietHandled
<1> QED BY <1>5, <1>6 DEF m

(* So is a send that queues blocks, since it asks for EPOLLOUT.              *)
LEMMA QueuedHandled ==
  ASSUME NEW n, Core(n), NEW c \in Conns, Sendable(n, c), NEW k \in Connections, NEW s,
         NEW blocks \in Lists(Nat),
         Goes(n, c, QueuedOf(k, blocks), s),
         NEW a \in Nat
  PROVE  /\ Handled(n, Queued(Put(n, a, c, k, s), c, blocks))
         /\ Queued(Put(n, a, c, k, s), c, blocks).conn[c].m_closed = n.conn[c].m_closed
<1> DEFINE K == QueuedOf(k, blocks)
           q == Put(n, a, c, K, s)
           w == q.want[c] \cup {"OUT"}
           m == enableWriting(q, c, TRUE)
<1>0. n \in Nets /\ K \in Connections /\ s \in Sockets /\ K.kind = n.conn[c].kind
  BY DEF Core, Goes
<1>1. Queued(Put(n, a, c, k, s), c, blocks) = m
  <2>1. QueuedUnasked(Put(n, a, c, k, s), c, blocks) = q
    BY <1>0, PutQueued
  <2> QED BY <2>1, Zenon DEF Queued, QueuedUnasked
<1>a. Goes(n, c, K, s)
  OBVIOUS
<1> HIDE DEF K
<1>2. /\ Elsewhere(n, q, c) /\ Linked(n, q) /\ q.conn[c] = K /\ q.sock[c] = s
      /\ q.ready = n.ready /\ q.want = n.want
  BY <1>0, PutIs
<1> HIDE DEF q
<1>3. q \in Nets /\ w \in SUBSET {"IN", "OUT"} /\ c \in Objects
  BY <1>2, ConnTypes DEF Elsewhere
<1>4. m = IF Mapped(q, c) THEN Polled([q EXCEPT !.want[c] = w], c) ELSE q
  <2>1. c \in All
    BY ConnTypes, <1>0
  <2>2. [q EXCEPT !.want[c] = @ \cup {"OUT"}] = [q EXCEPT !.want[c] = w]
    BY <1>3, <2>1 DEF Nets, All
  <2> QED BY <2>2 DEF enableWriting
<1> HIDE DEF m
<1>5. /\ Elsewhere(q, m, c) /\ Linked(q, m) /\ m.conn = q.conn /\ m.sock = q.sock
      /\ q.ready \subseteq m.ready
      /\ c \in m.ready => c \in q.ready \/ c \in q.watched
      /\ "IN" \in q.want[c] => "IN" \in m.want[c]
      /\ c \in q.watched => "OUT" \in m.want[c]
      /\ c \in q.watched /\ "OUT" \in Mask(q, c) => c \in m.ready
  <2>1. CASE Mapped(q, c)
    <3> HIDE DEF w
    <3>1. m = Polled([q EXCEPT !.want[c] = w], c)
      BY <1>4, <2>1
    <3>2. /\ Elsewhere(q, m, c) /\ Linked(q, m)
          /\ m.conn = q.conn /\ m.sock = q.sock
          /\ m.want[c] = w /\ q.ready \subseteq m.ready
          /\ c \in m.ready => c \in q.ready \/ c \in q.watched
          /\ c \in q.watched /\ Mask(q, c) \cap w # {} => c \in m.ready
      BY <1>3, <3>1, PolledIs, Zenon
    <3> QED BY <3>2 DEF w
  <2>2. CASE ~Mapped(q, c)
    <3>1. m = q
      BY <1>4, <2>2
    <3>2. c \notin n.watched
      <4>1. c \in n.watched => n.fd[c] # NoFd /\ n.eventsMap[n.fd[c]] = c
        BY DEF Core, MapInv, Objects
      <4>2. c # None
        BY EventLoopAssumption
      <4> QED BY <1>2, <2>2, <4>1, <4>2 DEF Mapped, Linked
    <3> QED BY <1>2, <1>3, <3>1, <3>2 DEF Linked, Elsewhere
  <2> QED BY <2>1, <2>2
<1>6. Elsewhere(n, m, c) /\ Linked(n, m)
  BY <1>2, <1>5, ElsewhereTrans DEF Linked
<1>7. m \in Nets /\ n.stray \subseteq m.stray /\ m.fd = n.fd /\ m.watched = n.watched
  BY <1>6 DEF Elsewhere, Linked
<1>8. BytesInv(m, c) /\ StatusInv(m, c) /\ SocketInv(m, c) /\ Ages(n, m, c)
  BY <1>a, <1>2, <1>5, <1>7, GoesOn
<1>9. KeepsAt(n, m, c)
  <2>1. Space(m, c) > 0 => "OUT" \in Mask(q, c)
    <3>1. Space(m, c) = Space(q, c)
      BY <1>5 DEF Space, Pending
    <3> QED BY <1>3, <3>1, RoomForMore
  <2>2. q.watched = m.watched
    BY <1>5 DEF Linked
  <2> QED BY <1>2, <1>5, <2>1, <2>2 DEF KeepsAt, OutSettled
<1>10. m.ready \subseteq m.watched /\ m.conn[c].m_closed = n.conn[c].m_closed
  <2>1. m.conn[c].m_closed = n.conn[c].m_closed
    BY <1>a, <1>2, <1>5 DEF Goes
  <2>2. n.ready \subseteq n.watched /\ m.ready \subseteq All
    BY <1>7, Zenon DEF Core, MapInv, Nets, All
  <2>3. \A o \in All : o # c => (o \in m.ready <=> o \in n.ready)
    BY <1>6 DEF Elsewhere
  <2> QED BY <1>2, <1>5, <1>7, <2>1, <2>2, <2>3 DEF Linked
<1>11. Handled(n, m)
  BY <1>2, <1>5, <1>6, <1>8, <1>9, <1>10, QuietHandled
<1> QED BY <1>1, <1>10, <1>11

(* Numbers is a sequence.                                                    *)
LEMMA NumbersType ==
  ASSUME NEW k \in Nat
  PROVE  Numbers(k) \in Seq(Nat) /\ Len(Numbers(k)) = k
  BY DEF Numbers

(* So are the numbers of the next bytes.                                     *)
LEMMA NumberedType ==
  ASSUME NEW k \in Nat, NEW i \in Nat
  PROVE  /\ Numbered(k, i) \in Seq(Nat) /\ Len(Numbered(k, i)) = i
         /\ \A j \in 1 .. i : Numbered(k, i)[j] = k + j
  BY DEF Numbered

(* The next bytes continue it.                                               *)
LEMMA NumbersGrow ==
  ASSUME NEW k \in Nat, NEW i \in Nat
  PROVE  Numbers(k) \o Numbered(k, i) = Numbers(k + i)
<1> DEFINE l == Numbers(k) \o Numbered(k, i)
           r == Numbers(k + i)
<1>1. /\ l \in Seq(Nat) /\ Len(l) = k + i
      /\ \A j \in 1 .. k + i : l[j] = IF j <= k THEN Numbers(k)[j] ELSE Numbered(k, i)[j - k]
  <2>1. /\ Numbers(k) \in Seq(Nat) /\ Len(Numbers(k)) = k
        /\ Numbered(k, i) \in Seq(Nat) /\ Len(Numbered(k, i)) = i
    BY NumbersType, NumberedType
  <2> QED BY <2>1
<1>2. r \in Seq(Nat) /\ Len(r) = k + i
  BY NumbersType
<1>3. ASSUME NEW j \in 1 .. k + i PROVE l[j] = r[j]
  <2>1. j <= k => Numbers(k)[j] = j
    BY DEF Numbers
  <2>2. j > k => Numbered(k, i)[j - k] = k + (j - k)
    <3>1. j > k => j - k \in 1 .. i
      OBVIOUS
    <3> QED BY <3>1, NumberedType, Zenon
  <2>3. r[j] = j
    BY DEF Numbers
  <2> HIDE DEF l, r
  <2> QED BY <1>1, <2>1, <2>2, <2>3
<1> HIDE DEF l, r
<1>4. l = r
  BY <1>1, <1>2, <1>3, SeqEqual
<1> QED BY <1>4 DEF l, r

(* One more block of the bytes that come next.                               *)
LEMMA OneBlock ==
  ASSUME NEW b \in Seq(Nat)
  PROVE  /\ <<b>> \in Lists(Nat) /\ FlattenSeq(<<b>>) = b /\ <<b>> # <<>> /\ Len(<<b>>) = 1
         /\ <<b>>[1] = b
<1>1. <<>> \in Lists(Nat) /\ FlattenSeq(<<>>) = <<>>
  BY DEF Lists, FlattenSeq
<1>2. <<b>> = Append(<<>>, b)
  OBVIOUS
<1>3. Append(<<>>, b) \in Lists(Nat)
  BY <1>1, ListAppend, Zenon
<1>4. FlattenSeq(Append(<<>>, b)) = FlattenSeq(<<>>) \o b
  BY <1>1, FlattenAppend, Zenon
<1>5. <<>> \o b = b
  OBVIOUS
<1> QED BY <1>1, <1>2, <1>3, <1>4, <1>5, Zenon

(* sendInLoop's list: one block for each of the n bytes.                     *)
LEMMA NodesFlatten ==
  ASSUME NEW k \in Nat, NEW i \in {1, 2}
  PROVE  LET nodes == [j \in 1 .. i |-> <<k + j>>] IN
         /\ nodes \in Lists(Nat) /\ nodes # <<>> /\ FlattenSeq(nodes) = Numbered(k, i)
         /\ Len(nodes) = i
<1> DEFINE one == << <<k + 1>> >>
           two == Append(one, <<k + 2>>)
<1>1. <<k + 1>> \in Seq(Nat) /\ <<k + 2>> \in Seq(Nat)
  OBVIOUS
<1>2. one \in Lists(Nat) /\ FlattenSeq(one) = <<k + 1>> /\ one # <<>> /\ Len(one) = 1
  BY <1>1, OneBlock, Zenon
<1>3. CASE i = 1
  <2>1. [j \in 1 .. i |-> <<k + j>>] = one
    BY <1>3
  <2>2. Numbered(k, i) = <<k + 1>>
    BY <1>3 DEF Numbered
  <2> HIDE DEF one
  <2> QED BY <1>2, <1>3, <2>1, <2>2
<1>4. CASE i = 2
  <2>1. [j \in 1 .. i |-> <<k + j>>] = two
    BY <1>4
  <2>2. Numbered(k, i) = <<k + 1>> \o <<k + 2>>
    BY <1>4 DEF Numbered
  <2> HIDE DEF one
  <2>3. two \in Lists(Nat) /\ Len(two) = 2
    <3>1. two \in Lists(Nat) /\ Len(two) = Len(one) + 1
      BY <1>1, <1>2, ListAppend, Zenon
    <3> QED BY <1>2, <3>1
  <2>4. FlattenSeq(two) = FlattenSeq(one) \o <<k + 2>>
    BY <1>1, <1>2, FlattenAppend, Zenon
  <2>5. two # <<>>
    <3>1. Len(<<>>) = 0
      OBVIOUS
    <3> HIDE DEF two
    <3> QED BY <2>3, <3>1
  <2> HIDE DEF two
  <2> QED BY <1>2, <1>4, <2>1, <2>2, <2>3, <2>4, <2>5
<1> QED BY <1>3, <1>4

(* Queueing what was asked for next keeps the bytes in order.                *)
LEMMA QueueInOrder ==
  ASSUME NEW w \in Seq(Nat), NEW list \in Lists(Nat), NEW blocks \in Lists(Nat),
         NEW k \in Nat, NEW i \in Nat,
         w \o FlattenSeq(list) = Numbers(k), FlattenSeq(blocks) = Numbered(k, i)
  PROVE  w \o FlattenSeq(list \o blocks) = Numbers(k + i)
<1> DEFINE f == FlattenSeq(list)
           b == FlattenSeq(blocks)
<1>1. f \in Seq(Nat) /\ b \in Seq(Nat)
  BY FlattenType
<1>2. FlattenSeq(list \o blocks) = f \o b
  BY FlattenConcat
<1> HIDE DEF f, b
<1>3. w \o (f \o b) = (w \o f) \o b
  <2>1. w \in Seq(Nat) /\ f \in Seq(Nat) /\ b \in Seq(Nat)
    BY <1>1
  <2>2. (w \o f) \o b = w \o (f \o b)
    BY <2>1
  <2> QED BY <2>2
<1> QED BY <1>2, <1>3, NumbersGrow, Zenon DEF f, b

(* Two lists, one behind the other.                                          *)
LEMMA ListConcat ==
  ASSUME NEW list \in Lists(Nat), NEW blocks \in Lists(Nat)
  PROVE  /\ list \o blocks \in Lists(Nat)
         /\ blocks # <<>> => list \o blocks # <<>>
         /\ Len(list \o blocks) = Len(list) + Len(blocks)
         /\ \A j \in 1 .. Len(list) + Len(blocks) :
               (list \o blocks)[j] = IF j <= Len(list) THEN list[j] ELSE blocks[j - Len(list)]
<1>1. list \in Seq(Seq(Nat)) /\ blocks \in Seq(Seq(Nat))
  BY DEF Lists
<1>2. /\ list \o blocks \in Lists(Nat)
      /\ Len(list \o blocks) = Len(list) + Len(blocks)
      /\ \A j \in 1 .. Len(list) + Len(blocks) :
               (list \o blocks)[j] = IF j <= Len(list) THEN list[j] ELSE blocks[j - Len(list)]
  BY <1>1, ConcatProperties DEF Lists
<1>3. blocks # <<>> => Len(blocks) > 0 /\ Len(list) \in Nat /\ Len(blocks) \in Nat
  BY ListType
<1>4. Len(<<>>) = 0
  OBVIOUS
<1> QED BY <1>2, <1>3, <1>4

(* A datagram is asked for.                                                  *)
UdpAskedOf(k) == [k EXCEPT !.asked = @ + 1]
(* A direct write was cut short.                                             *)
ShortOf(k) == [k EXCEPT !.short = TRUE]

(* The two objects are the same but for the bytes.                           *)
Alike(x, k) ==
  /\ x.kind = k.kind /\ x.m_closed = k.m_closed /\ x.m_status = k.m_status /\ x.why = k.why

(* What each change does to each field.                                      *)
LEMMA ObjectValues ==
  ASSUME NEW k \in Connections
  PROVE  /\ \A i \in Nat : LET x == AskedOf(k, i) IN
               /\ x \in Connections /\ Alike(x, k)
               /\ x.asked = k.asked + i /\ x.unfinished = k.unfinished + 1
               /\ x.m_iovecList = k.m_iovecList /\ x.written = k.written /\ x.short = k.short
         /\ \A b \in Lists(Nat) : LET x == QueuedOf(k, b) IN
               /\ x \in Connections /\ Alike(x, k)
               /\ x.asked = k.asked /\ x.unfinished = k.unfinished
               /\ x.m_iovecList = k.m_iovecList \o b /\ x.written = k.written /\ x.short = k.short
         /\ \A b \in Seq(Nat) : LET x == WrittenOf(k, b) IN
               /\ x \in Connections /\ Alike(x, k)
               /\ x.asked = k.asked /\ x.unfinished = k.unfinished
               /\ x.m_iovecList = k.m_iovecList /\ x.written = k.written \o b /\ x.short = k.short
         /\ LET x == CompleteOf(k) IN
               /\ x \in Connections /\ Alike(x, k)
               /\ x.asked = k.asked /\ x.unfinished = 0
               /\ x.m_iovecList = k.m_iovecList /\ x.written = k.written /\ x.short = k.short
         /\ LET x == UdpAskedOf(k) IN
               /\ x \in Connections /\ Alike(x, k)
               /\ x.asked = k.asked + 1 /\ x.unfinished = k.unfinished
               /\ x.m_iovecList = k.m_iovecList /\ x.written = k.written /\ x.short = k.short
         /\ LET x == ShortOf(k) IN
               /\ x \in Connections /\ Alike(x, k)
               /\ x.asked = k.asked /\ x.unfinished = k.unfinished
               /\ x.m_iovecList = k.m_iovecList /\ x.written = k.written /\ x.short
<1>1. ASSUME NEW i \in Nat
      PROVE  LET x == AskedOf(k, i) IN
               /\ Alike(x, k)
               /\ x.asked = k.asked + i /\ x.unfinished = k.unfinished + 1
               /\ x.m_iovecList = k.m_iovecList /\ x.written = k.written /\ x.short = k.short
  BY DEF AskedOf, Connections, Alike
<1>2. ASSUME NEW b \in Lists(Nat)
      PROVE  LET x == QueuedOf(k, b) IN
               /\ Alike(x, k)
               /\ x.asked = k.asked /\ x.unfinished = k.unfinished
               /\ x.m_iovecList = k.m_iovecList \o b /\ x.written = k.written /\ x.short = k.short
  BY DEF QueuedOf, Connections, Alike
<1>3. ASSUME NEW b \in Seq(Nat)
      PROVE  LET x == WrittenOf(k, b) IN
               /\ Alike(x, k)
               /\ x.asked = k.asked /\ x.unfinished = k.unfinished
               /\ x.m_iovecList = k.m_iovecList /\ x.written = k.written \o b /\ x.short = k.short
  BY Zenon DEF WrittenOf, Connections, Alike
<1>4. LET x == CompleteOf(k) IN
               /\ Alike(x, k)
               /\ x.asked = k.asked /\ x.unfinished = 0
               /\ x.m_iovecList = k.m_iovecList /\ x.written = k.written /\ x.short = k.short
  BY DEF CompleteOf, Connections, Alike
<1>5. LET x == UdpAskedOf(k) IN
               /\ x \in Connections /\ Alike(x, k)
               /\ x.asked = k.asked + 1 /\ x.unfinished = k.unfinished
               /\ x.m_iovecList = k.m_iovecList /\ x.written = k.written /\ x.short = k.short
  <2>1. k.asked + 1 \in Nat
    BY DEF Connections
  <2> QED BY <2>1 DEF UdpAskedOf, Connections, Alike
<1>6. LET x == ShortOf(k) IN
               /\ x \in Connections /\ Alike(x, k)
               /\ x.asked = k.asked /\ x.unfinished = k.unfinished
               /\ x.m_iovecList = k.m_iovecList /\ x.written = k.written /\ x.short
  BY Zenon DEF ShortOf, Connections, Alike
<1> QED BY <1>1, <1>2, <1>3, <1>4, <1>5, <1>6, ObjectFields, Zenon

(* What filling does to a socket.                                            *)
LEMMA SocketFilled ==
  ASSUME NEW s \in Sockets, NEW i \in Nat
  PROVE  /\ FilledOf(s, i) \in Sockets /\ FilledOf(s, i).unsent = s.unsent + i
         /\ FilledOf(s, i).kind = s.kind /\ FilledOf(s, i).fin = s.fin
         /\ FilledOf(s, i).error = s.error /\ FilledOf(s, i).unread = s.unread
         /\ FilledOf(s, i).taken = s.taken
<1>1. s.unsent + i \in Nat
  BY DEF Sockets
<1> QED BY <1>1 DEF FilledOf, Sockets

(* What a call that failed does to it.                                       *)
LEMMA SocketTried ==
  ASSUME NEW s \in Sockets
  PROVE  /\ TriedOf(s) \in Sockets /\ TriedOf(s).unsent = s.unsent
         /\ TriedOf(s).kind = s.kind /\ TriedOf(s).fin = s.fin
         /\ TriedOf(s).error = s.error /\ TriedOf(s).unread = s.unread
         /\ TriedOf(s).taken = s.error
  BY DEF TriedOf, Sockets

(* An open object, as its bytes are concerned.                               *)
LEMMA OpenObject ==
  ASSUME NEW n, Core(n), NEW c \in Conns, Sendable(n, c)
  PROVE  /\ n \in Nets /\ ~n.conn[c].m_closed /\ n.conn[c] \in Connections /\ n.sock[c] \in Sockets
         /\ BytesOK(n.conn[c]) /\ n.sock[c].unsent <= Room
         /\ n.conn[c].asked \in Nat /\ n.conn[c].unfinished \in Nat
         /\ n.conn[c].m_iovecList \in Lists(Nat) /\ n.conn[c].written \in Seq(Nat)
         /\ n.sock[c].unsent \in Nat /\ n.asks \in Nat
         /\ n.sock[c].taken => n.sock[c].error
<1>1. n \in Nets /\ StatusInv(n, c) /\ SocketInv(n, c) /\ BytesInv(n, c)
  BY DEF Core
<1>2. n.conn[c] \in Connections /\ n.sock[c] \in Sockets
  BY <1>1, ConnTypes
<1>3. /\ ~n.conn[c].m_closed /\ BytesOK(n.conn[c]) /\ n.sock[c].unsent <= Room /\ n.asks \in Nat
      /\ n.sock[c].taken => n.sock[c].error
  BY <1>1 DEF StatusInv, SocketInv, BytesInv, Sendable, Nets
<1> QED BY <1>1, <1>2, <1>3 DEF Connections, Sockets

(* TcpConnection::sendInLoop of a list.                                      *)
LEMMA SendListHandled ==
  ASSUME NEW n, Core(n), NEW c \in Conns, Sendable(n, c), ~Udp(n, c),
         NEW i \in {1, 2}, i <= n.asks
  PROVE  Handled(n, SendList(n, c, i))
<1> DEFINE k == n.conn[c]
           s == n.sock[c]
           nodes == [j \in 1 .. i |-> <<k.asked + j>>]
           a == AskedOf(k, i)
           q == QueuedOf(a, nodes)
<1>1. /\ n \in Nets /\ ~k.m_closed /\ k \in Connections /\ s \in Sockets
      /\ BytesOK(k) /\ s.unsent <= Room
      /\ k.asked \in Nat /\ k.unfinished \in Nat
      /\ k.m_iovecList \in Lists(Nat) /\ k.written \in Seq(Nat)
      /\ s.unsent \in Nat /\ n.asks \in Nat
  BY OpenObject
<1>0. i \in Nat
  OBVIOUS
<1>2. k.kind \notin {"udpserver", "udpclient"}
  BY DEF Udp
<1>3. SendList(n, c, i) = Queued(Put(n, n.asks - i, c, a, s), c, nodes)
  BY <1>1, AskedPuts DEF SendList
<1> HIDE DEF k, s
<1>4. nodes \in Lists(Nat) /\ nodes # <<>> /\ FlattenSeq(nodes) = Numbered(k.asked, i)
  BY <1>1, NodesFlatten, Zenon
<1> HIDE DEF nodes
<1>5. /\ a \in Connections /\ Alike(a, k)
      /\ a.asked = k.asked + i /\ a.unfinished = k.unfinished + 1
      /\ a.m_iovecList = k.m_iovecList /\ a.written = k.written /\ a.short = k.short
  BY <1>0, <1>1, ObjectValues
<1> HIDE DEF a
<1>6. /\ q \in Connections /\ Alike(q, a)
      /\ q.asked = a.asked /\ q.unfinished = a.unfinished
      /\ q.m_iovecList = a.m_iovecList \o nodes /\ q.written = a.written /\ q.short = a.short
  BY <1>4, <1>5, ObjectValues, Zenon
<1> HIDE DEF q
<1>7. BytesOK(q)
  <2>1. q.m_iovecList # <<>> /\ q.kind = k.kind /\ q.m_closed = k.m_closed
    BY <1>1, <1>4, <1>5, <1>6, ListConcat DEF Alike
  <2>2. ~k.short => q.written \o FlattenSeq(q.m_iovecList) = Numbers(q.asked)
    <3>1. ~k.short => k.written \o FlattenSeq(k.m_iovecList) = Numbers(k.asked)
      BY <1>1, Zenon DEF BytesOK
    <3>2. ~k.short => k.written \o FlattenSeq(k.m_iovecList \o nodes) = Numbers(k.asked + i)
      <4> SUFFICES ASSUME ~k.short
                   PROVE  k.written \o FlattenSeq(k.m_iovecList \o nodes) = Numbers(k.asked + i)
        OBVIOUS
      <4>1. /\ k.written \in Seq(Nat) /\ k.m_iovecList \in Lists(Nat) /\ k.asked \in Nat
            /\ k.written \o FlattenSeq(k.m_iovecList) = Numbers(k.asked)
        BY <1>1, <3>1, Zenon
      <4> QED BY <1>0, <1>4, <4>1, QueueInOrder, Zenon
    <3> QED BY <1>5, <1>6, <3>2, Zenon
  <2> QED BY <1>1, <1>2, <1>5, <1>6, <2>1, <2>2, Zenon DEF BytesOK
<1>e. s.taken => s.error
  BY OpenObject DEF s
<1>8. Goes(n, c, q, s)
  BY <1>1, <1>e, <1>5, <1>6, <1>7 DEF Goes, Alike, k, s
<1>9. n.asks - i \in Nat
  BY <1>1
<1>10. Handled(n, Queued(Put(n, n.asks - i, c, a, s), c, nodes))
  BY <1>4, <1>5, <1>8, <1>9, QueuedHandled DEF q
<1> QED BY <1>3, <1>10

(* TcpConnection::sendInLoop of one block, with its direct write.            *)
LEMMA SentDataHandled ==
  ASSUME NEW n, Core(n), NEW c \in Conns, Sendable(n, c), ~Udp(n, c),
         NEW i \in {1, 2}, i <= n.asks
  PROVE  Handled(n, SentData(n, c, i)) /\ ~SentData(n, c, i).conn[c].m_closed
<1> DEFINE k == n.conn[c]
           s == n.sock[c]
           data == Numbered(k.asked, i)
           a == AskedOf(k, i)
           x == n.asks - i
           took == Smaller(i, Space(n, c))
           rest == IF took = 0 THEN Append(data, Junk) ELSE SubSeq(data, 1, i - took)
<1>1. /\ n \in Nets /\ ~k.m_closed /\ k \in Connections /\ s \in Sockets
      /\ BytesOK(k) /\ s.unsent <= Room
      /\ k.asked \in Nat /\ k.unfinished \in Nat
      /\ k.m_iovecList \in Lists(Nat) /\ k.written \in Seq(Nat)
      /\ s.unsent \in Nat /\ n.asks \in Nat
  BY OpenObject
<1>0. i \in Nat
  OBVIOUS
<1>2. k.kind \notin {"udpserver", "udpclient"}
  BY DEF Udp
<1>3. SentData(n, c, i) =
        IF k.m_iovecList # <<>> THEN Queued(Put(n, x, c, a, s), c, <<data>>)
        ELSE IF took = i
        THEN Written([Put(n, x, c, a, s) EXCEPT !.conn[c].unfinished = 0], c, data)
        ELSE Queued([IF took = 0 THEN Tried(Put(n, x, c, a, s), c)
                     ELSE Written(Put(n, x, c, a, s), c, SubSeq(data, 1, took)) EXCEPT
                        !.conn[c].short = TRUE], c, <<rest>>)
  BY <1>1, AskedPuts, Zenon DEF SentData
<1>4. took \in 0 .. i /\ s.unsent + took <= Room
  <2>1. Room \in Nat /\ i \in Nat
    BY EventLoopAssumption
  <2>2. Space(n, c) \in Nat /\ s.unsent + Space(n, c) <= Room
    BY <1>1, <2>1 DEF Space, Pending
  <2> HIDE DEF s
  <2> QED BY <1>1, <2>1, <2>2 DEF Smaller
<1>5. data \in Seq(Nat) /\ Len(data) = i
  BY <1>0, <1>1, NumberedType, Zenon
<1>e. (s.taken => s.error) /\ ~n.conn[c].m_closed
  BY OpenObject DEF s
<1> HIDE DEF k, s, took
<1>6. /\ a \in Connections /\ Alike(a, k)
      /\ a.asked = k.asked + i /\ a.unfinished = k.unfinished + 1
      /\ a.m_iovecList = k.m_iovecList /\ a.written = k.written /\ a.short = k.short
  BY <1>0, <1>1, ObjectValues
<1>7. x \in Nat
  BY <1>1
<1>8. ~k.short => k.written \o FlattenSeq(k.m_iovecList) = Numbers(k.asked)
  BY <1>1, Zenon DEF BytesOK
<1> HIDE DEF a, x
<1>9. CASE k.m_iovecList # <<>>
  <2> DEFINE q == QueuedOf(a, <<data>>)
  <2>1. <<data>> \in Lists(Nat) /\ FlattenSeq(<<data>>) = data /\ <<data>> # <<>>
    BY <1>5, OneBlock
  <2>2. /\ q \in Connections /\ Alike(q, a)
        /\ q.asked = a.asked /\ q.unfinished = a.unfinished
        /\ q.m_iovecList = a.m_iovecList \o <<data>> /\ q.written = a.written /\ q.short = a.short
    BY <1>6, <2>1, ObjectValues, Zenon
  <2> HIDE DEF q
  <2>3. BytesOK(q)
    <3>1. q.m_iovecList # <<>> /\ q.kind = k.kind /\ q.m_closed = k.m_closed
      BY <1>1, <1>6, <2>1, <2>2, ListConcat DEF Alike
    <3>2. ~k.short => q.written \o FlattenSeq(q.m_iovecList) = Numbers(q.asked)
      <4>1. ~k.short => k.written \o FlattenSeq(k.m_iovecList \o <<data>>) = Numbers(k.asked + i)
        <5> SUFFICES ASSUME ~k.short
                     PROVE  k.written \o FlattenSeq(k.m_iovecList \o <<data>>) = Numbers(k.asked + i)
          OBVIOUS
        <5>1. /\ k.written \in Seq(Nat) /\ k.m_iovecList \in Lists(Nat) /\ k.asked \in Nat
              /\ k.written \o FlattenSeq(k.m_iovecList) = Numbers(k.asked)
          BY <1>1, <1>8, Zenon
        <5>2. <<data>> \in Lists(Nat) /\ FlattenSeq(<<data>>) = Numbered(k.asked, i)
          BY <2>1
        <5> HIDE DEF data
        <5> QED BY <1>0, <5>1, <5>2, QueueInOrder, Zenon
      <4> QED BY <1>6, <2>2, <4>1, Zenon
    <3> QED BY <1>1, <1>2, <1>6, <2>2, <3>1, <3>2, Zenon DEF BytesOK
  <2>4. Goes(n, c, q, s)
    BY <1>1, <1>e, <1>6, <2>2, <2>3 DEF Goes, Alike, k, s
  <2>5. /\ Handled(n, Queued(Put(n, x, c, a, s), c, <<data>>))
        /\ ~Queued(Put(n, x, c, a, s), c, <<data>>).conn[c].m_closed
    <3> HIDE DEF data
    <3> QED BY <1>e, <1>6, <1>7, <2>1, <2>4, QueuedHandled DEF q
  <2> QED BY <1>3, <1>9, <2>5
<1>10. CASE k.m_iovecList = <<>> /\ took = i
  <2> DEFINE d == CompleteOf(a)
             w == WrittenOf(d, data)
             f == FilledOf(s, i)
             p == Put(n, x, c, d, s)
  <2>1. /\ d \in Connections /\ Alike(d, a)
        /\ d.asked = a.asked /\ d.unfinished = 0
        /\ d.m_iovecList = a.m_iovecList /\ d.written = a.written /\ d.short = a.short
    BY <1>6, ObjectValues
  <2> HIDE DEF d
  <2>2. /\ w \in Connections /\ Alike(w, d)
        /\ w.asked = d.asked /\ w.unfinished = d.unfinished
        /\ w.m_iovecList = d.m_iovecList /\ w.written = d.written \o data /\ w.short = d.short
    BY <1>5, <2>1, ObjectValues, Zenon
  <2>3. /\ f \in Sockets /\ f.unsent = s.unsent + i
        /\ f.kind = s.kind /\ f.fin = s.fin
        /\ f.error = s.error /\ f.unread = s.unread /\ f.taken = s.taken
    BY <1>0, <1>1, SocketFilled
  <2>4. SentData(n, c, i) = Put(n, x, c, w, f)
    <3>1. [Put(n, x, c, a, s) EXCEPT !.conn[c].unfinished = 0] = p
      BY <1>1, <1>6, <1>7, PutUnfinished DEF d
    <3>2. d.kind = n.conn[c].kind
      BY <1>6, <2>1 DEF Alike, k
    <3>3. p \in Nets /\ p.asks = x /\ p.conn[c] = d /\ p.sock[c] = s
      <4>1. n \in Nets /\ d \in Connections /\ s \in Sockets /\ x \in Nat
        BY <1>1, <1>7, <2>1
      <4>2. Elsewhere(n, p, c) /\ p.conn[c] = d /\ p.sock[c] = s /\ p.asks = x
        BY <3>2, <4>1, PutIs
      <4> HIDE DEF p
      <4> QED BY <4>2 DEF Elsewhere
    <3>4. SentData(n, c, i) = Written(p, c, data)
      BY <1>3, <1>10, <3>1
    <3> HIDE DEF p
    <3>5. Written(p, c, data) = Put(p, x, c, w, f)
      BY <1>5, <3>3, WrittenPuts
    <3>6. Put(p, x, c, w, f) = Put(n, x, c, w, f)
      BY <1>1, PutTwice DEF p
    <3> QED BY <3>4, <3>5, <3>6
  <2> HIDE DEF w, f
  <2>5. BytesOK(w)
    <3>1. w.m_iovecList = <<>> /\ w.kind = k.kind /\ w.m_closed = k.m_closed /\ w.unfinished = 0
      BY <1>6, <1>10, <2>1, <2>2 DEF Alike
    <3>2. ~k.short => w.written \o FlattenSeq(w.m_iovecList) = Numbers(w.asked)
      <4>1. w.written \o FlattenSeq(w.m_iovecList) = k.written \o data
        <5>1. FlattenSeq(w.m_iovecList) = <<>>
          BY <3>1 DEF FlattenSeq
        <5>2. w.written \in Seq(Nat)
          BY <2>2, Zenon DEF Connections
        <5> QED BY <1>6, <2>1, <2>2, <5>1, <5>2
      <4>2. ~k.short => k.written = Numbers(k.asked)
        <5>1. FlattenSeq(k.m_iovecList) = <<>>
          BY <1>10 DEF FlattenSeq
        <5> QED BY <1>1, <1>8, <5>1
      <4>3. Numbers(k.asked) \o data = Numbers(k.asked + i)
        BY <1>1, NumbersGrow, Zenon
      <4> QED BY <1>6, <2>1, <2>2, <4>1, <4>2, <4>3, Zenon
    <3>3. w.short = k.short
      BY <1>6, <2>1, <2>2
    <3> QED BY <1>1, <1>2, <3>1, <3>2, <3>3 DEF BytesOK
  <2>6. Goes(n, c, w, f) /\ w.m_iovecList = <<>> /\ f.taken = n.sock[c].taken
    BY <1>1, <1>e, <1>4, <1>6, <1>10, <2>1, <2>2, <2>3, <2>5 DEF Goes, Alike, k, s
  <2> QED BY <1>e, <1>7, <2>4, <2>6, PutHandled
<1>11. CASE k.m_iovecList = <<>> /\ took # i
  <2> DEFINE front == SubSeq(data, 1, took)
             w == IF took = 0 THEN a ELSE WrittenOf(a, front)
             f == IF took = 0 THEN TriedOf(s) ELSE FilledOf(s, took)
             h == ShortOf(w)
             q == QueuedOf(h, <<rest>>)
             p == Put(n, x, c, a, s)
  <2>1. front \in Seq(Nat) /\ Len(front) = took /\ rest \in Seq(Nat)
    <3>1. rest \in Seq(Nat)
      <4>1. Append(data, Junk) \in Seq(Nat)
        BY <1>5 DEF Junk
      <4>2. SubSeq(data, 1, i - took) \in Seq(Nat)
        BY <1>4, <1>5
      <4> QED BY <4>1, <4>2
    <3> QED BY <1>4, <1>5, <3>1
  <2>2. /\ w \in Connections /\ Alike(w, a)
        /\ w.asked = a.asked /\ w.unfinished = a.unfinished
        /\ w.m_iovecList = a.m_iovecList /\ w.short = a.short
    <3>1. /\ WrittenOf(a, front) \in Connections /\ Alike(WrittenOf(a, front), a)
          /\ WrittenOf(a, front).asked = a.asked /\ WrittenOf(a, front).unfinished = a.unfinished
          /\ WrittenOf(a, front).m_iovecList = a.m_iovecList /\ WrittenOf(a, front).short = a.short
      BY <1>6, <2>1, ObjectValues, Zenon
    <3> QED BY <1>6, <3>1 DEF Alike
  <2>3. /\ f \in Sockets /\ f.unsent = s.unsent + took
        /\ f.kind = s.kind /\ f.fin = s.fin
        /\ f.error = s.error /\ f.unread = s.unread
        /\ (s.taken => f.taken) /\ (f.taken => f.error)
    <3>1. took \in Nat
      BY <1>4
    <3>2. CASE took = 0
      <4>1. f = TriedOf(s) /\ s.unsent + took = s.unsent
        BY <1>1, <3>2
      <4> HIDE DEF f
      <4> QED BY <1>1, <1>e, <4>1, SocketTried
    <3>3. CASE took # 0
      <4>1. f = FilledOf(s, took)
        BY <3>3
      <4> HIDE DEF f
      <4> QED BY <1>1, <1>e, <3>1, <4>1, SocketFilled
    <3> QED BY <3>2, <3>3
  <2> HIDE DEF front, rest
  <2>4. (IF took = 0 THEN Tried(p, c) ELSE Written(p, c, front)) = Put(n, x, c, w, f)
    <3>1. a.kind = n.conn[c].kind
      BY <1>6 DEF Alike, k
    <3>2. p \in Nets /\ p.asks = x /\ p.conn[c] = a /\ p.sock[c] = s
      BY <1>1, <1>6, <1>7, <3>1, PutIs DEF Elsewhere
    <3>5. Tried(p, c) = Put(n, x, c, a, TriedOf(s))
      BY <1>1, <1>6, <1>7, TriedPuts
    <3> HIDE DEF p
    <3> DEFINE v == WrittenOf(a, front)
               g == FilledOf(s, took)
    <3>3. Written(p, c, front) = Put(p, x, c, v, g)
      BY <2>1, <3>2, WrittenPuts, Zenon
    <3>4. Put(p, x, c, v, g) = Put(n, x, c, v, g)
      BY <1>1, PutTwice DEF p
    <3> QED BY <3>3, <3>4, <3>5
  <2> HIDE DEF w, f
  <2>5. /\ h \in Connections /\ Alike(h, w)
        /\ h.asked = w.asked /\ h.unfinished = w.unfinished
        /\ h.m_iovecList = w.m_iovecList /\ h.written = w.written /\ h.short
    BY <2>2, ObjectValues
  <2>6. [Put(n, x, c, w, f) EXCEPT !.conn[c].short = TRUE] = Put(n, x, c, h, f)
    <3>1. c \in All
      BY <1>1, ConnTypes
    <3> QED BY <1>1, <1>7, <2>2, <2>3, <3>1, Zenon DEF Put, Nets, All, ShortOf
  <2> HIDE DEF h
  <2>7. SentData(n, c, i) = Queued(Put(n, x, c, h, f), c, <<rest>>)
    BY <1>3, <1>11, <2>4, <2>6, Zenon DEF front, rest
  <2>8. <<rest>> \in Lists(Nat) /\ <<rest>> # <<>>
    BY <2>1, OneBlock
  <2>9. /\ q \in Connections /\ Alike(q, h)
        /\ q.unfinished = h.unfinished
        /\ q.m_iovecList = h.m_iovecList \o <<rest>> /\ q.short = h.short
    BY <2>5, <2>8, ObjectValues, Zenon
  <2> HIDE DEF q
  <2>10. BytesOK(q)
    <3>1. q.m_iovecList # <<>> /\ q.kind = k.kind /\ q.m_closed = k.m_closed /\ q.short
      BY <1>1, <1>6, <2>2, <2>5, <2>8, <2>9, ListConcat DEF Alike
    <3> QED BY <1>1, <1>2, <3>1 DEF BytesOK
  <2>11. Goes(n, c, q, f)
    BY <1>1, <1>4, <1>6, <2>2, <2>3, <2>5, <2>9, <2>10 DEF Goes, Alike, k, s
  <2>12. /\ Handled(n, Queued(Put(n, x, c, h, f), c, <<rest>>))
         /\ ~Queued(Put(n, x, c, h, f), c, <<rest>>).conn[c].m_closed
    BY <1>e, <1>7, <2>5, <2>8, <2>11, QueuedHandled DEF q
  <2> QED BY <2>7, <2>12
<1> QED BY <1>9, <1>10, <1>11

(* What the program sends when a write is complete.                          *)
LEMMA CompletedHandled ==
  ASSUME NEW n, Core(n), NEW c \in Conns, Sendable(n, c), ~Udp(n, c),
         n.conn[c].m_iovecList = <<>>, NEW m \in Completed(n, c)
  PROVE  Handled(n, m)
<1>1. /\ n \in Nets /\ n.conn[c] \in Connections /\ BytesOK(n.conn[c])
      /\ n.conn[c].unfinished \in Nat /\ n.asks \in Nat
  BY OpenObject
<1>2. n.conn[c].unfinished = 0
  BY <1>1 DEF BytesOK
<1>3. [n EXCEPT !.conn[c].unfinished = 0] = n
  <2>1. [n.conn[c] EXCEPT !.unfinished = 0] = n.conn[c]
    BY <1>1, <1>2 DEF Connections
  <2>2. [n EXCEPT !.conn[c].unfinished = 0] = [n EXCEPT !.conn[c] = n.conn[c]]
    BY <1>1, <2>1, Zenon DEF Nets
  <2> QED BY <1>1, <2>2, Zenon DEF Nets
<1>4. m \in {n} \cup IF MayAsk(n, 1) THEN {SendList(n, c, 1), SentData(n, c, 1)} ELSE {}
  BY <1>3, Zenon DEF Completed
<1>5. CASE m = n
  BY <1>5, SameHandled
<1>6. CASE MayAsk(n, 1) /\ m \in {SendList(n, c, 1), SentData(n, c, 1)}
  BY <1>1, <1>6, SendListHandled, SentDataHandled DEF MayAsk
<1> QED BY <1>4, <1>5, <1>6

(* sendInLoop of one block, with the completion it may call.                 *)
LEMMA SendDataHandled ==
  ASSUME NEW n, Core(n), NEW c \in Conns, Sendable(n, c), ~Udp(n, c),
         NEW i \in {1, 2}, i <= n.asks, NEW m \in SendData(n, c, i)
  PROVE  Handled(n, m)
<1> DEFINE sent == SentData(n, c, i)
<1>1. Handled(n, sent) /\ ~sent.conn[c].m_closed
  BY SentDataHandled
<1>2. m \in IF sent.conn[c].m_iovecList = <<>> THEN Completed(sent, c) ELSE {sent}
  BY DEF SendData
<1> HIDE DEF sent
<1>3. Core(sent) /\ Sendable(sent, c) /\ ~Udp(sent, c)
  BY <1>1 DEF Handled, Ages, Sendable, Udp
<1>4. CASE sent.conn[c].m_iovecList = <<>>
  <2>1. Handled(sent, m)
    BY <1>2, <1>3, <1>4, CompletedHandled
  <2> QED BY <1>1, <2>1, HandledTrans
<1>5. CASE sent.conn[c].m_iovecList # <<>>
  BY <1>1, <1>2, <1>5
<1> QED BY <1>4, <1>5

(* UdpSocket::udpSendInLoop.                                                 *)
LEMMA UdpSendDataHandled ==
  ASSUME NEW n, Core(n), NEW c \in Conns, Sendable(n, c), Udp(n, c), 1 <= n.asks
  PROVE  /\ Handled(n, UdpSendData(n, c)) /\ Handled(n, UdpSendList(n, c))
         /\ ~UdpSendData(n, c).conn[c].m_closed /\ ~UdpSendList(n, c).conn[c].m_closed
<1> DEFINE k == n.conn[c]
           s == n.sock[c]
           data == Numbered(k.asked, 1)
           a == UdpAskedOf(k)
           x == n.asks - 1
           w == WrittenOf(a, data)
           f == FilledOf(s, 1)
           q == QueuedOf(a, <<data>>)
           p == Put(n, x, c, a, s)
<1>1. /\ n \in Nets /\ ~k.m_closed /\ k \in Connections /\ s \in Sockets
      /\ BytesOK(k) /\ s.unsent <= Room
      /\ k.asked \in Nat /\ k.unfinished \in Nat
      /\ k.m_iovecList \in Lists(Nat) /\ k.written \in Seq(Nat)
      /\ s.unsent \in Nat /\ n.asks \in Nat
  BY OpenObject
<1>2. k.kind \in {"udpserver", "udpclient"}
  BY DEF Udp
<1>3. [n EXCEPT !.asks = @ - 1, !.conn[c].asked = @ + 1] = p
  <2>1. c \in All
    BY <1>1, ConnTypes
  <2>2. [n EXCEPT !.asks = @ - 1, !.conn[c].asked = @ + 1] = [n EXCEPT !.asks = x, !.conn[c] = a]
    BY <1>1 DEF Nets, UdpAskedOf
  <2> HIDE DEF x, a
  <2>3. [n EXCEPT !.asks = x, !.conn[c] = a] = [n EXCEPT !.asks = x, !.conn[c] = a, !.sock[c] = n.sock[c]]
    BY <1>1, <2>1, Zenon DEF Nets, All
  <2> QED BY <2>2, <2>3 DEF Put
<1>4. /\ UdpSendData(n, c) = IF k.m_iovecList # <<>> THEN Queued(p, c, <<data>>)
                             ELSE IF Space(n, c) > 0 THEN Written(p, c, data)
                             ELSE Queued(Tried(p, c), c, <<data>>)
      /\ UdpSendList(n, c) = Queued(p, c, <<data>>)
  BY <1>3 DEF UdpSendData, UdpSendList
<1>5. data \in Seq(Nat) /\ Len(data) = 1
  BY <1>1, NumberedType, Zenon
<1>s. Space(n, c) > 0 => s.unsent + 1 <= Room
  BY <1>1, EventLoopAssumption DEF Space, Pending
<1>t. ~n.conn[c].m_closed
  BY <1>1
<1>e. s.taken => s.error
  BY OpenObject
<1> HIDE DEF k, s
<1>6. /\ a \in Connections /\ Alike(a, k)
      /\ a.asked = k.asked + 1 /\ a.unfinished = k.unfinished
      /\ a.m_iovecList = k.m_iovecList /\ a.written = k.written /\ a.short = k.short
  BY <1>1, ObjectValues
<1>7. x \in Nat
  BY <1>1
<1>8. /\ ~k.short => k.written \o FlattenSeq(k.m_iovecList) = Numbers(k.asked)
      /\ k.unfinished = 0 /\ \A i \in 1 .. Len(k.m_iovecList) : Len(k.m_iovecList[i]) = 1
  BY <1>1, <1>2, Zenon DEF BytesOK
<1> HIDE DEF a, x
<1>u. Tried(p, c) = Put(n, x, c, a, TriedOf(s))
  BY <1>1, <1>6, <1>7, TriedPuts
<1>9. ASSUME NEW g \in {s, TriedOf(s)}
      PROVE  LET r == Queued(Put(n, x, c, a, g), c, <<data>>)
             IN  Handled(n, r) /\ ~r.conn[c].m_closed
  <2>1. /\ <<data>> \in Lists(Nat) /\ FlattenSeq(<<data>>) = data /\ <<data>> # <<>>
        /\ Len(<<data>>) = 1 /\ <<data>>[1] = data
    BY <1>5, OneBlock
  <2>2. /\ q \in Connections /\ Alike(q, a)
        /\ q.asked = a.asked /\ q.unfinished = a.unfinished
        /\ q.m_iovecList = a.m_iovecList \o <<data>> /\ q.written = a.written /\ q.short = a.short
    BY <1>6, <2>1, ObjectValues, Zenon
  <2> HIDE DEF q
  <2>3. BytesOK(q)
    <3>1. q.m_iovecList # <<>> /\ q.kind = k.kind /\ q.m_closed = k.m_closed
      BY <1>1, <1>6, <2>1, <2>2, ListConcat DEF Alike
    <3>2. ~k.short => q.written \o FlattenSeq(q.m_iovecList) = Numbers(q.asked)
      <4> SUFFICES ASSUME ~k.short
                   PROVE  k.written \o FlattenSeq(k.m_iovecList \o <<data>>) = Numbers(k.asked + 1)
        BY <1>6, <2>2, Zenon
      <4>1. /\ k.written \in Seq(Nat) /\ k.m_iovecList \in Lists(Nat) /\ k.asked \in Nat
            /\ k.written \o FlattenSeq(k.m_iovecList) = Numbers(k.asked) /\ 1 \in Nat
        BY <1>1, <1>8, Zenon
      <4>2. <<data>> \in Lists(Nat) /\ FlattenSeq(<<data>>) = Numbered(k.asked, 1)
        BY <2>1
      <4> HIDE DEF data
      <4> QED BY <4>1, <4>2, QueueInOrder, Zenon
    <3>3. \A i \in 1 .. Len(q.m_iovecList) : Len(q.m_iovecList[i]) = 1
      <4> HIDE DEF data
      <4>1. Len(k.m_iovecList) \in Nat
        BY <1>1, ListType
      <4>2. /\ Len(q.m_iovecList) = Len(k.m_iovecList) + 1
            /\ \A j \in 1 .. Len(k.m_iovecList) + 1 :
                  q.m_iovecList[j] = IF j <= Len(k.m_iovecList) THEN k.m_iovecList[j]
                                     ELSE <<data>>[j - Len(k.m_iovecList)]
        BY <1>1, <1>6, <2>1, <2>2, ListConcat
      <4>3. ASSUME NEW i \in 1 .. Len(k.m_iovecList) + 1 PROVE Len(q.m_iovecList[i]) = 1
        <5>1. q.m_iovecList[i] = IF i <= Len(k.m_iovecList) THEN k.m_iovecList[i]
                                 ELSE <<data>>[i - Len(k.m_iovecList)]
          BY <4>2
        <5>2. CASE i <= Len(k.m_iovecList)
          <6>1. i \in 1 .. Len(k.m_iovecList)
            BY <4>1, <5>2
          <6> QED BY <1>8, <5>1, <5>2, <6>1
        <5>3. CASE ~(i <= Len(k.m_iovecList))
          <6>1. i - Len(k.m_iovecList) = 1
            BY <4>1, <5>3
          <6>2. q.m_iovecList[i] = <<data>>[1]
            BY <5>1, <5>3, <6>1
          <6> QED BY <1>5, <2>1, <6>2
        <5> QED BY <5>2, <5>3
      <4> QED BY <4>2, <4>3
    <3>4. q.short = k.short /\ q.unfinished = 0
      BY <1>6, <1>8, <2>2
    <3> QED BY <1>1, <3>1, <3>2, <3>3, <3>4, Zenon DEF BytesOK
  <2>5. /\ g \in Sockets /\ g.unsent = s.unsent /\ g.kind = s.kind /\ g.fin = s.fin
        /\ g.error = s.error /\ g.unread = s.unread
        /\ (s.taken => g.taken) /\ (g.taken => g.error)
    BY <1>1, <1>e, SocketTried
  <2>4. Goes(n, c, q, g)
    BY <1>1, <1>6, <2>2, <2>3, <2>5 DEF Goes, Alike, k, s
  <2> HIDE DEF data
  <2> QED BY <1>t, <1>6, <1>7, <2>1, <2>4, QueuedHandled DEF q
<1>10. ASSUME k.m_iovecList = <<>>, Space(n, c) > 0
       PROVE  Handled(n, Written(p, c, data)) /\ ~Written(p, c, data).conn[c].m_closed
  <2>2. /\ w \in Connections /\ Alike(w, a)
        /\ w.asked = a.asked /\ w.unfinished = a.unfinished
        /\ w.m_iovecList = a.m_iovecList /\ w.written = a.written \o data /\ w.short = a.short
    BY <1>5, <1>6, ObjectValues, Zenon
  <2>3. /\ f \in Sockets /\ f.unsent = s.unsent + 1
        /\ f.kind = s.kind /\ f.fin = s.fin
        /\ f.error = s.error /\ f.unread = s.unread /\ f.taken = s.taken
    BY <1>1, SocketFilled
  <2>4. Written(p, c, data) = Put(n, x, c, w, f)
    <3>2. a.kind = n.conn[c].kind
      BY <1>6 DEF Alike, k
    <3>3. p \in Nets /\ p.asks = x /\ p.conn[c] = a /\ p.sock[c] = s
      <4>1. n \in Nets /\ a \in Connections /\ s \in Sockets /\ x \in Nat
        BY <1>1, <1>6, <1>7
      <4>2. Elsewhere(n, p, c) /\ p.conn[c] = a /\ p.sock[c] = s /\ p.asks = x
        BY <3>2, <4>1, PutIs
      <4> HIDE DEF p
      <4> QED BY <4>2 DEF Elsewhere
    <3> HIDE DEF p
    <3>5. Written(p, c, data) = Put(p, x, c, w, f)
      BY <1>5, <3>3, WrittenPuts, Zenon
    <3>6. Put(p, x, c, w, f) = Put(n, x, c, w, f)
      BY <1>1, PutTwice DEF p
    <3> QED BY <3>5, <3>6
  <2> HIDE DEF w, f
  <2>5. BytesOK(w)
    <3>1. w.m_iovecList = <<>> /\ w.kind = k.kind /\ w.m_closed = k.m_closed /\ w.unfinished = 0
      BY <1>6, <1>8, <1>10, <2>2 DEF Alike
    <3>2. ~k.short => w.written \o FlattenSeq(w.m_iovecList) = Numbers(w.asked)
      <4>1. w.written \o FlattenSeq(w.m_iovecList) = k.written \o data
        <5>1. FlattenSeq(w.m_iovecList) = <<>>
          BY <3>1 DEF FlattenSeq
        <5>2. w.written \in Seq(Nat)
          BY <2>2, Zenon DEF Connections
        <5> QED BY <1>6, <2>2, <5>1, <5>2
      <4>2. ~k.short => k.written = Numbers(k.asked)
        <5>1. FlattenSeq(k.m_iovecList) = <<>>
          BY <1>10 DEF FlattenSeq
        <5> QED BY <1>1, <1>8, <5>1
      <4>3. Numbers(k.asked) \o data = Numbers(k.asked + 1)
        BY <1>1, NumbersGrow, Zenon
      <4> QED BY <1>6, <2>2, <4>1, <4>2, <4>3, Zenon
    <3>3. w.short = k.short
      BY <1>6, <2>2
    <3> QED BY <1>1, <3>1, <3>2, <3>3 DEF BytesOK
  <2>6. Goes(n, c, w, f) /\ w.m_iovecList = <<>> /\ f.taken = n.sock[c].taken
    BY <1>1, <1>e, <1>s, <1>6, <1>10, <2>2, <2>3, <2>5 DEF Goes, Alike, k, s
  <2> QED BY <1>t, <1>7, <2>4, <2>6, PutHandled
<1>11. /\ Handled(n, Queued(p, c, <<data>>)) /\ ~Queued(p, c, <<data>>).conn[c].m_closed
       /\ Handled(n, Queued(Tried(p, c), c, <<data>>))
       /\ ~Queued(Tried(p, c), c, <<data>>).conn[c].m_closed
  BY <1>9, <1>u
<1> HIDE DEF p
<1> QED BY <1>4, <1>10, <1>11

(* Whatever a program sends keeps what holds.                                *)
LEMMA SendsHandled ==
  ASSUME NEW n, Core(n), NEW c \in Conns, Sendable(n, c) \/ n.conn[c].m_closed,
         NEW m \in Sends(n, c)
  PROVE  Handled(n, m)
<1>1. ~n.conn[c].m_closed /\ MayAsk(n, 1) /\ Sendable(n, c) /\ n.asks \in Nat
  BY DEF Sends, Core, Nets
<1>2. CASE Udp(n, c)
  <2>1. m \in {UdpSendData(n, c), UdpSendList(n, c)}
    BY <1>1, <1>2 DEF Sends
  <2> QED BY <1>1, <1>2, <2>1, UdpSendDataHandled DEF MayAsk
<1>3. CASE ~Udp(n, c)
  <2>1. \E i \in 1 .. 2 : i <= n.asks /\ m \in {SendList(n, c, i)} \cup SendData(n, c, i)
    BY <1>1, <1>3 DEF Sends, MayAsk
  <2> QED BY <1>1, <1>3, <2>1, SendListHandled, SendDataHandled
<1> QED BY <1>2, <1>3

(* Whatever the program does in a callback.                                  *)
LEMMA ReactionsHandled ==
  ASSUME NEW n, Core(n), NEW c \in Conns, Sendable(n, c) \/ n.conn[c].m_closed,
         NEW m \in Reactions(n, c)
  PROVE  Handled(n, m)
<1>1. CASE m = n
  BY <1>1, SameHandled
<1>2. CASE m \in Sends(n, c)
  BY <1>2, SendsHandled
<1>3. CASE \E d \in Conns : n.fd[d] # NoFd /\ m = onClose(n, d, "cause")
  BY <1>3, onCloseHandled
<1> QED BY <1>1, <1>2, <1>3 DEF Reactions

(* Only what is remembered of the past, or whether the process runs.         *)
LEMMA HistoryHandled ==
  ASSUME NEW n, Core(n), NEW m \in Nets,
         m.fd = n.fd, m.eventsMap = n.eventsMap, m.want = n.want, m.watched = n.watched,
         m.ready = n.ready, m.sock = n.sock, m.backlog = n.backlog, m.conn = n.conn,
         m.m_connections = n.m_connections, m.came = n.came, m.pipe = n.pipe,
         m.tasks = n.tasks, m.first = n.first, m.writing = n.writing,
         n.stray \subseteq m.stray, m.alive => n.alive
  PROVE  Handled(n, m)
<1>1. ASSUME NEW c \in Conns
      PROVE  /\ BytesInv(m, c) /\ StatusInv(m, c) /\ SocketInv(m, c)
             /\ Ages(n, m, c) /\ KeepsAt(n, m, c)
  <2>1. BytesInv(n, c) /\ StatusInv(n, c) /\ SocketInv(n, c)
    BY DEF Core
  <2>2. BytesInv(m, c)
    BY <2>1 DEF BytesInv
  <2>3. StatusInv(m, c)
    BY <2>1 DEF StatusInv, Fresh
  <2>4. SocketInv(m, c)
    BY <2>1 DEF SocketInv, Udp
  <2> QED BY <2>2, <2>3, <2>4, AgesSame, KeepsSame
<1>2. MapInv(m)
  BY DEF Core, MapInv, Left
<1>3. ServerInv(m)
  <2>1. ServerInv(n)
    BY DEF Core
  <2> QED BY <2>1 DEF ServerInv, Left
<1>4. Aside(n, m)
  BY DEF Aside
<1> QED BY <1>1, <1>2, <1>3, <1>4 DEF Handled, Core

(* The history variable may grow.                                            *)
LEMMA StrayHandled ==
  ASSUME NEW n, Core(n), NEW s \in SUBSET Conns, n.stray \subseteq s
  PROVE  Handled(n, [n EXCEPT !.stray = s]) /\ [n EXCEPT !.stray = s].stray = s
<1> DEFINE m == [n EXCEPT !.stray = s]
<1>1. n \in Nets
  BY DEF Core
<1>2. m \in Nets /\ m.stray = s
  BY <1>1, Zenon DEF Nets
<1>3. /\ m.fd = n.fd /\ m.eventsMap = n.eventsMap /\ m.want = n.want /\ m.watched = n.watched
      /\ m.ready = n.ready /\ m.sock = n.sock /\ m.backlog = n.backlog /\ m.conn = n.conn
      /\ m.m_connections = n.m_connections /\ m.came = n.came /\ m.pipe = n.pipe
      /\ m.tasks = n.tasks /\ m.first = n.first /\ m.writing = n.writing /\ m.alive = n.alive
  BY <1>1 DEF Nets
<1> HIDE DEF m
<1>4. Handled(n, m)
  BY <1>2, <1>3, HistoryHandled
<1> QED BY <1>2, <1>4 DEF m

(* The process may end.                                                      *)
LEMMA EndHandled ==
  ASSUME NEW n, Core(n)
  PROVE  Handled(n, [n EXCEPT !.alive = FALSE])
<1> DEFINE m == [n EXCEPT !.alive = FALSE]
<1>1. n \in Nets
  BY DEF Core
<1>2. m \in Nets /\ ~m.alive
  BY <1>1, Zenon DEF Nets
<1>3. /\ m.fd = n.fd /\ m.eventsMap = n.eventsMap /\ m.want = n.want /\ m.watched = n.watched
      /\ m.ready = n.ready /\ m.sock = n.sock /\ m.backlog = n.backlog /\ m.conn = n.conn
      /\ m.m_connections = n.m_connections /\ m.came = n.came /\ m.pipe = n.pipe
      /\ m.tasks = n.tasks /\ m.first = n.first /\ m.writing = n.writing /\ m.stray = n.stray
  BY <1>1 DEF Nets
<1> HIDE DEF m
<1>4. Handled(n, m)
  BY <1>2, <1>3, HistoryHandled
<1> QED BY <1>4 DEF m

-----------------------------------------------------------------------------
(* Reading and ending.                                                       *)

(* A watched connection is open and is found under its descriptor.           *)
LEMMA OpenOrShut ==
  ASSUME NEW n, Core(n), NEW c \in Conns
  PROVE  /\ n.conn[c].m_closed => n.fd[c] = NoFd /\ c \notin n.watched
         /\ c \in n.watched => n.fd[c] # NoFd /\ ~n.conn[c].m_closed
                               /\ n.eventsMap[n.fd[c]] = c /\ "IN" \in n.want[c]
<1>1. StatusInv(n, c) /\ MapInv(n) /\ c \in Objects
  BY DEF Core, Objects
<1> QED BY <1>1 DEF StatusInv, MapInv

(* The loop closes a connection that ended, or one that was given the event  *)
(* of another.                                                               *)
LEMMA EndedHandled ==
  ASSUME NEW n, Core(n), NEW c \in Conns, n.fd[c] # NoFd \/ n.conn[c].m_closed,
         Gone(n, c) \/ c \in n.stray \/ n.conn[c].m_closed
  PROVE  Handled(n, Ended(n, c)) /\ Ended(n, c).conn[c].m_closed
<1> DEFINE why == IF Gone(n, c) THEN "cause" ELSE "nothing"
<1>1. why \in {"cause", "nothing"} /\ Ended(n, c) = onClose(n, c, why)
  BY DEF Ended
<1>2. CASE n.conn[c].m_closed
  BY <1>1, <1>2, onCloseClosed
<1>3. CASE ~n.conn[c].m_closed
  <2>1. why = "nothing" => c \in n.stray
    BY <1>3
  <2> HIDE DEF why
  <2> QED BY <1>1, <2>1, onCloseHandled
<1> QED BY <1>2, <1>3

(* Reading takes what there is.                                              *)
Taken(n, c) == [n EXCEPT !.sock[c].unread = 0]
(* Everything that came is read.                                             *)
TakenOf(s) == [s EXCEPT !.unread = 0]

(* Reading it is a handler's outcome.                                        *)
LEMMA TakenHandled ==
  ASSUME NEW n, Core(n), NEW c \in Conns, Sendable(n, c)
  PROVE  LET m == Taken(n, c)
         IN  /\ Handled(n, m) /\ m.conn = n.conn /\ m.fd = n.fd /\ m.sock[c].unread = 0
             /\ (Owed(m, c) => Owed(n, c)) /\ m.sock[c].fin = n.sock[c].fin /\ Sendable(m, c)
<1> DEFINE s == TakenOf(n.sock[c])
           m == Taken(n, c)
<1>0. n \in Nets /\ n.conn[c] \in Connections /\ n.sock[c] \in Sockets /\ c \in All
  BY ConnTypes DEF Core
<1>1. /\ s \in Sockets /\ s.kind = n.sock[c].kind /\ s.fin = n.sock[c].fin
      /\ s.error = n.sock[c].error /\ s.unread = 0 /\ s.unsent = n.sock[c].unsent
      /\ s.taken = n.sock[c].taken
  BY <1>0 DEF Sockets, TakenOf
<1>2. m = Put(n, n.asks, c, n.conn[c], s)
  BY <1>0, Zenon DEF Put, Nets, All, Taken, TakenOf
<1> HIDE DEF s
<1>3. Goes(n, c, n.conn[c], s)
  <2>1. /\ BytesOK(n.conn[c]) /\ n.sock[c].unsent <= Room /\ n.sock[c].unsent \in Nat
        /\ n.sock[c].taken => n.sock[c].error
    BY OpenObject
  <2> QED BY <1>0, <1>1, <2>1 DEF Goes
<1>4. n.asks \in Nat
  BY OpenObject
<1>5. Handled(n, Put(n, n.asks, c, n.conn[c], s))
  BY <1>1, <1>3, <1>4, PutHandled
<1>6. /\ Linked(n, Put(n, n.asks, c, n.conn[c], s))
      /\ Put(n, n.asks, c, n.conn[c], s).sock[c] = s
  BY <1>0, <1>1, <1>4, PutIs
<1>7. m.conn = n.conn
  BY DEF Taken, Nets, Core
<1> HIDE DEF m
<1>8. m.fd = n.fd /\ m.sock[c] = s /\ Handled(n, m)
  BY <1>2, <1>5, <1>6 DEF Linked
<1>9. (Owed(m, c) => Owed(n, c)) /\ Sendable(m, c)
  BY <1>1, <1>7, <1>8 DEF Gone, Sendable, Owed, Pending
<1> QED BY <1>1, <1>7, <1>8, <1>9 DEF m

(* What a handler leaves of a connection that it did not close.              *)
LEMMA StillThere ==
  ASSUME NEW n, NEW m, NEW c \in Conns, Handled(n, m), ~m.conn[c].m_closed
  PROVE  /\ ~n.conn[c].m_closed /\ m.fd[c] = n.fd[c] /\ m.conn[c].kind = n.conn[c].kind
         /\ (Owed(m, c) => Owed(n, c)) /\ m.sock[c].fin = n.sock[c].fin
         /\ m.sock[c].kind = n.sock[c].kind /\ m.sock[c].error = n.sock[c].error
         /\ m.sock[c].unread \in {0, n.sock[c].unread}
         /\ \/ m.conn[c].m_status = n.conn[c].m_status
            \/ n.conn[c].m_status = "connecting" /\ m.conn[c].m_status = "connected"
  BY DEF Handled, Ages, Owed, Pending

(* There is nothing more to report of c.                                     *)
Drained(n, c) == n.sock[c].unread = 0 /\ ~Owed(n, c)

(* Reading leaves nothing unread.                                            *)
LEMMA ReactionsDrain ==
  ASSUME NEW n, Core(n), NEW c \in Conns, Sendable(n, c), ~n.conn[c].m_closed,
         NEW a \in Reactions(Taken(n, c), c) \cup {Taken(n, c)}
  PROVE  /\ Handled(n, a)
         /\ ~a.conn[c].m_closed => /\ a.sock[c].unread = 0 /\ (Owed(a, c) => Owed(n, c))
                                   /\ a.sock[c].fin = n.sock[c].fin /\ a.fd[c] = n.fd[c]
<1> DEFINE t == Taken(n, c)
<1>1. /\ Handled(n, t) /\ t.conn = n.conn /\ t.fd = n.fd /\ t.sock[c].unread = 0
      /\ (Owed(t, c) => Owed(n, c)) /\ t.sock[c].fin = n.sock[c].fin /\ Sendable(t, c)
  BY TakenHandled
<1> HIDE DEF t
<1>2. Core(t)
  BY <1>1 DEF Handled
<1>3. Handled(t, a)
  <2>1. a \in Reactions(t, c) \/ a = t
    BY DEF t
  <2>2. CASE a = t
    BY <1>2, <2>2, SameHandled
  <2>3. CASE a \in Reactions(t, c)
    BY <1>1, <1>2, <2>3, ReactionsHandled
  <2> QED BY <2>1, <2>2, <2>3
<1>4. Handled(n, a)
  BY <1>1, <1>3, HandledTrans
<1>5. ASSUME ~a.conn[c].m_closed
      PROVE  /\ a.sock[c].unread = 0 /\ (Owed(a, c) => Owed(n, c))
             /\ a.sock[c].fin = n.sock[c].fin /\ a.fd[c] = n.fd[c]
  <2>1. /\ a.fd[c] = t.fd[c] /\ (Owed(a, c) => Owed(t, c)) /\ a.sock[c].fin = t.sock[c].fin
        /\ a.sock[c].unread \in {0, t.sock[c].unread}
    BY <1>3, <1>5, StillThere
  <2> QED BY <1>1, <2>1
<1> QED BY <1>4, <1>5

(* TcpConnection::onRead leaves nothing to read, or has closed.              *)
LEMMA TcpReadHandled ==
  ASSUME NEW n, Core(n), NEW c \in Conns, Sendable(n, c) \/ n.conn[c].m_closed, ~Udp(n, c),
         NEW m \in TcpOnRead(n, c)
  PROVE  Handled(n, m) /\ (m.conn[c].m_closed \/ Drained(m, c))
<1>1. CASE n.conn[c].m_closed
  BY <1>1, SameHandled DEF TcpOnRead
<1>2. CASE ~n.conn[c].m_closed /\ n.sock[c].kind = "reset"
  <2>1. m = Ended(n, c) /\ Gone(n, c)
    BY <1>2 DEF TcpOnRead, Gone, Owed, Pending
  <2> QED BY <1>2, <2>1, EndedHandled DEF Sendable
<1>3. CASE ~n.conn[c].m_closed /\ n.sock[c].kind # "reset"
  <2>0. \E a \in Reactions(Taken(n, c), c) \cup {Taken(n, c)} :
            m = IF a.sock[c].fin THEN Ended(a, c) ELSE a
    BY <1>3 DEF TcpOnRead, Taken
  <2>1. PICK a \in Reactions(Taken(n, c), c) \cup {Taken(n, c)} :
            m = IF a.sock[c].fin THEN Ended(a, c) ELSE a
    BY <2>0
  <2>2. /\ Handled(n, a)
        /\ ~a.conn[c].m_closed => /\ a.sock[c].unread = 0 /\ (Owed(a, c) => Owed(n, c))
                                  /\ a.sock[c].fin = n.sock[c].fin /\ a.fd[c] = n.fd[c]
    BY <1>3, ReactionsDrain
  <2>3. Core(a)
    BY <2>2 DEF Handled
  <2>4. CASE a.sock[c].fin
    <3>1. a.fd[c] # NoFd \/ a.conn[c].m_closed
      BY <1>3, <2>2 DEF Sendable
    <3>2. Handled(a, Ended(a, c)) /\ Ended(a, c).conn[c].m_closed
      BY <2>3, <2>4, <3>1, EndedHandled DEF Gone, Owed, Pending
    <3> QED BY <2>1, <2>2, <2>4, <3>2, HandledTrans
  <2>5. CASE ~a.sock[c].fin
    <3>1. ~n.sock[c].fin => ~Owed(n, c)
      <4>1. SocketInv(n, c)
        BY DEF Core
      <4> QED BY <1>3, <4>1 DEF SocketInv, Gone, Owed, Pending
    <3> QED BY <2>1, <2>2, <2>5, <3>1 DEF Drained
  <2> QED BY <2>4, <2>5
<1> QED BY <1>1, <1>2, <1>3

(* UdpSocket::onRead likewise.                                               *)
LEMMA UdpReadHandled ==
  ASSUME NEW n, Core(n), NEW c \in Conns, n.fd[c] # NoFd \/ n.conn[c].m_closed, Udp(n, c),
         NEW m \in UdpOnRead(n, c)
  PROVE  Handled(n, m) /\ (m.conn[c].m_closed \/ Drained(m, c))
<1>1. CASE n.conn[c].m_closed
  BY <1>1, SameHandled DEF UdpOnRead
<1>2. CASE ~n.conn[c].m_closed /\ Pending(n.sock[c])
  <2>1. m = Ended(n, c) /\ Gone(n, c)
    BY <1>2 DEF UdpOnRead, Gone, Owed, Pending
  <2> QED BY <1>2, <2>1, EndedHandled
<1>3. CASE ~n.conn[c].m_closed /\ ~Pending(n.sock[c])
  <2>1. m \in Reactions(Taken(n, c), c) \cup {Taken(n, c)}
    BY <1>3 DEF UdpOnRead, Taken
  <2>2. Sendable(n, c)
    BY <1>3 DEF Sendable, Udp
  <2>3. /\ Handled(n, m)
        /\ ~m.conn[c].m_closed => m.sock[c].unread = 0 /\ (Owed(m, c) => Owed(n, c))
    BY <1>3, <2>1, <2>2, ReactionsDrain
  <2>4. ~Owed(n, c)
    <3>1. SocketInv(n, c)
      BY DEF Core
    <3> QED BY <1>3, <3>1 DEF SocketInv, Gone, Owed, Pending
  <2> QED BY <2>3, <2>4 DEF Drained
<1> QED BY <1>1, <1>2, <1>3

(* A client that learns that it is connected.                                *)
LEMMA ConnectedHandled ==
  ASSUME NEW n, Core(n), NEW c \in Conns, n.fd[c] # NoFd \/ n.conn[c].m_closed,
         n.conn[c].kind = "client",
         n.conn[c].m_status = "connecting", NEW m \in Connected(n, c)
  PROVE  /\ Handled(n, m)
         /\ m.conn[c].m_closed \/ m.conn[c].m_status = "connected"
         /\ c \in m.watched /\ m.conn[c].m_iovecList # <<>> => OutSettled(m, c)
<1>0. StatusInv(n, c) /\ n \in Nets
  BY DEF Core
<1>1. CASE n.sock[c].error
  <2>1. m = Ended(n, c) /\ Gone(n, c)
    BY <1>1 DEF Connected, Gone, Owed, Pending
  <2>2. Handled(n, m) /\ m.conn[c].m_closed
    BY <2>1, EndedHandled
  <2> QED BY <2>2, OpenOrShut DEF Handled
<1>2. CASE ~n.sock[c].error
  <2> DEFINE now == WithStatus(n, c, "connected")
  <2>1. m \in {now} \cup Sends(now, c)
    <3>1. c \in All /\ n.sock[c] \in Sockets
      BY <1>0, ConnTypes
    <3>2. [n.sock EXCEPT ![c].error = FALSE] = n.sock
      BY <1>0, <1>2, <3>1 DEF Nets, All, Sockets
    <3>3. [n EXCEPT !.conn[c].m_status = "connected", !.sock[c].error = FALSE]
            = [n EXCEPT !.conn[c].m_status = "connected", !.sock = n.sock]
      BY <1>0, <3>2, Zenon DEF Nets
    <3>4. [n EXCEPT !.conn[c].m_status = "connected", !.sock = n.sock] = now
      BY <1>0, Zenon DEF Nets, WithStatus
    <3>5. [n EXCEPT !.conn[c].m_status = "connected", !.sock[c].error = FALSE] = now
      BY <3>3, <3>4
    <3> HIDE DEF now
    <3> QED BY <1>2, <3>5 DEF Connected
  <2>2. /\ Elsewhere(n, now, c) /\ Linked(n, now)
        /\ now.ready = n.ready /\ now.sock = n.sock /\ now.want = n.want /\ now.asks = n.asks
        /\ now.conn[c].m_closed = n.conn[c].m_closed /\ now.conn[c].m_status = "connected"
        /\ now.conn[c].written = n.conn[c].written /\ now.conn[c].m_iovecList = n.conn[c].m_iovecList
        /\ now.conn[c].unfinished = n.conn[c].unfinished /\ now.conn[c].why = n.conn[c].why
        /\ now.conn[c].asked = n.conn[c].asked /\ now.conn[c].short = n.conn[c].short
    BY <1>0, SetStatus
  <2> HIDE DEF now
  <2>3. /\ now.conn[c].kind = n.conn[c].kind /\ now.fd = n.fd /\ now.watched = n.watched
        /\ n.stray \subseteq now.stray
    BY <2>2 DEF Elsewhere, Linked
  <2>4. BytesInv(now, c)
    <3>1. BytesInv(n, c)
      BY DEF Core
    <3> QED BY <2>2, <2>3, <3>1, Zenon DEF BytesInv, BytesOK
  <2>5. StatusInv(now, c)
    BY <1>0, <2>2, <2>3 DEF StatusInv
  <2>6. SocketInv(now, c)
    <3>1. SocketInv(n, c)
      BY DEF Core
    <3> QED BY <2>2, <2>3, <3>1 DEF SocketInv, Udp
  <2>7. Ages(n, now, c)
    BY <2>2, <2>3 DEF Ages, Gone, Owed, Pending
  <2>8. now.conn[c].m_iovecList = <<>> /\ KeepsAt(n, now, c)
    <3>1. n.conn[c].m_iovecList = <<>>
      BY <1>0, Zenon DEF StatusInv, Core, BytesInv, BytesOK
    <3> QED BY <2>2, <3>1 DEF KeepsAt
  <2>9. now.ready \subseteq now.watched
    BY <2>2, <2>3 DEF Core, MapInv
  <2>10. Handled(n, now)
    BY <2>2, <2>4, <2>5, <2>6, <2>7, <2>8, <2>9, QuietHandled
  <2>11. Core(now) /\ (Sendable(now, c) \/ now.conn[c].m_closed)
    BY <2>2, <2>3, <2>10 DEF Handled, Sendable
  <2>12. Handled(now, m)
    BY <2>1, <2>11, SameHandled, SendsHandled
  <2>13. Handled(n, m)
    BY <2>10, <2>12, HandledTrans
  <2>14. m.conn[c].m_closed \/ m.conn[c].m_status = "connected"
    BY <2>2, <2>12, StillThere
  <2>15. c \in m.watched /\ m.conn[c].m_iovecList # <<>> => OutSettled(m, c)
    BY <2>8, <2>12 DEF Handled, KeepsAt
  <2> QED BY <2>13, <2>14, <2>15
<1> QED BY <1>1, <1>2

(* onRead of any object; a client that connects may stop at being connected. *)
LEMMA onReadHandled ==
  ASSUME NEW n, Core(n), NEW c \in Conns, n.fd[c] # NoFd \/ n.conn[c].m_closed,
         NEW m \in onRead(n, c)
  PROVE  /\ Handled(n, m)
         /\ \/ m.conn[c].m_closed
            \/ Drained(m, c)
            \/ n.conn[c].kind = "client" /\ n.conn[c].m_status = "connecting"
               /\ m.conn[c].m_status = "connected"
<1>0. StatusInv(n, c)
  BY DEF Core
<1>1. CASE Udp(n, c)
  BY <1>1, UdpReadHandled DEF onRead
<1>2. CASE ~Udp(n, c) /\ n.conn[c].kind = "client" /\ n.conn[c].m_status # "connected"
  <2>1. CASE n.conn[c].m_status = "connecting"
    <3>1. m \in Connected(n, c)
      BY <1>2, <2>1 DEF onRead
    <3> QED BY <1>2, <2>1, <3>1, ConnectedHandled
  <2>3. CASE n.conn[c].m_status # "connecting"
    <3>1. m = n
      BY <1>2, <2>3 DEF onRead
    <3>2. n.conn[c].m_closed
      BY <1>0, <1>2, <2>3 DEF StatusInv
    <3> QED BY <3>1, <3>2, SameHandled
  <2> QED BY <2>1, <2>3
<1>3. CASE ~Udp(n, c) /\ ~(n.conn[c].kind = "client" /\ n.conn[c].m_status # "connected")
  <2>1. m \in TcpOnRead(n, c) /\ (Sendable(n, c) \/ n.conn[c].m_closed)
    BY <1>3 DEF onRead, Sendable
  <2> QED BY <1>3, <2>1, TcpReadHandled
<1> QED BY <1>1, <1>2, <1>3

(* onWrite begins a turn of writing, unless a client finds out that it is    *)
(* connected or has been closed.                                             *)
LEMMA onWriteHandled ==
  ASSUME NEW n, Core(n), NEW c \in Conns, n.fd[c] # NoFd \/ n.conn[c].m_closed,
         NEW m \in onWrite(n, c)
  PROVE  \/ /\ m = [n EXCEPT !.writing = c] /\ n.fd[c] # NoFd /\ ~n.conn[c].m_closed
            /\ n.conn[c].kind = "client" => n.conn[c].m_status = "connected"
         \/ /\ Handled(n, m) /\ (n.conn[c].m_closed \/ n.conn[c].m_status = "connecting")
            /\ c \in m.watched /\ m.conn[c].m_iovecList # <<>> => OutSettled(m, c)
<1>0. StatusInv(n, c)
  BY DEF Core
<1>1. CASE n.conn[c].kind = "client" /\ n.conn[c].m_status = "connecting"
  BY <1>1, ConnectedHandled DEF onWrite
<1>2. CASE /\ n.conn[c].kind = "client" /\ n.conn[c].m_status # "connected"
           /\ n.conn[c].m_status # "connecting"
  <2>1. m = n /\ n.conn[c].m_closed
    BY <1>0, <1>2 DEF onWrite, StatusInv
  <2> QED BY <2>1, SameHandled, OpenOrShut
<1>3. CASE ~(n.conn[c].kind = "client" /\ n.conn[c].m_status # "connected")
  <2>1. CASE n.conn[c].m_closed
    <3>1. m = n
      BY <1>3, <2>1 DEF onWrite
    <3> QED BY <2>1, <3>1, SameHandled, OpenOrShut
  <2>2. CASE ~n.conn[c].m_closed
    BY <1>3, <2>2 DEF onWrite
  <2> QED BY <2>1, <2>2
<1> QED BY <1>1, <1>2, <1>3

(* Whoever has a descriptor keeps it until it closes, for good.              *)
Lasting(n, m, c) ==
  /\ m.conn[c].kind = n.conn[c].kind
  /\ n.conn[c].m_closed => m.conn[c].m_closed
  /\ n.fd[c] # NoFd =>
        \/ m.conn[c].m_closed
        \/ /\ m.fd[c] = n.fd[c] /\ (Gone(n, c) => Gone(m, c))
           /\ n.conn[c].m_status # "connecting" => m.conn[c].m_status # "connecting"
           /\ n.conn[c].m_status = "connected" => m.conn[c].m_status = "connected"

(* And who was never started is not started by others.                       *)
Unstarted(n, o) == n.fd[o] = NoFd /\ (o \in Conns => ~n.conn[o].m_closed)

-----------------------------------------------------------------------------
(* What outlasts a handler.                                                  *)

(* What outlasts a handler for events and tasks that are still to come.      *)
LEMMA HandledLasts ==
  ASSUME NEW n, NEW m, Handled(n, m)
  PROVE  /\ \A c \in Conns : Lasting(n, m, c)
         /\ \A o \in Objects : Unstarted(n, o) => Unstarted(m, o)
<1>1. ASSUME NEW c \in Conns
      PROVE  Lasting(n, m, c) /\ (Unstarted(n, c) => Unstarted(m, c))
  <2>1. Ages(n, m, c)
    BY DEF Handled
  <2> QED BY <2>1 DEF Ages, Lasting, Unstarted
<1>2. Unstarted(n, Acceptor) => Unstarted(m, Acceptor)
  BY EventLoopAssumption DEF Handled, Aside, Unstarted
<1> QED BY <1>1, <1>2 DEF Objects

(* Events stay sound.                                                        *)
LEMMA BatchCarried ==
  ASSUME NEW n, NEW m, NEW b, NEW d \in SUBSET b, BatchInv(n, b), \A c \in Conns : Lasting(n, m, c)
  PROVE  BatchInv(m, d)
<1>1. d \subseteq Events /\ NoFd \notin Fds
  BY EventLoopAssumption DEF BatchInv, NoFd
<1>2. ASSUME NEW e \in d
      PROVE  /\ e.of # Pipe => e.fd \in Fds
             /\ e.of \in Conns =>
                  /\ m.fd[e.of] = e.fd \/ m.conn[e.of].m_closed
                  /\ "ERR" \in e.events => Gone(m, e.of) \/ m.conn[e.of].m_closed
                  /\ "HUP" \in e.events => "IN" \in e.events
                  /\ ("IN" \in e.events /\ "ERR" \notin e.events /\ "OUT" \notin e.events
                      /\ m.conn[e.of].kind = "client") =>
                        m.conn[e.of].m_status # "connecting" \/ m.conn[e.of].m_closed
  <2>1. /\ e.of # Pipe => e.fd \in Fds
        /\ e.of \in Conns =>
             /\ n.fd[e.of] = e.fd \/ n.conn[e.of].m_closed
             /\ "ERR" \in e.events => Gone(n, e.of) \/ n.conn[e.of].m_closed
             /\ "HUP" \in e.events => "IN" \in e.events
             /\ ("IN" \in e.events /\ "ERR" \notin e.events /\ "OUT" \notin e.events
                 /\ n.conn[e.of].kind = "client") =>
                   n.conn[e.of].m_status # "connecting" \/ n.conn[e.of].m_closed
    BY DEF BatchInv
  <2>2. CASE e.of \in Conns
    <3>1. e.of # Pipe /\ Lasting(n, m, e.of)
      BY <2>2, EventLoopAssumption, Zenon
    <3> QED BY <1>1, <2>1, <2>2, <3>1 DEF Lasting
  <2> QED BY <2>1, <2>2
<1> QED BY <1>1, <1>2 DEF BatchInv

(* A task stays sound.                                                       *)
LEMMA TaskCarried ==
  ASSUME NEW n, NEW m, NEW t, TaskOK(n, t), Core(n), \A c \in Conns : Lasting(n, m, c),
         Starts(t) => (Unstarted(n, t.on) => Unstarted(m, t.on)),
         ~Starts(t) /\ t.on = Acceptor => FALSE
  PROVE  TaskOK(m, t)
<1>1. t \in Tasks /\ t.on \in Objects
  BY DEF TaskOK, Tasks
<1>2. CASE Starts(t)
  <2>1. Unstarted(n, t.on)
    BY <1>2, EventLoopAssumption DEF TaskOK, Unstarted, Starts
  <2>2. Unstarted(m, t.on)
    BY <1>2, <2>1
  <2>3. t.do = "connect" => t.on \in Conns
    BY <1>1 DEF TaskOK, Objects
  <2> QED BY <1>2, <2>2, <2>3 DEF TaskOK, Unstarted, Starts, Lasting
<1>3. CASE ~Starts(t)
  <2>1. t.on \in Conns
    BY <1>1, <1>3 DEF Objects
  <2>2. Lasting(n, m, t.on)
    BY <2>1
  <2>3. t.do = "send" /\ m.conn[t.on].kind = "client" =>
            m.conn[t.on].m_status = "connected" \/ m.conn[t.on].m_closed
    BY <1>3, <2>2 DEF TaskOK, Lasting
  <2>4. m.fd[t.on] # NoFd \/ m.conn[t.on].m_closed
    BY <1>3, <2>2 DEF TaskOK, Lasting
  <2> QED BY <1>3, <2>2, <2>3, <2>4 DEF TaskOK, Lasting, Starts
<1> QED BY <1>2, <1>3

(* All tasks do.                                                             *)
LEMMA TasksCarried ==
  ASSUME NEW n, NEW m, NEW q, TasksInv(n, q), Core(n), \A c \in Conns : Lasting(n, m, c),
         \A o \in Objects : Unstarted(n, o) => Unstarted(m, o), m.first = n.first
  PROVE  TasksInv(m, q)
<1>1. ASSUME NEW t, TaskOK(n, t)
      PROVE  TaskOK(m, t)
  <2>1. t.on \in Objects /\ (~Starts(t) => t.on # Acceptor)
    BY <1>1 DEF TaskOK, Tasks, Starts
  <2> QED BY <1>1, <2>1, TaskCarried
<1> QED BY <1>1 DEF TasksInv

(* Handlers of connections leave the pipe alone.                             *)
LEMMA WakeCarried ==
  ASSUME NEW n, NEW m, NEW b, NEW g, WakeInv(n, b, g), Aside(n, m)
  PROVE  WakeInv(m, b, g)
  BY DEF WakeInv, Aside

(* What is left to be reported, when the loop looked at one event of another *)
(* object or at one that says nothing of the kind.                           *)
LEMMA NoticedInCarried ==
  ASSUME NEW n, NEW m, Handled(n, m), NEW b, NEW d, NEW c \in Conns, c \in m.watched,
         c \in n.watched => NoticedIn(n, b, c),
         \A e \in b : e.of = c /\ ("IN" \in e.events \/ "ERR" \in e.events) => e \in d
  PROVE  NoticedIn(m, d, c)
<1>1. ~m.conn[c].m_closed
  BY OpenOrShut DEF Handled
<1>2. /\ (Owed(m, c) => Owed(n, c)) /\ m.sock[c].unread \in {0, n.sock[c].unread}
  BY <1>1, StillThere
<1>3. c \in n.watched /\ (c \in n.ready => c \in m.ready)
  BY DEF Handled, Ages, KeepsAt
<1>4. m.writing = n.writing /\ (Udp(m, c) <=> Udp(n, c))
  BY DEF Handled, Aside, Ages, Udp
<1>5. m.sock[c].unread > 0 => n.sock[c].unread > 0
  BY <1>2
<1> QED BY <1>2, <1>3, <1>4, <1>5 DEF NoticedIn

(* What c has to write is still to be reported after a handler.              *)
LEMMA NoticedOutCarried ==
  ASSUME NEW n, NEW m, Handled(n, m), NEW b, NEW d, NEW c \in Conns, c \in m.watched,
         c \in n.watched => NoticedOut(n, b, c),
         \A e \in b : e.of = c /\ "OUT" \in e.events => e \in d
  PROVE  NoticedOut(m, d, c)
<1>1. m.writing = n.writing
  BY DEF Handled, Aside
<1>2. c \in n.watched /\ KeepsAt(n, m, c)
  BY DEF Handled, Ages
<1> QED BY <1>1, <1>2 DEF NoticedOut, KeepsAt, OutSettled

(* A handler takes no notice away.                                           *)
LEMMA NoticedCarried ==
  ASSUME NEW n, NEW m, Handled(n, m), NEW b, Noticed(n, b)
  PROVE  Noticed(m, b)
  BY NoticedInCarried, NoticedOutCarried, Zenon DEF Noticed

(* A turn of writing begins or ends.                                         *)
Turn(n, w) == [n EXCEPT !.writing = w]

(* onWrite begins or returns.                                                *)
LEMMA TurnIs ==
  ASSUME NEW n, Core(n), NEW w \in Conns \cup {None}
  PROVE  LET m == Turn(n, w)
         IN  /\ Core(m) /\ m.writing = w
             /\ m.fd = n.fd /\ m.eventsMap = n.eventsMap /\ m.want = n.want
             /\ m.watched = n.watched /\ m.ready = n.ready /\ m.sock = n.sock
             /\ m.backlog = n.backlog /\ m.conn = n.conn /\ m.pipe = n.pipe
             /\ m.m_connections = n.m_connections /\ m.came = n.came
             /\ m.tasks = n.tasks /\ m.first = n.first /\ m.alive = n.alive /\ m.stray = n.stray
<1> DEFINE m == Turn(n, w)
<1>1. n \in Nets
  BY DEF Core
<1>2. m \in Nets /\ m.writing = w
  BY <1>1, Zenon DEF Nets, Turn
<1>3. /\ m.fd = n.fd /\ m.eventsMap = n.eventsMap /\ m.want = n.want /\ m.watched = n.watched
      /\ m.ready = n.ready /\ m.sock = n.sock /\ m.backlog = n.backlog /\ m.conn = n.conn
      /\ m.m_connections = n.m_connections /\ m.came = n.came /\ m.pipe = n.pipe
      /\ m.tasks = n.tasks /\ m.first = n.first /\ m.stray = n.stray /\ m.alive = n.alive
  BY <1>1 DEF Nets, Turn
<1> HIDE DEF m
<1>4. ASSUME NEW c \in Conns
      PROVE  BytesInv(m, c) /\ StatusInv(m, c) /\ SocketInv(m, c)
  <2>1. BytesInv(n, c) /\ StatusInv(n, c) /\ SocketInv(n, c)
    BY DEF Core
  <2>2. BytesInv(m, c)
    BY <1>3, <2>1 DEF BytesInv
  <2>3. StatusInv(m, c)
    BY <1>3, <2>1 DEF StatusInv, Fresh
  <2>4. SocketInv(m, c)
    BY <1>3, <2>1 DEF SocketInv, Udp
  <2> QED BY <2>2, <2>3, <2>4
<1>5. MapInv(m)
  BY <1>3 DEF Core, MapInv, Left
<1>6. ServerInv(m)
  <2>1. ServerInv(n)
    BY DEF Core
  <2> QED BY <1>3, <2>1 DEF ServerInv, Left
<1> QED BY <1>2, <1>3, <1>4, <1>5, <1>6 DEF Core, m

(* What every step keeps, apart from what epoll has noticed.                 *)
Follows(n, m) ==
  /\ Core(m)
  /\ \A c \in Conns : Lasting(n, m, c)
  /\ \A o \in Objects : Unstarted(n, o) => Unstarted(m, o)
  /\ m.pipe = n.pipe /\ m.tasks = n.tasks /\ m.first = n.first
  /\ Pipe \in m.watched <=> Pipe \in n.watched
  /\ Pipe \in m.ready <=> Pipe \in n.ready
  /\ m.want[Pipe] = n.want[Pipe] /\ m.fd[Acceptor] = n.fd[Acceptor]
  /\ m.alive => n.alive

(* Lasting goes from step to step.                                           *)
LEMMA LastingTrans ==
  ASSUME NEW n, NEW m, NEW k, NEW c, Lasting(n, m, c), Lasting(m, k, c)
  PROVE  Lasting(n, k, c)
  BY DEF Lasting

(* So does Follows.                                                          *)
LEMMA FollowsTrans ==
  ASSUME NEW n, NEW m, NEW k, Follows(n, m), Follows(m, k)
  PROVE  Follows(n, k)
  BY LastingTrans DEF Follows

(* A handler's outcome follows.                                              *)
LEMMA HandledFollows ==
  ASSUME NEW n, NEW m, Handled(n, m)
  PROVE  Follows(n, m)
  BY HandledLasts, Zenon DEF Follows, Handled, Aside

(* So does the beginning or the return of onWrite.                           *)
LEMMA TurnFollows ==
  ASSUME NEW n, Core(n), NEW w \in Conns \cup {None}
  PROVE  Follows(n, Turn(n, w))
<1> DEFINE m == Turn(n, w)
<1>1. /\ Core(m) /\ m.fd = n.fd /\ m.want = n.want /\ m.watched = n.watched
      /\ m.ready = n.ready /\ m.sock = n.sock /\ m.conn = n.conn /\ m.pipe = n.pipe
      /\ m.tasks = n.tasks /\ m.first = n.first /\ m.alive = n.alive
  BY TurnIs
<1> HIDE DEF m
<1>2. Follows(n, m)
  BY <1>1 DEF Follows, Lasting, Unstarted, Gone, Owed, Pending
<1> QED BY <1>2 DEF m

(* The turn of c ends; nothing else has changed for the others.              *)
LEMMA TurnEnds ==
  ASSUME NEW n, Core(n), NEW b, NEW c \in Conns, n.writing = c,
         \A d \in Conns : d \in n.watched /\ d # c => NoticedIn(n, b, d) /\ NoticedOut(n, b, d),
         c \in n.watched => NoticedIn(Turn(n, None), b, c) /\ NoticedOut(Turn(n, None), b, c)
  PROVE  Noticed(Turn(n, None), b)
<1> DEFINE m == Turn(n, None)
<1>1. /\ m.writing = None /\ m.want = n.want /\ m.watched = n.watched /\ m.ready = n.ready
      /\ m.sock = n.sock /\ m.conn = n.conn
  BY TurnIs
<1>2. ASSUME NEW d \in Conns, d \in m.watched, d # c
      PROVE  NoticedIn(m, b, d) /\ NoticedOut(m, b, d)
  <2>1. NoticedIn(n, b, d) /\ NoticedOut(n, b, d)
    BY <1>1, <1>2
  <2> HIDE DEF m
  <2>2. Space(m, d) = Space(n, d) /\ Owed(m, d) = Owed(n, d)
    BY <1>1 DEF Space, Gone, Owed, Pending
  <2> QED BY <1>1, <1>2, <2>1, <2>2 DEF NoticedIn, NoticedOut
<1>3. c \in m.watched => NoticedIn(m, b, c) /\ NoticedOut(m, b, c)
  BY <1>1
<1> HIDE DEF m
<1>4. Noticed(m, b)
  BY <1>2, <1>3 DEF Noticed
<1> QED BY <1>4 DEF m

(* An event that is about a connection the loop watches finds it.            *)
LEMMA EventFinds ==
  ASSUME NEW n, Core(n), NEW b, BatchInv(n, b), NEW e \in b, NEW d \in Conns, e.of = d,
         d \in n.watched
  PROVE  n.eventsMap[e.fd] = d /\ n.fd[d] = e.fd
<1>1. n.fd[d] # NoFd /\ ~n.conn[d].m_closed /\ n.eventsMap[n.fd[d]] = d
  BY OpenOrShut
<1> QED BY <1>1 DEF BatchInv

-----------------------------------------------------------------------------
(* The event of a connection.                                                *)

(* An event that is taken from the batch was no notice for another           *)
(* connection, unless that connection got it.                                *)
LEMMA OthersNoticed ==
  ASSUME NEW n, Core(n), n.writing = None, NEW b, BatchInv(n, b), Noticed(n, b), NEW e \in b,
         NEW m, Handled(n, m), NEW d \in Conns, d \in m.watched,
         e.of # d \/ n.eventsMap[e.fd] # d
  PROVE  NoticedIn(m, b \ {e}, d) /\ NoticedOut(m, b \ {e}, d)
<1>1. d \in n.watched
  BY DEF Handled, Ages
<1>2. e.of # d
  BY <1>1, EventFinds
<1>3. NoticedIn(n, b, d) /\ NoticedOut(n, b, d)
  BY <1>1 DEF Noticed
<1> QED BY <1>2, <1>3, NoticedInCarried, NoticedOutCarried

(* The handlers that one reported event may call.                            *)
Told(n, c, e) == [n EXCEPT !.stray = IF e.of = c THEN @ ELSE @ \cup {c}]

(* The history of stray events grows.                                        *)
LEMMA ToldHandled ==
  ASSUME NEW n, Core(n), NEW c \in Conns, NEW e
  PROVE  LET t == Told(n, c, e)
         IN  /\ Handled(n, t) /\ t.fd = n.fd /\ t.conn = n.conn /\ t.sock = n.sock
             /\ e.of # c => c \in t.stray
<1> DEFINE s == IF e.of = c THEN n.stray ELSE n.stray \cup {c}
<1>1. n \in Nets
  BY DEF Core
<1>2. Told(n, c, e) = [n EXCEPT !.stray = s]
  BY DEF Told
<1>3. s \in SUBSET Conns /\ n.stray \subseteq s
  BY <1>1 DEF Nets
<1>4. e.of # c => c \in s
  OBVIOUS
<1> HIDE DEF s
<1>5. Handled(n, [n EXCEPT !.stray = s]) /\ [n EXCEPT !.stray = s].stray = s
  BY <1>3, StrayHandled
<1>6. /\ [n EXCEPT !.stray = s].fd = n.fd /\ [n EXCEPT !.stray = s].conn = n.conn
      /\ [n EXCEPT !.stray = s].sock = n.sock
  BY <1>1 DEF Nets
<1> QED BY <1>2, <1>4, <1>5, <1>6

(* Reading what is reported, if that is what is reported.                    *)
ReadFirst(n, c, e) == IF "IN" \in e.events THEN onRead(Told(n, c, e), c) ELSE {Told(n, c, e)}

(* The reading part of an event.                                             *)
LEMMA ReadFirstHandled ==
  ASSUME NEW n, Core(n), NEW c \in Conns, n.fd[c] # NoFd \/ n.conn[c].m_closed, NEW e,
         NEW r \in ReadFirst(n, c, e)
  PROVE  /\ Handled(n, r)
         /\ "IN" \in e.events =>
               \/ r.conn[c].m_closed
               \/ Drained(r, c)
               \/ n.conn[c].kind = "client" /\ n.conn[c].m_status = "connecting"
                  /\ r.conn[c].m_status = "connected"
<1> DEFINE t == Told(n, c, e)
<1>1. Handled(n, t) /\ t.fd = n.fd /\ t.conn = n.conn
  BY ToldHandled
<1> HIDE DEF t
<1>2. Core(t)
  BY <1>1 DEF Handled
<1>3. CASE "IN" \in e.events
  <2>1. r \in onRead(t, c)
    BY <1>3 DEF ReadFirst, t
  <2>2. /\ Handled(t, r)
        /\ \/ r.conn[c].m_closed
           \/ Drained(r, c)
           \/ t.conn[c].kind = "client" /\ t.conn[c].m_status = "connecting"
              /\ r.conn[c].m_status = "connected"
    BY <1>1, <1>2, <2>1, onReadHandled
  <2> QED BY <1>1, <2>2, HandledTrans
<1>4. CASE "IN" \notin e.events
  BY <1>1, <1>4 DEF ReadFirst, t
<1> QED BY <1>3, <1>4

(* What becomes of an event: c's onWrite takes its turn, or all is handled.  *)
Outcome(n, b, c, m) ==
  /\ Noticed(m, b)
  /\ \/ Handled(n, m)
     \/ \E h : /\ Handled(n, h) /\ m = Turn(h, c) /\ h.fd[c] # NoFd /\ ~h.conn[c].m_closed
               /\ h.conn[c].kind = "client" => h.conn[c].m_status = "connected"

(* A connection with nothing to report needs no notice.                      *)
LEMMA DrainedNoticed ==
  ASSUME NEW n, NEW b, NEW c \in Conns, Drained(n, c), n.sock[c].unread \in Nat
  PROVE  NoticedIn(n, b, c)
  BY DEF Drained, NoticedIn

(* After the event of a connection was handled, everything that connection   *)
(* has to be told is told, still in epoll, or being written.                 *)
LEMMA HandleOutcome ==
  ASSUME NEW n, Core(n), n.writing = None, NEW b, BatchInv(n, b), Noticed(n, b), NEW e \in b,
         e.of # Pipe, NEW c \in Conns, n.eventsMap[e.fd] = c, NEW m \in Handle(n, c, e)
  PROVE  Outcome(n, b \ {e}, c, m)
<1> DEFINE d == b \ {e}
           t == Told(n, c, e)
<1>1. e.fd \in Fds /\ e.fd # NoFd
  BY EventLoopAssumption DEF BatchInv, NoFd
<1>2. n.fd[c] = e.fd \/ n.conn[c].m_closed
  BY <1>1, EventLoopAssumption, Zenon DEF Core, MapInv, Left
<1>3. n.fd[c] # NoFd \/ n.conn[c].m_closed
  BY <1>1, <1>2
<1>4. ASSUME NEW h, Handled(n, h), NEW x \in Conns, x \in h.watched, x # c \/ e.of # c
      PROVE  NoticedIn(h, d, x) /\ NoticedOut(h, d, x)
  BY <1>4, OthersNoticed
<1>5. ASSUME NEW h, Handled(n, h), c \in h.watched
      PROVE  /\ c \in n.watched /\ ~n.conn[c].m_closed /\ ~h.conn[c].m_closed
             /\ NoticedIn(n, b, c) /\ NoticedOut(n, b, c) /\ h.sock[c].unread \in Nat
             /\ h.fd[c] = n.fd[c] /\ h.eventsMap[h.fd[c]] = c
  <2>1. c \in n.watched
    BY <1>5 DEF Handled, Ages
  <2>2. h.sock[c] \in Sockets
    BY <1>5, ConnTypes DEF Handled, Core
  <2>3. ~h.conn[c].m_closed /\ h.eventsMap[h.fd[c]] = c
    BY <1>5, OpenOrShut DEF Handled
  <2>4. ~n.conn[c].m_closed /\ h.fd[c] = n.fd[c]
    BY <1>5, <2>3, StillThere
  <2>5. NoticedIn(n, b, c) /\ NoticedOut(n, b, c)
    BY <2>1 DEF Noticed
  <2>6. h.sock[c].unread \in Nat
    BY <2>2 DEF Sockets
  <2> QED BY <2>1, <2>3, <2>4, <2>5, <2>6
<1>6. CASE "ERR" \in e.events \/ ("HUP" \in e.events /\ "IN" \notin e.events)
  <2>1. m = Ended(t, c)
    BY <1>6 DEF Handle, Told
  <2>2. /\ Handled(n, t) /\ t.fd = n.fd /\ t.conn = n.conn /\ t.sock = n.sock
        /\ e.of # c => c \in t.stray
    BY ToldHandled
  <2> HIDE DEF t
  <2>3. Gone(t, c) \/ c \in t.stray \/ t.conn[c].m_closed
    BY <1>6, <2>2 DEF BatchInv, Gone, Owed, Pending
  <2>4. Core(t)
    BY <2>2 DEF Handled
  <2>5. Handled(t, m) /\ m.conn[c].m_closed
    BY <1>3, <2>1, <2>2, <2>3, <2>4, EndedHandled
  <2>6. Handled(n, m)
    BY <2>2, <2>5, HandledTrans
  <2>7. c \notin m.watched
    BY <2>5, <2>6, OpenOrShut DEF Handled
  <2> QED BY <1>4, <2>6, <2>7 DEF Outcome, Noticed
<1>7. CASE ~("ERR" \in e.events \/ ("HUP" \in e.events /\ "IN" \notin e.events))
  <2>1. m \in IF "OUT" \notin e.events THEN ReadFirst(n, c, e)
              ELSE UNION {IF r.eventsMap[e.fd] = c THEN onWrite(r, c)
                          ELSE {r, [r EXCEPT !.alive = FALSE]} : r \in ReadFirst(n, c, e)}
    BY <1>7, Zenon DEF Handle, ReadFirst, Told
  <2>2. \E r \in ReadFirst(n, c, e) :
            m \in IF "OUT" \notin e.events THEN {r}
                  ELSE IF r.eventsMap[e.fd] = c THEN onWrite(r, c)
                  ELSE {r, [r EXCEPT !.alive = FALSE]}
    BY <2>1
  <2>3. PICK r \in ReadFirst(n, c, e) :
            m \in IF "OUT" \notin e.events THEN {r}
                  ELSE IF r.eventsMap[e.fd] = c THEN onWrite(r, c)
                  ELSE {r, [r EXCEPT !.alive = FALSE]}
    BY <2>2
  <2>4. /\ Handled(n, r)
        /\ "IN" \in e.events =>
              \/ r.conn[c].m_closed
              \/ Drained(r, c)
              \/ n.conn[c].kind = "client" /\ n.conn[c].m_status = "connecting"
                 /\ r.conn[c].m_status = "connected"
    BY <1>3, ReadFirstHandled
  <2>5. Core(r) /\ r.writing = None
    BY <2>4 DEF Handled, Aside
  <2>6. ASSUME NEW h, Handled(n, h), Handled(r, h), c \in h.watched, e.of = c,
               ~(n.conn[c].kind = "client" /\ n.conn[c].m_status = "connecting"
                 /\ r.conn[c].m_status = "connected" /\ "IN" \in e.events)
        PROVE  NoticedIn(h, d, c)
    <3>1. CASE "IN" \in e.events
      <4>1. ~h.conn[c].m_closed /\ h.sock[c].unread \in Nat
        BY <1>5, <2>6
      <4>2. ~r.conn[c].m_closed /\ (Owed(h, c) => Owed(r, c)) /\ h.sock[c].unread \in {0, r.sock[c].unread}
        BY <2>6, <4>1, StillThere
      <4>3. Drained(h, c)
        BY <2>4, <2>6, <3>1, <4>2 DEF Drained
      <4> QED BY <4>1, <4>3, DrainedNoticed
    <3>2. CASE "IN" \notin e.events
      BY <1>5, <1>7, <2>6, <3>2, NoticedInCarried
    <3> QED BY <3>1, <3>2
  <2>7. CASE "OUT" \notin e.events
    <3>1. m = r /\ Handled(n, m) /\ Handled(r, m)
      BY <2>3, <2>4, <2>5, <2>7, SameHandled
    <3>2. ASSUME c \in m.watched, e.of = c PROVE NoticedIn(m, d, c) /\ NoticedOut(m, d, c)
      <4>1. NoticedOut(m, d, c)
        BY <1>5, <2>7, <3>1, <3>2, NoticedOutCarried
      <4>2. ~n.conn[c].m_closed
        BY <1>5, <3>1, <3>2
      <4>3. ~("IN" \in e.events /\ n.conn[c].kind = "client" /\ n.conn[c].m_status = "connecting")
        BY <1>7, <2>7, <3>2, <4>2 DEF BatchInv
      <4>4. NoticedIn(m, d, c)
        BY <2>6, <3>1, <3>2, <4>3
      <4> QED BY <4>1, <4>4
    <3> QED BY <1>4, <3>1, <3>2 DEF Outcome, Noticed
  <2>8. CASE "OUT" \in e.events /\ r.eventsMap[e.fd] # c
    <3>1. m \in {r, [r EXCEPT !.alive = FALSE]}
      BY <2>3, <2>8
    <3>2. Handled(r, m)
      BY <2>5, <3>1, SameHandled, EndHandled
    <3>3. Handled(n, m)
      BY <2>4, <3>2, HandledTrans
    <3>4. ~(c \in m.watched /\ e.of = c)
      <4> SUFFICES ASSUME c \in m.watched, e.of = c PROVE FALSE
        OBVIOUS
      <4>1. c \in r.watched
        BY <3>2 DEF Handled, Ages
      <4>2. r.fd[c] = n.fd[c] /\ r.eventsMap[r.fd[c]] = c /\ ~n.conn[c].m_closed
        BY <1>5, <2>4, <4>1
      <4> QED BY <1>2, <2>8, <4>2
    <3> QED BY <1>4, <3>3, <3>4, Zenon DEF Outcome, Noticed
  <2>9. CASE "OUT" \in e.events /\ r.eventsMap[e.fd] = c
    <3>1. m \in onWrite(r, c)
      BY <2>3, <2>9
    <3>2. r.fd[c] # NoFd \/ r.conn[c].m_closed
      BY <1>3, <2>4 DEF Handled, Ages
    <3>3. CASE /\ m = Turn(r, c) /\ r.fd[c] # NoFd /\ ~r.conn[c].m_closed
               /\ r.conn[c].kind = "client" => r.conn[c].m_status = "connected"
      <4>1. /\ m.writing = c /\ m.want = r.want /\ m.watched = r.watched /\ m.ready = r.ready
            /\ m.sock = r.sock /\ m.conn = r.conn
        BY <2>5, <3>3, TurnIs
      <4>2. \A x \in Conns : Space(m, x) = Space(r, x) /\ Owed(m, x) = Owed(r, x) /\ (Udp(m, x) <=> Udp(r, x))
        BY <4>1 DEF Space, Gone, Udp, Owed, Pending
      <4>n. \A x \in Conns : x # None
        BY EventLoopAssumption
      <4>3. ASSUME NEW x \in Conns, x \in m.watched, x # c \/ e.of # c
            PROVE  NoticedIn(m, d, x) /\ NoticedOut(m, d, x)
        <5>1. NoticedIn(r, d, x) /\ NoticedOut(r, d, x)
          BY <1>4, <2>4, <4>1, <4>3, Zenon
        <5> QED BY <2>5, <4>1, <4>2, <4>n, <5>1 DEF NoticedIn, NoticedOut
      <4>4. ASSUME c \in m.watched, e.of = c
            PROVE  NoticedIn(m, d, c) /\ NoticedOut(m, d, c)
        <5>1. c \in r.watched
          BY <4>1, <4>4
        <5>2. NoticedOut(r, b, c)
          BY <1>5, <2>4, <5>1, NoticedOutCarried
        <5>3. NoticedOut(m, d, c)
          BY <4>1, <5>2 DEF NoticedOut
        <5>4. CASE ~Udp(r, c)
          BY <4>1, <4>2, <5>3, <5>4 DEF NoticedIn
        <5>5. CASE Udp(r, c)
          <6>1. n.conn[c].kind # "client"
            BY <2>4, <5>5 DEF Udp, Handled, Ages
          <6>2. Handled(r, r)
            BY <2>5, SameHandled
          <6>3. NoticedIn(r, d, c)
            BY <2>4, <2>6, <4>4, <5>1, <6>1, <6>2, Zenon
          <6> QED BY <2>5, <4>1, <4>2, <4>n, <5>3, <6>3 DEF NoticedIn
        <5> QED BY <5>4, <5>5
      <4> QED BY <2>4, <3>3, <4>3, <4>4, Zenon DEF Outcome, Noticed
    <3>4. CASE /\ Handled(r, m) /\ (r.conn[c].m_closed \/ r.conn[c].m_status = "connecting")
               /\ c \in m.watched /\ m.conn[c].m_iovecList # <<>> => OutSettled(m, c)
      <4>1. Handled(n, m)
        BY <2>4, <3>4, HandledTrans
      <4>2. ASSUME c \in m.watched, e.of = c
            PROVE  NoticedIn(m, d, c) /\ NoticedOut(m, d, c)
        <5>1. NoticedOut(m, d, c)
          BY <3>4, <4>2 DEF NoticedOut, OutSettled
        <5>2. ~r.conn[c].m_closed
          BY <1>5, <3>4, <4>1, <4>2, StillThere, Zenon
        <5>3. NoticedIn(m, d, c)
          BY <2>6, <3>4, <4>1, <4>2, <5>2, Zenon
        <5> QED BY <5>1, <5>3
      <4> QED BY <1>4, <4>1, <4>2, Zenon DEF Outcome, Noticed
    <3> QED BY <2>5, <3>1, <3>2, <3>3, <3>4, onWriteHandled DEF Turn
  <2> QED BY <2>7, <2>8, <2>9
<1> QED BY <1>6, <1>7

(* An object after a turn of writing: bytes that were written, what is left. *)
CutOf(k, b, l) == [k EXCEPT !.written = @ \o b, !.m_iovecList = l]

-----------------------------------------------------------------------------
(* One turn of onWrite.                                                      *)

(* What a turn of onWrite does to the object.                                *)
LEMMA CutValues ==
  ASSUME NEW k \in Connections, NEW b \in Seq(Nat), NEW l \in Lists(Nat)
  PROVE  LET x == CutOf(k, b, l)
         IN  /\ x \in Connections /\ Alike(x, k)
             /\ x.asked = k.asked /\ x.unfinished = k.unfinished
             /\ x.m_iovecList = l /\ x.written = k.written \o b /\ x.short = k.short
<1> DEFINE w == k.written \o b
           x == [k EXCEPT !.written = w, !.m_iovecList = l]
<1>1. k.written \in Seq(Nat)
  BY DEF Connections
<1>2. w \in Seq(Nat) /\ CutOf(k, b, l) = x
  BY <1>1 DEF CutOf
<1> HIDE DEF w
<1>3. /\ x \in Connections /\ Alike(x, k)
      /\ x.asked = k.asked /\ x.unfinished = k.unfinished
      /\ x.m_iovecList = l /\ x.written = w /\ x.short = k.short
  BY <1>2, Zenon DEF Connections, Alike
<1> QED BY <1>2, <1>3 DEF w

(* The kernel took b and l is left.                                          *)
Wrote(n, c, b, l) == [Written(n, c, b) EXCEPT !.conn[c].m_iovecList = l]

(* That, as Put.                                                             *)
LEMMA WrotePuts ==
  ASSUME NEW n \in Nets, NEW c \in Conns, NEW b, NEW l
  PROVE  Wrote(n, c, b, l)
           = Put(n, n.asks, c, CutOf(n.conn[c], b, l), FilledOf(n.sock[c], Len(b)))
<1> DEFINE k == WrittenOf(n.conn[c], b)
           s == FilledOf(n.sock[c], Len(b))
<1>1. c \in All
  BY ConnTypes
<1>2. Written(n, c, b) = Put(n, n.asks, c, k, s)
  BY WrittenPuts
<1> HIDE DEF s
<1>3. n.conn[c] \in Connections
  BY ConnTypes
<1>4. [k EXCEPT !.m_iovecList = l] = CutOf(n.conn[c], b, l)
  BY <1>3 DEF WrittenOf, CutOf, Connections
<1> HIDE DEF k
<1>5. [Put(n, n.asks, c, k, s) EXCEPT !.conn[c].m_iovecList = l]
        = Put(n, n.asks, c, [k EXCEPT !.m_iovecList = l], s)
  BY <1>1, Zenon DEF Put, Nets, All
<1> QED BY <1>2, <1>4, <1>5 DEF s, Wrote

(* Bytes that were at the front of the list are behind those written before. *)
LEMMA CutInOrder ==
  ASSUME NEW w \in Seq(Nat), NEW q \in Seq(Nat), NEW i \in 0 .. Len(q)
  PROVE  /\ SubSeq(q, 1, i) \in Seq(Nat) /\ Len(SubSeq(q, 1, i)) = i
         /\ (w \o SubSeq(q, 1, i)) \o After(q, i) = w \o q
<1> DEFINE x == SubSeq(q, 1, i)
           y == After(q, i)
<1>1. /\ x \in Seq(Nat) /\ Len(x) = i /\ \A j \in 1 .. i : x[j] = q[j]
  OBVIOUS
<1>2. y \in Seq(Nat) /\ Len(y) = Len(q) - i /\ \A j \in 1 .. Len(q) - i : y[j] = q[i + j]
  BY AfterIs
<1> HIDE DEF x, y
<1>3. x \o y = q
  <2>1. /\ x \o y \in Seq(Nat) /\ Len(x \o y) = Len(q)
        /\ \A j \in 1 .. Len(q) : (x \o y)[j] = IF j <= i THEN x[j] ELSE y[j - i]
    <3>1. Len(q) \in Nat /\ i \in Nat /\ i + (Len(q) - i) = Len(q)
      OBVIOUS
    <3>2. /\ x \o y \in Seq(Nat) /\ Len(x \o y) = Len(x) + Len(y)
          /\ \A j \in 1 .. Len(x) + Len(y) : (x \o y)[j] = IF j <= Len(x) THEN x[j] ELSE y[j - Len(x)]
      BY <1>1, <1>2, ConcatProperties, Zenon
    <3> QED BY <1>1, <1>2, <3>1, <3>2, Zenon
  <2>2. \A j \in 1 .. Len(q) : (x \o y)[j] = q[j]
    <3> TAKE j \in 1 .. Len(q)
    <3>1. CASE j <= i
      BY <1>1, <2>1, <3>1
    <3>2. CASE ~(j <= i)
      <4>1. j - i \in 1 .. Len(q) - i /\ i + (j - i) = j
        BY <3>2
      <4> QED BY <1>2, <2>1, <3>2, <4>1, Zenon
    <3> QED BY <3>1, <3>2, Zenon
  <2> QED BY <2>1, <2>2, SeqEqual, Zenon
<1>4. (w \o x) \o y = w \o (x \o y)
  <2>1. w \in Seq(Nat) /\ x \in Seq(Nat) /\ y \in Seq(Nat)
    BY <1>1, <1>2
  <2> QED BY <2>1
<1> QED BY <1>1, <1>3, <1>4, Zenon DEF x, y

(* What the turn of a TcpConnection writes.                                  *)
LEMMA TurnValues ==
  ASSUME NEW n, Core(n), NEW c \in Conns, Sendable(n, c), ~n.conn[c].m_closed, ~Udp(n, c)
  PROVE  LET list == n.conn[c].m_iovecList
             i == Smaller(Len(FlattenSeq(list)), Space(n, c))
             left == Rest(list, i)
             bytes == SubSeq(FlattenSeq(list), 1, i)
             x == CutOf(n.conn[c], bytes, left)
             f == FilledOf(n.sock[c], Len(bytes))
         IN  /\ x \in Connections /\ Alike(x, n.conn[c]) /\ x.m_iovecList = left
             /\ left # <<>> => BytesOK(x) /\ list # <<>>
             /\ left = <<>> => BytesOK(CompleteOf(x))
             /\ f \in Sockets /\ f.unsent <= Room /\ n.sock[c].unsent <= f.unsent
             /\ f.kind = n.sock[c].kind /\ f.fin = n.sock[c].fin
             /\ f.error = n.sock[c].error /\ f.unread = n.sock[c].unread
             /\ f.taken = n.sock[c].taken
<1> DEFINE k == n.conn[c]
           s == n.sock[c]
           list == k.m_iovecList
           all == FlattenSeq(list)
           i == Smaller(Len(all), Space(n, c))
           left == Rest(list, i)
           bytes == SubSeq(all, 1, i)
           x == CutOf(k, bytes, left)
           f == FilledOf(s, Len(bytes))
<1>1. /\ n \in Nets /\ ~k.m_closed /\ k \in Connections /\ s \in Sockets
      /\ BytesOK(k) /\ s.unsent <= Room
      /\ k.asked \in Nat /\ k.unfinished \in Nat
      /\ k.m_iovecList \in Lists(Nat) /\ k.written \in Seq(Nat)
      /\ s.unsent \in Nat /\ n.asks \in Nat
  BY OpenObject
<1>2. k.kind \notin {"udpserver", "udpclient"}
  BY DEF Udp
<1>3. Space(n, c) \in Nat /\ s.unsent + Space(n, c) <= Room
  BY <1>1, EventLoopAssumption DEF Space, Pending
<1> HIDE DEF k, s
<1>4. all \in Seq(Nat) /\ Len(all) \in Nat
  BY <1>1, FlattenType
<1> HIDE DEF all
<1>5. i \in 0 .. Len(all) /\ s.unsent + i <= Room
  BY <1>1, <1>3, <1>4, EventLoopAssumption DEF Smaller
<1> HIDE DEF i
<1>6. /\ left \in Lists(Nat) /\ FlattenSeq(left) = After(all, i)
      /\ list = <<>> => left = <<>>
  BY <1>1, <1>5, RestIs DEF all
<1> HIDE DEF left
<1>7. /\ bytes \in Seq(Nat) /\ Len(bytes) = i
      /\ (k.written \o bytes) \o After(all, i) = k.written \o all
  BY <1>1, <1>4, <1>5, CutInOrder, Zenon
<1> HIDE DEF bytes
<1>8. /\ x \in Connections /\ Alike(x, k)
      /\ x.asked = k.asked /\ x.unfinished = k.unfinished
      /\ x.m_iovecList = left /\ x.written = k.written \o bytes /\ x.short = k.short
  <2>1. k \in Connections /\ bytes \in Seq(Nat) /\ left \in Lists(Nat)
    BY <1>1, <1>6, <1>7
  <2> QED BY <2>1, CutValues
<1> HIDE DEF x
<1>9. ~x.short => x.written \o FlattenSeq(x.m_iovecList) = Numbers(x.asked)
  BY <1>1, <1>6, <1>7, <1>8, Zenon DEF BytesOK, all
<1>10. left # <<>> => BytesOK(x) /\ list # <<>>
  BY <1>1, <1>2, <1>6, <1>8, <1>9, Zenon DEF BytesOK, Alike
<1>11. BytesOK(CompleteOf(x)) \/ left # <<>>
  <2> DEFINE y == CompleteOf(x)
  <2>1. /\ Alike(y, x) /\ y.asked = x.asked /\ y.unfinished = 0
        /\ y.m_iovecList = x.m_iovecList /\ y.written = x.written /\ y.short = x.short
    BY <1>8, ObjectValues, Zenon
  <2> HIDE DEF y
  <2>2. BytesOK(y)
    BY <1>1, <1>2, <1>8, <1>9, <2>1 DEF BytesOK, Alike
  <2> QED BY <2>2 DEF y
<1>12. i \in Nat
  BY <1>4, <1>5
<1>13. /\ f \in Sockets /\ f.unsent = s.unsent + i /\ f.kind = s.kind /\ f.fin = s.fin
       /\ f.error = s.error /\ f.unread = s.unread /\ f.taken = s.taken
  BY <1>1, <1>7, <1>12, SocketFilled
<1> HIDE DEF f
<1>14. f.unsent <= Room /\ s.unsent <= f.unsent
  BY <1>1, <1>5, <1>12, <1>13
<1> QED BY <1>8, <1>10, <1>11, <1>13, <1>14, Zenon DEF x, f, left, bytes, i, all, k, s

(* epoll is asked no longer to report room, and looks at the socket again.   *)
LEMMA DisableIs ==
  ASSUME NEW n \in Nets, NEW c \in Conns, n.ready \subseteq n.watched,
         c \in n.watched => Mapped(n, c) /\ "IN" \in n.want[c]
  PROVE  LET m == enableWriting(n, c, FALSE)
         IN  /\ Elsewhere(n, m, c) /\ Linked(n, m) /\ m.conn = n.conn /\ m.sock = n.sock
             /\ m.asks = n.asks
             /\ n.ready \subseteq m.ready /\ m.ready \subseteq m.watched
             /\ "IN" \in n.want[c] => "IN" \in m.want[c]
             /\ c \in n.watched /\ "IN" \in Mask(n, c) => c \in m.ready
<1> DEFINE w == n.want[c] \ {"OUT"}
           m == enableWriting(n, c, FALSE)
<1>0. w \in SUBSET {"IN", "OUT"} /\ c \in All /\ c \in Objects
  BY ConnTypes
<1>1. [n EXCEPT !.want[c] = @ \ {"OUT"}] = [n EXCEPT !.want[c] = w]
  BY <1>0 DEF Nets, All
<1>2. m = IF Mapped(n, c) THEN Polled([n EXCEPT !.want[c] = w], c) ELSE n
  BY <1>1 DEF enableWriting
<1> HIDE DEF m
<1>3. CASE Mapped(n, c)
  <2>1. m = Polled([n EXCEPT !.want[c] = w], c)
    BY <1>2, <1>3
  <2> HIDE DEF w
  <2>2. /\ Elsewhere(n, m, c) /\ Linked(n, m)
        /\ m.conn = n.conn /\ m.sock = n.sock /\ m.asks = n.asks
        /\ m.want[c] = w /\ n.ready \subseteq m.ready
        /\ c \in m.ready => c \in n.ready \/ c \in n.watched
        /\ c \in n.watched /\ Mask(n, c) \cap w # {} => c \in m.ready
    BY <1>0, <2>1, PolledIs, Zenon
  <2>3. m.ready \subseteq m.watched
    <3>1. m.ready \subseteq All /\ m.watched = n.watched
      BY <2>2 DEF Elsewhere, Linked, Nets, All
    <3>2. \A o \in All : o # c => (o \in m.ready <=> o \in n.ready)
      BY <2>2 DEF Elsewhere
    <3> QED BY <2>2, <3>1, <3>2
  <2>4. "IN" \in n.want[c] => "IN" \in w
    BY DEF w
  <2> QED BY <2>2, <2>3, <2>4, Zenon DEF m
<1>4. CASE ~Mapped(n, c)
  <2>1. m = n
    BY <1>2, <1>4
  <2> QED BY <1>4, <2>1, Zenon DEF m, Elsewhere, Linked
<1> QED BY <1>3, <1>4, Zenon

(* poll reports what there is to read.                                       *)
LEMMA SomethingToRead ==
  ASSUME NEW n, NEW c \in Conns, SocketInv(n, c), n.sock[c].unread > 0 \/ Owed(n, c), ~Udp(n, c)
  PROVE  "IN" \in Mask(n, c)
<1>1. c # Pipe
  BY EventLoopAssumption
<1>2. CASE n.sock[c].kind = "reset"
  BY <1>1, <1>2 DEF Mask
<1>3. CASE n.sock[c].kind # "reset"
  <2>1. n.sock[c].kind = "open" /\ (n.sock[c].unread > 0 \/ n.sock[c].fin)
    BY <1>3 DEF SocketInv, Gone, Owed, Pending
  <2>2. Mask(n, c) = When(n.sock[c].unread > 0 \/ n.sock[c].fin, "IN")
                       \cup When(n.sock[c].unsent < Room, "OUT") \cup When(Pending(n.sock[c]), "ERR")
    BY <1>1, <2>1 DEF Mask
  <2> QED BY <2>1, <2>2 DEF When
<1> QED BY <1>2, <1>3

(* A turn goes on with an object that was not closed.                        *)
LEMMA TurnGoesOn ==
  ASSUME NEW n, Core(n), WritingInv(n), NEW c \in Conns, n.writing = c, NEW b, Noticed(n, b),
         NEW m, Handled(n, m), ~m.conn[c].m_closed
  PROVE  Follows(n, m) /\ Noticed(m, b) /\ WritingInv(m)
<1>1. c # None
  BY EventLoopAssumption
<1>2. n.fd[c] # NoFd /\ (n.conn[c].kind = "client" => n.conn[c].m_status = "connected")
  BY <1>1 DEF WritingInv
<1>3. /\ m.writing = c /\ m.fd[c] # NoFd
      /\ m.conn[c].kind = "client" => m.conn[c].m_status = "connected"
  BY <1>2, StillThere DEF Handled, Aside
<1> QED BY <1>3, HandledFollows, NoticedCarried DEF WritingInv

(* Outside onWrite there is nothing to say of it.                            *)
LEMMA NobodyWrites ==
  ASSUME NEW n, n.writing = None
  PROVE  WritingInv(n)
  BY DEF WritingInv

(* m_WriteCompleteCallback was called.                                       *)
Finished(n, c) == [n EXCEPT !.conn[c].unfinished = 0]

(* It changes the object alone.                                              *)
LEMMA FinishedIs ==
  ASSUME NEW n \in Nets, NEW c \in Conns
  PROVE  Finished(n, c) = WithConn(n, c, CompleteOf(n.conn[c]))
  BY DEF Finished, WithConn, CompleteOf, Nets

(* writev has written all there was.                                         *)
LEMMA AllWritten ==
  ASSUME NEW n, Core(n), NEW c \in Conns, n.writing = c, Sendable(n, c), ~n.conn[c].m_closed,
         ~Udp(n, c), NEW b, Noticed(n, b),
         NEW x \in Connections, NEW f \in Sockets, Alike(x, n.conn[c]), x.m_iovecList = <<>>,
         BytesOK(CompleteOf(x)),
         f.unsent <= Room, n.sock[c].unsent <= f.unsent,
         f.kind = n.sock[c].kind, f.fin = n.sock[c].fin,
         f.error = n.sock[c].error, f.unread = n.sock[c].unread, f.taken = n.sock[c].taken
  PROVE  LET h == Finished(enableWriting(Put(n, n.asks, c, x, f), c, FALSE), c)
         IN  /\ enableWriting(Put(n, n.asks, c, x, f), c, FALSE) \in Nets
             /\ Handled(n, h) /\ ~h.conn[c].m_closed /\ Noticed(Turn(h, None), b)
<1> DEFINE p == Put(n, n.asks, c, x, f)
           q == enableWriting(p, c, FALSE)
           y == CompleteOf(q.conn[c])
           h == WithConn(q, c, y)
<1>0. /\ n \in Nets /\ n.asks \in Nat /\ x.kind = n.conn[c].kind
      /\ BytesInv(n, c) /\ StatusInv(n, c) /\ SocketInv(n, c)
  BY DEF Core, Alike, Nets
<1>1. /\ Elsewhere(n, p, c) /\ Linked(n, p) /\ p.conn[c] = x /\ p.sock[c] = f
      /\ p.ready = n.ready /\ p.want = n.want
  BY <1>0, PutIs
<1> HIDE DEF p
<1>2. p \in Nets /\ p.ready \subseteq p.watched
  BY <1>1 DEF Elsewhere, Linked, Core, MapInv
<1>3. c \in p.watched => Mapped(p, c) /\ "IN" \in p.want[c]
  <2>1. c \in n.watched => n.fd[c] # NoFd /\ n.eventsMap[n.fd[c]] = c /\ "IN" \in n.want[c]
    BY OpenOrShut
  <2> QED BY <1>1, <2>1, EventLoopAssumption DEF Linked, Mapped
<1>4. /\ Elsewhere(p, q, c) /\ Linked(p, q) /\ q.conn = p.conn /\ q.sock = p.sock
      /\ p.ready \subseteq q.ready /\ q.ready \subseteq q.watched
      /\ "IN" \in p.want[c] => "IN" \in q.want[c]
      /\ c \in p.watched /\ "IN" \in Mask(p, c) => c \in q.ready
  BY <1>2, <1>3, DisableIs, Zenon
<1> HIDE DEF q
<1>5. q \in Nets /\ y \in Connections /\ y.kind = q.conn[c].kind /\ y = CompleteOf(x)
  <2>1. y \in Connections /\ Alike(y, x)
    BY <1>1, <1>4, ObjectValues
  <2> QED BY <1>1, <1>4, <2>1 DEF Elsewhere, Alike
<1> HIDE DEF y
<1>6. /\ Elsewhere(q, h, c) /\ Linked(q, h) /\ h.conn[c] = y
      /\ h.ready = q.ready /\ h.sock = q.sock /\ h.want = q.want
  BY <1>5, PutConn
<1>f. Finished(q, c) = h
  BY <1>5, FinishedIs DEF y
<1> HIDE DEF h
<1>7. Elsewhere(n, h, c) /\ Linked(n, h) /\ h.ready \subseteq h.watched
  BY <1>1, <1>4, <1>6, ElsewhereTrans DEF Linked
<1>8. /\ Alike(y, n.conn[c]) /\ y.m_iovecList = <<>> /\ BytesOK(y)
  <2>1. Alike(y, x) /\ y.m_iovecList = x.m_iovecList
    BY <1>5, ObjectValues
  <2> QED BY <1>5, <2>1 DEF Alike
<1>9. h.sock[c] = f /\ h.fd = n.fd /\ h.watched = n.watched /\ n.stray \subseteq h.stray
      /\ n.ready \subseteq h.ready /\ h.conn[c] = y /\ h.writing = c /\ n.writing = c
  BY <1>1, <1>4, <1>6, <1>7 DEF Elsewhere, Linked
<1>10. BytesInv(h, c)
  BY <1>8, <1>9 DEF BytesInv
<1>11. StatusInv(h, c)
  BY <1>0, <1>8, <1>9 DEF StatusInv, Alike, Sendable
<1>12. SocketInv(h, c)
  BY <1>0, <1>8, <1>9 DEF SocketInv, Udp, Alike
<1>13. Ages(n, h, c)
  BY <1>8, <1>9 DEF Ages, Alike, Gone, Owed, Pending
<1>14. KeepsAt(n, h, c)
  BY <1>8, <1>9 DEF KeepsAt
<1>15. h.conn[c].m_closed = n.conn[c].m_closed /\ ("IN" \in n.want[c] => "IN" \in h.want[c])
  BY <1>1, <1>4, <1>6, <1>8, <1>9 DEF Alike
<1>16. Handled(n, h)
  BY <1>7, <1>10, <1>11, <1>12, <1>13, <1>14, <1>15, QuietHandled
<1>17. Core(h)
  BY <1>16 DEF Handled
<1>18. ASSUME c \in h.watched
       PROVE  NoticedIn(Turn(h, None), b, c) /\ NoticedOut(Turn(h, None), b, c)
  <2> DEFINE t == Turn(h, None)
  <2>1. t.conn = h.conn /\ t.sock = h.sock /\ t.ready = h.ready
    BY <1>17, TurnIs
  <2> HIDE DEF t
  <2>2. NoticedOut(t, b, c)
    BY <1>8, <1>9, <2>1 DEF NoticedOut
  <2>3. NoticedIn(t, b, c)
    <3> SUFFICES ASSUME t.sock[c].unread > 0 \/ Owed(t, c) PROVE c \in t.ready
      BY DEF NoticedIn
    <3>1. Owed(t, c) = Owed(p, c) /\ t.sock[c] = p.sock[c]
      BY <1>1, <1>9, <2>1 DEF Gone, Owed, Pending
    <3>2. SocketInv(p, c) /\ ~Udp(p, c)
      BY <1>0, <1>1 DEF SocketInv, Udp
    <3>3. "IN" \in Mask(p, c)
      BY <3>1, <3>2, SomethingToRead
    <3> QED BY <1>1, <1>4, <1>6, <1>9, <1>18, <2>1, <3>3 DEF Linked
  <2> QED BY <2>2, <2>3 DEF t
<1>19. Noticed(h, b)
  BY <1>16, NoticedCarried
<1>20. Noticed(Turn(h, None), b)
  BY <1>9, <1>17, <1>18, <1>19, TurnEnds DEF Noticed
<1> QED BY <1>5, <1>15, <1>16, <1>20, <1>f, Zenon DEF q, p

(* The end of the turn and the end of the completion, in either order.       *)
LEMMA LastOfCompletion ==
  ASSUME NEW n \in Nets, NEW c \in Conns
  PROVE  Turn(Finished(n, c), None) = [[n EXCEPT !.writing = None] EXCEPT !.conn[c].unfinished = 0]
  BY DEF Turn, Finished, Nets

(* One turn of TcpConnection::onWrite: either more is to be written and      *)
(* there is room, or EPOLLOUT is still to come, or the list is empty.        *)
LEMMA writevFollows ==
  ASSUME NEW n, Core(n), WritingInv(n), NEW c \in Conns, n.writing = c, ~Udp(n, c),
         NEW b, Noticed(n, b), NEW m \in writev(n, c)
  PROVE  Follows(n, m) /\ Noticed(m, b) /\ WritingInv(m)
<1> DEFINE list == n.conn[c].m_iovecList
           i == Smaller(Len(FlattenSeq(list)), Space(n, c))
           left == Rest(list, i)
           bytes == SubSeq(FlattenSeq(list), 1, i)
           x == CutOf(n.conn[c], bytes, left)
           f == FilledOf(n.sock[c], Len(bytes))
           took == Wrote(n, c, bytes, left)
<1>1. Sendable(n, c) /\ ~n.conn[c].m_closed /\ n \in Nets /\ c # None /\ n.asks \in Nat
  BY EventLoopAssumption DEF WritingInv, Sendable, Core, Nets
<1>t. n.sock[c].taken => n.sock[c].error
  BY <1>1, OpenObject
<1>2. /\ x \in Connections /\ Alike(x, n.conn[c]) /\ x.m_iovecList = left
      /\ left # <<>> => BytesOK(x) /\ list # <<>>
      /\ left = <<>> => BytesOK(CompleteOf(x))
      /\ f \in Sockets /\ f.unsent <= Room /\ n.sock[c].unsent <= f.unsent
      /\ f.kind = n.sock[c].kind /\ f.fin = n.sock[c].fin
      /\ f.error = n.sock[c].error /\ f.unread = n.sock[c].unread
      /\ f.taken = n.sock[c].taken
  BY <1>1, TurnValues, Zenon
<1> HIDE DEF left, bytes, i
<1>3. took = Put(n, n.asks, c, x, f)
  BY <1>1, WrotePuts
<1>4. m \in IF left = <<>> THEN Completed([enableWriting(took, c, FALSE) EXCEPT !.writing = None], c)
            ELSE {took}
  BY Zenon DEF writev, Wrote, left, bytes, i
<1> HIDE DEF took, x, f
<1>5. CASE left # <<>>
  <2>1. m = Put(n, n.asks, c, x, f)
    BY <1>3, <1>4, <1>5
  <2>2. Goes(n, c, x, f)
    BY <1>2, <1>5, <1>t DEF Goes, Alike
  <2>3. Handled(n, m) /\ m.conn[c].m_closed = n.conn[c].m_closed
    BY <1>1, <1>2, <1>5, <2>1, <2>2, PutHandled
  <2> QED BY <1>1, <2>3, TurnGoesOn
<1>6. CASE left = <<>>
  <2> DEFINE h == Finished(enableWriting(took, c, FALSE), c)
             done == Turn(h, None)
             w == enableWriting(took, c, FALSE)
  <2>1. w \in Nets /\ Handled(n, h) /\ ~h.conn[c].m_closed /\ Noticed(done, b)
    BY <1>1, <1>2, <1>3, <1>6, AllWritten, Zenon
  <2>2. m \in {done} \cup IF MayAsk(done, 1) THEN {SendList(done, c, 1), SentData(done, c, 1)} ELSE {}
    <3>1. done = [[w EXCEPT !.writing = None] EXCEPT !.conn[c].unfinished = 0]
      BY <2>1, LastOfCompletion, Zenon
    <3> QED BY <1>4, <1>6, <3>1, Zenon DEF Completed
  <2> HIDE DEF h
  <2>3. Core(h)
    BY <2>1 DEF Handled
  <2>4. /\ Core(done) /\ done.writing = None /\ done.conn = h.conn /\ done.fd = h.fd
    BY <2>3, TurnIs
  <2>5. Follows(n, done)
    BY <2>1, <2>3, HandledFollows, TurnFollows, FollowsTrans
  <2>c. done.conn[c].kind = n.conn[c].kind
    BY <2>1, <2>4 DEF Handled, Ages
  <2>d. h.fd[c] = n.fd[c] /\ (n.conn[c].kind = "client" => h.conn[c].m_status = n.conn[c].m_status)
    <3>1. /\ h.fd[c] = n.fd[c]
          /\ \/ h.conn[c].m_status = n.conn[c].m_status
             \/ n.conn[c].m_status = "connecting" /\ h.conn[c].m_status = "connected"
      <4>1. Ages(n, h, c) /\ ~h.conn[c].m_closed
        BY <2>1 DEF Handled
      <4> QED BY <4>1 DEF Ages
    <3>2. n.conn[c].kind = "client" => n.conn[c].m_status = "connected"
      BY <1>1 DEF Sendable
    <3> QED BY <3>1, <3>2
  <2>6. Sendable(done, c)
    BY <1>1, <2>4, <2>c, <2>d DEF Sendable
  <2> HIDE DEF done
  <2>7. CASE m = done
    BY <2>1, <2>4, <2>5, <2>7, NobodyWrites
  <2>8. CASE m \in {SendList(done, c, 1), SentData(done, c, 1)} /\ MayAsk(done, 1)
    <3>2. ~Udp(done, c) /\ Sendable(done, c) /\ 1 <= done.asks
      BY <2>6, <2>c, <2>8 DEF Udp, MayAsk
    <3>3. Handled(done, m)
      BY <2>4, <2>8, <3>2, SendListHandled, SentDataHandled
    <3>4. m.writing = None
      BY <2>4, <3>3 DEF Handled, Aside
    <3> QED BY <2>1, <2>5, <3>3, <3>4, HandledFollows, FollowsTrans, NoticedCarried, NobodyWrites
  <2> QED BY <2>2, <2>7, <2>8
<1> QED BY <1>5, <1>6

(* One datagram is written.                                                  *)
LEMMA DatagramWritten ==
  ASSUME NEW n, Core(n), NEW c \in Conns, Sendable(n, c), ~n.conn[c].m_closed, Udp(n, c),
         n.conn[c].m_iovecList # <<>>, Space(n, c) > 0
  PROVE  LET m == Wrote(n, c, Head(n.conn[c].m_iovecList), Tail(n.conn[c].m_iovecList))
         IN  Handled(n, m) /\ ~m.conn[c].m_closed
<1> DEFINE k == n.conn[c]
           s == n.sock[c]
           list == k.m_iovecList
           bytes == Head(list)
           left == Tail(list)
           x == CutOf(k, bytes, left)
           f == FilledOf(s, Len(bytes))
           m == Wrote(n, c, bytes, left)
<1>1. /\ n \in Nets /\ ~k.m_closed /\ k \in Connections /\ s \in Sockets
      /\ BytesOK(k) /\ s.unsent <= Room
      /\ k.asked \in Nat /\ k.unfinished \in Nat
      /\ k.m_iovecList \in Lists(Nat) /\ k.written \in Seq(Nat)
      /\ s.unsent \in Nat /\ n.asks \in Nat
  BY OpenObject
<1>t. s.taken => s.error
  BY OpenObject
<1>2. k.kind \in {"udpserver", "udpclient"} /\ list # <<>>
  BY DEF Udp
<1>3. s.unsent + 1 <= Room
  BY <1>1, EventLoopAssumption DEF Space, Pending
<1>e. n.conn[c].kind = k.kind /\ n.conn[c].m_closed = k.m_closed /\ k = n.conn[c] /\ s = n.sock[c]
  OBVIOUS
<1> HIDE DEF k, s
<1>4. /\ Head(list) = list[1] /\ bytes \in Seq(Nat) /\ left \in Lists(Nat)
      /\ Len(left) = Len(list) - 1 /\ Len(list) \in Nat /\ Len(list) > 0
  BY <1>1, <1>2, ListType
<1>5. k.unfinished = 0 /\ \A i \in 1 .. Len(list) : Len(list[i]) = 1
  BY <1>1, <1>2 DEF BytesOK
<1>6. Len(bytes) = 1
  BY <1>4, <1>5
<1>7. \A i \in 1 .. Len(left) : Len(left[i]) = 1
  <2>1. \A i \in 1 .. Len(left) : left[i] = list[i + 1]
    BY <1>1, <1>2 DEF Lists
  <2> QED BY <1>4, <1>5, <2>1
<1>8. FlattenSeq(list) = bytes \o FlattenSeq(left)
  BY <1>1, <1>2, FlattenCons, Zenon
<1>9. FlattenSeq(left) \in Seq(Nat)
  BY <1>4, FlattenType
<1>10. (k.written \o bytes) \o FlattenSeq(left) = k.written \o FlattenSeq(list)
  <2> HIDE DEF bytes, left, list
  <2>1. k.written \in Seq(Nat) /\ bytes \in Seq(Nat) /\ FlattenSeq(left) \in Seq(Nat)
    BY <1>1, <1>4, <1>9
  <2>2. (k.written \o bytes) \o FlattenSeq(left) = k.written \o (bytes \o FlattenSeq(left))
    <3> DEFINE w == k.written
               z == FlattenSeq(left)
    <3>1. w \in Seq(Nat) /\ bytes \in Seq(Nat) /\ z \in Seq(Nat)
      BY <2>1
    <3> HIDE DEF w, z
    <3>2. (w \o bytes) \o z = w \o (bytes \o z)
      BY <3>1
    <3> QED BY <3>2 DEF w, z
  <2> QED BY <1>8, <2>2
<1> HIDE DEF bytes, left
<1>11. /\ x \in Connections /\ Alike(x, k)
       /\ x.asked = k.asked /\ x.unfinished = k.unfinished
       /\ x.m_iovecList = left /\ x.written = k.written \o bytes /\ x.short = k.short
  BY <1>1, <1>4, CutValues, Zenon
<1>12. /\ f \in Sockets /\ f.unsent = s.unsent + 1 /\ f.kind = s.kind /\ f.fin = s.fin
       /\ f.error = s.error /\ f.unread = s.unread /\ f.taken = s.taken
  BY <1>1, <1>6, SocketFilled
<1>13. m = Put(n, n.asks, c, x, f)
  BY <1>1, WrotePuts DEF k, s
<1> HIDE DEF x, f, m
<1>14. BytesOK(x)
  <2>1. ~k.short => k.written \o FlattenSeq(list) = Numbers(k.asked)
    BY <1>1, Zenon DEF BytesOK
  <2>2. ~x.short => x.written \o FlattenSeq(x.m_iovecList) = Numbers(x.asked)
    BY <1>10, <1>11, <2>1, Zenon
  <2>3. x.unfinished = 0 /\ \A i \in 1 .. Len(x.m_iovecList) : Len(x.m_iovecList[i]) = 1
    BY <1>5, <1>7, <1>11
  <2>4. ~x.m_closed
    BY <1>1, <1>11 DEF Alike
  <2>5. ~(x.unfinished > 0)
    BY <2>3
  <2> QED BY <2>2, <2>3, <2>4, <2>5, Zenon DEF BytesOK
<1>15. Goes(n, c, x, f)
  <2>1. s.unsent <= f.unsent /\ f.unsent <= Room
    BY <1>1, <1>3, <1>12
  <2> QED BY <1>t, <1>e, <1>11, <1>12, <1>14, <2>1 DEF Goes, Alike
<1>16. Handled(n, m) /\ m.conn[c].m_closed = n.conn[c].m_closed
  BY <1>1, <1>2, <1>12, <1>13, <1>15, PutHandled DEF k, s
<1> QED BY <1>16 DEF m, left, bytes, k

(* One turn of UdpSocket::onWrite.                                           *)
LEMMA UdpWriteFollows ==
  ASSUME NEW n, Core(n), WritingInv(n), NEW c \in Conns, n.writing = c, Udp(n, c),
         NEW b, Noticed(n, b), NEW m \in UdpWriteStep(n, c)
  PROVE  Follows(n, m) /\ Noticed(m, b) /\ WritingInv(m)
<1> DEFINE list == n.conn[c].m_iovecList
<1>1. Sendable(n, c) /\ ~n.conn[c].m_closed /\ n \in Nets /\ c # None /\ n.asks \in Nat
  BY EventLoopAssumption DEF WritingInv, Sendable, Core, Nets
<1>2. CASE list = <<>>
  <2>1. m \in {UdpSendData(n, c), UdpSendList(n, c)} /\ 1 <= n.asks
    BY <1>1, <1>2 DEF UdpWriteStep, Sends, MayAsk
  <2>2. Handled(n, m) /\ ~m.conn[c].m_closed
    BY <1>1, <2>1, UdpSendDataHandled
  <2> QED BY <2>2, TurnGoesOn
<1>3. CASE list # <<>> /\ Pending(n.sock[c])
  <2>1. m = Turn(Ended(n, c), None)
    BY <1>3 DEF UdpWriteStep, Turn
  <2>2. Handled(n, Ended(n, c)) /\ Ended(n, c).conn[c].m_closed
    BY <1>1, <1>3, EndedHandled DEF Gone, Sendable, Owed, Pending
  <2> DEFINE h == Ended(n, c)
  <2>3. Handled(n, h) /\ h.conn[c].m_closed /\ m = Turn(h, None)
    BY <2>1, <2>2
  <2> HIDE DEF h
  <2>4. Core(h) /\ h.writing = c
    BY <2>3 DEF Handled, Aside
  <2>5. c \notin h.watched
    BY <2>3, <2>4, OpenOrShut
  <2>6. Noticed(h, b)
    BY <2>3, NoticedCarried
  <2>7. Noticed(m, b)
    BY <2>3, <2>4, <2>5, <2>6, TurnEnds DEF Noticed
  <2>8. m.writing = None
    BY <2>3, <2>4, TurnIs
  <2>9. Follows(n, m)
    BY <2>3, <2>4, HandledFollows, TurnFollows, FollowsTrans
  <2> QED BY <2>7, <2>8, <2>9, NobodyWrites
<1>4. CASE list # <<>> /\ ~Pending(n.sock[c]) /\ Space(n, c) = 0
  <2>1. m = Turn(n, None)
    BY <1>4 DEF UdpWriteStep, Turn
  <2>2. /\ m.writing = None /\ m.want = n.want /\ m.watched = n.watched /\ m.ready = n.ready
        /\ m.sock = n.sock /\ m.conn = n.conn
    BY <2>1, TurnIs
  <2>3. ASSUME c \in n.watched
        PROVE  NoticedIn(m, b, c) /\ NoticedOut(m, b, c)
    <3>1. NoticedIn(n, b, c) /\ NoticedOut(n, b, c)
      BY <2>3 DEF Noticed
    <3>2. Space(m, c) = 0 /\ Owed(m, c) = Owed(n, c)
      BY <1>4, <2>2 DEF Space, Gone, Owed, Pending
    <3> QED BY <2>2, <3>1, <3>2 DEF NoticedIn, NoticedOut
  <2>4. Noticed(m, b)
    BY <2>1, <2>3, TurnEnds DEF Noticed
  <2>5. Follows(n, m)
    BY <2>1, TurnFollows
  <2> QED BY <2>2, <2>4, <2>5, NobodyWrites
<1>5. CASE list # <<>> /\ ~Pending(n.sock[c]) /\ Space(n, c) # 0
  <2>1. m = Wrote(n, c, Head(list), Tail(list))
    BY <1>5 DEF UdpWriteStep, Wrote
  <2>2. Space(n, c) > 0
    <3>1. SocketInv(n, c) /\ n.sock[c].unsent \in Nat
      BY <1>1, ConnTypes DEF Core, Sockets
    <3> QED BY <1>5, <3>1, EventLoopAssumption DEF SocketInv, Space, Pending
  <2>3. Handled(n, m) /\ ~m.conn[c].m_closed
    BY <1>1, <1>5, <2>1, <2>2, DatagramWritten
  <2> QED BY <2>3, TurnGoesOn
<1> QED BY <1>2, <1>3, <1>4, <1>5

(* One turn of either, or SIGPIPE.                                           *)
LEMMA WriteFollows ==
  ASSUME NEW n, Core(n), WritingInv(n), NEW c \in Conns, n.writing = c, NEW b, Noticed(n, b),
         NEW m \in IF Udp(n, c) THEN UdpWriteStep(n, c)
                   ELSE IF n.sock[c].kind = "reset" THEN {[n EXCEPT !.alive = FALSE]}
                   ELSE writev(n, c)
  PROVE  Follows(n, m) /\ Noticed(m, b) /\ WritingInv(m)
<1>1. CASE Udp(n, c)
  BY <1>1, UdpWriteFollows
<1>2. CASE ~Udp(n, c) /\ n.sock[c].kind = "reset"
  <2>1. m = [n EXCEPT !.alive = FALSE] /\ m.conn = n.conn
    BY <1>2 DEF Core, Nets
  <2>2. Handled(n, m) /\ ~m.conn[c].m_closed
    BY <2>1, EndHandled, EventLoopAssumption DEF WritingInv
  <2> QED BY <2>2, TurnGoesOn
<1>3. CASE ~Udp(n, c) /\ n.sock[c].kind # "reset"
  BY <1>3, writevFollows
<1> QED BY <1>1, <1>2, <1>3

-----------------------------------------------------------------------------
(* Peers and the kernel.                                                     *)

(* The invariant of a state that is not the variables' own.                  *)
Inv(n, b, g, r) ==
  /\ Core(n) /\ WritingInv(n) /\ BatchInv(n, b) /\ Noticed(n, b)
  /\ TasksInv(n, r \o n.tasks) /\ WakeInv(n, b, g) /\ StageInv(n, g, r)

(* What follows keeps the invariant, if it keeps what must be noticed.       *)
LEMMA FollowsInv ==
  ASSUME NEW n, NEW b, NEW g, NEW r, Inv(n, b, g, r), NEW m, Follows(n, m),
         NEW d \in SUBSET b, Noticed(m, d), WritingInv(m), \A e \in b : e.of = Pipe => e \in d,
         NEW h \in {"tasks", "dispatch", "accept"}, h = "tasks" <=> g = "tasks",
         m.writing # None => h = "dispatch",
         h = "accept" /\ m.alive => n.fd[Acceptor] # NoFd
  PROVE  Inv(m, d, h, r)
<1>1. Core(m) /\ BatchInv(m, d)
  BY BatchCarried DEF Inv, Follows
<1>2. TasksInv(m, r \o m.tasks)
  BY TasksCarried DEF Inv, Follows
<1>3. WakeInv(m, d, h)
  BY DEF Inv, Follows, WakeInv
<1>4. StageInv(m, h, r)
  BY DEF Inv, Follows, StageInv
<1> QED BY <1>1, <1>2, <1>3, <1>4 DEF Inv

(* The same when the loop stays where it is.                                 *)
LEMMA StaysInv ==
  ASSUME NEW n, NEW b, NEW g, NEW r, Inv(n, b, g, r), NEW m, Follows(n, m),
         Noticed(m, b), WritingInv(m), m.writing = n.writing
  PROVE  Inv(m, b, g, r)
<1>1. g \in {"tasks", "dispatch", "accept"} /\ (m.writing # None => g = "dispatch")
      /\ (g = "accept" /\ m.alive => n.fd[Acceptor] # NoFd)
  BY DEF Inv, StageInv, Follows
<1> QED BY <1>1, FollowsInv

(* A peer, or the kernel, does something to one socket and epoll is told.    *)
LEMMA PeerFollows ==
  ASSUME NEW n, Core(n), WritingInv(n), NEW b, Noticed(n, b), NEW c \in Conns, NEW a, NEW keys,
         Elsewhere(n, a, c), Linked(n, a), a.conn = n.conn, a.want = n.want, a.ready = n.ready,
         SocketInv(a, c), StatusInv(a, c), Gone(n, c) => Gone(a, c),
         a.sock[c].kind = "none" => n.sock[c].kind = "none",
         \/ (a.sock[c].unread > 0 => n.sock[c].unread > 0) /\ (Owed(a, c) => Owed(n, c))
         \/ keys \cap {"IN", "ERR", "HUP"} # {},
         (Space(a, c) > 0 => Space(n, c) > 0) \/ keys \cap {"OUT", "ERR", "HUP"} # {}
  PROVE  LET m == Happened(a, c, keys)
         IN  Follows(n, m) /\ Noticed(m, b) /\ WritingInv(m) /\ m.writing = n.writing
<1> DEFINE m == Happened(a, c, keys)
<1>1. c \in Objects /\ c \in All /\ a \in Nets
  BY DEF Objects, All, Elsewhere
<1>2. /\ Elsewhere(a, m, c) /\ Linked(a, m)
      /\ m.conn = a.conn /\ m.want = a.want /\ m.sock = a.sock
      /\ a.ready \subseteq m.ready
      /\ c \in m.ready <=> \/ c \in a.ready
                           \/ c \in a.watched /\ keys \cap (a.want[c] \cup {"ERR", "HUP"}) # {}
  BY <1>1, HappenedIs
<1> HIDE DEF m
<1>3. Elsewhere(n, m, c)
  BY <1>2, ElsewhereTrans
<1>4. Linked(n, m) /\ m.conn = n.conn /\ m.want = n.want /\ n.ready \subseteq m.ready /\ m.sock = a.sock
  BY <1>2 DEF Linked
<1>5. c \in m.ready <=> \/ c \in n.ready
                        \/ c \in n.watched /\ keys \cap (n.want[c] \cup {"ERR", "HUP"}) # {}
  BY <1>2 DEF Linked
<1>6. Aside(n, m)
  BY <1>3, ElsewhereAside
<1>7. MapInv(n) /\ n \in Nets /\ m \in Nets
  BY <1>3 DEF Core, Elsewhere
<1>8. m.ready \subseteq m.watched
  <2>1. n.ready \subseteq n.watched /\ m.watched = n.watched
    BY <1>4, <1>7 DEF MapInv, Linked
  <2>2. \A o \in All : o \in m.ready => o \in n.watched
    BY <1>3, <1>5, <2>1 DEF Elsewhere
  <2> QED BY <1>7, <2>1, <2>2 DEF Nets, All
<1>9. BytesInv(m, c) /\ SocketInv(m, c) /\ StatusInv(m, c)
  <2>1. BytesInv(n, c)
    BY DEF Core
  <2>2. BytesInv(m, c)
    BY <1>4, <2>1 DEF BytesInv
  <2>3. SocketInv(m, c)
    BY <1>4 DEF SocketInv, Udp
  <2>4. StatusInv(m, c)
    BY <1>2, <1>4 DEF StatusInv, Fresh, Elsewhere, Linked
  <2> QED BY <2>2, <2>3, <2>4
<1>10. Core(m)
  BY <1>3, <1>4, <1>8, <1>9, QuietCore
<1>11. \A d \in Conns : Gone(n, d) => Gone(m, d)
  <2>1. \A d \in Conns : d # c => m.sock[d] = n.sock[d]
    BY <1>3 DEF Elsewhere, All, Objects
  <2> QED BY <1>4, <2>1 DEF Gone, Owed, Pending
<1>12. Follows(n, m)
  <2>1. \A d \in Conns : Lasting(n, m, d)
    BY <1>4, <1>11 DEF Lasting, Linked
  <2>2. \A o \in Objects : Unstarted(n, o) => Unstarted(m, o)
    BY <1>4 DEF Unstarted, Linked
  <2> QED BY <1>6, <1>10, <2>1, <2>2 DEF Follows, Aside
<1>13. Noticed(m, b)
  <2> SUFFICES ASSUME NEW d \in Conns, d \in m.watched
               PROVE  NoticedIn(m, b, d) /\ NoticedOut(m, b, d)
    BY DEF Noticed
  <2>1. d \in n.watched /\ NoticedIn(n, b, d) /\ NoticedOut(n, b, d) /\ "IN" \in n.want[d]
    BY <1>4, <1>7 DEF Noticed, Linked, MapInv, Objects
  <2>2. m.writing = n.writing /\ (Udp(m, d) <=> Udp(n, d))
    BY <1>3, <1>4 DEF Elsewhere, Udp
  <2>3. CASE d # c
    <3>1. m.sock[d] = n.sock[d]
      BY <1>3, <2>3 DEF Elsewhere, All, Objects
    <3>2. Owed(m, d) = Owed(n, d) /\ Space(m, d) = Space(n, d)
      BY <3>1 DEF Gone, Space, Owed, Pending
    <3> QED BY <1>4, <2>1, <2>2, <3>1, <3>2 DEF NoticedIn, NoticedOut
  <2>4. CASE d = c
    <3>1. Owed(m, c) = Owed(a, c) /\ Space(m, c) = Space(a, c) /\ m.sock[c].unread = a.sock[c].unread
      BY <1>4 DEF Gone, Space, Owed, Pending
    <3>2. NoticedIn(m, b, c)
      <4>1. CASE keys \cap {"IN", "ERR", "HUP"} # {}
        BY <1>5, <2>1, <2>4, <4>1 DEF NoticedIn
      <4>2. CASE (a.sock[c].unread > 0 => n.sock[c].unread > 0) /\ (Owed(a, c) => Owed(n, c))
        BY <1>4, <2>1, <2>2, <2>4, <3>1, <4>2 DEF NoticedIn
      <4> QED BY <4>1, <4>2
    <3>3. NoticedOut(m, b, c)
      <4>0. m.conn[c].m_iovecList # <<>> => "OUT" \in n.want[c]
        BY <1>4, <2>1, <2>4 DEF NoticedOut
      <4>1. CASE keys \cap {"OUT", "ERR", "HUP"} # {}
        BY <1>4, <1>5, <2>1, <2>4, <4>0, <4>1 DEF NoticedOut
      <4>2. CASE Space(a, c) > 0 => Space(n, c) > 0
        BY <1>4, <2>1, <2>2, <2>4, <3>1, <4>0, <4>2 DEF NoticedOut
      <4> QED BY <4>1, <4>2
    <3> QED BY <2>4, <3>2, <3>3
  <2> QED BY <2>3, <2>4
<1>14. WritingInv(m) /\ m.writing = n.writing
  BY <1>3, <1>4 DEF WritingInv, Elsewhere, Linked
<1> QED BY <1>12, <1>13, <1>14 DEF m

(* A peer does something to the socket of c.                                 *)
PutAt(n, j, c, k) == [n EXCEPT !.messages = j, !.sock[c] = k]

(* Only that socket changes.                                                 *)
LEMMA PutMessage ==
  ASSUME NEW n \in Nets, NEW c \in Conns, NEW k \in Sockets, NEW j \in Nat
  PROVE  LET a == PutAt(n, j, c, k) IN
         /\ Elsewhere(n, a, c) /\ Linked(n, a) /\ a.sock[c] = k
         /\ a.ready = n.ready /\ a.conn = n.conn /\ a.want = n.want
<1> USE DEF PutAt
<1> DEFINE a == PutAt(n, j, c, k)
<1>0. c \in All
  BY DEF All, Objects
<1>1. a \in Nets
  BY <1>0, Zenon DEF Nets, All
<1>2. a.sock[c] = k /\ \A o \in All \ {c} : a.sock[o] = n.sock[o]
  BY <1>0 DEF Nets, All
<1> QED
  BY <1>1, <1>2 DEF Nets, Elsewhere, Linked

(* The socket of c becomes k, and no less is over.                           *)
Succeeds(s, k, keys) ==
  /\ k.kind # "none" /\ k.kind \notin {"fresh", "listening"} /\ k.unsent <= Room
  /\ s.unsent = 0 => k.unsent = 0
  /\ k.unread > 0 => k.kind \in {"open", "datagram"}
  /\ k.fin => k.kind = "open"
  /\ k.error => k.kind \in {"reset", "datagram"}
  /\ k.kind = "reset" => k.error
  /\ k.taken => k.error
  /\ k.kind = "datagram" <=> s.kind = "datagram"
  /\ (s.fin \/ s.error \/ s.kind = "reset") => (k.fin \/ k.error \/ k.kind = "reset")
  /\ \/ /\ k.unread > 0 => s.unread > 0
        /\ (k.fin \/ Pending(k) \/ k.kind = "reset") => (s.fin \/ Pending(s) \/ s.kind = "reset")
     \/ keys \cap {"IN", "ERR", "HUP"} # {}
  /\ \/ k.kind = s.kind /\ k.unsent = s.unsent /\ (Pending(s) => Pending(k))
     \/ keys \cap {"OUT", "ERR", "HUP"} # {}

(* Whatever a peer or the kernel does to a socket, epoll is told of what     *)
(* must be noticed.                                                          *)
LEMMA PeerInv ==
  ASSUME NEW n, NEW b, NEW g, NEW r, Inv(n, b, g, r), NEW c \in Conns, NEW k \in Sockets,
         NEW a, NEW keys, n.sock[c].kind # "none", Succeeds(n.sock[c], k, keys),
         Elsewhere(n, a, c), Linked(n, a), a.sock[c] = k,
         a.ready = n.ready, a.conn = n.conn, a.want = n.want
  PROVE  Inv(Happened(a, c, keys), b, g, r)
<1>1. n \in Nets /\ c \in All
  BY DEF Inv, Core, All, Objects
<1>3. Succeeds(n.sock[c], a.sock[c], keys)
  OBVIOUS
<1>4. a.sock[c] \in Sockets
  OBVIOUS
<1>7. StatusInv(n, c) /\ SocketInv(n, c) /\ n.sock[c] \in Sockets
  BY <1>1 DEF Inv, Core, Nets, All
<1>8. SocketInv(a, c)
  <2>1. Udp(a, c) <=> Udp(n, c)
    BY DEF Udp
  <2> QED BY <1>3, <1>7, <2>1 DEF SocketInv, Succeeds
<1>9. StatusInv(a, c)
  <2>1. n.stray \subseteq a.stray
    BY DEF Elsewhere
  <2>2. n.sock[c].unsent = 0 => a.sock[c].unsent = 0
    BY <1>3 DEF Succeeds
  <2>3. a.sock[c].kind # "none"
    BY <1>3 DEF Succeeds
  <2> QED BY <1>7, <2>1, <2>2, <2>3 DEF StatusInv, Fresh, Linked
<1>11. (Space(a, c) > 0 => Space(n, c) > 0) \/ keys \cap {"OUT", "ERR", "HUP"} # {}
  BY <1>3 DEF Space, Succeeds, Pending
<1>12. \/ (a.sock[c].unread > 0 => n.sock[c].unread > 0) /\ (Owed(a, c) => Owed(n, c))
       \/ keys \cap {"IN", "ERR", "HUP"} # {}
  BY <1>3 DEF Gone, Succeeds, Owed, Pending
<1>13. LET m == Happened(a, c, keys)
       IN  Follows(n, m) /\ Noticed(m, b) /\ WritingInv(m) /\ m.writing = n.writing
  <2>1. Core(n) /\ WritingInv(n) /\ Noticed(n, b)
    BY DEF Inv
  <2>3. Gone(n, c) => Gone(a, c)
    BY <1>3 DEF Gone, Succeeds, Owed, Pending
  <2>4. a.sock[c].kind = "none" => n.sock[c].kind = "none"
    BY <1>3 DEF Succeeds
  <2> HIDE <1>3
  <2> QED BY <1>8, <1>9, <1>11, <1>12, <2>1, <2>3, <2>4, PeerFollows
<1> QED BY <1>13, StaysInv

(* The steps of peers.                                                       *)
LEMMA PeerStep ==
  ASSUME Inv(net, batch, stage, running), NEW c \in Conns,
         \/ PeerSends(c) \/ PeerReads(c) \/ PeerCloses(c) \/ PeerResets(c)
         \/ ConnectionMade(c) \/ PortUnreachable(c)
  PROVE  Inv(net', batch', stage', running')
<1> DEFINE s == net.sock[c]
<1>1. net \in Nets /\ s \in Sockets /\ c \in All
  BY DEF Inv, Core, Nets, All, Objects
<1>2. SocketInv(net, c)
  BY DEF Inv, Core
<1>3. batch' = batch /\ stage' = stage /\ running' = running
  BY DEF PeerSends, PeerReads, PeerCloses, PeerResets, ConnectionMade, PortUnreachable, Outside
<1>4. ASSUME NEW j \in Nat, NEW k \in Sockets, NEW keys, s.kind # "none", Succeeds(s, k, keys)
      PROVE  Inv(Happened(PutAt(net, j, c, k), c, keys), batch, stage, running)
  <2> DEFINE a == PutAt(net, j, c, k)
  <2>1. /\ Elsewhere(net, a, c) /\ Linked(net, a) /\ a.sock[c] = k
        /\ a.ready = net.ready /\ a.conn = net.conn /\ a.want = net.want
    BY <1>1, PutMessage
  <2> HIDE DEF a
  <2>2. Inv(Happened(a, c, keys), batch, stage, running)
    BY <1>4, <2>1, PeerInv
  <2> QED BY <2>2 DEF a
<1>5. ASSUME NEW k \in Sockets, NEW keys, s.kind # "none", Succeeds(s, k, keys)
      PROVE  Inv(Happened([net EXCEPT !.sock[c] = k], c, keys), batch, stage, running)
  <2>1. net.messages \in Nat
    BY <1>1 DEF Nets
  <2>2. [net EXCEPT !.sock[c] = k] = PutAt(net, net.messages, c, k)
    BY <1>1, Zenon DEF Nets, PutAt
  <2> QED BY <1>4, <1>5, <2>1, <2>2
<1>6. CASE PeerSends(c)
  <2> DEFINE k == [s EXCEPT !.unread = 1]
  <2>1. k \in Sockets /\ Succeeds(s, k, {"IN"}) /\ s.kind # "none"
    BY <1>1, <1>2, <1>6 DEF Sockets, Succeeds, SocketInv, PeerSends, Pending
  <2>2. net' = Happened([net EXCEPT !.messages = @ - 1, !.sock[c].unread = 1], c, {"IN"})
        /\ net.messages > 0
    BY <1>6 DEF PeerSends
  <2>3. net.messages - 1 \in Nat
    BY <1>1, <2>2 DEF Nets
  <2>4. [net EXCEPT !.messages = @ - 1, !.sock[c].unread = 1]
          = PutAt(net, net.messages - 1, c, k)
    BY <1>1 DEF Nets, All, PutAt
  <2> HIDE DEF k
  <2> QED BY <1>3, <1>4, <2>1, <2>2, <2>3, <2>4
<1>7. CASE PeerReads(c)
  <2> DEFINE k == [s EXCEPT !.unsent = @ - 1]
  <2>1. k \in Sockets /\ Succeeds(s, k, {"OUT"}) /\ s.kind # "none"
    BY <1>1, <1>2, <1>7, EventLoopAssumption DEF Sockets, Succeeds, SocketInv, PeerReads, Pending
  <2>2. net' = Happened([net EXCEPT !.sock[c].unsent = @ - 1], c, {"OUT"})
    BY <1>7 DEF PeerReads
  <2>4. [net EXCEPT !.sock[c].unsent = @ - 1] = [net EXCEPT !.sock[c] = k]
    BY <1>1 DEF Nets, All
  <2> HIDE DEF k
  <2> QED BY <1>3, <1>5, <2>1, <2>2, <2>4, Zenon
<1>8. CASE PeerCloses(c)
  <2> DEFINE k == [s EXCEPT !.fin = TRUE]
  <2>1. k \in Sockets /\ Succeeds(s, k, {"HUP"}) /\ s.kind # "none"
    BY <1>1, <1>2, <1>8, Zenon DEF Sockets, Succeeds, SocketInv, PeerCloses, Pending
  <2>2. net' = Happened([net EXCEPT !.sock[c].fin = TRUE], c, {"HUP"})
    BY <1>8 DEF PeerCloses
  <2>4. [net EXCEPT !.sock[c].fin = TRUE] = [net EXCEPT !.sock[c] = k]
    BY <1>1 DEF Nets, All
  <2> HIDE DEF k
  <2> QED BY <1>3, <1>5, <2>1, <2>2, <2>4
<1>9. CASE PeerResets(c)
  <2> DEFINE k == [Socket("reset") EXCEPT !.error = TRUE]
  <2>0. /\ k \in Sockets /\ k.kind = "reset" /\ k.error /\ ~k.taken /\ ~k.fin /\ k.unread = 0
        /\ k.unsent = 0
    BY Zenon DEF Sockets, Socket, NoSocket
  <2>1. k \in Sockets /\ Succeeds(s, k, {"HUP"}) /\ s.kind # "none"
    <3> HIDE DEF k
    <3> QED BY <1>1, <1>2, <1>9, <2>0, EventLoopAssumption DEF Sockets, Succeeds, PeerResets, Pending
  <2>2. net' = Happened([net EXCEPT !.sock[c] = k], c, {"HUP"})
    BY <1>9 DEF PeerResets
  <2> HIDE DEF k
  <2> QED BY <1>3, <1>5, <2>1, <2>2
<1>10. CASE ConnectionMade(c)
  <2> DEFINE k == Socket("open")
  <2>1. k \in Sockets /\ Succeeds(s, k, {"HUP"}) /\ s.kind # "none"
    BY <1>1, <1>2, <1>10, SocketTypes, EventLoopAssumption
       DEF Sockets, Succeeds, SocketInv, ConnectionMade, Pending
  <2>2. net' = Happened([net EXCEPT !.sock[c] = k], c, {"HUP"})
    BY <1>10 DEF ConnectionMade
  <2> HIDE DEF k
  <2> QED BY <1>3, <1>5, <2>1, <2>2
<1>11. CASE PortUnreachable(c)
  <2> DEFINE k == [s EXCEPT !.error = TRUE, !.taken = FALSE]
  <2>1. k \in Sockets /\ Succeeds(s, k, {"ERR"}) /\ s.kind # "none"
    BY <1>1, <1>2, <1>11, Zenon DEF Sockets, Succeeds, SocketInv, PortUnreachable, Pending
  <2>2. net' = Happened([net EXCEPT !.sock[c].error = TRUE, !.sock[c].taken = FALSE], c, {"ERR"})
    BY <1>11 DEF PortUnreachable
  <2>4. [net EXCEPT !.sock[c].error = TRUE, !.sock[c].taken = FALSE] = [net EXCEPT !.sock[c] = k]
    BY <1>1 DEF Nets, All
  <2> HIDE DEF k
  <2> QED BY <1>3, <1>5, <2>1, <2>2, <2>4
<1> QED BY <1>6, <1>7, <1>8, <1>9, <1>10, <1>11

(* Nothing has changed but the loop's pipe and what is queued.               *)
SameObjects(n, m) ==
  /\ m \in Nets
  /\ m.fd = n.fd /\ m.eventsMap = n.eventsMap /\ m.sock = n.sock /\ m.backlog = n.backlog
  /\ m.conn = n.conn /\ m.m_connections = n.m_connections /\ m.came = n.came
  /\ m.writing = n.writing /\ m.stray = n.stray
  /\ \A o \in Objects : /\ m.want[o] = n.want[o]
                        /\ o \in m.watched <=> o \in n.watched
  /\ \A c \in Conns : c \in m.ready <=> c \in n.ready
  /\ m.ready \subseteq m.watched

-----------------------------------------------------------------------------
(* Other threads and the queue of tasks.                                     *)

(* If no object changes, everything said of them stays.                      *)
LEMMA SameCarries ==
  ASSUME NEW n, NEW m, Core(n), SameObjects(n, m)
  PROVE  /\ Core(m) /\ (WritingInv(n) => WritingInv(m))
         /\ \A b : BatchInv(n, b) => BatchInv(m, b)
         /\ \A b : Noticed(n, b) => Noticed(m, b)
         /\ \A c \in Conns : Lasting(n, m, c)
         /\ \A t : TaskOK(n, t) => TaskOK(m, t)
         /\ \A o \in Objects : Unstarted(n, o) => Unstarted(m, o)
<1>0. \A c \in Conns : c \in Objects
  BY DEF Objects
<1>1. ASSUME NEW c \in Conns
      PROVE  BytesInv(m, c) /\ StatusInv(m, c) /\ SocketInv(m, c) /\ Lasting(n, m, c)
  <2>1. BytesInv(n, c) /\ StatusInv(n, c) /\ SocketInv(n, c)
    BY DEF Core
  <2>2. BytesInv(m, c)
    BY <2>1 DEF BytesInv, SameObjects
  <2>3. StatusInv(m, c)
    BY <1>0, <2>1 DEF StatusInv, Fresh, SameObjects
  <2>4. SocketInv(m, c)
    BY <2>1 DEF SocketInv, Udp, SameObjects
  <2> QED BY <2>2, <2>3, <2>4 DEF Lasting, Gone, SameObjects, Owed, Pending
<1>2. MapInv(m)
  <2>1. MapInv(n) /\ n \in Nets
    BY DEF Core
  <2>2. m.ready \subseteq m.watched
    BY <2>1 DEF MapInv, SameObjects, Nets
  <2>3. \A o : Left(m, o) <=> Left(n, o)
    BY DEF Left, SameObjects
  <2> QED BY <2>1, <2>2, <2>3 DEF MapInv, SameObjects
<1>3. ServerInv(m)
  <2>1. ServerInv(n) /\ n \in Nets
    BY DEF Core
  <2>2. \A c \in n.m_connections : c \in Objects
    BY <1>0, <2>1 DEF Nets
  <2> QED BY <2>1, <2>2 DEF ServerInv, Left, SameObjects
<1>4. Core(m)
  BY <1>1, <1>2, <1>3 DEF Core, SameObjects
<1>5. WritingInv(n) => WritingInv(m)
  BY DEF WritingInv, SameObjects
<1>6. \A b : BatchInv(n, b) => BatchInv(m, b)
  BY <1>1, BatchCarried
<1>7. \A b : Noticed(n, b) => Noticed(m, b)
  BY <1>0 DEF Noticed, NoticedIn, NoticedOut, Gone, Space, Udp, SameObjects, Owed, Pending
<1>8. \A t : TaskOK(n, t) => TaskOK(m, t)
  BY DEF TaskOK, SameObjects
<1>9. \A o \in Objects : Unstarted(n, o) => Unstarted(m, o)
  BY DEF Unstarted, SameObjects
<1> QED BY <1>1, <1>4, <1>5, <1>6, <1>7, <1>8, <1>9

(* wakeup puts one more byte in the pipe and the pipe among the ready,       *)
(* unless it is full.                                                        *)
LEMMA wakeupIs ==
  ASSUME NEW n \in Nets, n.pipe \in 0 .. PipeRoom
  PROVE  LET m == wakeup(n) IN
         /\ m \in Nets
         /\ m.fd = n.fd /\ m.eventsMap = n.eventsMap /\ m.sock = n.sock /\ m.backlog = n.backlog
         /\ m.conn = n.conn /\ m.m_connections = n.m_connections /\ m.came = n.came
         /\ m.writing = n.writing /\ m.stray = n.stray
         /\ m.tasks = n.tasks /\ m.first = n.first /\ m.alive = n.alive
         /\ \A o \in Objects : /\ m.want[o] = n.want[o]
                               /\ o \in m.watched <=> o \in n.watched
                               /\ o \in m.ready <=> o \in n.ready
         /\ n.pipe = PipeRoom => m = n
         /\ n.pipe # PipeRoom => /\ m.pipe = n.pipe + 1 /\ m.pipe \in 0 .. PipeRoom
                                 /\ m.want[Pipe] = {"IN"}
                                 /\ Pipe \in m.watched /\ Pipe \in m.ready
<1>1. CASE n.pipe = PipeRoom
  BY <1>1 DEF wakeup
<1>2. CASE n.pipe # PipeRoom
  <2> DEFINE a == [[n EXCEPT !.want[Pipe] = {"IN"}, !.watched = @ \cup {Pipe}]
                      EXCEPT !.pipe = @ + 1]
             m == [a EXCEPT !.ready = @ \cup {Pipe}]
  <2>0. PipeRoom \in Nat /\ \A o \in Objects : o # Pipe
    BY EventLoopAssumption DEF Objects
  <2>1. /\ a \in Nets /\ a.want[Pipe] = {"IN"} /\ a.watched = n.watched \cup {Pipe}
        /\ a.pipe = n.pipe + 1 /\ a.pipe \in 0 .. PipeRoom /\ a.ready = n.ready
    <3> DEFINE z == [n EXCEPT !.want[Pipe] = {"IN"}, !.watched = @ \cup {Pipe}]
    <3>1. z \in Nets /\ z.want[Pipe] = {"IN"} /\ z.watched = n.watched \cup {Pipe}
          /\ z.pipe = n.pipe /\ z.ready = n.ready
      BY Zenon DEF Nets
    <3>2. a = [z EXCEPT !.pipe = n.pipe + 1] /\ n.pipe + 1 \in Nat /\ n.pipe + 1 \in 0 .. PipeRoom
      BY <1>2, <2>0, <3>1
    <3> HIDE DEF z, a
    <3> QED BY <3>1, <3>2, Zenon DEF Nets
  <2>2. /\ a.fd = n.fd /\ a.eventsMap = n.eventsMap /\ a.sock = n.sock /\ a.backlog = n.backlog
        /\ a.conn = n.conn /\ a.m_connections = n.m_connections /\ a.came = n.came
        /\ a.writing = n.writing /\ a.stray = n.stray
        /\ a.tasks = n.tasks /\ a.first = n.first /\ a.alive = n.alive
        /\ \A o \in Objects : a.want[o] = n.want[o]
    BY <2>0 DEF Nets
  <2>3. wakeup(n) = Happened(a, Pipe, {"IN"})
    BY <1>2 DEF wakeup
  <2> HIDE DEF a
  <2>4. Happened(a, Pipe, {"IN"}) = m
    BY <2>1 DEF Happened
  <2>5. /\ m \in Nets /\ m.ready = n.ready \cup {Pipe} /\ m.want = a.want /\ m.watched = a.watched
        /\ m.pipe = a.pipe
        /\ m.fd = a.fd /\ m.eventsMap = a.eventsMap /\ m.sock = a.sock /\ m.backlog = a.backlog
        /\ m.conn = a.conn /\ m.m_connections = a.m_connections /\ m.came = a.came
        /\ m.writing = a.writing /\ m.stray = a.stray
        /\ m.tasks = a.tasks /\ m.first = a.first /\ m.alive = a.alive
    BY <2>1, Zenon DEF Nets
  <2> HIDE DEF m
  <2> QED BY <1>2, <2>0, <2>1, <2>2, <2>3, <2>4, <2>5
<1> QED BY <1>1, <1>2

(* The queue of tasks is replaced.                                           *)
Tasked(n, w) == [n EXCEPT !.tasks = w]

(* And nothing else.                                                         *)
LEMMA TaskedIs ==
  ASSUME NEW n \in Nets, NEW w \in Seq(Tasks)
  PROVE  LET q == Tasked(n, w) IN
         /\ q \in Nets /\ q.tasks = w
         /\ q.fd = n.fd /\ q.eventsMap = n.eventsMap /\ q.sock = n.sock /\ q.backlog = n.backlog
         /\ q.conn = n.conn /\ q.m_connections = n.m_connections /\ q.came = n.came
         /\ q.writing = n.writing /\ q.stray = n.stray /\ q.pipe = n.pipe
         /\ q.first = n.first /\ q.alive = n.alive
         /\ q.watched = n.watched /\ q.ready = n.ready /\ q.want = n.want
<1> DEFINE q == Tasked(n, w)
<1>1. q \in Nets
  BY Zenon DEF Nets, Tasked
<1>2. q.tasks = w
  BY DEF Nets, Tasked
<1> QED BY <1>1, <1>2, Zenon DEF Nets, Tasked

(* Another thread queues t.                                                  *)
LEMMA QueuedInv ==
  ASSUME NEW n, NEW b, NEW g, NEW r, Inv(n, b, g, r), NEW a \in Nets,
         SameObjects(n, a), a.pipe = n.pipe, a.tasks = n.tasks, a.alive = n.alive,
         a.watched = n.watched, a.ready = n.ready, a.want = n.want,
         a.first \subseteq n.first, NEW t, TaskOK(n, t),
         Starts(t) => t \in n.first /\ t \notin a.first
  PROVE  Inv(runInLoop(a, t), b, g, r)
<1> DEFINE q == [a EXCEPT !.tasks = Append(n.tasks, t)]
           m == wakeup(q)
<1>0. \A c \in Conns : c \in Objects
  BY DEF Objects
<1>1. t \in Tasks /\ n.tasks \in Seq(Tasks) /\ r \in Seq(Tasks) /\ n.pipe \in 0 .. PipeRoom
  BY DEF TaskOK, Inv, Core, Nets, StageInv, WakeInv
<1>2. /\ q \in Nets /\ SameObjects(n, q) /\ q.tasks = Append(n.tasks, t)
      /\ q.pipe = n.pipe /\ q.alive = n.alive /\ q.first = a.first
      /\ q.watched = n.watched /\ q.ready = n.ready /\ q.want = n.want
  <2>1. /\ q \in Nets /\ q.tasks = Append(n.tasks, t)
        /\ q.fd = a.fd /\ q.eventsMap = a.eventsMap /\ q.sock = a.sock /\ q.backlog = a.backlog
        /\ q.conn = a.conn /\ q.m_connections = a.m_connections /\ q.came = a.came
        /\ q.writing = a.writing /\ q.stray = a.stray /\ q.pipe = a.pipe
        /\ q.first = a.first /\ q.alive = a.alive
        /\ q.watched = a.watched /\ q.ready = a.ready /\ q.want = a.want
    <3> DEFINE w == Append(n.tasks, t)
    <3>1. w \in Seq(Tasks) /\ q = Tasked(a, w)
      BY <1>1 DEF Tasked
    <3> HIDE DEF w, q
    <3>2. w = Append(n.tasks, t)
      BY DEF w
    <3> QED BY <3>1, <3>2, TaskedIs, Zenon
  <2> HIDE DEF q
  <2> QED BY <2>1 DEF SameObjects
<1>3. runInLoop(a, t) = m
  BY DEF runInLoop
<1> HIDE DEF q
<1>4. /\ m \in Nets
      /\ m.fd = q.fd /\ m.eventsMap = q.eventsMap /\ m.sock = q.sock /\ m.backlog = q.backlog
      /\ m.conn = q.conn /\ m.m_connections = q.m_connections /\ m.came = q.came
      /\ m.writing = q.writing /\ m.stray = q.stray
      /\ m.tasks = q.tasks /\ m.first = q.first /\ m.alive = q.alive
      /\ \A o \in Objects : /\ m.want[o] = q.want[o]
                            /\ o \in m.watched <=> o \in q.watched
                            /\ o \in m.ready <=> o \in q.ready
      /\ q.pipe = PipeRoom => m = q
      /\ q.pipe # PipeRoom => /\ m.pipe = q.pipe + 1 /\ m.pipe \in 0 .. PipeRoom
                              /\ m.want[Pipe] = {"IN"}
                              /\ Pipe \in m.watched /\ Pipe \in m.ready
  BY <1>1, <1>2, wakeupIs, Zenon
<1> HIDE DEF m
<1>5. SameObjects(n, m)
  <2>1. m.ready \subseteq m.watched
    <3>1. n.ready \subseteq n.watched
      BY DEF Inv, Core, MapInv
    <3> QED BY <1>2, <1>4, <3>1, Zenon DEF Nets
  <2> QED BY <1>0, <1>2, <1>4, <2>1 DEF SameObjects
<1>6. /\ Core(m) /\ WritingInv(m) /\ BatchInv(m, b) /\ Noticed(m, b)
      /\ \A s : TaskOK(n, s) => TaskOK(m, s)
  BY <1>5, SameCarries DEF Inv
<1>7. m.tasks = Append(n.tasks, t) /\ m.first \subseteq n.first
      /\ (Starts(t) => t \in n.first /\ t \notin m.first)
  BY <1>2, <1>4
<1>8. TasksInv(m, r \o m.tasks)
  <2> DEFINE w == r \o n.tasks
             v == Append(w, t)
  <2>1. w \in Seq(Tasks) /\ v \in Seq(Tasks) /\ r \o m.tasks = v
    BY <1>1, <1>7
  <2>2. TasksInv(n, w)
    BY DEF Inv
  <2> HIDE DEF w
  <2>3. /\ Len(v) = Len(w) + 1 /\ v[Len(v)] = t /\ \A i \in 1 .. Len(w) : v[i] = w[i]
        /\ Len(w) \in Nat
    BY <1>1, <2>1
  <2> HIDE DEF v
  <2>4. \A i \in 1 .. Len(v) : i \in 1 .. Len(w) \/ i = Len(v)
    BY <2>3
  <2>5. \A s \in m.first : Starts(s) /\ TaskOK(m, s) /\ \A i \in 1 .. Len(v) : v[i] # s
    BY <1>6, <1>7, <2>2, <2>3, <2>4 DEF TasksInv
  <2>6. \A i \in 1 .. Len(v) : TaskOK(m, v[i])
    BY <1>6, <2>2, <2>3, <2>4 DEF TasksInv
  <2>7. \A i, j \in 1 .. Len(v) : Starts(v[i]) /\ v[i] = v[j] => i = j
    <3>1. \A i \in 1 .. Len(w) : Starts(t) => w[i] # t
      BY <1>7, <2>2 DEF TasksInv
    <3> QED BY <2>2, <2>3, <2>4, <3>1 DEF TasksInv
  <2> QED BY <2>1, <2>5, <2>6, <2>7, Zenon DEF TasksInv
<1>9. WakeInv(m, b, g)
  <2>1. WakeInv(n, b, g) /\ PipeRoom \in Nat \ {0}
    BY EventLoopAssumption DEF Inv
  <2>2. CASE n.pipe = PipeRoom
    BY <1>2, <1>4, <2>1, <2>2 DEF WakeInv
  <2>3. CASE n.pipe # PipeRoom
    BY <1>2, <1>4, <2>1, <2>3 DEF WakeInv
  <2> QED BY <2>2, <2>3
<1>10. StageInv(m, g, r)
  <2>1. StageInv(n, g, r)
    BY DEF Inv
  <2> QED BY <1>2, <1>4, <1>5, <2>1 DEF StageInv, SameObjects
<1>11. Inv(m, b, g, r)
  BY <1>6, <1>8, <1>9, <1>10 DEF Inv
<1> QED BY <1>3, <1>11

(* Other threads: the program starts an object.                              *)
LEMMA StartStep ==
  ASSUME Inv(net, batch, stage, running), Start
  PROVE  Inv(net', batch', stage', running')
<1>1. PICK t \in net.first : net' = runInLoop([net EXCEPT !.first = @ \ {t}], t)
  BY DEF Start
<1> DEFINE a == [net EXCEPT !.first = @ \ {t}]
<1>2. net \in Nets /\ TaskOK(net, t) /\ Starts(t)
  BY DEF Inv, Core, TasksInv
<1>3. /\ a \in Nets /\ SameObjects(net, a) /\ a.pipe = net.pipe /\ a.tasks = net.tasks
      /\ a.alive = net.alive /\ a.watched = net.watched /\ a.ready = net.ready
      /\ a.want = net.want /\ a.first = net.first \ {t}
  <2>1. net.ready \subseteq net.watched
    BY DEF Inv, Core, MapInv
  <2> QED BY <1>2, <2>1, Zenon DEF Nets, SameObjects
<1> HIDE DEF a
<1>4. Inv(runInLoop(a, t), batch, stage, running)
  BY <1>2, <1>3, QueuedInv
<1> QED BY <1>1, <1>4 DEF a, Start, Outside

(* A thread queues a task.                                                   *)
LEMMA PostStep ==
  ASSUME Inv(net, batch, stage, running), Post
  PROVE  Inv(net', batch', stage', running')
<1>1. PICK c \in Conns, do \in {"close", "send", "stop"} :
        /\ net.fd[c] # NoFd
        /\ do = "stop" => net.conn[c].kind = "udpserver"
        /\ do = "send" /\ net.conn[c].kind = "client" => net.conn[c].m_status = "connected"
        /\ net' = runInLoop([net EXCEPT !.posts = @ - 1], Task(do, c))
  BY DEF Post
<1> DEFINE a == [net EXCEPT !.posts = @ - 1]
           t == Task(do, c)
<1>2. net \in Nets /\ net.posts - 1 \in Nat
  BY DEF Inv, Core, Nets, Post
<1>3. t.do = do /\ t.on = c /\ t \in Tasks /\ c # Acceptor
  BY EventLoopAssumption DEF Task, Tasks, Objects
<1>4. TaskOK(net, t) /\ ~Starts(t)
  <2> HIDE DEF t
  <2> QED BY <1>1, <1>3 DEF TaskOK, Starts
<1>5. /\ a \in Nets /\ SameObjects(net, a) /\ a.pipe = net.pipe /\ a.tasks = net.tasks
      /\ a.alive = net.alive /\ a.watched = net.watched /\ a.ready = net.ready
      /\ a.want = net.want /\ a.first = net.first
  <2>1. net.ready \subseteq net.watched
    BY DEF Inv, Core, MapInv
  <2> QED BY <1>2, <2>1, Zenon DEF Nets, SameObjects
<1> HIDE DEF a, t
<1>6. Inv(runInLoop(a, t), batch, stage, running)
  BY <1>4, <1>5, QueuedInv
<1> QED BY <1>1, <1>6 DEF a, t, Post, Outside

(* Nothing has changed that the invariant speaks of.                         *)
LEMMA SameInv ==
  ASSUME NEW n, NEW b, NEW g, NEW r, Inv(n, b, g, r), NEW a,
         SameObjects(n, a), a.pipe = n.pipe, a.tasks = n.tasks, a.alive = n.alive,
         a.watched = n.watched, Pipe \in a.ready <=> Pipe \in n.ready, a.want = n.want,
         a.first = n.first
  PROVE  Inv(a, b, g, r)
<1>1. /\ Core(a) /\ WritingInv(a) /\ BatchInv(a, b) /\ Noticed(a, b)
      /\ \A s : TaskOK(n, s) => TaskOK(a, s)
  BY SameCarries DEF Inv
<1>2. TasksInv(a, r \o a.tasks)
  BY <1>1, Zenon DEF Inv, TasksInv
<1>3. WakeInv(a, b, g) /\ StageInv(a, g, r)
  BY DEF Inv, WakeInv, StageInv, SameObjects
<1> QED BY <1>1, <1>2, <1>3 DEF Inv

(* Something happens on the listening socket.                                *)
LEMMA ToldAcceptor ==
  ASSUME NEW n, NEW b, NEW g, NEW r, Inv(n, b, g, r), NEW keys
  PROVE  Inv(Happened(n, Acceptor, keys), b, g, r)
<1> DEFINE m == Happened(n, Acceptor, keys)
<1>0. /\ Acceptor \in Objects /\ Acceptor # Pipe /\ Pipe \in All /\ Objects \subseteq All
      /\ \A c \in Conns : c # Acceptor /\ c \in All
  BY EventLoopAssumption DEF Objects, All
<1>1. n \in Nets /\ n.ready \subseteq n.watched /\ n.ready \subseteq All
  BY DEF Inv, Core, MapInv, Nets, All
<1>2. /\ Elsewhere(n, m, Acceptor) /\ Linked(n, m)
      /\ m.conn = n.conn /\ m.want = n.want /\ m.sock = n.sock
      /\ Acceptor \in m.ready => Acceptor \in n.ready \/ Acceptor \in n.watched
  BY <1>0, <1>1, HappenedIs
<1>3. m \in Nets /\ m.stray = n.stray /\ m.alive = n.alive
  BY <1>1, <1>2, Zenon DEF Happened, Elsewhere, Nets
<1> HIDE DEF m
<1>4. m.ready \subseteq m.watched
  <2>1. \A o \in All : o \in m.ready => o \in n.watched
    BY <1>1, <1>2 DEF Elsewhere
  <2>2. m.ready \subseteq All
    BY <1>3 DEF Nets, All
  <2> QED BY <1>2, <2>1, <2>2 DEF Linked
<1>5. SameObjects(n, m)
  BY <1>0, <1>2, <1>3, <1>4 DEF SameObjects, Elsewhere, Linked
<1>6. /\ m.pipe = n.pipe /\ m.tasks = n.tasks /\ m.first = n.first /\ m.watched = n.watched
      /\ Pipe \in m.ready <=> Pipe \in n.ready
  BY <1>0, <1>2 DEF Elsewhere, Linked
<1>7. Inv(m, b, g, r)
  BY <1>2, <1>3, <1>5, <1>6, SameInv
<1> QED BY <1>7 DEF m

(* A connection waits to be accepted.                                        *)
Came(n, c) ==
  [n EXCEPT !.came = @ \cup {c}, !.backlog = Append(@, c), !.sock[c] = Socket("open")]

(* It may.                                                                   *)
LEMMA CameInv ==
  ASSUME NEW n, NEW b, NEW g, NEW r, Inv(n, b, g, r), NEW c \in Conns,
         n.conn[c].kind = "accepted", c \notin n.came
  PROVE  Inv(Came(n, c), b, g, r)
<1> DEFINE m == Came(n, c)
<1>0. /\ n \in Nets /\ ServerInv(n) /\ MapInv(n) /\ c \in All /\ c \in Objects
      /\ \A d \in Conns : d \in Objects /\ d \in All
  BY DEF Inv, Core, All, Objects
<1>1. n.fd[c] = NoFd /\ ~n.conn[c].m_closed
  BY <1>0 DEF ServerInv
<1>2. Socket("open") \in Sockets
  BY SocketTypes
<1>3. /\ m \in Nets
      /\ m.sock[c] = Socket("open") /\ \A o \in All \ {c} : m.sock[o] = n.sock[o]
      /\ m.came = n.came \cup {c} /\ m.backlog = Append(n.backlog, c)
  <2> DEFINE w == Append(n.backlog, c)
             y == [n EXCEPT !.sock[c] = Socket("open")]
  <2>1. w \in Seq(Conns)
    BY <1>0 DEF Nets
  <2>2. y \in Nets /\ y.sock[c] = Socket("open") /\ \A o \in All \ {c} : y.sock[o] = n.sock[o]
    BY <1>0, <1>2, Zenon DEF Nets, All
  <2>3. m = [y EXCEPT !.came = n.came \cup {c}, !.backlog = w]
    BY <1>0, Zenon DEF Nets, Came
  <2>4. n.came \cup {c} \in SUBSET Conns
    BY <1>0 DEF Nets
  <2> HIDE DEF w, y, m
  <2>5. m \in Nets /\ m.sock = y.sock /\ m.came = n.came \cup {c} /\ m.backlog = w
    BY <2>1, <2>2, <2>3, <2>4, Zenon DEF Nets
  <2> QED BY <2>2, <2>5 DEF w
<1>4. /\ m.fd = n.fd /\ m.eventsMap = n.eventsMap /\ m.conn = n.conn /\ m.want = n.want
      /\ m.watched = n.watched /\ m.ready = n.ready /\ m.m_connections = n.m_connections
      /\ m.writing = n.writing /\ m.stray = n.stray /\ m.pipe = n.pipe /\ m.tasks = n.tasks
      /\ m.first = n.first /\ m.alive = n.alive
  BY <1>0 DEF Nets, Came
<1> HIDE DEF m
<1>5. ASSUME NEW d \in Conns
      PROVE  BytesInv(m, d) /\ StatusInv(m, d) /\ SocketInv(m, d)
  <2>1. BytesInv(n, d) /\ StatusInv(n, d) /\ SocketInv(n, d)
    BY DEF Inv, Core
  <2>2. BytesInv(m, d)
    BY <1>4, <2>1 DEF BytesInv
  <2>3. StatusInv(m, d)
    <3>1. CASE d = c
      BY <1>1, <1>4, <2>1, <3>1 DEF StatusInv, Fresh
    <3>2. CASE d # c
      <4>1. m.sock[d] = n.sock[d]
        BY <1>0, <1>3, <3>2
      <4> QED BY <1>4, <2>1, <4>1 DEF StatusInv, Fresh
    <3> QED BY <3>1, <3>2
  <2>4. SocketInv(m, d)
    <3>1. CASE d = c
      <4>1. ~Udp(m, c)
        BY <1>4 DEF Udp
      <4> QED BY <1>3, <3>1, <4>1, SocketTypes, EventLoopAssumption DEF SocketInv
    <3>2. CASE d # c
      <4>1. m.sock[d] = n.sock[d]
        BY <1>0, <1>3, <3>2
      <4> QED BY <1>4, <2>1, <4>1 DEF SocketInv, Udp
    <3> QED BY <3>1, <3>2
  <2> QED BY <2>2, <2>3, <2>4
<1>6. MapInv(m)
  BY <1>0, <1>4 DEF MapInv, Left
<1>7. ServerInv(m)
  <2>1. \A d \in m.m_connections :
          /\ m.conn[d].kind = "accepted" /\ m.fd[d] # NoFd
          /\ d \in m.watched \/ Left(m, m.eventsMap[m.fd[d]])
    BY <1>0, <1>4 DEF ServerInv, Left
  <2>2. \A d \in Conns : m.conn[d].kind = "accepted" /\ d \notin m.came =>
            m.fd[d] = NoFd /\ ~m.conn[d].m_closed
    BY <1>0, <1>3, <1>4 DEF ServerInv
  <2>3. ASSUME NEW i \in 1 .. Len(m.backlog)
        PROVE  /\ m.conn[m.backlog[i]].kind = "accepted" /\ m.backlog[i] \in m.came
               /\ m.fd[m.backlog[i]] = NoFd /\ ~m.conn[m.backlog[i]].m_closed
               /\ m.sock[m.backlog[i]].kind # "none"
               /\ \A j \in 1 .. Len(m.backlog) : m.backlog[i] = m.backlog[j] => i = j
    <3>1. /\ n.backlog \in Seq(Conns) /\ Len(m.backlog) = Len(n.backlog) + 1
          /\ Len(n.backlog) \in Nat
          /\ m.backlog[Len(n.backlog) + 1] = c
          /\ \A j \in 1 .. Len(n.backlog) : m.backlog[j] = n.backlog[j] /\ n.backlog[j] \in Conns
      BY <1>0, <1>3 DEF Nets
    <3>2. \A j \in 1 .. Len(m.backlog) : j \in 1 .. Len(n.backlog) \/ j = Len(n.backlog) + 1
      BY <3>1
    <3>3. \A j \in 1 .. Len(n.backlog) : n.backlog[j] # c
      BY <1>0 DEF ServerInv
    <3>4. \A j \in 1 .. Len(m.backlog) : m.backlog[i] = m.backlog[j] => i = j
      BY <1>0, <3>1, <3>2, <3>3 DEF ServerInv
    <3>5. CASE i \in 1 .. Len(n.backlog)
      <4>1. m.sock[n.backlog[i]] = n.sock[n.backlog[i]]
        BY <1>0, <1>3, <3>1, <3>3, <3>5
      <4> QED BY <1>0, <1>3, <1>4, <3>1, <3>4, <3>5, <4>1 DEF ServerInv
    <3>6. CASE i = Len(n.backlog) + 1
      BY <1>1, <1>3, <1>4, <3>1, <3>4, <3>6, SocketTypes
    <3> QED BY <3>2, <3>5, <3>6
  <2> QED BY <2>1, <2>2, <2>3 DEF ServerInv
<1>8. Core(m)
  BY <1>3, <1>5, <1>6, <1>7 DEF Core
<1>9. \A d \in Conns : d # c => m.sock[d] = n.sock[d]
  BY <1>0, <1>3
<1>10. Follows(n, m)
  <2>1. \A d \in Conns : Lasting(n, m, d)
    BY <1>1, <1>4, <1>9 DEF Lasting, Gone, Owed, Pending
  <2> QED BY <1>4, <1>8, <2>1 DEF Follows, Unstarted
<1>11. Noticed(m, b)
  <2>1. c \notin m.watched
    BY <1>0, <1>1, <1>4 DEF MapInv
  <2>2. ASSUME NEW d \in Conns, d \in m.watched
        PROVE  NoticedIn(m, b, d) /\ NoticedOut(m, b, d)
    <3>1. m.sock[d] = n.sock[d] /\ d \in n.watched
      BY <1>4, <1>9, <2>1, <2>2
    <3>2. NoticedIn(n, b, d) /\ NoticedOut(n, b, d)
      BY <3>1 DEF Inv, Noticed
    <3> QED BY <1>4, <3>1, <3>2 DEF NoticedIn, NoticedOut, Gone, Space, Udp, Owed, Pending
  <2> QED BY <2>2 DEF Noticed
<1>12. WritingInv(m) /\ m.writing = n.writing
  BY <1>4 DEF Inv, WritingInv
<1>13. Inv(m, b, g, r)
  BY <1>10, <1>11, <1>12, StaysInv
<1> QED BY <1>13 DEF m

(* A peer connects.                                                          *)
LEMMA ConnectStep ==
  ASSUME Inv(net, batch, stage, running), Connect
  PROVE  Inv(net', batch', stage', running')
<1>1. PICK c \in Conns :
        /\ net.conn[c].kind = "accepted" /\ c \notin net.came
        /\ net' = Happened(Came(net, c), Acceptor, {"IN"})
  BY Zenon DEF Connect, Came
<1>2. Inv(Came(net, c), batch, stage, running)
  BY <1>1, CameInv
<1>3. Inv(net', batch, stage, running)
  BY <1>1, <1>2, ToldAcceptor
<1> QED BY <1>3 DEF Connect, Outside

(* The entry of a descriptor that is in use goes, whoever's it is.           *)
LEMMA RemovedFollows ==
  ASSUME NEW n, Core(n), NEW x \in Objects, x \notin n.m_connections
  PROVE  LET m == removeEvent(n, x)
         IN  /\ Follows(n, m)
             /\ m.conn = n.conn /\ m.fd = n.fd /\ m.sock = n.sock /\ m.writing = n.writing
             /\ WritingInv(n) => WritingInv(m)
             /\ \A b : Noticed(n, b) => Noticed(m, b)
             /\ x \notin m.watched
             /\ m.m_connections = n.m_connections
             /\ n.fd[x] # NoFd => m.eventsMap[n.fd[x]] = None
             /\ \A f \in Fds : m.eventsMap[f] \in {n.eventsMap[f], None}
             /\ Elsewhere(n, m, x)
<1> DEFINE m == removeEvent(n, x)
<1>0. /\ n \in Nets /\ ServerInv(n) /\ MapInv(n) /\ x \in All /\ x # Pipe /\ Pipe \in All
      /\ \A d \in Conns : d \in Objects /\ d \in All
  BY EventLoopAssumption DEF Core, All, Objects
<1>1. /\ Elsewhere(n, m, x)
      /\ m.fd = n.fd /\ m.conn = n.conn /\ m.want = n.want /\ m.sock = n.sock
      /\ m.m_connections = n.m_connections
      /\ ~Mapped(n, x) => m = n
      /\ Mapped(n, x) => /\ m.eventsMap = [n.eventsMap EXCEPT ![n.fd[x]] = None]
                         /\ m.watched = n.watched \ {x} /\ m.ready = n.ready \ {x}
  BY <1>0, removeEventIs
<1> HIDE DEF m
<1>2. /\ \A f \in Fds : \/ m.eventsMap[f] = n.eventsMap[f]
                        \/ f = n.fd[x] /\ m.eventsMap[f] = None
      /\ n.fd[x] # NoFd => m.eventsMap[n.fd[x]] = None
  BY <1>0, <1>1, MappedIs DEF Mapped, Nets
<1>3. /\ m.watched = n.watched \ {x} /\ m.ready = n.ready \ {x}
  <2>1. CASE ~Mapped(n, x)
    <3>1. x \notin n.watched
      BY <1>0, <2>1, EventLoopAssumption DEF MapInv, Mapped, Objects
    <3> QED BY <1>0, <1>1, <2>1, <3>1 DEF MapInv
  <2> QED BY <1>1, <2>1
<1>4. m \in Nets /\ m.pipe = n.pipe /\ m.tasks = n.tasks /\ m.first = n.first
      /\ m.writing = n.writing /\ m.backlog = n.backlog /\ m.came = n.came
      /\ n.stray \subseteq m.stray /\ (m.alive => n.alive)
  BY <1>1 DEF Elsewhere
<1>5. \A o : Left(m, o) <=> Left(n, o)
  BY <1>1 DEF Left
<1>6. MapInv(m)
  <2>1. \A f \in Fds : m.eventsMap[f] # None => m.fd[m.eventsMap[f]] = f \/ Left(m, m.eventsMap[f])
    BY <1>0, <1>1, <1>2, <1>5 DEF MapInv
  <2>2. ASSUME NEW o \in Objects, o \in m.watched
        PROVE  m.fd[o] # NoFd /\ m.eventsMap[m.fd[o]] = o /\ "IN" \in m.want[o]
    <3>1. o \in n.watched /\ o # x
      BY <1>3, <2>2
    <3>2. n.fd[o] # NoFd /\ n.eventsMap[n.fd[o]] = o /\ "IN" \in n.want[o] /\ n.fd[o] # n.fd[x]
      BY <1>0, <3>1 DEF MapInv
    <3>3. n.fd[o] \in Fds
      BY <1>0, <3>2, MappedIs
    <3> QED BY <1>1, <1>2, <3>2, <3>3
  <2>3. m.ready \subseteq m.watched
    BY <1>0, <1>3 DEF MapInv
  <2> QED BY <1>0, <1>1, <2>1, <2>2, <2>3 DEF MapInv
<1>7. ServerInv(m)
  <2>1. ASSUME NEW d \in m.m_connections
        PROVE  /\ m.conn[d].kind = "accepted" /\ m.fd[d] # NoFd
               /\ d \in m.watched \/ Left(m, m.eventsMap[m.fd[d]])
    <3>1. d \in Conns /\ d \in n.m_connections /\ d # x
      BY <1>0, <1>1 DEF Nets
    <3>2. /\ n.conn[d].kind = "accepted" /\ n.fd[d] # NoFd
          /\ d \in n.watched \/ Left(n, n.eventsMap[n.fd[d]])
      BY <1>0, <3>1 DEF ServerInv
    <3>3. n.fd[d] # n.fd[x] /\ n.fd[d] \in Fds
      BY <1>0, <3>1, <3>2, MappedIs DEF MapInv
    <3> QED BY <1>1, <1>2, <1>3, <1>5, <3>1, <3>2, <3>3
  <2> QED BY <1>0, <1>1, <1>4, <2>1 DEF ServerInv
<1>8. Core(m)
  <2>1. ASSUME NEW c \in Conns
        PROVE  BytesInv(m, c) /\ StatusInv(m, c) /\ SocketInv(m, c)
    <3>1. BytesInv(n, c) /\ StatusInv(n, c) /\ SocketInv(n, c)
      BY DEF Core
    <3>2. BytesInv(m, c)
      BY <1>1, <3>1 DEF BytesInv
    <3>3. StatusInv(m, c)
      BY <1>1, <1>4, <3>1 DEF StatusInv, Fresh
    <3>4. SocketInv(m, c)
      BY <1>1, <3>1 DEF SocketInv, Udp
    <3> QED BY <3>2, <3>3, <3>4
  <2> QED BY <1>4, <1>6, <1>7, <2>1 DEF Core
<1>9. Follows(n, m)
  <2>1. \A d \in Conns : Lasting(n, m, d)
    BY <1>1 DEF Lasting, Gone, Owed, Pending
  <2>2. /\ Pipe \in m.watched <=> Pipe \in n.watched
        /\ Pipe \in m.ready <=> Pipe \in n.ready
    BY <1>0, <1>3
  <2> QED BY <1>1, <1>4, <1>8, <2>1, <2>2 DEF Follows, Unstarted
<1>10. \A b : Noticed(n, b) => Noticed(m, b)
  <2> SUFFICES ASSUME NEW b, Noticed(n, b), NEW d \in Conns, d \in m.watched
               PROVE  NoticedIn(m, b, d) /\ NoticedOut(m, b, d)
    BY DEF Noticed
  <2>1. d \in n.watched /\ d # x
    BY <1>3
  <2>2. NoticedIn(n, b, d) /\ NoticedOut(n, b, d)
    BY <2>1 DEF Noticed
  <2>3. d \in m.ready <=> d \in n.ready
    BY <1>3, <2>1
  <2> QED BY <1>1, <1>4, <2>2, <2>3 DEF NoticedIn, NoticedOut, Gone, Space, Udp, Owed, Pending
<1>11. WritingInv(n) => WritingInv(m)
  BY <1>1, <1>4 DEF WritingInv
<1> QED BY <1>1, <1>2, <1>3, <1>4, <1>9, <1>10, <1>11 DEF m

(* TcpServer::Stop removes the acceptor's event.                             *)
LEMMA StopStep ==
  ASSUME Inv(net, batch, stage, running), Stop
  PROVE  Inv(net', batch', stage', running')
<1> DEFINE a == [net EXCEPT !.posts = @ - 1]
<1>1. net \in Nets /\ net.posts - 1 \in Nat /\ net.ready \subseteq net.watched
  BY DEF Inv, Core, Nets, Stop, MapInv
<1>2. /\ a \in Nets /\ SameObjects(net, a) /\ a.pipe = net.pipe /\ a.tasks = net.tasks
      /\ a.alive = net.alive /\ a.watched = net.watched /\ a.ready = net.ready
      /\ a.want = net.want /\ a.first = net.first
  BY <1>1, Zenon DEF Nets, SameObjects
<1>3. net' = removeEvent(a, Acceptor) /\ batch' = batch /\ stage' = stage /\ running' = running
  BY DEF Stop, Outside
<1> HIDE DEF a
<1>4. Inv(a, batch, stage, running)
  BY <1>2, SameInv
<1>5. Acceptor \in Objects /\ Acceptor \notin a.m_connections
  BY <1>2, EventLoopAssumption DEF Objects, Nets
<1> DEFINE m == removeEvent(a, Acceptor)
<1>6. /\ Follows(a, m) /\ m.writing = a.writing
      /\ WritingInv(a) => WritingInv(m)
      /\ Noticed(a, batch) => Noticed(m, batch)
  BY <1>4, <1>5, RemovedFollows DEF Inv
<1> HIDE DEF m
<1>7. Inv(m, batch, stage, running)
  BY <1>4, <1>6, StaysInv DEF Inv
<1> QED BY <1>3, <1>7 DEF m

-----------------------------------------------------------------------------
(* Objects are started.                                                      *)

(* There is a lowest free descriptor.                                        *)
LEMMA Least ==
  ASSUME NEW S \in SUBSET Nat, S # {}
  PROVE  \E f \in S : \A g \in S : f <= g
<1> DEFINE R == OpToRel(<, Nat)
<1>1. IsWellFoundedOn(R, Nat)
  BY NatLessThanWellFounded, Zenon
<1>2. \A x, y \in Nat : x < y => <<x, y>> \in R
  BY DEF OpToRel
<1> HIDE DEF R
<1>3. PICK m \in S : \A y \in S : ~ (<<y, m>> \in R)
  BY <1>1, WFMin, Zenon
<1>4. \A g \in S : ~ (g < m) /\ g \in Nat /\ m \in Nat
  BY <1>2, <1>3, Zenon
<1> HIDE <1>3
<1>5. \A g \in S : m <= g
  BY <1>4
<1> QED BY <1>5

(* What every step keeps, but for x, that is given a descriptor or loses it. *)
FollowsBut(n, m, x) ==
  /\ Core(m)
  /\ \A c \in Conns : Lasting(n, m, c)
  /\ \A o \in Objects : o # x /\ Unstarted(n, o) => Unstarted(m, o)
  /\ m.pipe = n.pipe /\ m.tasks = n.tasks /\ m.first = n.first
  /\ Pipe \in m.watched <=> Pipe \in n.watched
  /\ Pipe \in m.ready <=> Pipe \in n.ready
  /\ m.want[Pipe] = n.want[Pipe]
  /\ x # Acceptor => m.fd[Acceptor] = n.fd[Acceptor]
  /\ m.alive => n.alive

(* To follow is to follow but for x.                                         *)
LEMMA FollowsSo ==
  ASSUME NEW n, NEW m, Follows(n, m), NEW x
  PROVE  FollowsBut(n, m, x)
  BY DEF Follows, FollowsBut

(* FollowsBut goes from step to step.                                        *)
LEMMA ButTrans ==
  ASSUME NEW n, NEW m, NEW k, NEW x, FollowsBut(n, m, x), FollowsBut(m, k, x)
  PROVE  FollowsBut(n, k, x)
<1>1. \A c \in Conns : Lasting(n, k, c)
  BY LastingTrans DEF FollowsBut
<1> QED BY <1>1 DEF FollowsBut

(* Nothing that is queued starts x.                                          *)
NotStarted(n, q, x) ==
  /\ \A t \in n.first : t.on # x
  /\ \A i \in 1 .. Len(q) : Starts(q[i]) => q[i].on # x

(* Tasks stay sound when an object is started that no task starts.           *)
LEMMA ButTasks ==
  ASSUME NEW n, NEW m, NEW x, Core(n), FollowsBut(n, m, x), NEW q, TasksInv(n, q),
         NotStarted(n, q, x)
  PROVE  TasksInv(m, q)
<1>1. ASSUME NEW t, TaskOK(n, t), Starts(t) => t.on # x
      PROVE  TaskOK(m, t)
  <2>1. t.on \in Objects /\ (~Starts(t) => t.on # Acceptor)
    BY <1>1 DEF TaskOK, Tasks, Starts
  <2>2. Starts(t) => (Unstarted(n, t.on) => Unstarted(m, t.on))
    BY <1>1, <2>1 DEF FollowsBut
  <2>3. \A c \in Conns : Lasting(n, m, c)
    BY DEF FollowsBut
  <2> QED BY <1>1, <2>1, <2>2, <2>3, TaskCarried
<1>2. m.first = n.first
  BY DEF FollowsBut
<1> QED BY <1>1, <1>2 DEF TasksInv, NotStarted

(* The invariant, after a step that may have started x.                      *)
LEMMA ButInv ==
  ASSUME NEW n, NEW b, NEW g, NEW r, Inv(n, b, g, r), NEW m, NEW x, FollowsBut(n, m, x),
         NEW d \in SUBSET b, Noticed(m, d), WritingInv(m), \A e \in b : e.of = Pipe => e \in d,
         NEW h \in {"tasks", "dispatch", "accept"}, h = "tasks" <=> g = "tasks",
         m.writing # None => h = "dispatch",
         h = "accept" /\ m.alive => m.fd[Acceptor] # NoFd,
         NEW w \in Seq(Tasks), h # "tasks" => w = <<>>, TasksInv(m, w \o m.tasks)
  PROVE  Inv(m, d, h, w)
<1>1. Core(m) /\ BatchInv(m, d)
  BY BatchCarried DEF Inv, FollowsBut
<1>2. WakeInv(m, d, h)
  BY DEF Inv, FollowsBut, WakeInv
<1>3. StageInv(m, h, w)
  BY DEF StageInv
<1> QED BY <1>1, <1>2, <1>3 DEF Inv

-----------------------------------------------------------------------------
(* A new descriptor is nobody else's.                                        *)
LEMMA OpenSocketIs ==
  ASSUME NEW n \in Nets, NEW x \in Objects, NEW s \in Sockets, FreeFds(n) # {}
  PROVE  LET m == OpenSocket(n, x, s)
         IN  /\ Elsewhere(n, m, x)
             /\ m.fd[x] \in Fds /\ m.fd[x] # NoFd /\ (\A o \in Objects : n.fd[o] # m.fd[x])
             /\ m.sock[x] = s
             /\ m.eventsMap = n.eventsMap /\ m.want = n.want /\ m.watched = n.watched
             /\ m.ready = n.ready /\ m.conn = n.conn /\ m.m_connections = n.m_connections
<1> DEFINE f == CHOOSE f \in FreeFds(n) : \A g \in FreeFds(n) : f <= g
           m == [n EXCEPT !.fd[x] = f, !.sock[x] = s]
<1>0. x \in All
  BY DEF All
<1>1. f \in FreeFds(n)
  <2>1. FreeFds(n) \in SUBSET Nat
    BY EventLoopAssumption, Zenon DEF FreeFds
  <2> QED BY <2>1, Least
<1>2. f \in Fds /\ f # NoFd /\ \A o \in Objects : n.fd[o] # f
  BY <1>1, EventLoopAssumption DEF FreeFds, NoFd
<1>3. OpenSocket(n, x, s) = m
  BY DEF OpenSocket
<1> HIDE DEF f
<1>4. m \in Nets
  BY <1>0, <1>2, Zenon DEF Nets, All
<1>5. /\ m.fd[x] = f /\ m.sock[x] = s
      /\ \A o \in Objects \ {x} : m.fd[o] = n.fd[o]
      /\ \A o \in All \ {x} : m.sock[o] = n.sock[o]
  BY <1>0, <1>2 DEF Nets, All
<1>6. Elsewhere(n, m, x) /\ m.eventsMap = n.eventsMap /\ m.want = n.want /\ m.watched = n.watched
      /\ m.ready = n.ready /\ m.conn = n.conn /\ m.m_connections = n.m_connections
  BY <1>4, <1>5 DEF Nets, Elsewhere
<1> HIDE DEF m
<1> QED BY <1>2, <1>3, <1>5, <1>6

(* addEvent makes an entry unless there is one.                              *)
LEMMA addEventIs ==
  ASSUME NEW n \in Nets, NEW x \in Objects, n.fd[x] # NoFd, x \notin n.watched,
         x \notin n.ready
  PROVE  LET m == addEvent(n, x)
         IN  /\ Elsewhere(n, m, x)
             /\ m.fd = n.fd /\ m.conn = n.conn /\ m.sock = n.sock
             /\ m.m_connections = n.m_connections
             /\ Mapped(n, x) => m = n
             /\ ~Mapped(n, x) => /\ m.eventsMap = [n.eventsMap EXCEPT ![n.fd[x]] = x]
                                 /\ m.want[x] = {"IN"} /\ x \in m.watched
                                 /\ "IN" \in Mask(n, x) => x \in m.ready
<1>0. x \in All /\ n.fd[x] \in Fds
  BY MappedIs DEF All
<1>1. CASE Mapped(n, x)
  BY <1>1 DEF addEvent, Elsewhere
<1>2. CASE ~Mapped(n, x)
  <2> DEFINE a == [n EXCEPT !.eventsMap[n.fd[x]] = x, !.want[x] = {"IN"},
                            !.watched = @ \cup {x}]
             m == Happened(a, x, Mask(a, x))
  <2>1. addEvent(n, x) = m
    BY <1>2 DEF addEvent, Polled
  <2>2. a \in Nets
    BY <1>0, Zenon DEF Nets, All
  <2>3. /\ a.eventsMap = [n.eventsMap EXCEPT ![n.fd[x]] = x]
        /\ a.want[x] = {"IN"} /\ \A o \in All \ {x} : a.want[o] = n.want[o]
        /\ a.watched = n.watched \cup {x} /\ a.ready = n.ready
    BY <1>0 DEF Nets, All
  <2>4. Elsewhere(n, a, x) /\ a.fd = n.fd /\ a.conn = n.conn /\ a.sock = n.sock
        /\ a.m_connections = n.m_connections /\ a.pipe = n.pipe /\ a.backlog = n.backlog
    BY <2>2, <2>3 DEF Nets, Elsewhere
  <2> HIDE DEF a
  <2>5. Mask(a, x) = Mask(n, x)
    BY <2>4 DEF Mask
  <2>6. /\ Elsewhere(a, m, x) /\ Linked(a, m)
        /\ m.conn = a.conn /\ m.want = a.want /\ m.sock = a.sock
        /\ x \in m.ready <=> \/ x \in a.ready
                             \/ x \in a.watched /\ Mask(a, x) \cap (a.want[x] \cup {"ERR", "HUP"}) # {}
    BY <2>2, HappenedIs
  <2> HIDE DEF m
  <2>7. Elsewhere(n, m, x)
    BY <2>4, <2>6, ElsewhereTrans
  <2>8. "IN" \in Mask(n, x) => x \in m.ready
    BY <2>3, <2>5, <2>6
  <2>9. /\ m.fd = n.fd /\ m.conn = n.conn /\ m.sock = n.sock /\ m.m_connections = n.m_connections
        /\ m.eventsMap = [n.eventsMap EXCEPT ![n.fd[x]] = x]
        /\ m.want[x] = {"IN"} /\ x \in m.watched
    BY <2>3, <2>4, <2>6 DEF Linked
  <2> QED BY <1>2, <2>1, <2>7, <2>8, <2>9
<1> QED BY <1>1, <1>2

(* x is given a descriptor that was free. The map has an entry for it only   *)
(* if a UdpServer left one, and then nobody watches x.                       *)
Opens(n, m, x) ==
  /\ Elsewhere(n, m, x)
  /\ n.fd[x] = NoFd /\ m.fd[x] \in Fds /\ m.fd[x] # NoFd
  /\ \A o \in Objects : n.fd[o] # m.fd[x]
  /\ x \in m.ready => x \in m.watched
  /\ \/ /\ n.eventsMap[m.fd[x]] # None
        /\ m.eventsMap = n.eventsMap /\ x \notin m.watched
     \/ /\ m.eventsMap = [n.eventsMap EXCEPT ![m.fd[x]] = x]
        /\ x \in m.watched /\ "IN" \in m.want[x]

(* A descriptor is opened and its event added.                               *)
LEMMA OpensIs ==
  ASSUME NEW n \in Nets, MapInv(n), NEW x \in Objects, n.fd[x] = NoFd, FreeFds(n) # {},
         NEW s \in Sockets
  PROVE  LET a == OpenSocket(n, x, s)
             m == addEvent(a, x)
         IN  /\ Opens(n, m, x) /\ m.conn = n.conn /\ m.sock[x] = s
             /\ m.m_connections = n.m_connections /\ m.sock = a.sock
             /\ x \in m.watched /\ "IN" \in Mask(a, x) => x \in m.ready
<1> DEFINE a == OpenSocket(n, x, s)
           m == addEvent(a, x)
<1>0. n \in Nets /\ MapInv(n)
  OBVIOUS
<1>1. /\ Elsewhere(n, a, x)
      /\ a.fd[x] \in Fds /\ a.fd[x] # NoFd /\ (\A o \in Objects : n.fd[o] # a.fd[x])
      /\ a.sock[x] = s
      /\ a.eventsMap = n.eventsMap /\ a.watched = n.watched
      /\ a.ready = n.ready /\ a.conn = n.conn /\ a.m_connections = n.m_connections
  BY <1>0, OpenSocketIs
<1> HIDE DEF a
<1>2. x \notin a.watched /\ x \notin a.ready /\ a \in Nets
  BY <1>0, <1>1 DEF MapInv, Elsewhere
<1>3. /\ Elsewhere(a, m, x)
      /\ m.fd = a.fd /\ m.conn = a.conn /\ m.sock = a.sock
      /\ m.m_connections = a.m_connections
      /\ Mapped(a, x) => m = a
      /\ ~Mapped(a, x) => /\ m.eventsMap = [a.eventsMap EXCEPT ![a.fd[x]] = x]
                          /\ m.want[x] = {"IN"} /\ x \in m.watched
                          /\ "IN" \in Mask(a, x) => x \in m.ready
  BY <1>1, <1>2, addEventIs
<1> HIDE DEF m
<1>4. Elsewhere(n, m, x)
  BY <1>1, <1>3, ElsewhereTrans
<1>5. \/ /\ n.eventsMap[m.fd[x]] # None
         /\ m.eventsMap = n.eventsMap /\ x \notin m.watched
      \/ /\ m.eventsMap = [n.eventsMap EXCEPT ![m.fd[x]] = x]
         /\ x \in m.watched /\ "IN" \in m.want[x]
  <2>1. CASE Mapped(a, x)
    BY <1>1, <1>2, <1>3, <2>1 DEF Mapped
  <2>2. CASE ~Mapped(a, x)
    BY <1>1, <1>3, <2>2
  <2> QED BY <2>1, <2>2
<1>6. x \in m.watched => ~Mapped(a, x)
  BY <1>2, <1>3
<1>7. x \in m.ready => x \in m.watched
  BY <1>2, <1>3
<1>8. x \in m.watched /\ "IN" \in Mask(a, x) => x \in m.ready
  BY <1>3, <1>6
<1>9. Opens(n, m, x)
  BY <1>1, <1>3, <1>4, <1>5, <1>7 DEF Opens
<1> QED BY <1>1, <1>3, <1>8, <1>9 DEF m, a

(* That starts x and disturbs nobody.                                        *)
LEMMA OpensFollows ==
  ASSUME NEW n, Core(n), NEW m, NEW x \in Objects, Opens(n, m, x),
         x \in Conns => /\ ~n.conn[x].m_closed /\ ~m.conn[x].m_closed
                        /\ BytesInv(m, x) /\ StatusInv(m, x) /\ SocketInv(m, x)
                        /\ x \in m.m_connections => m.conn[x].kind = "accepted"
                        /\ m.conn[x].kind = "accepted" => x \in m.came,
         \A i \in 1 .. Len(n.backlog) : n.backlog[i] # x
  PROVE  FollowsBut(n, m, x)
<1>0. /\ n \in Nets /\ m \in Nets /\ MapInv(n) /\ ServerInv(n) /\ Elsewhere(n, m, x)
      /\ m.fd[x] \in Fds /\ m.fd[x] # NoFd /\ n.fd[x] = NoFd
      /\ \A o \in Objects : n.fd[o] # m.fd[x]
      /\ x # Pipe /\ Pipe \in All /\ \A c \in Conns : c \in Objects /\ c \in All
      /\ x \notin n.watched
  <2>1. x # Pipe /\ Pipe \in All /\ \A c \in Conns : c \in Objects /\ c \in All
    BY EventLoopAssumption DEF Objects, All
  <2> QED BY <2>1 DEF Opens, Elsewhere, Core, MapInv
<1>1. /\ \A o \in Objects : o # x => m.fd[o] = n.fd[o]
      /\ \A o \in All : o # x => /\ m.want[o] = n.want[o] /\ m.sock[o] = n.sock[o]
                                 /\ o \in m.watched <=> o \in n.watched
                                 /\ o \in m.ready <=> o \in n.ready
      /\ \A c \in Conns : c # x => m.conn[c] = n.conn[c]
      /\ \A c \in Conns : c # x => (c \in m.m_connections <=> c \in n.m_connections)
      /\ m.backlog = n.backlog /\ m.came = n.came /\ n.stray \subseteq m.stray
  BY <1>0 DEF Elsewhere
<1>2. ASSUME NEW o
      PROVE  Left(m, o) <=> Left(n, o)
  <2>1. CASE o = x /\ o \in Conns
    BY <2>1 DEF Left
  <2>2. CASE o # x \/ o \notin Conns
    BY <1>1, <2>2 DEF Left
  <2> QED BY <2>1, <2>2
<1>3. \A f \in Fds : \/ m.eventsMap[f] = n.eventsMap[f]
                     \/ f = m.fd[x] /\ m.eventsMap[f] = x
  BY <1>0 DEF Opens, Nets
<1>4. /\ x \in m.watched => m.eventsMap[m.fd[x]] = x /\ "IN" \in m.want[x]
      /\ x \notin m.watched => m.eventsMap = n.eventsMap /\ Left(n, n.eventsMap[m.fd[x]])
  <2>1. CASE x \in m.watched
    BY <1>0, <2>1 DEF Opens, Nets
  <2>2. CASE x \notin m.watched
    <3>1. n.eventsMap[m.fd[x]] # None /\ m.eventsMap = n.eventsMap
      BY <2>2 DEF Opens
    <3>2. n.eventsMap[m.fd[x]] \in Objects
      BY <1>0, <3>1 DEF Nets
    <3>3. Left(n, n.eventsMap[m.fd[x]])
      BY <1>0, <3>1, <3>2 DEF MapInv
    <3> QED BY <2>2, <3>1, <3>3
  <2> QED BY <2>1, <2>2
<1>5. MapInv(m)
  <2>1. \A o, p \in Objects : m.fd[o] = m.fd[p] /\ m.fd[o] # NoFd => o = p
    BY <1>0, <1>1 DEF MapInv
  <2>2. ASSUME NEW f \in Fds, m.eventsMap[f] # None
        PROVE  m.fd[m.eventsMap[f]] = f \/ Left(m, m.eventsMap[f])
    <3>1. CASE f = m.fd[x] /\ m.eventsMap[f] = x
      BY <3>1
    <3>2. CASE m.eventsMap[f] = n.eventsMap[f]
      <4>1. n.eventsMap[f] \in Objects
        BY <1>0, <2>2, <3>2 DEF Nets
      <4>2. n.fd[n.eventsMap[f]] = f \/ Left(n, n.eventsMap[f])
        BY <1>0, <2>2, <3>2 DEF MapInv
      <4>3. CASE n.eventsMap[f] = x
        BY <1>0, <1>2, <3>2, <4>2, <4>3, EventLoopAssumption DEF NoFd
      <4>4. CASE n.eventsMap[f] # x
        BY <1>1, <1>2, <3>2, <4>1, <4>2, <4>4
      <4> QED BY <4>3, <4>4
    <3> QED BY <1>3, <3>1, <3>2
  <2>3. ASSUME NEW o \in Objects, o \in m.watched
        PROVE  m.fd[o] # NoFd /\ m.eventsMap[m.fd[o]] = o /\ "IN" \in m.want[o]
    <3>1. CASE o = x
      BY <1>0, <1>4, <2>3, <3>1
    <3>2. CASE o # x
      <4>1. o \in n.watched /\ m.fd[o] = n.fd[o] /\ m.want[o] = n.want[o]
        BY <1>1, <2>3, <3>2 DEF All
      <4>2. n.fd[o] # NoFd /\ n.eventsMap[n.fd[o]] = o /\ "IN" \in n.want[o] /\ n.fd[o] \in Fds
        BY <1>0, <4>1, MappedIs DEF MapInv
      <4> QED BY <1>0, <1>3, <4>1, <4>2
    <3> QED BY <3>1, <3>2
  <2>4. m.ready \subseteq m.watched
    <3>1. \A o \in All : o # x => (o \in m.ready => o \in m.watched)
      BY <1>0, <1>1 DEF MapInv
    <3>2. m.ready \subseteq All
      BY <1>0 DEF Nets, All
    <3> QED BY <3>1, <3>2 DEF Opens
  <2> QED BY <2>1, <2>2, <2>3, <2>4 DEF MapInv
<1>6. ServerInv(m)
  <2>1. ASSUME NEW d \in m.m_connections
        PROVE  /\ m.conn[d].kind = "accepted" /\ m.fd[d] # NoFd
               /\ d \in m.watched \/ Left(m, m.eventsMap[m.fd[d]])
    <3>0. d \in Conns
      BY <1>0 DEF Nets
    <3>1. CASE d = x
      BY <1>0, <1>2, <1>4, <2>1, <3>0, <3>1
    <3>2. CASE d # x
      <4>1. /\ n.conn[d].kind = "accepted" /\ n.fd[d] # NoFd
            /\ d \in n.watched \/ Left(n, n.eventsMap[n.fd[d]])
        BY <1>0, <1>1, <2>1, <3>0, <3>2 DEF ServerInv
      <4>2. m.fd[d] = n.fd[d] /\ n.fd[d] \in Fds /\ n.fd[d] # m.fd[x]
        BY <1>0, <1>1, <3>0, <3>2, <4>1, MappedIs
      <4> QED BY <1>0, <1>1, <1>2, <1>3, <3>0, <3>2, <4>1, <4>2
    <3> QED BY <3>1, <3>2
  <2>2. \A d \in Conns : m.conn[d].kind = "accepted" /\ d \notin m.came =>
            m.fd[d] = NoFd /\ ~m.conn[d].m_closed
    BY <1>0, <1>1 DEF ServerInv
  <2>3. ASSUME NEW i \in 1 .. Len(m.backlog)
        PROVE  /\ m.conn[m.backlog[i]].kind = "accepted" /\ m.backlog[i] \in m.came
               /\ m.fd[m.backlog[i]] = NoFd /\ ~m.conn[m.backlog[i]].m_closed
               /\ m.sock[m.backlog[i]].kind # "none"
               /\ \A j \in 1 .. Len(m.backlog) : m.backlog[i] = m.backlog[j] => i = j
    <3>1. n.backlog[i] \in Conns /\ n.backlog[i] # x /\ m.backlog = n.backlog
      BY <1>0, <1>1 DEF Nets
    <3> QED BY <1>0, <1>1, <3>1 DEF ServerInv
  <2> QED BY <2>1, <2>2, <2>3 DEF ServerInv
<1>7. ASSUME NEW d \in Conns
      PROVE  BytesInv(m, d) /\ StatusInv(m, d) /\ SocketInv(m, d)
  <2>1. CASE d # x
    <3>0. BytesInv(n, d) /\ StatusInv(n, d) /\ SocketInv(n, d)
      BY DEF Core
    <3>1. /\ m.conn[d] = n.conn[d] /\ m.sock[d] = n.sock[d] /\ m.fd[d] = n.fd[d]
          /\ m.want[d] = n.want[d] /\ n.stray \subseteq m.stray
      BY <1>0, <1>1, <2>1
    <3>2. BytesInv(m, d)
      BY <3>0, <3>1 DEF BytesInv
    <3>3. StatusInv(m, d)
      BY <3>0, <3>1 DEF StatusInv, Fresh
    <3>4. SocketInv(m, d)
      BY <3>0, <3>1 DEF SocketInv, Udp
    <3> QED BY <3>2, <3>3, <3>4
  <2>2. CASE d = x
    BY <2>2
  <2> QED BY <2>1, <2>2
<1>8. Core(m)
  BY <1>0, <1>5, <1>6, <1>7 DEF Core
<1>9. \A c \in Conns : Lasting(n, m, c)
  <2> SUFFICES ASSUME NEW c \in Conns PROVE Lasting(n, m, c)
    OBVIOUS
  <2>1. CASE c = x
    <3>1. m.conn[x].kind = n.conn[x].kind
      BY <1>0 DEF Elsewhere
    <3> QED BY <1>0, <2>1, <3>1 DEF Lasting
  <2>2. CASE c # x
    BY <1>0, <1>1, <2>2 DEF Lasting, Gone, Owed, Pending
  <2> QED BY <2>1, <2>2
<1>10. \A o \in Objects : o # x /\ Unstarted(n, o) => Unstarted(m, o)
  BY <1>1 DEF Unstarted
<1>11. /\ m.pipe = n.pipe /\ m.tasks = n.tasks /\ m.first = n.first /\ (m.alive => n.alive)
       /\ Pipe \in m.watched <=> Pipe \in n.watched
       /\ Pipe \in m.ready <=> Pipe \in n.ready
       /\ m.want[Pipe] = n.want[Pipe]
       /\ x # Acceptor => m.fd[Acceptor] = n.fd[Acceptor]
  BY <1>0, <1>1 DEF Elsewhere, Objects
<1> QED BY <1>8, <1>9, <1>10, <1>11 DEF FollowsBut

(* The others were noticed, and are; x must be.                              *)
LEMMA OpensNoticed ==
  ASSUME NEW n, Core(n), NEW m, NEW x \in Objects, Elsewhere(n, m, x), NEW b, Noticed(n, b),
         x \in Conns /\ x \in m.watched => NoticedIn(m, b, x) /\ NoticedOut(m, b, x)
  PROVE  Noticed(m, b)
<1> SUFFICES ASSUME NEW d \in Conns, d \in m.watched, d # x
             PROVE  NoticedIn(m, b, d) /\ NoticedOut(m, b, d)
  BY DEF Noticed
<1>1. d \in All
  BY DEF Objects, All
<1>2. /\ d \in n.watched /\ m.want[d] = n.want[d] /\ m.sock[d] = n.sock[d] /\ m.conn[d] = n.conn[d]
      /\ d \in m.ready <=> d \in n.ready
      /\ m.writing = n.writing
  BY <1>1 DEF Elsewhere
<1>3. NoticedIn(n, b, d) /\ NoticedOut(n, b, d)
  BY <1>2 DEF Noticed
<1>4. Owed(m, d) = Owed(n, d) /\ Space(m, d) = Space(n, d) /\ (Udp(m, d) <=> Udp(n, d))
  BY <1>2 DEF Gone, Space, Udp, Owed, Pending
<1> QED BY <1>2, <1>3, <1>4 DEF NoticedIn, NoticedOut

(* A step that leaves the connections as they are, and what was noticed.     *)
Keeps(n, m) ==
  /\ m.writing = n.writing /\ (WritingInv(n) => WritingInv(m))
  /\ \A b : Noticed(n, b) => Noticed(m, b)

(* Keeps goes from step to step.                                             *)
LEMMA KeepsGoesOn ==
  ASSUME NEW n, NEW m, NEW k, Keeps(n, m), Keeps(m, k)
  PROVE  Keeps(n, k)
  BY DEF Keeps

(* The acceptor's socket is closed.                                          *)
LEMMA CloseAcceptor ==
  ASSUME NEW n, Core(n), n.fd[Acceptor] = NoFd \/ n.eventsMap[n.fd[Acceptor]] # Acceptor
  PROVE  LET m == Close(n, Acceptor)
         IN  FollowsBut(n, m, Acceptor) /\ Keeps(n, m) /\ m.fd[Acceptor] = NoFd
<1> DEFINE m == Close(n, Acceptor)
           x == Acceptor
<1>0. /\ n \in Nets /\ MapInv(n) /\ ServerInv(n) /\ x \in Objects /\ x \notin Conns /\ x # Pipe
      /\ Pipe \in All /\ \A c \in Conns : c \in Objects /\ c \in All /\ c # x
  BY EventLoopAssumption DEF Core, Objects, All
<1>1. /\ Elsewhere(n, m, x)
      /\ m.eventsMap = n.eventsMap /\ m.conn = n.conn /\ m.want = n.want
      /\ m.m_connections = n.m_connections
      /\ n.fd[x] = NoFd => m = n
      /\ n.fd[x] # NoFd => x \notin m.watched /\ x \notin m.ready /\ m.fd[x] = NoFd
  BY <1>0, CloseIs
<1> HIDE DEF m, x
<1>2. m.fd[x] = NoFd /\ (x \in m.watched => FALSE) /\ (x \in m.ready => FALSE)
  BY <1>0, <1>1 DEF MapInv
<1>3. /\ \A o \in Objects : o # x => m.fd[o] = n.fd[o]
      /\ \A c \in Conns : m.fd[c] = n.fd[c] /\ m.sock[c] = n.sock[c]
                          /\ (c \in m.watched <=> c \in n.watched)
                          /\ (c \in m.ready <=> c \in n.ready)
      /\ \A o \in All : o # x => /\ o \in m.watched <=> o \in n.watched
                                 /\ o \in m.ready <=> o \in n.ready
      /\ m \in Nets /\ m.backlog = n.backlog /\ m.came = n.came /\ m.writing = n.writing
      /\ n.stray \subseteq m.stray /\ (m.alive => n.alive)
      /\ m.pipe = n.pipe /\ m.tasks = n.tasks /\ m.first = n.first
  BY <1>0, <1>1 DEF Elsewhere
<1>4. \A o : Left(m, o) <=> Left(n, o)
  BY <1>1 DEF Left
<1>5. MapInv(m)
  <2>1. \A o, p \in Objects : m.fd[o] = m.fd[p] /\ m.fd[o] # NoFd => o = p
    BY <1>0, <1>2, <1>3 DEF MapInv
  <2>2. ASSUME NEW f \in Fds, m.eventsMap[f] # None
        PROVE  m.fd[m.eventsMap[f]] = f \/ Left(m, m.eventsMap[f])
    <3>1. n.eventsMap[f] \in Objects /\ m.eventsMap[f] = n.eventsMap[f]
      BY <1>0, <1>1, <2>2 DEF Nets
    <3>2. n.fd[n.eventsMap[f]] = f \/ Left(n, n.eventsMap[f])
      BY <1>0, <2>2, <3>1 DEF MapInv
    <3>3. n.eventsMap[f] # x
      <4>1. ~Left(n, x) /\ f # NoFd
        BY <1>0, EventLoopAssumption DEF Left, NoFd
      <4> QED BY <3>2, <4>1 DEF x
    <3> QED BY <1>3, <1>4, <3>1, <3>2, <3>3
  <2>3. \A o \in Objects : o \in m.watched =>
            m.fd[o] # NoFd /\ m.eventsMap[m.fd[o]] = o /\ "IN" \in m.want[o]
    BY <1>0, <1>1, <1>2, <1>3 DEF MapInv, All
  <2>4. m.ready \subseteq m.watched
    <3>1. \A o \in All : o \in m.ready => o \in m.watched
      BY <1>0, <1>2, <1>3 DEF MapInv
    <3> QED BY <1>3, <3>1 DEF Nets, All
  <2> QED BY <2>1, <2>2, <2>3, <2>4 DEF MapInv
<1>6. ServerInv(m)
  <2>1. \A d \in n.m_connections : d \in Conns
    BY <1>0 DEF Nets
  <2>2. \A i \in 1 .. Len(n.backlog) : n.backlog[i] \in Conns
    BY <1>0 DEF Nets
  <2> QED BY <1>0, <1>1, <1>3, <1>4, <2>1, <2>2 DEF ServerInv
<1>7. ASSUME NEW c \in Conns
      PROVE  BytesInv(m, c) /\ StatusInv(m, c) /\ SocketInv(m, c) /\ Lasting(n, m, c)
  <2>1. BytesInv(n, c) /\ StatusInv(n, c) /\ SocketInv(n, c)
    BY DEF Core
  <2>2. BytesInv(m, c)
    BY <1>1, <2>1 DEF BytesInv
  <2>3. StatusInv(m, c)
    BY <1>1, <1>3, <2>1 DEF StatusInv, Fresh
  <2>4. SocketInv(m, c)
    BY <1>1, <1>3, <2>1 DEF SocketInv, Udp
  <2>5. Lasting(n, m, c)
    BY <1>1, <1>3 DEF Lasting, Gone, Owed, Pending
  <2> QED BY <2>2, <2>3, <2>4, <2>5
<1>8. Core(m)
  BY <1>3, <1>5, <1>6, <1>7 DEF Core
<1>9. FollowsBut(n, m, x)
  <2>1. /\ Pipe \in m.watched <=> Pipe \in n.watched
        /\ Pipe \in m.ready <=> Pipe \in n.ready
    BY <1>0, <1>3
  <2> QED BY <1>1, <1>3, <1>7, <1>8, <2>1 DEF FollowsBut, Unstarted, x
<1>10. Keeps(n, m)
  <2>1. WritingInv(n) => WritingInv(m)
    BY <1>0, <1>1, <1>3 DEF WritingInv, Core, Nets
  <2>2. \A b : Noticed(n, b) => Noticed(m, b)
    BY <1>1, <1>3 DEF Noticed, NoticedIn, NoticedOut, Gone, Space, Udp, Owed, Pending
  <2> QED BY <1>3, <2>1, <2>2 DEF Keeps
<1> QED BY <1>2, <1>9, <1>10 DEF m, x

(* The acceptor listens.                                                     *)
Listening(n) == [n EXCEPT !.sock[Acceptor] = Socket("listening")]

(* Its socket alone changes.                                                 *)
LEMMA ListeningIs ==
  ASSUME NEW n \in Nets
  PROVE  LET m == Listening(n)
         IN  /\ Elsewhere(n, m, Acceptor) /\ m.fd = n.fd /\ m.eventsMap = n.eventsMap
             /\ m.watched = n.watched /\ m.ready = n.ready /\ m.want = n.want
             /\ m.conn = n.conn /\ m.m_connections = n.m_connections
<1> DEFINE m == Listening(n)
<1>0. Acceptor \in All
  BY DEF All, Objects
<1>1. Socket("listening") \in Sockets
  BY SocketTypes
<1>2. m \in Nets
  BY <1>0, <1>1, Zenon DEF Nets, All, Listening
<1>3. \A o \in All : o # Acceptor => m.sock[o] = n.sock[o]
  BY <1>0 DEF Nets, All, Listening
<1> QED BY <1>2, <1>3, Zenon DEF Nets, Elsewhere, Listening

(* Acceptor::open; without a descriptor the program ends.                    *)
LEMMA openFollows ==
  ASSUME NEW n, Core(n), n.fd[Acceptor] = NoFd \/ n.eventsMap[n.fd[Acceptor]] # Acceptor
  PROVE  LET m == open(n)
         IN  /\ FollowsBut(n, m, Acceptor) /\ Keeps(n, m)
             /\ m.alive => m.fd[Acceptor] # NoFd
<1> DEFINE k == Close(n, Acceptor)
           a == OpenSocket(k, Acceptor, Socket("fresh"))
           y == addEvent(a, Acceptor)
<1>0. Acceptor \in Objects /\ Acceptor \notin Conns /\ Socket("fresh") \in Sockets
  BY EventLoopAssumption, SocketTypes DEF Objects
<1>1. FollowsBut(n, k, Acceptor) /\ Keeps(n, k) /\ k.fd[Acceptor] = NoFd
  BY CloseAcceptor
<1>2. open(n) = IF FreeFds(k) = {} THEN [k EXCEPT !.alive = FALSE]
                ELSE Listening(y)
  BY DEF open, Listening
<1> HIDE DEF k
<1>3. Core(k) /\ k \in Nets
  BY <1>1 DEF FollowsBut, Core
<1>4. CASE FreeFds(k) = {}
  <2> DEFINE m == [k EXCEPT !.alive = FALSE]
  <2>1. /\ m \in Nets /\ SameObjects(k, m) /\ ~m.alive
        /\ m.pipe = k.pipe /\ m.tasks = k.tasks /\ m.first = k.first
        /\ m.watched = k.watched /\ m.ready = k.ready /\ m.want = k.want
    BY <1>3, Zenon DEF Nets, SameObjects, Core, MapInv
  <2> HIDE DEF m
  <2>2. /\ Core(m) /\ (WritingInv(k) => WritingInv(m))
        /\ \A b : Noticed(k, b) => Noticed(m, b)
        /\ \A c \in Conns : Lasting(k, m, c)
        /\ \A o \in Objects : Unstarted(k, o) => Unstarted(m, o)
    BY <1>3, <2>1, SameCarries
  <2>3. FollowsBut(k, m, Acceptor)
    BY <2>1, <2>2 DEF FollowsBut
  <2>4. Keeps(k, m)
    BY <2>1, <2>2 DEF Keeps, SameObjects
  <2> QED BY <1>1, <1>2, <1>4, <2>1, <2>3, <2>4, ButTrans, KeepsGoesOn DEF m
<1>5. CASE FreeFds(k) # {}
  <2>1. Opens(k, y, Acceptor) /\ y.conn = k.conn /\ y.m_connections = k.m_connections
    BY <1>0, <1>1, <1>3, <1>5, OpensIs DEF Core
  <2> HIDE DEF y
  <2> DEFINE m == Listening(y)
  <2>2. Opens(k, m, Acceptor) /\ m.conn = k.conn /\ m.m_connections = k.m_connections
    <3>1. y \in Nets
      BY <2>1 DEF Opens, Elsewhere
    <3> DEFINE z == Listening(y)
    <3>2. /\ Elsewhere(y, z, Acceptor) /\ z.fd = y.fd /\ z.eventsMap = y.eventsMap
          /\ z.watched = y.watched /\ z.ready = y.ready /\ z.want = y.want
          /\ z.conn = y.conn /\ z.m_connections = y.m_connections
      BY <3>1, ListeningIs
    <3> HIDE DEF z
    <3>3. Elsewhere(k, y, Acceptor)
      BY <2>1 DEF Opens
    <3>4. Elsewhere(k, z, Acceptor)
      BY <3>2, <3>3, ElsewhereTrans
    <3>5. Opens(k, z, Acceptor)
      BY <2>1, <3>2, <3>4 DEF Opens
    <3> QED BY <2>1, <3>2, <3>5 DEF z
  <2> HIDE DEF m
  <2>3. \A i \in 1 .. Len(k.backlog) : k.backlog[i] # Acceptor
    BY <1>0, <1>3 DEF Nets
  <2>4. FollowsBut(k, m, Acceptor)
    BY <1>0, <1>3, <2>2, <2>3, OpensFollows
  <2>5. Elsewhere(k, m, Acceptor) /\ m.fd[Acceptor] # NoFd
    BY <2>2 DEF Opens
  <2>6. Keeps(k, m)
    <3>1. \A b : Noticed(k, b) => Noticed(m, b)
      BY <1>0, <1>3, <2>5, OpensNoticed
    <3>2. m.writing = k.writing /\ \A c \in Conns : m.fd[c] = k.fd[c]
      BY <1>0, <2>5 DEF Elsewhere, Objects
    <3>3. WritingInv(k) => WritingInv(m)
      BY <1>3, <2>2, <3>2 DEF WritingInv, Nets
    <3> QED BY <3>1, <3>2, <3>3 DEF Keeps
  <2> QED BY <1>1, <1>2, <1>5, <2>4, <2>5, <2>6, ButTrans, KeepsGoesOn DEF m
<1> QED BY <1>4, <1>5

(* Nobody waits to be accepted any more.                                     *)
Emptied(n, s) == [n EXCEPT !.backlog = <<>>, !.sock = s]

(* Only the backlog and the sockets change.                                  *)
LEMMA EmptiedIs ==
  ASSUME NEW n \in Nets, NEW s \in [All -> Sockets]
  PROVE  LET m == Emptied(n, s) IN
         /\ m \in Nets /\ m.sock = s /\ m.backlog = <<>>
         /\ m.fd = n.fd /\ m.eventsMap = n.eventsMap /\ m.conn = n.conn /\ m.want = n.want
         /\ m.watched = n.watched /\ m.ready = n.ready /\ m.m_connections = n.m_connections
         /\ m.writing = n.writing /\ m.stray = n.stray /\ m.pipe = n.pipe /\ m.tasks = n.tasks
         /\ m.first = n.first /\ m.alive = n.alive /\ m.came = n.came
<1> DEFINE m == Emptied(n, s)
<1>1. m.sock = s /\ m.backlog = <<>>
  BY DEF Nets, Emptied
<1>2. m \in Nets
  <2>1. s \in [Objects \cup {Pipe} -> Sockets] /\ <<>> \in Seq(Conns)
    BY DEF All
  <2> DEFINE y == [n EXCEPT !.sock = s]
  <2>2. y \in Nets
    BY <2>1, Zenon DEF Nets
  <2>3. m = [y EXCEPT !.backlog = <<>>]
    BY Zenon DEF Nets, Emptied
  <2> HIDE DEF y, m
  <2> QED BY <2>1, <2>2, <2>3, Zenon DEF Nets
<1> QED BY <1>1, <1>2 DEF Nets, Emptied

(* Those who waited at a closed socket are reset.                            *)
LEMMA TurnedAwayFollows ==
  ASSUME NEW n, Core(n)
  PROVE  Follows(n, TurnedAway(n)) /\ Keeps(n, TurnedAway(n))
<1> DEFINE m == TurnedAway(n)
<1>0. /\ n \in Nets /\ MapInv(n) /\ ServerInv(n)
      /\ \A c \in Conns : c \in Objects /\ c \in All
  BY DEF Core, Objects, All
<1> DEFINE Waits1(o) == \E i \in 1 .. Len(n.backlog) : n.backlog[i] = o
           s == [o \in All |-> IF Waits1(o) THEN NoSocket ELSE n.sock[o]]
<1>1. m = Emptied(n, s)
  <2>1. DOMAIN n.sock = All /\ DOMAIN n.backlog = 1 .. Len(n.backlog)
    BY <1>0 DEF Nets, All
  <2>2. s = [o \in DOMAIN n.sock |->
               IF \E i \in DOMAIN n.backlog : n.backlog[i] = o THEN NoSocket ELSE n.sock[o]]
    BY <2>1
  <2> HIDE DEF s
  <2> QED BY <2>2 DEF TurnedAway, Emptied
<1>2. s \in [All -> Sockets]
  BY <1>0, SocketTypes DEF Nets, All
<1>3. \A c \in Conns : \/ s[c] = n.sock[c]
                       \/ /\ s[c] = NoSocket /\ n.fd[c] = NoFd /\ ~n.conn[c].m_closed
                          /\ n.conn[c].kind = "accepted"
  BY <1>0 DEF ServerInv
<1> HIDE DEF s
<1>4. /\ m \in Nets /\ m.sock = s /\ m.backlog = <<>>
      /\ m.fd = n.fd /\ m.eventsMap = n.eventsMap /\ m.conn = n.conn /\ m.want = n.want
      /\ m.watched = n.watched /\ m.ready = n.ready /\ m.m_connections = n.m_connections
      /\ m.writing = n.writing /\ m.stray = n.stray /\ m.pipe = n.pipe /\ m.tasks = n.tasks
      /\ m.first = n.first /\ m.alive = n.alive /\ m.came = n.came
  BY <1>0, <1>1, <1>2, EmptiedIs
<1> HIDE DEF m
<1>5. ASSUME NEW c \in Conns
      PROVE  BytesInv(m, c) /\ StatusInv(m, c) /\ SocketInv(m, c) /\ Lasting(n, m, c)
  <2>1. BytesInv(n, c) /\ StatusInv(n, c) /\ SocketInv(n, c)
    BY DEF Core
  <2>2. BytesInv(m, c)
    BY <1>4, <2>1 DEF BytesInv
  <2>3. CASE m.sock[c] = n.sock[c]
    BY <1>4, <2>1, <2>2, <2>3 DEF StatusInv, Fresh, SocketInv, Udp, Lasting, Gone, Owed, Pending
  <2>4. CASE /\ m.sock[c] = NoSocket /\ n.fd[c] = NoFd /\ ~n.conn[c].m_closed
             /\ n.conn[c].kind = "accepted"
    <3>1. StatusInv(m, c)
      BY <1>4, <2>1, <2>4 DEF StatusInv, Fresh
    <3>2. SocketInv(m, c)
      BY <1>4, <2>4, SocketTypes, EventLoopAssumption DEF SocketInv, Udp
    <3>3. Lasting(n, m, c)
      BY <1>4, <2>4 DEF Lasting
    <3> QED BY <2>2, <3>1, <3>2, <3>3
  <2> QED BY <1>3, <1>4, <2>3, <2>4
<1>6. MapInv(m)
  BY <1>0, <1>4 DEF MapInv, Left
<1>7. ServerInv(m)
  BY <1>0, <1>4 DEF ServerInv, Left
<1>8. Core(m)
  BY <1>4, <1>5, <1>6, <1>7 DEF Core
<1>9. Follows(n, m)
  BY <1>4, <1>5, <1>8 DEF Follows, Unstarted
<1>10. \A b : Noticed(n, b) => Noticed(m, b)
  <2> SUFFICES ASSUME NEW b, Noticed(n, b), NEW d \in Conns, d \in m.watched
               PROVE  NoticedIn(m, b, d) /\ NoticedOut(m, b, d)
    BY DEF Noticed
  <2>1. d \in n.watched /\ NoticedIn(n, b, d) /\ NoticedOut(n, b, d)
    BY <1>4 DEF Noticed
  <2>2. m.sock[d] = n.sock[d]
    BY <1>0, <1>3, <1>4, <2>1 DEF MapInv
  <2> QED BY <1>4, <2>1, <2>2 DEF NoticedIn, NoticedOut, Gone, Space, Udp, Owed, Pending
<1>11. WritingInv(n) => WritingInv(m)
  BY <1>4 DEF WritingInv
<1> QED BY <1>4, <1>9, <1>10, <1>11 DEF Keeps, m

(* Acceptor::onClose closes and opens again.                                 *)
LEMMA AcceptorOnCloseFollows ==
  ASSUME NEW n, Core(n), n.fd[Acceptor] # NoFd
  PROVE  LET m == AcceptorOnClose(n)
         IN  FollowsBut(n, m, Acceptor) /\ Keeps(n, m)
<1> DEFINE a == removeEvent(n, Acceptor)
           y == open(a)
           m == TurnedAway(y)
<1>1. Acceptor \in Objects /\ Acceptor \notin n.m_connections
  BY EventLoopAssumption DEF Core, Nets, Objects
<1>2. /\ Follows(n, a) /\ Keeps(n, a) /\ a.fd = n.fd /\ a.eventsMap[n.fd[Acceptor]] = None
  BY <1>1, RemovedFollows DEF Keeps
<1> HIDE DEF a
<1>3. Core(a) /\ a.eventsMap[a.fd[Acceptor]] # Acceptor
  BY <1>2, EventLoopAssumption DEF Follows
<1>4. FollowsBut(a, y, Acceptor) /\ Keeps(a, y)
  BY <1>3, openFollows
<1> HIDE DEF y
<1>5. Follows(y, m) /\ Keeps(y, m)
  BY <1>4, TurnedAwayFollows DEF FollowsBut
<1> HIDE DEF m
<1>6. FollowsBut(n, m, Acceptor) /\ Keeps(n, m)
  BY <1>2, <1>4, <1>5, FollowsSo, ButTrans, KeepsGoesOn
<1> QED BY <1>6 DEF m, y, a, AcceptorOnClose

(* A step of nobody's turn, and what was noticed.                            *)
Tells(n, m) == m.writing = n.writing /\ \A b : Noticed(n, b) => Noticed(m, b)

(* Tells goes from step to step.                                             *)
LEMMA TellsTrans ==
  ASSUME NEW n, NEW m, NEW k, Tells(n, m), Tells(m, k)
  PROVE  Tells(n, k)
  BY DEF Tells

(* A handler tells.                                                          *)
LEMMA HandledTells ==
  ASSUME NEW n, NEW m, Handled(n, m)
  PROVE  Tells(n, m)
  BY NoticedCarried DEF Tells, Handled, Aside

(* No descriptor is left: an object that was never opened closes, but for a  *)
(* UdpClient.                                                                *)
LEMMA NeverOpened ==
  ASSUME NEW n, Core(n), NEW c \in Conns, Unstarted(n, c),
         n.conn[c].kind \in {"client", "udpserver", "udpclient"}
  PROVE  LET m == onClose(n, c, "cause")
         IN  FollowsBut(n, m, c) /\ Tells(n, m)
<1> DEFINE known == Knowing(n, c, "cause")
           off == WithStatus(known, c, "disconnected")
           m == onClose(n, c, "cause")
<1>0. /\ n \in Nets /\ StatusInv(n, c) /\ SocketInv(n, c) /\ BytesInv(n, c) /\ c \in Objects
      /\ n.fd[c] = NoFd /\ ~n.conn[c].m_closed /\ n.conn[c].m_status = "init"
      /\ Fresh(n, c) /\ n.ready \subseteq n.watched /\ c \notin n.watched
  BY DEF Core, StatusInv, Unstarted, Fresh, MapInv, Objects
<1>1. /\ Elsewhere(n, known, c) /\ Linked(n, known) /\ known.ready = n.ready
      /\ known.conn[c].m_closed = n.conn[c].m_closed /\ known.conn[c].m_status = n.conn[c].m_status
      /\ known.conn[c].written = <<>> /\ known.conn[c].m_iovecList = <<>> /\ known.sock = n.sock
      /\ known.want = n.want
      /\ known.conn[c].unfinished = 0 /\ known.conn[c].why = "cause"
      /\ known.conn[c].asked = n.conn[c].asked /\ known.conn[c].short = n.conn[c].short
  BY <1>0, KnownIs
<1>2. m = CASE n.conn[c].kind = "accepted"  -> TcpOnClose(known, c)
            [] n.conn[c].kind = "client"    -> TcpClientOnClose(known, c)
            [] n.conn[c].kind = "udpserver" -> UdpOnClose(known, c)
            [] n.conn[c].kind = "udpclient" -> UdpClientOnClose(known, c)
  BY <1>0, Zenon DEF onClose, Knowing
<1> HIDE DEF known
<1>3. known \in Nets /\ known.fd[c] = NoFd /\ known.conn[c].kind = n.conn[c].kind
  BY <1>0, <1>1 DEF Elsewhere, Linked
<1>4. /\ Elsewhere(known, off, c) /\ Linked(known, off)
      /\ off.ready = known.ready /\ off.sock = known.sock /\ off.want = known.want
      /\ off.conn[c].m_closed = known.conn[c].m_closed
      /\ off.conn[c].written = known.conn[c].written
      /\ off.conn[c].m_iovecList = known.conn[c].m_iovecList
      /\ off.conn[c].unfinished = known.conn[c].unfinished /\ off.conn[c].why = known.conn[c].why
      /\ off.conn[c].kind = known.conn[c].kind
  <2>1. /\ Elsewhere(known, off, c) /\ Linked(known, off)
        /\ off.ready = known.ready /\ off.sock = known.sock /\ off.want = known.want
        /\ off.conn[c].m_closed = known.conn[c].m_closed
        /\ off.conn[c].written = known.conn[c].written
        /\ off.conn[c].m_iovecList = known.conn[c].m_iovecList
        /\ off.conn[c].unfinished = known.conn[c].unfinished /\ off.conn[c].why = known.conn[c].why
    BY <1>3, SetStatus
  <2> HIDE DEF off
  <2> QED BY <2>1 DEF Elsewhere
<1> HIDE DEF off
<1>5. off \in Nets /\ off.fd[c] = NoFd
  BY <1>3, <1>4 DEF Elsewhere, Linked
<1>6. ASSUME NEW a \in Nets, a.fd[c] = NoFd
      PROVE  Close(WithClosed(a, c), c) = WithClosed(a, c)
  <2>1. Linked(a, WithClosed(a, c))
    BY <1>6, SetClosed
  <2> QED BY <1>6, <2>1 DEF Close, Linked
<1>7. m = known \/ \E a \in {known, off} : m = WithClosed(a, c)
  <2>1. CASE n.conn[c].kind = "client"
    <3>1. m = TcpClientOnClose(known, c)
      BY <1>2, <2>1, SMT
    <3>2. TcpClientOnClose(known, c) = TcpOnClose(off, c)
      BY <1>0, <1>1 DEF TcpClientOnClose, WithStatus, off
    <3>3. TcpOnClose(off, c) = Close(WithClosed(off, c), c)
      BY <1>0, <1>1, <1>3, <1>4, <2>1 DEF TcpOnClose, WithClosed
    <3> QED BY <1>5, <1>6, <3>1, <3>2, <3>3
  <2>2. CASE n.conn[c].kind = "udpserver"
    <3>1. m = UdpOnClose(known, c)
      BY <1>2, <2>2, SMT
    <3>2. UdpOnClose(known, c) = Close(WithClosed(known, c), c)
      BY <1>0, <1>1, Zenon DEF UdpOnClose, WithClosed
    <3> QED BY <1>3, <1>6, <3>1, <3>2
  <2>3. CASE n.conn[c].kind = "udpclient"
    <3>1. m = UdpClientOnClose(known, c)
      BY <1>2, <2>3, SMT
    <3> QED BY <1>0, <1>1, <3>1 DEF UdpClientOnClose
  <2> QED BY <2>1, <2>2, <2>3
<1> HIDE DEF m
<1>8. /\ Elsewhere(n, m, c) /\ Linked(n, m) /\ m.ready = n.ready /\ m.sock = n.sock /\ m.want = n.want
      /\ m.conn[c].written = <<>> /\ m.conn[c].m_iovecList = <<>> /\ m.conn[c].unfinished = 0
      /\ m.conn[c].why = "cause"
      /\ m.conn[c].m_closed \/ /\ m.conn[c].m_status = "init" /\ ~m.conn[c].m_closed
                               /\ m.conn[c].asked = 0 /\ ~m.conn[c].short
  <2>1. CASE m = known
    BY <1>0, <1>1, <2>1 DEF Fresh
  <2>2. CASE \E a \in {known, off} : m = WithClosed(a, c)
    <3>0. PICK a \in {known, off} : m = WithClosed(a, c)
      BY <2>2
    <3>1. /\ a \in Nets /\ Elsewhere(n, a, c) /\ Linked(n, a) /\ a.ready = n.ready
          /\ a.sock = n.sock /\ a.want = n.want
          /\ a.conn[c].written = <<>> /\ a.conn[c].m_iovecList = <<>> /\ a.conn[c].unfinished = 0
          /\ a.conn[c].why = "cause"
      BY <1>1, <1>3, <1>4, <1>5, ElsewhereTrans DEF Linked
    <3>2. /\ Elsewhere(a, m, c) /\ Linked(a, m) /\ m.conn[c].m_closed
          /\ m.conn[c].written = a.conn[c].written /\ m.conn[c].m_iovecList = a.conn[c].m_iovecList
          /\ m.conn[c].unfinished = a.conn[c].unfinished /\ m.conn[c].why = a.conn[c].why
          /\ m.ready = a.ready /\ m.sock = a.sock /\ m.want = a.want
      BY <3>0, <3>1, SetClosed
    <3>3. Elsewhere(n, m, c) /\ Linked(n, m)
      BY <3>1, <3>2, ElsewhereTrans DEF Linked
    <3> QED BY <3>1, <3>2, <3>3
  <2> QED BY <1>7, <2>1, <2>2
<1>9. m.conn[c].kind = n.conn[c].kind /\ m.fd[c] = NoFd /\ m.writing = n.writing /\ m.watched = n.watched
  BY <1>0, <1>8 DEF Elsewhere, Linked
<1>10. BytesInv(m, c) /\ StatusInv(m, c) /\ SocketInv(m, c)
  <2>1. BytesInv(m, c)
    <3>1. CASE m.conn[c].m_closed
      BY <1>8, <3>1 DEF BytesInv, BytesOK
    <3>2. CASE ~m.conn[c].m_closed
      BY <1>0, <1>8, <1>9, <3>2 DEF BytesInv, BytesOK, Fresh
    <3> QED BY <3>1, <3>2
  <2>2. StatusInv(m, c)
    BY <1>8, <1>9 DEF StatusInv, Fresh
  <2>3. SocketInv(m, c)
    BY <1>0, <1>8, <1>9 DEF SocketInv, Udp
  <2> QED BY <2>1, <2>2, <2>3
<1>11. Core(m)
  BY <1>0, <1>8, <1>9, <1>10, QuietCore
<1>12. FollowsBut(n, m, c)
  <2>1. Aside(n, m)
    BY <1>8, ElsewhereAside
  <2>2. \A d \in Conns : d # c => m.conn[d] = n.conn[d]
    BY <1>8 DEF Elsewhere
  <2>3. \A d \in Conns : Lasting(n, m, d)
    <3> TAKE d \in Conns
    <3>1. CASE d = c
      BY <1>0, <1>9, <3>1 DEF Lasting
    <3>2. CASE d # c
      BY <1>8, <2>2, <3>2 DEF Lasting, Gone, Linked, Owed, Pending
    <3> QED BY <3>1, <3>2
  <2>4. \A o \in Objects : o # c /\ Unstarted(n, o) => Unstarted(m, o)
    BY <1>8, <2>2 DEF Unstarted, Linked
  <2> QED BY <1>11, <2>1, <2>3, <2>4 DEF FollowsBut, Aside
<1>13. Tells(n, m)
  <2>1. \A b : Noticed(n, b) => Noticed(m, b)
    <3>1. c \notin m.watched
      BY <1>0, <1>9
    <3> QED BY <1>0, <1>8, <3>1, OpensNoticed
  <2> QED BY <1>9, <2>1 DEF Tells
<1> QED BY <1>12, <1>13 DEF m

(* socket() and the assignment to m_status may change places.                *)
LEMMA OpenSocketStatus ==
  ASSUME NEW n \in Nets, NEW c \in Conns, NEW s, NEW w
  PROVE  WithStatus(OpenSocket(n, c, s), c, w) = OpenSocket(WithStatus(n, c, w), c, s)
<1>1. FreeFds(WithStatus(n, c, w)) = FreeFds(n)
  BY DEF Nets, FreeFds, WithStatus
<1> DEFINE f == CHOOSE f \in FreeFds(n) : \A g \in FreeFds(n) : f <= g
<1>2. OpenSocket(WithStatus(n, c, w), c, s) = [WithStatus(n, c, w) EXCEPT !.fd[c] = f, !.sock[c] = s]
  BY <1>1 DEF OpenSocket
<1>3. OpenSocket(n, c, s) = [n EXCEPT !.fd[c] = f, !.sock[c] = s]
  BY DEF OpenSocket
<1> HIDE DEF f
<1> QED BY <1>2, <1>3, Zenon DEF Nets, WithStatus

(* The socket of c is replaced.                                              *)
PutSocket(n, c, k) == [n EXCEPT !.sock[c] = k]

(* And nothing else.                                                         *)
LEMMA PutSocketIs ==
  ASSUME NEW n \in Nets, NEW c \in Conns, NEW k \in Sockets
  PROVE  LET m == PutSocket(n, c, k)
         IN  /\ Elsewhere(n, m, c) /\ Linked(n, m) /\ m.sock[c] = k
             /\ m.ready = n.ready /\ m.conn = n.conn /\ m.want = n.want
             /\ Elsewhere(m, n, c) /\ Linked(m, n)
<1> DEFINE m == PutSocket(n, c, k)
<1>0. c \in All
  BY DEF All, Objects
<1>1. m \in Nets
  BY <1>0, Zenon DEF Nets, All, PutSocket
<1>2. m.sock[c] = k /\ \A o \in All \ {c} : m.sock[o] = n.sock[o]
  BY <1>0 DEF Nets, All, PutSocket
<1>3. /\ Elsewhere(n, m, c) /\ Linked(n, m) /\ m.sock[c] = k
      /\ m.ready = n.ready /\ m.conn = n.conn /\ m.want = n.want
  BY <1>1, <1>2, Zenon DEF Nets, Elsewhere, Linked, PutSocket
<1>4. m.asks = n.asks /\ m.messages = n.messages /\ m.posts = n.posts /\ m.stray = n.stray
      /\ m.alive = n.alive
  BY DEF Nets, PutSocket
<1> HIDE DEF m
<1>5. Elsewhere(m, n, c)
  BY <1>3, <1>4 DEF Elsewhere
<1>6. Linked(m, n)
  BY <1>3 DEF Linked
<1> QED BY <1>3, <1>5, <1>6 DEF m

(* connect() of a socket that epoll watches: it also waits for EPOLLOUT.     *)
LEMMA AskingIs ==
  ASSUME NEW y \in Nets, NEW c \in Conns, Mapped(y, c), NEW kind \in {"connecting", "open"}
  PROVE  LET a == enableWriting(y, c, TRUE)
             z == PutSocket(a, c, Socket(kind))
         IN  /\ Elsewhere(y, z, c) /\ Linked(y, z) /\ z.conn = y.conn
             /\ "OUT" \in z.want[c] /\ ("IN" \in y.want[c] => "IN" \in z.want[c])
             /\ c \in z.ready => c \in y.ready \/ c \in y.watched
             /\ z.sock[c] = Socket(kind)
             /\ Elsewhere(z, a, c) /\ Linked(z, a) /\ a.conn = z.conn
<1> DEFINE k == y.want[c] \cup {"OUT"}
           a == enableWriting(y, c, TRUE)
           z == PutSocket(a, c, Socket(kind))
<1>1. k \in SUBSET {"IN", "OUT"} /\ c \in Objects /\ y \in Nets
      /\ "OUT" \in k /\ ("IN" \in y.want[c] => "IN" \in k)
  BY ConnTypes
<1>2. a = Polled([y EXCEPT !.want[c] = k], c)
  BY <1>1 DEF enableWriting
<1> HIDE DEF k, z, a
<1>3. /\ Elsewhere(y, a, c) /\ Linked(y, a)
      /\ a.conn = y.conn /\ a.want[c] = k
      /\ c \in a.ready => c \in y.ready \/ c \in y.watched
  BY <1>1, <1>2, PolledIs
<1>4. Socket(kind) \in Sockets /\ a \in Nets
  <2>1. kind \in {"fresh", "listening", "connecting", "open", "datagram", "reset"}
    OBVIOUS
  <2>2. Socket(kind) \in Sockets
    BY <2>1, SocketTypes, Zenon
  <2> QED BY <1>3, <2>2 DEF Elsewhere
<1>5. /\ Elsewhere(a, z, c) /\ Linked(a, z) /\ z.sock[c] = Socket(kind)
      /\ z.ready = a.ready /\ z.conn = a.conn /\ z.want = a.want
      /\ Elsewhere(z, a, c) /\ Linked(z, a)
  BY <1>4, PutSocketIs DEF z
<1>6. Elsewhere(y, z, c)
  BY <1>3, <1>5, ElsewhereTrans
<1>7. Linked(y, z)
  BY <1>3, <1>5 DEF Linked
<1> QED BY <1>1, <1>3, <1>5, <1>6, <1>7, Zenon DEF z, a

(* The socket that was asked to connect, and what the kernel answers.        *)
LEMMA ConnectFollows ==
  ASSUME NEW n, Core(n), NEW c \in Conns, Unstarted(n, c), n.conn[c].kind = "client",
         NEW answer \in {"refused", "pending", "made"}, NEW m \in ConnectInLoop(n, c, answer)
  PROVE  FollowsBut(n, m, c) /\ Tells(n, m)
<1>0. /\ n \in Nets /\ StatusInv(n, c) /\ SocketInv(n, c) /\ BytesInv(n, c) /\ MapInv(n)
      /\ ServerInv(n)
      /\ n.fd[c] = NoFd /\ ~n.conn[c].m_closed /\ Fresh(n, c) /\ c \in Objects
  BY DEF Core, StatusInv, Unstarted, Objects
<1>1. CASE FreeFds(n) = {}
  BY <1>1, NeverOpened DEF ConnectInLoop
<1>2. CASE FreeFds(n) # {}
  <2>0. Socket("fresh") \in Sockets
    BY SocketTypes
  <2> DEFINE q == WithStatus(n, c, "connecting")
  <2>1. /\ Elsewhere(n, q, c) /\ Linked(n, q)
        /\ q.ready = n.ready /\ q.sock = n.sock /\ q.want = n.want
        /\ q.conn[c].m_closed = n.conn[c].m_closed /\ q.conn[c].m_status = "connecting"
        /\ q.conn[c].written = n.conn[c].written /\ q.conn[c].m_iovecList = n.conn[c].m_iovecList
        /\ q.conn[c].unfinished = n.conn[c].unfinished /\ q.conn[c].why = n.conn[c].why
        /\ q.conn[c].asked = n.conn[c].asked /\ q.conn[c].short = n.conn[c].short
    <3>1. n \in Nets /\ "connecting" \in {"init", "connecting", "connected", "disconnected"}
      BY <1>0
    <3> QED BY <3>1, SetStatus
  <2>2. WithStatus(OpenSocket(n, c, Socket("fresh")), c, "connecting")
           = OpenSocket(q, c, Socket("fresh"))
    <3>1. n \in Nets
      BY <1>0
    <3> QED BY <3>1, OpenSocketStatus
  <2> HIDE DEF q
  <2>3. /\ q \in Nets /\ q.fd = n.fd /\ q.fd[c] = NoFd /\ q.conn[c].kind = n.conn[c].kind
        /\ \A d \in Conns : d # c => q.conn[d] = n.conn[d]
    BY <1>0, <2>1 DEF Elsewhere, Linked
  <2>4. MapInv(q)
    <3>1. FreeFds(q) = FreeFds(n)
      BY <2>3 DEF FreeFds
    <3>2. \A o : Left(q, o) <=> Left(n, o)
      BY <2>1, <2>3 DEF Left
    <3>3. /\ q.fd = n.fd /\ q.eventsMap = n.eventsMap /\ q.watched = n.watched
          /\ q.ready = n.ready /\ q.want = n.want
      BY <2>1 DEF Linked
    <3>4. MapInv(n)
      BY <1>0
    <3> QED BY <3>2, <3>3, <3>4 DEF MapInv
  <2>5. FreeFds(q) # {}
    BY <1>2, <2>3 DEF FreeFds
  <2> DEFINE y == addEvent(OpenSocket(q, c, Socket("fresh")), c)
  <2>6. Opens(q, y, c) /\ y.conn = q.conn /\ y.m_connections = q.m_connections
    BY <1>0, <2>0, <2>3, <2>4, <2>5, OpensIs
  <2> DEFINE asking == enableWriting(y, c, TRUE)
             kind == IF answer = "made" THEN "open" ELSE "connecting"
             z == PutSocket(asking, c, Socket(kind))
  <2>7. /\ answer = "refused" => m = onClose(asking, c, "cause")
        /\ answer = "pending" => m = z
        /\ answer = "made" => m \in Connected(z, c)
    <3> DEFINE o == WithStatus(OpenSocket(n, c, Socket("fresh")), c, "connecting")
               w == enableWriting(addEvent(o, c), c, TRUE)
    <3>1. ConnectInLoop(n, c, answer)
            = CASE answer = "refused" -> {onClose(w, c, "cause")}
                [] answer = "pending" -> {PutSocket(w, c, Socket("connecting"))}
                [] answer = "made"    -> Connected(PutSocket(w, c, Socket("open")), c)
      BY <1>2, Zenon DEF ConnectInLoop, WithStatus, PutSocket
    <3>2. w = asking
      BY <2>2, Zenon
    <3> HIDE DEF w, asking
    <3> QED BY <3>1, <3>2
  <2>k. kind \in {"connecting", "open"}
    OBVIOUS
  <2> HIDE DEF asking, z, y, kind
  <2>8. y \in Nets /\ y.fd[c] \in Fds /\ y.fd[c] # NoFd /\ Mapped(y, c)
    <3>1. y \in Nets /\ y.fd[c] \in Fds /\ y.fd[c] # NoFd
      BY <2>6 DEF Opens, Elsewhere
    <3>2. y.eventsMap[y.fd[c]] # None
      <4>1. CASE q.eventsMap[y.fd[c]] # None /\ y.eventsMap = q.eventsMap
        BY <4>1
      <4>2. CASE y.eventsMap = [q.eventsMap EXCEPT ![y.fd[c]] = c]
        <5>1. q.eventsMap \in [Fds -> Objects \cup {None}] /\ c # None
          BY <2>3, EventLoopAssumption DEF Nets
        <5> QED BY <3>1, <4>2, <5>1
      <4> QED BY <2>6, <4>1, <4>2 DEF Opens
    <3> QED BY <3>1, <3>2 DEF Mapped
  <2>9. /\ Elsewhere(y, z, c) /\ Linked(y, z) /\ z.conn = y.conn
        /\ "OUT" \in z.want[c] /\ ("IN" \in y.want[c] => "IN" \in z.want[c])
        /\ c \in z.ready => c \in y.ready \/ c \in y.watched
        /\ z.sock[c] = Socket(kind)
        /\ Elsewhere(z, asking, c) /\ Linked(z, asking) /\ asking.conn = z.conn
    BY <2>8, <2>k, AskingIs, Zenon DEF z, asking
  <2>12. Elsewhere(n, y, c)
    BY <2>1, <2>6, ElsewhereTrans DEF Opens
  <2>13. Elsewhere(n, z, c)
    BY <2>9, <2>12, ElsewhereTrans
  <2>14. /\ z.fd = y.fd /\ z.eventsMap = y.eventsMap /\ z.watched = y.watched
         /\ z.m_connections = n.m_connections /\ z.conn = q.conn
    BY <2>1, <2>6, <2>9 DEF Linked
  <2>15. Opens(n, z, c)
    <3>1. c \in z.watched => "IN" \in z.want[c]
      BY <2>6, <2>9, <2>14 DEF Opens
    <3>2. c \in z.ready => c \in z.watched
      BY <2>6, <2>9, <2>14 DEF Opens
    <3>3. q.fd = n.fd /\ q.eventsMap = n.eventsMap
      BY <2>1 DEF Linked
    <3> QED BY <1>0, <2>6, <2>13, <2>14, <3>1, <3>2, <3>3 DEF Opens
  <2>16. z.fd[c] # NoFd /\ n.stray \subseteq z.stray /\ z.conn[c].kind = "client"
    BY <2>13, <2>15 DEF Opens, Elsewhere
  <2>17. BytesInv(z, c)
    BY <1>0, <2>1, <2>14, <2>16, Zenon DEF BytesInv, BytesOK
  <2>18. StatusInv(z, c)
    BY <1>0, <2>1, <2>9, <2>14, <2>16, <2>k, SocketTypes DEF StatusInv, Fresh
  <2>19. SocketInv(z, c)
    <3>1. ~Udp(z, c)
      BY <2>16 DEF Udp
    <3>2. Room \in Nat
      BY EventLoopAssumption
    <3>3. /\ z.sock[c].kind \in {"connecting", "open"} /\ z.sock[c].unread = 0
          /\ z.sock[c].unsent = 0 /\ ~z.sock[c].fin /\ ~z.sock[c].error /\ ~z.sock[c].taken
      BY <2>9, <2>k, SocketTypes
    <3> QED BY <3>1, <3>2, <3>3 DEF SocketInv
  <2>20. c \notin z.m_connections /\ \A i \in 1 .. Len(n.backlog) : n.backlog[i] # c
    BY <1>0, <2>14 DEF ServerInv
  <2>21. FollowsBut(n, z, c)
    BY <1>0, <2>1, <2>14, <2>15, <2>16, <2>17, <2>18, <2>19, <2>20, OpensFollows
  <2>22. \A b : NoticedIn(z, b, c)
    <3>1. /\ z.sock[c].kind # "reset" /\ z.sock[c].unread = 0
          /\ ~z.sock[c].fin /\ ~z.sock[c].error
      BY <2>9, <2>k, SocketTypes
    <3> QED BY <3>1 DEF NoticedIn, Gone, Owed, Pending
  <2>23. \A b : NoticedOut(z, b, c)
    BY <1>0, <2>1, <2>14 DEF NoticedOut, Fresh
  <2>24. Tells(n, z)
    <3>1. \A b : Noticed(n, b) => Noticed(z, b)
      BY <1>0, <2>13, <2>22, <2>23, OpensNoticed
    <3> QED BY <2>13, <3>1 DEF Tells, Elsewhere
  <2>25. Core(z)
    BY <2>21 DEF FollowsBut
  <2>26. Handled(z, onClose(asking, c, "cause"))
    BY <2>9, <2>16, <2>25, onCloseOpen
  <2>27. ASSUME Handled(z, m)
         PROVE  FollowsBut(n, m, c) /\ Tells(n, m)
    BY <2>21, <2>24, <2>27, HandledFollows, FollowsSo, ButTrans, HandledTells, TellsTrans
  <2>28. ASSUME m \in Connected(z, c)
         PROVE  Handled(z, m)
    <3>1. z.conn[c].m_status = "connecting"
      BY <2>1, <2>14
    <3> QED BY <2>16, <2>25, <2>28, <3>1, ConnectedHandled
  <2> QED BY <2>7, <2>21, <2>24, <2>26, <2>27, <2>28
<1> QED BY <1>1, <1>2

(* A UDP object is opened.                                                   *)
LEMMA UdpOpenFollows ==
  ASSUME NEW n, Core(n), NEW c \in Conns, Unstarted(n, c), Udp(n, c)
  PROVE  LET m == UdpOpen(n, c)
         IN  FollowsBut(n, m, c) /\ Tells(n, m)
<1>0. /\ n \in Nets /\ StatusInv(n, c) /\ SocketInv(n, c) /\ BytesInv(n, c) /\ MapInv(n)
      /\ ServerInv(n)
      /\ n.fd[c] = NoFd /\ ~n.conn[c].m_closed /\ Fresh(n, c) /\ c \in Objects
  BY DEF Core, StatusInv, Unstarted, Objects
<1>1. CASE FreeFds(n) = {}
  BY <1>1, NeverOpened DEF UdpOpen, Udp
<1>2. CASE FreeFds(n) # {}
  <2> DEFINE y == addEvent(OpenSocket(n, c, Socket("datagram")), c)
             off == WithStatus(y, c, "connecting")
             m == IF n.conn[c].kind = "udpclient" THEN off ELSE y
  <2>0. Socket("datagram") \in Sockets
    BY SocketTypes
  <2>1. UdpOpen(n, c) = m
    BY <1>2 DEF UdpOpen, WithStatus
  <2>2. Opens(n, y, c) /\ y.conn = n.conn /\ y.m_connections = n.m_connections
        /\ y.sock[c] = Socket("datagram")
    BY <1>0, <1>2, <2>0, OpensIs
  <2> HIDE DEF y
  <2>3. y \in Nets /\ Elsewhere(n, y, c)
    BY <2>2 DEF Opens, Elsewhere
  <2>4. /\ Elsewhere(y, off, c) /\ Linked(y, off)
        /\ off.ready = y.ready /\ off.sock = y.sock /\ off.want = y.want
        /\ off.conn[c].m_closed = y.conn[c].m_closed /\ off.conn[c].m_status = "connecting"
        /\ off.conn[c].written = y.conn[c].written /\ off.conn[c].m_iovecList = y.conn[c].m_iovecList
        /\ off.conn[c].unfinished = y.conn[c].unfinished /\ off.conn[c].why = y.conn[c].why
        /\ off.conn[c].asked = y.conn[c].asked /\ off.conn[c].short = y.conn[c].short
    BY <2>3, SetStatus
  <2> HIDE DEF off
  <2>5. Elsewhere(n, off, c) /\ Opens(n, off, c)
    <3>1. Elsewhere(n, off, c)
      BY <2>3, <2>4, ElsewhereTrans
    <3> QED BY <2>2, <2>4, <3>1 DEF Opens, Linked
  <2>6. /\ Elsewhere(n, m, c) /\ Opens(n, m, c) /\ m.m_connections = n.m_connections
        /\ m.sock[c] = Socket("datagram")
        /\ m.conn[c].m_closed = n.conn[c].m_closed
        /\ m.conn[c].written = n.conn[c].written /\ m.conn[c].m_iovecList = n.conn[c].m_iovecList
        /\ m.conn[c].unfinished = n.conn[c].unfinished /\ m.conn[c].why = n.conn[c].why
        /\ m.conn[c].asked = n.conn[c].asked /\ m.conn[c].short = n.conn[c].short
        /\ n.conn[c].kind = "udpclient" => m.conn[c].m_status = "connecting"
    BY <2>2, <2>3, <2>4, <2>5 DEF Linked
  <2> HIDE DEF m
  <2>7. m.fd[c] # NoFd /\ n.stray \subseteq m.stray /\ m.conn[c].kind = n.conn[c].kind
        /\ m.writing = n.writing
    BY <2>6 DEF Opens, Elsewhere
  <2>8. BytesInv(m, c)
    BY <1>0, <2>6, <2>7, Zenon DEF BytesInv, BytesOK
  <2>9. StatusInv(m, c)
    BY <1>0, <2>6, <2>7, SocketTypes DEF StatusInv, Udp
  <2>10. SocketInv(m, c)
    BY <2>6, <2>7, SocketTypes, EventLoopAssumption DEF SocketInv, Udp
  <2>11. c \notin m.m_connections /\ \A i \in 1 .. Len(n.backlog) : n.backlog[i] # c
    BY <1>0, <2>6 DEF ServerInv, Udp
  <2>12. FollowsBut(n, m, c)
    <3>1. m.conn[c].kind # "accepted"
      BY <2>7 DEF Udp
    <3> QED BY <1>0, <2>6, <2>8, <2>9, <2>10, <2>11, <3>1, OpensFollows
  <2>13. \A b : NoticedIn(m, b, c) /\ NoticedOut(m, b, c)
    BY <1>0, <2>6, SocketTypes DEF NoticedIn, NoticedOut, Gone, Fresh, Owed, Pending
  <2>14. \A b : Noticed(n, b) => Noticed(m, b)
    BY <1>0, <2>6, <2>13, OpensNoticed
  <2> QED BY <2>1, <2>7, <2>12, <2>14 DEF Tells
<1> QED BY <1>1, <1>2

(* No task starts an object that has a descriptor or comes from the backlog. *)
LEMMA StartedAlready ==
  ASSUME NEW n, NEW q, TasksInv(n, q), NEW x \in Objects,
         n.fd[x] # NoFd \/ (x \in Conns /\ n.conn[x].kind = "accepted")
  PROVE  NotStarted(n, q, x)
<1>0. x \in Conns => x # Acceptor
  BY EventLoopAssumption
<1>1. ASSUME NEW t, TaskOK(n, t), Starts(t)
      PROVE  t.on # x
  BY <1>0, <1>1 DEF TaskOK, Starts
<1> QED BY <1>1 DEF NotStarted, TasksInv

(* The first of the backlog has been taken.                                  *)
Shortened(n) == [n EXCEPT !.backlog = Tail(@)]

(* Taking it off the backlog keeps the invariant.                            *)
LEMMA ShortenedInv ==
  ASSUME NEW n, NEW b, NEW g, NEW r, Inv(n, b, g, r), n.backlog # <<>>
  PROVE  LET m == Shortened(n)
             c == Head(n.backlog)
         IN  /\ Inv(m, b, g, r)
             /\ c \in Conns /\ n.conn[c].kind = "accepted" /\ c \in n.came
             /\ n.fd[c] = NoFd /\ ~n.conn[c].m_closed /\ n.sock[c].kind # "none"
             /\ \A i \in 1 .. Len(m.backlog) : m.backlog[i] # c
<1> DEFINE m == Shortened(n)
           c == Head(n.backlog)
           q == Tail(n.backlog)
<1>1. n \in Nets /\ ServerInv(n) /\ MapInv(n) /\ Core(n)
  BY DEF Inv, Core
<1>2. /\ n.backlog \in Seq(Conns) /\ Len(n.backlog) \in Nat /\ 1 \in 1 .. Len(n.backlog)
      /\ c = n.backlog[1] /\ c \in Conns
      /\ q \in Seq(Conns) /\ Len(q) = Len(n.backlog) - 1
      /\ \A i \in 1 .. Len(q) : q[i] = n.backlog[i + 1] /\ i + 1 \in 1 .. Len(n.backlog)
                                /\ i + 1 # 1
  BY <1>1 DEF Nets
<1>3. /\ n.conn[c].kind = "accepted" /\ c \in n.came
      /\ n.fd[c] = NoFd /\ ~n.conn[c].m_closed /\ n.sock[c].kind # "none"
  BY <1>1, <1>2 DEF ServerInv
<1> HIDE DEF c
<1>4. /\ m \in Nets /\ m.backlog = q
      /\ m.fd = n.fd /\ m.eventsMap = n.eventsMap /\ m.conn = n.conn /\ m.want = n.want
      /\ m.watched = n.watched /\ m.ready = n.ready /\ m.m_connections = n.m_connections
      /\ m.writing = n.writing /\ m.stray = n.stray /\ m.pipe = n.pipe /\ m.tasks = n.tasks
      /\ m.first = n.first /\ m.alive = n.alive /\ m.came = n.came /\ m.sock = n.sock
  <2> DEFINE w == q
  <2>1. w \in Seq(Conns) /\ m = [n EXCEPT !.backlog = w]
    BY <1>1, <1>2 DEF Shortened, Nets
  <2> HIDE DEF w, m
  <2>2. m \in Nets /\ m.backlog = w
    BY <1>1, <2>1, Zenon DEF Nets
  <2> QED BY <1>1, <2>1, <2>2, Zenon DEF Nets, w
<1> HIDE DEF m, q
<1>5. \A i \in 1 .. Len(m.backlog) : m.backlog[i] # c
  <2> SUFFICES ASSUME NEW i \in 1 .. Len(q) PROVE q[i] # c
    BY <1>4
  <2>1. q[i] = n.backlog[i + 1] /\ i + 1 \in 1 .. Len(n.backlog) /\ i + 1 # 1
    BY <1>2
  <2>2. \A j \in 1 .. Len(n.backlog) : n.backlog[i + 1] = n.backlog[j] => i + 1 = j
    BY <1>1, <2>1 DEF ServerInv
  <2> QED BY <1>2, <2>1, <2>2
<1>6. ServerInv(m)
  <2>1. ASSUME NEW i \in 1 .. Len(m.backlog)
        PROVE  /\ m.conn[m.backlog[i]].kind = "accepted" /\ m.backlog[i] \in m.came
               /\ m.fd[m.backlog[i]] = NoFd /\ ~m.conn[m.backlog[i]].m_closed
               /\ m.sock[m.backlog[i]].kind # "none"
    <3>1. m.backlog[i] = n.backlog[i + 1] /\ i + 1 \in 1 .. Len(n.backlog)
      BY <1>2, <1>4
    <3> QED BY <1>1, <1>4, <3>1 DEF ServerInv
  <2>2. ASSUME NEW i \in 1 .. Len(m.backlog), NEW j \in 1 .. Len(m.backlog),
               m.backlog[i] = m.backlog[j]
        PROVE  i = j
    <3>1. m.backlog[i] = n.backlog[i + 1] /\ i + 1 \in 1 .. Len(n.backlog)
      BY <1>2, <1>4
    <3>2. m.backlog[j] = n.backlog[j + 1] /\ j + 1 \in 1 .. Len(n.backlog)
      BY <1>2, <1>4
    <3>3. i + 1 = j + 1
      BY <1>1, <2>2, <3>1, <3>2, Zenon DEF ServerInv
    <3>4. i \in Int /\ j \in Int
      BY <1>2, <1>4
    <3> QED BY <3>3, <3>4
  <2>3. /\ \A d \in m.m_connections :
              /\ m.conn[d].kind = "accepted" /\ m.fd[d] # NoFd
              /\ d \in m.watched \/ Left(m, m.eventsMap[m.fd[d]])
        /\ \A d \in Conns : m.conn[d].kind = "accepted" /\ d \notin m.came =>
              m.fd[d] = NoFd /\ ~m.conn[d].m_closed
    BY <1>1, <1>4 DEF ServerInv, Left
  <2> QED BY <2>1, <2>2, <2>3 DEF ServerInv
<1>7. ASSUME NEW d \in Conns
      PROVE  BytesInv(m, d) /\ StatusInv(m, d) /\ SocketInv(m, d) /\ Lasting(n, m, d)
  <2>1. BytesInv(n, d) /\ StatusInv(n, d) /\ SocketInv(n, d)
    BY <1>1 DEF Core
  <2> QED BY <1>4, <2>1 DEF BytesInv, StatusInv, Fresh, SocketInv, Udp, Lasting, Gone, Owed, Pending
<1>8. MapInv(m)
  BY <1>1, <1>4 DEF MapInv, Left
<1>9. Core(m)
  BY <1>4, <1>6, <1>7, <1>8 DEF Core
<1>10. Follows(n, m)
  BY <1>4, <1>7, <1>9 DEF Follows, Unstarted
<1>11. Noticed(m, b)
  <2>1. Noticed(n, b)
    BY DEF Inv
  <2> QED BY <1>4, <2>1 DEF Noticed, NoticedIn, NoticedOut, Gone, Space, Udp, Owed, Pending
<1>12. WritingInv(m) /\ m.writing = n.writing
  BY <1>4 DEF Inv, WritingInv
<1>13. Inv(m, b, g, r)
  BY <1>10, <1>11, <1>12, StaysInv
<1> QED BY <1>2, <1>3, <1>5, <1>13 DEF m, c

(* c becomes a connection of the server.                                     *)
Welcomed(n, c) == [n EXCEPT !.backlog = Tail(@), !.m_connections = @ \cup {c}]

(* onAccept, its assignments in another order.                               *)
LEMMA WelcomedIs ==
  ASSUME NEW n \in Nets, NEW c \in Conns, n.backlog # <<>>
  PROVE  LET k == Welcomed(n, c)
             m == Shortened(n)
         IN  /\ k \in Nets
             /\ k.fd = m.fd /\ k.eventsMap = m.eventsMap /\ k.conn = m.conn /\ k.want = m.want
             /\ k.watched = m.watched /\ k.ready = m.ready
             /\ k.m_connections = m.m_connections \cup {c}
             /\ k.writing = m.writing /\ k.stray = m.stray /\ k.pipe = m.pipe /\ k.tasks = m.tasks
             /\ k.first = m.first /\ k.alive = m.alive /\ k.came = m.came /\ k.sock = m.sock
             /\ k.port = m.port /\ k.backlog = m.backlog
             /\ m.sock = n.sock
             /\ onAccept([OpenSocket(n, c, n.sock[c]) EXCEPT !.backlog = Tail(@)], c)
                  = addEvent(OpenSocket(k, c, k.sock[c]), c)
<1> DEFINE k == Welcomed(n, c)
           m == Shortened(n)
           q == Tail(n.backlog)
<1>1. q \in Seq(Conns)
  BY DEF Nets
<1> HIDE DEF q
<1>2. k = [n EXCEPT !.backlog = q, !.m_connections = n.m_connections \cup {c}]
  BY DEF Nets, Welcomed, q
<1>3. m = [n EXCEPT !.backlog = q]
  BY DEF Nets, Shortened, q
<1> HIDE DEF k, m
<1>4. k \in Nets
  BY <1>1, <1>2, Zenon DEF Nets
<1>5. /\ k.fd = m.fd /\ k.eventsMap = m.eventsMap /\ k.conn = m.conn /\ k.want = m.want
      /\ k.watched = m.watched /\ k.ready = m.ready
      /\ k.m_connections = m.m_connections \cup {c}
      /\ k.writing = m.writing /\ k.stray = m.stray /\ k.pipe = m.pipe /\ k.tasks = m.tasks
      /\ k.first = m.first /\ k.alive = m.alive /\ k.came = m.came /\ k.sock = m.sock
      /\ k.port = m.port /\ k.backlog = m.backlog
      /\ m.sock = n.sock /\ k.fd = n.fd /\ k.sock = n.sock
  BY <1>2, <1>3 DEF Nets
<1> DEFINE f == CHOOSE f \in FreeFds(n) : \A g \in FreeFds(n) : f <= g
<1>6. FreeFds(k) = FreeFds(n)
  BY <1>5 DEF FreeFds
<1>7. OpenSocket(k, c, k.sock[c]) = [k EXCEPT !.fd[c] = f, !.sock[c] = n.sock[c]]
  BY <1>5, <1>6 DEF OpenSocket
<1>8. OpenSocket(n, c, n.sock[c]) = [n EXCEPT !.fd[c] = f, !.sock[c] = n.sock[c]]
  BY DEF OpenSocket
<1> HIDE DEF f
<1> DEFINE a == [OpenSocket(n, c, n.sock[c]) EXCEPT !.backlog = Tail(@)]
<1>9. [a EXCEPT !.m_connections = @ \cup {c}] = OpenSocket(k, c, k.sock[c])
  <2> DEFINE F == [n.fd EXCEPT ![c] = f]
             S == [n.sock EXCEPT ![c] = n.sock[c]]
             o == OpenSocket(n, c, n.sock[c])
  <2>1. o = [n EXCEPT !.fd = F, !.sock = S]
    BY <1>8 DEF Nets
  <2>2. OpenSocket(k, c, k.sock[c]) = [k EXCEPT !.fd = F, !.sock = S]
    BY <1>5, <1>7, Zenon
  <2>3. a = [o EXCEPT !.backlog = Tail(@)]
    OBVIOUS
  <2> HIDE DEF F, S, o, a
  <2>4. o.backlog = n.backlog /\ o.m_connections = n.m_connections
    BY <2>1 DEF Nets
  <2>5. a = [o EXCEPT !.backlog = q]
    <3>1. a = [o EXCEPT !.backlog = Tail(o.backlog)]
      BY <2>1, <2>3 DEF Nets
    <3> QED BY <2>4, <3>1 DEF q
  <2>6. a = [n EXCEPT !.fd = F, !.sock = S, !.backlog = q]
    BY <2>1, <2>5 DEF Nets
  <2>7. [a EXCEPT !.m_connections = @ \cup {c}]
           = [n EXCEPT !.fd = F, !.sock = S, !.backlog = q, !.m_connections = n.m_connections \cup {c}]
    BY <2>6 DEF Nets
  <2>8. [k EXCEPT !.fd = F, !.sock = S]
           = [n EXCEPT !.fd = F, !.sock = S, !.backlog = q, !.m_connections = n.m_connections \cup {c}]
    BY <1>2, Zenon DEF Nets
  <2> QED BY <2>2, <2>7, <2>8
<1> HIDE DEF a
<1>10. onAccept(a, c) = addEvent(OpenSocket(k, c, k.sock[c]), c)
  BY <1>9 DEF onAccept
<1> QED BY <1>4, <1>5, <1>10 DEF a, k, m

(* Acceptor::onClose in the middle of a batch.                               *)
LEMMA ReopenedInv ==
  ASSUME NEW n, NEW b, NEW g, NEW r, Inv(n, b, g, r), g # "tasks", n.writing = None,
         n.fd[Acceptor] # NoFd, NEW d \in SUBSET b, Noticed(n, d),
         \A e \in b : e.of = Pipe => e \in d
  PROVE  Inv(AcceptorOnClose(n), d, "dispatch", r)
<1> DEFINE m == AcceptorOnClose(n)
<1>1. Core(n) /\ WritingInv(n) /\ TasksInv(n, r \o n.tasks) /\ StageInv(n, g, r)
  BY DEF Inv
<1>2. FollowsBut(n, m, Acceptor) /\ Keeps(n, m)
  BY <1>1, AcceptorOnCloseFollows
<1> HIDE DEF m
<1>3. NotStarted(n, r \o n.tasks, Acceptor)
  <2>1. Acceptor \in Objects
    BY DEF Objects
  <2> QED BY <1>1, <2>1, StartedAlready
<1>4. m.tasks = n.tasks
  BY <1>2 DEF FollowsBut
<1>5. TasksInv(m, r \o m.tasks)
  BY <1>1, <1>2, <1>3, <1>4, ButTasks
<1>6. Noticed(m, d) /\ WritingInv(m)
  BY <1>1, <1>2 DEF Keeps
<1>7. r \in Seq(Tasks) /\ r = <<>>
  BY <1>1 DEF StageInv
<1>8. "dispatch" \in {"tasks", "dispatch", "accept"} /\ ("dispatch" = "tasks" <=> g = "tasks")
  OBVIOUS
<1>9. Inv(m, d, "dispatch", r)
  BY <1>2, <1>5, <1>6, <1>7, <1>8, ButInv, Zenon
<1> QED BY <1>9 DEF m

(* One turn of Acceptor::onRead.                                             *)
LEMMA AcceptStep ==
  ASSUME Inv(net, batch, stage, running), Accept
  PROVE  Inv(net', batch', stage', running')
<1> DEFINE takes == net.sock[Acceptor].kind = "listening" /\ net.backlog # <<>> /\ FreeFds(net) # {}
<1>1. /\ batch' = batch /\ running' = running /\ stage = "accept" /\ net.alive /\ net.writing = None
      /\ net \in Nets /\ Core(net) /\ StageInv(net, stage, running)
      /\ WritingInv(net) /\ Noticed(net, batch)
  BY DEF Accept, Free, Inv, Core
<1>2. CASE takes
  <2> DEFINE c == Head(net.backlog)
             n == Shortened(net)
             k == Welcomed(net, c)
             a == OpenSocket(k, c, k.sock[c])
             m == addEvent(a, c)
  <2>1. /\ Inv(n, batch, stage, running)
        /\ c \in Conns /\ net.conn[c].kind = "accepted" /\ c \in net.came
        /\ net.fd[c] = NoFd /\ ~net.conn[c].m_closed /\ net.sock[c].kind # "none"
        /\ \A i \in 1 .. Len(n.backlog) : n.backlog[i] # c
    BY <1>2, ShortenedInv, Zenon
  <2>2. net' = onAccept([OpenSocket(net, c, net.sock[c]) EXCEPT !.backlog = Tail(@)], c)
        /\ stage' = stage
    BY <1>2, Zenon DEF Accept
  <2> HIDE DEF c
  <2>3. /\ k \in Nets
        /\ k.fd = n.fd /\ k.eventsMap = n.eventsMap /\ k.conn = n.conn /\ k.want = n.want
        /\ k.watched = n.watched /\ k.ready = n.ready
        /\ k.m_connections = n.m_connections \cup {c}
        /\ k.writing = n.writing /\ k.stray = n.stray /\ k.pipe = n.pipe /\ k.tasks = n.tasks
        /\ k.first = n.first /\ k.alive = n.alive /\ k.came = n.came /\ k.sock = n.sock
        /\ k.port = n.port /\ k.backlog = n.backlog
        /\ n.sock = net.sock
        /\ onAccept([OpenSocket(net, c, net.sock[c]) EXCEPT !.backlog = Tail(@)], c) = m
    BY <1>1, <1>2, <2>1, WelcomedIs, Zenon
  <2>4. net' = m
    BY <2>2, <2>3
  <2>5. /\ n.conn = net.conn /\ n.fd = net.fd /\ n.came = net.came /\ n.writing = net.writing
    BY <1>1 DEF Shortened, Nets
  <2> HIDE DEF n, k
  <2>6. /\ Core(n) /\ n \in Nets /\ c \in Objects /\ MapInv(n)
        /\ BytesInv(n, c) /\ StatusInv(n, c) /\ SocketInv(n, c)
    BY <2>1 DEF Inv, Core, Objects
  <2>7. /\ MapInv(k) /\ k.fd[c] = NoFd /\ FreeFds(k) # {} /\ k.sock[c] \in Sockets
    <3>1. MapInv(k)
      BY <2>3, <2>6 DEF MapInv, Left
    <3>2. FreeFds(k) # {}
      BY <1>2, <2>3, <2>5 DEF FreeFds
    <3>3. k.sock[c] \in Sockets
      BY <2>1, <2>3, <2>6, ConnTypes
    <3> QED BY <2>1, <2>3, <2>5, <3>1, <3>2, <3>3
  <2>8. /\ Opens(k, m, c) /\ m.conn = k.conn /\ m.sock[c] = k.sock[c]
        /\ m.m_connections = k.m_connections /\ m.sock = a.sock
        /\ c \in m.watched /\ "IN" \in Mask(a, c) => c \in m.ready
    BY <2>3, <2>6, <2>7, OpensIs
  <2>9. c # Pipe
    BY <2>1, EventLoopAssumption
  <2>10. "IN" \in Mask(a, c) <=> "IN" \in Mask(n, c)
    <3>1. a.sock[c] = n.sock[c]
      BY <2>3, <2>8
    <3>2. n.sock[c].kind # "listening"
      BY <2>6 DEF SocketInv
    <3> QED BY <2>9, <3>1, <3>2 DEF Mask
  <2> HIDE DEF m, a
  <2>11. Elsewhere(n, m, c)
    <3>1. Elsewhere(k, m, c)
      BY <2>8 DEF Opens
    <3>2. \A d \in Conns : d # c => (d \in k.m_connections <=> d \in n.m_connections)
      BY <2>3
    <3> QED BY <2>3, <3>1, <3>2 DEF Elsewhere
  <2>12. Opens(n, m, c)
    BY <2>3, <2>8, <2>11 DEF Opens
  <2>13. m.conn = n.conn /\ m.sock[c] = n.sock[c] /\ m.fd[c] # NoFd /\ n.stray \subseteq m.stray
         /\ m.came = n.came /\ m.writing = n.writing
    BY <2>3, <2>8, <2>11, <2>12 DEF Elsewhere, Opens
  <2>14. BytesInv(m, c) /\ StatusInv(m, c) /\ SocketInv(m, c)
    <3>1. BytesInv(m, c)
      BY <2>6, <2>13 DEF BytesInv
    <3>2. StatusInv(m, c)
      BY <2>1, <2>3, <2>5, <2>6, <2>13 DEF StatusInv
    <3>3. SocketInv(m, c)
      BY <2>6, <2>13 DEF SocketInv, Udp
    <3> QED BY <3>1, <3>2, <3>3
  <2>15. FollowsBut(n, m, c)
    <3>1. /\ ~n.conn[c].m_closed /\ ~m.conn[c].m_closed /\ m.conn[c].kind = "accepted" /\ c \in m.came
      BY <2>1, <2>5, <2>13
    <3> QED BY <2>1, <2>6, <2>12, <2>14, <3>1, OpensFollows
  <2>16. Fresh(n, c)
    BY <2>1, <2>5, <2>6 DEF StatusInv
  <2>17. c \in m.watched => NoticedIn(m, batch, c) /\ NoticedOut(m, batch, c)
    <3>1. NoticedOut(m, batch, c)
      BY <2>13, <2>16 DEF NoticedOut, Fresh
    <3>2. ASSUME c \in m.watched, m.sock[c].unread > 0 \/ Owed(m, c)
          PROVE  c \in m.ready
      <4>1. ~Udp(n, c)
        BY <2>1, <2>5 DEF Udp
      <4>2. n.sock[c].unread > 0 \/ Owed(n, c)
        BY <2>13, <3>2 DEF Gone, Owed, Pending
      <4>3. "IN" \in Mask(n, c)
        BY <2>1, <2>6, <4>1, <4>2, SomethingToRead
      <4> QED BY <2>8, <2>10, <3>2, <4>3
    <3> QED BY <3>1, <3>2 DEF NoticedIn
  <2>18. Noticed(m, batch)
    <3>1. Noticed(n, batch)
      BY <2>1 DEF Inv
    <3> QED BY <2>6, <2>11, <2>17, <3>1, OpensNoticed
  <2>19. TasksInv(m, running \o m.tasks)
    <3>1. TasksInv(n, running \o n.tasks)
      BY <2>1 DEF Inv
    <3>2. NotStarted(n, running \o n.tasks, c)
      BY <2>1, <2>5, <2>6, <3>1, StartedAlready
    <3>3. m.tasks = n.tasks
      BY <2>15 DEF FollowsBut
    <3> QED BY <2>6, <2>15, <3>1, <3>2, <3>3, ButTasks
  <2>20. /\ WritingInv(m) /\ m.writing = None
    BY <1>1, <2>5, <2>13 DEF WritingInv
  <2>21. /\ running \in Seq(Tasks) /\ running = <<>> /\ stage \in {"tasks", "dispatch", "accept"}
         /\ m.alive => m.fd[Acceptor] # NoFd
    <3>1. m.fd[Acceptor] = n.fd[Acceptor] /\ n.fd[Acceptor] = net.fd[Acceptor]
      BY <2>1, <2>5, <2>15, EventLoopAssumption DEF FollowsBut
    <3> QED BY <1>1, <3>1 DEF StageInv
  <2>22. Inv(m, batch, stage, running)
    BY <2>1, <2>15, <2>18, <2>19, <2>20, <2>21, ButInv, Zenon
  <2> QED BY <1>1, <2>2, <2>4, <2>22
<1>3. CASE ~takes
  <2>1. stage' = "dispatch" /\ (net' = net \/ net' = AcceptorOnClose(net))
    BY <1>3 DEF Accept
  <2>2. CASE net' = net
    <3>1. WakeInv(net, batch, "dispatch") /\ StageInv(net, "dispatch", running)
      BY <1>1 DEF Inv, WakeInv, StageInv
    <3>2. Inv(net, batch, "dispatch", running)
      BY <3>1 DEF Inv
    <3> QED BY <1>1, <2>1, <2>2, <3>2
  <2>3. CASE net' = AcceptorOnClose(net)
    <3>1. net.fd[Acceptor] # NoFd /\ stage # "tasks"
      BY <1>1 DEF StageInv
    <3>2. Inv(AcceptorOnClose(net), batch, "dispatch", running)
      BY <1>1, <3>1, ReopenedInv
    <3> QED BY <1>1, <2>1, <2>3, <3>2
  <2> QED BY <2>1, <2>2, <2>3
<1> QED BY <1>2, <1>3

(* One turn of onWrite.                                                      *)
LEMMA WriteStep ==
  ASSUME Inv(net, batch, stage, running), Write
  PROVE  Inv(net', batch', stage', running')
<1> DEFINE c == net.writing
<1>1. /\ Core(net) /\ WritingInv(net) /\ Noticed(net, batch) /\ net \in Nets
      /\ batch' = batch /\ stage' = stage /\ running' = running /\ c # None /\ stage = "dispatch"
  BY DEF Inv, Write, StageInv, Core
<1>2. c \in Conns
  BY <1>1 DEF Nets
<1>3. net' \in IF Udp(net, c) THEN UdpWriteStep(net, c)
               ELSE IF net.sock[c].kind = "reset" THEN {[net EXCEPT !.alive = FALSE]}
               ELSE writev(net, c)
  BY Zenon DEF Write
<1>4. Follows(net, net') /\ Noticed(net', batch) /\ WritingInv(net')
  BY <1>1, <1>2, <1>3, WriteFollows
<1>5. Inv(net', batch, "dispatch", running)
  BY <1>1, <1>4, FollowsInv
<1> QED BY <1>1, <1>5

-----------------------------------------------------------------------------
(* The steps of the loop.                                                    *)

(* Doing nothing.                                                            *)
LEMMA HandledSelf ==
  ASSUME NEW n, Core(n)
  PROVE  Handled(n, n) /\ Follows(n, n)
<1>1. n \in Nets
  BY DEF Core
<1> QED BY <1>1, HistoryHandled, HandledFollows

(* An event of nobody's connection.                                          *)
LEMMA PassedOver ==
  ASSUME NEW n, Core(n), n.writing = None, NEW b, BatchInv(n, b), Noticed(n, b), NEW e \in b,
         e.of \notin Conns \/ n.eventsMap[e.fd] \notin Conns
  PROVE  Noticed(n, b \ {e})
<1>1. Handled(n, n)
  BY HandledSelf
<1>2. ASSUME NEW d \in Conns, d \in n.watched
      PROVE  NoticedIn(n, b \ {e}, d) /\ NoticedOut(n, b \ {e}, d)
  <2>1. e.of # d \/ n.eventsMap[e.fd] # d
    OBVIOUS
  <2> QED BY <1>1, <1>2, <2>1, OthersNoticed
<1> QED BY <1>2 DEF Noticed

(* One wakeup is read.                                                       *)
Drawn(n) == [n EXCEPT !.pipe = IF @ > 0 THEN @ - 1 ELSE 0]

(* PipeEvent::onRead handles the pipe's event.                               *)
LEMMA DrawnInv ==
  ASSUME NEW n, NEW b, NEW r, Inv(n, b, "dispatch", r), n.writing = None, NEW e \in b, e.of = Pipe
  PROVE  Inv(Drawn(n), b \ {e}, "dispatch", r)
<1> DEFINE p == IF n.pipe > 0 THEN n.pipe - 1 ELSE 0
           a == Drawn(n)
           d == b \ {e}
<1>1. /\ Core(n) /\ n \in Nets /\ BatchInv(n, b) /\ Noticed(n, b) /\ WakeInv(n, b, "dispatch")
      /\ n.ready \subseteq n.watched /\ WritingInv(n) /\ StageInv(n, "dispatch", r)
      /\ TasksInv(n, r \o n.tasks) /\ n.pipe \in Nat
  BY DEF Inv, Core, MapInv, Nets
<1>2. p \in Nat /\ (p > 0 => n.pipe > 0) /\ p \in 0 .. PipeRoom /\ p # PipeRoom
  BY <1>1, EventLoopAssumption DEF WakeInv
<1>3. a = [n EXCEPT !.pipe = p]
  BY <1>1 DEF Drawn, Nets
<1> HIDE DEF p, a
<1>4. /\ a \in Nets /\ SameObjects(n, a) /\ a.pipe = p /\ a.tasks = n.tasks /\ a.alive = n.alive
      /\ a.watched = n.watched /\ a.ready = n.ready /\ a.want = n.want /\ a.first = n.first
  <2>1. /\ a.fd = n.fd /\ a.eventsMap = n.eventsMap /\ a.sock = n.sock /\ a.backlog = n.backlog
        /\ a.conn = n.conn /\ a.m_connections = n.m_connections /\ a.came = n.came
        /\ a.writing = n.writing /\ a.stray = n.stray /\ a.tasks = n.tasks /\ a.alive = n.alive
        /\ a.watched = n.watched /\ a.ready = n.ready /\ a.want = n.want /\ a.first = n.first
    BY <1>1, <1>3 DEF Nets
  <2>2. a \in Nets /\ a.pipe = p
    BY <1>1, <1>2, <1>3, Zenon DEF Nets
  <2> QED BY <1>1, <2>1, <2>2 DEF SameObjects
<1>5. /\ Core(a) /\ WritingInv(a) /\ (Noticed(n, d) => Noticed(a, d))
      /\ (BatchInv(n, d) => BatchInv(a, d)) /\ \A t : TaskOK(n, t) => TaskOK(a, t)
  BY <1>1, <1>4, SameCarries
<1>6. Noticed(n, d)
  <2>1. e.of \notin Conns
    BY EventLoopAssumption
  <2> QED BY <1>1, <2>1, PassedOver
<1>7. BatchInv(n, d)
  BY <1>1 DEF BatchInv
<1>8. TasksInv(a, r \o a.tasks)
  BY <1>1, <1>4, <1>5, Zenon DEF TasksInv
<1>9. WakeInv(a, d, "dispatch")
  BY <1>1, <1>2, <1>4 DEF WakeInv
<1>10. StageInv(a, "dispatch", r)
  BY <1>1, <1>4 DEF StageInv, SameObjects
<1>11. Inv(a, d, "dispatch", r)
  BY <1>5, <1>6, <1>7, <1>8, <1>9, <1>10 DEF Inv
<1> QED BY <1>11 DEF a

(* One event of the batch is handled, whosever it is.                        *)
LEMMA DispatchStep ==
  ASSUME Inv(net, batch, stage, running), Dispatch
  PROVE  Inv(net', batch', stage', running')
<1>1. /\ Core(net) /\ net \in Nets /\ MapInv(net) /\ BatchInv(net, batch) /\ Noticed(net, batch)
      /\ WritingInv(net) /\ running' = running /\ stage = "dispatch" /\ net.writing = None
  BY DEF Inv, Dispatch, Free, Core
<1>2. PICK e \in batch :
        LET o == IF e.of = Pipe THEN Pipe ELSE net.eventsMap[e.fd]
        IN  /\ batch' = batch \ {e}
            /\ stage' = IF o = Acceptor /\ "IN" \in e.events /\ "ERR" \notin e.events
                         THEN "accept" ELSE stage
            /\ \/ o = Pipe /\ net' = ReadPipe(net)
               \/ o = None /\ UNCHANGED net
               \/ /\ o = Acceptor
                  /\ net' = IF "HUP" \in e.events /\ {"IN", "ERR"} \cap e.events = {}
                            THEN AcceptorOnClose(net) ELSE net
               \/ o \in Conns /\ net' \in Handle(net, o, e)
  BY Zenon DEF Dispatch
<1> DEFINE o == IF e.of = Pipe THEN Pipe ELSE net.eventsMap[e.fd]
           d == batch \ {e}
<1>3. /\ Acceptor \notin Conns /\ Acceptor # Pipe /\ Pipe \notin Conns /\ None \notin Conns
      /\ None # Acceptor /\ None # Pipe
  BY EventLoopAssumption
<1>4. e.of # Pipe => e.fd \in Fds /\ e.fd # NoFd /\ net.eventsMap[e.fd] # Pipe
  <2>1. e.of # Pipe => e.fd \in Fds
    BY <1>1 DEF BatchInv
  <2>2. \A f \in Fds : f # NoFd /\ net.eventsMap[f] \in Objects \cup {None}
    BY <1>1, EventLoopAssumption DEF Nets, NoFd
  <2> QED BY <1>3, <2>1, <2>2 DEF Objects
<1>5. d \in SUBSET batch /\ batch' = d
  BY <1>2
<1>6. CASE o = Pipe
  <2>1. e.of = Pipe
    BY <1>4, <1>6
  <2>2. net' = Drawn(net) /\ stage' = "dispatch"
    BY <1>1, <1>2, <1>3, <2>1 DEF ReadPipe, Drawn
  <2>3. Inv(Drawn(net), d, "dispatch", running)
    BY <1>1, <2>1, DrawnInv
  <2> QED BY <1>1, <1>5, <2>2, <2>3
<1>7. CASE o = None
  <2>1. e.of # Pipe /\ net.eventsMap[e.fd] = None
    BY <1>3, <1>7
  <2>2. net' = net /\ stage' = "dispatch"
    BY <1>1, <1>2, <1>3, <1>7
  <2>3. Noticed(net, d)
    BY <1>1, <1>3, <2>1, PassedOver
  <2>4. Follows(net, net)
    BY <1>1, HandledSelf
  <2>5. Inv(net, d, "dispatch", running)
    BY <1>1, <1>5, <2>1, <2>3, <2>4, FollowsInv
  <2> QED BY <1>1, <1>5, <2>2, <2>5
<1>8. CASE o = Acceptor
  <2>1. e.of # Pipe /\ net.eventsMap[e.fd] = Acceptor
    BY <1>3, <1>8
  <2>2. net.fd[Acceptor] # NoFd
    <3>1. net.fd[Acceptor] = e.fd
      BY <1>1, <1>3, <1>4, <2>1 DEF MapInv, Left, Objects
    <3> QED BY <1>4, <2>1, <3>1
  <2>3. Noticed(net, d)
    BY <1>1, <1>3, <2>1, PassedOver
  <2>4. /\ stage' = IF "IN" \in e.events /\ "ERR" \notin e.events THEN "accept" ELSE "dispatch"
        /\ net' = IF "HUP" \in e.events /\ {"IN", "ERR"} \cap e.events = {}
                  THEN AcceptorOnClose(net) ELSE net
    BY <1>1, <1>2, <1>3, <1>8
  <2>5. CASE "HUP" \in e.events /\ {"IN", "ERR"} \cap e.events = {}
    <3>1. stage' = "dispatch" /\ net' = AcceptorOnClose(net)
      BY <2>4, <2>5
    <3>2. Inv(AcceptorOnClose(net), d, "dispatch", running)
      BY <1>1, <1>5, <2>1, <2>2, <2>3, ReopenedInv
    <3> QED BY <1>1, <1>5, <3>1, <3>2
  <2>6. CASE ~("HUP" \in e.events /\ {"IN", "ERR"} \cap e.events = {})
    <3>1. net' = net /\ stage' \in {"dispatch", "accept"}
      BY <2>4, <2>6
    <3>2. Follows(net, net)
      BY <1>1, HandledSelf
    <3>3. \A h \in {"dispatch", "accept"} : Inv(net, d, h, running)
      BY <1>1, <1>5, <2>1, <2>2, <2>3, <3>2, FollowsInv
    <3> QED BY <1>1, <1>5, <3>1, <3>3
  <2> QED BY <2>5, <2>6
<1>9. CASE o \in Conns
  <2> DEFINE c == net.eventsMap[e.fd]
  <2>1. e.of # Pipe /\ c \in Conns /\ o = c
    BY <1>3, <1>9
  <2>2. net' \in Handle(net, c, e) /\ stage' = "dispatch"
    BY <1>1, <1>2, <1>3, <2>1
  <2> HIDE DEF d
  <2>3. Outcome(net, batch \ {e}, c, net')
    BY <1>1, <2>1, <2>2, HandleOutcome, Zenon
  <2>4. Outcome(net, d, c, net')
    BY <2>3 DEF d
  <2>5. \A x \in batch : x.of = Pipe => x \in d
    BY <2>1 DEF d
  <2>6. CASE Handled(net, net')
    <3>1. Follows(net, net')
      BY <2>6, HandledFollows
    <3>2. Noticed(net', d) /\ net'.writing = None /\ WritingInv(net')
      BY <1>1, <2>4, <2>6 DEF Outcome, Handled, Aside, WritingInv
    <3>3. Inv(net', d, "dispatch", running)
      BY <1>1, <1>5, <2>5, <3>1, <3>2, FollowsInv
    <3> QED BY <1>1, <1>5, <2>2, <3>3
  <2>7. CASE \E h : /\ Handled(net, h) /\ net' = Turn(h, c) /\ h.fd[c] # NoFd
                    /\ ~h.conn[c].m_closed
                    /\ h.conn[c].kind = "client" => h.conn[c].m_status = "connected"
    <3>1. PICK h : /\ Handled(net, h) /\ net' = Turn(h, c) /\ h.fd[c] # NoFd
                   /\ ~h.conn[c].m_closed
                   /\ h.conn[c].kind = "client" => h.conn[c].m_status = "connected"
      BY <2>7
    <3>2. Core(h) /\ Follows(net, h)
      BY <3>1, HandledFollows DEF Handled
    <3>3. Follows(h, Turn(h, c))
      BY <2>1, <3>2, TurnFollows
    <3>4. Follows(net, net')
      BY <3>1, <3>2, <3>3, FollowsTrans
    <3>5. net'.writing = c /\ net'.conn = h.conn /\ net'.fd = h.fd
      BY <2>1, <3>1, <3>2, TurnIs
    <3>6. WritingInv(net')
      BY <3>1, <3>5 DEF WritingInv
    <3>7. Noticed(net', d)
      BY <2>4 DEF Outcome
    <3>8. Inv(net', d, "dispatch", running)
      BY <1>1, <1>5, <2>5, <3>4, <3>6, <3>7, FollowsInv
    <3> QED BY <1>1, <1>5, <2>2, <3>8
  <2> QED BY <2>4, <2>6, <2>7, Zenon DEF Outcome
<1> QED BY <1>2, <1>6, <1>7, <1>8, <1>9

(* What poll says of a connection.                                           *)
LEMMA ConnMask ==
  ASSUME NEW n \in Nets, NEW c \in Conns, SocketInv(n, c)
  PROVE  /\ "IN" \in Mask(n, c) <=>
              \/ n.sock[c].kind \in {"open", "datagram"} /\ (n.sock[c].unread > 0 \/ n.sock[c].fin)
              \/ n.sock[c].kind = "reset"
         /\ "OUT" \in Mask(n, c) <=>
              \/ n.sock[c].kind \in {"open", "datagram"} /\ n.sock[c].unsent < Room
              \/ n.sock[c].kind = "reset"
         /\ "ERR" \in Mask(n, c) <=>
              n.sock[c].kind \in {"open", "datagram", "reset"} /\ Pending(n.sock[c])
         /\ "HUP" \in Mask(n, c) <=> n.sock[c].kind = "reset"
<1> DEFINE s == n.sock[c]
           k == n.sock[c].kind
<1>1. c # Pipe /\ s \in Sockets
  BY ConnTypes, EventLoopAssumption
<1>2. Mask(n, c) = CASE k = "fresh" -> {"OUT", "HUP"}
          [] k = "listening" -> When(n.backlog # <<>>, "IN")
          [] k \in {"open", "datagram"} ->
                When(s.unread > 0 \/ s.fin, "IN") \cup When(s.unsent < Room, "OUT")
                    \cup When(Pending(s), "ERR")
          [] k = "reset" -> {"IN", "OUT", "HUP"} \cup When(Pending(s), "ERR")
          [] OTHER -> {}
  BY <1>1, Zenon DEF Mask
<1>3. k \in {"none", "connecting", "open", "datagram", "reset"}
  BY <1>1 DEF SocketInv, Sockets
<1>4. CASE k \in {"open", "datagram"}
  <2>1. Mask(n, c) = When(s.unread > 0 \/ s.fin, "IN") \cup When(s.unsent < Room, "OUT")
                      \cup When(Pending(s), "ERR")
    BY <1>1, <1>2, <1>4, SMT
  <2> QED BY <1>4, <2>1 DEF When
<1>5. CASE k = "reset"
  <2>1. Mask(n, c) = {"IN", "OUT", "HUP"} \cup When(Pending(s), "ERR")
    BY <1>1, <1>2, <1>5, SMT
  <2> QED BY <1>5, <2>1 DEF When
<1>6. CASE k \in {"none", "connecting"}
  <2>1. Mask(n, c) = {}
    BY <1>1, <1>2, <1>6, SMT
  <2> QED BY <1>6, <2>1
<1> QED BY <1>3, <1>4, <1>5, <1>6

(* What poll says of a pipe that is not empty.                               *)
LEMMA PipeMask ==
  ASSUME NEW n \in Nets, n.pipe > 0
  PROVE  Mask(n, Pipe) = {"IN"}
<1>1. Mask(n, Pipe) = When(n.pipe > 0, "IN")
  BY DEF Mask
<1> QED BY <1>1 DEF When

-----------------------------------------------------------------------------
(* epoll_wait reports what is ready, and forgets it.                         *)
Asleep(n) == [n EXCEPT !.ready = {}]

(* What epoll_wait returns is sound.                                         *)
LEMMA ReportedBatch ==
  ASSUME NEW n, Core(n)
  PROVE  BatchInv(n, epoll_wait(n))
<1>1. n \in Nets /\ MapInv(n) /\ n.ready \subseteq Objects \cup {Pipe}
  BY DEF Core, Nets
<1> SUFFICES ASSUME NEW o \in n.ready, Reported(n, o) # {},
                    NEW e, e = [fd |-> IF o = Pipe THEN NoFd ELSE n.fd[o], of |-> o,
                                events |-> Reported(n, o)]
             PROVE  /\ e \in Events
                    /\ e.of # Pipe => e.fd \in Fds
                    /\ e.of \in Conns =>
                         /\ n.fd[e.of] = e.fd \/ n.conn[e.of].m_closed
                         /\ "ERR" \in e.events => Gone(n, e.of) \/ n.conn[e.of].m_closed
                         /\ "HUP" \in e.events => "IN" \in e.events
                         /\ ("IN" \in e.events /\ "ERR" \notin e.events /\ "OUT" \notin e.events
                            /\ n.conn[e.of].kind = "client") =>
                               n.conn[e.of].m_status # "connecting" \/ n.conn[e.of].m_closed
  BY DEF BatchInv, epoll_wait
<1>2. /\ e.of = o /\ e.events = Reported(n, o)
      /\ o # Pipe => e.fd = n.fd[o] /\ o \in Objects
      /\ o = Pipe => e.fd = NoFd
  BY <1>1
<1>3. o # Pipe => n.fd[o] \in Fds /\ "IN" \in n.want[o]
  <2>1. o # Pipe => o \in Objects /\ o \in n.watched
    BY <1>1 DEF MapInv
  <2>2. o # Pipe => n.fd[o] # NoFd /\ "IN" \in n.want[o]
    BY <1>1, <2>1 DEF MapInv
  <2> QED BY <1>1, <2>1, <2>2, MappedIs
<1>4. e \in Events
  <2>1. n.want[o] \subseteq {"IN", "OUT"}
    BY <1>1 DEF Nets
  <2>2. Reported(n, o) \in SUBSET Flags
    BY <2>1 DEF Reported, Flags
  <2>3. (IF o = Pipe THEN NoFd ELSE n.fd[o]) \in Fds \cup {NoFd} /\ o \in Objects \cup {Pipe}
    BY <1>1, <1>3
  <2> HIDE DEF NoFd
  <2> QED BY <2>2, <2>3 DEF Events
<1>5. ASSUME o \in Conns
      PROVE  /\ "ERR" \in e.events => Gone(n, o)
             /\ "HUP" \in e.events => "IN" \in e.events
             /\ ("IN" \in e.events /\ "ERR" \notin e.events /\ "OUT" \notin e.events
                /\ n.conn[o].kind = "client") =>
                   n.conn[o].m_status # "connecting" \/ n.conn[o].m_closed
  <2>1. o # Pipe /\ SocketInv(n, o) /\ StatusInv(n, o) /\ n.sock[o] \in Sockets
    BY <1>1, <1>5, ConnTypes, EventLoopAssumption DEF Core
  <2>2. /\ "IN" \in Mask(n, o) <=>
              \/ n.sock[o].kind \in {"open", "datagram"} /\ (n.sock[o].unread > 0 \/ n.sock[o].fin)
              \/ n.sock[o].kind = "reset"
        /\ "OUT" \in Mask(n, o) <=>
              \/ n.sock[o].kind \in {"open", "datagram"} /\ n.sock[o].unsent < Room
              \/ n.sock[o].kind = "reset"
        /\ "ERR" \in Mask(n, o) <=>
              n.sock[o].kind \in {"open", "datagram", "reset"} /\ Pending(n.sock[o])
        /\ "HUP" \in Mask(n, o) <=> n.sock[o].kind = "reset"
    BY <1>1, <1>5, <2>1, ConnMask
  <2>3. \A f : f \in e.events <=> f \in Mask(n, o) /\ f \in n.want[o] \cup {"ERR", "HUP"}
    BY <1>2 DEF Reported
  <2>4. "ERR" \in e.events => Gone(n, o)
    BY <2>2, <2>3 DEF Gone, Owed, Pending
  <2>5. "HUP" \in e.events => "IN" \in e.events
    BY <1>3, <2>1, <2>2, <2>3
  <2>6. ASSUME "IN" \in e.events, "OUT" \notin e.events, n.conn[o].kind = "client",
               n.conn[o].m_status = "connecting"
        PROVE  FALSE
    <3>1. n.fd[o] # NoFd
      BY <1>3, <2>1, EventLoopAssumption DEF NoFd
    <3>2. n.sock[o].unsent = 0 /\ "OUT" \in n.want[o]
      BY <2>1, <2>6, <3>1 DEF StatusInv
    <3>3. "OUT" \notin Mask(n, o) /\ "IN" \in Mask(n, o)
      BY <2>3, <2>6, <3>2
    <3>4. 0 < Room
      <4>1. Room \in Nat \ {0}
        BY EventLoopAssumption
      <4> QED BY <4>1
    <3> QED BY <2>2, <3>2, <3>3, <3>4
  <2> QED BY <2>4, <2>5, <2>6
<1>6. e.of # Pipe => e.fd \in Fds
  BY <1>2, <1>3
<1>7. e.of \in Conns => n.fd[e.of] = e.fd
  <2>1. Pipe \notin Conns
    BY EventLoopAssumption
  <2> QED BY <1>2, <2>1
<1>8. e.of \in Conns =>
        /\ "ERR" \in e.events => Gone(n, e.of)
        /\ "HUP" \in e.events => "IN" \in e.events
        /\ ("IN" \in e.events /\ "ERR" \notin e.events /\ "OUT" \notin e.events
           /\ n.conn[e.of].kind = "client") =>
              n.conn[e.of].m_status # "connecting" \/ n.conn[e.of].m_closed
  BY <1>2, <1>5
<1> QED BY <1>4, <1>6, <1>7, <1>8

(* And it holds everything that was still to be reported.                    *)
LEMMA ReportedNotices ==
  ASSUME NEW n, Core(n), n.writing = None, Noticed(n, {})
  PROVE  Noticed(Asleep(n), epoll_wait(n))
<1> DEFINE a == Asleep(n)
           w == epoll_wait(n)
<1>1. n \in Nets /\ MapInv(n)
  BY DEF Core
<1>2. /\ a.watched = n.watched /\ a.want = n.want /\ a.sock = n.sock /\ a.conn = n.conn
      /\ a.writing = n.writing
  BY <1>1 DEF Asleep, Nets
<1> SUFFICES ASSUME NEW c \in Conns, c \in n.watched
             PROVE  NoticedIn(a, w, c) /\ NoticedOut(a, w, c)
  BY <1>2 DEF Noticed
<1>3. /\ NoticedIn(n, {}, c) /\ NoticedOut(n, {}, c) /\ SocketInv(n, c) /\ c # Pipe
      /\ "IN" \in n.want[c] /\ n.sock[c] \in Sockets /\ c \in Objects
  BY <1>1, ConnTypes, EventLoopAssumption DEF Noticed, Core, MapInv, Objects
<1>4. ASSUME NEW f \in Mask(n, c), f \in n.want[c] \cup {"ERR", "HUP"}, c \in n.ready
      PROVE  \E e \in w : e.of = c /\ f \in e.events
  <2> DEFINE e == [fd |-> IF c = Pipe THEN NoFd ELSE n.fd[c], of |-> c, events |-> Reported(n, c)]
  <2>1. f \in Reported(n, c)
    BY <1>4 DEF Reported
  <2>2. e \in w
    BY <1>4, <2>1 DEF epoll_wait
  <2>3. e.of = c /\ f \in e.events
    BY <2>1
  <2> QED BY <2>2, <2>3
<1> HIDE DEF a, w
<1>5. NoticedIn(a, w, c)
  <2> SUFFICES ASSUME n.sock[c].unread > 0 \/ Owed(n, c)
               PROVE  \E e \in w : e.of = c /\ ("IN" \in e.events \/ "ERR" \in e.events)
    BY <1>2 DEF NoticedIn, Gone, Owed, Pending
  <2>1. c \in n.ready
    BY <1>3, EventLoopAssumption DEF NoticedIn
  <2>2. "IN" \in Mask(n, c) \/ "ERR" \in Mask(n, c)
    BY <1>1, <1>3, ConnMask DEF SocketInv, Gone, Owed, Pending
  <2> QED BY <1>3, <1>4, <2>1, <2>2
<1>6. NoticedOut(a, w, c)
  <2> SUFFICES ASSUME n.conn[c].m_iovecList # <<>>
               PROVE  /\ "OUT" \in n.want[c]
                      /\ Space(n, c) > 0 => \E e \in w : e.of = c /\ "OUT" \in e.events
    BY <1>2 DEF NoticedOut, Space, Pending
  <2>1. "OUT" \in n.want[c] /\ (Space(n, c) > 0 => c \in n.ready)
    BY <1>3, EventLoopAssumption DEF NoticedOut
  <2>2. Space(n, c) > 0 => "OUT" \in Mask(n, c)
    BY <1>1, RoomForMore
  <2> QED BY <1>4, <2>1, <2>2
<1> QED BY <1>5, <1>6

(* The loop waits and is woken.                                              *)
LEMMA AsleepInv ==
  ASSUME NEW n, NEW b, NEW r, Inv(n, b, "tasks", r), n.writing = None, r = <<>>
  PROVE  Inv(Asleep(n), epoll_wait(n), "dispatch", r)
<1> DEFINE a == Asleep(n)
           w == epoll_wait(n)
<1>1. /\ n \in Nets /\ Core(n) /\ MapInv(n) /\ ServerInv(n) /\ WakeInv(n, b, "tasks") /\ b = {}
      /\ Noticed(n, b) /\ TasksInv(n, r \o n.tasks) /\ StageInv(n, "tasks", r)
  BY DEF Inv, Core, WakeInv
<1>2. /\ a \in Nets /\ a.ready = {}
      /\ a.fd = n.fd /\ a.eventsMap = n.eventsMap /\ a.conn = n.conn /\ a.want = n.want
      /\ a.watched = n.watched /\ a.m_connections = n.m_connections /\ a.backlog = n.backlog
      /\ a.writing = n.writing /\ a.stray = n.stray /\ a.pipe = n.pipe /\ a.tasks = n.tasks
      /\ a.first = n.first /\ a.alive = n.alive /\ a.came = n.came /\ a.sock = n.sock
  BY <1>1, Zenon DEF Nets, Asleep
<1>3. Noticed(a, w)
  BY <1>1, ReportedNotices
<1>4. BatchInv(n, w)
  BY <1>1, ReportedBatch
<1>5. Pipe \in n.ready /\ n.pipe > 0 /\ "IN" \in n.want[Pipe] => \E e \in w : e.of = Pipe
  <2> SUFFICES ASSUME Pipe \in n.ready, n.pipe > 0, "IN" \in n.want[Pipe]
               PROVE  \E e \in w : e.of = Pipe
    OBVIOUS
  <2> DEFINE e == [fd |-> IF Pipe = Pipe THEN NoFd ELSE n.fd[Pipe], of |-> Pipe,
                   events |-> Reported(n, Pipe)]
  <2>1. Reported(n, Pipe) # {}
    BY <1>1, PipeMask DEF Reported
  <2>2. e \in w
    BY <2>1 DEF epoll_wait
  <2> QED BY <2>2
<1> HIDE DEF a, w
<1>6. ASSUME NEW c \in Conns
      PROVE  BytesInv(a, c) /\ StatusInv(a, c) /\ SocketInv(a, c)
  <2>1. BytesInv(n, c) /\ StatusInv(n, c) /\ SocketInv(n, c)
    BY <1>1 DEF Core
  <2> QED BY <1>2, <2>1 DEF BytesInv, StatusInv, Fresh, SocketInv, Udp
<1>7. MapInv(a) /\ ServerInv(a)
  BY <1>1, <1>2 DEF MapInv, ServerInv, Left
<1>8. Core(a) /\ WritingInv(a)
  BY <1>2, <1>6, <1>7 DEF Core, WritingInv
<1>9. BatchInv(a, w)
  BY <1>2, <1>4 DEF BatchInv, Gone, Owed, Pending
<1>10. TasksInv(a, r \o a.tasks)
  <2>1. \A t : TaskOK(n, t) => TaskOK(a, t)
    BY <1>2 DEF TaskOK
  <2> QED BY <1>1, <1>2, <2>1 DEF TasksInv
<1>11. WakeInv(a, w, "dispatch")
  <2>1. PipeRoom \in Nat \ {0}
    BY EventLoopAssumption
  <2> QED BY <1>1, <1>2, <1>5, <2>1 DEF WakeInv
<1>12. StageInv(a, "dispatch", r)
  BY <1>1, <1>2 DEF StageInv
<1> QED BY <1>3, <1>8, <1>9, <1>10, <1>11, <1>12 DEF Inv, a, w

(* With the timeout of idle connections before it.                           *)
LEMMA WaitStep ==
  ASSUME Inv(net, batch, stage, running), Wait
  PROVE  Inv(net', batch', stage', running')
<1>1. /\ Core(net) /\ ServerInv(net) /\ net \in Nets /\ net.writing = None /\ stage = "tasks"
      /\ running = <<>> /\ running' = running /\ stage' = "dispatch"
      /\ Noticed(net, batch)
  BY DEF Inv, Core, Wait, Waits, Free
<1>2. PICK n \in OnTimer(net) : batch' = epoll_wait(n) /\ net' = Asleep(n)
  BY Zenon DEF Wait, Asleep
<1>3. Handled(net, n)
  <2>1. CASE n = net
    BY <1>1, <2>1, HandledSelf
  <2>2. CASE \E c \in net.m_connections : n = onClose(net, c, "cause")
    <3>1. PICK c \in net.m_connections : n = onClose(net, c, "cause")
      BY <2>2
    <3>2. c \in Conns /\ net.fd[c] # NoFd
      BY <1>1 DEF ServerInv, Nets
    <3> QED BY <1>1, <3>1, <3>2, onCloseHandled
  <2> QED BY <1>2, <2>1, <2>2 DEF OnTimer
<1>4. Inv(n, batch, "tasks", running) /\ n.writing = None
  <2>1. Follows(net, n) /\ Noticed(n, batch)
    BY <1>1, <1>3, HandledFollows, NoticedCarried
  <2>2. n.writing = None
    BY <1>1, <1>3 DEF Handled, Aside
  <2>3. WritingInv(n)
    BY <2>2 DEF WritingInv
  <2> QED BY <1>1, <2>1, <2>2, <2>3, StaysInv
<1>5. Inv(Asleep(n), epoll_wait(n), "dispatch", running)
  BY <1>1, <1>4, AsleepInv
<1> QED BY <1>1, <1>2, <1>5

(* The queue is taken over whole.                                            *)
LEMMA RunCallbackFunctionsStep ==
  ASSUME Inv(net, batch, stage, running), RunCallbackFunctions
  PROVE  Inv(net', batch', stage', running')
<1> DEFINE none == <<>>
           a == Tasked(net, none)
           w == net.tasks
<1>1. /\ Core(net) /\ net \in Nets /\ WakeInv(net, {}, "dispatch") /\ StageInv(net, "dispatch", running)
      /\ batch = {} /\ batch' = batch /\ running' = w /\ stage' = "tasks" /\ net.writing = None
      /\ net' = a /\ Noticed(net, {}) /\ WritingInv(net) /\ running = <<>>
      /\ TasksInv(net, running \o net.tasks) /\ BatchInv(net, {})
  <2>1. net' = a
    BY DEF RunCallbackFunctions, Tasked
  <2> QED BY <2>1 DEF Inv, RunCallbackFunctions, Free, Core, StageInv
<1>2. w \in Seq(Tasks) /\ none \in Seq(Tasks) /\ w \o none = w /\ running \o net.tasks = w
  BY <1>1 DEF Nets
<1>3. /\ a \in Nets /\ a.tasks = none
      /\ a.fd = net.fd /\ a.eventsMap = net.eventsMap /\ a.sock = net.sock /\ a.backlog = net.backlog
      /\ a.conn = net.conn /\ a.m_connections = net.m_connections /\ a.came = net.came
      /\ a.writing = net.writing /\ a.stray = net.stray /\ a.pipe = net.pipe
      /\ a.first = net.first /\ a.alive = net.alive
      /\ a.watched = net.watched /\ a.ready = net.ready /\ a.want = net.want
  BY <1>1, <1>2, TaskedIs, Zenon
<1> HIDE DEF a
<1>4. SameObjects(net, a)
  <2>1. net.ready \subseteq net.watched
    BY <1>1 DEF Core, MapInv
  <2> QED BY <1>3, <2>1 DEF SameObjects
<1>5. /\ Core(a) /\ WritingInv(a) /\ BatchInv(a, {}) /\ Noticed(a, {})
      /\ \A t : TaskOK(net, t) => TaskOK(a, t)
  BY <1>1, <1>4, SameCarries
<1>6. TasksInv(a, w \o a.tasks)
  BY <1>1, <1>2, <1>3, <1>5 DEF TasksInv
<1>7. WakeInv(a, {}, "tasks")
  BY <1>1, <1>3 DEF WakeInv
<1>8. StageInv(a, "tasks", w)
  BY <1>1, <1>2, <1>3 DEF StageInv
<1>9. Inv(a, {}, "tasks", w)
  BY <1>5, <1>6, <1>7, <1>8 DEF Inv
<1> QED BY <1>1, <1>9

-----------------------------------------------------------------------------
(* The first task leaves the queue.                                          *)
LEMMA DropFirst ==
  ASSUME NEW n, NEW q, TasksInv(n, q), q # <<>>
  PROVE  /\ TasksInv(n, Tail(q)) /\ TaskOK(n, Head(q))
         /\ Starts(Head(q)) => NotStarted(n, Tail(q), Head(q).on)
<1> DEFINE w == Tail(q)
           t == Head(q)
<1>1. /\ q \in Seq(Tasks) /\ Len(q) \in Nat /\ 1 \in 1 .. Len(q) /\ t = q[1]
      /\ w \in Seq(Tasks) /\ Len(w) = Len(q) - 1
      /\ \A i \in 1 .. Len(w) : w[i] = q[i + 1] /\ i + 1 \in 1 .. Len(q) /\ i + 1 # 1
  BY DEF TasksInv
<1> HIDE DEF w, t
<1>2. TaskOK(n, t)
  BY <1>1 DEF TasksInv
<1>3. TasksInv(n, w)
  <2>1. \A x \in n.first : Starts(x) /\ TaskOK(n, x) /\ \A i \in 1 .. Len(w) : w[i] # x
    BY <1>1 DEF TasksInv
  <2>2. \A i \in 1 .. Len(w) : TaskOK(n, w[i])
    BY <1>1 DEF TasksInv
  <2>3. ASSUME NEW i \in 1 .. Len(w), NEW j \in 1 .. Len(w), Starts(w[i]), w[i] = w[j]
        PROVE  i = j
    <3>1. w[i] = q[i + 1] /\ i + 1 \in 1 .. Len(q) /\ w[j] = q[j + 1] /\ j + 1 \in 1 .. Len(q)
      BY <1>1
    <3>2. i + 1 = j + 1
      BY <2>3, <3>1, Zenon DEF TasksInv
    <3>3. i \in Int /\ j \in Int
      BY <1>1
    <3> QED BY <3>2, <3>3
  <2> QED BY <1>1, <2>1, <2>2, <2>3 DEF TasksInv
<1>4. ASSUME Starts(t)
      PROVE  NotStarted(n, w, t.on)
  <2>1. ASSUME NEW x, TaskOK(n, x), Starts(x), x.on = t.on
        PROVE  x = t
    <3>1. x \in Tasks /\ t \in Tasks
      BY <1>2, <2>1 DEF TaskOK
    <3>2. x.do = t.do
      BY <1>2, <1>4, <2>1 DEF TaskOK, Starts
    <3> QED BY <2>1, <3>1, <3>2 DEF Tasks
  <2>2. \A x \in n.first : x.on # t.on
    <3>1. \A x \in n.first : TaskOK(n, x) /\ Starts(x) /\ x # t
      BY <1>1 DEF TasksInv
    <3> QED BY <2>1, <3>1
  <2>3. ASSUME NEW i \in 1 .. Len(w), Starts(w[i])
        PROVE  w[i].on # t.on
    <3>1. w[i] = q[i + 1] /\ i + 1 \in 1 .. Len(q) /\ i + 1 # 1
      BY <1>1
    <3>2. TaskOK(n, w[i])
      BY <3>1 DEF TasksInv
    <3>3. w[i] # t
      BY <1>1, <1>4, <3>1 DEF TasksInv
    <3> QED BY <2>1, <2>3, <3>2, <3>3
  <2> QED BY <2>2, <2>3 DEF NotStarted
<1> QED BY <1>2, <1>3, <1>4 DEF w, t

(* And has been run.                                                         *)
LEMMA TaskDone ==
  ASSUME NEW n, NEW b, NEW r, Inv(n, b, "tasks", r), r # <<>>, n.writing = None,
         NEW m, NEW x, FollowsBut(n, m, x), Tells(n, m),
         Follows(n, m) \/ (Starts(Head(r)) /\ x = Head(r).on)
  PROVE  Inv(m, b, "tasks", Tail(r))
<1> DEFINE q == r \o n.tasks
           w == Tail(r)
<1>1. /\ Core(n) /\ n \in Nets /\ TasksInv(n, q) /\ r \in Seq(Tasks) /\ Noticed(n, b)
      /\ n.tasks \in Seq(Tasks)
  BY DEF Inv, Core, StageInv, Nets
<1>2. q # <<>> /\ Head(q) = Head(r) /\ Tail(q) = w \o n.tasks /\ w \in Seq(Tasks)
  <2>1. /\ Len(r) \in Nat /\ Len(r) >= 1 /\ Len(n.tasks) \in Nat
        /\ Len(q) = Len(r) + Len(n.tasks) /\ q \in Seq(Tasks)
        /\ w \in Seq(Tasks) /\ Len(w) = Len(r) - 1
    BY <1>1
  <2>2. Head(q) = Head(r) /\ q # <<>>
    BY <1>1, <2>1
  <2>3. Tail(q) = w \o n.tasks
    <3> DEFINE u == Tail(q)
               v == w \o n.tasks
    <3>1. u \in Seq(Tasks) /\ v \in Seq(Tasks) /\ Len(u) = Len(v)
      BY <1>1, <2>1, <2>2
    <3>2. ASSUME NEW i \in 1 .. Len(u) PROVE u[i] = v[i]
      <4>1. u[i] = q[i + 1] /\ Len(u) = Len(q) - 1
        BY <2>1, <2>2
      <4>2. CASE i <= Len(w)
        BY <1>1, <2>1, <4>1, <4>2
      <4>3. CASE i > Len(w)
        BY <1>1, <2>1, <4>1, <4>3
      <4> QED BY <2>1, <4>2, <4>3
    <3> HIDE DEF u, v
    <3>3. u = v
      BY <3>1, <3>2, SeqEqual
    <3> QED BY <3>3 DEF u, v
  <2> QED BY <2>1, <2>2, <2>3
<1> HIDE DEF q, w
<1>3. /\ TasksInv(n, w \o n.tasks)
      /\ Starts(Head(r)) => NotStarted(n, w \o n.tasks, Head(r).on)
  BY <1>1, <1>2, DropFirst, Zenon
<1>4. m.tasks = n.tasks /\ m.first = n.first
  BY DEF FollowsBut
<1>5. TasksInv(m, w \o m.tasks)
  <2>1. CASE Follows(n, m)
    BY <1>1, <1>3, <1>4, <2>1, TasksCarried DEF Follows
  <2>2. CASE Starts(Head(r)) /\ x = Head(r).on
    BY <1>1, <1>3, <1>4, <2>2, ButTasks
  <2> QED BY <2>1, <2>2
<1>6. Noticed(m, b) /\ m.writing = None /\ WritingInv(m)
  BY <1>1 DEF Tells, WritingInv
<1>7. Inv(m, b, "tasks", w)
  BY <1>2, <1>5, <1>6, ButInv
<1> QED BY <1>7 DEF w

(* Each kind of task keeps the invariant.                                    *)
LEMMA RunTaskStep ==
  ASSUME Inv(net, batch, stage, running), RunTask
  PROVE  Inv(net', batch', stage', running')
<1> DEFINE t == Head(running)
           c == t.on
           q == running \o net.tasks
<1>1. /\ Core(net) /\ net \in Nets /\ TasksInv(net, q) /\ running \in Seq(Tasks)
      /\ running # <<>> /\ stage = "tasks" /\ net.writing = None /\ net.tasks \in Seq(Tasks)
      /\ net' \in Done(net, t) /\ running' = Tail(running) /\ stage' = stage /\ batch' = batch
  BY Zenon DEF Inv, Core, StageInv, Nets, RunTask, Free
<1>2. TaskOK(net, t)
  <2>1. Head(q) = t /\ q # <<>>
    BY <1>1
  <2> QED BY <1>1, <2>1, DropFirst, Zenon
<1>3. /\ t.do \in {"open", "connect", "close", "stop", "send"} /\ c \in Objects
      /\ t.do # "open" => c \in Conns
  BY <1>2 DEF TaskOK, Tasks, Objects
<1>4. Done(net, t) =
        CASE t.do = "open" -> {open(net)}
          [] t.do = "close" -> {onClose(net, c, "cause")}
          [] t.do = "stop" -> {UdpStop(net, c)}
          [] t.do = "send" -> {net} \cup Sends(net, c)
          [] t.do = "connect" ->
                IF Udp(net, c) THEN {UdpOpen(net, c)}
                ELSE UNION {ConnectInLoop(net, c, answer) :
                                  answer \in {"refused", "pending", "made"}}
  BY Zenon DEF Done
<1> HIDE DEF t
<1>5. ASSUME Handled(net, net')
      PROVE  FollowsBut(net, net', c) /\ Follows(net, net') /\ Tells(net, net')
  BY <1>5, HandledFollows, FollowsSo, HandledTells
<1>6. /\ FollowsBut(net, net', c) /\ Tells(net, net')
      /\ Follows(net, net') \/ Starts(t)
  <2>1. CASE t.do = "open"
    <3>1. net' = open(net)
      BY <1>1, <1>4, <2>1, SMT
    <3>2. net.fd[Acceptor] = NoFd /\ c = Acceptor /\ Starts(t)
      BY <1>2, <2>1 DEF TaskOK, Starts
    <3>3. FollowsBut(net, net', Acceptor) /\ Keeps(net, net')
      BY <1>1, <3>1, <3>2, openFollows
    <3> QED BY <3>2, <3>3 DEF Keeps, Tells
  <2>2. CASE t.do = "close"
    <3>1. net' = onClose(net, c, "cause")
      BY <1>1, <1>4, <2>2, SMT
    <3>2. net.fd[c] # NoFd \/ net.conn[c].m_closed
      BY <1>2, <2>2 DEF TaskOK, Starts
    <3>3. Handled(net, net')
      BY <1>1, <1>3, <2>2, <3>1, <3>2, onCloseHandled
    <3> QED BY <1>5, <3>3
  <2>3. CASE t.do = "stop"
    <3> DEFINE a == removeEvent(net, c)
    <3>1. net' = onClose(a, c, "cause")
      BY <1>1, <1>4, <2>3, SMT DEF UdpStop
    <3>2. /\ net.fd[c] # NoFd \/ net.conn[c].m_closed
          /\ net.conn[c].kind = "udpserver" /\ c \in Conns
      BY <1>2, <1>3, <2>3 DEF TaskOK, Starts
    <3>3. c \notin net.m_connections
      BY <1>1, <3>2 DEF Core, ServerInv
    <3>4. /\ Follows(net, a) /\ a.conn = net.conn /\ a.fd = net.fd /\ a.writing = net.writing
          /\ \A b : Noticed(net, b) => Noticed(a, b)
      BY <1>1, <1>3, <3>3, RemovedFollows
    <3> HIDE DEF a
    <3>5. Core(a)
      BY <3>4 DEF Follows
    <3>6. Handled(a, net')
      BY <3>1, <3>2, <3>4, <3>5, onCloseHandled
    <3>7. Follows(net, net') /\ Tells(a, net') /\ Tells(net, a)
      BY <3>4, <3>6, HandledFollows, FollowsTrans, HandledTells DEF Tells
    <3> QED BY <3>7, FollowsSo, TellsTrans
  <2>4. CASE t.do = "send"
    <3>1. net' \in {net} \cup Sends(net, c)
      BY <1>1, <1>4, <2>4, SMT
    <3>2. Sendable(net, c) \/ net.conn[c].m_closed
      BY <1>2, <2>4 DEF TaskOK, Starts, Sendable
    <3>3. c \in Conns
      BY <1>3, <2>4
    <3>4. Handled(net, net')
      <4>1. CASE net' = net
        BY <1>1, <4>1, HandledSelf
      <4>2. CASE net' \in Sends(net, c)
        BY <1>1, <3>2, <3>3, <4>2, SendsHandled
      <4> QED BY <3>1, <4>1, <4>2
    <3> QED BY <1>5, <3>4
  <2>5. CASE t.do = "connect"
    <3>1. net' \in IF Udp(net, c) THEN {UdpOpen(net, c)}
                   ELSE UNION {ConnectInLoop(net, c, answer) :
                                  answer \in {"refused", "pending", "made"}}
      BY <1>1, <1>4, <2>5, SMT
    <3>2. /\ Unstarted(net, c) /\ c \in Conns /\ Starts(t)
          /\ net.conn[c].kind \notin {"none", "accepted"}
      BY <1>2, <1>3, <2>5 DEF TaskOK, Starts, Unstarted
    <3>3. CASE Udp(net, c)
      <4>1. net' = UdpOpen(net, c)
        BY <3>1, <3>3
      <4> QED BY <1>1, <3>2, <3>3, <4>1, UdpOpenFollows
    <3>4. CASE ~Udp(net, c)
      <4>1. PICK answer \in {"refused", "pending", "made"} :
               net' \in ConnectInLoop(net, c, answer)
        BY <3>1, <3>4
      <4>2. net.conn[c].kind \in Kinds
        BY <1>1, <3>2, ConnTypes DEF Connections
      <4>3. net.conn[c].kind = "client"
        BY <3>2, <3>4, <4>2 DEF Udp, Kinds
      <4> QED BY <1>1, <3>2, <4>1, <4>3, ConnectFollows
    <3> QED BY <3>3, <3>4
  <2> QED BY <1>3, <2>1, <2>2, <2>3, <2>4, <2>5
<1>7. Inv(net', batch, "tasks", Tail(running))
  BY <1>1, <1>6, TaskDone DEF t
<1> QED BY <1>1, <1>7

(* The first state with its connections, tasks and sockets left open.         *)
LooseNet(p, port, cs, ft, sk) ==
  [fd |-> [o \in Objects |-> NoFd],
   eventsMap |-> [f \in Fds |-> None],
   want |-> [o \in Objects \cup {Pipe} |-> {}],
   watched |-> {},
   ready |-> {},
   sock |-> sk,
   backlog |-> <<>>,
   pipe |-> 0,
   tasks |-> <<>>,
   conn |-> cs,
   m_connections |-> {},
   port |-> port,
   alive |-> TRUE,
   writing |-> None,
   stray |-> {},
   first |-> ft,
   came |-> {},
   messages |-> p.messages,
   posts |-> p.posts,
   asks |-> p.asks]

-----------------------------------------------------------------------------
(* The theorems.                                                             *)

(* The first states have the type.                                           *)
LEMMA StartedNets ==
  ASSUME NEW p \in Programs, NEW port \in p.ports
  PROVE  Started(p, port) \in Nets
<1>1. /\ p.kinds \in [Conns -> Kinds] /\ p.ports \subseteq BOOLEAN
      /\ p.messages \in Nat /\ p.posts \in Nat /\ p.asks \in Nat
  BY NetworkAssumption
<1>2. NoSocket \in Sockets
  BY DEF NoSocket, Sockets
<1>3. \A c \in Conns : NewConnection(p.kinds[c]) \in Connections
  <2> SUFFICES ASSUME NEW c \in Conns PROVE NewConnection(p.kinds[c]) \in Connections
    OBVIOUS
  <2> DEFINE k == p.kinds[c]
  <2>1. k \in Kinds /\ <<>> \in Lists(Nat) /\ <<>> \in Seq(Nat)
    BY <1>1 DEF Lists
  <2> HIDE DEF k
  <2>2. NewConnection(k) \in Connections
    BY <2>1 DEF NewConnection, Connections
  <2> QED BY <2>2 DEF k
<1>4. FirstTasks(p.kinds) \subseteq Tasks
  BY DEF FirstTasks, Task, Tasks, Objects
<1>5. port \in BOOLEAN
  BY <1>1
<1>6. [c \in Conns |-> NewConnection(p.kinds[c])] \in [Conns -> Connections]
  BY <1>3
<1>7. [o \in Objects \cup {Pipe} |-> NoSocket] \in [Objects \cup {Pipe} -> Sockets]
  BY <1>2
<1>8. \A cs \in [Conns -> Connections], ft \in SUBSET Tasks,
         sk \in [Objects \cup {Pipe} -> Sockets] :
        LooseNet(p, port, cs, ft, sk) \in Nets
  BY <1>1, <1>5 DEF Nets, LooseNet
<1>9. Started(p, port) = LooseNet(p, port, [c \in Conns |-> NewConnection(p.kinds[c])],
                                  FirstTasks(p.kinds), [o \in Objects \cup {Pipe} |-> NoSocket])
  BY Zenon DEF Started, LooseNet
<1> QED BY <1>4, <1>6, <1>7, <1>8, <1>9

(* And satisfy the invariant.                                                *)
LEMMA StartedInv ==
  ASSUME NEW p \in Programs, NEW port \in p.ports
  PROVE  Inv(Started(p, port), {}, "tasks", <<>>)
<1> DEFINE n == Started(p, port)
<1>0. Room \in Nat \ {0} /\ PipeRoom \in Nat \ {0} /\ Acceptor \notin Conns /\ None \notin Objects
  BY EventLoopAssumption DEF Objects
<1>1. n \in Nets
  BY StartedNets
<1>2. /\ \A o \in Objects : n.fd[o] = NoFd
      /\ \A f \in Fds : n.eventsMap[f] = None
      /\ n.watched = {} /\ n.ready = {} /\ n.backlog = <<>> /\ n.pipe = 0 /\ n.tasks = <<>>
      /\ n.m_connections = {} /\ n.writing = None
      /\ n.first = FirstTasks(p.kinds)
  BY DEF Started
<1>3. \A c \in Conns : n.conn[c] = NewConnection(p.kinds[c]) /\ n.sock[c] = NoSocket
  BY DEF Started, Objects
<1>4. /\ NoSocket.kind = "none" /\ NoSocket.unread = 0 /\ NoSocket.unsent = 0
      /\ ~NoSocket.fin /\ ~NoSocket.error /\ ~NoSocket.taken
  BY DEF NoSocket
<1>5. \A kind : LET k == NewConnection(kind) IN
        /\ k.kind = kind /\ ~k.m_closed /\ k.m_status = "init" /\ k.m_iovecList = <<>>
        /\ k.asked = 0 /\ k.written = <<>> /\ k.unfinished = 0 /\ ~k.short /\ k.why = "open"
  BY DEF NewConnection
<1> HIDE DEF n
<1>6. \A c \in Conns : BytesInv(n, c) /\ StatusInv(n, c) /\ SocketInv(n, c)
  <2> SUFFICES ASSUME NEW c \in Conns
               PROVE  BytesInv(n, c) /\ StatusInv(n, c) /\ SocketInv(n, c)
    OBVIOUS
  <2>1. /\ ~n.conn[c].m_closed /\ n.conn[c].m_status = "init" /\ n.conn[c].m_iovecList = <<>>
        /\ n.conn[c].asked = 0 /\ n.conn[c].written = <<>> /\ n.conn[c].unfinished = 0
        /\ ~n.conn[c].short /\ n.conn[c].why = "open"
    BY <1>3, <1>5
  <2>2. /\ n.sock[c].kind = "none" /\ n.sock[c].unread = 0 /\ n.sock[c].unsent = 0
        /\ ~n.sock[c].fin /\ ~n.sock[c].error /\ ~n.sock[c].taken
    BY <1>3, <1>4
  <2>3. n.fd[c] = NoFd
    BY <1>2 DEF Objects
  <2>4. BytesInv(n, c)
    <3>1. <<>> \o FlattenSeq(<<>>) = Numbers(0)
      BY DEF FlattenSeq, Numbers
    <3>2. Len(<<>>) = 0
      OBVIOUS
    <3> QED BY <2>1, <3>1, <3>2 DEF BytesInv, BytesOK
  <2>5. StatusInv(n, c)
    BY <2>1, <2>3 DEF StatusInv, Fresh
  <2>6. SocketInv(n, c)
    BY <1>0, <2>2 DEF SocketInv
  <2> QED BY <2>4, <2>5, <2>6
<1>7. MapInv(n)
  BY <1>2 DEF MapInv
<1>8. ServerInv(n)
  <2>1. Len(<<>>) = 0
    OBVIOUS
  <2>2. \A c \in Conns : n.fd[c] = NoFd /\ ~n.conn[c].m_closed
    BY <1>2, <1>3, <1>5 DEF Objects
  <2> QED BY <1>2, <2>1, <2>2 DEF ServerInv
<1>9. Core(n)
  BY <1>1, <1>6, <1>7, <1>8 DEF Core
<1>10. WritingInv(n) /\ BatchInv(n, {}) /\ Noticed(n, {})
  BY <1>2 DEF WritingInv, BatchInv, Noticed
<1>11. TasksInv(n, <<>> \o n.tasks)
  <2> DEFINE q == <<>> \o n.tasks
  <2>1. q \in Seq(Tasks) /\ \A i \in 1 .. Len(q) : FALSE
    BY <1>2
  <2> HIDE DEF q
  <2> SUFFICES ASSUME NEW t \in n.first PROVE Starts(t) /\ TaskOK(n, t)
    BY <2>1, Zenon DEF TasksInv, q
  <2>2. \/ t = Task("open", Acceptor)
        \/ \E c \in Conns : p.kinds[c] \notin {"accepted", "none"} /\ t = Task("connect", c)
    BY <1>2 DEF FirstTasks
  <2>3. CASE t = Task("open", Acceptor)
    <3>1. t.do = "open" /\ t.on = Acceptor /\ t \in Tasks
      BY <2>3 DEF Task, Tasks, Objects
    <3> QED BY <1>2, <3>1 DEF Starts, TaskOK, Objects
  <2>4. CASE \E c \in Conns : p.kinds[c] \notin {"accepted", "none"} /\ t = Task("connect", c)
    <3>1. PICK c \in Conns : p.kinds[c] \notin {"accepted", "none"} /\ t = Task("connect", c)
      BY <2>4
    <3>2. t.do = "connect" /\ t.on = c /\ t \in Tasks
      BY <3>1 DEF Task, Tasks, Objects
    <3>3. ~n.conn[c].m_closed /\ n.conn[c].kind \notin {"none", "accepted"} /\ n.fd[c] = NoFd
      BY <1>2, <1>3, <1>5, <3>1 DEF Objects
    <3> QED BY <1>0, <3>2, <3>3 DEF Starts, TaskOK
  <2> QED BY <2>2, <2>3, <2>4
<1>12. WakeInv(n, {}, "tasks")
  BY <1>0, <1>2 DEF WakeInv
<1>13. StageInv(n, "tasks", <<>>)
  BY <1>2 DEF StageInv
<1> QED BY <1>9, <1>10, <1>11, <1>12, <1>13 DEF Inv, n

(* Init satisfies the invariant.                                             *)
LEMMA InitInv ==
  ASSUME Init
  PROVE  Inv(net, batch, stage, running)
<1>1. \E p \in Programs : \E port \in p.ports : net = Started(p, port)
  BY Zenon DEF Init
<1>2. PICK p \in Programs : \E port \in p.ports : net = Started(p, port)
  BY <1>1
<1>3. PICK port \in p.ports : net = Started(p, port)
  BY <1>2
<1> QED BY <1>3, StartedInv DEF Init

(* Every step keeps it.                                                      *)
LEMMA StepInv ==
  ASSUME Inv(net, batch, stage, running), [Next]_vars
  PROVE  Inv(net', batch', stage', running')
<1>1. CASE Loop
  BY <1>1, WaitStep, DispatchStep, AcceptStep, WriteStep, RunCallbackFunctionsStep, RunTaskStep
  DEF Loop
<1>2. CASE Start \/ Post \/ Stop \/ Connect
  BY <1>2, StartStep, PostStep, StopStep, ConnectStep
<1>3. ASSUME NEW c \in Conns,
             \/ PeerSends(c) \/ PeerReads(c) \/ PeerCloses(c) \/ PeerResets(c)
             \/ ConnectionMade(c) \/ PortUnreachable(c)
      PROVE  Inv(net', batch', stage', running')
  BY <1>3, PeerStep
<1>4. CASE UNCHANGED vars
  <2>1. net' = net /\ batch' = batch /\ stage' = stage /\ running' = running
    BY <1>4 DEF vars
  <2> QED BY <2>1
<1> QED BY <1>1, <1>2, <1>3, <1>4, Zenon DEF Next, Environment

(* LoopInv is that invariant, before a step and after it.                    *)
LEMMA InvIs == LoopInv <=> Inv(net, batch, stage, running)
  BY Zenon DEF LoopInv, Inv

(* The same in the next state.                                               *)
LEMMA InvIsThen == LoopInv' <=> Inv(net', batch', stage', running')
  BY Zenon DEF LoopInv, Inv

(* Descriptors, the map of events, epoll's set, the batch, the queue of      *)
(* tasks and every connection fit together in every state of a loop, for any *)
(* objects, descriptors and bounds.                                          *)
THEOREM NetworkInvariant == Spec => []LoopInv
<1>1. Init => LoopInv
  BY InitInv, InvIs
<1>2. LoopInv /\ [Next]_vars => LoopInv'
  BY StepInv, InvIs, InvIsThen
<1> QED BY <1>1, <1>2, PTL DEF Spec

(* Whoever waits for m_WriteCompleteCallback has bytes queued on an open     *)
(* connection, whatever is written at once, queued, cut short or closed      *)
(* (TcpConnection::onWrite, sendInLoop).                                     *)
THEOREM NetworkCompletionOwed == Spec => []CompletionOwed
<1>1. LoopInv => CompletionOwed
  BY Zenon DEF LoopInv, Core, BytesInv, BytesOK, CompletionOwed
<1> QED BY <1>1, NetworkInvariant, PTL

(* No connection is closed for nothing except by the event of a connection   *)
(* that had its descriptor when epoll_wait returned (EventLoop::loop).       *)
THEOREM NetworkClosedForCause == Spec => []ClosedForCauseUnlessStray
<1>1. LoopInv => ClosedForCauseUnlessStray
  BY DEF LoopInv, Core, StatusInv, ClosedForCauseUnlessStray
<1> QED BY <1>1, NetworkInvariant, PTL

(* The loop never goes to sleep on a queued task, however many wakeups the   *)
(* pipe holds and whether or not it is full (EventLoop::wakeup,              *)
(* PipeEvent::onRead).                                                       *)
THEOREM NetworkWokenForTasks == Spec => []WokenForTasks
<1>1. LoopInv => WokenForTasks
  BY DEF LoopInv, WakeInv, WokenForTasks, Waits, Waiting
<1> QED BY <1>1, NetworkInvariant, PTL

(* Edge-triggered epoll loses nothing: when the loop goes to sleep, whatever *)
(* a watched connection has to read, or to write and room for it, or its     *)
(* end, is still to be reported (TcpConnection::onRead, onWrite, sendInLoop, *)
(* TcpClient::updateConnectStatus).                                          *)
THEOREM NetworkNothingUnnoticed == Spec => []NothingUnnoticed
<1>1. LoopInv => NothingUnnoticed
  <2> SUFFICES ASSUME LoopInv, Waits, net.writing = None, NEW c \in net.watched \cap Conns
               PROVE  /\ net.sock[c].unread > 0 \/ Owed(net, c) => Waiting(c)
                      /\ net.conn[c].m_iovecList # <<>> =>
                            "OUT" \in net.want[c] /\ (Space(net, c) > 0 => Waiting(c))
    BY DEF NothingUnnoticed
  <2>1. batch = {}
    BY DEF LoopInv, WakeInv, Waits
  <2>2. NoticedIn(net, {}, c) /\ NoticedOut(net, {}, c)
    BY <2>1 DEF LoopInv, Noticed
  <2>3. c # None
    BY EventLoopAssumption
  <2> QED BY <2>2, <2>3 DEF NoticedIn, NoticedOut, Waiting
<1> QED BY <1>1, NetworkInvariant, PTL

(* A connection of the server has a descriptor, and the loop watches it and  *)
(* finds it under that descriptor, unless a closed UdpServer's entry is in   *)
(* the way (EventLoop::addEvent, TcpServer::onConnectionClose).              *)
THEOREM NetworkConnectionsWatched == Spec => []ConnectionsWatched
<1>1. LoopInv => ConnectionsWatched
  <2> SUFFICES ASSUME LoopInv, NEW c \in net.m_connections
               PROVE  /\ net.fd[c] # NoFd /\ ~net.conn[c].m_closed
                      /\ \/ c \in net.watched /\ net.eventsMap[net.fd[c]] = c
                         \/ net.fd[c] \in UdpLeft
    BY DEF ConnectionsWatched
  <2>1. /\ net \in Nets /\ StatusInv(net, c) /\ MapInv(net) /\ c \in Conns
        /\ net.fd[c] # NoFd
        /\ c \in net.watched \/ Left(net, net.eventsMap[net.fd[c]])
    BY DEF LoopInv, Core, ServerInv, Nets
  <2>2. net.fd[c] \in Fds /\ c \in Objects
    BY <2>1 DEF Nets, Objects
  <2> QED BY <2>1, <2>2 DEF StatusInv, MapInv, Left, UdpLeft
<1> QED BY <1>1, NetworkInvariant, PTL

(* What the kernel was given is what the program asked to send, in order and *)
(* once, unless a direct write was cut short; what is queued makes up the    *)
(* rest (TcpConnection::sendInLoop, onWrite, UdpSocket).                     *)
THEOREM NetworkBytesInOrder == Spec => []BytesInOrderUnlessShort
<1>1. LoopInv => BytesInOrderUnlessShort
  <2> SUFFICES ASSUME LoopInv, NEW c \in Conns, ~net.conn[c].short
               PROVE  /\ \A i \in DOMAIN net.conn[c].written : net.conn[c].written[i] = i
                      /\ net.fd[c] # NoFd /\ ~net.conn[c].m_closed =>
                            Len(net.conn[c].written) + Len(FlattenSeq(net.conn[c].m_iovecList))
                                = net.conn[c].asked
    BY Zenon DEF BytesInOrderUnlessShort
  <2> DEFINE w == net.conn[c].written
             l == FlattenSeq(net.conn[c].m_iovecList)
             k == net.conn[c].asked
  <2>1. BytesOK(net.conn[c]) /\ net.conn[c] \in Connections
    BY ConnTypes DEF LoopInv, Core, BytesInv
  <2>2. net.conn[c].m_iovecList \in Lists(Nat) /\ w \in Seq(Nat) /\ k \in Nat
    BY <2>1 DEF Connections
  <2>3. l \in Seq(Nat)
    BY <2>2, FlattenType
  <2>4. net.conn[c].m_closed => w = <<>>
    BY <2>1 DEF BytesOK
  <2>5. ~net.conn[c].m_closed => w \o l = Numbers(k)
    BY <2>1, Zenon DEF BytesOK
  <2> HIDE DEF w, l, k
  <2>6. CASE net.conn[c].m_closed
    BY <2>4, <2>6 DEF w
  <2>7. CASE ~net.conn[c].m_closed
    <3>1. w \o l = [i \in 1 .. k |-> i]
      BY <2>5, <2>7 DEF Numbers
    <3>2. Len(w) + Len(l) = Len(w \o l) /\ \A i \in 1 .. Len(w) : (w \o l)[i] = w[i]
      BY <2>2, <2>3
    <3>3. w \o l \in Seq(Nat)
      BY <2>2, <2>3
    <3>4. Len(w \o l) = k
      BY <2>2, <3>1, <3>3
    <3>5. \A i \in 1 .. Len(w) : w[i] = i
      <4> SUFFICES ASSUME NEW i \in 1 .. Len(w) PROVE w[i] = i
        OBVIOUS
      <4>1. i \in 1 .. k
        BY <2>2, <2>3, <3>2, <3>4
      <4> QED BY <3>1, <3>2, <4>1, Zenon
    <3>6. DOMAIN w = 1 .. Len(w)
      BY <2>2
    <3>7. (\A i \in DOMAIN w : w[i] = i) /\ Len(w) + Len(l) = k
      BY <3>2, <3>4, <3>5, <3>6
    <3> QED BY <3>7, Zenon DEF w, l, k
  <2> QED BY <2>6, <2>7, Zenon
<1> QED BY <1>1, NetworkInvariant, PTL

-----------------------------------------------------------------------------
(* PlayerPump. PumpInv is inductive, with TypeOK, when one thread publishes;  *)
(* TypeOK alone and ActiveIsDriven hold for any number of publishers.        *)

(* What GetFrames returns is within the stream.                              *)
LEMMA GetFramesType ==
  ASSUME TypeOK, Ready, NEW fetched \in GetFrames
  PROVE  /\ fetched.out_index \in -1 .. frame_index_
         /\ fetched.unsent \in 0 .. Headers + 1
         /\ fetched.unsent = 0 => unsent = 0 /\ fetched.out_index = frame_index_
                                  /\ out_index_ = frame_index_
  BY PumpAssumption DEF TypeOK, Ready, GetFrames, Fetched

(* The types in two parts: what control uses and what counts.                *)
ControlOK ==
  /\ publishing \in [Publishers -> {"idle", "added", "active", "post"}]
  /\ m_active \in BOOLEAN
  /\ loop \in {"joining", "idle", "post_frames", "deactive"}
  /\ sending_ \in BOOLEAN /\ responses \in BOOLEAN /\ missed \in BOOLEAN

CountsOK ==
  /\ frame_index_ \in 0 .. MaxFrames
  /\ tasks \in Nat
  /\ out_index_ \in -1 .. frame_index_
  /\ unsent \in 0 .. Headers + 1

LEMMA TypeParts == TypeOK <=> ControlOK /\ CountsOK
  BY Zenon DEF TypeOK, ControlOK, CountsOK

(* PumpInit and every step keep the types.                                   *)
LEMMA PumpTypeInit == PumpInit => TypeOK
<1> SUFFICES ASSUME PumpInit PROVE ControlOK /\ CountsOK
  BY TypeParts
<1>1. ControlOK
  BY Zenon DEF PumpInit, ControlOK
<1>2. CountsOK
  BY PumpAssumption DEF PumpInit, CountsOK
<1> QED
  BY <1>1, <1>2

LEMMA StepControl == ControlOK /\ [PumpNext]_pumpVars => ControlOK'
<1> SUFFICES ASSUME ControlOK, [PumpNext]_pumpVars PROVE ControlOK'
  OBVIOUS
<1>1. ASSUME NEW p \in Publishers, PublisherStep(p) PROVE ControlOK'
  BY <1>1, Zenon DEF PublisherStep, AddPacket, ChooseToActive, Active,
                     PostActivation, ControlOK, sender
<1>2. CASE LoopStep
  BY <1>2, Zenon DEF LoopStep, Join, RunActivation, PostFrames,
                     PostFramesNotReady, Deactive, ControlOK, stream, sender
<1>3. CASE CheckAndSend
  BY <1>3, Zenon DEF CheckAndSend, ControlOK, stream
<1>4. CASE UNCHANGED pumpVars
  BY <1>4, Zenon DEF pumpVars, ControlOK
<1> QED
  BY <1>1, <1>2, <1>3, <1>4 DEF PumpNext

LEMMA StepCounts == TypeOK /\ [PumpNext]_pumpVars => CountsOK'
<1> SUFFICES ASSUME TypeOK, [PumpNext]_pumpVars PROVE CountsOK'
  OBVIOUS
<1> USE PumpAssumption
<1>0. CountsOK
  BY TypeParts
<1>1. ASSUME NEW p \in Publishers, PublisherStep(p) PROVE CountsOK'
  BY <1>0, <1>1 DEF PublisherStep, AddPacket, ChooseToActive, Active,
                    PostActivation, CountsOK, sender
<1>2. ASSUME PostFrames PROVE CountsOK'
  <2>1. PICK fetched \in GetFrames :
          /\ out_index_' = fetched.out_index
          /\ \/ unsent' = unsent
             \/ fetched.unsent # 0 /\ unsent' = fetched.unsent
             \/ fetched.unsent # 0 /\ unsent' = fetched.unsent - 1
    BY <1>2 DEF PostFrames
  <2>2. Ready /\ frame_index_' = frame_index_ /\ tasks' = tasks
    BY <1>2 DEF PostFrames, stream
  <2>3. /\ fetched.out_index \in -1 .. frame_index_
        /\ fetched.unsent \in 0 .. Headers + 1
    BY <2>2, GetFramesType
  <2> QED
    BY <1>0, <2>1, <2>2, <2>3 DEF CountsOK
<1>3. CASE Join \/ RunActivation \/ PostFramesNotReady \/ Deactive
  BY <1>0, <1>3 DEF Join, RunActivation, PostFramesNotReady, Deactive,
                    CountsOK, stream, sender
<1>4. CASE CheckAndSend
  BY <1>0, <1>4 DEF CheckAndSend, CountsOK, stream
<1>5. CASE UNCHANGED pumpVars
  BY <1>0, <1>5 DEF pumpVars, CountsOK
<1> QED
  BY <1>1, <1>2, <1>3, <1>4, <1>5 DEF PumpNext, LoopStep

LEMMA PumpTypeStep == TypeOK /\ [PumpNext]_pumpVars => TypeOK'
<1>1. TypeOK' <=> ControlOK' /\ CountsOK'
  BY Zenon DEF TypeOK, ControlOK, CountsOK
<1> QED
  BY <1>1, TypeParts, StepControl, StepCounts

(* Every variable keeps its type and a player never gets ahead of its       *)
(* stream, whatever the batch size and however many publishers there are.    *)
THEOREM PumpTypeOK == PumpSpec => []TypeOK
  BY PumpTypeInit, PumpTypeStep, PTL DEF PumpSpec

(* A player that is awake and whose loop is elsewhere has a write under way, *)
(* whatever the number of publishers: Connection::Active never leaves an     *)
(* awake player without a wakeup to come.                                    *)
THEOREM PumpActiveIsDriven == PumpSpec => []ActiveIsDriven
<1>1. PumpInit => ActiveIsDriven
  BY DEF PumpInit, ActiveIsDriven
<1>2. ActiveIsDriven /\ [PumpNext]_pumpVars => ActiveIsDriven'
  <2> SUFFICES ASSUME ActiveIsDriven, [PumpNext]_pumpVars PROVE ActiveIsDriven'
    OBVIOUS
  <2>1. ASSUME NEW p \in Publishers, PublisherStep(p) PROVE ActiveIsDriven'
    BY <2>1, Zenon DEF PublisherStep, AddPacket, ChooseToActive, Active,
                PostActivation, ActiveIsDriven, sender
  <2>2. CASE Join \/ RunActivation \/ PostFramesNotReady \/ Deactive
    BY <2>2 DEF Join, RunActivation, PostFramesNotReady, Deactive,
                ActiveIsDriven
  <2>3. CASE PostFrames
    BY <2>3 DEF PostFrames, ActiveIsDriven
  <2>4. CASE CheckAndSend
    BY <2>4 DEF CheckAndSend, ActiveIsDriven
  <2>5. CASE UNCHANGED pumpVars
    BY <2>5 DEF pumpVars, ActiveIsDriven
  <2> QED
    BY <2>1, <2>2, <2>3, <2>4, <2>5 DEF PumpNext, LoopStep
<1> QED
  BY <1>1, <1>2, PTL DEF PumpSpec

(* The rest is about one publisher: first the invariant at the start, then   *)
(* through every step.                                                       *)
LEMMA PumpInvInit == PumpInit => PumpInv
  BY PumpAssumption DEF PumpInit, PumpInv, ActiveIsDriven, Behind, Ready

LEMMA PumpInvStep ==
  ASSUME NEW P, Publishers = {P}, TypeOK, PumpInv, [PumpNext]_pumpVars
  PROVE  PumpInv'
<1> USE PumpAssumption
<1>1. CASE AddPacket(P)
  <2>1. Behind' => Behind
    BY <1>1 DEF AddPacket, sender, Behind, TypeOK
  <2> QED
    BY <1>1, <2>1 DEF AddPacket, sender, PumpInv, ActiveIsDriven, Ready, TypeOK
<1>2. CASE ChooseToActive(P)
  <2>1. Behind' => Behind
    BY <1>2 DEF ChooseToActive, sender, Behind, TypeOK
  <2> QED
    BY <1>2, <2>1 DEF ChooseToActive, sender, PumpInv, ActiveIsDriven, Ready
<1>3. CASE Active(P)
  <2>1. ~m_active /\ Behind' => Behind
    BY <1>3 DEF Active, sender, Behind, TypeOK
  <2>2. m_active => \/ missed' \/ sending_
                    \/ loop \in {"joining", "post_frames"}
    BY <1>3, Zenon DEF Active, PumpInv, ActiveIsDriven, TypeOK
  <2> QED
    BY <1>3, <2>1, <2>2 DEF Active, sender, PumpInv, ActiveIsDriven, Ready,
                            TypeOK
<1>4. CASE PostActivation(P)
  BY <1>4 DEF PostActivation, sender, PumpInv, ActiveIsDriven, Ready, TypeOK
<1>5. CASE Join \/ RunActivation
  BY <1>5 DEF Join, RunActivation, stream, sender, PumpInv, ActiveIsDriven,
              Ready, TypeOK
<1>6. CASE PostFrames
  <2>1. PICK fetched \in GetFrames :
          /\ out_index_' = fetched.out_index
          /\ IF fetched.unsent = 0
             THEN loop' = "deactive" /\ UNCHANGED <<sending_, unsent>>
             ELSE /\ loop' = "idle"
                  /\ sending_' = TRUE
                  /\ unsent' = IF sending_ THEN fetched.unsent
                               ELSE fetched.unsent - 1
    BY <1>6 DEF PostFrames
  <2>2. Ready /\ UNCHANGED <<frame_index_, publishing, missed, m_active, tasks,
                             responses>>
    BY <1>6 DEF PostFrames, stream
  <2>3. fetched.unsent = 0 => unsent = 0 /\ fetched.out_index = frame_index_
    BY <2>2, GetFramesType
  <2>4. CASE fetched.unsent = 0
    <3>1. out_index_' = frame_index_' /\ frame_index_' \in Int
      BY <2>1, <2>2, <2>3, <2>4 DEF TypeOK
    <3>2. ~Behind'
      BY <3>1 DEF Behind
    <3> QED
      BY <2>1, <2>2, <2>3, <2>4, <3>2 DEF PumpInv, ActiveIsDriven
  <2>5. CASE fetched.unsent # 0
    BY <2>1, <2>2, <2>5 DEF PumpInv, ActiveIsDriven, Ready
  <2> QED
    BY <2>4, <2>5
<1>7. CASE PostFramesNotReady
  <2>1. ~(frame_index_ >= ReadyAt) /\ frame_index_' = frame_index_
    BY <1>7 DEF PostFramesNotReady, stream, Ready
  <2>2. frame_index_ \in Int /\ ReadyAt \in Int
    BY DEF TypeOK
  <2>3. ~Behind'
    BY <2>1, <2>2 DEF Behind
  <2> QED
    BY <1>7, <2>3 DEF PostFramesNotReady, stream, sender, PumpInv,
                      ActiveIsDriven, Ready, TypeOK
<1>8. CASE Deactive
  <2>1. Behind' <=> Behind
    BY <1>8 DEF Deactive, stream, sender, Behind
  <2> QED
    BY <1>8, <2>1 DEF Deactive, stream, sender, PumpInv, ActiveIsDriven, Ready
<1>9. CASE CheckAndSend
  BY <1>9 DEF CheckAndSend, stream, PumpInv, ActiveIsDriven, Ready, TypeOK
<1>10. CASE UNCHANGED pumpVars
  BY <1>10 DEF pumpVars, PumpInv, ActiveIsDriven, Behind, Ready
<1> QED
  BY <1>1, <1>2, <1>3, <1>4, <1>5, <1>6, <1>7, <1>8, <1>9, <1>10
  DEF PumpNext, PublisherStep, LoopStep

(* With one publisher a sleeping player has been given every frame that      *)
(* activates, unless an activation fell between its last look at the stream  *)
(* and its Deactive: ActiveAllPlayers loses no wakeup in any other way.      *)
THEOREM PumpSleepsCaughtUp ==
  ASSUME NEW CONSTANT P, Publishers = {P}
  PROVE  PumpSpec => []SleepsCaughtUpUnlessMissed
<1>1. TypeOK /\ PumpInv /\ [PumpNext]_pumpVars => PumpInv'
  BY PumpInvStep
<1>2. TypeOK /\ PumpInv => SleepsCaughtUpUnlessMissed
  BY PumpAssumption
  DEF TypeOK, PumpInv, SleepsCaughtUpUnlessMissed, Quiet, CaughtUp, Behind
<1> QED
  BY <1>1, <1>2, PumpInvInit, PumpTypeOK, PTL DEF PumpSpec
=============================================================================

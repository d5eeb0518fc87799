# liveStream-study: TLA+ models, checks and proofs

This directory is the verification project of the live streaming server in
`src/`. It holds TLA+ modules that model the parts of the server where order,
concurrency, formats or arithmetic decide whether it is right, TLC
configurations that check them on small instances, and proofs of the central
invariants for every instance. `PROJECT.json` maps every definition to the
lines it stands for and lists the components, runs, hazards and theorems.

Paths below are relative to `src/src/` of the repository. `SE:228` and the like
name a file by its initials and a line: `ST` Stream.cpp, `SE` Session.cpp, `LS`
LiveService.cpp, `RP` RtmpPlayUser.cpp, `RC` RtmpContext.cpp, `HS`
RtmpHandShake.cpp, `TCP` TcpConnection.cpp, `EL` EventLoop.cpp.

## 1. Inventory

The server accepts RTMP connections. A publisher pushes audio and video
packets into a stream, any number of players pull from it.

| Component | State | Operations | Interacts through |
|---|---|---|---|
| `live/Stream` with `base/GopManager`, `base/CodecHeader`, `base/CodecUtils` | `frame_index_`, the ring `packet_buffer_`, `gops_`, `lastest_timestamp_`, lists of headers | `AddPacket` (publisher's loop), `GetFrames` with `LocateGop`, `SkipFrame`, `GetNextFrame` (each player's loop) | `lock_`; afterwards `Session::ActiveAllPlayers` |
| `live/base/TimeCorrector` | per track the last original and corrected timestamp | `CorrectTimestamp` | called by `Stream::AddPacket` without the lock, and by each player in `PushFrame` |
| `live/LiveService`, `live/Session`, `live/user` | name to session; publisher and players; `destroyed_` of a user | `OnPlay`, `OnPublish`, `OnConnectionDestroy`, `OnTimer`, `CloseSession`; `AddPlayer`, `SetPublisher`, `CloseUser`, `Clear`, `IsTimeout` | two `std::mutex`, the connections' contexts, `forceClose` posted to other loops |
| `live/user/RtmpPlayUser` | position in the stream, headers to send, fetched frames | `PostFrames`, `PushFrame` | reads the stream; writes through `RtmpContext`; `Connection::deactive` |
| `mmedia/rtmp/RtmpHandShake` | its step, the packets C1S1 and C2S2 | `Start`, `HandShake`, `WriteComplete`, `CreateC1S1`, `CheckC1S1`, `CreateC2S2` | `TcpConnection::send`, `RtmpContext::Parse` |
| `mmedia/rtmp/RtmpContext` | message headers per chunk stream in both directions, packets in part, output buffers, `sending_`, the command's names and numbers | `ParseMessage`, `BuildChunk`, `Send`, `CheckAndSend`, handlers of commands and control messages | `RtmpHandler` (the live service), `TcpConnection` |
| `mmedia/rtmp/amf` | none | encoders of `AMFAny`, `AMFObject::Decode` | called by the context |
| `mmedia/rtmp` server and client | contexts of the connections; the URL of the client | `Play`, `Publish`, callbacks | between context, `TcpServer` or `TcpClient`, and the service |
| `network/net/Connection`, `TcpConnection` | `m_active`, `m_closed`, `m_iovecList`, `m_messageBuffer`, the idle entry | `Active`, `deactive`, `onRead`, `onWrite`, `onError`, `send`, `onClose`, `forceClose` | callbacks of the loop; callbacks to the context |
| `network/net/EventLoop`, `PipeEvent` | `m_eventsMap`, epoll, queued functions, the wheel | `loop`, `addEvent`, `removeEvent`, `runInLoop`, `RunCallbackFunctions`, `wakeup`, `quit` | epoll; other threads post functions |
| `network/net/EventLoopThread`, its pool | the thread, its loop, `m_running`, a promise | `run`, `startEventLoop`, the destructor | a mutex, a condition, a `once_flag` |
| `network/net/TimingWheel` | four wheels of slots, the tick, the time of the last tick | `RunAfter`, `RunEvery`, `InsertEntry`, `OnTimer` | called by its loop; an entry acts when its last reference goes |
| `network/net/Acceptor`, `UdpSocket`; `TcpServer`, `TcpClient`, `UdpServer`, `UdpClient` | sockets; the server's set of connections; the client's status | open, accept, connect, send, close | events of the loop, tasks from other threads |
| `network/DnsServer` | `hosts_info_`, `running_` | `AddHost`, `GetHostAddress`, `Start`, `Stop`, `OnWork` | a thread of its own, one lock |
| `network/base` | `MsgBuffer`: storage, head and tail; `InetAddress`: a host and a port | `Append`, `AddInFront`, `ReadFd`, `Retrieve`, ...; `isLanIp`, `getSockAddr`, ... | called by the connections |
| `base/Config`, `AppInfo`, `DomainInfo` | services, domains, applications | `LoadConfig`, `GetAppInfo` | read by the service; replaced as a whole |
| `base/Task`, `base/TaskMgr` | set of tasks with their times | `OnWork`, `Add`, `Del` | one lock, held while the tasks run |
| `main` and the test programs | none | what they start, stop and destroy | all of the above |

What is hard in this code:

- the ring wraps under its readers, while three other structures (`gops_`, the
  header lists, each player's position) hold indices into it;
- timestamps are corrected twice, with signed and unsigned 32-bit arithmetic,
  and each track moves the clock of the other; the chunk layer then turns them
  into differences, and back on the other side;
- a user leaves while another enters or replaces it, on other loops, with a
  flag set before the lock and the rest done under it;
- a player sleeps and is woken by a flag that two threads read and write
  without a lock;
- timers move between wheels, and one connection has many references in them;
- TCP cuts handshakes and chunks anywhere, and write completions arrive inside
  `send` or later;
- epoll reports an edge once, in batches whose later events may be about
  descriptors that the earlier ones closed and opened again; writes are short;
- loops are handed between threads that start, wait and destroy each other.

What makes each part correct:

- *Stream*: a player gets consecutive packets from a key frame on, never
  backwards, and its decoder has the right headers.
- *TimeCorrector*: the second correction repeats the first, a first video packet
  joins the clock of the audio before it.
- *Session*: the lists hold exactly the users that are neither entering nor
  leaving; the registered publisher is live; whoever was replaced is
  disconnected; handlers finish.
- *PlayerPump*: an awake player has something that drives it, a sleeping one has
  everything it should have.
- *Handshake*: both sides accept each other's first packet, complete, and
  messages begin where the handshake ends.
- *Chunks*: messages arrive as they were sent, with the time they were sent
  with; what was queued is sent; received bytes are acknowledged once.
- *Commands*: a body decodes to what was encoded, a player and a publisher of
  one stream meet in one session whatever the form of their URLs, no client
  waits for an answer that does not come.
- *Network*: what arrives, closes or is posted is noticed, bytes keep their
  order, a complete write is announced once, nobody is closed without cause.
- *TimingWheel*: timers fire when they should, an idle connection is closed on
  time and a busy one is not.
- *MsgBuffer, numbers, addresses*: a queue of bytes; what is written is read.
- *Start and stop*: servers run on loops that run, configurations mean what the
  files say, calls return.

`PROJECT.json` lists the hazards at their lines, each with the properties that
would notice it.

## 2. Modules

| Module | Models | Kind |
|---|---|---|
| `StreamLog` | what a live stream promises its players | abstract specification |
| `Stream` | ring, GOPs, headers, players of one stream | implements `StreamLog` |
| `TimeCorrector` | the two correctors in series | specification |
| `Session` | service, sessions, users, connections closing | specification |
| `PlayerPump` | activation, batches, write completion of one player | specification |
| `TimingWheel` | the loop's timers and the idle timeout | specification |
| `Digest` | first packets of the handshake: layouts, digests, keys | operators |
| `RtmpHandShake` | both sides of the handshake over TCP | specification, uses `Digest` |
| `RtmpChunk` | one direction of messages: writer, TCP, reader | specification |
| `Amf` | encoding and decoding of command bodies | operators |
| `RtmpCommand` | clients, contexts and service from connect to the stream | specification, uses `Amf` |
| `ByteQueue` | a queue of bytes with two ends | abstract specification |
| `MsgBuffer` | the buffer, its moves and growth | implements `ByteQueue`, uses `Bytes` |
| `Bytes` | numbers as bytes | operators |
| `InetAddress` | addresses as text, as sockaddr, LAN and WAN | operators |
| `EventLoop` | map, epoll, batch, tasks and pipe of one loop | component |
| `TcpConnection` | reading, sending, writing, closing | component, on `EventLoop` |
| `Network` | acceptor, servers, clients, UDP, their peers | composition of the two |
| `Config` | loading the configuration and looking up in it | operators |
| `DnsServer`, `TaskMgr`, `EventLoopThread` | one component each | components |
| `LiveServer` | the programs that start and stop them | composition, uses `InetAddress` |
| `StreamProofs`, `TimeCorrectorProofs`, `SessionProofs`, `NetworkProofs`, `TimingWheelProofs`, `RtmpHandShakeProofs`, `MsgBufferProofs`, `LiveServerProofs` | their modules; `NetworkProofs` also `PlayerPump`, `RtmpHandShakeProofs` also `Digest`, `LiveServerProofs` also `Config`, `Bytes` and `InetAddress` | theorems |
| `MCStream`, `MCSession`, `MCRtmpCommand`, `MCNetwork`, `MCLiveServer` | values of constants for TLC | |
| `MCPlayer` | `PlayerPump` and `TimeCorrector`, the two things a player has of its own, for TLC | |

How the modules divide the system. `Stream` takes corrected timestamps as an
input, stepping within `Deltas`; `TimeCorrector` shows what the corrector yields.
`PlayerPump` sees of the stream only the index of the newest frame, and
`Stream` sees of the pump only that `PostFrames` runs now and then. `Session`
says who may feed a stream, `RtmpCommand` how a client gets to be that.
`RtmpHandShake` ends where `RtmpChunk` begins, and `RtmpChunk` takes messages of
any kind, `RtmpCommand` whole messages. `TimingWheel` produces the idle close
that `Session` has as `PeerCloses`, `RtmpHandShake` as `Idle` and `Network` as one
of the causes to close. `Network` starts with loops that run, which
`LiveServer` produces.

### Correspondence

**Stream.** `AddPacket` is one action: timestamp, headers, GOP list with its
clean-up, slot and index. In the code all of it from `frame_index_` on is under
`lock_`; the timestamp and the GOP list come before, and only one connection
feeds a stream at a time (but see 6). `PostFrames` is one action too: it asks
`Ready`, fetches under the lock what `GetFrames` gives (locating a GOP, skipping
or going on), then sends one header or the batch. Packets are their index,
kind and timestamp. `decoder` is history: what has reached the player.

**TimeCorrector.** One action per published packet; it passes the stream's
corrector and, once a player is in, the player's. Integers are taken modulo
`Modulus` (2^32 in the code) where the code assigns to `uint32_t` or `int32_t`.

**Session.** Every loop is a thread that runs a handler at a time; the service's
timer is another. A handler is cut where it waits for a `Session` lock:
`Command` runs up to it, then `AddPlayer` or one of `SetPublisher`,
`ReplaceRemote`, `ReplaceLocal` (who has to be closed, and where) finishes.
`OnClose` sets `destroyed_`, `CloseUser` is the half under the lock. `OnTimer` and
`CloseSession` begin what `Clear` ends. A command that waits for the service's
lock has simply not started. `forceClose` is a queue of tasks per loop, or runs
inline on the same loop, which is what `ReplaceLocal` with its `outer` call is
about.

**PlayerPump.** `AddPacket`, `ChooseToActive`, `Active` and `PostActivation` are
the four moments of a publisher at which other threads matter: the packet under
the lock, the second read of `frame_index_`, the look at `m_active`, the post.
The player's loop runs `RunActivation`, `PostFrames`, `Deactive` and, at each
write completion, `CheckAndSend`.

**TimingWheel.** `InsertEntry` and `PopUp` are functions of the wheels.
A reference is an entry with the delay left for the finer wheels; an entry acts
when it has no reference any more, as the destructor of `CallbackEntry` does.
`OnTimer` pops the first wheel and then at most one more. `RunHere` and `Post`
are a call from the loop's thread and from another one, which `RunPosted` then
executes. `Wait` is a turn of the loop without a tick, `elapsed` its length.

**Digest and RtmpHandShake.** A first packet is a version, the sums of the bytes
its digests' places are computed from, one per layout, and who signed which
range with which key. A digest verifies exactly when the signer's range and key
are the ones the reader uses. `Send`, `WriteComplete`, `HandShake` and `Parse` are
functions of one side's state, called by the events `OnRead` and `OnWrite`. A
read takes any number of the bytes on their way, a write of the queue any number
of those given, at least one. The direct write in `Send` may also take a part of a
packet or fail. What `sendInLoop` then queues starts again at the packet's
beginning, so a first packet that was cut short is `torn` and has no digest that
fits; and a write that fails has one byte more queued than there is (`added`),
because -1 was taken from an unsigned count. Of the later packets only the
numbers of bytes are kept.

**RtmpChunk.** A message is its identity, chunk stream, type, stream, length,
time and, for control messages, a value. `BuildChunk` (both overloads) turns it
into tokens: a basic header, a message header of the format it chooses, an
extended timestamp, pieces of the body. The reader's `ParseMessage` takes one
chunk from what has arrived, keeps a header and a difference per chunk stream
and hands a message on when its body is whole. Writers are the server, the
program's own client, and another encoder, which may choose any format RTMP
allows and mix chunk streams. `Half` is the base in which a timestamp has two
halves, so that its byte order matters; `ExtMark` stands for 0xFFFFFF.

**Amf and RtmpCommand.** A body is a sequence of tokens of known length,
decoded by the loop of `AMFObject::Decode` with its tests of the bytes left.
Numbers are written in tenths and read as `ReadUint64T` does, without a fraction,
and undefined if negative. A handler that asks for a property which is not there
ends the process (`Needs`). A
URL is a sequence of its parts; the own client's process ends at one that is too short. Each connection has a server side that handles
one message at a time and a client: the program's own or another that plays or
publishes, with or without a port and parameters. `Begin` is where the service
accepts or refuses.

**MsgBuffer.** Storage is a sequence with junk where nothing was written. Each
action is one operation with its `EnsureWritableBytes`, move and growth;
`ReadFd` reads into the room behind and the extra buffer.

**EventLoop, TcpConnection, Network.** A loop is the batch of events it is
dispatching, the map of its events, what epoll watches, the set of those that
have something to report (`ready`), the queue of tasks and the pipe. In which
order epoll reports is left open: `Wait` takes the whole set, `Dispatch` any
event of the batch. Descriptors are reused as the kernel does, the lowest
first. A connection's `onRead`, `onWrite`, `onError`, `sendInLoop` and `onClose`
are each one action or, where a callback or a full socket intervenes, cut there;
`Erase` is one turn of the loop in `onWrite` that takes what `writev` wrote off the
list. A program is chosen at the start (`Programs`): which objects are servers'
connections, clients or UDP sockets, and how much peers and other threads may
still do. A direct write takes all there is room for or fails, which the kernel
forgets once it has told (`taken`); the completion that follows a write may send
again (`Completed`). `connect` is refused, pending or made at once. A listener whose
`bind` failed listens all the same, at a port nobody connects to. Reading through an event that was destroyed is a choice between going
on and the end of the process. `Acceptor::open` without a free descriptor exits
(`alive` becomes false).

**LiveServer.** `EventLoopThread` has one record per thread and an action per
point where it may be preempted: waiting, handing over its loop, looping,
leaving. `DnsServer.OnWork` is cut at each host and each lookup; its loop over
`hosts_info_` without the lock, when the user inserts, may skip, repeat or end the
process. `Config` evaluates files given as records; a member that cannot be
converted to the type it is read as ends the program (`typed`). `LiveServer` has the threads'
steps, the DNS thread's and those of the main thread of four programs: `main`,
`RtmpServerTest`, `EventLoopThreadTest` and `DnsServerTest`.

## 3. Runs

| Run | Bounds | Shows |
|---|---|---|
| `Stream_player` (`MCStream`) | ring 3, batch 2, latency 3, 6 packets of 5 kinds, steps -1 and 3, one player; 1,049,115 states | frames sent are decodable unless the player was overtaken, a player enters at a key frame but for one moment, and `Stream` implements `StreamLog` |
| `Session_leave` (`MCSession`) | 3 connections, 2 on one loop, 1 command each, one name, 2 sessions, the timer; fair; 24,798 | lists match the users, whoever leaves is forgotten, a publisher that is replaced or cleared is disconnected |
| `Session_republish` (`MCSession`) | one connection on each of two loops, 2 commands each | *violation* of `HandlersFinish`: a thread waits for its own lock |
| `Player` (`MCPlayer`) | the pump: one publisher, 8 frames, batch 2, 2 headers, every second frame activates from 2 on; fair. The correctors: modulus 16, 6 timestamps, 5 packets; 77,450 | the player is driven, sleeps only caught up unless an activation was missed, an activation brings it everything; a first video packet joins the audio clock, playback follows the stream's clock |
| `TimingWheel` | minute 3, hour 6, day 12 ticks, 2 days; one timer of eight delays, one connection with timeout 2; turns of up to two seconds; 70,200 | timers and idle timeout are on time |
| `RtmpHandShake` | packets of 4 and 3 bytes, connect of 2, own, swapped, simple and wrong first packets, direct writes that take all, a part or nothing; fair; 9,671 | messages begin in place, the client waits for S2, completion unless a packet is garbled |
| `RtmpHandShake_late` (`RtmpHandShake`) | the same | *violation* of `LateS2Harmless`: a client that gets S0S1 before all of S2 never sends connect |
| `RtmpChunk` | three writers, one media chunk stream, bodies of 0 and 3 units, times 0, 1, 9 with 7 the mark of an extended time, chunk sizes 1 then 2, 2 messages after the opening; 189,088 | messages arrive as sent and when sent, bytes are acknowledged once, nothing is left behind |
| `RtmpCommand` (`MCRtmpCommand`) | 2 connections, ten roles, two shapes of a connect object, one extra message, connections interchangeable; 74,037 | bodies decode, one stream is one session, the server goes on, nobody waits for ever |
| `MsgBuffer` | offset 1, extra buffer 2, numbers in base 2 of one to four digits, appended blocks up to 3, at most 4 readable; 26,140 | the buffer implements `ByteQueue`, numbers come back |
| `Network` (`MCNetwork`) | eight programs: servers with one to three connections, a client, UDP; three descriptors, room for 1 byte in a socket and 2 wakeups in the pipe; 299,700 | connections are watched, nothing is unnoticed, wakeups work, bytes keep their order unless a direct write was short, completions come, closes have causes |
| `LiveServer` (`MCLiveServer`) | four programs, two loop threads, 76 configurations, two hosts, 2 tries; fair; 7,062 | servers are on running loops, configurations mean what is written, hosts keep addresses, calls return |

Why the bounds are enough. *Stream*: six packets wrap a ring of three and leave a
player a full ring behind; the stale GOP needs `BufferSize + 1` packets; the
step -1 gives timestamps that go back, 3 exceeds the latency. *TimeCorrector*:
small steps, jumps both ways and a wrap of the width; five packets start both
tracks in each order and continue each. *Session*: a command, a replacement and
a close on each of two loops is what the races need; two sessions let a name
be cleared and made again. *PlayerPump*: batches fill and run short, frames on
both sides of `FastFrames`. *Player* checks the two in one run, one moving while the
other is where it began: the pump's state has no timestamp and the correctors' no
index, so that no property could tell their interleavings apart. *TimingWheel*: the delays take every wheel, its first
and last slot and a remainder, 0 and a delay beyond the last day; the state
space is complete, no bound cuts time. *RtmpHandShake*: three bytes let every
packet be cut at its start, inside and at its end, and let a direct write stop
in it; complete too. *RtmpChunk*: a
body of three units is three chunks before and two after the chunk size changes,
two messages after the opening give every format a predecessor, 9 is an extended
time and 0 after 9 a step back. *RtmpCommand*: two clients meet or do not, replace
each other, and either may leave at any message. *MsgBuffer*: four readable bytes
in a storage of 2 at first are moved, grown and spread over two reads.
*Network*: three descriptors, of which the server holds one, make every close
give its number to the next connection; a room of one byte makes each write
short. *LiveServer*: two threads so that destroying the first overlaps the start
of the second; five domain files in different orders replace each other;
`UintModulus` is 4096, so that a latency of 5 seconds wraps.

Deadlock is checked in `TimingWheel` only; in the others the system may stop
(all packets sent, all connections closed, a program at its end). What each
property is about, and why its exceptions are needed, is said at its
definition.

### Fairness

- `Session!FairSpec`: a loop that has a step goes on (an event loop never stops
  by itself); `Clear` goes on once it was called. Connections need not do
  anything, and nobody has to run `OnTimer` or call `CloseSession`: nothing in the
  repository runs the one's task or calls the other. With `TimerRuns` they may.
- `PlayerPump!FairPumpSpec`, which is `MCPlayer!PlayerSpec` for the pump: the player's loop, and write completions (a peer that
  reads). Publishers need not publish.
- `RtmpHandShake!FairSpec`: the loops run and TCP delivers what was written, the
  garbled included. The idle timeout
  fires only when nothing is on its way, 30 seconds being long for a network.
- `LiveServer!Spec`: the main thread, the DNS thread and each loop's thread go
  on when they can: the scheduler runs threads, `getaddrinfo` returns,
  `epoll_wait` ends after a second. The user of `DnsServer` need not call.
- The other runs have safety properties only. Where "it happens in the end" is
  the question, they ask it of the states in which everything has stopped:
  `NothingLeftBehind` and `NobodyLeftWaiting` (their behaviours are finite) and
  `NothingUnnoticed`, `WokenForTasks` and `CompletionOwed` (what the loop will be
  woken for).

## 4. Proofs

All proofs are checked by TLAPS from the assumptions named in the modules
(`StreamAssumption`, `TimeCorrectorAssumption`, `SessionAssumption`,
`PumpAssumption`, `TimingWheelAssumption`, `RtmpHandShakeAssumption`,
`EventLoopAssumption`, `NetworkAssumption`, `ConfigAssumption`,
`LiveServerAssumption` and the three of `MsgBuffer`), for every value of the
constants they allow.

**StreamProofs.** `StreamInvariant` proves `IInv`. That the ring holds the window
is not inductive alone: that a new packet does not destroy an old one still in
the window needs that every filled slot holds a packet of that slot
(`RingSlots`), that all indices up to the newest are filled (`RingFilled`) and that
different window indices have different slots (`SlotsDiffer`, arithmetic of
`%`); reading needs that neither players nor headers are ahead (`NobodyAhead`,
`HeadersPublished`). From it: `StreamTypeOK`, `StreamRingHoldsWindow`,
`StreamGopsMatchBuffer`, `StreamEntersAtKeyFrame`, and `StreamImplementsLog`,
the refinement: `AddPacket` is `Publish`, `PostFrames` is `Fetch`, `Deliver` or a
stutter. `StreamDecodable` is about the headers. A header in the ring is also
in its list and the other way round (`RingListed`), so of the headers up to any
index that a player has not passed the newest is either what `LocateGop` chose
or comes in the frames since. `HeadersHeld` says so of each moment between two
batches: what governs the next frame is with the decoder, waiting, or in the
batch. It fails after a gap, because `SkipFrame` refreshes nothing, and for a
gap the property does not ask.

**TimeCorrectorProofs.** `TimeCorrectorInvariant` proves `TimeInv`, which adds to
the type and to the unchanged smooth input that the player's corrector has read
what the stream's returned last; `TimeCorrectorSmooth`, `TimeCorrectorClockSteps`
and `TimeCorrectorPlaybackFollows` follow. The two cases of wrap-around rest on
`SameQuotient`. `TimeCorrectorFirstVideo` compares the first video packet with the
audio clock: either the difference as an `int32_t` is small, and then the video
time differs from the audio time by that (`Int32Same`), or the video takes over
the audio clock; `Int32Nearest` says that no other number of the same remainder
is nearer to 0.

**SessionProofs.** `SessionInvariant` proves `IInv`. Most of it says who may touch
a user. The loop of its connection alone handles it until it is registered
(`Handles`), so a user that is entering is live and in no list (`EnteringOK`).
`CloseUser` that runs inside `SetPublisher` keeps the outer call's lock, and the
publisher that call is about to replace is already marked (`ReplacedInside`).
Where no publish came between the halves of a close, a session whose publisher
is being closed has no live publisher registered (`ClosingAlone`), so
resetting `publisher_` harms nobody. `SessionPlayersExact`,
`SessionPublisherLive` and `SessionPublisherKept` are parts of the invariant.
`Entering` counts the user of an enclosing `SetPublisher` too: with several
commands per connection and two connections on a loop, the `onClose` inside it
runs in the same thread before the new publisher is registered. No bound on
commands, sessions, loops or connections is used.

**NetworkProofs.** `NetworkInvariant` proves `LoopInv`, from which the six
properties of the run `Network` follow, for any sets of connections and
descriptors, any room of sockets and pipe and any programs. Nothing less was
inductive:

- *descriptors* (`MapInv`): no two objects have one descriptor, an entry of the
  map names the owner of its descriptor or a closed `UdpServer`, and what epoll
  watches is found again under its descriptor. Without it `removeEvent`, which goes
  by descriptor, could take another's entry.
- *the server* (`ServerInv`): its connections are open and watched; whoever is in
  the backlog has no descriptor yet and is there once.
- *bytes* (`BytesOK`): what was written, followed by what the list holds, is 1, 2,
  ... up to what was asked, in blocks; who awaits a completion has a block.
- *sockets and status* (`SocketInv`, `StatusInv`): a client that is still
  connecting has nothing written or queued and asks for `EPOLLOUT`.
- *notice* (`Noticed`): what a watched connection has to read or can write is in
  `ready`, or in an event of the batch not yet dispatched, or it is the one in
  `onWrite`. This is the heart of `NothingUnnoticed`: edges are taken from epoll
  all at once, so between `epoll_wait` and the last handler only the batch knows
  of them, and `onWrite` must not return while it knows.
- *the batch* (`BatchInv`): an event is about whoever had the descriptor, and it
  says `EPOLLERR` or `EPOLLHUP` only of a connection that ended. So an event that
  closes without cause met the owner of a reused descriptor, and that owner is in
  `stray`.
- *tasks and the pipe* (`TasksInv`, `WakeInv`): an object is started by one task at
  most and found in the state its handler expects; a full pipe has an event to
  come, so that the wakeup which `wakeup` could not write is not needed.

The first part of the module is about data: `FlattenSeq` of lists and `Rest`, what
`writev` leaves. Both are recursive functions over data of any length;
`FlatteningExists`, `TurnsExist` and the lemmas behind them go by induction over
the numbers (`Counted`, from the least number that is not in a set), and `RestIs`
says that the list afterwards is the bytes that were not written. The second
part says what each operation of `EventLoop` changes (`Elsewhere`, `Linked`), the
third that every outcome of a handler is `Handled`: it starts nobody, loses no
notice, and closes for a cause. Since handlers call each other through the
program's reactions, `Handled` is transitive, and the steps of the loop are
composed from it. Opening is different, since it gives an object a descriptor
(`FollowsBut`).

The end of the module is about `PlayerPump`. `PumpTypeOK` and `PumpActiveIsDriven` hold for any set of
publishers. `PumpSleepsCaughtUp` assumes one publisher and proves `PumpInv`:
whatever a player still has to fetch or write has an activation, a look at the
stream or a write ahead of it, or an activation was missed. `Behind` has to
except the newest frame while its publisher is still on its way to post.

**TimingWheelProofs.** `TimingWheelInvariant` proves `IInv`. Every reference in
the wheels knows how many ticks are left until it is dropped: from its wheel,
its slot, the delay it still carries and the phase of the minute. For a timer
this is its delay less the ticks since it was set, up to a minute less when the
minute wheel was begun (`TimerInv`); for a connection, whose every read and write
adds a reference, the farthest one is `MaxIdle` less the ticks since the last
of them, and no reference is farther (`ConnInv`). A tick is followed in the
stages of `OnTimer`: the wheel turns, what it dropped fires and may insert
itself again, the coarser wheel is popped, what it dropped goes into a finer
one or fires. `CoarserWheels` never yields hours or days. Time per tick is
`KeepsTime`. `TimingWheelIdle` and `TimingWheelTimers` follow for every size of
the wheels, every limit and every delay.

**RtmpHandShakeProofs.** `HandshakeInvariant` proves `HandshakeInv`, an invariant
of each side on its own: what it has taken follows from its step, and a posted
packet has bytes left to write. The lemmas follow the calls: `SendKeeps` with a
completion inside it, `HandShakeKeeps` case by case, `ParseKeeps`. It yields
`HandshakePosted` and `HandshakeThenMessages`, whatever the sizes and wherever
TCP cuts. `HandshakeFlows` proves `FlowInv`, which relates the two sides: the
client has read no more than the server has put, and what a server has put and
not yet put adds up to S0S1, S2 and the bytes that failed writes added.
`HandshakeClientWaits` follows: a client that has all of S2 talks to a server
that has nothing to send but such a byte.

The module begins with `Digest`, for all sums of the four bytes, not only the
one TLC uses: `DigestMeetsNothing` is the arithmetic of `GetDigestOffset`, `% 728`
and the two bases; from it `OwnPacketAccepted` and `OtherPacketsAccepted` (the
signed range is what the reader verifies) and `StrangersRefused`. The packets
that `RtmpHandShake` starts with are exactly these.

**MsgBufferProofs.** The invariant says that the storage has the length the
capacity claims and that head and tail are in it in order. Reading a range is
described by lemmas for each way to write one (write, insert, move, grow);
`MsgBufferIsQueue` maps each operation to a step of `ByteQueue`, with
`MsgBufferTypeOK` and `MsgBufferSizeFollowsCapacity` on the way.
`MsgBufferNumbers` is that a number in front or behind comes back: the bytes are
those of its quotient and remainder (`TwoBytes`), and `AddInFrontPrepends`,
`AppendToAppends` and `RetrieveTakes` say where they are.

**LiveServerProofs.** `LiveServerInvariant` proves `LoopInv`: where main is tells
which threads have kept their promises (all it has started) and which of
these have their servers, and a thread that nobody tells to quit goes on, its
loop being there from the promise to the end of the thread. `LiveServerServers`
follows. It assumes what `LiveServerAssumption` says of the instance, among it
that `Threads` has as many threads as a configuration may ask for.
`LiveServerHosts` needs of the DNS thread that what it holds is a list of
addresses and of the map that hosts stay in it and only a list that is not
empty replaces another (`HostInv`); the index is reduced to a position of the
list by arithmetic.

`ConfigReadAsWritten` is about the three nested loops of the configuration. What
`FoldLeft` computes is first shown to be a loop, member after member
(`FoldExists`, `FoldParses`); then each loop keeps, after every member, what the
places read so far say (`AppsSay`, `DomainsSay`): of the files for a domain the
last, of the entries for an application the first. `LiveServerConfig` adds that
only `Load` touches the configuration and takes all of a file or nothing
(`FileInv`). Of the files it assumes that their lists are lists (`Listed`), which
JSON arrays and `readdir` are.

The end of the module is about `Bytes` and `InetAddress`. `NumbersReadBack` and
`BytesWrittenBack`: readers and writers of two, three and four bytes are inverse,
modulo the width of the field. `PeerKeepsAddress` (a peer's address survives the
way from a socket and back), `PrintedHostReadBack` (its text does only for
IPv4), `LanIsPrivate`, `WanIsTheRest`, `PortOfHost`.

**Only model-checked.** Liveness and `ENABLED` are out of the prover's reach, so
the temporal properties of `Session_leave`, `ActivationDelivers`,
`HandshakeCompletesUnlessGarbled` and `CallsReturnUnlessEarly` stay with TLC. So do
recursive operators: `Amf` and `RtmpCommand` decode recursively. `RtmpChunk` has
no proofs yet.

## 5. Findings

Two runs find the code at odds with what one of its comments says; `findings` of
`PROJECT.json` quotes each.

- `Session_republish`: a connection that publishes twice on one name closes itself
  inside `SetPublisher` (SE:228), which holds `lock_`; the close runs inline, and
  `CloseUser` locks `lock_` again. The comment at SE:276 explains that
  `CloseUserNoLock` exists so that `Clear` does not run into just that. A client
  that sends one command, as the repository's own does, never gets there.
- `RtmpHandShake_late`: a client that finds S0S1 without all of S2 sends C2 and is
  done; `HandShake` has no case for `Done` (HS:240), so the 0 on which connect is
  sent never comes, although HS:255 calls a late S2 harmless. Both sides wait until
  the idle timeout.

## 6. Observations

Facts the models contain, as exceptions of a property or as a choice of an
action, and no run of their own is spent on.

*Streams and players.*

- `min_idx > 0` skips the clean-up of the GOP list at exactly one packet (ST:139):
  a player that joins then starts at a packet that is not a key frame.
- A sequence header or metadata in mid-stream sets `lastest_timestamp_` to 0, and
  until the next media packet a joining player measures every GOP against 0.
- `SkipFrame` returns as soon as a GOP is found: a player that was overtaken
  resumes at the oldest packet its position leads to, not at a key frame with
  fresh headers. `DecodableUnlessGap` excludes what follows such a gap.
- A frame that arrives between a player's last look at the stream and
  `deactive` wakes nobody (RP:83).
- A publisher that was replaced feeds the stream until its own loop runs the
  close; with two feeders the second read of `frame_index_` may skip an index
  that activates.

*Sessions.*

- `CloseUser` marks its user before it takes the lock and then resets whatever
  publisher the session has by then (SE:165).
- `OnTimer` is a task of `TaskMgr`, and nothing calls `TaskMgr::OnWork`. So no idle
  session is ever closed, although LS:303 says that it is looked for every five
  seconds, and no property says that one is. `TimerRuns = TRUE` in the run adds what
  happens if somebody runs the task. `FindSession` and `CloseSession` have no callers.
- `CloseUserNoLock` takes every user for a publisher (SE:283), and `Clear` closes only
  while `publisher_` is set. The players after it, and all of a session without a
  publisher, are marked destroyed and stay connected, which
  `DestroyedPublisherGetsClosed` does not ask about: `Clear` runs from `OnTimer` and
  `CloseSession`, so only if somebody calls one of them.
- A connection that plays or publishes a second time keeps only its latest
  user (LS:149); the earlier one stays in its session when the connection closes.

*RTMP.*

- The value 2 that `Parse` waits for is never returned by `HandShake`. A server that
  reads C2 before S2 is written may never look at it. The comment at RtmpHandShake.h:73 has a failed digest
  fall back to the simple handshake; the code closes. The server makes S1
  complex before it sees C1, S2 of a simple handshake does not echo C1, and C2
  and S2 are not checked.
- `BuildChunk(const PacketPtr &)` tests `!prev` where `prev` is meant (RC:384), so
  media is always sent with a full header; extended timestamps are copied in
  host order (RC:462, RC:1330); a continuation chunk after an extended timestamp
  adds its difference again; `HandleAckWindowSize` sets the chunk size (RC:724);
  after an empty message a format without a length gets the room of a chunk
  (RC:180). These are the exceptions of `DeliveredAsSent` and `TimeAsSent`.
- `SendUserCtrlMessage` overwrites the message type (RC:691). The events of pings
  are numbered 5 and 6 instead of 6 and 7 (RtmpContext.h:42).
- The server never answers with a result number 5, so the own client's
  `OnPublishPrepare` is never called (RC:1191). The client's URL of five parts
  keeps its parameters in the session's name (RC:1092), which
  `SameStreamSameSession` excepts. A URL of fewer than four parts is `exit(-1)`
  (RC:1098), on the side that parses it: of the client's own process if its URL
  has a port but no application, of the server if another client says such a URL in
  connect. A connect without `app` in its object or `tcUrl`, and an empty command,
  are read through a null pointer (RC:823, RC:884). The clients of the run say
  none of the latter, so `ServerKeepsRunning` is about clients that keep to the
  commands and name a domain and an application. StreamBegin and the status are sent before the
  service may refuse (RC:1057).
- Elements of a strict array are decoded as if they had names
  (AMFObject.cpp:172); a value in the last two bytes of a body is not decoded
  (AMFObject.cpp:55); `ReadUint64T` truncates doubles (BytesReader.cpp:24).

*Loop and connections.*

- Events of one batch are dispatched by descriptor: one that an earlier handler
  closed and another reopened is told of what was not its own. `loop` keeps a
  reference into the map that `onRead` may erase (EL:67).
- After a direct write that takes a part of a block, `sendInLoop` queues the block's
  beginning, not its rest (TCP:288), against the comment on the line before; this
  is the exception of `BytesInOrderUnlessShort`.
- A direct write that fails adds a byte to what is queued, since its result -1 is
  taken from an unsigned count (TCP:265, TCP:289), and its error has been told: epoll
  does not report it again. `onWrite` repeats
  until everything is written (TCP:135): a slow reader holds its whole loop, and
  a write after a reset is a SIGPIPE.
- A `UdpServer` that closes leaves its entry in the map: a connection that later
  gets its descriptor is never watched. Its `onWrite` does not return when its
  list is empty, and a node of no bytes is written for ever.
- The first `wakeup` makes the pipe on the calling thread; `TcpServer::Stop`
  removes its event off the loop's thread. With no free descriptor the acceptor
  closes and reopens its socket and turns away whoever was waiting. The acceptor's
  socket is in epoll before it is bound, and `bind`'s result is not looked at: with
  its port in use it listens on one the kernel picks, and nobody connects.
- Timers of a minute or more may fire up to a minute early, because minutes
  are counted from the last full one; `RunEvery(90)` repeats at 60 seconds or a
  little more. Timers of an hour or more never fire. A delay beyond 30 days, or
  of 0, fires at once, and `RunEvery` with less than a second never returns.
- A tick takes more than one second and up to two, so 30 seconds of allowed
  idleness may become a minute.

*The rest.*

- `~EventLoopThread` may call `quit` after the promise is kept and before `loop`
  sets `m_looping`: the thread then loops and `join` never returns. A pool
  destroyed at once, as in `EventLoopThreadTest`, and `RtmpServerTest` without
  its configuration can meet it.
- `DnsServer::OnWork` iterates `hosts_info_` without its lock; `GetHostInfo` reads
  the address from the bytes of a pointer (DnsServer.cpp:185), so what it finds
  is never the host's, and a failed `getaddrinfo` leaves `res` uninitialised. `Stop`
  waits for the rest of the interval.
- Tasks run under `TaskMgr`'s lock: `Add` or `Del` from one would wait for itself.
- A service without a port makes `asUInt` of the text "0" throw, and the process
  ends, as with every member of another type than the one it is read as. A later file for a domain replaces the earlier one with all its
  applications. `content_latency` is converted to milliseconds, modulo 2^32,
  `stream_idle` and the timeout are not.
- An address text that is none leaves an IPv4 sockaddr as it was, since
  `inet_pton`'s 0 is not tested; IPv6 becomes "::". A printed IPv6 address does
  not read back. 127.0.0.2, names and "::1" are WAN addresses; a port is taken
  modulo 65536.
- `MsgBuffer` grows by taking over the new capacity as its initial one, so
  `RetrieveAll` never shrinks; a buffer made with fewer than eight bytes would be.

## 7. Not modelled

- Contents of media packets, statistics, logging, the vendored logger
  (`easylogging++`), the bits of a double and HMAC itself: data the properties do
  not tell apart, or other people's code.
- Socket options (`SocketOpt`'s setters): single system calls without state here.
- `StringUtils`, `TTime`: their results are part of the operations that call
  them. `TaskManager` is an unused twin of `TaskMgr`; `TestContext` echoes.
- The 4096 bytes of the header buffer `out_buffer_`: a batch of large messages
  can need more, and `RtmpChunk` has no such limit.
- Data races as such. Where a race is benign the models let the reader see any
  value; where it is undefined on a container (`hosts_info_`, an erased event)
  the action chooses among going on and the end of the process.
- Connecting a `TcpClient` again after it closed, which the repository never does.

Worth doing next: an inductive invariant for `RtmpChunk` (`EveryByteCountedOnce`
first; `DeliveredAsSent` needs the chunks in flight related to both ends).

## 8. Running

    tlc -workers 2 -config Stream_player.cfg MCStream
    tlc -workers 2 -config TimingWheel.cfg TimingWheel
    tlapm StreamProofs.tla

The other runs follow the same pattern; `PROJECT.json` names the module of
each. `Stream_player`, `RtmpCommand` and `TimingWheel` take about a minute on two
cores, the rest seconds. `NetworkProofs` is the
longest proof, about 20 minutes from nothing; `StreamProofs` and
`MsgBufferProofs` take some minutes each.

------------------------------ MODULE RtmpChunk ------------------------------
(* The chunk layer of one direction of an RTMP connection after the          *)
(* handshake: messages are cut into chunks (RtmpContext::BuildChunk, Send),  *)
(* TCP cuts the bytes anywhere, and the other side puts the messages         *)
(* together again (RtmpContext::ParseMessage).                               *)
(*                                                                           *)
(* The writer is this code as a client, this code as a server, or an         *)
(* encoder that publishes (external, any chunk stream that obeys RTMP). The  *)
(* reader is always this code.                                               *)
(*                                                                           *)
(* The wire is a sequence of tokens: "b" a basic header with the format and  *)
(* the chunk stream, "h" the fields that follow it, "e" an extended          *)
(* timestamp, "d" one unit of body, named by its message and its index. The  *)
(* sizes 128, 4096 and 2500000 are counted in units of body. Timestamps have *)
(* Width values; the two halves of one are swapped when it is written in the *)
(* order of the host and read in the order of the network.                   *)
EXTENDS Integers, Sequences, FiniteSets, SequencesExt

CONSTANTS
    Csids,          \* chunk streams of media; control uses 2, commands 3
    Lengths,        \* lengths of a command or a media message
    Times,          \* timestamps a media message may have
    Half,           \* a timestamp has two digits below Half
    ExtMark,        \* 0xFFFFFF: this and later timestamps are extended
    InitialChunk,   \* in_chunk_size_ of a new context, 128
    OutChunk,       \* out_chunk_size_, 4096
    Window,         \* ack_size_, 2500000, as a number of units of body
    AckEvery,       \* ack_size_ as a number of tokens
    Batch,          \* messages one Send takes from the queue, 10
    Writers,        \* who may write: "client", "server", "encoder"
    MaxMessages,    \* bound on the messages that follow the opening ones
    None

ASSUME SizesAssumption ==
    /\ {Half, ExtMark, InitialChunk, OutChunk, Window, AckEvery, Batch, MaxMessages} \subseteq Nat \ {0}
    /\ InitialChunk <= OutChunk
    /\ ExtMark < Half * Half
    /\ Times \subseteq 0 .. (Half * Half - 1)
    /\ Lengths \subseteq Nat

VARIABLES
    writer,     \* who writes in this behaviour
    msgs,       \* every message given to the writer
    written,    \* the messages whose last chunk was written, in that order
    out,        \* out_message_headers_, out_deltas_ and whether the reader can know the time
    opened,     \* SendConnect or HandleConnect was called
    waiting,    \* out_waiting_queue_
    sending,    \* sending_
    cur,        \* the message an encoder is in the middle of, per chunk stream
    chunk,      \* the chunk size of the writer
    dead,       \* the writer's process ended
    net,        \* tokens on their way
    buf,        \* tokens in the reader's buffer
    parsing,    \* ParseMessage is in its loop
    in,         \* in_message_headers_, in_packets_, in_deltas_, in_ext_, in_chunk_size_
    count,      \* in_bytes_ and last_left_, all that arrived and all that was acknowledged
    got,        \* the messages MessageComplete was given
    odd,        \* what the reader met that RTMP treats otherwise
    lost        \* the reader took a header for a body or a body for a header

sender == <<writer, msgs, written, out, opened, waiting, sending, cur, chunk, dead>>
reader == <<buf, parsing, in, count, got, odd, lost>>
vars == <<sender, net, reader>>

AllCsids == Csids \cup {2, 3}
Kinds == {"chunksize", "window", "command", "media"}
ZeroHeader == [ts |-> 0, len |-> 0, type |-> "command", sid |-> 0]

Small(a, b) == IF a < b THEN a ELSE b
Wrap(ts) == ts % (Half * Half)
Swap(ts) == (ts % Half) * Half + ts \div Half
Mark(ts) == Small(ts, ExtMark)

Tok(k, v) == [k |-> k, v |-> v]
Units(m, from, to) == [i \in 1 .. (to - from + 1) |-> Tok("d", <<m, from + i - 1>>)]

-----------------------------------------------------------------------------
(* Writing. A message has csid, type, sid, len and ts; value is the number   *)
(* its body holds when it sets a size.                                       *)

Fields(fmt, field, m) ==
    CASE fmt = 0 -> <<Tok("h", <<Mark(field), m.len, m.type, m.sid>>)>>
      [] fmt = 1 -> <<Tok("h", <<Mark(field), m.len, m.type>>)>>
      [] fmt = 2 -> <<Tok("h", <<Mark(field)>>)>>
      [] OTHER   -> <<>>

(* The extended timestamp, as whoever reads it in network order sees it.     *)
Extended(field, shown) == IF field >= ExtMark THEN <<Tok("e", <<shown>>)>> ELSE <<>>

Chunks(id, fmt, field, shown, size) ==
    LET m == msgs'[id]
        n == IF m.len = 0 THEN 1 ELSE (m.len + size - 1) \div size
        Body(i) == Units(id, (i - 1) * size + 1, Small(i * size, m.len))
        Head1 == <<Tok("b", <<fmt, m.csid>>)>> \o Fields(fmt, field, m) \o Extended(field, shown)
        Next1 == <<Tok("b", <<3, m.csid>>)>> \o Extended(field, shown)
    IN  FlattenSeq([i \in 1 .. n |-> (IF i = 1 THEN Head1 ELSE Next1) \o Body(i)])

UseDelta(o, m) ==
    /\ o.prev[m.csid] # None
    /\ m.ts >= o.prev[m.csid].ts
    /\ m.sid = o.prev[m.csid].sid

FmtFor(o, m) ==
    IF ~UseDelta(o, m) THEN 0
    ELSE IF m.type # o.prev[m.csid].type \/ m.len # o.prev[m.csid].len THEN 1
    ELSE IF m.ts - o.prev[m.csid].ts # o.delta[m.csid] THEN 2
    ELSE 3

Field(o, fmt, m) == IF fmt = 0 THEN m.ts ELSE m.ts - o.prev[m.csid].ts

(* The reader keeps 0xFFFFFF for an extended timestamp of format 0, and adds *)
(* a difference once per chunk: after that it does not know the time of this *)
(* chunk stream until a plain format 0.                                      *)
Doubtful(o, fmt, field, m, swapped) ==
    IF field >= ExtMark THEN fmt = 0 \/ swapped \/ m.len > chunk
    ELSE fmt # 0 /\ o.doubt[m.csid]

After(o, fmt, field, m, swapped) ==
    [prev  |-> [o.prev EXCEPT ![m.csid] = [ts |-> m.ts, len |-> m.len, type |-> m.type, sid |-> m.sid]],
     delta |-> [o.delta EXCEPT ![m.csid] = IF fmt = 0 THEN 0 ELSE field],
     diff  |-> [o.diff EXCEPT ![m.csid] = fmt # 0],
     doubt |-> [o.doubt EXCEPT ![m.csid] = Doubtful(o, fmt, field, m, swapped)],
     sure  |-> IF Doubtful(o, fmt, field, m, swapped) THEN o.sure ELSE o.sure \cup {m.id},
     toks  |-> o.toks \o Chunks(m.id, fmt, field, IF swapped THEN Swap(field) ELSE field, chunk)]

(* BuildChunk(PacketPtr &&): what Send builds.                               *)
BuildChunk(o, id) ==
    LET m == msgs'[id] IN After(o, FmtFor(o, m), Field(o, FmtFor(o, m), m), m, TRUE)

(* BuildChunk(const PacketPtr &): its test of prev is negated, so a message  *)
(* is never written as a difference.                                         *)
BuildMediaChunk(o, id) == After(o, 0, msgs'[id].ts, msgs'[id], TRUE)

Emit(o) ==
    /\ out' = [o EXCEPT !.toks = <<>>]
    /\ net' = net \o o.toks

Message(id, csid, type, sid, len, ts, value) ==
    [id |-> id, csid |-> csid, type |-> type, sid |-> sid, len |-> len, ts |-> ts, value |-> value]
NextId == Len(msgs) + 1
More == NextId <= MaxMessages + (CASE writer = "server" -> 4 [] writer = "client" -> 2 [] OTHER -> 0)

(* Send with nothing being sent: a batch of what waits in queue is built and  *)
(* handed to TCP; later is what comes to wait behind it.                     *)
Send(queue, later) ==
    LET n == Small(Batch, Len(queue)) IN
    /\ Emit(FoldLeft(BuildChunk, out, SubSeq(queue, 1, n)))
    /\ written' = written \o SubSeq(queue, 1, n)
    /\ waiting' = SubSeq(queue, n + 1, Len(queue)) \o later

(* PushOutQueue of each of ids in turn: the first is built at once when      *)
(* nothing is being sent, the rest wait.                                     *)
PushOutQueue(ids) ==
    /\ sending' = TRUE
    /\ IF sending
       THEN waiting' = waiting \o ids /\ UNCHANGED <<out, net, written>>
       ELSE Send(<<Head(ids)>>, Tail(ids))

SetSize(id, type, value) == Message(id, 2, type, 0, 1, 0, value)

(* SendConnect announces the chunk size and sends connect. HandleConnect     *)
(* announces the window, the bandwidth and the chunk size and answers.       *)
Opening ==
    IF writer = "client" THEN <<SetSize(1, "chunksize", OutChunk)>>
    ELSE <<SetSize(1, "window", Window), SetSize(2, "command", Window), SetSize(3, "chunksize", OutChunk)>>

Open ==
    /\ writer # "encoder" /\ ~opened
    /\ \E len \in Lengths \ {0} :
        /\ msgs' = Append(Opening, Message(Len(Opening) + 1, 3, "command", 0, len, 0, 0))
        /\ PushOutQueue([i \in 1 .. (Len(Opening) + 1) |-> i])
    /\ opened' = TRUE
    /\ UNCHANGED <<writer, cur, chunk, dead, reader>>

(* Any later user control or acknowledgement message, of kRtmpCSIDCommand,   *)
(* or command or status, of kRtmpCSIDAMFIni.                                 *)
Command(c, sid, len) ==
    /\ opened /\ ~dead
    /\ More
    /\ msgs' = Append(msgs, Message(NextId, c, "command", sid, len, 0, 0))
    /\ PushOutQueue(<<NextId>>)
    /\ UNCHANGED <<writer, opened, cur, chunk, dead, reader>>

(* Mutant: CheckAndSend does not look at the waiting queue.                  *)
WriteCompleteWithoutSend ==
    /\ sending /\ ~dead
    /\ sending' = FALSE
    /\ UNCHANGED <<writer, msgs, written, out, opened, waiting, cur, chunk, dead, net, reader>>

(* CheckAndSend after everything handed to TCP was written.                  *)
WriteComplete ==
    /\ sending /\ ~dead
    /\ UNCHANGED msgs
    /\ sending' = (waiting # <<>>)
    /\ Send(waiting, <<>>)
    /\ UNCHANGED <<writer, opened, cur, chunk, dead, reader>>

(* RtmpPlayerUser::PushFrame when the context is Ready: a header packet, sent *)
(* in full with time 0, or a frame. Without a header of an earlier packet of *)
(* its chunk stream, a frame makes BuildChunk read through a null pointer,   *)
(* which ends the process unless the compiler has dropped the read.          *)
PushFrame(c, len, ts, isHeader) ==
    /\ writer = "server" /\ opened /\ ~sending /\ ~dead
    /\ More
    /\ msgs' = Append(msgs, Message(NextId, c, "media", 1, len, IF isHeader THEN 0 ELSE ts, 0))
    /\ \/ /\ sending' = TRUE
          /\ Emit(BuildMediaChunk(out, NextId))
          /\ written' = Append(written, NextId)
          /\ UNCHANGED dead
       \/ /\ ~isHeader /\ out.prev[c] = None
          /\ dead' = TRUE
          /\ UNCHANGED <<sending, out, net, written>>
    /\ UNCHANGED <<writer, opened, waiting, cur, chunk, reader>>

-----------------------------------------------------------------------------
(* An encoder that publishes: it chooses any format RTMP allows, format 3    *)
(* for a message only where the difference was sent before, and mixes the    *)
(* chunks of different chunk streams.                                        *)

Allowed(fmt, m) ==
    \/ fmt = 0
    \/ /\ UseDelta(out, m)
       /\ fmt >= 2 => m.type = out.prev[m.csid].type /\ m.len = out.prev[m.csid].len
       /\ fmt = 3 => out.diff[m.csid] /\ m.ts - out.prev[m.csid].ts = out.delta[m.csid]

(* One chunk of message id: units is what follows of its body.               *)
WriteChunk(id, head, field, from) ==
    LET m == msgs'[id]
        to == Small(from + chunk - 1, m.len)
        ended == to = m.len
    IN  /\ net' = net \o head \o Extended(field, field) \o Units(id, from, to)
        /\ cur' = [cur EXCEPT ![m.csid] = IF ended THEN None
                                               ELSE [id |-> id, next |-> to + 1, field |-> field]]
        /\ written' = IF ended THEN Append(written, id) ELSE written
        /\ chunk' = IF ended /\ m.type = "chunksize" THEN m.value ELSE chunk

Start(m, fmt) ==
    /\ writer = "encoder"
    /\ More
    /\ cur[m.csid] = None
    /\ Allowed(fmt, m)
    /\ msgs' = Append(msgs, m)
    /\ out' = [After(out, fmt, Field(out, fmt, m), m, FALSE) EXCEPT !.toks = <<>>]
    /\ WriteChunk(m.id, <<Tok("b", <<fmt, m.csid>>)>> \o Fields(fmt, Field(out, fmt, m), m),
                   Field(out, fmt, m), 1)
    /\ UNCHANGED <<writer, opened, waiting, sending, dead, reader>>

EncoderMessages ==
    {Message(NextId, c, "media", 1, len, ts, 0) : c \in Csids, len \in Lengths, ts \in Times}
        \cup {SetSize(NextId, "chunksize", OutChunk), SetSize(NextId, "window", Window)}

Continue(c) ==
    /\ writer = "encoder"
    /\ cur[c] # None
    /\ UNCHANGED msgs
    /\ WriteChunk(cur[c].id, <<Tok("b", <<3, c>>)>>, cur[c].field, cur[c].next)
    /\ UNCHANGED <<writer, out, opened, waiting, sending, dead, reader>>

-----------------------------------------------------------------------------
(* Reading.                                                                  *)

(* SendBytesRecv. The mutant goes on counting after an acknowledgement.      *)
SendBytesRecvCountingOn(c) == IF c.bytes >= AckEvery THEN [c EXCEPT !.acked = @ + c.bytes] ELSE c

SendBytesRecv(c) ==
    IF c.bytes >= AckEvery THEN [c EXCEPT !.acked = @ + c.bytes, !.bytes = 0] ELSE c

(* OnMessage: TCP brings any number of tokens, ParseMessage counts them and  *)
(* acknowledges a full window.                                               *)
Deliver(n) ==
    /\ ~parsing /\ ~lost
    /\ n \in 1 .. Len(net)
    /\ buf' = buf \o SubSeq(net, 1, n)
    /\ net' = SubSeq(net, n + 1, Len(net))
    /\ parsing' = TRUE
    /\ count' = SendBytesRecv([count EXCEPT !.arrived = @ + n, !.bytes = @ + (Len(buf') - count.left)])
    /\ UNCHANGED <<sender, in, got, odd, lost>>

(* What one turn of the loop finds in the header at the front of the buffer. *)
First == buf[1]
InFmt == First.v[1]
InCsid == First.v[2]
Before == IF in.prev[InCsid] = None THEN ZeroHeader ELSE in.prev[InCsid]
HeaderLen == IF InFmt = 3 THEN 1 ELSE 2
Tail1 == SubSeq(buf, HeaderLen + 1, Len(buf))

HeaderHere == Len(buf) >= 2
OutOfStep == First.k # "b" \/ (InFmt # 3 /\ buf[2].k # "h")

(* Mutant: a message without a length of its own gets a whole chunk.         *)
RoomOfChunk == IF InFmt <= 1 THEN buf[2].v[2] ELSE in.chunk

(* msg_len is only zero here after an empty message.                         *)
Room ==
    IF InFmt <= 1 THEN buf[2].v[2]
    ELSE IF Before.len = 0 THEN in.chunk ELSE Before.len
Packet ==
    IF in.packet[InCsid] # None THEN in.packet[InCsid]
    ELSE [room |-> Room, body |-> <<>>, header |-> ZeroHeader]

(* Mutant: a full header leaves the difference of an earlier one in place.   *)
InDeltaKept == IF InFmt \in {1, 2} THEN buf[2].v[1] ELSE in.delta[InCsid]

InDelta == CASE InFmt = 0 -> 0 [] InFmt \in {1, 2} -> buf[2].v[1] [] OTHER -> in.delta[InCsid]
InHeader ==
    LET p == Packet.header IN
    CASE InFmt = 0 -> [ts |-> buf[2].v[1], len |-> buf[2].v[2], type |-> buf[2].v[3], sid |-> buf[2].v[4]]
      [] InFmt = 1 -> [Before EXCEPT !.ts = Wrap(@ + InDelta), !.len = buf[2].v[2], !.type = buf[2].v[3]]
      [] InFmt = 2 -> [Before EXCEPT !.ts = Wrap(@ + InDelta)]
      [] OTHER     -> [Before EXCEPT !.ts = IF p.ts = 0 THEN Wrap(@ + InDelta) ELSE p.ts]
InExt == IF InFmt = 3 THEN in.ext[InCsid] ELSE buf[2].v[1] = ExtMark

(* The header again, with the extended timestamp that follows it.            *)
ExtHeader == IF InFmt = 0 THEN InHeader ELSE [InHeader EXCEPT !.ts = Wrap(Before.ts + Tail1[1].v[1])]
ExtDelta == IF InFmt = 0 THEN InDelta ELSE Tail1[1].v[1]

(* What stays of a turn whose body is not complete: the loop has written its *)
(* maps before it finds that bytes are missing.                              *)
Remember(header, delta) ==
    [in EXCEPT !.prev[InCsid] = Before,
               !.packet[InCsid] = [Packet EXCEPT !.header = header],
               !.delta[InCsid] = delta,
               !.ext[InCsid] = InExt]

Stop(i, o) ==
    /\ in' = i /\ odd' = o
    /\ parsing' = FALSE
    /\ count' = [count EXCEPT !.left = Len(buf)]
    /\ UNCHANGED <<buf, got, lost>>

(* The packet is given room for a whole chunk after an empty message.        *)
OddNow ==
    IF in.packet[InCsid] = None /\ InFmt >= 2 /\ Before.len = 0 THEN odd \cup {"empty"} ELSE odd

(* MessageComplete: HandleChunkSize, HandleAckWindowSize, or the handlers of *)
(* commands and media. A window is stored as a chunk size.                   *)
SizeAfter(header, body) ==
    IF header.type \in {"chunksize", "window"} THEN msgs[body[1].v[1]].value ELSE in.chunk
OddAfter(header) ==
    CASE header.type = "window" -> OddNow \cup {"window"}
      [] header.type = "chunksize" -> OddNow \ {"window"}
      [] OTHER -> OddNow
Received(header, body) ==
    [id |-> IF body = <<>> THEN 0 ELSE body[1].v[1], csid |-> InCsid, units |-> body,
     type |-> header.type, sid |-> header.sid, ts |-> header.ts]

Take(header, delta, rest) ==
    LET n == Small(Packet.room - Len(Packet.body), in.chunk)
        body == Packet.body \o SubSeq(rest, 1, n)
        full == Len(body) = Packet.room
        i == Remember(header, delta)
        strange == \E j \in 1 .. n : rest[j].k # "d"
    IN  IF Len(rest) < n THEN Stop(i, OddNow)
        ELSE IF strange
        THEN lost' = TRUE /\ odd' = OddNow /\ UNCHANGED <<buf, parsing, in, count, got>>
        ELSE /\ buf' = SubSeq(rest, n + 1, Len(rest))
             /\ in' = [i EXCEPT !.prev[InCsid] = header,
                                !.packet[InCsid] = IF full THEN None ELSE [@ EXCEPT !.body = body],
                                !.chunk = IF full THEN SizeAfter(header, body) ELSE @]
             /\ got' = IF full THEN Append(got, Received(header, body)) ELSE got
             /\ odd' = IF full THEN OddAfter(header) ELSE OddNow
             /\ UNCHANGED <<parsing, count, lost>>

(* One turn of the loop of ParseMessage.                                     *)
ParseMessage ==
    /\ parsing /\ ~lost
    /\ UNCHANGED <<sender, net>>
    /\ IF ~HeaderHere THEN Stop(in, odd)
       ELSE IF OutOfStep THEN lost' = TRUE /\ UNCHANGED <<buf, parsing, in, count, got, odd>>
       ELSE IF ~InExt THEN Take(InHeader, InDelta, Tail1)
       ELSE IF Tail1 = <<>> THEN Stop(Remember(InHeader, InDelta), OddNow)
       ELSE IF Tail1[1].k # "e" THEN lost' = TRUE /\ UNCHANGED <<buf, parsing, in, count, got, odd>>
       ELSE Take(ExtHeader, ExtDelta, Tail(Tail1))

-----------------------------------------------------------------------------
Init ==
    /\ writer \in Writers
    /\ msgs = <<>> /\ written = <<>>
    /\ out = [prev |-> [c \in AllCsids |-> None], delta |-> [c \in AllCsids |-> 0],
              diff |-> [c \in AllCsids |-> FALSE], doubt |-> [c \in AllCsids |-> FALSE],
               sure |-> {}, toks |-> <<>>]
    /\ opened = FALSE /\ waiting = <<>> /\ sending = FALSE /\ dead = FALSE
    /\ cur = [c \in AllCsids |-> None]
    /\ chunk = IF writer = "encoder" THEN InitialChunk ELSE OutChunk
    /\ net = <<>> /\ buf = <<>> /\ parsing = FALSE
    /\ in = [prev |-> [c \in AllCsids |-> None], packet |-> [c \in AllCsids |-> None],
             delta |-> [c \in AllCsids |-> 0], ext |-> [c \in AllCsids |-> FALSE], chunk |-> InitialChunk]
    /\ count = [bytes |-> 0, left |-> 0, acked |-> 0, arrived |-> 0]
    /\ got = <<>> /\ odd = {} /\ lost = FALSE

Next ==
    \/ Open
    \/ Command(2, 0, 1)
    \/ \E sid \in {0, 1}, len \in Lengths \ {0} : Command(3, sid, len)
    \/ WriteComplete
    \/ \E c \in Csids, len \in Lengths, ts \in Times, isHeader \in BOOLEAN : PushFrame(c, len, ts, isHeader)
    \/ \E m \in EncoderMessages, fmt \in 0 .. 3 : Start(m, fmt)
    \/ \E c \in AllCsids : Continue(c)
    \/ \E n \in 1 .. Len(net) : Deliver(n)
    \/ ParseMessage

Spec == Init /\ [][Next]_vars

-----------------------------------------------------------------------------
Header == [ts : 0 .. (Half * Half - 1), len : Nat, type : Kinds, sid : {0, 1}]

(* The handlers are given the messages of the other side, in the order in    *)
(* which it finished them, each on its chunk stream with its type, stream    *)
(* and body, however TCP cuts them, as long as the reader has no window for  *)
(* a chunk size and met no format without a length after an empty message    *)
(* (ParseMessage against BuildChunk and against an encoder).                 *)
DeliveredAsSent ==
    /\ lost => odd # {}
    /\ \A i \in DOMAIN got :
        LET m == msgs[written[i]] IN
        /\ i <= Len(written)
        /\ got[i].csid = m.csid /\ got[i].type = m.type /\ got[i].sid = m.sid
        /\ got[i].units = Units(m.id, 1, m.len)

(* A message has the time it was sent with, unless its chunk stream had an   *)
(* extended timestamp since its last plain format 0 (the deltas, the message *)
(* header kept per stream and the extended timestamps of ParseMessage).      *)
TimeAsSent ==
    \A i \in DOMAIN got : written[i] \in out.sure => got[i].ts = msgs[written[i]].ts

(* Every byte that arrives is acknowledged once or still counted, although   *)
(* bytes left by one ParseMessage are seen again by the next (last_left_).   *)
EveryByteCountedOnce == count.acked + count.bytes = count.arrived

(* Nothing is left behind: when no write is under way, nothing is on its way *)
(* and the reader has parsed what it has, the handlers have every message    *)
(* that was pushed, unless the process ended or the reader met one of the    *)
(* two oddities (sending_, the waiting queue and CheckAndSend, and the loop  *)
(* that waits for missing bytes). An empty message of format 3 may wait.     *)
Quiet == ~sending /\ ~parsing /\ net = <<>> /\ \A c \in AllCsids : cur[c] = None
NothingLeftBehind ==
    Quiet => \/ dead \/ odd # {}
             \/ \A id \in DOMAIN msgs : msgs[id].len = 0 \/ \E i \in DOMAIN got : written[i] = id
=============================================================================

------------------------------- MODULE Stream -------------------------------
(***************************************************************************)
(* live::Stream together with what it owns: the ring of recent packets, the *)
(* GopMgr with the position of every buffered key frame, the CodecHeader    *)
(* lists, and the playback state each PlayerUser keeps for this stream.     *)
(*                                                                          *)
(* AddPacket runs on the publisher's event loop and PostFrames on each      *)
(* player's event loop; both do their work on shared state inside lock_, so *)
(* each is one action.  Payloads are abstracted to the kind of the packet.  *)
(*                                                                          *)
(* A timestamp is the previous corrected timestamp of its track plus a step *)
(* taken from Deltas; module TimeCorrector shows that the corrector only    *)
(* produces such timestamps.                                                *)
(***************************************************************************)
EXTENDS Integers, FiniteSetsExt, Sequences

CONSTANTS
  Users,           (* the players of the stream                             *)
  BufferSize,      (* packet_buffer_size_                                   *)
  BatchSize,       (* packets per GetNextFrame                              *)
  ContentLatency,  (* content_latency of the application                    *)
  Deltas,          (* steps between corrected timestamps of one track       *)
  Kinds,           (* the kinds of packet the publisher sends               *)
  MaxFrames        (* bound: packets published                              *)

PacketKinds ==
  {"meta", "meta3", "audioHeader", "videoHeader", "audio", "key", "inter"}

ASSUME StreamAssumption ==
  /\ BufferSize \in Nat \ {0}
  /\ BatchSize \in Nat \ {0}
  /\ ContentLatency \in Nat
  /\ Deltas \subseteq Int
  /\ Kinds \subseteq PacketKinds
  /\ MaxFrames \in Nat

VARIABLES
  frame_index_,        (* index of the newest packet, -1 at first           *)
  packet_buffer_,      (* the ring, a packet or NoPacket in each slot       *)
  ready_,              (* a key frame has arrived                           *)
  gops_,               (* GopMgr: index and timestamp of each key frame     *)
  lastest_timestamp_,  (* GopMgr: timestamp of the newest packet            *)
  codec_headers_,      (* CodecHeader: indices of the headers of each track *)
  clock,               (* TimeCorrector: last corrected timestamp per track *)
  player,              (* the PlayerUser of each user                       *)
  decoder              (* history: what each player's decoder has seen      *)

streamVars == <<frame_index_, packet_buffer_, ready_, gops_,
                lastest_timestamp_, codec_headers_, clock>>
vars == <<streamVars, player, decoder>>

None == -1

NoPacket == [index |-> None, timestamp |-> 0, kind |-> "none"]

Packets == [index : Nat, timestamp : Nat, kind : PacketKinds]

-----------------------------------------------------------------------------
(* Classification of packets.                                               *)

IsVideo(kind) == kind \in {"videoHeader", "key", "inter"}
IsAudio(kind) == kind \in {"audioHeader", "audio"}

(* The second byte of metadata, AAC and AVC sequence headers is zero.       *)
IsCodecHeader(kind) == kind \in {"meta", "audioHeader", "videoHeader"}

(* An AVC sequence header carries the frame type of a key frame.            *)
IsKeyFrame(kind) == kind \in {"videoHeader", "key"}

Track(kind) == IF IsVideo(kind) THEN "video" ELSE "audio"

HeaderTrack(kind) ==
  CASE kind = "meta" -> "meta"
    [] kind = "audioHeader" -> "audio"
    [] OTHER -> "video"

Timed(kind) == ~IsCodecHeader(kind) /\ (IsVideo(kind) \/ IsAudio(kind))

(* Headers and metadata get timestamp 0, a media packet continues its track *)
(* and never goes below 0.                                                  *)
CorrectTimestamp(kind, delta) ==
  IF ~Timed(kind) THEN 0
  ELSE IF clock[Track(kind)] + delta < 0 THEN 0
  ELSE clock[Track(kind)] + delta

-----------------------------------------------------------------------------
(* Publishing.                                                              *)

HasMedia == codec_headers_["meta"] # {}

ParseCodecHeader(packet) ==
  codec_headers_' =
    IF IsCodecHeader(packet.kind)
    THEN [codec_headers_ EXCEPT ![HeaderTrack(packet.kind)] =
            @ \cup {packet.index}]
    ELSE codec_headers_

AddFrame(packet) ==
  IF IsKeyFrame(packet.kind)
  THEN gops_ \cup {[index |-> packet.index, timestamp |-> packet.timestamp]}
  ELSE gops_

ClearExpriedGopLate(gops, min_idx) ==
  IF min_idx > 0 THEN {g \in gops : g.index >= min_idx} ELSE gops

ClearExpriedGop(gops, min_idx) ==
  IF min_idx > 0 THEN {g \in gops : g.index > min_idx} ELSE gops

Slot(index) == index % BufferSize

AddPacket(kind, delta) ==
  LET index  == frame_index_ + 1
      packet == [index |-> index, kind |-> kind,
                 timestamp |-> CorrectTimestamp(kind, delta)]
  IN  /\ index < MaxFrames
      /\ clock' = IF Timed(kind)
                  THEN [clock EXCEPT ![Track(kind)] = packet.timestamp]
                  ELSE clock
      /\ frame_index_' = index
      /\ ready_' = (ready_ \/ IsKeyFrame(kind))
      /\ ParseCodecHeader(packet)
      /\ lastest_timestamp_' = packet.timestamp
      /\ packet_buffer_' = [packet_buffer_ EXCEPT ![Slot(index)] = packet]
      /\ gops_' = ClearExpriedGop(AddFrame(packet), index - BufferSize)
      /\ UNCHANGED <<player, decoder>>

-----------------------------------------------------------------------------
(* Playing.  The operators take the record p of a player and return the     *)
(* record after the call.                                                   *)

(* The walk of GetGopByLatency goes from the newest entry to older ones and *)
(* stops at the first that is too old: it ends on the oldest entry all of   *)
(* whose successors, itself included, are recent.                           *)
RecentGops ==
  {g \in gops_ : \A h \in gops_ :
     h.index >= g.index => lastest_timestamp_ - h.timestamp < ContentLatency}

GetGopByLatency ==
  IF RecentGops = {} THEN None ELSE Min({g.index : g \in RecentGops})

(* CodecHeader::Meta, AudioHeader and VideoHeader for a GOP index.          *)
HeaderAtNewest(track, idx) ==
  IF codec_headers_[track] = {} THEN None ELSE Max(codec_headers_[track])

HeaderAt(track, idx) ==
  LET all   == codec_headers_[track]
      older == {i \in all : i <= idx}
  IN  IF all = {} THEN None
      ELSE IF idx <= 0 \/ older = {} THEN Max(all)
      ELSE Max(older)

Pending(p) ==
  p.meta # None \/ p.audio # None \/ p.video # None \/ p.frames # <<>>

(* The wait flags are all TRUE again when LocateGop returns: a track with   *)
(* headers always yields one, and a track without is not waited for.        *)
OutIndexBefore(idx) == idx - 1

LocateGop(p, idx) ==
  LET meta  == HeaderAt("meta", idx)
      audio == HeaderAt("audio", idx)
      video == HeaderAt("video", idx)
      IndexOr(header, old) == IF header = None THEN old ELSE header
  IN  [p EXCEPT !.out_index = OutIndexBefore(idx),
                !.meta = meta, !.meta_index = IndexOr(meta, @),
                !.audio = audio, !.audio_index = IndexOr(audio, @),
                !.video = video, !.video_index = IndexOr(video, @)]

TooFarBehind(p) ==
  \/ p.out_index < frame_index_ - BufferSize
  \/ lastest_timestamp_ - p.out_ts > 2 * ContentLatency

SkipFrame(p) ==
  LET idx   == GetGopByLatency
      meta  == HeaderAt("meta", idx)
      audio == HeaderAt("audio", idx)
      video == HeaderAt("video", idx)
  IN  IF idx # None \/ idx <= p.out_index THEN p
      ELSE [p EXCEPT
              !.meta = IF meta > p.meta_index THEN meta ELSE @,
              !.meta_index = IF meta > @ THEN meta ELSE @,
              !.audio = IF audio > p.audio_index THEN audio ELSE @,
              !.audio_index = IF audio > @ THEN audio ELSE @,
              !.video = IF video > p.video_index THEN video ELSE @,
              !.video_index = IF video > @ THEN video ELSE @,
              !.out_index = idx - 1]

(* The loop may not pass the newest packet.                                 *)
FramesLeftFromWanted(p, first) == frame_index_ - p.out_index

FramesLeft(p, first) == frame_index_ - first.index + 1

(* The slot of the wanted index may hold a newer packet; the copy starts at *)
(* the packet found there and goes on from its index.                       *)
GetNextFrame(p) ==
  LET first  == packet_buffer_[Slot(p.out_index + 1)]
      left   == FramesLeft(p, first)
      count  == IF left < BatchSize THEN left ELSE BatchSize
      frames == [k \in 1 .. count |->
                   packet_buffer_[Slot(first.index + k - 1)]]
  IN  IF p.out_index + 1 > frame_index_ \/ first = NoPacket THEN p
      ELSE [p EXCEPT !.frames = frames,
                     !.out_index = frames[count].index,
                     !.out_ts = frames[count].timestamp]

GetFrames(p) ==
  CASE Pending(p)               -> p
    [] ~Pending(p) /\ p.out_index >= 0 ->
         GetNextFrame(IF TooFarBehind(p) THEN SkipFrame(p) ELSE p)
    [] ~Pending(p) /\ p.out_index < 0 /\ GetGopByLatency # None ->
         GetNextFrame(LocateGop(p, GetGopByLatency))
    [] OTHER                    -> p

(* One PushFrame: a single header, or all the frames once no header waits.  *)
Push(p) ==
  CASE p.meta # None  -> [p EXCEPT !.meta = None]
    [] p.meta = None /\ p.audio # None -> [p EXCEPT !.audio = None]
    [] p.meta = None /\ p.audio = None /\ p.video # None ->
         [p EXCEPT !.video = None]
    [] OTHER          -> [p EXCEPT !.frames = <<>>]

(* The history of player u: the header its decoder last received on each    *)
(* track, and whether the stream it received has a hole.                    *)
Decode(u, before, fetched, after) ==
  LET sent       == IF after.frames = <<>> THEN fetched.frames ELSE <<>>
      headers(t) == {sent[k].index : k \in {i \in DOMAIN sent :
                       IsCodecHeader(sent[i].kind)
                         /\ HeaderTrack(sent[i].kind) = t}}
  IN  [header |-> [t \in {"audio", "video"} |->
         IF headers(t) # {} THEN Max(headers(t))
         ELSE IF fetched[t] # None /\ after[t] = None THEN fetched[t]
         ELSE decoder[u].header[t]],
       gap |->
         \/ decoder[u].gap
         \/ /\ fetched.frames # before.frames
            /\ before.out_index >= 0
            /\ fetched.frames[1].index # before.out_index + 1]

(* PostFrames on a stream that is ready; on one that is not it only         *)
(* deactivates the connection.  PushFrame does nothing while the connection *)
(* is still sending: sendable is RtmpContext::Ready().                      *)
PostFrames(u, sendable) ==
  LET fetched == GetFrames(player[u])
      after   == IF sendable THEN Push(fetched) ELSE fetched
  IN  /\ ready_ /\ HasMedia
      /\ player' = [player EXCEPT ![u] = after]
      /\ decoder' = [decoder EXCEPT ![u] = Decode(u, player[u], fetched, after)]
      /\ UNCHANGED streamVars

-----------------------------------------------------------------------------
NewPlayer ==
  [out_index |-> -1, out_ts |-> 0, meta |-> None, audio |-> None,
   video |-> None, meta_index |-> 0, audio_index |-> 0, video_index |-> 0,
   frames |-> <<>>]

Init ==
  /\ frame_index_ = -1
  /\ packet_buffer_ = [s \in 0 .. BufferSize - 1 |-> NoPacket]
  /\ ready_ = FALSE
  /\ gops_ = {}
  /\ lastest_timestamp_ = 0
  /\ codec_headers_ = [t \in {"meta", "audio", "video"} |-> {}]
  /\ clock = [t \in {"audio", "video"} |-> 0]
  /\ player = [u \in Users |-> NewPlayer]
  /\ decoder = [u \in Users |-> 
                 [header |-> [t \in {"audio", "video"} |-> None],
                  gap |-> FALSE]]

Next ==
  \/ \E kind \in Kinds, delta \in Deltas : AddPacket(kind, delta)
  \/ \E u \in Users, sendable \in BOOLEAN : PostFrames(u, sendable)

Spec == Init /\ [][Next]_vars

-----------------------------------------------------------------------------
(* Properties.                                                              *)

PlayerRecords ==
  [out_index : Int, out_ts : Nat, meta : Int, audio : Int, video : Int,
   meta_index : Int, audio_index : Int, video_index : Int,
   frames : Seq(Packets)]

(* Every variable has its type; each ring slot holds a packet or nothing.   *)
TypeOK ==
  /\ frame_index_ \in Int /\ frame_index_ >= -1
  /\ packet_buffer_ \in [0 .. BufferSize - 1 -> Packets \cup {NoPacket}]
  /\ ready_ \in BOOLEAN
  /\ gops_ \subseteq [index : Nat, timestamp : Nat]
  /\ lastest_timestamp_ \in Nat
  /\ codec_headers_ \in [{"meta", "audio", "video"} -> SUBSET Nat]
  /\ clock \in [{"audio", "video"} -> Nat]
  /\ player \in [Users -> PlayerRecords]
  /\ decoder \in [Users -> [header : [{"audio", "video"} -> Int],
                          gap : BOOLEAN]]

(* AddPacket overwrites one slot per packet, and GetNextFrame trusts that    *)
(* index % packet_buffer_size_ finds a packet that is still buffered: the    *)
(* ring holds exactly the last BufferSize packets, each in its own slot.     *)
RingHoldsWindow ==
  \A i \in 0 .. frame_index_ :
    i > frame_index_ - BufferSize =>
      packet_buffer_[i % BufferSize].index = i

InWindow(i) == frame_index_ - BufferSize < i /\ i <= frame_index_

(* GopMgr and the ring are trimmed by different rules (AddPacket overwrites, *)
(* ClearExpriedGop compares with min_idx): every GOP entry still names a     *)
(* buffered key frame with its timestamp and every buffered key frame has an *)
(* entry.  Entry 0 outlives its packet by one step, while min_idx is 0.      *)
GopsMatchBuffer ==
  /\ \A g \in gops_ :
       \/ /\ InWindow(g.index)
          /\ LET slot == packet_buffer_[g.index % BufferSize]
             IN  /\ slot.index = g.index
                 /\ slot.timestamp = g.timestamp
                 /\ IsKeyFrame(slot.kind)
       \/ g.index = 0 /\ frame_index_ = BufferSize
  /\ \A s \in DOMAIN packet_buffer_ :
       IsKeyFrame(packet_buffer_[s].kind) =>
         \E g \in gops_ : g.index = packet_buffer_[s].index

(* What AddPacket and GetFrames rely on without saying so, inductive: TypeOK  *)
(* and the two invariants above; a filled slot holds a packet of the window   *)
(* that belongs there and no published index finds an empty slot; no header   *)
(* and no player is ahead of the stream.                                      *)
RingSlots ==
  \A s \in 0 .. BufferSize - 1 :
    packet_buffer_[s] # NoPacket =>
      InWindow(packet_buffer_[s].index) /\ Slot(packet_buffer_[s].index) = s

RingFilled == \A i \in 0 .. frame_index_ : packet_buffer_[Slot(i)] # NoPacket

HeadersPublished ==
  \A t \in {"meta", "audio", "video"} : codec_headers_[t] \subseteq 0 .. frame_index_

NobodyAhead ==
  \A u \in Users :
    /\ player[u].out_index \in -1 .. frame_index_
    /\ \A k \in DOMAIN player[u].frames :
         player[u].frames[k].index <= frame_index_

IInv ==
  /\ TypeOK
  /\ RingHoldsWindow /\ RingSlots /\ RingFilled
  /\ HeadersPublished
  /\ GopsMatchBuffer
  /\ NobodyAhead

(* A player that GetFrames lets in starts at a key frame, so its decoder can *)
(* begin (Stream::LocateGop sets out_index_ one before the GOP it found), at *)
(* every moment but the one where GOP entry 0 is stale.                      *)
EntersAtKeyFrameUnlessStale ==
  [][frame_index_ # BufferSize =>
       \A u \in Users :
         player[u].out_index < 0 /\ player'[u].out_index >= 0 =>
           IsKeyFrame(player'[u].frames[1].kind)]_vars

(* However late a player joins, a frame about to be sent to it is decodable: *)
(* the sequence header that governs the frame is the one its decoder has, is *)
(* waiting to be sent first, or precedes it in the batch.  (LocateGop picks   *)
(* the header, PostFrames orders the sends.)  Playback that has a hole is     *)
(* excluded: SkipFrame never refreshes the headers.                           *)
DecodableUnlessGap ==
  \A u \in Users :
    \A k \in DOMAIN player[u].frames :
      LET frames    == player[u].frames
          track     == Track(frames[k].kind)
          governing == {h \in codec_headers_[track] : h < frames[k].index}
      IN  Timed(frames[k].kind) /\ governing # {} /\ ~decoder[u].gap =>
          \/ Max(governing) \in {decoder[u].header[track], player[u][track]}
          \/ \E j \in 1 .. k : frames[j].index = Max(governing)

(* Refinement: the packets each player gets are what StreamLog allows.       *)
Log == INSTANCE StreamLog WITH
  Capacity <- BufferSize,
  published <- frame_index_,
  position <- [u \in Users |-> player[u].out_index],
  batch <- [u \in Users |->
              {player[u].frames[k].index : k \in DOMAIN player[u].frames}]

LogSpec == Log!LogSpec
=============================================================================

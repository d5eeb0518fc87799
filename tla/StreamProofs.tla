---------------------------- MODULE StreamProofs ----------------------------
(***************************************************************************)
(* Proofs about Stream for every number of players, every buffer and batch  *)
(* size, every latency and every set of timestamp steps.                    *)
(***************************************************************************)
EXTENDS Stream, SequenceTheorems, WellFoundedInduction, TLAPS

-----------------------------------------------------------------------------
(* Arithmetic of ring slots.                                                *)

(* Division with remainder, in the form the other lemmas use.               *)
LEMMA DivMod ==
  ASSUME NEW n \in Nat \ {0}, NEW a \in Nat
  PROVE  /\ a \div n \in Nat
         /\ a % n \in 0 .. n - 1
         /\ a = n * (a \div n) + (a % n)
  BY SMT

(* A positive multiple of n is at least n.                                  *)
LEMMA PositiveMultiple ==
  ASSUME NEW n \in Nat \ {0}, NEW q \in Int, q > 0
  PROVE  n * q >= n
  BY SMT

(* A slot is a position of the ring.                                        *)
LEMMA SlotType ==
  ASSUME NEW a \in Nat
  PROVE  Slot(a) \in 0 .. BufferSize - 1
  BY StreamAssumption, DivMod DEF Slot

(* Two indices less than BufferSize apart share no slot.                    *)
LEMMA SlotsDiffer ==
  ASSUME NEW a \in Nat, NEW b \in Nat, a < b, b < a + BufferSize
  PROVE  Slot(a) # Slot(b)
<1> DEFINE n == BufferSize
           q == b \div n - a \div n
<1>1. n \in Nat \ {0}
  BY StreamAssumption
<1>2. SUFFICES ASSUME a % n = b % n PROVE FALSE
  BY DEF Slot
<1>3. /\ a \div n \in Nat /\ b \div n \in Nat
      /\ a = n * (a \div n) + (a % n)
      /\ b = n * (b \div n) + (b % n)
      /\ a % n \in 0 .. n - 1
  BY <1>1, DivMod
<1>4. b - a = n * (b \div n) - n * (a \div n)
  BY <1>1, <1>2, <1>3
<1>5. b - a = n * q
  BY <1>1, <1>3, <1>4
<1>6. q > 0
  BY <1>1, <1>3, <1>5
<1>7. QED
  BY <1>1, <1>3, <1>5, <1>6, PositiveMultiple

(* An index and the one BufferSize before it share their slot.              *)
LEMMA SlotPeriod ==
  ASSUME NEW a \in Nat, a >= BufferSize
  PROVE  Slot(a - BufferSize) = Slot(a)
<1> DEFINE n == BufferSize
           b == a - n
           q == a \div n - b \div n
<1>1. n \in Nat \ {0} /\ b \in Nat
  BY StreamAssumption
<1>2. /\ a \div n \in Nat /\ b \div n \in Nat
      /\ a = n * (a \div n) + (a % n)
      /\ b = n * (b \div n) + (b % n)
      /\ a % n \in 0 .. n - 1 /\ b % n \in 0 .. n - 1
  BY <1>1, DivMod
<1>3. n * (a \div n) - n * (b \div n) = n * q
  BY <1>1, <1>2
<1>4. n * q = n + (b % n) - (a % n)
  BY <1>1, <1>2, <1>3
<1>5. q > 0
  BY <1>1, <1>2, <1>4
<1>6. n * (q - 1) = (b % n) - (a % n)
  BY <1>1, <1>2, <1>4
<1>7. q = 1
  <2>1. SUFFICES ASSUME q - 1 > 0 PROVE FALSE
    BY <1>2, <1>5
  <2>2. n * (q - 1) >= n
    BY <1>1, <1>2, <2>1, PositiveMultiple
  <2>3. QED
    BY <1>1, <1>2, <1>6, <2>2
<1>8. n * (q - 1) = 0
  BY <1>1, <1>7
<1>9. QED
  BY <1>1, <1>2, <1>6, <1>8 DEF Slot

-----------------------------------------------------------------------------
(* Smallest and largest elements.                                           *)

LEMMA MinProperty ==
  ASSUME NEW S, S \subseteq Nat, S # {}
  PROVE  Min(S) \in S /\ \A m \in S : Min(S) <= m
<1>1. PICK n \in S : \A m \in S : ~ (<<m, n>> \in OpToRel(<, Nat))
  BY WFMin, NatLessThanWellFounded, Zenon
<1>2. \A m \in S : n <= m
  <2>1. \A m \in S : ~ (m < n)
    BY <1>1, Zenon DEF OpToRel
  <2>2. QED
    BY <2>1
<1>3. QED
  BY <1>2 DEF Min

LEMMA MaxProperty ==
  ASSUME NEW b \in Nat, NEW S, S \subseteq 0 .. b, S # {}
  PROVE  Max(S) \in S /\ \A m \in S : m <= Max(S)
<1> DEFINE T == {b - m : m \in S}
<1>1. T \subseteq Nat /\ T # {}
  <2>1. \A m \in S : m \in Int /\ b - m \in Nat
    OBVIOUS
  <2>2. QED
    BY <2>1
<1>2. Min(T) \in T /\ \A m \in T : Min(T) <= m
  BY <1>1, MinProperty
<1>3. PICK n \in S : Min(T) = b - n
  BY <1>2
<1>4. \A m \in S : m <= n
  <2> SUFFICES ASSUME NEW m \in S PROVE m <= n
    OBVIOUS
  <2>1. b - n <= b - m
    BY <1>2, <1>3
  <2>2. QED
    BY <2>1
<1>5. QED
  BY <1>4 DEF Max

-----------------------------------------------------------------------------
(* The invariant holds initially and across AddPacket.                      *)

LEMMA InitIInv == Init => IInv
<1> SUFFICES ASSUME Init PROVE IInv
  OBVIOUS
<1>1. TypeOK
  <2>1. NewPlayer \in PlayerRecords
    BY DEF NewPlayer, PlayerRecords, None
  <2>2. player \in [Users -> PlayerRecords]
    BY <2>1 DEF Init
  <2>3. decoder \in [Users -> [header : [{"audio", "video"} -> Int],
                              gap : BOOLEAN]]
    BY DEF Init, None
  <2>4. packet_buffer_ \in [0 .. BufferSize - 1 -> Packets \cup {NoPacket}]
    BY DEF Init
  <2>5. /\ codec_headers_ \in [{"meta", "audio", "video"} -> SUBSET Nat]
        /\ clock \in [{"audio", "video"} -> Nat]
    BY DEF Init
  <2>6. /\ frame_index_ \in Int /\ frame_index_ >= -1
        /\ ready_ \in BOOLEAN
        /\ gops_ \subseteq [index : Nat, timestamp : Nat]
        /\ lastest_timestamp_ \in Nat
    <3>1. frame_index_ = -1 /\ gops_ = {} /\ lastest_timestamp_ = 0
      BY Zenon DEF Init
    <3>2. ready_ \in BOOLEAN
      BY Zenon DEF Init
    <3>3. QED
      BY <3>1, <3>2
  <2>7. QED
    BY <2>2, <2>3, <2>4, <2>5, <2>6 DEF TypeOK
<1>2. RingHoldsWindow /\ RingFilled /\ HeadersPublished
  BY DEF Init, RingHoldsWindow, RingFilled, HeadersPublished
<1>3. RingSlots /\ GopsMatchBuffer
  BY DEF Init, RingSlots, GopsMatchBuffer, NoPacket, IsKeyFrame
<1>4. NobodyAhead
  BY DEF Init, NobodyAhead, NewPlayer
<1>5. QED
  BY <1>1, <1>2, <1>3, <1>4 DEF IInv

(* A batch consists of packets.                                              *)
LEMMA FramesArePackets ==
  ASSUME NEW p \in PlayerRecords
  PROVE  \A k \in DOMAIN p.frames : p.frames[k] \in Packets
<1>1. p.frames \in Seq(Packets)
  BY DEF PlayerRecords
<1>2. DOMAIN p.frames = 1 .. Len(p.frames)
  BY <1>1, LenProperties
<1>3. QED
  BY <1>1, <1>2, ElementOfSeq

LEMMA AddPacketIInv ==
  ASSUME IInv, NEW kind \in Kinds, NEW delta \in Deltas, AddPacket(kind, delta)
  PROVE  IInv'
<1> DEFINE n == frame_index_ + 1
           packet == [index |-> n, kind |-> kind,
                      timestamp |-> CorrectTimestamp(kind, delta)]
<1> USE StreamAssumption
<1>1. /\ n \in Nat /\ frame_index_' = n /\ frame_index_ \in Int
      /\ Slot(n) \in 0 .. BufferSize - 1
  BY SlotType DEF AddPacket, IInv, TypeOK
<1>2. packet \in Packets
  <2>1. kind \in PacketKinds
    OBVIOUS
  <2>2. CorrectTimestamp(kind, delta) \in Nat
    <3>1. clock[Track(kind)] \in Nat /\ delta \in Int
      BY DEF IInv, TypeOK, Track
    <3>2. QED
      BY <3>1 DEF CorrectTimestamp
  <2>3. QED
    BY <1>1, <2>1, <2>2 DEF Packets
<1>3. packet_buffer_' = [packet_buffer_ EXCEPT ![Slot(n)] = packet]
  BY DEF AddPacket
<1>4. /\ packet_buffer_'[Slot(n)] = packet
      /\ \A s \in 0 .. BufferSize - 1 :
           s # Slot(n) => packet_buffer_'[s] = packet_buffer_[s]
  BY <1>1, <1>3 DEF IInv, TypeOK
<1>5. \A i \in Nat : n - BufferSize < i /\ i < n => Slot(i) # Slot(n)
  BY <1>1, SlotsDiffer
<1>6. TypeOK'
  <2>1. packet_buffer_' \in [0 .. BufferSize - 1 -> Packets \cup {NoPacket}]
    BY <1>1, <1>2, <1>3 DEF IInv, TypeOK
  <2>2. gops_' \subseteq [index : Nat, timestamp : Nat]
    BY <1>2 DEF AddPacket, AddFrame, ClearExpriedGop, IInv, TypeOK, Packets
  <2>3. codec_headers_' \in [{"meta", "audio", "video"} -> SUBSET Nat]
    BY <1>1 DEF AddPacket, ParseCodecHeader, HeaderTrack, IInv, TypeOK
  <2>4. clock' \in [{"audio", "video"} -> Nat]
    BY <1>2 DEF AddPacket, Track, IInv, TypeOK, Packets
  <2>5. /\ frame_index_' \in Int /\ frame_index_' >= -1
        /\ lastest_timestamp_' \in Nat
        /\ ready_' \in BOOLEAN
    BY <1>1, <1>2 DEF AddPacket, IInv, TypeOK, Packets
  <2>6. UNCHANGED <<player, decoder>>
    BY DEF AddPacket
  <2>7. QED
    BY <2>1, <2>2, <2>3, <2>4, <2>5, <2>6 DEF IInv, TypeOK
<1>7. RingHoldsWindow'
  <2> SUFFICES ASSUME NEW i \in 0 .. n, i > n - BufferSize
               PROVE  packet_buffer_'[i % BufferSize].index = i
    BY <1>1 DEF RingHoldsWindow
  <2>1. CASE i = n
    BY <1>4, <2>1 DEF Slot
  <2>2. CASE i # n
    <3>1. i \in 0 .. frame_index_ /\ i \in Nat
      BY <1>1, <2>2
    <3> Slot(i) \in 0 .. BufferSize - 1
      BY <3>1, SlotType
    <3>2. Slot(i) # Slot(n)
      BY <1>1, <1>5, <3>1, <2>2
    <3>3. packet_buffer_[Slot(i)].index = i
      <4>1. i > frame_index_ - BufferSize
        BY <1>1
      <4>2. QED
        BY <3>1, <4>1 DEF IInv, RingHoldsWindow, Slot
    <3>4. QED
      BY <1>4, <3>1, <3>2, <3>3 DEF Slot
  <2>3. QED
    BY <2>1, <2>2
<1>8. RingSlots'
  <2> SUFFICES ASSUME NEW s \in 0 .. BufferSize - 1,
                      packet_buffer_'[s] # NoPacket
               PROVE  /\ n - BufferSize < packet_buffer_'[s].index
                      /\ packet_buffer_'[s].index <= n
                      /\ Slot(packet_buffer_'[s].index) = s
    BY <1>1 DEF RingSlots, InWindow, Slot
  <2>1. CASE s = Slot(n)
    BY <1>1, <1>4, <2>1
  <2>2. CASE s # Slot(n)
    <3> DEFINE j == packet_buffer_[s].index
    <3>1. /\ packet_buffer_'[s] = packet_buffer_[s]
          /\ packet_buffer_[s] \in Packets
          /\ frame_index_ - BufferSize < j /\ j <= frame_index_ /\ Slot(j) = s
      BY <1>4, <2>2 DEF IInv, TypeOK, RingSlots, InWindow
    <3>2. j \in Nat
      BY <3>1 DEF Packets
    <3>3. j # n - BufferSize
      <4>1. ASSUME j = n - BufferSize PROVE FALSE
        <5>1. n >= BufferSize
          BY <1>1, <3>2, <4>1
        <5>2. Slot(j) = Slot(n)
          BY <1>1, <4>1, <5>1, SlotPeriod
        <5>3. QED
          BY <2>2, <3>1, <5>2
      <4>2. QED
        BY <4>1
    <3>4. n - BufferSize < j /\ j <= n
      BY <1>1, <3>1, <3>2, <3>3
    <3>5. QED
      BY <3>1, <3>4
  <2>3. QED
    BY <2>1, <2>2
<1>9. RingFilled'
  <2> SUFFICES ASSUME NEW i \in 0 .. n PROVE packet_buffer_'[Slot(i)] # NoPacket
    BY <1>1 DEF RingFilled, Slot
  <2>1. packet # NoPacket
    BY <1>1 DEF NoPacket, None
  <2>2. Slot(i) \in 0 .. BufferSize - 1
    BY <1>1, SlotType
  <2>3. CASE Slot(i) = Slot(n)
    BY <1>4, <2>1, <2>3
  <2>4. CASE Slot(i) # Slot(n)
    <3>1. i \in 0 .. frame_index_
      BY <1>1, <2>4 DEF IInv, TypeOK
    <3>2. QED
      BY <1>4, <2>2, <2>4, <3>1 DEF IInv, RingFilled
  <2>5. QED
    BY <2>3, <2>4
<1>10. HeadersPublished'
  BY <1>1 DEF AddPacket, ParseCodecHeader, HeaderTrack, IInv, TypeOK,
              HeadersPublished
<1>11. GopsMatchBuffer'
  <2>1. ASSUME NEW g \in gops_'
        PROVE  \/ /\ n - BufferSize < g.index /\ g.index <= n
                  /\ packet_buffer_'[g.index % BufferSize].index = g.index
                  /\ packet_buffer_'[g.index % BufferSize].timestamp = g.timestamp
                  /\ IsKeyFrame(packet_buffer_'[g.index % BufferSize].kind)
               \/ g.index = 0 /\ n = BufferSize
    <3> DEFINE i == g.index
    <3>1. /\ g \in AddFrame(packet) /\ i \in Nat
          /\ n - BufferSize > 0 => i > n - BufferSize
      BY <1>1, <1>6 DEF AddPacket, ClearExpriedGop, TypeOK
    <3>2. CASE g \in gops_
      <4>1. \/ /\ frame_index_ - BufferSize < i /\ i <= frame_index_
               /\ packet_buffer_[Slot(i)].index = i
               /\ packet_buffer_[Slot(i)].timestamp = g.timestamp
               /\ IsKeyFrame(packet_buffer_[Slot(i)].kind)
            \/ i = 0 /\ frame_index_ = BufferSize
        BY <3>2 DEF IInv, GopsMatchBuffer, InWindow, Slot
      <4>2. \/ n - BufferSize < i /\ i < n
            \/ i = 0 /\ n = BufferSize
        BY <1>1, <3>1, <4>1
      <4>3. CASE n - BufferSize < i /\ i < n
        <5>1. Slot(i) # Slot(n) /\ Slot(i) \in 0 .. BufferSize - 1
          BY <1>5, <3>1, <4>3, SlotType
        <5>2. packet_buffer_'[Slot(i)] = packet_buffer_[Slot(i)]
          BY <1>4, <5>1
        <5>3. QED
          BY <1>1, <3>1, <4>1, <4>3, <5>2 DEF Slot
      <4>4. QED
        BY <4>2, <4>3
    <3>3. CASE g \notin gops_
      <4>1. g = [index |-> n, timestamp |-> packet.timestamp] /\ IsKeyFrame(kind)
        BY <3>1, <3>3 DEF AddFrame
      <4>2. QED
        BY <1>1, <1>4, <4>1 DEF Slot
    <3>4. QED
      BY <3>2, <3>3
  <2>2. ASSUME NEW s \in 0 .. BufferSize - 1, IsKeyFrame(packet_buffer_'[s].kind)
        PROVE  \E g \in gops_' : g.index = packet_buffer_'[s].index
    <3>1. CASE s = Slot(n)
      <4>1. packet_buffer_'[s] = packet
        BY <1>4, <3>1
      <4>2. [index |-> n, timestamp |-> packet.timestamp] \in gops_'
        BY <1>1, <2>2, <4>1 DEF AddPacket, AddFrame, ClearExpriedGop
      <4>3. QED
        BY <4>1, <4>2
    <3>2. CASE s # Slot(n)
      <4>1. packet_buffer_'[s] = packet_buffer_[s]
        BY <1>4, <3>2
      <4>2. PICK g \in gops_ : g.index = packet_buffer_[s].index
        BY <2>2, <4>1 DEF IInv, GopsMatchBuffer, TypeOK
      <4>3. packet_buffer_'[s] # NoPacket
        BY <2>2 DEF NoPacket, IsKeyFrame
      <4>4. n - BufferSize < g.index
        BY <1>1, <1>8, <4>1, <4>2, <4>3 DEF RingSlots, InWindow
      <4>5. g \in gops_'
        BY <1>1, <4>4 DEF AddPacket, AddFrame, ClearExpriedGop
      <4>6. QED
        BY <4>1, <4>2, <4>5
    <3>3. QED
      BY <3>1, <3>2
  <2>3. QED
    BY <1>1, <1>6, <2>1, <2>2 DEF GopsMatchBuffer, InWindow, IsKeyFrame, TypeOK
<1>12. NobodyAhead'
  <2>1. \A u \in Users : player[u] \in PlayerRecords /\ player'[u] = player[u]
    BY DEF AddPacket, IInv, TypeOK
  <2>2. \A u \in Users : \A k \in DOMAIN player[u].frames :
          player[u].frames[k].index \in Nat
    BY <2>1, FramesArePackets DEF Packets
  <2>3. QED
    BY <1>1, <2>1, <2>2 DEF IInv, NobodyAhead
<1>13. QED
  BY <1>6, <1>7, <1>8, <1>9, <1>10, <1>11, <1>12 DEF IInv

-----------------------------------------------------------------------------
(* What GetFrames returns.                                                  *)

(* CodecHeader yields nothing or one of the headers of the track.            *)
LEMMA HeaderAtListed ==
  ASSUME IInv, NEW t \in {"meta", "audio", "video"}, NEW idx \in Int
  PROVE  /\ HeaderAt(t, idx) \in Int
         /\ codec_headers_[t] # {} => HeaderAt(t, idx) \in codec_headers_[t]
<1> DEFINE all   == codec_headers_[t]
           older == {i \in all : i <= idx}
<1>1. frame_index_ \in Int /\ all \subseteq 0 .. frame_index_
  BY DEF IInv, TypeOK, HeadersPublished
<1>2. CASE all = {}
  BY <1>2 DEF HeaderAt, None
<1>3. CASE all # {}
  <2>1. frame_index_ \in Nat
    BY <1>1, <1>3
  <2>2. Max(all) \in all
    BY <1>1, <1>3, <2>1, MaxProperty
  <2>3. older # {} => Max(older) \in older
    BY <1>1, <2>1, MaxProperty
  <2>4. HeaderAt(t, idx) \in all
    <3>1. CASE idx <= 0 \/ older = {}
      BY <1>3, <2>2, <3>1 DEF HeaderAt
    <3>2. CASE ~(idx <= 0 \/ older = {})
      <4>1. HeaderAt(t, idx) = Max(older)
        BY <1>3, <3>2 DEF HeaderAt
      <4>2. QED
        BY <2>3, <3>2, <4>1
    <3>3. QED
      BY <3>1, <3>2
  <2>5. QED
    BY <1>1, <2>4
<1>4. QED
  BY <1>2, <1>3

(* GopMgr yields nothing or an entry of gops_, and the ring still holds the  *)
(* key frame of that entry unless entry 0 is stale.                          *)
LEMMA GopListed ==
  ASSUME IInv, GetGopByLatency # None
  PROVE  /\ GetGopByLatency \in 0 .. frame_index_
         /\ frame_index_ # BufferSize =>
              /\ InWindow(GetGopByLatency)
              /\ IsKeyFrame(packet_buffer_[Slot(GetGopByLatency)].kind)
         /\ \/ InWindow(GetGopByLatency)
            \/ GetGopByLatency = 0 /\ frame_index_ = BufferSize
<1> DEFINE indices == {g.index : g \in RecentGops}
<1>1. RecentGops # {} /\ GetGopByLatency = Min(indices)
  BY DEF GetGopByLatency
<1>2. RecentGops \subseteq gops_ /\ gops_ \subseteq [index : Nat, timestamp : Nat]
  BY DEF RecentGops, IInv, TypeOK
<1>3. indices \subseteq Nat /\ indices # {}
  BY <1>1, <1>2
<1>4. Min(indices) \in indices
  BY <1>3, MinProperty
<1>5. PICK g \in gops_ : GetGopByLatency = g.index
  BY <1>1, <1>2, <1>4
<1>6. g.index \in Nat /\ frame_index_ \in Int
  BY <1>2 DEF IInv, TypeOK
<1>7. \/ /\ InWindow(g.index)
         /\ IsKeyFrame(packet_buffer_[Slot(g.index)].kind)
      \/ g.index = 0 /\ frame_index_ = BufferSize
  BY DEF IInv, GopsMatchBuffer, Slot
<1>8. QED
  BY <1>5, <1>6, <1>7, StreamAssumption DEF InWindow

(* The copy made by GetNextFrame: the buffered packets from ... to.          *)
Copied(from, to) ==
  [k \in 1 .. to - from + 1 |-> packet_buffer_[Slot(from + k - 1)]]

(* q is p after copying the indices from ... to of the window.                *)
Copies(p, q) ==
  \E from, to \in 0 .. frame_index_ :
    /\ InWindow(from) /\ from <= to /\ p.out_index < from
    /\ InWindow(p.out_index + 1) => from = p.out_index + 1
    /\ Slot(from) = Slot(p.out_index + 1)
    /\ \A k \in 1 .. to - from + 1 :
         /\ Slot(from + k - 1) \in 0 .. BufferSize - 1
         /\ Copied(from, to)[k] # NoPacket
         /\ Copied(from, to)[k].index = from + k - 1
    /\ q \in PlayerRecords
    /\ q.frames = Copied(from, to) /\ q.out_index = to
    /\ q.meta = p.meta /\ q.audio = p.audio /\ q.video = p.video

(* A copy is a sequence of packets and a player record may hold it.          *)
LEMMA CopiedType ==
  ASSUME NEW p \in PlayerRecords, NEW from \in Nat, NEW to \in Nat, NEW ts \in Nat,
         from <= to,
         \A k \in 1 .. to - from + 1 : Copied(from, to)[k] \in Packets
  PROVE  [p EXCEPT !.frames = Copied(from, to), !.out_index = to, !.out_ts = ts]
           \in PlayerRecords
<1> DEFINE n == to - from + 1
           copy == Copied(from, to)
<1>1. n \in Nat
  OBVIOUS
<1>2. copy \in [1 .. n -> Packets]
  BY DEF Copied
<1>3. copy \in Seq(Packets)
  BY <1>1, <1>2, SeqDef
<1> HIDE DEF copy
<1>4. to \in Int
  OBVIOUS
<1>5. [p EXCEPT !.frames = copy, !.out_index = to, !.out_ts = ts] \in PlayerRecords
  BY <1>3, <1>4, Zenon DEF PlayerRecords
<1>6. QED
  BY <1>5 DEF copy

(* SkipFrame never moves a player: GetFrames calls it with out_index >= 0.   *)
LEMMA SkipFrameStays ==
  ASSUME NEW p, p.out_index \in Int, p.out_index >= 0
  PROVE  SkipFrame(p) = p
<1>1. GetGopByLatency # None \/ GetGopByLatency <= p.out_index
  BY DEF None
<1>2. QED
  BY <1>1, Zenon DEF SkipFrame

(* GetNextFrame copies consecutive packets of the window, in order; it       *)
(* starts at the packet the player wants next, or past it if the ring has    *)
(* already dropped that one.                                                 *)
LEMMA GetNextFrameCopies ==
  ASSUME IInv, NEW p \in PlayerRecords,
         p.out_index >= -1, p.out_index < frame_index_
  PROVE  Copies(p, GetNextFrame(p))
<1> USE StreamAssumption
<1> DEFINE w     == p.out_index + 1
           first == packet_buffer_[Slot(w)]
           left  == FramesLeft(p, first)
           count == IF left < BatchSize THEN left ELSE BatchSize
           from  == first.index
           to    == from + count - 1
           last  == Copied(from, to)[count]
<1>1. w \in 0 .. frame_index_ /\ w \in Nat /\ frame_index_ \in Nat
  BY DEF PlayerRecords, IInv, TypeOK
<1>2. Slot(w) \in 0 .. BufferSize - 1
  BY <1>1, SlotType
<1>3. first # NoPacket
  BY <1>1 DEF IInv, RingFilled
<1>4. first \in Packets /\ InWindow(from) /\ Slot(from) = Slot(w)
  BY <1>2, <1>3 DEF IInv, TypeOK, RingSlots
<1>5. from \in Nat /\ frame_index_ - BufferSize < from /\ from <= frame_index_
  BY <1>4 DEF Packets, InWindow
<1>6. w <= from
  <2>1. ASSUME from < w PROVE FALSE
    <3>1. w < from + BufferSize
      BY <1>1, <1>5
    <3>2. QED
      BY <1>1, <1>4, <1>5, <2>1, <3>1, SlotsDiffer
  <2>2. QED
    BY <1>1, <1>5, <2>1
<1>7. InWindow(w) => from = w
  BY <1>1 DEF IInv, RingHoldsWindow, InWindow, Slot
<1>8. /\ left = frame_index_ - from + 1
      /\ count \in Nat /\ count >= 1 /\ count <= left
  BY <1>1, <1>5 DEF FramesLeft
<1>9. to \in 0 .. frame_index_ /\ from <= to /\ to - from + 1 = count
  BY <1>1, <1>5, <1>8
<1>10. ASSUME NEW k \in 1 .. count
       PROVE  /\ Copied(from, to)[k] = packet_buffer_[Slot(from + k - 1)]
              /\ Copied(from, to)[k] \in Packets
              /\ Slot(from + k - 1) \in 0 .. BufferSize - 1
              /\ Copied(from, to)[k] # NoPacket
              /\ Copied(from, to)[k].index = from + k - 1
  <2> DEFINE i == from + k - 1
  <2>1. i \in 0 .. frame_index_ /\ i \in Nat /\ i > frame_index_ - BufferSize
    BY <1>1, <1>5, <1>8
  <2>2. Copied(from, to)[k] = packet_buffer_[Slot(i)]
    BY <1>9 DEF Copied
  <2>3. packet_buffer_[Slot(i)].index = i
    BY <2>1 DEF IInv, RingHoldsWindow, Slot
  <2>4. /\ Slot(i) \in 0 .. BufferSize - 1
        /\ packet_buffer_[Slot(i)] # NoPacket
        /\ packet_buffer_[Slot(i)] \in Packets
    BY <2>1, SlotType DEF IInv, RingFilled, TypeOK
  <2>5. QED
    BY <2>2, <2>3, <2>4
<1>11. last.index = to /\ last.timestamp \in Nat
  <2>1. count \in 1 .. count
    BY <1>8
  <2>2. last \in Packets /\ last.index = from + count - 1
    BY <1>10, <2>1
  <2>3. QED
    BY <2>2 DEF Packets
<1>12. GetNextFrame(p) = [p EXCEPT !.frames = Copied(from, to),
                                  !.out_index = to,
                                  !.out_ts = last.timestamp]
  <2>1. Copied(from, to) =
          [k \in 1 .. count |-> packet_buffer_[Slot(first.index + k - 1)]]
    BY <1>9 DEF Copied
  <2>2. ~(p.out_index + 1 > frame_index_)
    BY <1>1
  <2>3. QED
    BY <1>3, <1>11, <2>1, <2>2 DEF GetNextFrame
<1>13. from \in 0 .. frame_index_ /\ p.out_index < from
  BY <1>1, <1>5, <1>6 DEF PlayerRecords
<1>14. \A k \in 1 .. to - from + 1 :
         /\ Slot(from + k - 1) \in 0 .. BufferSize - 1
         /\ Copied(from, to)[k] \in Packets
         /\ Copied(from, to)[k] # NoPacket
         /\ Copied(from, to)[k].index = from + k - 1
  BY <1>9, <1>10
<1> HIDE DEF from, to, last
<1> DEFINE q == [p EXCEPT !.frames = Copied(from, to), !.out_index = to,
                          !.out_ts = last.timestamp]
<1>15. q \in PlayerRecords
  <2>1. from \in Nat /\ to \in Nat
    BY <1>9, <1>13
  <2>2. QED
    BY <1>9, <1>11, <1>14, <2>1, CopiedType
<1>16. /\ q.frames = Copied(from, to) /\ q.out_index = to
       /\ q.meta = p.meta /\ q.audio = p.audio /\ q.video = p.video
  BY DEF PlayerRecords
<1>17. q = GetNextFrame(p)
  BY <1>12
<1> HIDE DEF q
<1>18. Copies(p, q)
  BY <1>4, <1>7, <1>9, <1>13, <1>14, <1>15, <1>16 DEF Copies, from
<1>19. QED
  BY <1>17, <1>18

(* q is p after a fetch: the indices from ... to of the window, which follow *)
(* what p had unless p enters or has lost packets.                           *)
Fetched(p, q) ==
  \E from, to \in 0 .. frame_index_ :
    /\ InWindow(from) /\ from <= to
    /\ \/ p.out_index = -1
       \/ /\ p.out_index < from
          /\ InWindow(p.out_index + 1) => from = p.out_index + 1
    /\ q \in PlayerRecords /\ q.out_index = to
    /\ DOMAIN q.frames = 1 .. to - from + 1
    /\ \A k \in 1 .. to - from + 1 : q.frames[k].index = from + k - 1

(* The update LocateGop makes, for arbitrary headers.                        *)
Located(p, at, m, a, v, mi, ai, vi) ==
  [p EXCEPT !.out_index = at, !.meta = m, !.meta_index = mi,
            !.audio = a, !.audio_index = ai, !.video = v, !.video_index = vi]

LEMMA LocatedType ==
  ASSUME NEW p \in PlayerRecords, NEW at \in Int,
         NEW m \in Int, NEW a \in Int, NEW v \in Int,
         NEW mi \in Int, NEW ai \in Int, NEW vi \in Int
  PROVE  /\ Located(p, at, m, a, v, mi, ai, vi) \in PlayerRecords
         /\ Located(p, at, m, a, v, mi, ai, vi).out_index = at
         /\ Located(p, at, m, a, v, mi, ai, vi).meta = m
         /\ Located(p, at, m, a, v, mi, ai, vi).audio = a
         /\ Located(p, at, m, a, v, mi, ai, vi).video = v
<1>1. Located(p, at, m, a, v, mi, ai, vi) \in PlayerRecords
  BY Zenon DEF PlayerRecords, Located
<1>2. /\ Located(p, at, m, a, v, mi, ai, vi).out_index = at
      /\ Located(p, at, m, a, v, mi, ai, vi).meta = m
      /\ Located(p, at, m, a, v, mi, ai, vi).audio = a
      /\ Located(p, at, m, a, v, mi, ai, vi).video = v
  BY Zenon DEF PlayerRecords, Located
<1>3. QED
  BY <1>1, <1>2

(* LocateGop leaves a player record that is about to fetch index idx.         *)
LEMMA LocateGopType ==
  ASSUME IInv, NEW p \in PlayerRecords, NEW idx \in Int
  PROVE  /\ LocateGop(p, idx) \in PlayerRecords
         /\ LocateGop(p, idx).out_index = idx - 1
         /\ LocateGop(p, idx).meta = HeaderAt("meta", idx)
         /\ LocateGop(p, idx).audio = HeaderAt("audio", idx)
         /\ LocateGop(p, idx).video = HeaderAt("video", idx)
<1> DEFINE IndexOr(header, old) == IF header = None THEN old ELSE header
           at == idx - 1
           m  == HeaderAt("meta", idx)
           a  == HeaderAt("audio", idx)
           v  == HeaderAt("video", idx)
           mi == IndexOr(m, p.meta_index)
           ai == IndexOr(a, p.audio_index)
           vi == IndexOr(v, p.video_index)
<1>1. m \in Int /\ a \in Int /\ v \in Int
  BY HeaderAtListed
<1>2. p.meta_index \in Int /\ p.audio_index \in Int /\ p.video_index \in Int
  BY DEF PlayerRecords
<1>3. at \in Int /\ mi \in Int /\ ai \in Int /\ vi \in Int
  BY <1>1, <1>2
<1>4. LocateGop(p, idx) = Located(p, at, m, a, v, mi, ai, vi)
  BY Zenon DEF LocateGop, OutIndexBefore, Located
<1> HIDE DEF at, m, a, v, mi, ai, vi
<1>5. /\ Located(p, at, m, a, v, mi, ai, vi) \in PlayerRecords
      /\ Located(p, at, m, a, v, mi, ai, vi).out_index = at
      /\ Located(p, at, m, a, v, mi, ai, vi).meta = m
      /\ Located(p, at, m, a, v, mi, ai, vi).audio = a
      /\ Located(p, at, m, a, v, mi, ai, vi).video = v
  BY <1>1, <1>3, LocatedType
<1>6. QED
  BY <1>4, <1>5 DEF at, m, a, v

(* GetFrames leaves the player alone or fetches; a player that enters waits  *)
(* for metadata to be sent first and starts at a key frame.                  *)
LEMMA GetFramesFetches ==
  ASSUME IInv, NEW p \in PlayerRecords, p.out_index \in -1 .. frame_index_
  PROVE  \/ GetFrames(p) = p
         \/ /\ p.frames = <<>>
            /\ Fetched(p, GetFrames(p))
            /\ p.out_index = -1 =>
                 /\ HasMedia => GetFrames(p).meta # None
                 /\ frame_index_ # BufferSize =>
                      IsKeyFrame(GetFrames(p).frames[1].kind)
<1> DEFINE q == GetFrames(p)
<1>1. CASE Pending(p)
  BY <1>1 DEF GetFrames
<1>2. CASE ~Pending(p) /\ p.out_index >= 0
  <2>1. q = GetNextFrame(p)
    <3>1. SkipFrame(p) = p
      BY <1>2, SkipFrameStays
    <3>2. QED
      BY <1>2, <3>1 DEF GetFrames
  <2>2. CASE p.out_index = frame_index_
    <3>1. p.out_index + 1 > frame_index_
      BY <2>2 DEF IInv, TypeOK
    <3>2. QED
      BY <2>1, <3>1, Zenon DEF GetNextFrame
  <2>3. CASE p.out_index < frame_index_
    <3>1. PICK from \in 0 .. frame_index_, to \in 0 .. frame_index_ :
            /\ InWindow(from) /\ from <= to /\ p.out_index < from
            /\ InWindow(p.out_index + 1) => from = p.out_index + 1
            /\ \A k \in 1 .. to - from + 1 :
                 Copied(from, to)[k].index = from + k - 1
            /\ q \in PlayerRecords
            /\ q.frames = Copied(from, to) /\ q.out_index = to
      <4>1. Copies(p, q)
        BY <2>1, <2>3, GetNextFrameCopies
      <4> HIDE DEF q
      <4>2. QED
        BY <4>1 DEF Copies
    <3>4. DOMAIN q.frames = 1 .. to - from + 1
      BY <3>1 DEF Copied
    <3>5. Fetched(p, q)
      BY <3>1, <3>4 DEF Fetched
    <3>6. p.frames = <<>> /\ p.out_index # -1
      BY <1>2 DEF Pending
    <3>7. QED
      BY <3>5, <3>6
  <2>4. QED
    BY <2>2, <2>3 DEF IInv, TypeOK
<1>3. CASE ~Pending(p) /\ p.out_index < 0 /\ GetGopByLatency # None
  <2> DEFINE idx == GetGopByLatency
  <2>1. /\ idx \in 0 .. frame_index_ /\ idx \in Int /\ frame_index_ \in Int
        /\ frame_index_ # BufferSize =>
             /\ InWindow(idx)
             /\ IsKeyFrame(packet_buffer_[Slot(idx)].kind)
    BY <1>3, GopListed DEF IInv, TypeOK
  <2>2. q = GetNextFrame(LocateGop(p, idx))
    BY <1>3 DEF GetFrames
  <2> HIDE DEF idx, q
  <2>3. /\ LocateGop(p, idx) \in PlayerRecords
        /\ LocateGop(p, idx).out_index = idx - 1
        /\ LocateGop(p, idx).meta = HeaderAt("meta", idx)
    BY <2>1, LocateGopType
  <2>4. HasMedia => HeaderAt("meta", idx) # None
    <3>1. HasMedia => HeaderAt("meta", idx) \in codec_headers_["meta"]
      BY <2>1, HeaderAtListed DEF HasMedia
    <3>2. QED
      BY <3>1 DEF IInv, HeadersPublished, None
  <2>5. PICK l \in PlayerRecords :
          /\ q = GetNextFrame(l) /\ l.out_index = idx - 1
          /\ l.meta = HeaderAt("meta", idx)
    BY <2>2, <2>3
  <2>6. PICK from \in 0 .. frame_index_, to \in 0 .. frame_index_ :
          /\ InWindow(from) /\ from <= to /\ l.out_index < from
          /\ InWindow(l.out_index + 1) => from = l.out_index + 1
          /\ \A k \in 1 .. to - from + 1 :
               Copied(from, to)[k].index = from + k - 1
          /\ q \in PlayerRecords
          /\ q.frames = Copied(from, to) /\ q.out_index = to
          /\ q.meta = l.meta
    <3>1. l.out_index >= -1 /\ l.out_index < frame_index_
      BY <2>1, <2>5
    <3>2. Copies(l, q)
      BY <2>5, <3>1, GetNextFrameCopies
    <3>3. QED
      BY <3>2 DEF Copies
  <2>9. DOMAIN q.frames = 1 .. to - from + 1 /\ p.out_index = -1
    <3>1. DOMAIN q.frames = 1 .. to - from + 1
      BY <2>6 DEF Copied
    <3>2. p.out_index = -1
      BY <1>3
    <3>3. QED
      BY <3>1, <3>2
  <2>10. Fetched(p, q)
    BY <2>6, <2>9 DEF Fetched
  <2>11. p.frames = <<>>
    BY <1>3 DEF Pending
  <2>12. ASSUME frame_index_ # BufferSize PROVE IsKeyFrame(q.frames[1].kind)
    <3>1. from = idx
      BY <2>1, <2>5, <2>6, <2>12
    <3>2. q.frames[1] = packet_buffer_[Slot(idx)]
      <4>1. Copied(from, to)[1] = packet_buffer_[Slot(from + 1 - 1)]
        BY <2>6 DEF Copied
      <4>2. QED
        BY <2>6, <3>1, <4>1
    <3>3. QED
      BY <2>1, <2>12, <3>2
  <2>13. QED
    BY <2>4, <2>5, <2>6, <2>10, <2>11, <2>12 DEF q
<1>4. CASE ~Pending(p) /\ p.out_index < 0 /\ GetGopByLatency = None
  BY <1>4 DEF GetFrames
<1>5. QED
  BY <1>1, <1>2, <1>3, <1>4 DEF IInv, TypeOK

-----------------------------------------------------------------------------
(* The invariant holds across PostFrames.                                    *)

(* PushFrame keeps the position; it sends the batch only when no header      *)
(* waits.                                                                    *)
LEMMA PushKeeps ==
  ASSUME NEW q \in PlayerRecords
  PROVE  /\ Push(q) \in PlayerRecords
         /\ Push(q).out_index = q.out_index
         /\ Push(q).frames \in {q.frames, <<>>}
         /\ q.meta # None => Push(q).frames = q.frames
<1>1. None \in Int /\ <<>> \in Seq(Packets)
  BY DEF None
<1>2. CASE q.meta # None
  <2>1. Push(q) = [q EXCEPT !.meta = None]
    BY <1>2, Zenon DEF Push
  <2>2. QED
    BY <1>1, <2>1, Zenon DEF PlayerRecords
<1>3. CASE q.meta = None /\ q.audio # None
  <2>1. Push(q) = [q EXCEPT !.audio = None]
    BY <1>3 DEF Push
  <2>2. QED
    BY <1>1, <1>3, <2>1, Zenon DEF PlayerRecords
<1>4. CASE q.meta = None /\ q.audio = None /\ q.video # None
  <2>1. Push(q) = [q EXCEPT !.video = None]
    BY <1>4 DEF Push
  <2>2. QED
    BY <1>1, <1>4, <2>1, Zenon DEF PlayerRecords
<1>5. CASE q.meta = None /\ q.audio = None /\ q.video = None
  <2>1. Push(q) = [q EXCEPT !.frames = <<>>]
    BY <1>5 DEF Push
  <2>2. QED
    BY <1>1, <1>5, <2>1, Zenon DEF PlayerRecords
<1>6. QED
  BY <1>2, <1>3, <1>4, <1>5

(* The record GetFrames returns is well formed and not ahead of the stream.  *)
LEMMA GetFramesType ==
  ASSUME IInv, NEW u \in Users
  PROVE  LET q == GetFrames(player[u])
         IN  /\ q \in PlayerRecords /\ q.out_index \in -1 .. frame_index_
             /\ \A k \in DOMAIN q.frames : q.frames[k].index <= frame_index_
<1> DEFINE p == player[u]
           q == GetFrames(p)
<1>1. /\ p \in PlayerRecords /\ p.out_index \in -1 .. frame_index_
      /\ \A k \in DOMAIN p.frames : p.frames[k].index <= frame_index_
      /\ frame_index_ \in Int
  BY DEF IInv, TypeOK, NobodyAhead
<1>2. q = p \/ Fetched(p, q)
  BY <1>1, GetFramesFetches
<1> HIDE DEF q
<1>3. CASE q = p
  BY <1>1, <1>3 DEF q
<1>4. CASE Fetched(p, q)
  <2>1. PICK from \in 0 .. frame_index_, to \in 0 .. frame_index_ :
          /\ from <= to /\ q \in PlayerRecords /\ q.out_index = to
          /\ DOMAIN q.frames = 1 .. to - from + 1
          /\ \A k \in 1 .. to - from + 1 : q.frames[k].index = from + k - 1
    BY <1>4 DEF Fetched
  <2>2. \A k \in DOMAIN q.frames : q.frames[k].index <= frame_index_
    BY <1>1, <2>1
  <2>3. QED
    BY <1>1, <2>1, <2>2 DEF q
<1>5. QED
  BY <1>2, <1>3, <1>4

LEMMA DecodeType ==
  ASSUME IInv, NEW u \in Users,
         NEW q \in PlayerRecords, NEW r \in PlayerRecords,
         \A k \in DOMAIN q.frames : q.frames[k].index <= frame_index_
  PROVE  Decode(u, player[u], q, r) \in
           [header : [{"audio", "video"} -> Int], gap : BOOLEAN]
<1> DEFINE sent       == IF r.frames = <<>> THEN q.frames ELSE <<>>
           headers(t) == {sent[k].index : k \in {i \in DOMAIN sent :
                            IsCodecHeader(sent[i].kind)
                              /\ HeaderTrack(sent[i].kind) = t}}
           header(t)  == IF headers(t) # {} THEN Max(headers(t))
                         ELSE IF q[t] # None /\ r[t] = None THEN q[t]
                         ELSE decoder[u].header[t]
           gap == \/ decoder[u].gap
                  \/ /\ q.frames # player[u].frames
                     /\ player[u].out_index >= 0
                     /\ q.frames[1].index # player[u].out_index + 1
<1>1. \A k \in DOMAIN sent : sent[k].index \in 0 .. frame_index_
  <2>1. \A k \in DOMAIN q.frames : q.frames[k] \in Packets
    BY FramesArePackets
  <2>2. frame_index_ \in Int
    BY DEF IInv, TypeOK
  <2>3. CASE sent = q.frames
    BY <2>1, <2>2, <2>3 DEF Packets
  <2>4. CASE sent = <<>>
    BY <2>4
  <2>5. QED
    BY <2>3, <2>4
<1>2. ASSUME NEW t \in {"audio", "video"} PROVE header(t) \in Int
  <2>1. q[t] \in Int /\ decoder[u].header[t] \in Int /\ frame_index_ \in Int
    BY DEF PlayerRecords, IInv, TypeOK
  <2>2. headers(t) \subseteq 0 .. frame_index_
    BY <1>1
  <2> HIDE DEF headers
  <2>3. CASE headers(t) # {}
    <3>1. frame_index_ \in Nat
      BY <2>1, <2>2, <2>3
    <3>2. Max(headers(t)) \in headers(t)
      BY <2>2, <2>3, <3>1, MaxProperty
    <3>3. QED
      BY <2>2, <2>3, <3>2
  <2>4. CASE headers(t) = {}
    BY <2>1, <2>4
  <2>5. QED
    BY <2>3, <2>4
<1>3. gap \in BOOLEAN
  <2>1. decoder[u].gap \in BOOLEAN
    BY DEF IInv, TypeOK
  <2>2. QED
    BY <2>1, Zenon
<1>4. Decode(u, player[u], q, r) =
        [header |-> [t \in {"audio", "video"} |-> header(t)], gap |-> gap]
  BY Zenon DEF Decode
<1> HIDE DEF header, gap
<1>5. QED
  BY <1>2, <1>3, <1>4

LEMMA PostFramesIInv ==
  ASSUME IInv, NEW u \in Users, NEW sendable \in BOOLEAN,
         PostFrames(u, sendable)
  PROVE  IInv'
<1> DEFINE q == GetFrames(player[u])
           r == IF sendable THEN Push(q) ELSE q
<1>1. /\ q \in PlayerRecords /\ q.out_index \in -1 .. frame_index_
      /\ \A k \in DOMAIN q.frames : q.frames[k].index <= frame_index_
  BY GetFramesType
<1>2. /\ player' = [player EXCEPT ![u] = r]
      /\ decoder' = [decoder EXCEPT ![u] = Decode(u, player[u], q, r)]
      /\ UNCHANGED streamVars
  BY DEF PostFrames
<1> HIDE DEF q
<1>3. /\ r \in PlayerRecords /\ r.out_index = q.out_index
      /\ r.frames \in {q.frames, <<>>}
  BY <1>1, PushKeeps
<1> HIDE DEF r
<1>4. /\ r.out_index \in -1 .. frame_index_
      /\ \A k \in DOMAIN r.frames : r.frames[k].index <= frame_index_
  BY <1>1, <1>3
<1>5. Decode(u, player[u], q, r) \in
        [header : [{"audio", "video"} -> Int], gap : BOOLEAN]
  BY <1>1, <1>3, DecodeType
<1>6. TypeOK'
  <2>1. player' \in [Users -> PlayerRecords]
    BY <1>2, <1>3 DEF IInv, TypeOK
  <2>2. decoder' \in [Users -> [header : [{"audio", "video"} -> Int],
                               gap : BOOLEAN]]
    BY <1>2, <1>5 DEF IInv, TypeOK
  <2>3. QED
    BY <1>2, <2>1, <2>2 DEF IInv, TypeOK, streamVars, PlayerRecords
<1>7. NobodyAhead'
  <2> SUFFICES ASSUME NEW v \in Users
               PROVE  /\ player'[v].out_index \in -1 .. frame_index_
                      /\ \A k \in DOMAIN player'[v].frames :
                           player'[v].frames[k].index <= frame_index_
    BY <1>2 DEF NobodyAhead, streamVars
  <2>1. player'[v] = IF v = u THEN r ELSE player[v]
    BY <1>2 DEF IInv, TypeOK
  <2>2. QED
    BY <1>4, <2>1 DEF IInv, NobodyAhead
<1>8. (RingHoldsWindow /\ RingSlots /\ RingFilled)'
  BY <1>2 DEF IInv, streamVars, RingHoldsWindow, RingSlots, RingFilled,
              InWindow, Slot
<1>9. (HeadersPublished /\ GopsMatchBuffer)'
  BY <1>2 DEF IInv, streamVars, HeadersPublished, GopsMatchBuffer, InWindow,
              IsKeyFrame
<1>10. QED
  BY <1>6, <1>7, <1>8, <1>9 DEF IInv

-----------------------------------------------------------------------------
(* The theorems.                                                            *)

(* Every reachable state satisfies the inductive invariant.                  *)
THEOREM StreamInvariant == Spec => []IInv
<1>1. IInv /\ [Next]_vars => IInv'
  <2> SUFFICES ASSUME IInv, [Next]_vars PROVE IInv'
    OBVIOUS
  <2>1. CASE \E kind \in Kinds, delta \in Deltas : AddPacket(kind, delta)
    BY <2>1, AddPacketIInv
  <2>2. CASE \E u \in Users, sendable \in BOOLEAN : PostFrames(u, sendable)
    BY <2>2, PostFramesIInv
  <2>3. CASE UNCHANGED vars
    BY <2>3, Zenon DEF vars, streamVars, IInv, TypeOK, RingHoldsWindow, RingSlots,
                RingFilled, HeadersPublished, GopsMatchBuffer, InWindow,
                NobodyAhead, Slot, IsKeyFrame, PlayerRecords
  <2>4. QED
    BY <2>1, <2>2, <2>3 DEF Next
<1>2. QED
  BY <1>1, InitIInv, PTL DEF Spec

(* Every variable keeps its type, whatever the publisher sends.              *)
THEOREM StreamTypeOK == Spec => []TypeOK
<1>1. IInv => TypeOK
  BY DEF IInv
<1>2. QED
  BY <1>1, StreamInvariant, PTL

(* The ring holds exactly the last BufferSize packets.                       *)
THEOREM StreamRingHoldsWindow == Spec => []RingHoldsWindow
<1>1. IInv => RingHoldsWindow
  BY DEF IInv
<1>2. QED
  BY <1>1, StreamInvariant, PTL

(* The GOP index and the ring agree, except for entry 0 at one moment.       *)
THEOREM StreamGopsMatchBuffer == Spec => []GopsMatchBuffer
<1>1. IInv => GopsMatchBuffer
  BY DEF IInv
<1>2. QED
  BY <1>1, StreamInvariant, PTL

-----------------------------------------------------------------------------
(* Refinement.                                                              *)

(* What Log!batch holds for a player.                                        *)
Batch(p) == {p.frames[k].index : k \in DOMAIN p.frames}

(* A fetch of the player is a Fetch of the log.                              *)
LEMMA FetchRefines ==
  ASSUME IInv, NEW u \in Users, NEW q, NEW r,
         player[u].frames = <<>>, Fetched(player[u], q),
         r \in PlayerRecords, r.out_index = q.out_index,
         r.frames \in {q.frames, <<>>},
         player' = [player EXCEPT ![u] = r], frame_index_' = frame_index_
  PROVE  Log!Fetch(u)
<1> DEFINE p == player[u]
           position == [v \in Users |-> player[v].out_index]
           batch    == [v \in Users |-> Batch(player[v])]
<1>1. PICK from \in 0 .. frame_index_, to \in 0 .. frame_index_ :
        /\ InWindow(from) /\ from <= to
        /\ \/ p.out_index = -1
           \/ /\ p.out_index < from
              /\ InWindow(p.out_index + 1) => from = p.out_index + 1
        /\ q.out_index = to
        /\ DOMAIN q.frames = 1 .. to - from + 1
        /\ \A k \in 1 .. to - from + 1 : q.frames[k].index = from + k - 1
  BY DEF Fetched
<1>2. /\ frame_index_ \in Int /\ p.out_index \in -1 .. frame_index_
      /\ player \in [Users -> PlayerRecords]
      /\ BufferSize \in Nat \ {0}
  BY StreamAssumption DEF IInv, TypeOK, NobodyAhead
<1>3. /\ from \in Log!Oldest .. frame_index_
      /\ to \in Log!Oldest .. frame_index_
  BY <1>1, <1>2 DEF Log!Oldest, InWindow
<1>4. Log!MayResumeAt(u, from)
  <2>1. position[u] = p.out_index
    OBVIOUS
  <2>2. \/ p.out_index = -1
        \/ from = p.out_index + 1
        \/ p.out_index + 1 < Log!Oldest /\ p.out_index < from
    BY <1>1, <1>2 DEF Log!Oldest, InWindow
  <2>3. QED
    BY <2>1, <2>2 DEF Log!MayResumeAt
<1>5. batch[u] = {}
  BY DEF Batch
<1>6. /\ position' = [position EXCEPT ![u] = to]
      /\ batch' = [batch EXCEPT ![u] = Batch(r)]
  BY <1>1, <1>2
<1>7. \/ batch' = [batch EXCEPT ![u] = from .. to]
      \/ batch' = batch
  <2>1. CASE r.frames = q.frames
    <3>1. Batch(r) = from .. to
      <4>1. \A i \in from .. to :
              i - from + 1 \in DOMAIN q.frames
                /\ q.frames[i - from + 1].index = i
        BY <1>1
      <4>2. \A k \in DOMAIN q.frames : q.frames[k].index \in from .. to
        BY <1>1
      <4>3. QED
        BY <2>1, <4>1, <4>2 DEF Batch
    <3>2. QED
      BY <1>6, <3>1
  <2>2. CASE r.frames = <<>>
    <3>1. Batch(r) = {}
      BY <2>2 DEF Batch
    <3>2. QED
      BY <1>5, <1>6, <3>1
  <2>3. QED
    BY <2>1, <2>2
<1>8. batch = [v \in Users |-> {player[v].frames[k].index :
                                  k \in DOMAIN player[v].frames}]
  BY DEF Batch
<1>9. QED
  BY <1>1, <1>3, <1>4, <1>5, <1>6, <1>7 DEF Log!Fetch, Batch

(* Every step of the stream is a step of the log or leaves it unchanged.     *)
LEMMA StepRefines ==
  ASSUME IInv, [Next]_vars
  PROVE  [Log!LogNext]_Log!logVars
<1>1. ASSUME NEW kind \in Kinds, NEW delta \in Deltas, AddPacket(kind, delta)
      PROVE  Log!Publish
  BY <1>1 DEF AddPacket, Log!Publish
<1>2. ASSUME NEW u \in Users, NEW sendable \in BOOLEAN, PostFrames(u, sendable)
      PROVE  Log!Fetch(u) \/ Log!Deliver(u) \/ UNCHANGED Log!logVars
  <2> DEFINE p == player[u]
             q == GetFrames(p)
             r == IF sendable THEN Push(q) ELSE q
  <2>1. /\ player' = [player EXCEPT ![u] = r] /\ frame_index_' = frame_index_
        /\ player \in [Users -> PlayerRecords]
    BY <1>2 DEF PostFrames, streamVars, IInv, TypeOK
  <2>2. q \in PlayerRecords
    BY GetFramesType
  <2>3. p \in PlayerRecords /\ p.out_index \in -1 .. frame_index_
    BY <2>1 DEF IInv, NobodyAhead
  <2>4. q = p \/ (p.frames = <<>> /\ Fetched(p, q))
    BY <2>3, GetFramesFetches
  <2> HIDE DEF q
  <2>5. /\ r \in PlayerRecords /\ r.out_index = q.out_index
        /\ r.frames \in {q.frames, <<>>}
    BY <2>2, PushKeeps
  <2> HIDE DEF r
  <2>6. CASE p.frames = <<>> /\ Fetched(p, q)
    BY <2>1, <2>5, <2>6, FetchRefines
  <2>7. CASE q = p
    <3> DEFINE position == [v \in Users |-> player[v].out_index]
               batch    == [v \in Users |-> Batch(player[v])]
    <3>1. /\ position' = position
          /\ batch' = [batch EXCEPT ![u] = Batch(r)]
      BY <2>1, <2>5, <2>7
    <3>2. CASE r.frames = p.frames
      <4>1. Batch(r) = Batch(p)
        BY <3>2 DEF Batch
      <4>2. batch' = batch
        BY <3>1, <4>1
      <4>3. QED
        BY <2>1, <3>1, <4>2 DEF Log!logVars, Batch
    <3>3. CASE r.frames = <<>> /\ p.frames # <<>>
      <4>1. batch' = [batch EXCEPT ![u] = {}]
        <5>1. Batch(r) = {}
          BY <3>3 DEF Batch
        <5>2. QED
          BY <3>1, <5>1
      <4>2. batch[u] # {}
        <5>1. p.frames \in Seq(Packets)
          BY <2>3 DEF PlayerRecords
        <5>2. 1 \in DOMAIN p.frames
          BY <3>3, <5>1, EmptySeq, LenProperties
        <5>3. QED
          BY <5>2 DEF Batch
      <4>3. QED
        BY <2>1, <3>1, <4>1, <4>2 DEF Log!Deliver, Batch
    <3>4. QED
      BY <2>5, <2>7, <3>2, <3>3
  <2>8. QED
    BY <2>4, <2>6, <2>7
<1>3. CASE UNCHANGED vars
  BY <1>3 DEF vars, streamVars, Log!logVars
<1>4. QED
  BY <1>1, <1>2, <1>3 DEF Next, Log!LogNext

(* The stream implements the log: players get consecutive packets, never go  *)
(* back, and lose only what the ring has dropped.                            *)
THEOREM StreamImplementsLog == Spec => LogSpec
<1>1. Init => Log!LogInit
  BY DEF Init, NewPlayer, Log!LogInit
<1>2. IInv /\ [Next]_vars => [Log!LogNext]_Log!logVars
  BY StepRefines
<1>3. QED
  BY <1>1, <1>2, StreamInvariant, PTL DEF Spec, LogSpec, Log!LogSpec

(* A player that enters while GOP entry 0 is not stale starts at a key frame, *)
(* for every timestamp the publisher may send.                               *)
THEOREM StreamEntersAtKeyFrame == Spec => EntersAtKeyFrameUnlessStale
<1> DEFINE Enters(u) ==
             player[u].out_index < 0 /\ player'[u].out_index >= 0 =>
               IsKeyFrame(player'[u].frames[1].kind)
<1>1. ASSUME IInv, [Next]_vars, frame_index_ # BufferSize, NEW u \in Users
      PROVE  Enters(u)
  <2>1. ASSUME NEW kind \in Kinds, NEW delta \in Deltas, AddPacket(kind, delta)
        PROVE  Enters(u)
    <3>1. player' = player
      BY <2>1 DEF AddPacket
    <3>2. player[u].out_index \in Int
      BY <1>1 DEF IInv, TypeOK, PlayerRecords
    <3>3. QED
      BY <3>1, <3>2
  <2>2. ASSUME NEW v \in Users, NEW sendable \in BOOLEAN, PostFrames(v, sendable)
        PROVE  Enters(u)
    <3> DEFINE p == player[u]
               q == GetFrames(p)
               r == IF sendable THEN Push(q) ELSE q
    <3>1. player \in [Users -> PlayerRecords] /\ p \in PlayerRecords
          /\ p.out_index \in -1 .. frame_index_ /\ frame_index_ \in Int
      BY <1>1 DEF IInv, TypeOK, NobodyAhead
    <3>2. CASE u # v
      <4>1. player'[u] = p
        BY <2>2, <3>1, <3>2 DEF PostFrames
      <4>2. QED
        BY <3>1, <4>1
    <3>3. CASE u = v
      <4>1. player'[u] = r /\ HasMedia
        BY <2>2, <3>1, <3>3 DEF PostFrames
      <4>2. q \in PlayerRecords
        BY <1>1, GetFramesType
      <4>3. \/ q = p
            \/ /\ Fetched(p, q)
               /\ p.out_index = -1 =>
                    /\ HasMedia => q.meta # None
                    /\ frame_index_ # BufferSize => IsKeyFrame(q.frames[1].kind)
        BY <1>1, <3>1, GetFramesFetches
      <4> HIDE DEF q
      <4>4. r.out_index = q.out_index /\ (q.meta # None => r.frames = q.frames)
        BY <4>2, PushKeeps
      <4> HIDE DEF r
      <4>5. QED
        BY <1>1, <3>1, <4>1, <4>3, <4>4
    <3>4. QED
      BY <3>2, <3>3
  <2>3. CASE UNCHANGED vars
    <3>1. player' = player /\ player[u].out_index \in Int
      BY <1>1, <2>3 DEF vars, IInv, TypeOK, PlayerRecords
    <3>2. QED
      BY <3>1
  <2>4. QED
    BY <1>1, <2>1, <2>2, <2>3 DEF Next
<1>2. IInv /\ [Next]_vars =>
        [frame_index_ # BufferSize => \A u \in Users : Enters(u)]_vars
  BY <1>1
<1>3. QED
  BY <1>2, StreamInvariant, PTL DEF Spec, EntersAtKeyFrameUnlessStale

-----------------------------------------------------------------------------
(* What a decoder needs: the header that governs the next frame is held.     *)

Media == {"audio", "video"}

(* A packet is listed as a header exactly on the track it is a header of.     *)
Listed(packet) ==
  \A t \in {"meta", "audio", "video"} :
    packet.index \in codec_headers_[t] <=>
      IsCodecHeader(packet.kind) /\ HeaderTrack(packet.kind) = t

(* The packet a player receives next: the first of its batch, or the one     *)
(* after the last it was sent.                                               *)
FirstOf(p) == p.out_index - Len(p.frames) + 1

InOrder(p) == \A k \in DOMAIN p.frames : p.frames[k].index = FirstOf(p) + k - 1

(* The header the decoder will have when it gets that packet.                *)
Held(p, header, t) == IF p[t] # None THEN p[t] ELSE header[t]

Before(t, i) == {h \in codec_headers_[t] : h < i}

(* It is the one that governs the packet, or the packet itself.              *)
GovernedAt(i, held, t) ==
  Before(t, i) # {} =>
    held = Max(Before(t, i)) \/ (held = i /\ i \in codec_headers_[t])

Governed(p, header, t) == GovernedAt(FirstOf(p), Held(p, header, t), t)

RingListed ==
  \A s \in 0 .. BufferSize - 1 :
    packet_buffer_[s] # NoPacket => Listed(packet_buffer_[s])

BatchesListed ==
  \A u \in Users :
    /\ \A k \in DOMAIN player[u].frames : Listed(player[u].frames[k])
    /\ InOrder(player[u])

HeadersHeld ==
  \A u \in Users :
    player[u].out_index >= 0 /\ ~decoder[u].gap =>
      \A t \in Media : Governed(player[u], decoder[u].header, t)

HeldInv == IInv /\ RingListed /\ BatchesListed /\ HeadersHeld

LEMMA MaxUnique ==
  ASSUME NEW b \in Nat, NEW S, S \subseteq 0 .. b, NEW m \in S,
         \A i \in S : i <= m
  PROVE  Max(S) = m
<1> DEFINE x == Max(S)
<1>1. x \in S /\ m <= x
  BY MaxProperty
<1> HIDE DEF x
<1>2. x <= m
  BY <1>1
<1>3. x \in Int /\ m \in Int
  BY <1>1
<1>4. x = m
  BY <1>1, <1>2, <1>3
<1>5. QED
  BY <1>4 DEF x

(* Headers are published indices.                                            *)
LEMMA HeadersBounded ==
  ASSUME IInv, NEW t \in {"meta", "audio", "video"}
  PROVE  /\ codec_headers_[t] \subseteq 0 .. frame_index_
         /\ frame_index_ \in Int /\ frame_index_ >= -1
         /\ codec_headers_[t] # {} => frame_index_ \in Nat
<1>1. /\ codec_headers_[t] \subseteq 0 .. frame_index_
      /\ frame_index_ \in Int /\ frame_index_ >= -1
  BY DEF IInv, TypeOK, HeadersPublished
<1>2. ASSUME NEW h \in codec_headers_[t] PROVE frame_index_ \in Nat
  <2>1. h \in 0 .. frame_index_
    BY <1>1
  <2>2. QED
    BY <1>1, <2>1
<1>3. QED
  BY <1>1, <1>2

(* LocateGop picks the header that governs the group's first packet; when     *)
(* entry 0 is stale it picks the newest, which governs the newest packet.    *)
LEMMA HeaderAtGoverns ==
  ASSUME IInv, NEW t \in Media,
         NEW idx \in 0 .. frame_index_, NEW from \in 0 .. frame_index_,
         from = idx \/ (idx = 0 /\ from = frame_index_),
         Before(t, from) # {}
  PROVE  /\ HeaderAt(t, idx) # None
         /\ GovernedAt(from, HeaderAt(t, idx), t)
<1> DEFINE all   == codec_headers_[t]
           older == {i \in all : i <= idx}
           prior == Before(t, from)
           h     == HeaderAt(t, idx)
<1>1. /\ t \in {"meta", "audio", "video"} /\ all \subseteq 0 .. frame_index_
      /\ frame_index_ \in Int
  BY HeadersBounded DEF Media
<1>2. /\ prior \subseteq all /\ all # {} /\ frame_index_ \in Nat
      /\ from \in Nat /\ from > 0
  BY <1>1 DEF Before
<1>3. h \in all /\ h # None
  <2>1. idx \in Int
    OBVIOUS
  <2>2. h \in all
    BY <1>1, <1>2, <2>1, HeaderAtListed
  <2>3. QED
    BY <1>1, <2>2 DEF None
<1>4. CASE from = idx
  <2>1. older # {} /\ idx > 0 /\ older \subseteq 0 .. frame_index_
    BY <1>1, <1>2, <1>4 DEF Before
  <2>2. h = Max(older)
    BY <1>2, <2>1 DEF HeaderAt
  <2>3. CASE idx \in all
    <3>1. idx \in older /\ \A i \in older : i <= idx
      BY <2>3
    <3>2. Max(older) = idx
      BY <1>2, <2>1, <3>1, MaxUnique
    <3>3. QED
      BY <1>3, <1>4, <2>2, <2>3, <3>2 DEF GovernedAt
  <2>4. CASE idx \notin all
    <3>1. older = prior
      BY <1>1, <1>4, <2>4 DEF Before
    <3>2. QED
      BY <1>3, <2>2, <3>1 DEF GovernedAt
  <2>5. QED
    BY <2>3, <2>4
<1>5. CASE idx = 0 /\ from = frame_index_
  <2>1. h = Max(all)
    BY <1>2, <1>5 DEF HeaderAt
  <2>2. CASE from \in all
    <3>1. \A i \in all : i <= from
      BY <1>1, <1>5
    <3>2. Max(all) = from
      BY <1>1, <1>2, <2>2, <3>1, MaxUnique
    <3>3. QED
      BY <1>3, <2>1, <2>2, <3>2 DEF GovernedAt
  <2>3. CASE from \notin all
    <3>1. all = prior
      BY <1>1, <1>5, <2>3 DEF Before
    <3>2. QED
      BY <1>3, <2>1, <3>1 DEF GovernedAt
  <2>4. QED
    BY <2>2, <2>3
<1>6. QED
  BY <1>4, <1>5

-----------------------------------------------------------------------------
(* Fetching.                                                                 *)

LEMMA CopiesHeld ==
  ASSUME HeldInv, NEW p \in PlayerRecords, NEW q, Copies(p, q)
  PROVE  /\ q \in PlayerRecords /\ q.frames # <<>>
         /\ q.audio = p.audio /\ q.video = p.video
         /\ InOrder(q) /\ \A k \in DOMAIN q.frames : Listed(q.frames[k])
         /\ FirstOf(q) \in 0 .. frame_index_ /\ InWindow(FirstOf(q))
         /\ p.out_index < FirstOf(q) /\ FirstOf(q) <= q.out_index
         /\ q.frames[1].index = FirstOf(q)
         /\ Slot(FirstOf(q)) = Slot(p.out_index + 1)
         /\ InWindow(p.out_index + 1) => FirstOf(q) = p.out_index + 1
<1>1. PICK from \in 0 .. frame_index_, to \in 0 .. frame_index_ :
    /\ InWindow(from) /\ from <= to /\ p.out_index < from
    /\ InWindow(p.out_index + 1) => from = p.out_index + 1
    /\ Slot(from) = Slot(p.out_index + 1)
    /\ \A k \in 1 .. to - from + 1 :
         /\ Slot(from + k - 1) \in 0 .. BufferSize - 1
         /\ Copied(from, to)[k] # NoPacket
         /\ Copied(from, to)[k].index = from + k - 1
    /\ q \in PlayerRecords
    /\ q.frames = Copied(from, to) /\ q.out_index = to
    /\ q.audio = p.audio /\ q.video = p.video
  BY DEF Copies
<1> DEFINE n == to - from + 1
<1>2. n \in Nat /\ n >= 1 /\ from \in Int /\ to \in Int
  BY <1>1
<1>3. DOMAIN q.frames = 1 .. n
  BY <1>1 DEF Copied
<1>4. Len(q.frames) = n
  <2>1. q.frames \in Seq(Packets)
    BY <1>1 DEF PlayerRecords
  <2>2. Len(q.frames) \in Nat /\ DOMAIN q.frames = 1 .. Len(q.frames)
    BY <2>1, LenProperties
  <2>3. 1 .. n = 1 .. Len(q.frames)
    BY <1>3, <2>2
  <2> HIDE DEF n
  <2>4. n \in 1 .. Len(q.frames)
    BY <1>2, <2>3
  <2>5. Len(q.frames) \in 1 .. n
    BY <2>2, <2>3, <2>4
  <2>6. QED
    BY <1>2, <2>2, <2>4, <2>5
<1>5. FirstOf(q) = from
  BY <1>1, <1>2, <1>4 DEF FirstOf
<1>6. InOrder(q) /\ q.frames[1].index = from
  <2>1. \A k \in 1 .. n : q.frames[k].index = from + k - 1
    BY <1>1
  <2>2. 1 \in 1 .. n /\ from + 1 - 1 = from
    BY <1>2
  <2>3. q.frames[1].index = from
    BY <2>1, <2>2
  <2>4. QED
    BY <1>3, <1>5, <2>1, <2>3 DEF InOrder
<1>7. ASSUME NEW k \in DOMAIN q.frames PROVE Listed(q.frames[k])
  <2>1. /\ Slot(from + k - 1) \in 0 .. BufferSize - 1
        /\ Copied(from, to)[k] # NoPacket
        /\ Copied(from, to)[k] = packet_buffer_[Slot(from + k - 1)]
    BY <1>1, <1>3 DEF Copied
  <2>2. Listed(packet_buffer_[Slot(from + k - 1)])
    BY <2>1 DEF HeldInv, RingListed
  <2>3. QED
    BY <1>1, <2>1, <2>2
<1>8. q.frames # <<>>
  BY <1>2, <1>4, EmptySeq
<1>9. QED
  BY <1>1, <1>5, <1>6, <1>7, <1>8

(* A player that enters will have the governing headers; one that goes on    *)
(* keeps what it has, and its next packet is the one it wants unless there   *)
(* is a hole.                                                                *)
LEMMA GetFramesGoverned ==
  ASSUME HeldInv, NEW p \in PlayerRecords, p.out_index \in -1 .. frame_index_
  PROVE  LET q == GetFrames(p)
         IN  \/ q = p
             \/ /\ q \in PlayerRecords /\ p.frames = <<>> /\ q.frames # <<>>
                /\ InOrder(q) /\ \A k \in DOMAIN q.frames : Listed(q.frames[k])
                /\ q.frames[1].index = FirstOf(q)
                /\ FirstOf(q) \in 0 .. frame_index_
                /\ FirstOf(q) <= q.out_index
                /\ p.out_index >= 0 => q.audio = p.audio /\ q.video = p.video
                /\ p.out_index = -1 =>
                     \A header, t : t \in Media => Governed(q, header, t)
<1> DEFINE q == GetFrames(p)
<1>0. IInv /\ frame_index_ \in Int /\ p.out_index \in Int
  BY DEF HeldInv, IInv, TypeOK
<1>1. CASE Pending(p)
  BY <1>1 DEF GetFrames
<1>2. CASE ~Pending(p) /\ p.out_index >= 0
  <2>1. q = GetNextFrame(p)
    <3>1. SkipFrame(p) = p
      BY <1>2, SkipFrameStays
    <3>2. QED
      BY <1>2, <3>1 DEF GetFrames
  <2>2. CASE p.out_index = frame_index_
    <3>1. p.out_index + 1 > frame_index_
      BY <1>0, <2>2
    <3>2. QED
      BY <2>1, <3>1, Zenon DEF GetNextFrame
  <2>3. CASE p.out_index < frame_index_
    <3>1. Copies(p, q)
      BY <1>0, <1>2, <2>1, <2>3, GetNextFrameCopies
    <3> HIDE DEF q
    <3>2. p.frames = <<>> /\ p.out_index # -1
      BY <1>2 DEF Pending
    <3>3. QED
      BY <3>1, <3>2, CopiesHeld DEF q
  <2>4. QED
    BY <1>0, <2>2, <2>3
<1>3. CASE ~Pending(p) /\ p.out_index < 0 /\ GetGopByLatency # None
  <2> DEFINE idx == GetGopByLatency
             l   == LocateGop(p, idx)
  <2>1. /\ idx \in 0 .. frame_index_ /\ idx \in Int
        /\ InWindow(idx) \/ (idx = 0 /\ frame_index_ = BufferSize)
    <3>1. /\ GetGopByLatency \in 0 .. frame_index_
          /\ \/ InWindow(GetGopByLatency)
             \/ GetGopByLatency = 0 /\ frame_index_ = BufferSize
      BY <1>0, <1>3, GopListed
    <3> HIDE DEF l
    <3>2. QED
      BY <3>1, <1>0
  <2>2. q = GetNextFrame(l)
    BY <1>3 DEF GetFrames
  <2> HIDE DEF idx
  <2>3. /\ l \in PlayerRecords /\ l.out_index = idx - 1
        /\ l.audio = HeaderAt("audio", idx) /\ l.video = HeaderAt("video", idx)
    BY <1>0, <2>1, LocateGopType
  <2> HIDE DEF q, l
  <2>4. Copies(l, q)
    BY <1>0, <2>1, <2>2, <2>3, GetNextFrameCopies
  <2> DEFINE from == FirstOf(q)
  <2>5. /\ q \in PlayerRecords /\ q.frames # <<>>
        /\ q.audio = l.audio /\ q.video = l.video
        /\ InOrder(q) /\ \A k \in DOMAIN q.frames : Listed(q.frames[k])
        /\ from \in 0 .. frame_index_ /\ InWindow(from)
        /\ from <= q.out_index /\ q.frames[1].index = from
        /\ Slot(from) = Slot(l.out_index + 1)
        /\ InWindow(l.out_index + 1) => from = l.out_index + 1
    BY <2>3, <2>4, CopiesHeld
  <2> HIDE DEF from
  <2>6. l.out_index + 1 = idx /\ p.out_index = -1 /\ p.frames = <<>>
    BY <1>0, <1>3, <2>1, <2>3 DEF Pending
  <2>7. from = idx \/ (idx = 0 /\ from = frame_index_)
    <3>1. CASE InWindow(idx)
      BY <2>5, <2>6, <3>1
    <3>2. CASE idx = 0 /\ frame_index_ = BufferSize
      <4>1. from \in Nat /\ 0 < from /\ from <= BufferSize
        BY <1>0, <2>5, <3>2, StreamAssumption DEF InWindow
      <4>2. Slot(0) = Slot(from)
        BY <2>5, <2>6, <3>2
      <4>3. ~(from < 0 + BufferSize)
        BY <4>1, <4>2, SlotsDiffer
      <4>4. QED
        BY <3>2, <4>1, <4>3, StreamAssumption
    <3>3. QED
      BY <2>1, <3>1, <3>2
  <2>8. ASSUME NEW header, NEW t \in Media PROVE Governed(q, header, t)
    <3>1. q[t] = HeaderAt(t, idx)
      BY <2>3, <2>5 DEF Media
    <3>2. SUFFICES ASSUME Before(t, from) # {}
                   PROVE  GovernedAt(from, Held(q, header, t), t)
      BY DEF Governed, GovernedAt, from
    <3>3. /\ HeaderAt(t, idx) # None
          /\ GovernedAt(from, HeaderAt(t, idx), t)
      BY <1>0, <2>1, <2>5, <2>7, <3>2, HeaderAtGoverns
    <3>4. QED
      BY <3>1, <3>3 DEF Held
  <2>9. QED
    BY <2>5, <2>6, <2>8 DEF q, from
<1>4. CASE ~Pending(p) /\ p.out_index < 0 /\ GetGopByLatency = None
  BY <1>4 DEF GetFrames
<1>5. QED
  BY <1>0, <1>1, <1>2, <1>3, <1>4

-----------------------------------------------------------------------------
(* Sending.                                                                  *)

(* The headers of track t in the batch that leaves with r, which was q.       *)
Sent(q, r, t) ==
  LET sent == IF r.frames = <<>> THEN q.frames ELSE <<>>
  IN  {sent[k].index : k \in {i \in DOMAIN sent :
         IsCodecHeader(sent[i].kind) /\ HeaderTrack(sent[i].kind) = t}}

(* The decoder's header afterwards.                                          *)
Heard(q, r, old, t) ==
  IF Sent(q, r, t) # {} THEN Max(Sent(q, r, t))
  ELSE IF q[t] # None /\ r[t] = None THEN q[t]
  ELSE old

LEMMA DecodeHears ==
  ASSUME NEW u, NEW p, NEW q, NEW r
  PROVE  /\ \A t \in Media :
              Decode(u, p, q, r).header[t] = Heard(q, r, decoder[u].header[t], t)
         /\ Decode(u, p, q, r).gap <=>
              \/ decoder[u].gap
              \/ /\ q.frames # p.frames /\ p.out_index >= 0
                 /\ q.frames[1].index # p.out_index + 1
<1> DEFINE gap == \/ decoder[u].gap
                  \/ /\ q.frames # p.frames /\ p.out_index >= 0
                     /\ q.frames[1].index # p.out_index + 1
<1>1. Decode(u, p, q, r) =
        [header |-> [t \in Media |-> Heard(q, r, decoder[u].header[t], t)],
         gap |-> gap]
  BY Zenon DEF Decode, Media, Heard, Sent
<1> HIDE DEF gap
<1>2. Decode(u, p, q, r).gap = gap
  BY <1>1
<1>3. QED
  BY <1>1, <1>2 DEF gap

(* Nothing is sent of a batch that stays, or of none.                        *)
LEMMA NothingSent ==
  ASSUME NEW q, NEW r, NEW t, r.frames = q.frames
  PROVE  Sent(q, r, t) = {}
BY DEF Sent

(* A batch that is sent holds every header of its interval.                  *)
LEMMA BatchSent ==
  ASSUME NEW q \in PlayerRecords, InOrder(q),
         \A k \in DOMAIN q.frames : Listed(q.frames[k]),
         NEW r, r.frames = <<>>, NEW t \in Media
  PROVE  Sent(q, r, t) =
           {h \in codec_headers_[t] \cap Int :
              FirstOf(q) <= h /\ h <= q.out_index}
<1> DEFINE n == Len(q.frames)
           f == FirstOf(q)
<1>1. q.frames \in Seq(Packets) /\ q.out_index \in Int
  BY DEF PlayerRecords
<1>2. n \in Nat /\ DOMAIN q.frames = 1 .. n
  BY <1>1, LenProperties
<1>3. f = q.out_index - n + 1
  BY DEF FirstOf
<1>4. t \in {"meta", "audio", "video"}
  BY DEF Media
<1>5. ASSUME NEW k \in 1 .. n
      PROVE  /\ q.frames[k].index = f + k - 1
             /\ q.frames[k].index \in codec_headers_[t] <=>
                  IsCodecHeader(q.frames[k].kind)
                    /\ HeaderTrack(q.frames[k].kind) = t
  BY <1>2, <1>4 DEF InOrder, Listed
<1>6. Sent(q, r, t) =
        {q.frames[k].index : k \in {i \in 1 .. n :
           IsCodecHeader(q.frames[i].kind) /\ HeaderTrack(q.frames[i].kind) = t}}
  BY <1>2 DEF Sent
<1> HIDE DEF n, f
<1>7. ASSUME NEW h \in Sent(q, r, t)
      PROVE  h \in codec_headers_[t] /\ h \in Int /\ f <= h /\ h <= q.out_index
  <2>1. PICK k \in 1 .. n : /\ h = q.frames[k].index
                            /\ IsCodecHeader(q.frames[k].kind)
                            /\ HeaderTrack(q.frames[k].kind) = t
    BY <1>6
  <2>2. h = f + k - 1 /\ h \in codec_headers_[t]
    BY <1>5, <2>1
  <2>3. QED
    BY <1>1, <1>2, <1>3, <2>2
<1>8. ASSUME NEW h \in codec_headers_[t], h \in Int, f <= h, h <= q.out_index
      PROVE  h \in Sent(q, r, t)
  <2> DEFINE k == h - f + 1
  <2>0. f \in Int /\ q.out_index = f + n - 1
    BY <1>1, <1>2, <1>3
  <2>1. k \in 1 .. n /\ f + k - 1 = h
    BY <1>2, <1>8, <2>0
  <2> HIDE DEF k
  <2>2. q.frames[k].index = h
    BY <1>5, <2>1
  <2>3. IsCodecHeader(q.frames[k].kind) /\ HeaderTrack(q.frames[k].kind) = t
    BY <1>5, <1>8, <2>1, <2>2
  <2>4. QED
    BY <1>6, <2>1, <2>2, <2>3
<1>9. QED
  BY <1>7, <1>8 DEF f

(* What PushFrame does to the headers that wait and to the batch.            *)
LEMMA PushCases ==
  ASSUME NEW q \in PlayerRecords
  PROVE  LET r == Push(q)
         IN  /\ r.out_index = q.out_index
             /\ \/ /\ r.frames = q.frames
                   /\ \A t \in Media : r[t] = q[t] \/ r[t] = None
                \/ /\ r.frames = <<>>
                   /\ \A t \in Media : q[t] = None /\ r[t] = None
<1>1. CASE q.meta # None
  <2>1. Push(q) = [q EXCEPT !.meta = None]
    BY <1>1, Zenon DEF Push
  <2>2. QED
    BY <2>1 DEF PlayerRecords, Media
<1>2. CASE q.meta = None /\ q.audio # None
  <2>1. Push(q) = [q EXCEPT !.audio = None]
    BY <1>2 DEF Push
  <2>2. QED
    BY <2>1 DEF PlayerRecords, Media
<1>3. CASE q.meta = None /\ q.audio = None /\ q.video # None
  <2>1. Push(q) = [q EXCEPT !.video = None]
    BY <1>3 DEF Push
  <2>2. QED
    BY <2>1 DEF PlayerRecords, Media
<1>4. CASE q.meta = None /\ q.audio = None /\ q.video = None
  <2>1. Push(q) = [q EXCEPT !.frames = <<>>]
    BY <1>4 DEF Push
  <2>2. QED
    BY <1>4, <2>1 DEF PlayerRecords, Media
<1>5. QED
  BY <1>1, <1>2, <1>3, <1>4

(* Sending keeps the governing header: a header that is sent becomes the     *)
(* decoder's, and a batch brings the headers of the packets behind it.       *)
LEMMA PushGoverned ==
  ASSUME HeldInv, NEW q \in PlayerRecords, InOrder(q),
         \A k \in DOMAIN q.frames : Listed(q.frames[k]),
         NEW r, r = q \/ r = Push(q), NEW t \in Media, NEW header, NEW later,
         later[t] = Heard(q, r, header[t], t),
         Governed(q, header, t)
  PROVE  Governed(r, later, t)
<1>1. /\ r.out_index = q.out_index
      /\ \/ /\ r.frames = q.frames
            /\ r[t] = q[t] \/ r[t] = None
         \/ /\ r.frames = <<>>
            /\ q[t] = None /\ r[t] = None
  BY PushCases
<1>2. CASE r.frames = q.frames /\ (r[t] = q[t] \/ r[t] = None)
  <2>1. Sent(q, r, t) = {}
    BY <1>2, NothingSent
  <2>2. later[t] = IF q[t] # None /\ r[t] = None THEN q[t] ELSE header[t]
    BY <2>1 DEF Heard
  <2>3. Held(r, later, t) = Held(q, header, t)
    BY <1>2, <2>2 DEF Held
  <2>4. FirstOf(r) = FirstOf(q)
    BY <1>1, <1>2 DEF FirstOf
  <2>5. QED
    BY <2>3, <2>4 DEF Governed
<1>3. CASE r.frames = <<>> /\ q[t] = None /\ r[t] = None
  <2> DEFINE f   == FirstOf(q)
             out == q.out_index
             new == Sent(q, r, t)
             all == codec_headers_[t]
  <2>1. /\ out \in Int /\ f \in Int /\ f <= out + 1
        /\ all \subseteq 0 .. frame_index_ /\ frame_index_ \in Int
        /\ all # {} => frame_index_ \in Nat
    <3>1. q.frames \in Seq(Packets) /\ out \in Int
      BY DEF PlayerRecords
    <3>2. Len(q.frames) \in Nat
      BY <3>1, LenProperties
    <3>3. f = out - Len(q.frames) + 1
      BY DEF FirstOf
    <3>4. t \in {"meta", "audio", "video"} /\ IInv
      BY DEF Media, HeldInv
    <3>5. f \in Int /\ f <= out + 1
      BY <3>1, <3>2, <3>3
    <3>6. QED
      BY <3>1, <3>4, <3>5, HeadersBounded
  <2>2. FirstOf(r) = out + 1
    BY <1>1, <1>3, <2>1, EmptySeq DEF FirstOf
  <2>3. new = {h \in all : f <= h /\ h <= out}
    <3>1. new = {h \in all \cap Int : f <= h /\ h <= out}
      BY <1>3, BatchSent
    <3>2. QED
      BY <2>1, <3>1
  <2>4. Held(r, later, t) = later[t] /\ Held(q, header, t) = header[t]
    BY <1>3 DEF Held
  <2>5. GovernedAt(f, header[t], t)
    BY <2>4 DEF Governed
  <2> HIDE DEF f, out, new
  <2>6. CASE new = {}
    <3>1. Before(t, out + 1) = Before(t, f)
      <4>1. \A h \in all : h \in Int /\ (h < out + 1 <=> h <= out)
        BY <2>1
      <4>2. \A h \in all : h < out + 1 <=> h < f
        BY <2>1, <2>3, <2>6
      <4>3. QED
        BY <4>2 DEF Before
    <3>2. later[t] = header[t]
      BY <1>3, <2>6 DEF Heard, new
    <3>3. CASE Before(t, f) = {}
      BY <2>2, <2>4, <3>1, <3>3 DEF Governed, GovernedAt
    <3>4. CASE header[t] = Max(Before(t, f))
      BY <2>2, <2>4, <3>1, <3>2, <3>4 DEF Governed, GovernedAt
    <3>5. CASE f \in all /\ header[t] = f
      <4>1. f > out
        BY <2>1, <2>3, <2>6, <3>5
      <4>2. f = out + 1
        BY <2>1, <4>1
      <4>3. QED
        BY <2>2, <2>4, <3>2, <3>5, <4>2 DEF Governed, GovernedAt
    <3>6. QED
      BY <2>5, <3>3, <3>4, <3>5 DEF GovernedAt
  <2>7. CASE new # {}
    <3>1. new \subseteq 0 .. frame_index_ /\ frame_index_ \in Nat
      BY <2>1, <2>3, <2>7
    <3>2. Max(new) \in new /\ \A h \in new : h <= Max(new)
      BY <2>7, <3>1, MaxProperty
    <3> DEFINE m == Max(new)
    <3>3. later[t] = m
      BY <2>7 DEF Heard, new
    <3> HIDE DEF m
    <3>4. m \in Before(t, out + 1) /\ f <= m
      BY <2>1, <2>3, <3>2 DEF Before, m
    <3>5. \A h \in Before(t, out + 1) : h <= m
      <4> SUFFICES ASSUME NEW h \in Before(t, out + 1) PROVE h <= m
        OBVIOUS
      <4>1. h \in all /\ h \in Int /\ h <= out
        BY <2>1 DEF Before
      <4>2. CASE h < f
        <5>1. m \in Int
          <6>1. m \in new
            BY <3>2 DEF m
          <6>2. QED
            BY <3>1, <6>1
        <5>2. QED
          BY <2>1, <3>4, <4>1, <4>2, <5>1
      <4>3. CASE ~(h < f)
        <5>1. h \in new
          BY <2>1, <2>3, <4>1, <4>3
        <5>2. QED
          BY <3>2, <5>1 DEF m
      <4>4. QED
        BY <4>2, <4>3
    <3>6. Before(t, out + 1) \subseteq 0 .. frame_index_
      BY <2>1 DEF Before
    <3>7. Max(Before(t, out + 1)) = m
      BY <3>1, <3>4, <3>5, <3>6, MaxUnique
    <3>8. QED
      BY <2>2, <2>4, <3>3, <3>7 DEF Governed, GovernedAt
  <2>8. QED
    BY <2>6, <2>7
<1>4. QED
  BY <1>1, <1>2, <1>3

-----------------------------------------------------------------------------
(* The headers held: initially, and across each action.                      *)

LEMMA InitHeld == Init => HeldInv
<1> SUFFICES ASSUME Init PROVE HeldInv
  OBVIOUS
<1>1. IInv
  BY InitIInv
<1>2. RingListed
  BY DEF Init, RingListed
<1>3. \A u \in Users : player[u].frames = <<>> /\ player[u].out_index = -1
  BY DEF Init, NewPlayer
<1>4. BatchesListed /\ HeadersHeld
  BY <1>3 DEF BatchesListed, HeadersHeld, InOrder
<1>5. QED
  BY <1>1, <1>2, <1>4 DEF HeldInv

(* AddPacket lists the new index, and no other.                              *)
LEMMA AddPacketLists ==
  ASSUME IInv, NEW kind \in Kinds, NEW delta \in Deltas,
         AddPacket(kind, delta), NEW t \in {"meta", "audio", "video"}
  PROVE  /\ \A h \in Int : h <= frame_index_ =>
              (h \in codec_headers_'[t] <=> h \in codec_headers_[t])
         /\ frame_index_ + 1 \in codec_headers_'[t] <=>
              IsCodecHeader(kind) /\ HeaderTrack(kind) = t
         /\ codec_headers_[t] \subseteq codec_headers_'[t]
<1> DEFINE n == frame_index_ + 1
<1>1. frame_index_ \in Int /\ codec_headers_[t] \subseteq 0 .. frame_index_
        /\ codec_headers_ \in [{"meta", "audio", "video"} -> SUBSET Nat]
  BY HeadersBounded DEF IInv, TypeOK
<1>2. n \notin codec_headers_[t] /\ \A h \in Int : h <= frame_index_ => h # n
  BY <1>1
<1>3. codec_headers_'[t] =
        IF IsCodecHeader(kind) /\ HeaderTrack(kind) = t
        THEN codec_headers_[t] \cup {n} ELSE codec_headers_[t]
  BY <1>1 DEF AddPacket, ParseCodecHeader
<1> HIDE DEF n
<1>4. QED
  BY <1>2, <1>3 DEF n

LEMMA AddPacketHeld ==
  ASSUME HeldInv, NEW kind \in Kinds, NEW delta \in Deltas,
         AddPacket(kind, delta)
  PROVE  HeldInv'
<1> DEFINE n == frame_index_ + 1
           T == {"meta", "audio", "video"}
<1>1. IInv /\ IInv'
  BY AddPacketIInv DEF HeldInv
<1>2. /\ frame_index_ \in Int /\ n \in Nat /\ Slot(n) \in 0 .. BufferSize - 1
      /\ player' = player /\ decoder' = decoder
      /\ player \in [Users -> PlayerRecords]
  <2>1. frame_index_ \in Int /\ n \in Nat /\ player \in [Users -> PlayerRecords]
    BY <1>1 DEF IInv, TypeOK
  <2>2. Slot(n) \in 0 .. BufferSize - 1
    BY <2>1, SlotType
  <2>3. player' = player /\ decoder' = decoder
    BY DEF AddPacket
  <2>4. QED
    BY <2>1, <2>2, <2>3
<1>3. ASSUME NEW t \in T
      PROVE  /\ \A h \in Int : h <= frame_index_ =>
                  (h \in codec_headers_'[t] <=> h \in codec_headers_[t])
             /\ n \in codec_headers_'[t] <=>
                  IsCodecHeader(kind) /\ HeaderTrack(kind) = t
             /\ codec_headers_[t] \subseteq codec_headers_'[t]
             /\ codec_headers_[t] \subseteq Int
             /\ codec_headers_'[t] \subseteq Int
  BY <1>1, AddPacketLists DEF IInv, TypeOK
<1>4. ASSUME NEW packet \in Packets, packet.index <= frame_index_, Listed(packet),
             NEW t \in T
      PROVE  packet.index \in codec_headers_'[t] <=>
               IsCodecHeader(packet.kind) /\ HeaderTrack(packet.kind) = t
  <2>1. packet.index \in Int
    BY DEF Packets
  <2>2. packet.index \in codec_headers_[t] <=>
          IsCodecHeader(packet.kind) /\ HeaderTrack(packet.kind) = t
    BY <1>4 DEF Listed
  <2>3. QED
    BY <1>3, <1>4, <2>1, <2>2
<1>5. RingListed'
  <2> SUFFICES ASSUME NEW s \in 0 .. BufferSize - 1,
                      packet_buffer_'[s] # NoPacket, NEW t \in T
               PROVE  packet_buffer_'[s].index \in codec_headers_'[t] <=>
                        /\ IsCodecHeader(packet_buffer_'[s].kind)
                        /\ HeaderTrack(packet_buffer_'[s].kind) = t
    BY DEF RingListed, Listed, IsCodecHeader, HeaderTrack
  <2>1. CASE s = Slot(n)
    <3>1. packet_buffer_'[s].index = n /\ packet_buffer_'[s].kind = kind
      BY <1>1, <1>2, <2>1 DEF AddPacket, IInv, TypeOK
    <3>2. QED
      BY <1>3, <3>1
  <2>2. CASE s # Slot(n)
    <3>1. packet_buffer_'[s] = packet_buffer_[s]
      BY <1>1, <1>2, <2>2 DEF AddPacket, IInv, TypeOK
    <3>2. packet_buffer_[s] \in Packets /\ packet_buffer_[s].index <= frame_index_
            /\ Listed(packet_buffer_[s])
      BY <1>1, <3>1 DEF HeldInv, RingListed, IInv, TypeOK, RingSlots, InWindow
    <3>3. QED
      BY <1>4, <3>1, <3>2
  <2>3. QED
    BY <2>1, <2>2
<1>6. BatchesListed'
  <2>1. ASSUME NEW u \in Users, NEW k \in DOMAIN player[u].frames, NEW t \in T
        PROVE  player[u].frames[k].index \in codec_headers_'[t] <=>
                 /\ IsCodecHeader(player[u].frames[k].kind)
                 /\ HeaderTrack(player[u].frames[k].kind) = t
    <3>1. player[u].frames[k] \in Packets
      BY <1>2, FramesArePackets
    <3>2. /\ player[u].frames[k].index <= frame_index_
          /\ Listed(player[u].frames[k])
      BY <1>1 DEF IInv, NobodyAhead, HeldInv, BatchesListed
    <3>3. QED
      BY <1>4, <3>1, <3>2
  <2>2. \A u \in Users : InOrder(player[u])
    BY DEF HeldInv, BatchesListed
  <2>3. \A u \in Users : InOrder(player'[u])
    BY <1>2, <2>2
  <2>4. QED
    BY <1>2, <2>1, <2>3 DEF BatchesListed, Listed, IsCodecHeader, HeaderTrack,
       InOrder, FirstOf
<1>7. HeadersHeld'
  <2>1. ASSUME NEW u \in Users, player[u].out_index >= 0, ~decoder[u].gap,
               NEW t \in Media
        PROVE  LET i    == FirstOf(player[u])
                   held == Held(player[u], decoder[u].header, t)
                   old  == {h \in codec_headers_'[t] : h < i}
               IN  old # {} =>
                     held = Max(old) \/ (held = i /\ i \in codec_headers_'[t])
    <3> DEFINE i    == FirstOf(player[u])
               held == Held(player[u], decoder[u].header, t)
               old  == {h \in codec_headers_'[t] : h < i}
    <3>1. GovernedAt(i, held, t)
      BY <2>1 DEF HeldInv, HeadersHeld, Governed
    <3>2. t \in T
      BY DEF Media
    <3>3. i \in Int /\ i <= n
      <4>1. /\ player[u].frames \in Seq(Packets)
            /\ player[u].out_index \in -1 .. frame_index_
        BY <1>1, <1>2 DEF PlayerRecords, IInv, NobodyAhead
      <4>2. Len(player[u].frames) \in Nat
        BY <4>1, LenProperties
      <4>3. QED
        BY <1>2, <4>1, <4>2 DEF FirstOf
    <3> HIDE DEF i, held, n
    <3>4. old = Before(t, i)
      <4>1. \A h \in Int : h < i => h <= frame_index_
        BY <1>2, <3>3 DEF n
      <4>2. QED
        BY <1>3, <3>2, <4>1 DEF Before
    <3> HIDE DEF old
    <3>5. old # {} => held = Max(old) \/ (held = i /\ i \in codec_headers_'[t])
      BY <1>3, <3>1, <3>2, <3>4 DEF GovernedAt
    <3>6. QED
      BY <3>5 DEF i, held, old
  <2>2. QED
    BY <1>2, <2>1 DEF HeadersHeld, Governed, GovernedAt, Before, Held, FirstOf
<1>8. QED
  BY <1>1, <1>5, <1>6, <1>7 DEF HeldInv

(* PostFrames changes one player and its decoder.                            *)
LEMMA PostFramesHeld ==
  ASSUME HeldInv, NEW u \in Users, NEW sendable \in BOOLEAN,
         PostFrames(u, sendable)
  PROVE  HeldInv'
<1> DEFINE p == player[u]
           q == GetFrames(p)
           r == IF sendable THEN Push(q) ELSE q
           d == Decode(u, p, q, r)
<1>1. IInv /\ IInv'
  BY PostFramesIInv DEF HeldInv
<1>2. /\ player' = [player EXCEPT ![u] = r]
      /\ decoder' = [decoder EXCEPT ![u] = d]
      /\ UNCHANGED streamVars
  BY DEF PostFrames
<1>3. /\ player \in [Users -> PlayerRecords] /\ p \in PlayerRecords
      /\ p.out_index \in -1 .. frame_index_ /\ frame_index_ \in Int
      /\ InOrder(p) /\ \A k \in DOMAIN p.frames : Listed(p.frames[k])
      /\ p.out_index >= 0 /\ ~decoder[u].gap =>
           \A t \in Media : Governed(p, decoder[u].header, t)
      /\ \A v \in Users : decoder[v] = decoder[v]
  BY <1>1 DEF HeldInv, BatchesListed, HeadersHeld, IInv, TypeOK, NobodyAhead
<1>4. \/ q = p
      \/ /\ q \in PlayerRecords /\ p.frames = <<>> /\ q.frames # <<>>
         /\ InOrder(q) /\ \A k \in DOMAIN q.frames : Listed(q.frames[k])
         /\ q.frames[1].index = FirstOf(q)
         /\ FirstOf(q) \in 0 .. frame_index_
         /\ FirstOf(q) <= q.out_index
         /\ p.out_index >= 0 => q.audio = p.audio /\ q.video = p.video
         /\ p.out_index = -1 =>
              \A header, t : t \in Media => Governed(q, header, t)
  BY <1>3, GetFramesGoverned
<1> HIDE DEF q
<1>5. q \in PlayerRecords /\ InOrder(q)
        /\ \A k \in DOMAIN q.frames : Listed(q.frames[k])
  BY <1>3, <1>4
<1>6. r = q \/ r = Push(q)
  OBVIOUS
<1> HIDE DEF r
<1>7. /\ \A t \in Media : d.header[t] = Heard(q, r, decoder[u].header[t], t)
      /\ d.gap <=> \/ decoder[u].gap
                   \/ /\ q.frames # p.frames /\ p.out_index >= 0
                      /\ q.frames[1].index # p.out_index + 1
  BY DecodeHears
<1> HIDE DEF d
<1>8. ASSUME r.out_index >= 0, ~d.gap, NEW t \in Media
      PROVE  Governed(r, d.header, t)
  <2>1. Governed(q, decoder[u].header, t)
    <3>1. CASE q = p
      <4>1. r.out_index = q.out_index
        BY <1>5, <1>6, PushCases
      <4>2. QED
        BY <1>3, <1>7, <1>8, <3>1, <4>1
    <3>2. CASE q # p /\ p.out_index = -1
      BY <1>4, <3>2
    <3>3. CASE q # p /\ p.out_index # -1
      <4>1. /\ p.frames = <<>> /\ q.frames # <<>>
            /\ q.audio = p.audio /\ q.video = p.video
            /\ q.frames[1].index = FirstOf(q)
            /\ p.out_index >= 0
        BY <1>3, <1>4, <3>3
      <4>2. FirstOf(q) = p.out_index + 1 /\ ~decoder[u].gap
        BY <1>7, <1>8, <4>1
      <4>3. FirstOf(p) = p.out_index + 1
        BY <1>3, <4>1, EmptySeq DEF FirstOf
      <4>4. Held(q, decoder[u].header, t) = Held(p, decoder[u].header, t)
        BY <4>1 DEF Held, Media
      <4>5. Governed(p, decoder[u].header, t)
        BY <1>3, <4>1, <4>2
      <4>6. QED
        BY <4>2, <4>3, <4>4, <4>5 DEF Governed
    <3>4. QED
      BY <3>1, <3>2, <3>3
  <2>2. d.header[t] = Heard(q, r, decoder[u].header[t], t)
    BY <1>7
  <2>3. QED
    BY <1>5, <1>6, <2>1, <2>2, PushGoverned
<1>9. InOrder(r) /\ \A k \in DOMAIN r.frames : Listed(r.frames[k])
  <2>1. CASE r = q
    BY <1>5, <2>1
  <2>2. CASE r = Push(q)
    <3>1. /\ r.out_index = q.out_index
          /\ r.frames = q.frames \/ r.frames = <<>>
      BY <1>5, <2>2, PushCases
    <3>2. CASE r.frames = q.frames
      BY <1>5, <3>1, <3>2 DEF InOrder, FirstOf
    <3>3. CASE r.frames = <<>>
      BY <3>3 DEF InOrder
    <3>4. QED
      BY <3>1, <3>2, <3>3
  <2>3. QED
    BY <1>6, <2>1, <2>2
<1>10. \A v \in Users : /\ player'[v] = IF v = u THEN r ELSE player[v]
                       /\ decoder'[v] = IF v = u THEN d ELSE decoder[v]
  BY <1>1, <1>2 DEF IInv, TypeOK
<1>11. codec_headers_' = codec_headers_ /\ packet_buffer_' = packet_buffer_
  BY <1>2 DEF streamVars
<1>12. RingListed'
  BY <1>11 DEF HeldInv, RingListed, Listed, IsCodecHeader, HeaderTrack
<1>13. BatchesListed'
  <2>1. ASSUME NEW v \in Users
        PROVE  /\ \A k \in DOMAIN player'[v].frames : Listed(player'[v].frames[k])
               /\ InOrder(player'[v])
    BY <1>9, <1>10 DEF HeldInv, BatchesListed
  <2>2. QED
    BY <1>11, <2>1 DEF BatchesListed, Listed, IsCodecHeader, HeaderTrack,
       InOrder, FirstOf
<1>14. HeadersHeld'
  <2>1. ASSUME NEW v \in Users, player'[v].out_index >= 0, ~decoder'[v].gap,
               NEW t \in Media
        PROVE  Governed(player'[v], decoder'[v].header, t)
    BY <1>8, <1>10, <2>1 DEF HeldInv, HeadersHeld
  <2>2. QED
    BY <1>11, <2>1 DEF HeadersHeld, Governed, GovernedAt, Before, Held, FirstOf
<1>15. QED
  BY <1>1, <1>12, <1>13, <1>14 DEF HeldInv

(* The header that governs what a player gets next is held, at every moment.  *)
THEOREM StreamHeadersHeld == Spec => []HeldInv
<1>1. HeldInv /\ [Next]_vars => HeldInv'
  <2> SUFFICES ASSUME HeldInv, [Next]_vars PROVE HeldInv'
    OBVIOUS
  <2>1. CASE \E kind \in Kinds, delta \in Deltas : AddPacket(kind, delta)
    BY <2>1, AddPacketHeld
  <2>2. CASE \E u \in Users, sendable \in BOOLEAN : PostFrames(u, sendable)
    BY <2>2, PostFramesHeld
  <2>3. CASE UNCHANGED vars
    <3>1. IInv'
      BY <2>3, Zenon DEF HeldInv, vars, streamVars, IInv, TypeOK,
         RingHoldsWindow, RingSlots, RingFilled, HeadersPublished,
         GopsMatchBuffer, InWindow, NobodyAhead, Slot, IsKeyFrame, PlayerRecords
    <3>2. /\ codec_headers_' = codec_headers_ /\ player' = player
          /\ packet_buffer_' = packet_buffer_ /\ decoder' = decoder
      BY <2>3 DEF vars, streamVars
    <3>3. RingListed'
      BY <3>2 DEF HeldInv, RingListed, Listed, IsCodecHeader, HeaderTrack
    <3>4. BatchesListed'
      BY <3>2 DEF HeldInv, BatchesListed, Listed, IsCodecHeader, HeaderTrack,
         InOrder, FirstOf
    <3>5. HeadersHeld'
      BY <3>2 DEF HeldInv, HeadersHeld, Governed, GovernedAt, Before, Held,
         FirstOf
    <3>6. QED
      BY <3>1, <3>3, <3>4, <3>5 DEF HeldInv
  <2>4. QED
    BY <2>1, <2>2, <2>3 DEF Next
<1>2. QED
  BY <1>1, InitHeld, PTL DEF Spec

(* What is held suffices to decode every packet of the batch.                *)
LEMMA HeldDecodable == HeldInv => DecodableUnlessGap
<1> SUFFICES ASSUME HeldInv, NEW u \in Users, NEW k \in DOMAIN player[u].frames,
                    Timed(player[u].frames[k].kind), ~decoder[u].gap,
                    NEW t, t = Track(player[u].frames[k].kind),
                    NEW governing,
                    governing = {h \in codec_headers_[t] :
                                   h < player[u].frames[k].index},
                    governing # {}
             PROVE  \/ Max(governing) \in {decoder[u].header[t], player[u][t]}
                    \/ \E j \in 1 .. k :
                         player[u].frames[j].index = Max(governing)
  BY DEF DecodableUnlessGap
<1> DEFINE p == player[u]
           f == FirstOf(p)
           i == p.frames[k].index
           n == Len(p.frames)
           g == Max(governing)
<1>1. /\ t \in Media /\ t \in {"meta", "audio", "video"} /\ IInv
      /\ p \in PlayerRecords /\ p.out_index \in -1 .. frame_index_
  BY DEF Track, Media, HeldInv, IInv, TypeOK, NobodyAhead
<1>2. p.frames \in Seq(Packets) /\ n \in Nat /\ DOMAIN p.frames = 1 .. n
  <2>1. p.frames \in Seq(Packets)
    BY <1>1 DEF PlayerRecords
  <2>2. QED
    BY <2>1, LenProperties
<1>3. /\ \A j \in 1 .. n : p.frames[j].index = f + j - 1
      /\ f = p.out_index - n + 1 /\ k \in 1 .. n /\ f \in Int
  <2>1. InOrder(p) /\ f = p.out_index - n + 1
    BY DEF HeldInv, BatchesListed, FirstOf
  <2>2. \A j \in 1 .. n : p.frames[j].index = f + j - 1
    BY <1>2, <2>1 DEF InOrder
  <2>3. f \in Int /\ k \in 1 .. n
    <3>1. k \in 1 .. n /\ p.out_index \in Int
      BY <1>1, <1>2
    <3> HIDE DEF n, f
    <3>2. QED
      BY <1>2, <2>1, <3>1
  <2>4. QED
    BY <2>1, <2>2, <2>3
<1>4. /\ i = f + k - 1 /\ i \in Nat /\ i <= p.out_index /\ p.out_index >= 0
  <2>1. p.frames[k] \in Packets
    BY <1>1, FramesArePackets
  <2>2. i \in Nat
    BY <2>1 DEF Packets
  <2>3. i = f + k - 1
    BY <1>3
  <2>4. p.out_index \in Int
    BY <1>1
  <2>5. f = p.out_index - n + 1 /\ f \in Int /\ k \in Int /\ k <= n /\ n \in Int
    BY <1>2, <1>3
  <2> HIDE DEF f, i, n
  <2>6. i <= p.out_index
    BY <2>3, <2>4, <2>5
  <2>7. QED
    BY <2>2, <2>3, <2>4, <2>6
<1>5. GovernedAt(f, Held(p, decoder[u].header, t), t)
  BY <1>1, <1>4 DEF HeldInv, HeadersHeld, Governed
<1>6. Held(p, decoder[u].header, t) \in {decoder[u].header[t], p[t]}
  BY DEF Held
<1>7. i \notin codec_headers_[t]
  <2>1. Listed(p.frames[k]) /\ ~IsCodecHeader(p.frames[k].kind)
    BY DEF HeldInv, BatchesListed, Timed
  <2>2. QED
    BY <1>1, <2>1 DEF Listed
<1>8. /\ codec_headers_[t] \subseteq 0 .. frame_index_
      /\ governing \subseteq 0 .. frame_index_ /\ frame_index_ \in Nat
  BY <1>1, HeadersBounded
<1>9. g \in governing /\ \A h \in governing : h <= g
  BY <1>8, MaxProperty
<1>10. g \in codec_headers_[t] /\ g \in Int /\ g < i
  <2> HIDE DEF g
  <2>1. g \in governing
    BY <1>9
  <2>2. g \in codec_headers_[t] /\ g < i
    BY <2>1
  <2>3. QED
    BY <1>8, <2>2
<1>11. CASE g >= f
  <2> DEFINE j == g - f + 1
  <2> HIDE DEF f, g, i, n
  <2>1. j \in 1 .. k /\ j \in 1 .. n /\ f + j - 1 = g
    BY <1>2, <1>3, <1>4, <1>10, <1>11
  <2> HIDE DEF j
  <2>2. p.frames[j].index = g
    BY <1>3, <2>1
  <2>3. QED
    BY <2>1, <2>2 DEF g
<1>12. CASE ~(g >= f)
  <2>1. f <= i
    BY <1>2, <1>3, <1>4
  <2>2. g \in Before(t, f)
    <3> HIDE DEF g, f
    <3>1. g < f
      BY <1>3, <1>10, <1>12
    <3>2. QED
      BY <1>10, <3>1 DEF Before
  <2>3. \A h \in Before(t, f) : h <= g
    <3>1. \A h \in codec_headers_[t] : h < f => h < i
      BY <1>3, <1>4, <1>8, <2>1
    <3>2. QED
      BY <1>9, <3>1 DEF Before
  <2>4. Max(Before(t, f)) = g
    <3>1. Before(t, f) \subseteq 0 .. frame_index_
      BY <1>8 DEF Before
    <3> HIDE DEF g, f
    <3>2. QED
      BY <1>8, <2>2, <2>3, <3>1, MaxUnique
  <2>5. f \notin codec_headers_[t]
    <3>1. CASE f = i
      BY <1>7, <3>1
    <3>2. CASE f # i
      <4>1. f < i
        BY <1>3, <1>4, <2>1, <3>2
      <4>2. f \in codec_headers_[t] => f <= g
        BY <1>9, <4>1
      <4>3. QED
        BY <1>3, <1>10, <1>12, <4>2
    <3>3. QED
      BY <3>1, <3>2
  <2>6. Held(p, decoder[u].header, t) = g
    BY <1>5, <2>2, <2>4, <2>5 DEF GovernedAt
  <2>7. QED
    BY <1>6, <2>6
<1>13. QED
  BY <1>11, <1>12

(* Whatever a player is about to be sent it can decode, unless its playback  *)
(* has a hole, for every buffer, batch size and latency                      *)
(* (Stream.cpp:124-290, CodecHeader.cpp).                                    *)
THEOREM StreamDecodable == Spec => []DecodableUnlessGap
  BY HeldDecodable, StreamHeadersHeld, PTL
=============================================================================

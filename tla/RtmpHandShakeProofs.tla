------------------------- MODULE RtmpHandShakeProofs -------------------------
(***************************************************************************)
(* What module Digest makes of any random bytes: the digest never covers    *)
(* what it is computed from, so what one side signs the other accepts, and  *)
(* nobody else's packet passes for it.                                      *)
(*                                                                          *)
(* Then the handshake's invariant for packets of every size.  It is an       *)
(* invariant of each side on its own, so the lemmas speak of one side p:     *)
(* what a send or a completion makes of it, then what HandShake and Parse do. *)
(***************************************************************************)
EXTENDS RtmpHandShake, TLAPS

-----------------------------------------------------------------------------
(* The digests.                                                             *)

AnySums == [Layouts -> AllSums]

(* A digest of 32 bytes lies inside the packet and meets neither the        *)
(* version nor the sums of either layout.                                   *)
Clear(place) ==
  /\ place \in Nat /\ place + SHA256_DIGEST_LENGTH <= PacketLength
  /\ ~Meet(place, 4, 4)
  /\ \A l \in Layouts : ~Meet(place, l, 4)

(* The place of a digest is inside its half of the packet.                  *)
LEMMA OffsetInPart ==
  ASSUME NEW p, p.sums \in AnySums, NEW layout \in Layouts
  PROVE  GetDigestOffset(p, layout) \in layout + 4 .. layout + 4 + 727
<1>1. p.sums[layout] \in Nat /\ layout \in Nat
  <2>1. p.sums[layout] \in AllSums
    BY DEF AnySums
  <2>2. AllSums \subseteq Nat /\ Layouts \subseteq Nat
    BY DEF AllSums, Layouts
  <2> QED
    BY <2>1, <2>2
<1>2. p.sums[layout] % 728 \in 0 .. 727
  BY <1>1, SMT
<1> QED
  BY <1>1, <1>2 DEF GetDigestOffset, ModVal

(* Wherever the random sums put it, a digest is written over nothing that   *)
(* is looked at (RtmpHandShake.cpp, GetDigestOffset).                       *)
THEOREM DigestMeetsNothing ==
  ASSUME NEW p, p.sums \in AnySums, NEW layout \in Layouts
  PROVE  Clear(GetDigestOffset(p, layout))
<1> DEFINE place == GetDigestOffset(p, layout)
<1>1. place \in layout + 4 .. layout + 4 + 727
  BY OffsetInPart
<1> HIDE DEF place
<1>2. place \in 12 .. 739 \/ place \in 776 .. 1503
  BY <1>1 DEF Layouts
<1>3. ~Meet(place, 4, 4) /\ ~Meet(place, 8, 4) /\ ~Meet(place, 772, 4)
  BY <1>2 DEF Meet, SHA256_DIGEST_LENGTH
<1>4. place \in Nat /\ place + 32 <= 1536
  BY <1>2
<1>5. Clear(place)
  BY <1>3, <1>4 DEF Clear, SHA256_DIGEST_LENGTH, PacketLength, Layouts
<1> QED
  BY <1>5 DEF place

(* So signing a packet changes nothing that its digest depends on.          *)
LEMMA SignKeeps ==
  ASSUME NEW version, NEW sums \in AnySums, NEW layout \in Layouts, NEW key
  PROVE  LET p == Unsigned(version, sums)
             place == GetDigestOffset(p, layout)
             q == Sign(p, place, CalculateDigest(p, place, key))
         IN  /\ q.version = version /\ q.sums = sums /\ q.place = place
             /\ q.digest = [key |-> key, gap |-> place, version |-> version,
                            sums |-> sums]
<1> DEFINE p == Unsigned(version, sums)
           place == GetDigestOffset(p, layout)
           q == Sign(p, place, CalculateDigest(p, place, key))
<1>1. p = [version |-> version, sums |-> sums, place |-> -1, digest |-> NoDigest]
  BY DEF Unsigned
<1>2. ~Meet(place, 4, 4) /\ \A l \in Layouts : ~Meet(place, l, 4)
  BY <1>1, DigestMeetsNothing DEF Clear
<1>3. CalculateDigest(p, place, key) =
        [key |-> key, gap |-> place, version |-> version, sums |-> sums]
  BY <1>1 DEF CalculateDigest
<1> HIDE DEF place
<1>4. [l \in Layouts |-> IF Meet(place, l, 4) THEN -1 ELSE p.sums[l]] = sums
  BY <1>1, <1>2 DEF AnySums
<1> DEFINE d == CalculateDigest(p, place, key)
<1> HIDE DEF p, d
<1>5. q = [p EXCEPT !.place = place, !.digest = d, !.version = p.version,
                    !.sums = sums]
  BY <1>2, <1>4 DEF Sign, d
<1>6. q.version = p.version /\ q.sums = sums /\ q.place = place /\ q.digest = d
  BY <1>1, <1>5
<1> QED
  BY <1>1, <1>3, <1>6 DEF p, d, place

(* A place depends on the sums alone.                                       *)
LEMMA OffsetBySums ==
  ASSUME NEW p, NEW q, p.sums = q.sums, NEW layout
  PROVE  GetDigestOffset(p, layout) = GetDigestOffset(q, layout)
BY DEF GetDigestOffset

(* Whatever random bytes a side begins with, its peer accepts its packet,   *)
(* finds the digest where it was put, and answers with a key made from that *)
(* digest (RtmpHandShake.cpp, CreateC1S1, CheckC1S1, CreateC2S2).           *)
THEOREM OwnPacketAccepted ==
  ASSUME NEW s \in Sides, NEW sums \in AnySums
  PROVE  LET p == CreateC1S1(s, sums)
             found == CheckC1S1(Peer(s), p)
         IN  /\ found = p.place /\ found # -1
             /\ CreateC2S2(Peer(s), p, found).from = p.digest
<1> DEFINE u == Unsigned(s, sums)
           place == GetDigestOffset(u, 8)
           p == CreateC1S1(s, sums)
<1>1. /\ p.version = s /\ p.sums = sums /\ p.place = place
      /\ p.digest = [key |-> OpenKey(s), gap |-> place, version |-> s,
                     sums |-> sums]
  BY SignKeeps DEF CreateC1S1, Layouts
<1>2. u.sums = sums
  BY DEF Unsigned
<1>3. GetDigestOffset(p, 8) = place
  BY <1>1, <1>2, OffsetBySums
<1>4. place \in 12 .. 739
  BY <1>2, OffsetInPart DEF Layouts
<1> HIDE DEF p, place
<1>5. Peer(Peer(s)) = s /\ s # "zero"
  BY DEF Peer, Sides
<1>6. VerifyDigest(p, place, OpenKey(s))
  BY <1>1 DEF VerifyDigest, CalculateDigest
<1>7. CheckC1S1(Peer(s), p) = place
  BY <1>1, <1>3, <1>5, <1>6 DEF CheckC1S1
<1>8. CreateC2S2(Peer(s), p, place).from = p.digest
  BY <1>1 DEF CreateC2S2
<1>9. place # -1
  BY <1>4
<1> QED
  BY <1>1, <1>7, <1>8, <1>9 DEF p

(* A peer that signs in the second layout, or does not sign at all, is      *)
(* accepted too (RtmpHandShake.cpp, CheckC1S1).                             *)
THEOREM OtherPacketsAccepted ==
  ASSUME NEW s \in Sides, NEW sums \in AnySums
  PROVE  /\ CheckC1S1(Peer(s), KeyFirst(s, sums)) = KeyFirst(s, sums).place
         /\ CheckC1S1(Peer(s), KeyFirst(s, sums)) # -1
         /\ CheckC1S1(Peer(s), Simple(sums)) = 0
<1> DEFINE u == Unsigned("other", sums)
           place == GetDigestOffset(u, 772)
           p == KeyFirst(s, sums)
<1>1. /\ p.version = "other" /\ p.sums = sums /\ p.place = place
      /\ p.digest = [key |-> OpenKey(s), gap |-> place, version |-> "other",
                     sums |-> sums]
  BY SignKeeps DEF KeyFirst, Layouts
<1>2. u.sums = sums
  BY DEF Unsigned
<1>3. GetDigestOffset(p, 772) = place
  BY <1>1, <1>2, OffsetBySums
<1>4. place \in 776 .. 1503
  BY <1>2, OffsetInPart DEF Layouts
<1>5. GetDigestOffset(p, 8) \in 12 .. 739
  BY <1>1, OffsetInPart DEF Layouts
<1> HIDE DEF p, place
<1>6. Peer(Peer(s)) = s
  BY DEF Peer, Sides
<1>7. VerifyDigest(p, place, OpenKey(s))
  BY <1>1 DEF VerifyDigest, CalculateDigest
<1>8. ~VerifyDigest(p, GetDigestOffset(p, 8), OpenKey(s))
  <2>1. GetDigestOffset(p, 8) <= 739 /\ ~(place <= 739)
    BY <1>4, <1>5
  <2>2. GetDigestOffset(p, 8) # place
    BY <2>1, Zenon
  <2> QED
    BY <1>1, <2>2 DEF VerifyDigest
<1>9. CheckC1S1(Peer(s), p) = place
  BY <1>1, <1>3, <1>6, <1>7, <1>8 DEF CheckC1S1
<1>10. CheckC1S1(Peer(s), Simple(sums)) = 0
  BY DEF CheckC1S1, Simple, Unsigned
<1>11. place # -1
  BY <1>4
<1> QED
  BY <1>1, <1>9, <1>10, <1>11 DEF p

(* A packet signed by the wrong side, or by nobody, is refused              *)
(* (RtmpHandShake.cpp, CheckC1S1).                                          *)
THEOREM StrangersRefused ==
  ASSUME NEW s \in Sides, NEW sums \in AnySums
  PROVE  /\ CheckC1S1(s, CreateC1S1(s, sums)) = -1
         /\ CheckC1S1(s, Wrong(sums)) = -1
<1> DEFINE own == CreateC1S1(s, sums)
           wrong == Wrong(sums)
<1>1. own.version = s /\ own.digest.key = OpenKey(s)
  <2> DEFINE u == Unsigned(s, sums)
             place == GetDigestOffset(u, 8)
  <2>1. own = Sign(u, place, CalculateDigest(u, place, OpenKey(s)))
    BY DEF CreateC1S1
  <2>2. /\ own.version = s
        /\ own.digest = [key |-> OpenKey(s), gap |-> place, version |-> s,
                         sums |-> sums]
    BY <2>1, SignKeeps DEF Layouts
  <2> QED
    BY <2>2
<1>2. Peer(s) # s /\ s # "zero"
  BY DEF Peer, Sides
<1>3. OpenKey(Peer(s)) # OpenKey(s)
  BY <1>2 DEF OpenKey
<1> HIDE DEF own
<1>4. \A layout \in Layouts :
        ~VerifyDigest(own, GetDigestOffset(own, layout), OpenKey(Peer(s)))
  BY <1>1, <1>3 DEF VerifyDigest, CalculateDigest
<1>5. CheckC1S1(s, own) = -1
  BY <1>1, <1>2, <1>4 DEF CheckC1S1, Layouts
<1>6. wrong.place = -1 /\ wrong.sums = sums /\ wrong.version = "other"
  BY DEF Wrong, Unsigned
<1> HIDE DEF wrong
<1>7. \A layout \in Layouts : GetDigestOffset(wrong, layout) # -1
  <2>1. ASSUME NEW layout \in Layouts PROVE GetDigestOffset(wrong, layout) # -1
    <3>1. GetDigestOffset(wrong, layout) \in layout + 4 .. layout + 4 + 727
      BY <1>6, OffsetInPart
    <3> QED
      BY <3>1 DEF Layouts
  <2> QED
    BY <2>1
<1>8. \A layout \in Layouts :
        ~VerifyDigest(wrong, GetDigestOffset(wrong, layout), OpenKey(Peer(s)))
  BY <1>6, <1>7 DEF VerifyDigest
<1>9. CheckC1S1(s, wrong) = -1
  BY <1>6, <1>8 DEF CheckC1S1, Layouts
<1> QED
  BY <1>5, <1>9 DEF own, wrong

-----------------------------------------------------------------------------
(* One side of the handshake.                                               *)

PartyInv(p) == p \in Party /\ TakenInv(p) /\ PostedInv(p)

(* A packet has a size.                                                      *)
LEMMA Size == H \in Nat /\ H > 0
BY RtmpHandShakeAssumption DEF RtmpHandShakeAssumption, H

(* A packet of two sizes that fits: write takes some of it, or all, and of a *)
(* first one at least a byte.                                                *)
LEMMA TakesType ==
  ASSUME NEW takes \in Takes, Fits(takes), NEW size \in {H, H + 1}
  PROVE  takes[size] \in 0 .. size /\ (size = H + 1 => takes[size] # 0)
<1>1. takes[size] \in 0 .. H + 1
  BY DEF Takes
<1>2. size = H => takes[size] <= H
  BY DEF Fits
<1>3. size = H + 1 => takes[size] > 0
  BY DEF Fits
<1> QED
  BY <1>1, <1>2, <1>3, Size

(* At most one byte is added, and none to a packet of which some is taken.    *)
LEMMA AddedType ==
  ASSUME NEW taken
  PROVE  Added(taken) \in {0, 1} /\ (taken # 0 => Added(taken) = 0)
BY DEF Added

(* write takes some of a packet and the rest is queued; nothing else changes. *)
LEMMA TakeKeeps ==
  ASSUME NEW p \in Party, NEW takes \in Takes, Fits(takes),
         NEW size \in {H, H + 1}
  PROVE  LET q == Take(p, size, takes)
         IN  /\ q \in Party
             /\ q.state = p.state /\ q.step = p.step /\ q.taken = p.taken
<1>1. takes[size] \in 0 .. size
  BY TakesType
<1>2. size - takes[size] \in Nat /\ takes[size] \in Int /\ size \in Nat
  BY <1>1, Size
<1>3. CASE p.unsent = 0
  <2> DEFINE more == Added(takes[size])
  <2>1. Take(p, size, takes) =
          [p EXCEPT !.put = @ + takes[size],
                    !.unsent = size + more - takes[size], !.added = @ + more]
    BY <1>3 DEF Take
  <2>2. more \in {0, 1}
    BY AddedType
  <2> HIDE DEF more
  <2>3. /\ p.put + takes[size] \in Int /\ size + more - takes[size] \in Nat
        /\ p.added + more \in Nat
    BY <1>2, <2>2 DEF Party
  <2> QED
    BY <1>2, <2>1, <2>3 DEF Party
<1>4. CASE p.unsent # 0
  <2>1. Take(p, size, takes) = [p EXCEPT !.unsent = @ + size]
    BY <1>4 DEF Take
  <2>2. p.unsent + size \in Nat
    BY <1>2 DEF Party
  <2> QED
    BY <2>1, <2>2 DEF Party
<1> QED
  BY <1>3, <1>4

(* A completion with nothing left to send moves a side off every packet it   *)
(* posted, unless it posts the next one.                                      *)
LEMMA AdvanceKeeps ==
  ASSUME NEW p \in Party, TakenInv(p), p.state # "closed",
         p.step # "PostS0S1"
  PROVE  /\ PartyInv(Advance(p))
         /\ Advance(p).state = p.state /\ Advance(p).taken = p.taken
         /\ p.step = "Doning" => Advance(p).step \in {"Doning", "Done"}
<1>1. CASE p.state = "kRtmpMessage"
  <2>1. Advance(p) = p /\ p.step \in {"Doning", "Done"}
    BY <1>1 DEF Advance, TakenInv
  <2> QED
    BY <2>1 DEF PartyInv, PostedInv
<1>2. CASE p.state = "kRtmpHandShake"
  <2>1. CASE p.step = "PostS2"
    <3>1. Advance(p) = [p EXCEPT !.step = "WaitC2"]
      BY <1>2, <2>1 DEF Advance
    <3> QED
      BY <1>2, <2>1, <3>1 DEF PartyInv, Party, Steps, TakenInv, PostedInv,
                             BeforeFirst, AfterFirst
  <2>2. CASE p.step = "PostC0C1"
    <3>1. Advance(p) = [p EXCEPT !.step = "WaitS0S1"]
      BY <1>2, <2>2 DEF Advance
    <3> QED
      BY <1>2, <2>2, <3>1 DEF PartyInv, Party, Steps, TakenInv, PostedInv,
                             BeforeFirst, AfterFirst
  <2>3. CASE p.step \in {"PostC2", "Doning"}
    <3>1. Advance(p) = [p EXCEPT !.step = "Done"]
      BY <1>2, <2>3 DEF Advance
    <3> QED
      BY <1>2, <2>3, <3>1 DEF PartyInv, Party, Steps, TakenInv, PostedInv,
                             BeforeFirst, AfterFirst
  <2>4. CASE p.step \notin {"PostS2", "PostC0C1", "PostC2", "Doning"}
    <3>1. Advance(p) = p
      BY <1>2, <2>4 DEF Advance
    <3> QED
      BY <2>4, <3>1 DEF PartyInv, PostedInv
  <2> QED
    BY <2>1, <2>2, <2>3, <2>4
<1> QED
  BY <1>1, <1>2 DEF Party

(* So does a completion after S0S1, which posts S2 at once.                   *)
LEMMA WriteCompleteKeeps ==
  ASSUME NEW p \in Party, TakenInv(p), p.state # "closed", p.unsent = 0,
         NEW takes \in Takes, Fits(takes)
  PROVE  LET q == WriteComplete(p, takes)
         IN  /\ PartyInv(q) /\ q.state = p.state /\ q.taken = p.taken
             /\ p.step = "Doning" => q.step \in {"Doning", "Done"}
<1>1. CASE p.step # "PostS0S1"
  BY <1>1, AdvanceKeeps DEF WriteComplete
<1>2. CASE p.step = "PostS0S1"
  <2>1. p.state = "kRtmpHandShake"
    BY <1>2 DEF TakenInv, Party
  <2> DEFINE r == [p EXCEPT !.step = "PostS2"]
             q == Take(r, H, takes)
  <2>2. r \in Party /\ TakenInv(r) /\ r.step = "PostS2" /\ r.state = p.state
          /\ r.taken = p.taken
    BY <1>2, <2>1 DEF Party, Steps, TakenInv, BeforeFirst, AfterFirst
  <2>3. q \in Party /\ q.state = p.state /\ q.step = "PostS2"
          /\ q.taken = p.taken
    BY <2>2, TakeKeeps
  <2>4. TakenInv(q)
    BY <2>2, <2>3 DEF TakenInv
  <2>5. WriteComplete(p, takes) = IF q.unsent = 0 THEN Advance(q) ELSE q
    BY <1>2, <2>1 DEF WriteComplete
  <2>6. CASE q.unsent = 0
    BY <1>2, <2>3, <2>4, <2>5, <2>6, AdvanceKeeps
  <2>7. CASE q.unsent # 0
    <3>1. q.unsent > 0
      BY <2>3, <2>7 DEF Party
    <3> QED
      BY <1>2, <2>3, <2>4, <2>5, <2>7, <3>1 DEF PartyInv, PostedInv
  <2> QED
    BY <2>6, <2>7
<1> QED
  BY <1>1, <1>2

(* A send from a side that has set its step: complete at once, or with bytes  *)
(* that remain to be written.                                                 *)
LEMMA SendKeeps ==
  ASSUME NEW p \in Party, TakenInv(p), p.state # "closed",
         NEW takes \in Takes, Fits(takes), NEW size \in {H, H + 1}
  PROVE  LET q == Send(p, size, takes)
         IN  /\ PartyInv(q) /\ q.state = p.state /\ q.taken = p.taken
             /\ p.step = "Doning" => q.step \in {"Doning", "Done"}
<1> DEFINE q == Take(p, size, takes)
<1>1. q \in Party /\ q.state = p.state /\ q.step = p.step /\ q.taken = p.taken
  BY TakeKeeps
<1>2. TakenInv(q)
  BY <1>1 DEF TakenInv
<1>3. CASE q.unsent = 0
  <2>1. Send(p, size, takes) = WriteComplete(q, takes)
    BY <1>3 DEF Send
  <2> QED
    BY <1>1, <1>2, <1>3, <2>1, WriteCompleteKeeps
<1>4. CASE q.unsent # 0
  <2>1. Send(p, size, takes) = q
    BY <1>4 DEF Send
  <2>2. q.unsent > 0
    BY <1>1, <1>4 DEF Party
  <2> QED
    BY <1>1, <1>2, <2>1, <2>2 DEF PartyInv, PostedInv
<1> QED
  BY <1>3, <1>4

(* A side that goes on to a step with the packet it has now retrieved.        *)
LEMMA RetrieveKeeps ==
  ASSUME NEW p \in Party, NEW step \in Steps, NEW size \in {H, H + 1}
  PROVE  LET q == Retrieve([p EXCEPT !.step = step], size)
         IN  /\ q \in Party /\ q.state = p.state /\ q.step = step
             /\ q.taken = p.taken + size
<1>1. p.buffer - size \in Int /\ p.taken + size \in Int
  BY Size DEF Party
<1>2. Retrieve([p EXCEPT !.step = step], size) =
        [p EXCEPT !.step = step, !.buffer = p.buffer - size,
                  !.taken = p.taken + size]
  BY DEF Retrieve, Party
<1> QED
  BY <1>1, <1>2 DEF Party

(* HandShake keeps the side's invariant; with 0 it has taken both packets.    *)
LEMMA HandShakeKeeps ==
  ASSUME NEW p, PartyInv(p), p.state = "kRtmpHandShake", NEW ok \in BOOLEAN,
         NEW takes \in Takes, Fits(takes)
  PROVE  LET h == HandShake(p, ok, takes)
         IN  /\ h.ret \in {-1, 0, 1}
             /\ PartyInv(h.p) /\ h.p.state = p.state
             /\ h.ret = 0 => /\ h.p.taken = 2 * H + 1
                             /\ h.p.step \in {"Doning", "Done"}
<1> DEFINE h == HandShake(p, ok, takes)
<1>0. p \in Party /\ TakenInv(p) /\ PostedInv(p)
  BY DEF PartyInv
<1>1. CASE p.step = "WaitC0C1" /\ p.buffer >= H + 1
  <2>1. CASE ok
    <3> DEFINE r == Retrieve([p EXCEPT !.step = "PostS0S1"], H + 1)
    <3>1. r \in Party /\ r.state = p.state /\ r.step = "PostS0S1"
            /\ r.taken = p.taken + (H + 1)
      BY <1>0, RetrieveKeeps DEF Steps
    <3>2. p.taken = 0
      BY <1>0, <1>1 DEF TakenInv, BeforeFirst
    <3>3. TakenInv(r)
      BY <3>1, <3>2, Size DEF TakenInv, BeforeFirst, AfterFirst
    <3>4. h = [p |-> Send(r, H + 1, takes), ret |-> 1]
      BY <1>1, <2>1 DEF HandShake, Again
    <3> QED
      BY <3>1, <3>3, <3>4, SendKeeps
  <2>2. CASE ~ok
    <3>1. h = [p |-> p, ret |-> -1]
      BY <1>1, <2>2 DEF HandShake, Failed
    <3> QED
      BY <3>1
  <2> QED
    BY <2>1, <2>2
<1>2. CASE p.step = "WaitC2" /\ p.buffer >= H
  <2> DEFINE r == Retrieve([p EXCEPT !.step = "Done"], H)
  <2>1. r \in Party /\ r.state = p.state /\ r.step = "Done"
          /\ r.taken = p.taken + H
    BY <1>0, RetrieveKeeps DEF Steps
  <2>2. r.taken = 2 * H + 1
    BY <1>0, <1>2, <2>1, Size DEF TakenInv, AfterFirst
  <2>3. PartyInv(r)
    BY <2>1, <2>2 DEF PartyInv, TakenInv, PostedInv, BeforeFirst, AfterFirst
  <2>4. h = [p |-> r, ret |-> 0]
    BY <1>2 DEF HandShake, Shaken, CheckC2S2
  <2> QED
    BY <2>1, <2>2, <2>3, <2>4
<1>3. CASE p.step = "WaitS0S1" /\ p.buffer >= H + 1
  <2> DEFINE r == Retrieve(p, H + 1)
  <2>1. r \in Party /\ r.state = p.state /\ r.taken = H + 1
    <3>1. p.taken = 0
      BY <1>0, <1>3 DEF TakenInv, BeforeFirst
    <3>2. p.buffer - (H + 1) \in Int /\ p.taken + (H + 1) = H + 1 /\ H + 1 \in Int
      BY <1>0, <3>1, Size DEF Party
    <3>3. r = [p EXCEPT !.buffer = p.buffer - (H + 1), !.taken = p.taken + (H + 1)]
      BY DEF Retrieve
    <3> HIDE DEF r
    <3>4. /\ r \in Party /\ r.state = p.state /\ r.taken = p.taken + (H + 1)
      <4>1. p.taken + (H + 1) \in Int
        BY <3>2
      <4> QED
        BY <1>0, <3>2, <3>3, <4>1 DEF Party
    <3> QED
      BY <3>2, <3>4
  <2>2. CASE ~ok
    <3>1. h = [p |-> p, ret |-> -1]
      BY <1>3, <2>2 DEF HandShake, Failed
    <3> QED
      BY <3>1
  <2>3. CASE ok /\ S2Here(r.buffer)
    <3> DEFINE q == Retrieve([r EXCEPT !.step = "Doning"], H)
    <3>1. q \in Party /\ q.state = p.state /\ q.step = "Doning"
            /\ q.taken = r.taken + H
      BY <2>1, RetrieveKeeps DEF Steps
    <3>2. q.taken = 2 * H + 1
      BY <2>1, <3>1, Size
    <3>3. TakenInv(q)
      BY <3>1, <3>2 DEF TakenInv, BeforeFirst, AfterFirst
    <3>4. h = [p |-> Send(q, H, takes), ret |-> 0]
      BY <1>3, <2>3 DEF HandShake, Shaken, S2Together
    <3> QED
      BY <3>1, <3>2, <3>3, <3>4, SendKeeps
  <2>4. CASE ok /\ ~S2Here(r.buffer)
    <3> DEFINE q == [r EXCEPT !.step = "PostC2"]
    <3>1. q \in Party /\ q.state = p.state /\ q.step = "PostC2"
            /\ q.taken = H + 1
      BY <2>1 DEF Party, Steps
    <3>2. TakenInv(q)
      BY <3>1 DEF TakenInv, BeforeFirst, AfterFirst
    <3>3. h = [p |-> Send(q, H, takes), ret |-> 1]
      BY <1>3, <2>4 DEF HandShake, Again
    <3>4. q.state # "closed"
      BY <3>1
    <3> HIDE DEF q
    <3>5. PartyInv(Send(q, H, takes)) /\ Send(q, H, takes).state = q.state
      BY <3>1, <3>2, <3>4, SendKeeps
    <3> QED
      BY <3>1, <3>3, <3>5
  <2> QED
    BY <2>2, <2>3, <2>4
<1>4. CASE /\ ~(p.step = "WaitC0C1" /\ p.buffer >= H + 1)
           /\ ~(p.step = "WaitC2" /\ p.buffer >= H)
           /\ ~(p.step = "WaitS0S1" /\ p.buffer >= H + 1)
  <2>1. h = [p |-> p, ret |-> 1]
    BY <1>4 DEF HandShake, Again
  <2> QED
    BY <2>1
<1> QED
  BY <1>1, <1>2, <1>3, <1>4

(* Parse keeps it too: it goes on to messages only with 0.                    *)
LEMMA ParseKeeps ==
  ASSUME NEW s \in Sides, NEW p, PartyInv(p), NEW ok \in BOOLEAN,
         NEW takes \in Takes, Fits(takes)
  PROVE  PartyInv(Parse(s, p, ok, takes))
<1>1. CASE p.state # "kRtmpHandShake"
  BY <1>1 DEF Parse
<1>2. CASE p.state = "kRtmpHandShake"
  <2> DEFINE h == HandShake(p, ok, takes)
  <2>1. /\ h.ret \in {-1, 0, 1} /\ PartyInv(h.p) /\ h.p.state = p.state
        /\ h.ret = 0 => h.p.taken = 2 * H + 1 /\ h.p.step \in {"Doning", "Done"}
    BY <1>2, HandShakeKeeps
  <2>2. CASE h.ret = -1
    <3>1. Parse(s, p, ok, takes) = [h.p EXCEPT !.state = "closed"]
      BY <1>2, <2>2 DEF Parse
    <3> QED
      BY <1>2, <2>1, <3>1 DEF PartyInv, Party, TakenInv, PostedInv
  <2>3. CASE h.ret = 0
    <3> DEFINE q == [h.p EXCEPT !.state = "kRtmpMessage"]
    <3>1. q \in Party /\ q.step = h.p.step /\ q.taken = 2 * H + 1
            /\ q.state = "kRtmpMessage" /\ q.unsent = h.p.unsent
      BY <2>1, <2>3 DEF PartyInv, Party
    <3>2. PartyInv(q)
      BY <2>1, <2>3, <3>1
      DEF PartyInv, TakenInv, PostedInv, BeforeFirst, AfterFirst
    <3>3. PartyInv(SendConnect(q))
      <4>1. q.unsent + Connect \in Nat
        BY <3>1, RtmpHandShakeAssumption DEF Party, RtmpHandShakeAssumption
      <4>2. SendConnect(q) \in Party /\ SendConnect(q).step = q.step
              /\ SendConnect(q).taken = q.taken
              /\ SendConnect(q).state = q.state
        BY <3>1, <4>1 DEF SendConnect, Party
      <4> QED
        BY <2>1, <2>3, <3>1, <4>2
        DEF PartyInv, TakenInv, PostedInv, BeforeFirst, AfterFirst
    <3>4. Parse(s, p, ok, takes) \in {q, SendConnect(q)}
      BY <1>2, <2>3 DEF Parse
    <3> QED
      BY <3>2, <3>3, <3>4
  <2>4. CASE h.ret = 1
    <3>1. Parse(s, p, ok, takes) = h.p
      BY <1>2, <2>4 DEF Parse
    <3> QED
      BY <2>1, <3>1
  <2> QED
    BY <2>1, <2>2, <2>3, <2>4
<1> QED
  BY <1>1, <1>2

-----------------------------------------------------------------------------
(* The actions: each changes one side.                                       *)

LEMMA OneSide ==
  ASSUME HandshakeInv, NEW s \in Sides, NEW q, PartyInv(q),
         side' = [side EXCEPT ![s] = q]
  PROVE  HandshakeInv'
<1>1. side' \in [Sides -> Party]
  BY DEF HandshakeInv, PartyInv
<1>2. ASSUME NEW t \in Sides
      PROVE  TakenInv(side'[t]) /\ PostedInv(side'[t])
  <2>1. CASE t = s
    <3>1. side'[t] = q
      BY <2>1 DEF HandshakeInv
    <3> QED
      BY <3>1 DEF PartyInv
  <2>2. CASE t # s
    <3>1. side'[t] = side[t]
      BY <2>2 DEF HandshakeInv
    <3> QED
      BY <3>1 DEF HandshakeInv
  <2> QED
    BY <2>1, <2>2
<1> QED
  BY <1>1, <1>2 DEF HandshakeInv

(* Nothing has been sent or taken at first.                                  *)
LEMMA InitHandshake == Init => HandshakeInv
<1> SUFFICES ASSUME Init PROVE HandshakeInv
  OBVIOUS
<1>1. \A step \in {"Init", "WaitC0C1"} : PartyInv(Fresh(step))
  BY DEF Fresh, PartyInv, Party, Steps, TakenInv, PostedInv, BeforeFirst,
         AfterFirst
<1>2. \A s \in Sides : side[s] \in {Fresh("Init"), Fresh("WaitC0C1")}
  BY DEF Init
<1>3. \A s \in Sides : PartyInv(side[s])
  BY <1>1, <1>2
<1>4. side \in [Sides -> Party]
  BY <1>1 DEF Init, PartyInv
<1> QED
  BY <1>3, <1>4 DEF Init, HandshakeInv, PartyInv

(* Sending C0C1.                                                             *)
LEMMA StartKeeps ==
  ASSUME HandshakeInv, NEW takes \in Takes, Fits(takes), Start(takes)
  PROVE  HandshakeInv'
<1> DEFINE p == side["client"]
           r == [p EXCEPT !.step = "PostC0C1"]
<1>1. "client" \in Sides /\ p \in Party /\ TakenInv(p) /\ p.step = "Init"
        /\ p.state # "closed"
  BY DEF HandshakeInv, Sides, Start
<1>2. p.taken = 0 /\ p.state # "kRtmpMessage"
  BY <1>1 DEF TakenInv, BeforeFirst
<1>3. r \in Party /\ r.step = "PostC0C1" /\ r.taken = 0 /\ r.state = p.state
  BY <1>1, <1>2 DEF Party, Steps
<1>4. TakenInv(r)
  BY <1>2, <1>3 DEF TakenInv, BeforeFirst, AfterFirst
<1>5. side' = [side EXCEPT !["client"] = Send(r, H + 1, takes)]
  BY DEF Start
<1>6. PartyInv(Send(r, H + 1, takes))
  BY <1>1, <1>3, <1>4, SendKeeps
<1> QED
  BY <1>1, <1>5, <1>6, OneSide

(* Reading.                                                                  *)
LEMMA OnReadKeeps ==
  ASSUME HandshakeInv, NEW s \in Sides, NEW n \in Nat, NEW takes \in Takes,
         Fits(takes), OnRead(s, n, takes)
  PROVE  HandshakeInv'
<1> DEFINE p  == [side[s] EXCEPT !.buffer = @ + n]
           ok == CheckC1S1(s, first[Peer(s)]) # -1
           q  == Parse(s, p, ok, takes)
           q2 == [q EXCEPT !.buffer = @ - Connect]
<1>1. side[s] \in Party /\ TakenInv(side[s]) /\ PostedInv(side[s])
  BY DEF HandshakeInv
<1>2. PartyInv(p)
  <2>1. side[s].buffer + n \in Int
    BY <1>1 DEF Party
  <2>2. p \in Party /\ p.step = side[s].step /\ p.taken = side[s].taken
          /\ p.state = side[s].state /\ p.unsent = side[s].unsent
    BY <1>1, <2>1 DEF Party
  <2> QED
    BY <1>1, <2>2 DEF PartyInv, TakenInv, PostedInv
<1>3. ok \in BOOLEAN
  OBVIOUS
<1>4. PartyInv(q)
  <2> HIDE DEF p, ok
  <2> QED
    BY <1>2, <1>3, ParseKeeps
<1>5. PartyInv(q2)
  <2> HIDE DEF q
  <2>1. q.buffer - Connect \in Int
    BY <1>4, RtmpHandShakeAssumption DEF PartyInv, Party, RtmpHandShakeAssumption
  <2>2. q2 \in Party /\ q2.step = q.step /\ q2.taken = q.taken
          /\ q2.state = q.state /\ q2.unsent = q.unsent
    BY <1>4, <2>1 DEF PartyInv, Party
  <2> QED
    BY <1>4, <2>2 DEF PartyInv, TakenInv, PostedInv
<1>6. \/ side' = [side EXCEPT ![s] = q]
      \/ side' = [side EXCEPT ![s] = q2]
  BY DEF OnRead
<1> HIDE DEF q, q2
<1> QED
  BY <1>4, <1>5, <1>6, OneSide

(* Writing: what remains, or the completion.                                 *)
LEMMA OnWriteKeeps ==
  ASSUME HandshakeInv, NEW s \in Sides, NEW n \in Nat, NEW takes \in Takes,
         Fits(takes), OnWrite(s, n, takes)
  PROVE  HandshakeInv'
<1> DEFINE p == [side[s] EXCEPT !.unsent = @ - n, !.put = @ + n]
           q == IF p.unsent = 0 THEN WriteComplete(p, takes) ELSE p
<1>1. side[s] \in Party /\ TakenInv(side[s]) /\ n <= side[s].unsent
        /\ side[s].state # "closed"
  BY DEF HandshakeInv, OnWrite
<1>2. side[s].unsent - n \in Nat /\ side[s].put + n \in Int
  BY <1>1 DEF Party
<1>3. p \in Party /\ p.step = side[s].step /\ p.taken = side[s].taken
        /\ p.state = side[s].state
  BY <1>1, <1>2 DEF Party
<1>4. TakenInv(p)
  BY <1>1, <1>3 DEF TakenInv
<1>5. PartyInv(q)
  <2> HIDE DEF p
  <2>1. CASE p.unsent = 0
    BY <1>1, <1>3, <1>4, <2>1, WriteCompleteKeeps
  <2>2. CASE p.unsent # 0
    <3>1. p.unsent > 0
      BY <1>3, <2>2 DEF Party
    <3> QED
      BY <1>3, <1>4, <2>2, <3>1 DEF PartyInv, PostedInv
  <2> QED
    BY <2>1, <2>2
<1>6. side' = [side EXCEPT ![s] = q]
  BY DEF OnWrite
<1> HIDE DEF q
<1> QED
  BY <1>5, <1>6, OneSide

(* Closing changes no step.                                                  *)
LEMMA CloseKeeps ==
  ASSUME HandshakeInv, NEW s \in Sides,
         side' = [side EXCEPT ![s].state = "closed"]
  PROVE  HandshakeInv'
<1> DEFINE q == [side[s] EXCEPT !.state = "closed"]
<1>1. side[s] \in Party /\ TakenInv(side[s]) /\ PostedInv(side[s])
  BY DEF HandshakeInv
<1>2. q \in Party /\ q.step = side[s].step /\ q.taken = side[s].taken
        /\ q.unsent = side[s].unsent /\ q.state = "closed"
  BY <1>1 DEF Party
<1>3. PartyInv(q)
  BY <1>1, <1>2 DEF PartyInv, TakenInv, PostedInv
<1>4. side' = [side EXCEPT ![s] = q]
  OBVIOUS
<1> QED
  BY <1>3, <1>4, OneSide

(* Every step keeps the invariant.                                           *)
LEMMA StepHandshake == HandshakeInv /\ [Next]_vars => HandshakeInv'
<1> SUFFICES ASSUME HandshakeInv, [Next]_vars PROVE HandshakeInv'
  OBVIOUS
<1>1. CASE Begin
  BY <1>1, StartKeeps DEF Begin
<1>2. 1 .. Total \subseteq Nat
  BY DEF Total
<1>3. ASSUME NEW s \in Sides, Read(s) PROVE HandshakeInv'
  BY <1>2, <1>3, OnReadKeeps DEF Read
<1>4. ASSUME NEW s \in Sides, Write(s) PROVE HandshakeInv'
  BY <1>2, <1>4, OnWriteKeeps DEF Write
<1>5. ASSUME NEW s \in Sides, OnEnd(s) PROVE HandshakeInv'
  BY <1>5, CloseKeeps DEF OnEnd
<1>6. CASE Idle
  BY <1>6, CloseKeeps DEF Idle, Sides
<1>7. CASE UNCHANGED vars
  BY <1>7 DEF vars, HandshakeInv
<1> QED
  BY <1>1, <1>3, <1>4, <1>5, <1>6, <1>7 DEF Next

(* The handshake's invariant holds for packets of every size, however TCP    *)
(* cuts them (RtmpHandShake.cpp, HandShake and WriteComplete).               *)
THEOREM HandshakeInvariant == Spec => []HandshakeInv
<1> QED
  BY InitHandshake, StepHandshake, PTL DEF Spec

(* A side that has posted a packet still has some of it to write.            *)
THEOREM HandshakePosted == Spec => []PostedIsUnsent
<1>1. HandshakeInv => PostedIsUnsent
  BY DEF HandshakeInv, PostedInv, PostedIsUnsent
<1> QED
  BY <1>1, HandshakeInvariant, PTL

(* Messages begin exactly where the handshake ends, on both sides.           *)
THEOREM HandshakeThenMessages == Spec => []MessagesAfterHandshake
<1>1. HandshakeInv => MessagesAfterHandshake
  BY DEF HandshakeInv, TakenInv, MessagesAfterHandshake
<1> QED
  BY <1>1, HandshakeInvariant, PTL

-----------------------------------------------------------------------------
(* Both sides: what the client has read, the server has put.                *)

(* How much the server has put, and has still to put, at each step.          *)
ServerSends(p) ==
  /\ p.step \in {"WaitC0C1", "PostS0S1", "PostS2", "WaitC2", "Done"}
  /\ p.step = "WaitC0C1" => p.put = 0 /\ p.unsent = 0 /\ p.added = 0
  /\ p.step = "PostS0S1" => p.put + p.unsent = H + 1 /\ p.added = 0
  /\ p.step \in {"PostS2", "WaitC2", "Done"} =>
       p.put + p.unsent = 2 * H + 1 + p.added
  /\ p.step \in {"WaitC2", "Done"} => p.unsent = 0

(* The client's bytes are in its buffer or retrieved.                        *)
ClientCounts(p, n) == p.buffer >= 0 /\ p.buffer + p.taken = n

FlowInv ==
  /\ HandshakeInv
  /\ arrived \in [Sides -> Int]
  /\ ClientCounts(side["client"], arrived["client"])
  /\ arrived["client"] <= side["server"].put
  /\ ServerSends(side["server"])

(* Sending moves no byte of the buffer and takes back nothing that was put.  *)
Flows(p, q) == q.buffer = p.buffer /\ q.taken = p.taken /\ q.put >= p.put

LEMMA TakeFlows ==
  ASSUME NEW p \in Party, NEW takes \in Takes, Fits(takes),
         NEW size \in {H, H + 1}
  PROVE  LET q == Take(p, size, takes)
         IN  /\ Flows(p, q)
             /\ q.put + q.unsent + p.added = p.put + p.unsent + size + q.added
             /\ size = H + 1 => q.added = p.added
<1>1. takes[size] \in 0 .. size /\ size \in Nat
  BY TakesType, Size
<1>2. p.put \in Int /\ p.unsent \in Nat /\ p.added \in Nat
  BY DEF Party
<1>3. CASE p.unsent = 0
  <2> DEFINE more == Added(takes[size])
             q == Take(p, size, takes)
  <2>1. q = [p EXCEPT !.put = @ + takes[size],
                      !.unsent = size + more - takes[size], !.added = @ + more]
    BY <1>3 DEF Take
  <2>3. more \in {0, 1} /\ (size = H + 1 => more = 0)
    BY AddedType, TakesType
  <2> HIDE DEF more
  <2>2. /\ q.put = p.put + takes[size] /\ q.unsent = size + more - takes[size]
        /\ q.added = p.added + more /\ q.buffer = p.buffer
        /\ q.taken = p.taken
    BY <2>1 DEF Party
  <2> HIDE DEF q
  <2> QED
    BY <1>1, <1>2, <1>3, <2>2, <2>3 DEF Flows, q
<1>4. CASE p.unsent # 0
  <2>1. Take(p, size, takes) = [p EXCEPT !.unsent = @ + size]
    BY <1>4 DEF Take
  <2> QED
    BY <1>1, <1>2, <2>1 DEF Party, Flows
<1> QED
  BY <1>3, <1>4

LEMMA AdvanceFlows ==
  ASSUME NEW p \in Party
  PROVE  /\ Advance(p) \in Party /\ Flows(p, Advance(p))
         /\ Advance(p).put = p.put /\ Advance(p).unsent = p.unsent
         /\ Advance(p).added = p.added
<1>1. \/ Advance(p) = p
      \/ Advance(p) = [p EXCEPT !.step = "WaitC2"]
      \/ Advance(p) = [p EXCEPT !.step = "WaitS0S1"]
      \/ Advance(p) = [p EXCEPT !.step = "Done"]
  BY DEF Advance
<1>2. ASSUME NEW step \in Steps
      PROVE  LET q == [p EXCEPT !.step = step]
             IN  /\ q \in Party /\ Flows(p, q)
                 /\ q.put = p.put /\ q.unsent = p.unsent
                 /\ q.added = p.added
  BY DEF Party, Flows
<1>3. Flows(p, p)
  BY DEF Flows, Party
<1>4. "WaitC2" \in Steps /\ "WaitS0S1" \in Steps /\ "Done" \in Steps
  BY DEF Steps
<1>5. CASE Advance(p) = p
  BY <1>3, <1>5
<1>6. CASE Advance(p) = [p EXCEPT !.step = "WaitC2"]
  BY <1>2, <1>4, <1>6
<1>7. CASE Advance(p) = [p EXCEPT !.step = "WaitS0S1"]
  BY <1>2, <1>4, <1>7
<1>8. CASE Advance(p) = [p EXCEPT !.step = "Done"]
  BY <1>2, <1>4, <1>8
<1> QED
  BY <1>1, <1>5, <1>6, <1>7, <1>8

(* A completion of the server finds what it has posted put.                  *)
LEMMA WriteCompleteFlows ==
  ASSUME NEW p \in Party, TakenInv(p), p.state # "closed", p.unsent = 0,
         NEW takes \in Takes, Fits(takes)
  PROVE  LET q == WriteComplete(p, takes)
         IN  Flows(p, q) /\ (ServerSends(p) => ServerSends(q))
<1>1. CASE p.step # "PostS0S1"
  <2>1. WriteComplete(p, takes) = Advance(p)
    BY <1>1 DEF WriteComplete
  <2>2. ServerSends(p) => ServerSends(Advance(p))
    <3>1. CASE p.step = "PostS2"
      <4>1. p.state = "kRtmpHandShake"
        BY <3>1 DEF TakenInv, Party
      <4>2. Advance(p) = [p EXCEPT !.step = "WaitC2"]
        BY <3>1, <4>1 DEF Advance
      <4>3. /\ Advance(p).step = "WaitC2" /\ Advance(p).put = p.put
            /\ Advance(p).unsent = p.unsent /\ Advance(p).added = p.added
        BY <4>2 DEF Party
      <4> QED
        BY <3>1, <4>3 DEF ServerSends
    <3>2. CASE p.step \in {"WaitC0C1", "WaitC2", "Done"}
      <4>1. Advance(p) = p
        BY <3>2 DEF Advance
      <4> QED
        BY <4>1
    <3> QED
      BY <1>1, <3>1, <3>2 DEF ServerSends
  <2> QED
    BY <2>1, <2>2, AdvanceFlows
<1>2. CASE p.step = "PostS0S1"
  <2>1. p.state = "kRtmpHandShake"
    BY <1>2 DEF TakenInv, Party
  <2> DEFINE r == [p EXCEPT !.step = "PostS2"]
             q == Take(r, H, takes)
  <2>2. r \in Party /\ Flows(p, r) /\ r.put = p.put /\ r.unsent = 0
          /\ r.step = "PostS2" /\ r.state = p.state /\ r.added = p.added
    BY <1>2, <2>1 DEF Party, Steps, Flows
  <2> HIDE DEF r
  <2>3. /\ q \in Party /\ q.state = p.state /\ q.step = "PostS2"
        /\ Flows(r, q)
        /\ q.put + q.unsent + r.added = r.put + r.unsent + H + q.added
    BY <2>2, TakeKeeps, TakeFlows
  <2> HIDE DEF q
  <2>4. p.put = H + 1 /\ p.added = 0 =>
          q.put + q.unsent = 2 * H + 1 + q.added
    BY <2>2, <2>3, Size DEF Party
  <2>5. ServerSends(p) => p.put = H + 1 /\ p.added = 0
    BY <1>2, Size DEF ServerSends, Party
  <2>6. WriteComplete(p, takes) = IF q.unsent = 0 THEN Advance(q) ELSE q
    BY <1>2, <2>1 DEF WriteComplete, q, r
  <2>7. CASE q.unsent # 0
    <3>1. ServerSends(p) => ServerSends(q)
      BY <2>3, <2>4, <2>5 DEF ServerSends
    <3> QED
      BY <2>2, <2>3, <2>6, <2>7, <3>1 DEF Flows, Party
  <2>8. CASE q.unsent = 0
    <3>1. Advance(q) = [q EXCEPT !.step = "WaitC2"]
      BY <2>1, <2>3 DEF Advance
    <3>2. /\ Advance(q).step = "WaitC2" /\ Advance(q).put = q.put
          /\ Advance(q).unsent = q.unsent /\ Advance(q).added = q.added
      BY <2>3, <3>1 DEF Party
    <3>3. ServerSends(p) => ServerSends(Advance(q))
      BY <2>4, <2>5, <2>8, <3>2 DEF ServerSends
    <3>4. Flows(q, Advance(q))
      BY <2>3, AdvanceFlows
    <3> QED
      BY <2>2, <2>3, <2>6, <2>8, <3>2, <3>3, <3>4 DEF Flows, Party
  <2> QED
    BY <2>7, <2>8
<1> QED
  BY <1>1, <1>2

LEMMA SendFlows ==
  ASSUME NEW p \in Party, TakenInv(p), p.state # "closed",
         NEW takes \in Takes, Fits(takes), NEW size \in {H, H + 1}
  PROVE  LET q == Send(p, size, takes)
         IN  /\ Flows(p, q)
             /\ p.step = "PostS0S1" /\ p.put = 0 /\ p.unsent = 0
                   /\ p.added = 0 /\ size = H + 1 => ServerSends(q)
<1> DEFINE q == Take(p, size, takes)
<1>1. /\ q \in Party /\ q.state = p.state /\ q.step = p.step
      /\ q.taken = p.taken /\ Flows(p, q)
      /\ q.put + q.unsent + p.added = p.put + p.unsent + size + q.added
      /\ size = H + 1 => q.added = p.added
  BY TakeKeeps, TakeFlows
<1>2. TakenInv(q)
  BY <1>1 DEF TakenInv
<1>3. Send(p, size, takes) = IF q.unsent = 0 THEN WriteComplete(q, takes) ELSE q
  BY DEF Send
<1> HIDE DEF q
<1>4. p.step = "PostS0S1" /\ p.put = 0 /\ p.unsent = 0 /\ p.added = 0
        /\ size = H + 1 => ServerSends(q)
  <2>1. SUFFICES ASSUME p.step = "PostS0S1", p.put = 0, p.unsent = 0,
                        p.added = 0, size = H + 1
                 PROVE  ServerSends(q)
    OBVIOUS
  <2>2. q.added = 0 /\ q.step = "PostS0S1"
    BY <1>1, <2>1
  <2>3. q.put \in Int /\ q.unsent \in Nat
    BY <1>1 DEF Party
  <2>4. q.put + q.unsent = H + 1
    BY <1>1, <2>1, <2>2, <2>3, Size
  <2> QED
    BY <2>2, <2>4 DEF ServerSends
<1>5. CASE q.unsent = 0
  <2>1. /\ Flows(q, WriteComplete(q, takes))
        /\ ServerSends(q) => ServerSends(WriteComplete(q, takes))
    BY <1>1, <1>2, <1>5, WriteCompleteFlows
  <2>2. WriteComplete(q, takes).put \in Int
    BY <1>1, <1>2, <1>5, WriteCompleteKeeps DEF PartyInv, Party
  <2> QED
    BY <1>1, <1>3, <1>4, <1>5, <2>1, <2>2 DEF Flows, Party
<1>6. CASE q.unsent # 0
  BY <1>1, <1>3, <1>4, <1>6
<1> QED
  BY <1>5, <1>6

(* Reading moves bytes from the buffer to those taken, and no more of them   *)
(* than are there.                                                           *)
Counts(p, q) ==
  /\ q.buffer + q.taken = p.buffer + p.taken
  /\ p.buffer >= 0 => q.buffer >= 0
  /\ q.put >= p.put

(* Retrieving what the buffer holds.                                         *)
LEMMA RetrieveCounts ==
  ASSUME NEW p \in Party, NEW step \in Steps, NEW size \in {H, H + 1},
         p.buffer >= size
  PROVE  LET q == Retrieve([p EXCEPT !.step = step], size)
         IN  /\ q \in Party /\ q.state = p.state /\ q.step = step
             /\ q.taken = p.taken + size /\ q.buffer = p.buffer - size
             /\ q.put = p.put /\ q.unsent = p.unsent /\ q.added = p.added
             /\ Counts(p, q)
<1> DEFINE q == Retrieve([p EXCEPT !.step = step], size)
<1>1. size \in Nat
  BY Size
<1>2. p.buffer - size \in Int /\ p.taken + size \in Int
  BY <1>1 DEF Party
<1>3. q = [p EXCEPT !.step = step, !.buffer = p.buffer - size,
                    !.taken = p.taken + size]
  BY DEF Retrieve, Party
<1>4. /\ q \in Party /\ q.state = p.state /\ q.step = step
      /\ q.taken = p.taken + size /\ q.buffer = p.buffer - size
      /\ q.put = p.put /\ q.unsent = p.unsent /\ q.added = p.added
  BY <1>2, <1>3 DEF Party
<1> HIDE DEF q
<1>5. Counts(p, q)
  BY <1>1, <1>4 DEF Party, Counts
<1> QED
  BY <1>4, <1>5 DEF q

(* Retrieving, then sending.                                                 *)
LEMMA CountsThenFlows ==
  ASSUME NEW p \in Party, NEW r \in Party, NEW q \in Party,
         Counts(p, r), Flows(r, q)
  PROVE  Counts(p, q)
BY DEF Counts, Flows, Party

LEMMA HandShakeCounts ==
  ASSUME NEW p, PartyInv(p), p.state = "kRtmpHandShake", NEW ok \in BOOLEAN,
         NEW takes \in Takes, Fits(takes)
  PROVE  LET h == HandShake(p, ok, takes)
         IN  Counts(p, h.p) /\ (ServerSends(p) => ServerSends(h.p))
<1> DEFINE h == HandShake(p, ok, takes)
<1>0. p \in Party /\ TakenInv(p) /\ PostedInv(p)
  BY DEF PartyInv
<1>5. Counts(p, p)
  BY <1>0 DEF Counts, Party
<1>1. CASE p.step = "WaitC0C1" /\ p.buffer >= H + 1
  <2>1. CASE ok
    <3> DEFINE r == Retrieve([p EXCEPT !.step = "PostS0S1"], H + 1)
               q == Send(r, H + 1, takes)
    <3>1. /\ r \in Party /\ r.state = p.state /\ r.step = "PostS0S1"
          /\ r.taken = p.taken + (H + 1) /\ r.put = p.put
          /\ r.unsent = p.unsent /\ r.added = p.added /\ Counts(p, r)
      <4>1. "PostS0S1" \in Steps /\ H + 1 \in {H, H + 1}
        BY DEF Steps
      <4> QED
        BY <1>0, <1>1, <4>1, RetrieveCounts
    <3>2. p.taken = 0
      BY <1>0, <1>1 DEF TakenInv, BeforeFirst
    <3>3. TakenInv(r)
      BY <3>1, <3>2, Size DEF TakenInv, BeforeFirst, AfterFirst
    <3>4. h = [p |-> q, ret |-> 1]
      BY <1>1, <2>1 DEF HandShake, Again
    <3> HIDE DEF r
    <3>5. PartyInv(q)
      BY <3>1, <3>3, SendKeeps
    <3>6. /\ Flows(r, q)
          /\ r.put = 0 /\ r.unsent = 0 /\ r.added = 0 => ServerSends(q)
      BY <3>1, <3>3, SendFlows
    <3>7. ServerSends(p) => r.put = 0 /\ r.unsent = 0 /\ r.added = 0
      BY <1>1, <3>1 DEF ServerSends
    <3> HIDE DEF q
    <3>8. Counts(p, q)
      BY <1>0, <3>1, <3>5, <3>6, CountsThenFlows DEF PartyInv
    <3> QED
      BY <3>4, <3>6, <3>7, <3>8
  <2>2. CASE ~ok
    <3>1. h = [p |-> p, ret |-> -1]
      BY <1>1, <2>2 DEF HandShake, Failed
    <3> QED
      BY <1>5, <3>1
  <2> QED
    BY <2>1, <2>2
<1>2. CASE p.step = "WaitC2" /\ p.buffer >= H
  <2> DEFINE r == Retrieve([p EXCEPT !.step = "Done"], H)
  <2>1. /\ r.step = "Done" /\ r.put = p.put /\ r.unsent = p.unsent
        /\ r.added = p.added /\ Counts(p, r)
    BY <1>0, <1>2, RetrieveCounts DEF Steps
  <2>2. h = [p |-> r, ret |-> 0]
    BY <1>2 DEF HandShake, Shaken, CheckC2S2
  <2>3. ServerSends(p) => ServerSends(r)
    BY <1>2, <2>1 DEF ServerSends
  <2> QED
    BY <2>1, <2>2, <2>3
<1>3. CASE p.step = "WaitS0S1" /\ p.buffer >= H + 1
  <2> DEFINE r == Retrieve(p, H + 1)
  <2>0. ~ServerSends(p)
    BY <1>3 DEF ServerSends
  <2>1. /\ r \in Party /\ r.state = p.state /\ r.taken = H + 1
        /\ r.buffer = p.buffer - (H + 1) /\ Counts(p, r)
    <3>1. p.taken = 0
      BY <1>0, <1>3 DEF TakenInv, BeforeFirst
    <3>2. /\ p.buffer - (H + 1) \in Int /\ p.taken + (H + 1) = H + 1
          /\ H + 1 \in Nat
      BY <1>0, <3>1, Size DEF Party
    <3>3. r = [p EXCEPT !.buffer = p.buffer - (H + 1), !.taken = p.taken + (H + 1)]
      BY DEF Retrieve
    <3>4. /\ r \in Party /\ r.state = p.state /\ r.taken = H + 1
          /\ r.buffer = p.buffer - (H + 1) /\ r.put = p.put
      <4> HIDE DEF r
      <4>1. p.taken + (H + 1) \in Int
        BY <3>2
      <4>2. /\ r \in Party /\ r.state = p.state /\ r.put = p.put
            /\ r.taken = p.taken + (H + 1) /\ r.buffer = p.buffer - (H + 1)
        BY <1>0, <3>2, <3>3, <4>1 DEF Party
      <4> QED
        BY <3>2, <4>2
    <3> HIDE DEF r
    <3>5. Counts(p, r)
      BY <1>0, <1>3, <3>1, <3>2, <3>4 DEF Party, Counts
    <3> QED
      BY <3>4, <3>5
  <2>2. CASE ~ok
    <3>1. h = [p |-> p, ret |-> -1]
      BY <1>3, <2>2 DEF HandShake, Failed
    <3> QED
      BY <1>5, <3>1
  <2>3. CASE ok /\ S2Here(r.buffer)
    <3> DEFINE q == Retrieve([r EXCEPT !.step = "Doning"], H)
    <3>1. h = [p |-> Send(q, H, takes), ret |-> 0]
      BY <1>3, <2>3 DEF HandShake, Shaken, S2Together
    <3>2. r.buffer >= H
      BY <2>3, Size DEF S2Here
    <3> HIDE DEF r
    <3>3. q \in Party /\ q.state = p.state /\ q.step = "Doning"
            /\ q.taken = r.taken + H /\ Counts(r, q)
      <4>1. "Doning" \in Steps /\ H \in {H, H + 1} /\ r \in Party
        BY <2>1 DEF Steps
      <4>2. /\ q.state = r.state /\ q \in Party /\ q.step = "Doning"
            /\ q.taken = r.taken + H /\ Counts(r, q)
        BY <3>2, <4>1, RetrieveCounts
      <4> QED
        BY <2>1, <4>2
    <3>4. q.taken = 2 * H + 1
      BY <2>1, <3>3, Size
    <3>5. TakenInv(q)
      BY <3>3, <3>4 DEF TakenInv, BeforeFirst, AfterFirst
    <3> HIDE DEF q
    <3>6. PartyInv(Send(q, H, takes)) /\ Flows(q, Send(q, H, takes))
      BY <3>3, <3>5, SendKeeps, SendFlows
    <3>7. Counts(p, q)
      BY <1>0, <2>1, <3>3 DEF Counts, Party
    <3>8. Counts(p, Send(q, H, takes))
      BY <1>0, <3>3, <3>6, <3>7, CountsThenFlows DEF PartyInv
    <3> QED
      BY <2>0, <3>1, <3>8
  <2>4. CASE ok /\ ~S2Here(r.buffer)
    <3> DEFINE q == [r EXCEPT !.step = "PostC2"]
    <3>1. h = [p |-> Send(q, H, takes), ret |-> 1]
      BY <1>3, <2>4 DEF HandShake, Again
    <3> HIDE DEF r
    <3>2. /\ q \in Party /\ q.state = p.state /\ q.step = "PostC2"
          /\ q.taken = H + 1 /\ q.put = r.put /\ q.buffer = r.buffer
      BY <2>1 DEF Party, Steps
    <3>3. TakenInv(q)
      BY <3>2 DEF TakenInv, BeforeFirst, AfterFirst
    <3> HIDE DEF q
    <3>4. PartyInv(Send(q, H, takes)) /\ Flows(q, Send(q, H, takes))
      BY <3>2, <3>3, SendKeeps, SendFlows
    <3>5. Counts(p, q)
      BY <2>1, <3>2 DEF Counts
    <3>6. Counts(p, Send(q, H, takes))
      BY <1>0, <3>2, <3>4, <3>5, CountsThenFlows DEF PartyInv
    <3> QED
      BY <2>0, <3>1, <3>6
  <2> QED
    BY <2>2, <2>3, <2>4
<1>4. CASE /\ ~(p.step = "WaitC0C1" /\ p.buffer >= H + 1)
           /\ ~(p.step = "WaitC2" /\ p.buffer >= H)
           /\ ~(p.step = "WaitS0S1" /\ p.buffer >= H + 1)
  <2>1. h = [p |-> p, ret |-> 1]
    BY <1>4 DEF HandShake, Again
  <2> QED
    BY <1>5, <2>1
<1> QED
  BY <1>1, <1>2, <1>3, <1>4

(* Parse: a message of the client is queued, one of the server is not sent.  *)
LEMMA ParseCounts ==
  ASSUME NEW s \in Sides, NEW p, PartyInv(p), NEW ok \in BOOLEAN,
         NEW takes \in Takes, Fits(takes)
  PROVE  LET q == Parse(s, p, ok, takes)
         IN  /\ Counts(p, q)
             /\ s = "server" /\ ServerSends(p) => ServerSends(q)
<1>1. CASE p.state # "kRtmpHandShake"
  <2>1. Counts(p, p)
    BY DEF Counts, PartyInv, Party
  <2> QED
    BY <1>1, <2>1 DEF Parse
<1>2. CASE p.state = "kRtmpHandShake"
  <2> DEFINE h == HandShake(p, ok, takes)
             q == Parse(s, p, ok, takes)
  <2>1. h.ret \in {-1, 0, 1} /\ h.p \in Party
    BY <1>2, HandShakeKeeps DEF PartyInv
  <2>2. Counts(p, h.p) /\ (ServerSends(p) => ServerSends(h.p))
    BY <1>2, HandShakeCounts
  <2>3. /\ q.buffer = h.p.buffer /\ q.taken = h.p.taken /\ q.put = h.p.put
        /\ q.step = h.p.step /\ q.added = h.p.added
        /\ s = "server" => q.unsent = h.p.unsent
    <3>1. CASE h.ret = -1
      <4>1. q = [h.p EXCEPT !.state = "closed"]
        BY <1>2, <3>1 DEF Parse
      <4> HIDE DEF q, h
      <4> QED
        BY <2>1, <4>1 DEF Party
    <3>2. CASE h.ret = 0 /\ s = "client"
      <4> DEFINE r == [h.p EXCEPT !.state = "kRtmpMessage"]
      <4>1. q = SendConnect(r)
        BY <1>2, <3>2 DEF Parse
      <4> HIDE DEF q, h
      <4> QED
        BY <2>1, <3>2, <4>1 DEF Party, SendConnect, Sides
    <3>3. CASE h.ret = 0 /\ s # "client"
      <4>1. q = [h.p EXCEPT !.state = "kRtmpMessage"]
        BY <1>2, <3>3 DEF Parse
      <4> HIDE DEF q, h
      <4> QED
        BY <2>1, <4>1 DEF Party
    <3>4. CASE h.ret = 1
      BY <1>2, <3>4 DEF Parse
    <3> QED
      BY <2>1, <3>1, <3>2, <3>3, <3>4
  <2> HIDE DEF q, h
  <2>4. Counts(p, q)
    BY <2>2, <2>3 DEF Counts
  <2>5. s = "server" /\ ServerSends(p) => ServerSends(q)
    BY <2>2, <2>3 DEF ServerSends
  <2> QED
    BY <2>4, <2>5 DEF q
<1> QED
  BY <1>1, <1>2

-----------------------------------------------------------------------------
(* The actions: what one side's step must keep.                              *)
LEMMA OneSideFlows ==
  ASSUME FlowInv, HandshakeInv', NEW s \in Sides, NEW q \in Party,
         side' = [side EXCEPT ![s] = q], arrived' \in [Sides -> Int],
         s = "client" => /\ ClientCounts(q, arrived'["client"])
                         /\ arrived'["client"] <= side["server"].put,
         s = "server" => /\ arrived'["client"] = arrived["client"]
                         /\ q.put >= side["server"].put
                         /\ ServerSends(q)
  PROVE  FlowInv'
<1>1. side \in [Sides -> Party] /\ arrived \in [Sides -> Int]
  BY DEF FlowInv, HandshakeInv
<1>2. "client" \in Sides /\ "server" \in Sides /\ s \in {"client", "server"}
  BY DEF Sides
<1>3. side["server"].put \in Int /\ q.put \in Int /\ arrived["client"] \in Int
  BY <1>1, <1>2 DEF Party
<1>4. CASE s = "client"
  <2>1. side'["client"] = q /\ side'["server"] = side["server"]
    BY <1>1, <1>2, <1>4
  <2> QED
    BY <1>4, <2>1 DEF FlowInv
<1>5. CASE s = "server"
  <2>1. side'["server"] = q /\ side'["client"] = side["client"]
    BY <1>1, <1>2, <1>5
  <2>2. arrived["client"] <= side["server"].put
    BY DEF FlowInv
  <2>3. arrived'["client"] <= side'["server"].put
    BY <1>3, <1>5, <2>1, <2>2
  <2> QED
    BY <1>5, <2>1, <2>3 DEF FlowInv
<1> QED
  BY <1>2, <1>4, <1>5

(* A step that only sends, or only closes.                                   *)
LEMMA OneSideSends ==
  ASSUME FlowInv, HandshakeInv', NEW s \in Sides, NEW q \in Party,
         side' = [side EXCEPT ![s] = q], arrived' = arrived,
         Flows(side[s], q),
         s = "server" => ServerSends(q)
  PROVE  FlowInv'
<1>1. /\ arrived \in [Sides -> Int]
      /\ ClientCounts(side["client"], arrived["client"])
      /\ arrived["client"] <= side["server"].put
  BY DEF FlowInv
<1>2. s = "client" => ClientCounts(q, arrived["client"])
  BY <1>1 DEF Flows, ClientCounts
<1>3. s = "server" => q.put >= side["server"].put
  BY DEF Flows
<1> QED
  BY <1>1, <1>2, <1>3, OneSideFlows

LEMMA InitFlows == Init => FlowInv
<1> SUFFICES ASSUME Init PROVE FlowInv
  OBVIOUS
<1>1. "client" \in Sides /\ "server" \in Sides
  BY DEF Sides
<1>2. side["client"] = Fresh("Init") /\ side["server"] = Fresh("WaitC0C1")
  BY <1>1 DEF Init
<1>3. ClientCounts(Fresh("Init"), 0) /\ ServerSends(Fresh("WaitC0C1"))
        /\ Fresh("WaitC0C1").put = 0
  BY DEF Fresh, ClientCounts, ServerSends
<1>4. arrived \in [Sides -> Int] /\ arrived["client"] = 0
  BY <1>1 DEF Init
<1> QED
  BY <1>2, <1>3, <1>4, InitHandshake DEF FlowInv

LEMMA StartFlows ==
  ASSUME FlowInv, NEW takes \in Takes, Fits(takes), Start(takes)
  PROVE  FlowInv'
<1> DEFINE p == side["client"]
           r == [p EXCEPT !.step = "PostC0C1"]
           q == Send(r, H + 1, takes)
<1>1. HandshakeInv /\ HandshakeInv'
  BY StartKeeps DEF FlowInv
<1>2. "client" \in Sides /\ p \in Party /\ TakenInv(p) /\ p.step = "Init"
        /\ p.state # "closed"
  BY <1>1 DEF HandshakeInv, Sides, Start
<1>3. /\ r \in Party /\ r.step = "PostC0C1" /\ r.state = p.state
      /\ r.taken = p.taken /\ r.buffer = p.buffer /\ r.put = p.put
  BY <1>2 DEF Party, Steps
<1>4. TakenInv(r)
  BY <1>2, <1>3 DEF TakenInv, BeforeFirst, AfterFirst
<1>5. side' = [side EXCEPT !["client"] = q] /\ arrived' = arrived
  BY DEF Start
<1> HIDE DEF r
<1>6. q \in Party /\ Flows(r, q)
  BY <1>2, <1>3, <1>4, SendKeeps, SendFlows DEF PartyInv
<1> HIDE DEF q
<1>7. Flows(p, q)
  BY <1>3, <1>6 DEF Flows
<1> QED
  BY <1>1, <1>2, <1>5, <1>6, <1>7, OneSideSends

LEMMA OnReadFlows ==
  ASSUME FlowInv, NEW s \in Sides, NEW n \in Nat, NEW takes \in Takes,
         Fits(takes), OnRead(s, n, takes)
  PROVE  FlowInv'
<1> DEFINE p  == [side[s] EXCEPT !.buffer = @ + n]
           ok == CheckC1S1(s, first[Peer(s)]) # -1
           q  == Parse(s, p, ok, takes)
           q2 == [q EXCEPT !.buffer = @ - Connect]
<1>1. HandshakeInv /\ HandshakeInv'
  BY OnReadKeeps DEF FlowInv
<1>2. side[s] \in Party /\ TakenInv(side[s]) /\ PostedInv(side[s])
  BY <1>1 DEF HandshakeInv
<1>3. /\ p \in Party /\ p.buffer = side[s].buffer + n
      /\ p.taken = side[s].taken /\ p.put = side[s].put
      /\ p.unsent = side[s].unsent /\ p.step = side[s].step
      /\ p.state = side[s].state /\ p.added = side[s].added
  <2>1. side[s].buffer + n \in Int
    BY <1>2 DEF Party
  <2> QED
    BY <1>2, <2>1 DEF Party
<1>4. PartyInv(p)
  BY <1>2, <1>3 DEF PartyInv, TakenInv, PostedInv
<1>5. arrived \in [Sides -> Int] /\ arrived' = [arrived EXCEPT ![s] = @ + n]
        /\ n <= side[Peer(s)].put - arrived[s]
  BY DEF FlowInv, OnRead
<1>6. arrived' \in [Sides -> Int] /\ arrived'[s] = arrived[s] + n
        /\ \A t \in Sides : t # s => arrived'[t] = arrived[t]
  BY <1>5
<1>7. "client" \in Sides /\ "server" \in Sides /\ s \in {"client", "server"}
  BY DEF Sides
<1>8. CASE s = "client"
  <2>1. side' = [side EXCEPT ![s] = q]
    BY <1>8 DEF OnRead
  <2> HIDE DEF p, ok
  <2>2. ok \in BOOLEAN
    BY DEF ok
  <2>3. q \in Party /\ Counts(p, q)
    BY <1>4, <2>2, ParseKeeps, ParseCounts DEF PartyInv
  <2> HIDE DEF q
  <2>4. ClientCounts(side["client"], arrived["client"])
    BY DEF FlowInv
  <2>5. ClientCounts(q, arrived'["client"])
    BY <1>2, <1>3, <1>5, <1>6, <1>7, <1>8, <2>3, <2>4
    DEF ClientCounts, Counts, Party
  <2>6. side["server"].put \in Int /\ arrived["client"] \in Int
    BY <1>1, <1>5, <1>7 DEF HandshakeInv, Party
  <2>7. arrived'["client"] <= side["server"].put
    BY <1>5, <1>6, <1>8, <2>6 DEF Peer
  <2> QED
    BY <1>1, <1>6, <1>8, <2>1, <2>3, <2>5, <2>7, OneSideFlows
<1>9. CASE s = "server"
  <2>1. \/ side' = [side EXCEPT ![s] = q]
        \/ side' = [side EXCEPT ![s] = q2]
    BY DEF OnRead
  <2> HIDE DEF p, ok
  <2>2. ok \in BOOLEAN
    BY DEF ok
  <2>3. ServerSends(side["server"])
    BY DEF FlowInv
  <2>4. ServerSends(p)
    BY <1>3, <1>9, <2>3 DEF ServerSends
  <2>5. q \in Party /\ Counts(p, q) /\ ServerSends(q)
    BY <1>4, <1>9, <2>2, <2>4, ParseKeeps, ParseCounts DEF PartyInv
  <2> HIDE DEF q
  <2>6. /\ q2 \in Party /\ q2.put = q.put /\ q2.step = q.step
        /\ q2.unsent = q.unsent /\ q2.added = q.added
    <3>1. q.buffer - Connect \in Int
      BY <2>5, RtmpHandShakeAssumption DEF Party, RtmpHandShakeAssumption
    <3> QED
      BY <2>5, <3>1 DEF Party
  <2> HIDE DEF q2
  <2>7. ServerSends(q2)
    BY <2>5, <2>6 DEF ServerSends
  <2>8. q.put >= side["server"].put /\ q2.put >= side["server"].put
    BY <1>3, <1>9, <2>5, <2>6 DEF Counts
  <2>9. arrived'["client"] = arrived["client"]
    BY <1>6, <1>7, <1>9
  <2> QED
    BY <1>1, <1>6, <1>9, <2>1, <2>5, <2>6, <2>7, <2>8, <2>9, OneSideFlows
<1> QED
  BY <1>7, <1>8, <1>9

LEMMA OnWriteFlows ==
  ASSUME FlowInv, NEW s \in Sides, NEW n \in Nat, NEW takes \in Takes,
         Fits(takes), OnWrite(s, n, takes)
  PROVE  FlowInv'
<1> DEFINE p == [side[s] EXCEPT !.unsent = @ - n, !.put = @ + n]
           q == IF p.unsent = 0 THEN WriteComplete(p, takes) ELSE p
<1>1. HandshakeInv /\ HandshakeInv'
  BY OnWriteKeeps DEF FlowInv
<1>2. side[s] \in Party /\ TakenInv(side[s]) /\ n <= side[s].unsent
        /\ side[s].state # "closed"
  BY <1>1 DEF HandshakeInv, OnWrite
<1>3. side[s].unsent - n \in Nat /\ side[s].put + n \in Int
  BY <1>2 DEF Party
<1>4. /\ p \in Party /\ p.step = side[s].step /\ p.taken = side[s].taken
      /\ p.state = side[s].state /\ p.buffer = side[s].buffer
      /\ p.unsent = side[s].unsent - n /\ p.put = side[s].put + n
      /\ p.added = side[s].added
  BY <1>2, <1>3 DEF Party
<1>5. side' = [side EXCEPT ![s] = q] /\ arrived' = arrived
  BY DEF OnWrite
<1> HIDE DEF p
<1>6. TakenInv(p)
  BY <1>2, <1>4 DEF TakenInv
<1>7. Flows(side[s], p)
  BY <1>2, <1>4 DEF Flows, Party
<1>8. ServerSends(side[s]) => ServerSends(p)
  <2>1. p.put + p.unsent = side[s].put + side[s].unsent
    BY <1>2, <1>4 DEF Party
  <2>2. side[s].unsent = 0 => p.unsent = 0 /\ p.put = side[s].put
    <3>1. side[s].unsent \in Nat /\ side[s].put \in Int
      BY <1>2 DEF Party
    <3>2. \A a \in Nat, b \in Int, i \in Nat :
            i <= a /\ a = 0 => a - i = 0 /\ b + i = b
      OBVIOUS
    <3>3. n \in Nat /\ n <= side[s].unsent
      BY <1>2
    <3>4. p.unsent = side[s].unsent - n /\ p.put = side[s].put + n
      BY <1>4
    <3>5. side[s].unsent = 0 =>
            side[s].unsent - n = 0 /\ side[s].put + n = side[s].put
      BY <3>1, <3>2, <3>3
    <3> QED
      BY <3>4, <3>5
  <2> QED
    BY <1>4, <2>1, <2>2 DEF ServerSends
<1>9. q \in Party /\ Flows(p, q) /\ (ServerSends(p) => ServerSends(q))
  <2>1. CASE p.unsent = 0
    BY <1>2, <1>4, <1>6, <2>1, WriteCompleteKeeps, WriteCompleteFlows
    DEF PartyInv
  <2>2. CASE p.unsent # 0
    BY <1>4, <2>2 DEF Flows, Party
  <2> QED
    BY <2>1, <2>2
<1> HIDE DEF q
<1>10. Flows(side[s], q)
  BY <1>2, <1>4, <1>7, <1>9 DEF Flows, Party
<1>11. s = "server" => ServerSends(q)
  BY <1>8, <1>9 DEF FlowInv
<1> QED
  BY <1>1, <1>5, <1>9, <1>10, <1>11, OneSideSends

LEMMA CloseFlows ==
  ASSUME FlowInv, NEW s \in Sides, arrived' = arrived,
         side' = [side EXCEPT ![s].state = "closed"]
  PROVE  FlowInv'
<1> DEFINE q == [side[s] EXCEPT !.state = "closed"]
<1>1. HandshakeInv /\ HandshakeInv'
  BY CloseKeeps DEF FlowInv
<1>2. side[s] \in Party
  BY <1>1 DEF HandshakeInv
<1>3. /\ q \in Party /\ q.step = side[s].step /\ q.taken = side[s].taken
      /\ q.unsent = side[s].unsent /\ q.buffer = side[s].buffer
      /\ q.put = side[s].put /\ q.added = side[s].added
  BY <1>2 DEF Party
<1>4. side' = [side EXCEPT ![s] = q]
  OBVIOUS
<1> HIDE DEF q
<1>5. Flows(side[s], q)
  BY <1>2, <1>3 DEF Flows, Party
<1>6. ServerSends(side["server"])
  BY DEF FlowInv
<1>7. s = "server" => ServerSends(q)
  BY <1>3, <1>6 DEF ServerSends
<1> QED
  BY <1>1, <1>3, <1>4, <1>5, <1>7, OneSideSends

LEMMA StepFlows == FlowInv /\ [Next]_vars => FlowInv'
<1> SUFFICES ASSUME FlowInv, [Next]_vars PROVE FlowInv'
  OBVIOUS
<1>1. CASE Begin
  BY <1>1, StartFlows DEF Begin
<1>2. 1 .. Total \subseteq Nat
  BY DEF Total
<1>3. ASSUME NEW s \in Sides, Read(s) PROVE FlowInv'
  BY <1>2, <1>3, OnReadFlows DEF Read
<1>4. ASSUME NEW s \in Sides, Write(s) PROVE FlowInv'
  BY <1>2, <1>4, OnWriteFlows DEF Write
<1>5. ASSUME NEW s \in Sides, OnEnd(s) PROVE FlowInv'
  BY <1>5, CloseFlows DEF OnEnd
<1>6. CASE Idle
  BY <1>6, CloseFlows DEF Idle, Sides
<1>7. CASE UNCHANGED vars
  BY <1>7 DEF vars, FlowInv, HandshakeInv
<1> QED
  BY <1>1, <1>3, <1>4, <1>5, <1>6, <1>7 DEF Next

(* The client has read no more than the server has put, and the server has   *)
(* put all of S2 when it waits for C2, for packets of every size.            *)
THEOREM HandshakeFlows == Spec => []FlowInv
<1> QED
  BY InitFlows, StepFlows, PTL DEF Spec

(* A client that sends messages has taken S0S1 and S2, which are all the     *)
(* server sends before messages, so the server has nothing left of them but  *)
(* a byte that is not of them.                                               *)
LEMMA FlowWaits == FlowInv => ClientWaitsForS2
<1> DEFINE c == side["client"]
           p == side["server"]
<1> SUFFICES ASSUME FlowInv, c.state = "kRtmpMessage"
             PROVE  /\ p.step \in {"WaitC2", "Done"} \/ p.added > 0
                    /\ p.unsent <= p.added
  BY DEF ClientWaitsForS2
<1>1. c \in Party /\ p \in Party /\ TakenInv(c) /\ PostedInv(p)
  BY DEF FlowInv, HandshakeInv, Sides
<1>2. c.taken = 2 * H + 1
  BY <1>1 DEF TakenInv
<1>3. c.buffer >= 0 /\ c.buffer + c.taken <= p.put
  BY <1>1 DEF FlowInv, ClientCounts
<1>4. ServerSends(p)
  BY DEF FlowInv
<1> HIDE DEF c, p
<1>5. p.put >= 2 * H + 1
  BY <1>1, <1>2, <1>3, Size DEF Party
<1>6. p.step \notin {"WaitC0C1", "PostS0S1"}
  BY <1>1, <1>4, <1>5, Size DEF ServerSends, Party
<1>7. p.put + p.unsent = 2 * H + 1 + p.added
  BY <1>4, <1>6 DEF ServerSends
<1>8. p.unsent <= p.added
  BY <1>1, <1>5, <1>7, Size DEF Party
<1>9. p.step = "PostS2" => p.added > 0
  BY <1>1, <1>8 DEF PostedInv, Party
<1> QED
  BY <1>4, <1>6, <1>8, <1>9 DEF ServerSends

(* No client sends a message before the server has sent all of S2, however   *)
(* TCP cuts the bytes and whatever write takes (RtmpHandShake.cpp:226-262).  *)
THEOREM HandshakeClientWaits == Spec => []ClientWaitsForS2
<1> QED
  BY FlowWaits, HandshakeFlows, PTL
=============================================================================

------------------------------- MODULE Digest -------------------------------
(* The first packet of each side of an RTMP handshake, C1 or S1: where its   *)
(* digest is, how it is made and checked, and how the second packet answers  *)
(* it. A packet is kept as what these depend on: its version, the sums of    *)
(* the four bytes before each place for a digest, and its digest, which is   *)
(* good for one key and one content. Positions count from the timestamp.     *)
EXTENDS Integers

Sides == {"client", "server"}
Peer(s) == IF s = "client" THEN "server" ELSE "client"

SHA256_DIGEST_LENGTH == 32
PacketLength == 1536

(* The two layouts: digest before key, and key before digest.                *)
Layouts == {8, 772}
AllSums == 0 .. 4 * 255
ModVal == 728

OpenKey(s) == [of |-> s, whole |-> FALSE]
WholeKey(s) == [of |-> s, whole |-> TRUE]

NoDigest == [key |-> OpenKey("nobody"), gap |-> 0, version |-> "zero",
             sums |-> [l \in Layouts |-> 0]]

Unsigned(version, sums) ==
  [version |-> version, sums |-> sums, place |-> -1, digest |-> NoDigest]

(* HMAC of a packet without the bytes of its digest.                         *)
CalculateDigest(p, gap, key) ==
  [key |-> key, gap |-> gap, version |-> p.version, sums |-> p.sums]

VerifyDigest(p, place, key) ==
  p.place = place /\ p.digest = CalculateDigest(p, place, key)

GetDigestOffset(p, layout) == (p.sums[layout] % ModVal) + layout + 4

Meet(place, first, length) ==
  place < first + length /\ first < place + SHA256_DIGEST_LENGTH

(* A digest replaces the bytes it is written over.                           *)
Sign(p, place, digest) ==
  [p EXCEPT !.place = place, !.digest = digest,
            !.version = IF Meet(place, 4, 4) THEN "overwritten" ELSE @,
            !.sums = [l \in Layouts |-> IF Meet(place, l, 4) THEN -1 ELSE @[l]]]

(* The random bytes come first, the version next, the digest over both.      *)
CreateC1S1VersionLast(s, sums) ==
  LET p == Unsigned("random", sums)
      place == GetDigestOffset(p, 8)
  IN  [Sign(p, place, CalculateDigest(p, place, OpenKey(s))) EXCEPT !.version = s]

CreateC1S1(s, sums) ==
  LET p == Unsigned(s, sums)
      place == GetDigestOffset(p, 8)
  IN  Sign(p, place, CalculateDigest(p, place, OpenKey(s)))

(* What s finds in its peer's packet: the place of the digest, 0 for a       *)
(* simple handshake, -1 when neither layout verifies.                        *)
CheckC1S1(s, p) ==
  LET Verifies(layout) == VerifyDigest(p, GetDigestOffset(p, layout), OpenKey(Peer(s)))
  IN  CASE p.version = "zero" -> 0
        [] p.version # "zero" /\ Verifies(8) -> GetDigestOffset(p, 8)
        [] p.version # "zero" /\ ~Verifies(8) /\ Verifies(772) -> GetDigestOffset(p, 772)
        [] OTHER -> -1

(* C2 or S2 of s is signed with a key made from 32 bytes of its peer's first *)
(* packet - they should be its digest - unless the handshake is simple.      *)
CreateC2S2(s, p, offset) ==
  [signed |-> p.version # "zero", key |-> WholeKey(s),
   from |-> IF offset = p.place THEN p.digest ELSE NoDigest]

(* Nobody looks at the second packet.                                        *)
CheckC2S2 == TRUE

-----------------------------------------------------------------------------
(* Packets of other programs: signed in the second layout, simple, or signed *)
(* with something else.                                                      *)
KeyFirst(s, sums) ==
  LET p == Unsigned("other", sums)
      place == GetDigestOffset(p, 772)
  IN  Sign(p, place, CalculateDigest(p, place, OpenKey(s)))

Simple(sums) == Unsigned("zero", sums)

Wrong(sums) == Unsigned("other", sums)

Conforming(s, p) ==
  \/ p.version = "zero"
  \/ \E layout \in Layouts : VerifyDigest(p, GetDigestOffset(p, layout), OpenKey(s))
=============================================================================

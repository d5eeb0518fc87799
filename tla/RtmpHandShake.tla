---------------------------- MODULE RtmpHandShake ----------------------------
(***************************************************************************)
(* The RTMP handshake between an RtmpClient and an RtmpServer (mm::          *)
(* RtmpHandShake inside mm::RtmpContext) over one TCP connection, up to the  *)
(* client's first message, connect.                                          *)
(*                                                                          *)
(* Each side runs on its own loop and reacts to two events: bytes that can   *)
(* be read, and room to write.  TCP may hand the bytes over in any pieces,    *)
(* and write may take any part of what it is given; only the number of bytes *)
(* is modelled, and of the first packets what module Digest keeps of them.   *)
(***************************************************************************)
EXTENDS Digest

CONSTANTS
  kRtmpHandShakePacketSize,  (* C2, S2; C0C1 and S0S1 have one byte more     *)
  Connect,                   (* size of the connect message                  *)
  Sums                       (* of four random bytes                         *)

ASSUME RtmpHandShakeAssumption ==
  /\ kRtmpHandShakePacketSize \in Nat \ {0}
  /\ Connect \in Nat \ {0}
  /\ Sums \subseteq AllSums

H == kRtmpHandShakePacketSize

VARIABLES
  side,     (* for each side, its RtmpContext and TcpConnection:
                 state   RtmpContext::state_, or closed
                 step    RtmpHandShake::state_
                 buffer  bytes that can be read from m_messageBuffer
                 unsent  bytes in m_iovecList
                 put     bytes that write has taken
                 added   history: bytes queued that nobody meant to send
                 taken   history: bytes the handshake has retrieved          *)
  arrived,  (* bytes of what the peer put that each side has read            *)
  writing,  (* onWrite is at work: it does not return before all is written  *)
  first,    (* the first packet of each side, C1 and S1, as it is to arrive  *)
  late,     (* history: the client had S0S1 and not yet all of S2            *)
  heard     (* the server has parsed connect                                 *)

vars == <<side, arrived, writing, first, late, heard>>

-----------------------------------------------------------------------------
(* Sending.  m_iovecList empty, write is called at once and takes what it    *)
(* can of the packet; a packet it takes whole is complete inside send.  The   *)
(* -1 of a write that has no room counts as a size: one byte too many is      *)
(* queued.                                                                   *)
Added(taken) == IF taken = 0 THEN 1 ELSE 0

Take(p, size, takes) ==
  IF p.unsent # 0
  THEN [p EXCEPT !.unsent = @ + size]
  ELSE [p EXCEPT !.put = @ + takes[size],
                 !.unsent = size + Added(takes[size]) - takes[size],
                 !.added = @ + Added(takes[size])]

(* What arrives of a first packet.  A write that took a part of it is        *)
(* followed by its first bytes again, and not by the rest: it comes out      *)
(* right only by chance, is read as a simple one where the zeros of the      *)
(* timestamp fall on the version (a cut after four bytes), and fails the     *)
(* check of its digest otherwise.  Other programs send what they mean to.    *)
Arriving(s, takes) ==
  IF takes[H + 1] = H + 1 \/ first[s].version # s
  THEN {first[s]}
  ELSE {first[s], Simple(first[s].sums), Wrong(first[s].sums)}

(* WriteComplete where it does not send.                                     *)
Advance(p) ==
  IF p.state # "kRtmpHandShake" THEN p
  ELSE CASE p.step = "PostS2"   -> [p EXCEPT !.step = "WaitC2"]
         [] p.step = "PostC0C1" -> [p EXCEPT !.step = "WaitS0S1"]
         [] p.step = "PostC2"   -> [p EXCEPT !.step = "Done"]
         [] p.step = "Doning"   -> [p EXCEPT !.step = "Done"]
         [] OTHER               -> p

WriteComplete(p, takes) ==
  IF p.state = "kRtmpHandShake" /\ p.step = "PostS0S1"
  THEN LET q == Take([p EXCEPT !.step = "PostS2"], H, takes)
       IN  IF q.unsent = 0 THEN Advance(q) ELSE q
  ELSE Advance(p)

Send(p, size, takes) ==
  LET q == Take(p, size, takes)
  IN  IF q.unsent = 0 THEN WriteComplete(q, takes) ELSE q

(* Messages are only queued: onWrite writes them.                            *)
SendConnect(p) == [p EXCEPT !.unsent = @ + Connect]

Retrieve(p, size) == [p EXCEPT !.buffer = @ - size, !.taken = @ + size]

(* S2 left in the buffer for the message parser.                             *)
S2TogetherUnread(p, takes) == Send([p EXCEPT !.step = "Doning"], H, takes)

(* S2 came with S0S1: it is thrown away unread.                              *)
S2Together(p, takes) ==
  Send(Retrieve([p EXCEPT !.step = "Doning"], H), H, takes)

S2HereAtAll(buffer) == buffer > 0

S2Here(buffer) == buffer = H

(* RtmpHandShake::HandShake and its result.                                  *)
Again(p)  == [p |-> p, ret |-> 1]
Failed(p) == [p |-> p, ret |-> -1]
Shaken(p) == [p |-> p, ret |-> 0]

HandShake(p, ok, takes) ==
  CASE p.step = "WaitC0C1" /\ p.buffer >= H + 1 ->
         IF ok THEN Again(Send(Retrieve([p EXCEPT !.step = "PostS0S1"], H + 1),
                               H + 1, takes))
               ELSE Failed(p)
    [] p.step = "WaitC2" /\ p.buffer >= H ->
         IF CheckC2S2 THEN Shaken(Retrieve([p EXCEPT !.step = "Done"], H))
                      ELSE Failed(p)
    [] p.step = "WaitS0S1" /\ p.buffer >= H + 1 ->
         IF ~ok THEN Failed(p)
         ELSE LET q == Retrieve(p, H + 1)
              IN  IF S2Here(q.buffer) THEN Shaken(S2Together(q, takes))
                  ELSE Again(Send([q EXCEPT !.step = "PostC2"], H, takes))
    [] OTHER -> Again(p)

(* RtmpContext::Parse up to where messages begin; a failure is answered by   *)
(* forceClose.                                                               *)
Parse(s, p, ok, takes) ==
  IF p.state # "kRtmpHandShake" THEN p
  ELSE LET h == HandShake(p, ok, takes)
       IN  CASE h.ret = -1 -> [h.p EXCEPT !.state = "closed"]
             [] h.ret = 0  -> LET q == [h.p EXCEPT !.state = "kRtmpMessage"]
                              IN  IF s = "client" THEN SendConnect(q) ELSE q
             [] OTHER      -> h.p

-----------------------------------------------------------------------------
(* How much write takes of a packet: of the first one of a connection at     *)
(* least a byte, since nothing fills its buffer yet.                         *)
Takes == [{H, H + 1} -> 0 .. H + 1]

Fits(takes) == takes[H] <= H /\ takes[H + 1] > 0

(* The client's TCP connection is made: C0C1 is sent.                        *)
Start(takes) ==
  /\ side["client"].step = "Init" /\ side["client"].state # "closed"
  /\ side' = [side EXCEPT !["client"] =
                Send([@ EXCEPT !.step = "PostC0C1"], H + 1, takes)]
  /\ \E packet \in Arriving("client", takes) :
       first' = [first EXCEPT !["client"] = packet]
  /\ UNCHANGED <<arrived, writing, late, heard>>

(* onRead: some bytes have come, and are parsed with those already there.     *)
OnRead(s, n, takes) ==
  /\ side[s].state # "closed" /\ ~writing[s]
  /\ n <= side[Peer(s)].put - arrived[s]
  /\ arrived' = [arrived EXCEPT ![s] = @ + n]
  /\ LET p    == [side[s] EXCEPT !.buffer = @ + n]
         q    == Parse(s, p,
                       CheckC1S1(s, first[Peer(s)]) # -1, takes)
         full == s = "server" /\ q.state = "kRtmpMessage"
                   /\ q.buffer >= Connect /\ ~heard
                   /\ side["client"].added = 0
         posted == p.step = "WaitC0C1" /\ q.step # p.step
     IN  /\ side' = [side EXCEPT ![s] =
                       IF full THEN [q EXCEPT !.buffer = @ - Connect] ELSE q]
         /\ heard' = (heard \/ full)
         /\ late' = (late \/ (p.step = "WaitS0S1" /\ q.step # p.step
                                /\ q.state = "kRtmpHandShake"))
         /\ \E packet \in IF posted THEN Arriving(s, takes) ELSE {first[s]} :
              first' = [first EXCEPT ![s] = packet]
  /\ UNCHANGED writing

(* onWrite: writev is called until it has taken everything, then the write   *)
(* is complete.  Nothing else runs on the loop meanwhile.                    *)
OnWrite(s, n, takes) ==
  /\ side[s].state # "closed"
  /\ n <= side[s].unsent
  /\ LET p == [side[s] EXCEPT !.unsent = @ - n, !.put = @ + n]
     IN  side' = [side EXCEPT ![s] =
                    IF p.unsent = 0 THEN WriteComplete(p, takes) ELSE p]
  /\ writing' = [writing EXCEPT ![s] = n < side[s].unsent]
  /\ UNCHANGED <<arrived, first, late, heard>>

(* The end of the peer's bytes is read: it has closed.  What is written to a *)
(* peer that has closed is taken and lost.                                   *)
OnEnd(s) ==
  /\ side[Peer(s)].state = "closed" /\ side[s].state # "closed" /\ ~writing[s]
  /\ arrived[s] = side[Peer(s)].put
  /\ side' = [side EXCEPT ![s].state = "closed"]
  /\ UNCHANGED <<arrived, writing, first, late, heard>>

(* The server's idle timeout: nothing is on its way.                         *)
Idle ==
  /\ side["client"].step # "Init"
  /\ \A s \in Sides : /\ side[s].state # "closed" /\ side[s].unsent = 0
                      /\ arrived[s] = side[Peer(s)].put
  /\ side' = [side EXCEPT !["server"].state = "closed"]
  /\ UNCHANGED <<arrived, writing, first, late, heard>>

Fresh(step) == [state |-> "kRtmpHandShake", step |-> step,
                buffer |-> 0, unsent |-> 0, put |-> 0, taken |-> 0, added |-> 0]

(* What this program sends first, or another that a side may talk to.        *)
FirstPackets(s) ==
  UNION {{CreateC1S1(s, sums), KeyFirst(s, sums), Simple(sums), Wrong(sums)} :
           sums \in [Layouts -> Sums]}

Init ==
  /\ side = [s \in Sides |-> IF s = "client" THEN Fresh("Init")
                             ELSE Fresh("WaitC0C1")]
  /\ arrived = [s \in Sides |-> 0]
  /\ writing = [s \in Sides |-> FALSE]
  /\ \E client \in FirstPackets("client"), server \in FirstPackets("server") :
       first = [s \in Sides |-> IF s = "client" THEN client ELSE server]
  /\ late = FALSE /\ heard = FALSE

(* All that one side ever sends, with the byte that may be added to C2 or S2. *)
Total == 2 * H + 2 + Connect

Read(s)  == \E takes \in Takes, n \in 1 .. Total :
              Fits(takes) /\ OnRead(s, n, takes)
Write(s) == \E takes \in Takes, n \in 1 .. Total :
              Fits(takes) /\ OnWrite(s, n, takes)
Begin    == \E takes \in Takes : Fits(takes) /\ Start(takes)

Next ==
  \/ Begin
  \/ \E s \in Sides : Read(s) \/ Write(s) \/ OnEnd(s)
  \/ Idle

Spec == Init /\ [][Next]_vars

(* The loops run, and TCP delivers what was put while both ends are there.   *)
FairSpec ==
  /\ Spec
  /\ WF_vars(Begin) /\ WF_vars(Idle)
  /\ \A s \in Sides : /\ WF_vars(Read(s))
                      /\ WF_vars(Write(s))
                      /\ WF_vars(OnEnd(s))

-----------------------------------------------------------------------------
(* Properties.                                                              *)

Steps == {"Init", "PostC0C1", "WaitS0S1", "PostC2", "Doning", "WaitC0C1",
          "PostS0S1", "PostS2", "WaitC2", "Done"}

(* Wherever TCP cuts the bytes, messages begin where the handshake ends:     *)
(* each side has taken C0C1 and C2, or S0S1 and S2, and nothing more.        *)
MessagesAfterHandshake ==
  \A s \in Sides : side[s].state = "kRtmpMessage" => side[s].taken = 2 * H + 1

(* A side that posts a packet still has some of it to write, whose           *)
(* completion will move it on; it never waits for a completion that has      *)
(* come already.                                                             *)
PostedIsUnsent ==
  \A s \in Sides :
    side[s].step \in {"PostC0C1", "PostS0S1", "PostS2", "PostC2"} =>
      side[s].unsent > 0

Party == [state : {"kRtmpHandShake", "kRtmpMessage", "closed"}, step : Steps,
          buffer : Int, unsent : Nat, put : Int, taken : Int, added : Nat]

BeforeFirst == {"Init", "PostC0C1", "WaitS0S1", "WaitC0C1"}
AfterFirst == {"PostC2", "PostS0S1", "PostS2", "WaitC2"}

(* What a side has taken tells how far it is, and only the end of the        *)
(* handshake leads to messages.                                              *)
TakenInv(p) ==
  /\ p.step \in BeforeFirst => p.taken = 0
  /\ p.step \in AfterFirst => p.taken = H + 1
  /\ p.step = "Doning" => p.taken = 2 * H + 1
  /\ p.state = "kRtmpMessage" =>
       p.taken = 2 * H + 1 /\ p.step \in {"Doning", "Done"}

PostedInv(p) ==
  p.step \in {"PostC0C1", "PostS0S1", "PostS2", "PostC2"} => p.unsent > 0

(* Why both hold: of each side, on its own.                                  *)
HandshakeInv ==
  /\ side \in [Sides -> Party]
  /\ \A s \in Sides : TakenInv(side[s]) /\ PostedInv(side[s])

(* A client sends messages only to a server that has sent all of S2; what    *)
(* the server may still have to send is the byte it added to S2.             *)
ClientWaitsForS2 ==
  side["client"].state = "kRtmpMessage" =>
    LET p == side["server"]
    IN  /\ p.step \in {"WaitC2", "Done"} \/ p.added > 0
        /\ p.unsent <= p.added

(* This program's own packets, whole or torn, and those of others that are   *)
(* simple or signed in one of the two layouts.                               *)
Own(s) == first[s].version = s
Valid == \A s \in Sides : Conforming(s, first[s]) \/ Own(s)

(* The handshake is over on both sides, or the server overlooks a C2 that it *)
(* read before it had written all of S2 and that nothing follows.            *)
ShakenOrOverlooked ==
  /\ side["client"].step = "Done"
  /\ LET p == side["server"]
     IN  p.step = "Done" \/ (p.step = "WaitC2" /\ p.buffer >= H)

(* RtmpHandShake.cpp, HandShake.  Two sides whose first packets arrive as    *)
(* they should get as far as connect, wherever TCP cuts the bytes; if S2     *)
(* comes later than S0S1, they still finish the handshake, the server        *)
(* possibly without noticing.  Exempt is the short write of a first packet   *)
(* that spoils it (then Valid ends) and the byte a client adds to C2.        *)
HandshakeCompletesUnlessGarbled ==
  Valid ~> (\/ ~Valid \/ heard
            \/ side["client"].added > 0
            \/ late /\ ShakenOrOverlooked)

(* RtmpHandShake.cpp:255-256: C2 sent, the handshake is done, and an S2 that *)
(* is late does not disturb it.  So the client gets to connect all the same. *)
LateS2Harmless ==
  Valid ~> (~Valid \/ heard \/ side["client"].added > 0)
=============================================================================

------------------------------ MODULE PlayerPump ------------------------------
(***************************************************************************)
(* How a player is woken and kept going.  Publishing threads add frames to  *)
(* a Stream and, for some of them, call Session::ActiveAllPlayers; the      *)
(* player's own loop fetches batches, writes them one at a time, and goes   *)
(* on when a write completes.  m_active says that the player is awake, and  *)
(* a publisher posts an activation only to a player that is not.            *)
(*                                                                          *)
(* The player is on a loop of its own (a player that shares its publisher's *)
(* loop has fewer interleavings).  What a batch holds is Stream's business: *)
(* here a frame is its index, every frame is a place where the player may   *)
(* start, and the player never lags by a whole buffer.                      *)
(***************************************************************************)
EXTENDS Integers, FiniteSets

CONSTANTS
  Publishers,   (* threads that feed the stream                             *)
  FastFrames,   (* frames below this one all activate (300 in the code)     *)
  Stride,       (* later, one frame in Stride does (5)                      *)
  BatchSize,    (* frames of one GetFrames call (10)                        *)
  Headers,      (* headers sent before the first batch                      *)
  ReadyAt,      (* the first key frame: the stream is ready from it on      *)
  MaxFrames     (* bound: frames published                                  *)

ASSUME PumpAssumption ==
  /\ FastFrames \in Nat /\ Stride \in Nat \ {0} /\ BatchSize \in Nat \ {0}
  /\ Headers \in Nat /\ ReadyAt \in Nat \ {0} /\ MaxFrames \in Nat

VARIABLES
  frame_index_,  (* Stream: the newest frame                                *)
  publishing,    (* what each publisher is doing                            *)
  m_active,      (* Connection: the player is awake                         *)
  tasks,         (* EventLoop: activations queued for the player's loop     *)
  loop,          (* what the player's loop is doing                         *)
  sending_,      (* RtmpContext: a write is under way                       *)
  responses,     (* RtmpContext: out_waiting_queue_ is not empty            *)
  out_index_,    (* PlayerUser: the last frame fetched, -1 before the first *)
  unsent,        (* PlayerUser: headers and batches fetched but not written *)
  missed         (* history: an activation met a player about to deactivate *)

pumpVars == <<frame_index_, publishing, m_active, tasks, loop, sending_, responses,
              out_index_, unsent, missed>>
stream == <<frame_index_, publishing, missed>>
sender == <<sending_, responses, out_index_, unsent>>

Ready == frame_index_ >= ReadyAt

Wakes(frame) == frame < FastFrames \/ frame % Stride = 0

-----------------------------------------------------------------------------
(* A publisher: AddPacket, from the locked part to ActiveAllPlayers.        *)
AddPacket(p) ==
  /\ publishing[p] = "idle"
  /\ frame_index_ < MaxFrames
  /\ frame_index_' = frame_index_ + 1
  /\ publishing' = [publishing EXCEPT ![p] = "added"]
  /\ UNCHANGED <<m_active, tasks, loop, sender, missed>>

(* After the unlock frame_index_ is read again.                             *)
ChooseToActive(p) ==
  /\ publishing[p] = "added"
  /\ publishing' = [publishing EXCEPT ![p] =
                      IF Wakes(frame_index_) THEN "active" ELSE "idle"]
  /\ UNCHANGED <<frame_index_, m_active, tasks, loop, sender, missed>>

(* Connection::Active: it looks at m_active, then it posts.                 *)
Active(p) ==
  /\ publishing[p] = "active"
  /\ publishing' = [publishing EXCEPT ![p] =
                      IF m_active THEN "idle" ELSE "post"]
  /\ missed' = (missed \/ (m_active /\ loop = "deactive"))
  /\ UNCHANGED <<frame_index_, m_active, tasks, loop, sender>>

PostActivationLost(p) ==
  /\ publishing[p] = "post"
  /\ publishing' = [publishing EXCEPT ![p] = "idle"]
  /\ UNCHANGED <<frame_index_, m_active, tasks, loop, sender, missed>>

PostActivation(p) ==
  /\ publishing[p] = "post"
  /\ publishing' = [publishing EXCEPT ![p] = "idle"]
  /\ tasks' = tasks + 1
  /\ UNCHANGED <<frame_index_, m_active, loop, sender, missed>>

-----------------------------------------------------------------------------
(* The player's loop.                                                       *)

(* AddPlayer ends with Active on the player's own loop.                     *)
Join ==
  /\ loop = "joining"
  /\ m_active' = TRUE
  /\ loop' = "post_frames"
  /\ UNCHANGED <<stream, tasks, sender>>

RunActivation ==
  /\ loop = "idle" /\ tasks > 0
  /\ tasks' = tasks - 1
  /\ m_active' = TRUE
  /\ loop' = "post_frames"
  /\ UNCHANGED <<stream, sender>>

(* GetNextFrame: the last frame of the batch that begins after from.        *)
Fetched(from) ==
  IF frame_index_ - from < BatchSize THEN frame_index_ ELSE from + BatchSize

(* GetFrames: the positions it may leave the player at, with what it owes.  *)
GetFrames ==
  IF unsent > 0 \/ out_index_ = frame_index_
  THEN {[out_index |-> out_index_, unsent |-> unsent]}
  ELSE IF out_index_ >= 0
       THEN {[out_index |-> Fetched(out_index_), unsent |-> 1]}
       ELSE {[out_index |-> Fetched(gop - 1), unsent |-> Headers + 1] :
               gop \in 1 .. frame_index_}

(* PostFrames up to its Deactive, if it comes to that.  PushFrame writes one *)
(* header or the batch; it does nothing while a write is under way.          *)
PostFrames ==
  /\ loop = "post_frames" /\ Ready
  /\ \E fetched \in GetFrames :
       /\ out_index_' = fetched.out_index
       /\ IF fetched.unsent = 0
          THEN loop' = "deactive" /\ UNCHANGED <<sending_, unsent>>
          ELSE /\ loop' = "idle"
               /\ sending_' = TRUE
               /\ unsent' = IF sending_ THEN fetched.unsent
                            ELSE fetched.unsent - 1
  /\ UNCHANGED <<stream, m_active, tasks, responses>>

PostFramesNotReady ==
  /\ loop = "post_frames" /\ ~Ready
  /\ loop' = "deactive"
  /\ UNCHANGED <<stream, m_active, tasks, sender>>

Deactive ==
  /\ loop = "deactive"
  /\ m_active' = FALSE
  /\ loop' = "idle"
  /\ UNCHANGED <<stream, tasks, sender>>

CheckAndSendQueued ==
  /\ loop = "idle" /\ sending_
  /\ responses' = FALSE
  /\ sending_' = responses
  /\ UNCHANGED <<stream, m_active, tasks, loop, out_index_, unsent>>

(* A write completes: the responses that wait go next, then OnActive.       *)
CheckAndSend ==
  /\ loop = "idle" /\ sending_
  /\ responses' = FALSE
  /\ sending_' = responses
  /\ loop' = IF responses THEN "idle" ELSE "post_frames"
  /\ UNCHANGED <<stream, m_active, tasks, out_index_, unsent>>

(* The responses to play may still be on their way when the player joins,   *)
(* and the stream may be old.                                               *)
PumpInit ==
  /\ frame_index_ \in 0 .. MaxFrames
  /\ publishing = [p \in Publishers |-> "idle"]
  /\ m_active = FALSE
  /\ tasks = 0
  /\ loop = "joining"
  /\ sending_ \in BOOLEAN /\ responses \in BOOLEAN
  /\ responses => sending_
  /\ out_index_ = -1
  /\ unsent = 0
  /\ missed = FALSE

PublisherStep(p) ==
  AddPacket(p) \/ ChooseToActive(p) \/ Active(p) \/ PostActivation(p)

LoopStep ==
  \/ Join \/ RunActivation \/ PostFrames \/ PostFramesNotReady \/ Deactive

PumpNext == (\E p \in Publishers : PublisherStep(p)) \/ LoopStep \/ CheckAndSend

PumpSpec == PumpInit /\ [][PumpNext]_pumpVars

(* The player's loop runs what it has to run, and its peer reads what is    *)
(* written to it.  Nobody has to publish.                                   *)
FairPumpSpec == PumpSpec /\ WF_pumpVars(LoopStep) /\ WF_pumpVars(CheckAndSend)

-----------------------------------------------------------------------------
(* Properties.                                                              *)

(* Every variable has its type; a player is never ahead of its stream.      *)
TypeOK ==
  /\ frame_index_ \in 0 .. MaxFrames
  /\ publishing \in [Publishers -> {"idle", "added", "active", "post"}]
  /\ m_active \in BOOLEAN
  /\ tasks \in Nat
  /\ loop \in {"joining", "idle", "post_frames", "deactive"}
  /\ sending_ \in BOOLEAN /\ responses \in BOOLEAN /\ missed \in BOOLEAN
  /\ out_index_ \in -1 .. frame_index_
  /\ unsent \in 0 .. Headers + 1

(* An awake player whose loop is doing something else has a write under way: *)
(* nobody activates a player that is awake, so only the completion of a      *)
(* write can bring it back.                                                  *)
ActiveIsDriven == m_active /\ loop = "idle" => sending_

(* Nothing will happen to the player unless a publisher adds a frame.        *)
Quiet ==
  /\ \A p \in Publishers : publishing[p] = "idle"
  /\ tasks = 0 /\ loop = "idle" /\ ~sending_

(* The player has been given everything up to the last frame that activates, *)
(* the frames before the stream was ready aside.                             *)
CaughtUp ==
  /\ unsent = 0
  /\ \A f \in ReadyAt .. frame_index_ : Wakes(f) => f <= out_index_

(* A player sleeps only when it has been given every frame that wakes it     *)
(* (Session.cpp: ActiveAllPlayers wakes the players when there is data),     *)
(* unless the publisher looked at m_active between the player's last look at *)
(* the stream and its Deactive.                                              *)
SleepsCaughtUpUnlessMissed == Quiet => CaughtUp \/ missed

(* A frame that activates is still to be fetched, and its publisher is done. *)
Behind ==
  \E f \in ReadyAt .. frame_index_ :
    /\ Wakes(f) /\ f > out_index_
    /\ f = frame_index_ => \A p \in Publishers : publishing[p] = "idle"

(* Why it holds: what a player still has to fetch or to write always has an  *)
(* activation, a look at the stream or a write ahead of it.                  *)
PumpInv ==
  /\ ActiveIsDriven
  /\ unsent > 0 => Ready
  /\ unsent > 0 /\ loop = "idle" => sending_
  /\ loop = "deactive" => unsent = 0
  /\ Behind => \/ missed \/ tasks > 0 \/ sending_
               \/ loop \in {"joining", "post_frames"}

(* A posted activation brings the player every frame the stream has.         *)
ActivationDelivers ==
  \A n \in ReadyAt .. MaxFrames :
    tasks > 0 /\ frame_index_ = n ~> out_index_ >= n /\ unsent = 0

=============================================================================

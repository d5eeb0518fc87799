---------------------------- MODULE TimeCorrector ----------------------------
(***************************************************************************)
(* live::TimeCorrector, in the two places the server uses it, in series:    *)
(* Stream::AddPacket corrects the timestamps the publisher sent, and         *)
(* RtmpPlayerUser::PushFrame corrects the result again for each player.      *)
(*                                                                          *)
(* A corrector keeps, per track, the last timestamp it read and the last it *)
(* returned.  CorrectAudioTimeStampByVideo, and the counter                 *)
(* audio_numbers_between_video_ that only it reads, are left out: nothing   *)
(* calls it.  Codec headers and metadata get 0 and change nothing.          *)
(***************************************************************************)
EXTENDS Integers

CONSTANTS
  kMaxVideoDeltaTime, kMaxAudioDeltaTime,
  kDefaultVideoDeltaTime, kDefaultAudioDeltaTime,
  Modulus,      (* 2^32, the number of values of uint32_t and int32_t       *)
  Times,        (* timestamps the publisher sends                           *)
  MaxPackets    (* bound: packets published                                 *)

ASSUME TimeCorrectorAssumption ==
  /\ kDefaultVideoDeltaTime \in Nat /\ kMaxVideoDeltaTime \in Nat
  /\ kDefaultAudioDeltaTime \in Nat /\ kMaxAudioDeltaTime \in Nat
  /\ kDefaultVideoDeltaTime < kMaxVideoDeltaTime
  /\ kDefaultAudioDeltaTime < kMaxAudioDeltaTime
  /\ Modulus \in Nat \ {0}
  /\ Times \subseteq 0 .. Modulus - 1
  /\ MaxPackets \in Nat

VARIABLES
  corrector,   (* Stream::time_corrector_                                   *)
  playback,    (* PlayerUser::time_corrector_ of a player                   *)
  playing,     (* the player has been let in and gets every packet since    *)
  packets,     (* packets published                                         *)
  jumped       (* history: tracks whose input was ever replaced by a default *)

vars == <<corrector, playback, playing, packets, jumped>>

Tracks == {"video", "audio"}

Unset == [original |-> -1, corrected |-> 0]

kMax(t) == IF t = "video" THEN kMaxVideoDeltaTime ELSE kMaxAudioDeltaTime

kDefault(t) ==
  IF t = "video" THEN kDefaultVideoDeltaTime ELSE kDefaultAudioDeltaTime

Started(c, t) == c[t].original # -1

(* Conversions: what a uint32_t return keeps, what an int32_t variable keeps. *)
Uint32Halved(x) == x % (Modulus \div 2)

Uint32(x) == x % Modulus

Int32(x) ==
  LET r == x % Modulus IN IF 2 * r < Modulus THEN r ELSE r - Modulus

Fine(t, delta) == -kMax(t) < delta /\ delta < kMax(t)

(* A track continues its clock by the difference of the input timestamps, or *)
(* by the default if they are too far apart.                                 *)
Continue(t, last, time) ==
  LET delta == time - last.original
      next  == last.corrected + IF Fine(t, delta) THEN delta ELSE kDefault(t)
  IN  [original |-> time, corrected |-> IF next < 0 THEN 0 ELSE next]

(* The first video packet takes over the audio clock if the two are far apart. *)
FirstVideoAlone(c, time) == [original |-> time, corrected |-> time]

FirstVideo(c, time) ==
  IF Started(c, "audio") /\ ~Fine("video", Int32(c["audio"].original - time))
  THEN c["audio"]
  ELSE [original |-> time, corrected |-> time]

CorrectVideoTimeStampByVideo(c, time) ==
  Continue("video",
           IF Started(c, "video") THEN c["video"] ELSE FirstVideo(c, time),
           time)

CorrectAudioTimeStampByAudio(c, time) ==
  IF Started(c, "audio") THEN Continue("audio", c["audio"], time)
  ELSE [original |-> time, corrected |-> time]

CorrectTimestamp(c, t, time) ==
  [c EXCEPT ![t] = IF t = "video" THEN CorrectVideoTimeStampByVideo(c, time)
                   ELSE CorrectAudioTimeStampByAudio(c, time)]

-----------------------------------------------------------------------------
Init ==
  /\ corrector = [t \in Tracks |-> Unset]
  /\ playback = [t \in Tracks |-> Unset]
  /\ playing = FALSE
  /\ packets = 0
  /\ jumped = {}

(* A media packet goes through AddPacket and, if the player is in, PushFrame. *)
Relay(t, time) ==
  /\ packets < MaxPackets
  /\ packets' = packets + 1
  /\ corrector' = CorrectTimestamp(corrector, t, time)
  /\ playback' = IF playing
                 THEN CorrectTimestamp(playback, t,
                                       Uint32(corrector'[t].corrected))
                 ELSE playback
  /\ jumped' = IF \/ /\ Started(corrector, t)
                     /\ ~Fine(t, time - corrector[t].original)
                  \/ /\ t = "video" /\ ~Started(corrector, "video")
                     /\ FirstVideo(corrector, time).original # time
               THEN jumped \cup {t} ELSE jumped
  /\ UNCHANGED playing

Enter ==
  /\ ~playing
  /\ playing' = TRUE
  /\ UNCHANGED <<corrector, playback, packets, jumped>>

Next ==
  \/ \E t \in Tracks, time \in Times : Relay(t, time)
  \/ Enter

Spec == Init /\ [][Next]_vars

-----------------------------------------------------------------------------
(* Properties.                                                              *)

Correctors == [Tracks -> [original : Nat \cup {-1}, corrected : Nat]]

(* No corrector ever holds a negative corrected timestamp.                   *)
TimeTypeOK ==
  /\ corrector \in Correctors
  /\ playback \in Correctors
  /\ playing \in BOOLEAN
  /\ packets \in Nat
  /\ jumped \subseteq Tracks

(* A publisher whose timestamps never jump is relayed unchanged, whatever    *)
(* order its tracks start in.                                                *)
SmoothUnchanged ==
  \A t \in Tracks \ jumped :
    Started(corrector, t) => corrector[t].corrected = corrector[t].original

(* Once a track has started its clock moves by less than kMax per packet,    *)
(* whatever the publisher sends; only the clamp at 0 stops it earlier.        *)
ClockSteps ==
  [][\A t \in Tracks :
       Started(corrector, t) =>
         Fine(t, corrector'[t].corrected - corrector[t].corrected)]_vars

(* The first video packet joins an audio clock that runs as sent: modulo the *)
(* width of a timestamp the two are then less than kMaxVideoDeltaTime apart. *)
Near(a, b) == Fine("video", Int32(a - b))

FirstVideoJoinsAudio ==
  [][~Started(corrector, "video") /\ Started(corrector', "video")
       /\ Started(corrector, "audio") /\ "audio" \notin jumped
     => Near(corrector'["video"].corrected, corrector["audio"].corrected)]_vars

(* The second correction repeats the first: a player that gets every packet  *)
(* sees each started track advance exactly as the stream's clock does, unless *)
(* the timestamp wraps or the player's own clock stops at 0.                  *)
PlaybackFollows ==
  [][\A t \in Tracks :
       /\ Started(playback, t)
       /\ corrector[t].corrected \div Modulus
            = corrector'[t].corrected \div Modulus
       => \/ playback'[t].corrected - playback[t].corrected
               = corrector'[t].corrected - corrector[t].corrected
          \/ playback'[t].corrected = 0]_vars

(* What PlaybackFollows rests on: the player's corrector has read what the   *)
(* stream's corrector returned last.                                         *)
PlaybackReads ==
  \A t \in Tracks :
    Started(playback, t) =>
      /\ playing /\ Started(corrector, t)
      /\ playback[t].original = Uint32(corrector[t].corrected)

TimeInv == TimeTypeOK /\ SmoothUnchanged /\ PlaybackReads
=============================================================================

------------------------ MODULE TimeCorrectorProofs ------------------------
(***************************************************************************)
(* Proofs about TimeCorrector for every choice of the delta limits, every   *)
(* integer width and every sequence of timestamps.                          *)
(***************************************************************************)
EXTENDS TimeCorrector, TLAPS

(* Conversion to uint32_t yields a natural number below the modulus.         *)
LEMMA Uint32Type ==
  ASSUME NEW x \in Nat
  PROVE  /\ Uint32(x) \in 0 .. Modulus - 1
         /\ x = Modulus * (x \div Modulus) + Uint32(x)
  BY TimeCorrectorAssumption DEF Uint32

(* Two numbers with the same quotient differ by what their remainders do.    *)
LEMMA SameQuotient ==
  ASSUME NEW x \in Nat, NEW y \in Nat, x \div Modulus = y \div Modulus
  PROVE  y - x = Uint32(y) - Uint32(x)
<1>1. /\ x = Modulus * (x \div Modulus) + Uint32(x)
      /\ y = Modulus * (y \div Modulus) + Uint32(y)
      /\ Uint32(x) \in Nat /\ Uint32(y) \in Nat
  BY Uint32Type
<1>2. y = Modulus * (x \div Modulus) + Uint32(y)
  BY <1>1
<1> DEFINE m == Modulus * (x \div Modulus)
<1>3. m \in Int
  BY <1>1, TimeCorrectorAssumption
<1> HIDE DEF m
<1>4. x = m + Uint32(x) /\ y = m + Uint32(y)
  BY <1>1, <1>2 DEF m
<1>5. QED
  BY <1>1, <1>3, <1>4

(* One track after one packet: its type, and the bound on its step.          *)
Entries == [original : Nat \cup {-1}, corrected : Nat]

LEMMA ContinueSteps ==
  ASSUME NEW t \in Tracks, NEW last \in Entries, NEW time \in Nat
  PROVE  /\ Continue(t, last, time) \in Entries
         /\ Continue(t, last, time).original = time
         /\ Fine(t, Continue(t, last, time).corrected - last.corrected)
         /\ Fine(t, time - last.original) =>
              \/ Continue(t, last, time).corrected - last.corrected
                   = time - last.original
              \/ Continue(t, last, time).corrected = 0
<1>1. /\ kMax(t) \in Nat /\ kDefault(t) \in Nat /\ kDefault(t) < kMax(t)
      /\ last.original \in Int /\ last.corrected \in Nat
  BY TimeCorrectorAssumption DEF kMax, kDefault, Entries
<1> DEFINE delta == time - last.original
           step  == IF Fine(t, delta) THEN delta ELSE kDefault(t)
           next  == last.corrected + step
           value == IF next < 0 THEN 0 ELSE next
<1>2. step \in Int /\ Fine(t, step)
  BY <1>1 DEF Fine
<1> HIDE DEF step
<1>3. value \in Nat /\ Fine(t, value - last.corrected)
  BY <1>1, <1>2 DEF Fine
<1>4. Fine(t, delta) => value - last.corrected = delta \/ value = 0
  BY <1>1, <1>2 DEF step
<1>5. Continue(t, last, time) = [original |-> time, corrected |-> value]
  BY DEF Continue, step
<1> HIDE DEF value
<1>6. QED
  BY <1>3, <1>4, <1>5 DEF Entries

(* The corrector after a packet: other tracks are untouched, a started track *)
(* continues, one that was not is started.                                   *)
LEMMA CorrectSteps ==
  ASSUME NEW c \in Correctors, NEW t \in Tracks, NEW time \in Nat
  PROVE  LET d == CorrectTimestamp(c, t, time)
         IN  /\ d \in Correctors
             /\ \A s \in Tracks \ {t} : d[s] = c[s]
             /\ d[t].original = time
             /\ Started(c, t) => d[t] = Continue(t, c[t], time)
<1> DEFINE entry == IF t = "video" THEN CorrectVideoTimeStampByVideo(c, time)
                    ELSE CorrectAudioTimeStampByAudio(c, time)
<1>1. \A s \in Tracks : c[s] \in Entries
  BY DEF Correctors, Entries
<1>2. FirstVideo(c, time) \in Entries
  <2>1. c["audio"] \in Entries
    BY <1>1 DEF Tracks
  <2>2. [original |-> time, corrected |-> time] \in Entries
    BY DEF Entries
  <2>3. QED
    BY <2>1, <2>2 DEF FirstVideo
<1>3. /\ entry \in Entries /\ entry.original = time
      /\ Started(c, t) => entry = Continue(t, c[t], time)
  <2>1. CASE t = "video"
    <3> DEFINE base == IF Started(c, "video") THEN c["video"]
                       ELSE FirstVideo(c, time)
    <3>1. base \in Entries
      BY <1>1, <1>2 DEF Tracks
    <3>2. entry = Continue("video", base, time)
      BY <2>1 DEF CorrectVideoTimeStampByVideo
    <3>3. Started(c, t) => base = c[t]
      BY <2>1
    <3> HIDE DEF base, entry
    <3>4. "video" \in Tracks
      BY DEF Tracks
    <3>5. QED
      BY <2>1, <3>1, <3>2, <3>3, <3>4, ContinueSteps
  <2>2. CASE t # "video"
    <3>1. t = "audio" /\ t \in Tracks
      BY <2>2 DEF Tracks
    <3>2. CASE Started(c, "audio")
      <4>1. entry = Continue(t, c[t], time)
        BY <3>1, <3>2 DEF CorrectAudioTimeStampByAudio
      <4>2. QED
        BY <1>1, <3>1, <4>1, ContinueSteps
    <3>3. CASE ~Started(c, "audio")
      <4>1. entry = [original |-> time, corrected |-> time]
        BY <3>1, <3>3 DEF CorrectAudioTimeStampByAudio
      <4>2. QED
        BY <3>1, <3>3, <4>1 DEF Entries
    <3>4. QED
      BY <3>2, <3>3
  <2>3. QED
    BY <2>1, <2>2
<1>4. CorrectTimestamp(c, t, time) = [c EXCEPT ![t] = entry]
  BY DEF CorrectTimestamp
<1> HIDE DEF entry
<1>5. QED
  BY <1>3, <1>4 DEF Correctors, Entries

-----------------------------------------------------------------------------
(* A track that has never jumped returns what it reads.                      *)
LEMMA SmoothStep ==
  ASSUME TimeInv, NEW t \in Tracks, NEW time \in Times, Relay(t, time),
         t \notin jumped'
  PROVE  corrector'[t].corrected = time
<1>1. /\ time \in Nat /\ corrector \in Correctors
      /\ corrector' = CorrectTimestamp(corrector, t, time)
  BY TimeCorrectorAssumption DEF TimeInv, TimeTypeOK, Relay
<1>2. t \notin jumped
  BY DEF Relay
<1>3. CASE Started(corrector, t)
  <2>1. /\ corrector[t] \in Entries
        /\ corrector[t].corrected = corrector[t].original
        /\ Fine(t, time - corrector[t].original)
    BY <1>1, <1>2, <1>3 DEF Relay, TimeInv, SmoothUnchanged, Correctors, Entries
  <2>2. corrector'[t] = Continue(t, corrector[t], time)
    BY <1>1, <1>3, CorrectSteps
  <2>3. QED
    BY <1>1, <2>1, <2>2 DEF Continue, Entries
<1>4. CASE ~Started(corrector, t) /\ t = "audio"
  <2>1. CorrectAudioTimeStampByAudio(corrector, time)
          = [original |-> time, corrected |-> time]
    BY <1>4 DEF CorrectAudioTimeStampByAudio
  <2>2. QED
    BY <1>1, <1>4, <2>1 DEF CorrectTimestamp, Correctors
<1>5. CASE ~Started(corrector, t) /\ t = "video"
  <2>1. FirstVideo(corrector, time).original = time
    BY <1>5 DEF Relay
  <2>2. Fine("video", Int32(0))
    <3>1. 0 % Modulus = 0
      BY TimeCorrectorAssumption
    <3>2. kMax("video") \in Nat \ {0}
      BY TimeCorrectorAssumption DEF kMax
    <3>3. Int32(0) = 0
      BY <3>1, TimeCorrectorAssumption DEF Int32
    <3>4. QED
      BY <3>2, <3>3 DEF Fine
  <2>3. FirstVideo(corrector, time) = [original |-> time, corrected |-> time]
    <3>1. ASSUME FirstVideo(corrector, time) = corrector["audio"],
                 ~Fine("video", Int32(corrector["audio"].original - time))
          PROVE  FALSE
      <4>1. corrector["audio"].original - time = 0
        BY <1>1, <2>1, <3>1
      <4>2. QED
        BY <2>2, <3>1, <4>1
    <3>2. QED
      BY <3>1 DEF FirstVideo
  <2>4. corrector'[t] = Continue("video", [original |-> time, corrected |-> time], time)
    BY <1>1, <1>5, <2>3 DEF CorrectTimestamp, CorrectVideoTimeStampByVideo,
                            Correctors
  <2>5. Fine("video", 0)
    BY TimeCorrectorAssumption DEF Fine, kMax
  <2>6. QED
    BY <1>1, <2>4, <2>5 DEF Continue
<1>6. QED
  BY <1>3, <1>4, <1>5 DEF Tracks

(* The inductive invariant.                                                  *)
LEMMA InitTimeInv == Init => TimeInv
<1> SUFFICES ASSUME Init PROVE TimeInv
  OBVIOUS
<1>1. \A t \in Tracks : corrector[t] = Unset /\ playback[t] = Unset
  BY DEF Init
<1>2. [t \in Tracks |-> Unset] \in Correctors
  BY DEF Correctors, Unset
<1>3. TimeTypeOK
  BY <1>2, Zenon DEF Init, TimeTypeOK
<1>4. SmoothUnchanged /\ PlaybackReads
  BY <1>1 DEF SmoothUnchanged, PlaybackReads, Started, Unset
<1>5. QED
  BY <1>3, <1>4 DEF TimeInv

LEMMA RelayTimeInv ==
  ASSUME TimeInv, NEW t \in Tracks, NEW time \in Times, Relay(t, time)
  PROVE  TimeInv'
<1> DEFINE sent == Uint32(corrector'[t].corrected)
<1>1. /\ time \in Nat /\ corrector \in Correctors /\ playback \in Correctors
      /\ corrector' = CorrectTimestamp(corrector, t, time)
      /\ playback' = IF playing THEN CorrectTimestamp(playback, t, sent)
                     ELSE playback
      /\ playing' = playing
  BY TimeCorrectorAssumption DEF TimeInv, TimeTypeOK, Relay
<1>2. /\ corrector' \in Correctors /\ corrector'[t].original = time
      /\ \A s \in Tracks \ {t} : corrector'[s] = corrector[s]
  BY <1>1, CorrectSteps
<1>3. sent \in Nat
  BY <1>2, Uint32Type DEF Correctors
<1>4. playing => /\ playback' \in Correctors /\ playback'[t].original = sent
                 /\ \A s \in Tracks \ {t} : playback'[s] = playback[s]
  BY <1>1, <1>3, CorrectSteps
<1>5. TimeTypeOK'
  <2>1. playback' \in Correctors
    BY <1>1, <1>4
  <2>2. packets' \in Nat /\ playing' \in BOOLEAN /\ jumped' \subseteq Tracks
    BY DEF Relay, TimeInv, TimeTypeOK
  <2>3. QED
    BY <1>2, <2>1, <2>2 DEF TimeTypeOK
<1>6. SmoothUnchanged'
  <2> SUFFICES ASSUME NEW s \in Tracks, s \notin jumped', Started(corrector', s)
               PROVE  corrector'[s].corrected = corrector'[s].original
    BY DEF SmoothUnchanged, Started
  <2>1. CASE s = t
    BY <1>2, <2>1, SmoothStep
  <2>2. CASE s # t
    <3>1. corrector'[s] = corrector[s] /\ s \notin jumped
      BY <1>2, <2>2 DEF Relay
    <3>2. QED
      BY <3>1 DEF TimeInv, SmoothUnchanged, Started
  <2>3. QED
    BY <2>1, <2>2
<1>7. PlaybackReads'
  <2> SUFFICES ASSUME NEW s \in Tracks, Started(playback', s)
               PROVE  /\ playing' /\ Started(corrector', s)
                      /\ playback'[s].original = Uint32(corrector'[s].corrected)
    BY DEF PlaybackReads, Started, Uint32
  <2>1. CASE ~playing
    BY <1>1, <2>1 DEF TimeInv, PlaybackReads, Started
  <2>2. CASE playing /\ s = t
    BY <1>1, <1>2, <1>4, <2>2 DEF Started
  <2>3. CASE playing /\ s # t
    BY <1>1, <1>2, <1>4, <2>3 DEF TimeInv, PlaybackReads, Started
  <2>4. QED
    BY <2>1, <2>2, <2>3
<1>8. QED
  BY <1>5, <1>6, <1>7 DEF TimeInv

LEMMA StepTimeInv == TimeInv /\ [Next]_vars => TimeInv'
<1> SUFFICES ASSUME TimeInv, [Next]_vars PROVE TimeInv'
  OBVIOUS
<1>1. CASE \E t \in Tracks, time \in Times : Relay(t, time)
  BY <1>1, RelayTimeInv
<1>2. CASE Enter
  BY <1>2 DEF Enter, TimeInv, TimeTypeOK, SmoothUnchanged, PlaybackReads, Started,
              Uint32
<1>3. CASE UNCHANGED vars
  BY <1>3 DEF vars, TimeInv, TimeTypeOK, SmoothUnchanged, PlaybackReads, Started,
              Uint32
<1>4. QED
  BY <1>1, <1>2, <1>3 DEF Next

-----------------------------------------------------------------------------
(* The theorems.                                                            *)

(* Types, unchanged smooth input and agreement of the two correctors hold in *)
(* every reachable state.                                                    *)
THEOREM TimeCorrectorInvariant == Spec => []TimeInv
  BY InitTimeInv, StepTimeInv, PTL DEF Spec

(* Smooth timestamps pass unchanged.                                         *)
THEOREM TimeCorrectorSmooth == Spec => []SmoothUnchanged
<1>1. TimeInv => SmoothUnchanged
  BY DEF TimeInv
<1>2. QED
  BY <1>1, TimeCorrectorInvariant, PTL

(* A started track never moves by kMax or more in one packet.                *)
THEOREM TimeCorrectorClockSteps == Spec => ClockSteps
<1>1. ASSUME TimeInv, [Next]_vars, NEW s \in Tracks, Started(corrector, s)
      PROVE  Fine(s, corrector'[s].corrected - corrector[s].corrected)
  <2>1. /\ corrector \in Correctors /\ corrector[s] \in Entries
        /\ corrector[s].corrected \in Nat /\ Fine(s, 0)
    BY <1>1, TimeCorrectorAssumption
       DEF TimeInv, TimeTypeOK, Correctors, Entries, Fine, kMax
  <2>2. CASE corrector'[s] = corrector[s]
    BY <2>1, <2>2
  <2>3. ASSUME NEW t \in Tracks, NEW time \in Times, Relay(t, time)
        PROVE  Fine(s, corrector'[s].corrected - corrector[s].corrected)
    <3>1. time \in Nat /\ corrector' = CorrectTimestamp(corrector, t, time)
      BY <2>3, TimeCorrectorAssumption DEF Relay
    <3>2. s # t => corrector'[s] = corrector[s]
      BY <2>1, <3>1, CorrectSteps
    <3>3. s = t => corrector'[s] = Continue(s, corrector[s], time)
      BY <1>1, <2>1, <3>1, CorrectSteps
    <3>4. QED
      BY <2>1, <2>2, <3>1, <3>2, <3>3, ContinueSteps
  <2>4. QED
    BY <1>1, <2>2, <2>3 DEF Next, Enter, vars
<1>2. TimeInv /\ [Next]_vars =>
        [\A t \in Tracks :
           Started(corrector, t) =>
             Fine(t, corrector'[t].corrected - corrector[t].corrected)]_vars
  BY <1>1
<1>3. QED
  BY <1>2, TimeCorrectorInvariant, PTL DEF Spec, ClockSteps

(* The second correction repeats the first.                                  *)
THEOREM TimeCorrectorPlaybackFollows == Spec => PlaybackFollows
<1>1. ASSUME TimeInv, [Next]_vars, NEW s \in Tracks, Started(playback, s),
             corrector[s].corrected \div Modulus
               = corrector'[s].corrected \div Modulus
      PROVE  \/ playback'[s].corrected - playback[s].corrected
                  = corrector'[s].corrected - corrector[s].corrected
             \/ playback'[s].corrected = 0
  <2>1. /\ playback \in Correctors /\ corrector \in Correctors
        /\ playing /\ Started(corrector, s)
        /\ playback[s].original = Uint32(corrector[s].corrected)
        /\ playback[s] \in Entries /\ corrector[s] \in Entries
    BY <1>1 DEF TimeInv, TimeTypeOK, PlaybackReads, Correctors, Entries
  <2>2. CASE corrector'[s] = corrector[s] /\ playback'[s] = playback[s]
    BY <2>1, <2>2 DEF Entries
  <2>3. ASSUME NEW t \in Tracks, NEW time \in Times, Relay(t, time), s = t
        PROVE  \/ playback'[s].corrected - playback[s].corrected
                    = corrector'[s].corrected - corrector[s].corrected
               \/ playback'[s].corrected = 0
    <3> DEFINE a == corrector[s].corrected
               b == corrector'[s].corrected
    <3>1. /\ time \in Nat /\ corrector' = CorrectTimestamp(corrector, s, time)
          /\ playback' = CorrectTimestamp(playback, s, Uint32(b))
      BY <2>1, <2>3, TimeCorrectorAssumption DEF Relay
    <3>2. corrector' \in Correctors /\ corrector'[s] = Continue(s, corrector[s], time)
      BY <2>1, <3>1, CorrectSteps
    <3>3. a \in Nat /\ b \in Nat /\ Fine(s, b - a)
      BY <2>1, <3>1, <3>2, ContinueSteps DEF Entries, Correctors
    <3>4. Uint32(b) \in Nat /\ Uint32(b) - Uint32(a) = b - a
      BY <1>1, <3>3, SameQuotient, Uint32Type
    <3>5. playback'[s] = Continue(s, playback[s], Uint32(b))
      BY <1>1, <2>1, <3>1, <3>4, CorrectSteps
    <3>6. Fine(s, Uint32(b) - playback[s].original)
      BY <2>1, <3>3, <3>4
    <3> HIDE DEF a, b
    <3>7. \/ playback'[s].corrected - playback[s].corrected
                = Uint32(b) - playback[s].original
          \/ playback'[s].corrected = 0
      <4> DEFINE n == Continue(s, playback[s], Uint32(b))
      <4>1. Fine(s, Uint32(b) - playback[s].original) =>
              \/ n.corrected - playback[s].corrected
                   = Uint32(b) - playback[s].original
              \/ n.corrected = 0
        BY <2>1, <3>4, ContinueSteps
      <4> HIDE DEF n
      <4>2. playback'[s] = n
        BY <3>5 DEF n
      <4>3. QED
        BY <3>6, <4>1, <4>2
    <3>8. QED
      BY <2>1, <3>4, <3>7 DEF a, b
  <2>4. ASSUME NEW t \in Tracks, NEW time \in Times, Relay(t, time), s # t
        PROVE  corrector'[s] = corrector[s] /\ playback'[s] = playback[s]
    <3>1. time \in Nat /\ corrector' = CorrectTimestamp(corrector, t, time)
          /\ playback' = CorrectTimestamp(playback, t, Uint32(corrector'[t].corrected))
      BY <2>1, <2>4, TimeCorrectorAssumption DEF Relay
    <3>2. corrector' \in Correctors /\ corrector'[s] = corrector[s]
      BY <2>1, <2>4, <3>1, CorrectSteps
    <3>3. Uint32(corrector'[t].corrected) \in Nat
      BY <3>2, Uint32Type DEF Correctors
    <3> DEFINE v == Uint32(corrector'[t].corrected)
    <3>4. v \in Nat /\ playback' = CorrectTimestamp(playback, t, v)
      BY <3>1, <3>3
    <3> HIDE DEF v
    <3>5. playback'[s] = playback[s]
      BY <2>1, <2>4, <3>4, CorrectSteps
    <3>6. QED
      BY <3>2, <3>5
  <2>5. QED
    BY <1>1, <2>2, <2>3, <2>4 DEF Next, Enter, vars
<1>2. TimeInv /\ [Next]_vars =>
        [\A t \in Tracks :
           /\ Started(playback, t)
           /\ corrector[t].corrected \div Modulus
                = corrector'[t].corrected \div Modulus
           => \/ playback'[t].corrected - playback[t].corrected
                   = corrector'[t].corrected - corrector[t].corrected
              \/ playback'[t].corrected = 0]_vars
  BY <1>1
<1>3. QED
  BY <1>2, TimeCorrectorInvariant, PTL DEF Spec, PlaybackFollows

(* Of the numbers equal to x modulo the width, Int32 returns the nearest to 0. *)
LEMMA Int32Nearest ==
  ASSUME NEW x \in Int, NEW y \in Int, NEW k \in Int, x = y + Modulus * k,
         NEW d \in Nat, -d < y, y < d
  PROVE  -d < Int32(x) /\ Int32(x) < d
<1> DEFINE r == x % Modulus
           z == (x \div Modulus) - k
           m == Modulus * z
<1>1. /\ r \in Int /\ 0 <= r /\ r < Modulus /\ x \div Modulus \in Int
      /\ x = Modulus * (x \div Modulus) + r
  BY TimeCorrectorAssumption
<1>2. z \in Int /\ m \in Int /\ y = m + r
  BY <1>1, TimeCorrectorAssumption
<1>3. z >= 0 => m >= 0
  BY <1>2, TimeCorrectorAssumption
<1>4. z <= -1 => m <= -Modulus
  BY <1>2, TimeCorrectorAssumption
<1>5. m >= 0 \/ m <= -Modulus
  BY <1>2, <1>3, <1>4
<1>6. Int32(x) = IF 2 * r < Modulus THEN r ELSE r - Modulus
  BY DEF Int32
<1> HIDE DEF r, z, m
<1>7. QED
  BY <1>1, <1>2, <1>5, <1>6, TimeCorrectorAssumption

(* Int32 returns a number equal to its argument modulo the width.            *)
LEMMA Int32Same ==
  ASSUME NEW x \in Int
  PROVE  \E k \in Int : Int32(x) \in Int /\ x = Int32(x) + Modulus * k
<1> DEFINE r == x % Modulus
           q == x \div Modulus
<1>1. r \in Int /\ q \in Int /\ x = Modulus * q + r
  BY TimeCorrectorAssumption
<1>2. Int32(x) = IF 2 * r < Modulus THEN r ELSE r - Modulus
  BY DEF Int32
<1> HIDE DEF r, q
<1>3. CASE 2 * r < Modulus
  <2>1. Int32(x) = r /\ x = r + Modulus * q
    BY <1>1, <1>2, <1>3, TimeCorrectorAssumption
  <2>2. QED
    BY <1>1, <2>1
<1>4. CASE ~(2 * r < Modulus)
  <2>1. x = (r - Modulus) + Modulus * (q + 1)
    BY <1>1, TimeCorrectorAssumption
  <2>2. q + 1 \in Int /\ r - Modulus \in Int
    BY <1>1, TimeCorrectorAssumption
  <2>3. QED
    BY <1>2, <1>4, <2>1, <2>2
<1>5. QED
  BY <1>3, <1>4

(* Near is symmetric, and close numbers are near.                            *)
LEMMA NearSymmetric ==
  ASSUME NEW a \in Int, NEW b \in Int, Near(a, b)
  PROVE  Near(b, a)
<1>1. PICK k \in Int : Int32(a - b) \in Int /\ a - b = Int32(a - b) + Modulus * k
  BY Int32Same
<1> DEFINE i == Int32(a - b)
<1>2. kMax("video") \in Nat /\ -kMax("video") < i /\ i < kMax("video")
  BY TimeCorrectorAssumption DEF Near, Fine, kMax
<1>3. b - a = -i + Modulus * (-k) /\ -i \in Int /\ -k \in Int /\ b - a \in Int
  <2>1. i \in Int /\ a - b = i + Modulus * k
    BY <1>1
  <2> HIDE DEF i
  <2>2. QED
    BY <2>1, TimeCorrectorAssumption
<1>4. -kMax("video") < -i /\ -i < kMax("video")
  <2>1. i \in Int
    BY <1>1
  <2> HIDE DEF i
  <2>2. QED
    BY <1>2, <2>1
<1> HIDE DEF i
<1>5. QED
  BY <1>2, <1>3, <1>4, Int32Nearest DEF Near, Fine

LEMMA FineNear ==
  ASSUME NEW a \in Int, NEW b \in Int, Fine("video", a - b)
  PROVE  Near(a, b)
<1>1. kMax("video") \in Nat /\ a - b \in Int /\ 0 \in Int
        /\ a - b = (a - b) + Modulus * 0
  BY TimeCorrectorAssumption DEF kMax
<1>2. QED
  BY <1>1, Int32Nearest DEF Near, Fine

(* The first video packet joins the audio clock it finds.                    *)
LEMMA FirstVideoNear ==
  ASSUME NEW c \in Correctors, NEW time \in Nat,
         ~Started(c, "video"), Started(c, "audio"),
         c["audio"].corrected = c["audio"].original
  PROVE  Near(CorrectTimestamp(c, "video", time)["video"].corrected,
              c["audio"].corrected)
<1> DEFINE a == c["audio"].corrected
           base == FirstVideo(c, time)
           d == CorrectTimestamp(c, "video", time)
<1>1. "video" \in Tracks /\ "audio" \in Tracks /\ a \in Nat
        /\ c["audio"] \in Entries /\ c["audio"].original = a
  BY DEF Tracks, Correctors, Entries
<1>2. d["video"] = Continue("video", base, time)
  BY <1>1 DEF CorrectTimestamp, CorrectVideoTimeStampByVideo, Correctors
<1>3. CASE Near(a, time)
  <2>1. base = [original |-> time, corrected |-> time]
    BY <1>1, <1>3 DEF FirstVideo, Near
  <2>2. Fine("video", 0)
    BY TimeCorrectorAssumption DEF Fine, kMax
  <2>3. d["video"].corrected = time
    BY <1>2, <2>1, <2>2 DEF Continue
  <2>4. QED
    BY <1>1, <1>3, <2>3, NearSymmetric
<1>4. CASE ~Near(a, time)
  <2>1. base = c["audio"]
    BY <1>1, <1>4 DEF FirstVideo, Near
  <2>2. ~Fine("video", time - a)
    BY <1>1, <1>4, FineNear, NearSymmetric
  <2>3. kDefault("video") \in Nat /\ Fine("video", kDefault("video"))
    BY TimeCorrectorAssumption DEF kDefault, kMax, Fine
  <2>4. d["video"].corrected = a + kDefault("video")
    BY <1>1, <1>2, <2>1, <2>2, <2>3 DEF Continue
  <2>5. (a + kDefault("video")) - a = kDefault("video")
          /\ a + kDefault("video") \in Int
    BY <1>1, <2>3
  <2>6. QED
    BY <1>1, <2>3, <2>4, <2>5, FineNear
<1>5. QED
  BY <1>3, <1>4

(* The first video packet joins an audio clock that runs as sent, however    *)
(* far apart the publisher's timestamps are, for every integer width         *)
(* (TimeCorrector.cpp:79-98).                                                *)
THEOREM TimeCorrectorFirstVideo == Spec => FirstVideoJoinsAudio
<1>1. ASSUME TimeInv, [Next]_vars, ~Started(corrector, "video"),
             Started(corrector', "video"), Started(corrector, "audio"),
             "audio" \notin jumped
      PROVE  Near(corrector'["video"].corrected, corrector["audio"].corrected)
  <2>1. /\ corrector \in Correctors /\ "audio" \in Tracks /\ "video" \in Tracks
        /\ corrector["audio"].corrected = corrector["audio"].original
    BY <1>1 DEF TimeInv, TimeTypeOK, SmoothUnchanged, Tracks
  <2>2. corrector'["video"] # corrector["video"]
    BY <1>1 DEF Started
  <2>3. PICK t \in Tracks, time \in Times : Relay(t, time)
    BY <1>1, <2>2 DEF Next, Enter, vars
  <2>4. time \in Nat /\ corrector' = CorrectTimestamp(corrector, t, time)
    BY <2>3, TimeCorrectorAssumption DEF Relay
  <2>5. t = "video"
    BY <2>1, <2>2, <2>4, CorrectSteps
  <2>6. QED
    BY <1>1, <2>1, <2>4, <2>5, FirstVideoNear
<1>2. TimeInv /\ [Next]_vars =>
        [~Started(corrector, "video") /\ Started(corrector', "video")
           /\ Started(corrector, "audio") /\ "audio" \notin jumped
         => Near(corrector'["video"].corrected, corrector["audio"].corrected)]_vars
  BY <1>1
<1>3. QED
  BY <1>2, TimeCorrectorInvariant, PTL DEF Spec, FirstVideoJoinsAudio
=============================================================================

SPECIFICATION PlayerSpec
CONSTANTS
  Publishers = {"p1"}
  FastFrames = 2
  Stride = 2
  BatchSize = 2
  Headers = 2
  ReadyAt = 3
  MaxFrames = 8
  kMaxVideoDeltaTime = 3
  kMaxAudioDeltaTime = 3
  kDefaultVideoDeltaTime = 2
  kDefaultAudioDeltaTime = 1
  Modulus = 16
  Times = {0, 1, 2, 4, 9, 14}
  MaxPackets = 5
CHECK_DEADLOCK FALSE
INVARIANTS ActiveIsDriven SleepsCaughtUpUnlessMissed
PROPERTIES ActivationDelivers FirstVideoJoinsAudio PlaybackFollows

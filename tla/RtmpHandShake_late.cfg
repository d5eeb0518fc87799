SPECIFICATION FairSpec
CONSTANTS
  kRtmpHandShakePacketSize = 3
  Connect = 2
  Sums = {727}
CHECK_DEADLOCK FALSE
PROPERTY
  LateS2Harmless

SPECIFICATION FairSpec
CONSTANTS
  HandshakeTime = 3
  IdleTimes = {0, 3}
  Delay = 1
  Buffer = 2
PROPERTIES
  NotCutEarly
  SilentIsCut
  HandshakeEnds

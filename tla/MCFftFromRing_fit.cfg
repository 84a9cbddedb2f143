SPECIFICATION FairSpec
CONSTANTS
  RingLength = 5
  BatchSizes = {1, 3}
  MaxPos = 9
  Readers = {Detection}
  Detection = Detection
  Producer = Producer
  Nobody = Nobody
  FftSize = 2
  WordSize = 64
  StackWords <- Leftovers
  NoTime = NoTime
  Garbage = Garbage
INVARIANT SinglePacketFftIntact
INVARIANT FftTimeIsRight
PROPERTY FftsNeverOverlap
PROPERTY GrantedFftCompletes
CHECK_DEADLOCK FALSE

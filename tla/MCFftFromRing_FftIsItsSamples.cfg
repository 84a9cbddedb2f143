SPECIFICATION Spec
CONSTANTS
  RingLength = 5
  BatchSizes = {1, 3}
  MaxPos = 11
  Readers = {Detection}
  Detection = Detection
  Producer = Producer
  Nobody = Nobody
  FftSize = 2
  WordSize = 64
  StackWords <- Leftovers
  NoTime = NoTime
  Garbage = Garbage
CHECK_DEADLOCK FALSE
INVARIANT FftIsItsSamples

SPECIFICATION Spec
CONSTANTS
  RingLength = 2
  BatchSizes = {1, 2, 3}
  MaxPos = 5
  Readers = {r1, r2}
  Producer = Producer
  Nobody = Nobody
  ReadSizes = {2}
  WordSize = 64
  NoTime = NoTime
  Garbage = Garbage
INVARIANT MarkersFollowSamples
INVARIANT FoundTimeIsRight
SYMMETRY ReaderSymmetry

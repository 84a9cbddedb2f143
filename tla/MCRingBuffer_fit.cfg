SPECIFICATION Spec
CONSTANTS
  RingLength = 3
  BatchSizes = {1, 2, 3}
  MaxPos = 7
  Readers = {r1}
  Producer = Producer
  Nobody = Nobody
  ReadSizes = {1, 3}
  WordSize = 64
  NoTime = NoTime
  Garbage = Garbage
INVARIANT TypeOK
INVARIANT CursorsOrdered
INVARIANT KeptSamplesIntact
INVARIANT StagedDataIsPrivate
INVARIANT ValidatedReadIntact
PROPERTY CursorsOnlyAdvance
PROPERTY ImplementsStream

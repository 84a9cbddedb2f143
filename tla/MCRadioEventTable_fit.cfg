SPECIFICATION FairSpec
CONSTANTS
  Bands <- SomeBands
  MaxTime = 2
  EndDelay = 0
  MinLength = 1
  UpdatePeriod = 1
  RingSize = 1
  NoCom = NoCom
  MaxComs = 3
  WordSize = 64
INVARIANT TypeOK
INVARIANT OneEntryPerCom
PROPERTY FinishedComsAreFrozen
PROPERTY RecentComsStay
PROPERTY NewComsAreNew
PROPERTY ReportedOnce
PROPERTY FinishedComsAreReported
PROPERTY EndedComsLeave

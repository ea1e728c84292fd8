SPECIFICATION FairSpec
CONSTANTS
  CountMax = 8
  Copies = 2
INVARIANTS
  TypeOK
  PairedOnOwnAddress
  AttemptStartsAfresh
  RadioExclusive
PROPERTIES
  DoneIsFinal
  AttemptEnds
  AttemptSucceeds

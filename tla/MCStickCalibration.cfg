SPECIFICATION FairSpec
CONSTANTS
  Low = 200
  High = 800
  Half = 500
  Band = 30
  Top = 999
  Postures <- MCPostures
  Erased = Erased
INVARIANTS
  TypeOK
  CalibratedSticks
  OnlyFirstLimitScaled
PROPERTIES
  StartsAfresh
  RestartRestores
  CalibrationEnds

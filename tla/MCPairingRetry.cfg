SPECIFICATION FairSpec
CONSTANTS
  CountMax = 3
  Copies = 2
PROPERTIES
  FailCanBeRetried

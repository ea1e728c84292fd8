SPECIFICATION PartsSpec
CONSTANTS
  Size = 4
  Item = {0, 1, 2}
  MaxBulk = 4
  Contacts <- MCContacts
  FastPeriod = 2
  SlowPeriod = 5
  Window = 4
  Functions <- AllFunctions
  Messages <- MCMessages
  W = 4
  Sof = 2
  Eof = 3
  BufSize = 3
  OutSize = 2
  Crc <- MCCrc
INVARIANTS
  TypeOK
  PagesReachable
  ArrowOpens
  BlinkInStep
  ParserTypeOK
  AcceptsExactly
PROPERTIES
  ImplementsFifo
  OneKeyPerPress
  TwoPressesSwitchOff
  ImplementsDivision

SPECIFICATION ParserSpec
CONSTANTS
  W = 4
  Sof = 2
  Eof = 3
  BufSize = 3
  OutSize = 2
  Crc <- MCCrc
INVARIANTS
  OnlyFramesAccepted

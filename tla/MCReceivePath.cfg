SPECIFICATION FairSpec
CONSTANTS
  W = 4
  Sof = 2
  Eof = 3
  BufSize = 3
  OutSize = 3
  Crc <- MCCrc
  Payloads <- MCPayloads
  Commands <- MCCommands
  Burst = 4
  PacketMax = 8
  CallMax = 8
  QCap = 10
INVARIANTS
  TypeOK
  StreamIntact
PROPERTIES
  ImplementsChannel
  FramesArrive

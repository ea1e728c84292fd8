SPECIFICATION FairSpec
CONSTANTS
  master = master
  display = display
  second = second
  Master = master
  NoThread = NoThread
  Thread <- MCThread
  Producer <- MCProducer
  Optional <- MCOptional
  init_priority <- MCPriority
  FrameLen <- MCFrameLen
  MaxLag <- MCLag
  StallLag <- MCLag
  HoldMax = 2
  QCap = 8
  ChunkMax = 8
  LostMax = 2
INVARIANTS
  TypeOK
  NoLeak
  PacketsOfWholeFrames
  SignalExact
PROPERTIES
  KeepsTransmitting
  QueueIsEmptied

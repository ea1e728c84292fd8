SPECIFICATION FairSpec
CONSTANTS
  master = master
  display = display
  second = second
  Master = master
  NoThread = NoThread
  Thread <- MCThread
  Producer <- MCProducer
  Optional <- MCOptional
  init_priority <- MCPriority
  FrameLen <- MCFrameLen
  MaxLag <- MCLag
  StallLag <- MCLagStall
  HoldMax = 2
  QCap = 7
  ChunkMax = 4
  LostMax = 1
PROPERTIES
  KeepsTransmitting

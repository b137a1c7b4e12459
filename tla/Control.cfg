CONSTANTS
  ByteSize = 4
  DRAMBase = 16
  DRAMSize = 32
  RegNum = 4
  UImmUnit = 16
  MMIO = 255
  Decode <- ControlDecode
  Alu <- MCAlu
  SimAlu <- MCSimAlu
  HasBP = TRUE
  EndAddress <- NoAddress
  InitMems <- ControlPrograms
  InitGPRs <- MCInitGPRs
  Garbage = {0, 77}
  nullptr = nullptr
SPECIFICATION FairSpec
PROPERTY ImplementsGolden
PROPERTY KeepsExecuting
INVARIANT FetchFollowsPrediction
INVARIANT Comparable

CONSTANTS
  ByteSize = 4
  DRAMBase = 16
  DRAMSize = 32
  RegNum = 4
  UImmUnit = 16
  MMIO = 236
  Decode <- DataDecode
  Alu <- MCAlu
  SimAlu <- MCSimAlu
  HasBP = FALSE
  EndAddress <- NoAddress
  InitMems <- DataPrograms
  InitGPRs <- MCInitGPRs
  Garbage = {77}
  nullptr = nullptr
SPECIFICATION Spec
PROPERTY ImplementsGolden
INVARIANT OperandsArchitectural
INVARIANT StallOnlyForLoadUse
INVARIANT FetchFollowsPrediction
INVARIANT Comparable

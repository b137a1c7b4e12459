CONSTANTS
  ByteSize = 4
  DRAMBase = 16
  DRAMSize = 8
  RegNum = 4
  UImmUnit = 16
  MMIO = 255
  Decode <- ClaimDecode
  Alu <- MCAlu
  SimAlu <- MCSimAlu
  HasBP = FALSE
  EndAddress <- NoAddress
  InitMems <- FullPrograms
  InitGPRs <- MCInitGPRs
  Garbage = {77}
  nullptr = nullptr
SPECIFICATION FairSpec
INVARIANT AccessesChecked

CONSTANTS
  ByteSize = 4
  DRAMBase = 16
  DRAMSize = 32
  RegNum = 4
  UImmUnit = 16
  MMIO = 255
  Decode <- ClaimDecode
  Alu <- MCAlu
  SimAlu <- MCSimAlu
  HasBP = FALSE
  EndAddress <- NoAddress
  InitMems <- ZeroPrograms
  InitGPRs <- MCInitGPRs
  Garbage = {77}
  nullptr = nullptr
SPECIFICATION FairSpec
INVARIANT ZeroRegister

CONSTANTS
  ByteSize = 4
  DRAMBase = 16
  DRAMSize = 48
  RegNum = 4
  UImmUnit = 16
  MMIO = 255
  Decode <- ModeDecode
  Alu <- MCAlu
  HasBP = TRUE
  EndAddress <- EndAt52
  InitMems <- ModePrograms
  InitGPRs <- MCInitGPRs
  Garbage = {77}
  nullptr = nullptr
  MaxCycles = 24
SPECIFICATION CountedSpec
INVARIANT TypeOK
INVARIANT FetchFollowsPrediction
INVARIANT StalledNeverFlushed
INVARIANT EndNeverFetched
INVARIANT StatisticsAgree
INVARIANT AccuracyOfExecuted

CONSTANTS
  ByteSize = 4
  DRAMBase = 16
  DRAMSize = 32
  RegNum = 4
  UImmUnit = 16
  MMIO = 255
  Decode <- LoopDecode
  Alu <- MCAlu
  HasBP = TRUE
  EndAddress <- NoAddress
  InitMems <- LoopPrograms
  InitGPRs <- MCInitGPRs
  Garbage = {77}
  nullptr = nullptr
  Kinds = {"onebit", "twobit", "gshare", "perceptron"}
  IndexWidth = 1
  HistoryBitwidth = 2
  Xor <- MCXor
SPECIFICATION PredSpec
PROPERTY LessonsMatchPredictions
INVARIANT PredictionStands

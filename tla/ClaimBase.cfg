CONSTANTS
  Assembled <- MCAssembled
  Prebuilt <- MCPrebuilt
  DefaultDRAM = 16
  XLEN = 4
SPECIFICATION UnitsSpec
INVARIANT BaseRegisterKept

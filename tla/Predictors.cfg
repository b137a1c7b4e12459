CONSTANTS
  Kinds = {"onebit", "twobit", "gshare", "perceptron"}
  IndexWidth = 1
  HistoryBitwidth = 2
  BranchPCs = {16, 24}
  Xor <- MCXor
SPECIFICATION Spec
INVARIANT TypeOK
PROPERTY LearningHelps
PROPERTY Converges

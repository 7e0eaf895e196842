CONSTANTS
  WordBits = 6
  ByteBits = 3
  STEP_SELECT_TABLE = 2
  Numbers <- MCNumbers
  Ascents <- MCAscents
SPECIFICATION Spec
INVARIANTS SequenceIsKept RankCounts

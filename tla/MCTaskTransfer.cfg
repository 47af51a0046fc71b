SPECIFICATION FairSpec
CONSTANTS
  Cases <- AllCases
INVARIANT TransferInv
PROPERTIES
  Answered
CHECK_DEADLOCK FALSE

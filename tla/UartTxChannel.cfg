SPECIFICATION FairSpec
CONSTANTS
  Size = 8
  MaxBytes = 26
  Val <- MCVal
  Zero = 0
  WriteSizes = {1, 4, 7}
  PacketSizes = {6}
  Overrun = FALSE
  PreemptPoints <- Harmless
INVARIANT Ledger
PROPERTY ImplementsChannel
CHECK_DEADLOCK FALSE

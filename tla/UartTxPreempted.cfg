SPECIFICATION Spec
CONSTANTS
  Size = 4
  MaxBytes = 12
  Val <- MCVal
  Zero = 0
  WriteSizes = {1, 2, 3}
  PacketSizes = {2}
  Overrun = FALSE
  PreemptPoints <- BeforeIndexStore
INVARIANT SentOnceInOrder
CHECK_DEADLOCK FALSE

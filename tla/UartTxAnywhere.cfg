SPECIFICATION Spec
CONSTANTS
  Size = 4
  MaxBytes = 12
  Val <- MCVal
  Zero = 0
  WriteSizes = {0, 1, 3, 5}
  PacketSizes = {2}
  Overrun = TRUE
  PreemptPoints <- Anywhere
VIEW ControlView
INVARIANTS TypeOK DmaInBounds BusyWhileActive
CHECK_DEADLOCK FALSE

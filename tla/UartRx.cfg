SPECIFICATION RxFairSpec
CONSTANTS
  Size = 4
  MaxArrivals = 14
  Val <- MCVal
  Zero = 0
  ReadSizes = {0, 1, 4}
  WordMod = 16
INVARIANT RxTypeOK
PROPERTIES EventCatchesUp ImplementsRxChannel

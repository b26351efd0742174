SPECIFICATION Spec
CONSTANTS
  W25Q_PAGE_SIZE = 2
  W25Q_BLOCK_SIZE = 4
  Block32K = 8
  Block64K = 8
  Capacity = 8
  Writes <- MCWrites
  Masks <- MCMasks
  Bus = "qspi"
  Faults = TRUE
INVARIANT ErrorsAreReported

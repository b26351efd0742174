SPECIFICATION Spec
CONSTANTS
  Size = 4
  zero = zero
  v1 = v1
  Val <- MCVal
  Zero <- zero
INVARIANTS TypeOK LoopInv
PROPERTIES LoopIsClosedForm PeekForetellsRead ImplementsQueue

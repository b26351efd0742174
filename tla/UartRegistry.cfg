SPECIFICATION Spec
CONSTANTS
  MAX_UART_COUNT = 3
  h1 = h1
  h2 = h2
  h3 = h3
  h4 = h4
  p1 = p1
  p2 = p2
  p3 = p3
  p4 = p4
  Handle <- MCHandle
  Port <- MCPort
  NULL = NULL
  NULL_UART_INST = 255
  MaxLeaks = 2
SYMMETRY MCSymmetry
INVARIANTS TypeOK RegistryInv LookupFinds SlotsAccounted

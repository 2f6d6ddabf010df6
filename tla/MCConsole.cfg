SPECIFICATION Spec
CONSTANTS
  h1 = h1
  h2 = h2
  p1 = p1
  p2 = p2
  None = None
  Harts <- MCHarts
  timer = h1
  Procs <- MCProcs
  Calls <- MCCalls
  INPUT_BUF_SIZE = 3
  UART_TX_BUF_SIZE = 1
  UINT = 6
  Starts = {4}
  Scripts <- MCScripts
  MaxWrites = 2
  ReadSizes = {2}
INVARIANTS  InputInv  NoLostWakeup

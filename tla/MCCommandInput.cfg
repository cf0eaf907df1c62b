CONSTANTS
  a = a
  b = b
  eol = eol
  del = del
  nul = nul
  Printable <- MCPrintable
  Bytes <- MCBytes
  EndOfLine = eol
  Erase = del
  Nul = nul
  Capacity = 4
  CommandBufferSize = 2
  MaxLine = 3
SPECIFICATION Spec
INVARIANTS
  TypeOK
  SlotBeingReadIsStable
  CommandIsTheEditedLine
PROPERTIES
  ImplementsLossyFifo
  AcceptedByteIsRead

CONSTANTS
  Callers = {c1, c2}
  Nobody = Nobody
  MaxCalls = 3
  Options <- MCOptions
  Saves <- MCSaves
  SaveOf <- MCSaveOf
  Tells <- MCTells
  Tried <- MCTried
  Bits <- MCBits
  Bytes <- MCBytes
  ByteOf <- MCByteOf
  Mask <- MCMask
  Locked <- MCLocked
  InTwo <- MCInTwo
  Code <- MCCode
  Reads <- MCReads
  Starts <- MCStarts
SPECIFICATION Spec
PROPERTIES ImplementsRegisters CallsReturn
CHECK_DEADLOCK FALSE

\* Every interface with every write, one after the other, any of which may fail.
SPECIFICATION Spec
CONSTANTS
  Setups <- Interfaces
  Calls <- Writes
  P = 16
  DmaMin = 4
  Behind = 341
  MayFail = TRUE
  None = None
INVARIANTS TypeOK Faithful Complete FitsBuffers
PROPERTY NearerEnd

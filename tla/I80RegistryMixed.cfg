\* Nodes of different sizes, nothing fails.
SPECIFICATION Spec
CONSTANTS
  None = None
  ssd1963 = ssd1963
  ili9320 = ili9320
  Nodes <- MixedSizes
  AddressWidth = 3
  MayFail = FALSE
  MaxBinds = 1
INVARIANT NoSharedAddress
CHECK_DEADLOCK FALSE

\* Any order of nodes, any call may fail, bound twice.
SPECIFICATION Spec
CONSTANTS
  None = None
  ssd1963 = ssd1963
  ili9320 = ili9320
  Nodes <- Overlay
  AddressWidth = 3
  MayFail = TRUE
  MaxBinds = 2
INVARIANTS TypeOK MasterReferences NodesHeld
PROPERTY AddedApart
CHECK_DEADLOCK FALSE

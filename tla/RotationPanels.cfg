SPECIFICATION Spec
CONSTANTS
  Drivers = {"mi0283qt", "adafruit797", "sainsmart18", "hy28a"}
  XRes = 2
  YRes = 3
  BytesPerPixel = 2
  DtRotations = {45, 90}
  MayFail = TRUE
  MaxRequests = 1
INVARIANTS TypeOK Placed ReadsMemory Agrees
\* A probe that fails ends the system.
CHECK_DEADLOCK FALSE

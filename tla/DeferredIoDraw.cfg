\* Two drawing threads and the worker, no mapping, updates may fail or run over.
SPECIFICATION Spec
CONSTANTS
  Writers = {w1, w2}
  Mappers = {}
  YRes = 3
  LineLength = 2
  PageSize = 3
  MayFail = TRUE
  Overrun = {"error", "oops"}
  MaxFsync = 1
SYMMETRY WriterSymmetry
INVARIANTS TypeOK NoLostUpdate

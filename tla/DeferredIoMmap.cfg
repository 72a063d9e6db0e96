\* A drawing thread, a mapping thread, fsync and the worker.
SPECIFICATION FairSpec
CONSTANTS
  Writers = {w1}
  Mappers = {m1}
  YRes = 2
  LineLength = 2
  PageSize = 3
  MayFail = TRUE
  Overrun = {"error"}
  MaxFsync = 1
INVARIANT NoLostUpdate
PROPERTIES EventuallySent ImplementsShadow

\* One drawing thread and the worker: the arguments display->update is given.
SPECIFICATION Spec
CONSTANTS
  Writers = {w1}
  Mappers = {}
  YRes = 3
  LineLength = 2
  PageSize = 3
  MayFail = FALSE
  Overrun = {"error", "oops"}
  MaxFsync = 0
INVARIANT UpdateRangeInclusive

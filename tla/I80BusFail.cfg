\* A 16-bit bus, pins that may fail to turn, three threads on two devices.
SPECIFICATION FairSpec
CONSTANTS
  lcd1 = lcd1
  lcd2 = lcd2
  worker1 = worker1
  worker2 = worker2
  shell = shell
  None = None
  Threads = {worker1, worker2, shell}
  Devices = {lcd1, lcd2}
  DeviceOf <- TwoPanels
  Address <- Addresses
  Size <- Sizes
  BusWidth = 16
  Byte = 2
  Chunk = 2
  Jobs <- FewJobs
  MayFail = TRUE
INVARIANTS Delivered Answered Isolated Deselected
PROPERTY AccessesEnd

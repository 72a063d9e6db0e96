\* An 8-bit bus, pins that can be turned: every job one after the other.
SPECIFICATION FairSpec
CONSTANTS
  lcd1 = lcd1
  lcd2 = lcd2
  worker1 = worker1
  worker2 = worker2
  shell = shell
  None = None
  Threads = {worker1, worker2}
  Devices = {lcd1, lcd2}
  DeviceOf <- TwoPanels
  Address <- Addresses
  Size <- Sizes
  BusWidth = 8
  Byte = 2
  Chunk = 2
  Jobs <- AllJobs
  MayFail = FALSE
INVARIANTS TypeOK Delivered Answered

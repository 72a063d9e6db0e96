\* An SSD1306 on 4-wire SPI: update and blanking.
SPECIFICATION Spec
CONSTANTS
  worker = worker
  console = console
  shell = shell
  reader = reader
  None = None
  Threads = {worker, console}
  Role <- OledRoles
  Interfaces = {"4wire"}
  MayFail = FALSE
INVARIANT AccessExclusive

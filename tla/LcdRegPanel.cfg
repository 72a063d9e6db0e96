\* Three interfaces, failing messages: update, rotation, debugfs write and read.
SPECIFICATION FairSpec
CONSTANTS
  worker = worker
  console = console
  shell = shell
  reader = reader
  None = None
  Threads = {worker, console, shell, reader}
  Role <- PanelRoles
  Interfaces = {"4wire", "3wire", "i2c"}
  MayFail = TRUE
INVARIANTS TypeOK AccessExclusive WireAgrees UpdateInOwnWindow 
PROPERTIES ImplementsSerial CallsEnd

SPECIFICATION FairSpec
CONSTANTS
  NoDom = NoDom
  NoPath = NoPath
  Uuids = {u1}
  Names = {n1}
  Prefixes = {vm}
  MaxIdx = 2
  Files = {iso}
  Nets = {net1}
  GuestEvents = {"stop", "ioerror", "sleep", "panic"}
  Foreign = {"start", "undefine", "define", "newvol"}
  Requests = {"reset", "reboot", "pause", "resume", "shutdown", "destroy", "start", "get", "info", "newmem", "purge", "newnet", "attach_disk", "newvol", "create"}
  Faults = {"libvirtd"}
  SharedDisks = TRUE
  MaxDisks = 1
INVARIANT TypeOK
PROPERTY EveryRequestAnswered

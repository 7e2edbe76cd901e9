SPECIFICATION Spec
CONSTANTS
  NoDom = NoDom
  NoPath = NoPath
  Uuids = {u1}
  Names = {n1}
  Prefixes = {vm}
  MaxIdx = 2
  Files = {}
  Nets = {}
  GuestEvents = {"stop"}
  Foreign = {}
  Requests = {"create", "newvol", "attach_disk"}
  Faults = {}
  SharedDisks = FALSE
  MaxDisks = 2
PROPERTY AttachOkMeansAttached

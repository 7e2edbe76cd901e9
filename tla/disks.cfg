SPECIFICATION Spec
CONSTANTS
  NoDom = NoDom
  NoPath = NoPath
  Uuids = {u1, u2}
  Names = {n1, n2}
  Prefixes = {vm}
  MaxIdx = 2
  Files = {}
  Nets = {}
  GuestEvents = {"stop"}
  Foreign = {}
  Requests = {"create", "start", "pause", "purge", "attach_disk", "newvol"}
  Faults = {"libvirtd", "crash"}
  SharedDisks = FALSE
  MaxDisks = 2
INVARIANT PersistentDisksBacked
PROPERTY NewVolumeIsNobodys

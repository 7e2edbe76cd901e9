SPECIFICATION Spec
CONSTANTS
  NoDom = NoDom
  NoPath = NoPath
  Uuids = {u1, u2}
  Names = {n1, n2}
  Prefixes = {vm}
  MaxIdx = 2
  Files = {}
  Nets = {net1}
  GuestEvents = {"stop"}
  Foreign = {}
  Requests = {"create", "start", "destroy", "purge", "newnet", "attach_disk", "newvol"}
  Faults = {"libvirtd", "crash"}
  SharedDisks = FALSE
  MaxDisks = 2
INVARIANT DefinitionsAgree
PROPERTY PurgeIsSafe
PROPERTY CreateNeverReplaces
PROPERTY AnsweredOnce

SPECIFICATION AllSpec
CONSTANTS
  None = None
  Options <- MostOptions
  Retries = {1}
  Early = TRUE
  Faults = {"mount_local", "fork", "pid_file", "fd", "setsid", "loop", "sync", "qemu", "fusermount", "pipe", "fuser"}
INVARIANT TableOK
INVARIANT CacheIsTrue
 
PROPERTY SetSpec
PROPERTY WalksRight
PROPERTY MountCleansUp

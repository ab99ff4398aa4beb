SPECIFICATION Spec
CONSTANTS
  BuiltIn <- MCBuiltIn
  Secret <- MCSecret
  Identity <- MCIdentity
  ServerIdentity <- MCServerIdentity
  Mac <- MCMac
  Vmac <- MCVmac
  Lease <- MCLease
  Clock <- MCClock
  Frame <- MCFrame
  Tries = 2
  MaxRestarts = 1
CHECK_DEADLOCK FALSE
INVARIANTS RoundTrip KeyFoldsSecret SessionNeedsKey FramesGenuine

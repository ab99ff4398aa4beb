SPECIFICATION Spec
CONSTANTS
  Client = {c1, c2}
  Identity = {k1, k2}
  Address = {a1, a2}
  NoIdentity = NoIdentity
  NoAddress = NoAddress
  NoSession = NoSession
  Tries = 2
  Timeout = 2
  MaxCrash = 1
  Repeat = FALSE
  Media = {"prompt", "kept"}
CONSTRAINT Bounds
SYMMETRY Symmetry
INVARIANTS TypeOK OwnSession StopIsDeserved KeptAlive

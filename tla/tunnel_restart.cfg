SPECIFICATION Spec
CONSTANTS
  Client = {c1, c2}
  Identity = {k1}
  Address = {a1}
  NoIdentity = NoIdentity
  NoAddress = NoAddress
  NoSession = NoSession
  Tries = 2
  Timeout = 2
  MaxCrash = 1
  Repeat = TRUE
  Media = {"kept"}
INVARIANTS MovedByItsClient

SPECIFICATION FairSpec
CONSTANTS
  Client = {c1}
  Identity = {k1, k2}
  Address = {a1}
  NoIdentity = NoIdentity
  NoAddress = NoAddress
  NoSession = NoSession
  Tries = 2
  Timeout = 1
  MaxCrash = 1
  Repeat = FALSE
  Media = {"lossy"}
PROPERTIES ForgottenStops HandshakeEnds StopEnds

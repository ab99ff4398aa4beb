SPECIFICATION Spec
CONSTANTS
  Client = {c1}
  Identity = {k1}
  Address = {a1}
  NoIdentity = NoIdentity
  NoAddress = NoAddress
  NoSession = NoSession
  Tries = 2
  Timeout = 2
  MaxCrash = 0
  Repeat = FALSE
  Media = {"kept"}
INVARIANTS AnswerUnderstood

SPECIFICATION Spec
CONSTANTS
  Main = main
  Thread = {main, w1, w2}
  Target <- MCTarget
  Stderr = "stderr"
  NoFile = "none"
  NoThread = NoThread
  MaxStatements = 3
  Unit = {u1, u2}
  Platform = {"unix", "win32"}
  CommandLine <- MCCommandLine
  AddressText <- MCAddressText
INVARIANTS WholeLines EachStatementOnce GlobalsReady DevicesReady
  HandlesReturned RoleAsAsked LogGoesToTarget

SPECIFICATION Spec
CONSTANTS
  a1 = a1
  a2 = a2
  c1 = c1
  c2 = c2
  k1 = k1
  k2 = k2
  m1 = m1
  m2 = m2
  bcast = bcast
  vmac = vmac
  Object = {a1, a2}
  Identity = {k1, k2}
  Peer = {c1, c2}
  Mac = {m1, m2, bcast, vmac}
  GroupMac <- MCGroupMac
  Vmac = vmac
  Lower = 169090758
  Upper = 169090760
  Timeout = 2
  Datagram <- SafetyDatagrams
  Frame <- SafetyFrames
  FreshIdentity = TRUE
  NoObject = NoObject
  NoInfo = NoInfo
  NoDatagram = NoDatagram
SYMMETRY Symmetry
INVARIANTS NoLeak MacIndexSound SessionInfoTruthful
PROPERTIES ImplementsSessionTable

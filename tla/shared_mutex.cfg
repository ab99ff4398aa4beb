SPECIFICATION FairSpec
CONSTANTS
  Thread = {t1, t2, t3, t4}
  MaxReaders = 3
INVARIANTS TypeOK Exclusion StateEncodesHolders NoLostWakeup
PROPERTIES ImplementsRWLock WriterGetsIn OnlyBargingStarves

CONSTANTS
  Threads = {t1, t2, t3, t4}
  kMaxReaders <- const_kMaxReaders
SPECIFICATION FairSpec
INVARIANTS
  Exclusion
  IInv
PROPERTIES
  Implements
  EverybodyGetsIn

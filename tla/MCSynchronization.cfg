CONSTANTS
  Threads = {t1, t2, t3}
  Semaphores = {s1, s2}
  Mutexes = {m1}
  InitialCount <- const_InitialCount
  MaxCount = 2
  MultipleFlags = {"all"}
SYMMETRY ThreadSymmetry
SPECIFICATION Spec
INVARIANTS
  NoLostWakeup
  TokensConserved
  MutexHeld
  TagsLiveAsLongAsTheWait
PROPERTIES
  FirstComeFirstServed

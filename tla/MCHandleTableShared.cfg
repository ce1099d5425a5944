CONSTANTS
  Threads = {t1, t2}
  Resources = {r1, r2, r3}
  Types = {"FD", "Area"}
  TypeOf <- const_TypeOf
  kLevel1Size = 2
  kLevel2Size = 2
  kSerialNumberCount = 2
  Absent = Absent
  Nothing = Nothing
  Shared = TRUE
SYMMETRY SameUnder
SPECIFICATION Spec
INVARIANTS
  ClosesWhatItFound

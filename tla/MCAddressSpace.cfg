CONSTANTS
  Threads = {t1, t2}
  AreaIds = {a1, a2}
  Layout <- const_Layout
  PAGE_SIZE = 2
  kAddressSpaceTop = 9
  AddressLimit = 12
  Sizes = {2, 4}
  FixedAddresses = {6}
  Files = {f}
  Anonymous = {s}
  Copies = {c}
  Source <- const_Source
  Mappable = {c}
  Accesses = {"read", "write"}
  Writes = {"write"}
  Protections = {{"read", "write"}}
  None = None
SYMMETRY SameUnder
SPECIFICATION Spec
INVARIANTS
  AreasDisjoint
  MappingsInAreas
  SearchFromTop
  NoWriteThrough

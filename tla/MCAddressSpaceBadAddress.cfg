CONSTANTS
  Threads = {t1}
  AreaIds = {a1, a2}
  Layout <- const_Layout
  PAGE_SIZE = 2
  kAddressSpaceTop = 9
  AddressLimit = 12
  Sizes = {2}
  FixedAddresses = {2}
  Files = {f}
  Anonymous = {s}
  Copies = {c}
  Source <- const_Source
  Mappable = {c}
  Accesses = {"read", "write"}
  Writes = {"write"}
  Protections <- const_Protections
  None = None
SPECIFICATION Spec
PROPERTY BadAddressHasNoArea

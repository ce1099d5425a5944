CONSTANTS
  HeapSize = 16
  HeaderSize = 2
  FooterSize = 1
  RequestSizes = {1, 2, 5}
  NoMagic = NoMagic
  Nodes <- const_Nodes
  LowKey <- const_LowKey
  HighKey <- const_HighKey
  fDummyHead = fDummyHead
  Null = Null
  fLockedPages <- const_LockedPages
  PhysicalPages <- const_PhysicalPages
  Buckets = {0, 1}
  Bucket <- const_Bucket
  INVALID_PAGE = INVALID_PAGE
  NoSlot = NoSlot
  MaxHolds = 3
  m_maxBlocks = 10
  PMM_BITS_PER_INDEX = 4
  PMM_BLOCK_SIZE = 2
  availablePoint = 8
  PAGES_PER_TABLE = 2
  Pages = {2, 3, 4}
  BlockCounts = {1, 2, 3}
  DeviceFrames = {12}
  Maps = {m1, m2}
  TableFrames = {f1, f2}
  MappedPages = {p1, p2}
  DirectorySize = 3
  TableSize = 2
  NotPresent = NotPresent
  Names = {"dev"}
  disk = "disk"
  ide0 = "ide0"
  MaxPath = 4
  MaxNodes = 9
  MaxMounts = 2
  Lockers = {l1, l2, l3}
  Nobody = Nobody
  MaxRecursion = 2
SPECIFICATION Spec
CHECK_DEADLOCK FALSE
INVARIANTS
  HeapTiles
  TreeAnswers
  SlotsKept
  FramesAccounted
  FindsTheFirstRun
  PagesCounted
  WalksByName
  RecursiveExclusion
PROPERTY
  HeapImplements
  MapsImplement

CONSTANTS
  m_maxBlocks = 10
  PMM_BITS_PER_INDEX = 4
  PMM_BLOCK_SIZE = 2
  availablePoint = 5
  PAGES_PER_TABLE = 2
  Pages = {2, 3, 4}
  BlockCounts = {1, 2, 3}
  DeviceFrames = {12}
SPECIFICATION FrameSpec
INVARIANT
  BitmapKept

SPECIFICATION MCSpec
CONSTANTS
  WordBits = 16
  IntBits = 8
  Cells = {64, 72}
  Things = {0, 8, 1024}
  Doubles <- MCDoubles
  SizeBits = 6
  CmpIntBits = 3
  Text <- MCText
  M_PAGE_SIZE = 16
  HeaderSize = 8
  WordSize = 2
  LongBits = 10
  IdBits = 5
  MarksPerWord = 4
  CellSizes = {2, 4, 6}
  PoolAddrs = {512, 528}
  MaxUsed = 2
  OSPage = 2
  MapPage = 8
  Space <- MCSpace
  Sizes = {8, 16}
  MaxOther = 2
  BufWord = 4
  UInt32Bits = 4
  NoBlock <- MCNoBlock
INVARIANTS
  DecodesAsMade
  CmpIsOrder
  CellsFound
  MarksUnpacked
  PoolMapped
  BufferHolds

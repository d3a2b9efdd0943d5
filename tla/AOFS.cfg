SPECIFICATION MCSpec
CONSTANTS
  BLOCK_NUM = 3
  BLOCK_DATA = 2
  Name = {f, g}
  NoName = NoName
  Byte = {1}
  MaxLen = 3
  MaxSize = 5
INVARIANTS
  TypeOK
  ChainsPartitionBitmap
  ReaddirListsEachFileOnce
  ChainCoversFullBlocks
  TruncateKeepsToTheChain
  ReadCountsFileBytes
  ReadInsideOneBlockIsExact
  WriteStoresBuffer
  TruncateKeepsPrefix
PROPERTIES
  ImplementsFileSpec
SYMMETRY NameSymmetry

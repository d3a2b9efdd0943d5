SPECIFICATION FairSpec
CONSTANTS
  BLOCK_NUM = 3
  Name = {f, g}
  NoName = NoName
  Thread = {t}
INVARIANTS
  TypeOK
  NoSharedBlocks
  FreeBlocksAreClean
  FilesAreFound
  IInv
PROPERTIES
  RequestsEnd

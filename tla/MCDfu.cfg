\* Any host, and one that follows the protocol.
CONSTANTS
  Zones <- MCZones
  flashPageSize = 2
  flashBufferSize = 1
  flashEraseSize = 2
  epBufferSize = 1
  MaxLength = 3
  FlashSize = 8
  Manners <- MCManners
SPECIFICATION FairSpec
INVARIANTS
  TypeOK
  ImageIntact
PROPERTIES
  ErasedBeforeWritten
  OnlyChosenZone
  BlockCompletes

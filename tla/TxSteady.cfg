CONSTANTS
  IsR = TRUE
  StreamNum = 5
  LcoreNum = 2
  BURST_SIZE = 2
  TX_DESC_NUM = 2
  RX_DESC_NUM = 3
  CACHE_NUM = 1
  BUNCH_SIZE = 2
  MBUF_NUM = 9
  MaxUnits = 2
SPECIFICATION FairSpec
INVARIANTS
  TypeOK
  MbufsConserved
  GapsAreCounted
  EvenCadence
PROPERTIES
  UnitEnds

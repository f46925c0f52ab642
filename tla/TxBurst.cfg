CONSTANTS
  IsR = TRUE
  StreamNum = 3
  LcoreNum = 2
  BURST_SIZE = 2
  TX_DESC_NUM = 2
  RX_DESC_NUM = 4
  CACHE_NUM = 1
  MBUF_NUM = 17
  Freqs = {1, 3, 5}
  MaxBursts = 2
SPECIFICATION FairSpec
INVARIANTS
  TypeOK
  MbufsConserved
  WholeSecond
  CountedIsTaken
PROPERTIES
  PublicationSpec
  BurstGoesOut

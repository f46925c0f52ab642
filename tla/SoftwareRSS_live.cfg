CONSTANTS
  goose = goose
  sv = sv
  rgoose = rgoose
  rsv = rsv
  ip = ip
  Source = {sv, rsv}
  Proto <- MCProto
  RssKey <- MCRssKey
  Verdicts <- AllRegistered
  NumASDU <- MCNumASDU
  SmpFreq <- MCSmpFreq
  SeqMod = 16
  WorkerNum = 2
  WORKER_RING_SIZE = 2
  RX_BURST_SIZE = 2
  RX_DESC_NUM = 2
  MBUF_NUM = 4
  MaxSent <- SampleMaxSent
SPECIFICATION FairSpec
INVARIANTS
  GapsAreLosses
PROPERTIES
  Drained
  Stops

CONSTANTS
  goose = goose
  sv = sv
  rgoose = rgoose
  rsv = rsv
  ip = ip
  Source = {goose, rgoose, ip}
  Proto <- MCProto
  RssKey <- MCRssKey
  Verdicts <- AnyVerdict
  NumASDU <- MCNumASDU
  SmpFreq <- MCSmpFreq
  SeqMod = 16
  WorkerNum = 2
  WORKER_RING_SIZE = 4
  RX_BURST_SIZE = 2
  RX_DESC_NUM = 2
  MBUF_NUM = 4
  MaxSent <- OrderMaxSent
SPECIFICATION Spec
INVARIANTS
  TypeOK
  StreamInv
  PoolConservation
  NoOverrun
  FrameAccounting
  NeverOverstated
  GateIsSound
PROPERTIES
  DeliverySpec

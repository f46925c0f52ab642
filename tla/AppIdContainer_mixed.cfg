CONSTANTS
  None = None
  NotFound = None
  Configs <- TwoKinds
  APPID_NUM = 8
  MaxStreams = 2
SPECIFICATION ContainerSpec
INVARIANTS
  ConfiguredIsFound

CONSTANTS
  None = None
  NotFound = None
  Configs <- OneKind
  APPID_NUM = 8
  MaxStreams = 8
SPECIFICATION ContainerSpec
INVARIANTS
  RegisterInv
PROPERTIES
  MapSpec

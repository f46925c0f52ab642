CONSTANTS
  Stream = {0, 999, 9999}
  APDU_SIZE = 60
  R_DST_SPREAD = 2
  NumEntries = 2
  MAX_SV_ASDU_NUM = 2
  SmpFreq <- MCSmpFreq
  SeqMod = 3
  Mbuf = {1}
  OwnerOf <- MCOwnerOf
  Runs <- MCRuns
  MaxSent <- MCMaxSent
  MaxAltered = 1
SPECIFICATION Spec
INVARIANTS
  TypeOK
  FrameIsFresh
  RejectedAreAlteredOrCut
  OtherModeIsRejected
  GapsTellLosses
PROPERTIES
  DeliversGenuine
CHECK_DEADLOCK FALSE

CONSTANTS
  Input <- MCInput
  CHANNELS = 2
SPECIFICATION Spec
INVARIANTS
  TypeOK
  ReadsInside
  VerdictIsRight

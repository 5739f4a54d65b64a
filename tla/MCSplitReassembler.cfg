SPECIFICATION Spec
CONSTANTS
  Frames <- MCFrames
  Size <- MCSize
  MaxGroups = 2
  MaxParts = 3
  MaxBytes = 3
INVARIANTS
  TypeOK
  InSync
  GroupsBounded
  NoneLeftComplete
  GroupsUnmixed
  MessageWhole
PROPERTY
  OthersUntouched

SPECIFICATION Spec
CONSTANTS
  e1 = e1
  e2 = e2
  Epochs <- MCEpochs
  Half = 4
  Base = 29
  Span = 3
  Start <- MCStart
  Age = 2
  Gap = 1
  MaxSent = 18
INVARIANTS
  TypeOK
  NeverDeaf

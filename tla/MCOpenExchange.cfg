SPECIFICATION Spec
CONSTANTS
  InitialMtu = 1300
  ReplyMtus <- MCReplyMtus
  Epochs <- MCEpochs
  e1 = e1
  e2 = e2
  PadLength = 1160
  PayloadOnly = FALSE
  MaxBatch = 2
  MaxVerified = 2
INVARIANTS
  TypeOK
  RequestedOnce
  AuthenticatedIsAnswered
  MtuNegotiated
PROPERTY
  OpeningSpec
CHECK_DEADLOCK FALSE

SPECIFICATION Spec
CONSTANTS
  Messages <- MCMessages
  KindOf <- MCKindOf
  PartsOf <- MCPartsOf
  Datagrams <- MCDatagrams
  Bootstrap <- MCBootstrap
  Profile <- MCProfile
  Malformed <- MCMalformed
  MaxWindow = 3
  RequestsCharacter = TRUE
  MaxRaised = 2
INVARIANTS
DictionaryAnsweredInFull
CHECK_DEADLOCK FALSE

SPECIFICATION Spec
CONSTANTS
  Settings <- MCSettings
  Joins <- MCJoins
  Outcomes <- MCOutcomes
  Kept = 1
  MaxSamples = 2
INVARIANTS
  TypeOK
  OneSessionCarriesAll
  CompleteIsReported
  ListedIsObserved
CHECK_DEADLOCK FALSE

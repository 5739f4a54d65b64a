SPECIFICATION Spec
CONSTANTS
  Messages <- MCMessages
  Datagrams <- MCDatagrams
  Alias <- MCAlias
  MaxCount = 2
INVARIANTS
  TypeOK
  EvidenceGrounded
  
  PublishedFaithful
  CountedOnce

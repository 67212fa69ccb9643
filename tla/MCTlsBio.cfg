SPECIFICATION Spec
CONSTANTS
  Cap = 2
  MaxIn = 3
  MaxOut = 3
  SndBuf = 1
INVARIANTS
  TypeOK
  CiphertextIntact
  MemorySafe
PROPERTIES
  AnswersTrue
  CallsFinish

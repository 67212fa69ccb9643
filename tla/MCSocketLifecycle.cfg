SPECIFICATION Spec
CONSTANTS
  Socket = {s1, s2}
  Callback = {c1, c2}
  Fd = {1, 2}
  Addr = {a1, a2}
  MaxDepth = 4
  NestedUnwrap = FALSE
  StaleHandles = FALSE
INVARIANTS
  TypeOK
  FdOwned
  CallbackLedger
  CallbackSeesLiveFd
PROPERTIES
  NeverAgain
  DrainsFinish

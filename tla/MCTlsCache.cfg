SPECIFICATION Spec
CONSTANTS
  Client = {cl1}
  Conn = {n1, n2}
  Options = {o1, o2}
  Host = {h1}
  Ctx = {x1, x2}
  Session = {s1, s2}
  None = None
  CtxCap = 1
  SessCap = 1
SYMMETRY Interchangeable
INVARIANTS
  TypeOK
  StoresBounded
  SessionsOwnedOnce
  SessionsScoped
  ClearForgets

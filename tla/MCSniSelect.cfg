\* Two connections, two servers over two contexts.
SPECIFICATION Spec
CONSTANTS
  MaxServer = 2
  MaxCtx = 2
  Conn <- MCConn
  Thread <- MCThread
  Kind <- MCKind
  Silent <- MCSilent
  None = None
  c1 = c1
  c2 = c2
  t1 = t1
  t2 = t2
  k1 = k1
  k2 = k2
SYMMETRY MCSymmetry
INVARIANTS OnePolicy NothingDangles TicketsScoped
CHECK_DEADLOCK FALSE

SPECIFICATION Spec
CONSTANTS
  Socket = {s1, s2}
  Callback = {c1, c2}
  Fd = {1, 2}
  Addr = {a1, a2}
  MaxDepth = 4
  NestedUnwrap = TRUE
  StaleHandles = FALSE
INVARIANT NoStrayClose

SPECIFICATION Spec
CONSTANTS
  File = {f1, f2, f3, f4}
  Queue = {q1, q2, q3}
  MaxFd = 3
  MaxCmsg = 2
SYMMETRY Interchangeable
INVARIANTS
  TypeOK
  OneOwner
  DeliveredInOrder

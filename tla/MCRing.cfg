SPECIFICATION RbSpec
CONSTANTS
  Byte = {b1, b2}
  RingCap = 4
INVARIANTS
  RingSound
  SegmentsExact
PROPERTY RefinesFifo

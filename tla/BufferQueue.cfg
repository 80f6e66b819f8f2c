SPECIFICATION Spec
CONSTANTS
  Putters = {p1}
  Getters = {g1, g2}
  Careless = {p1}
  Buffers = {b1, b2}
  NoBuffer = NoBuffer
  MaxCountArg = 2
  MaxPuts = 4
INVARIANTS NoLostWakeup SuccessfulGetDelivers
PROPERTY RefinesFifo

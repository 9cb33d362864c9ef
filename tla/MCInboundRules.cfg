\* Two inbounds, two ports, two requests at a time, all inputs.
SPECIFICATION Spec
CONSTANTS
  p1 = p1
  p2 = p2
  r1 = r1
  r2 = r2
  None = None
  Gone = Gone
  NInbounds = 2
  Ports <- TwoPorts
  Requests <- TwoRequests
  Inputs <- AllInputs
  Offered <- TCPOrWS
  DefaultCert = TRUE
  MaxEdits = 3
SYMMETRY Symmetry
INVARIANTS Renders KeysNotShared SaveErasesOnly
PROPERTY KeysStay
CHECK_DEADLOCK FALSE

CONSTANTS
  Subs = {s1, s2}
  Producers = {p1, p2}
  Levels = {"INFO"}
  MaxMsgs = 2
  Stallers = {}
  None = None

SPECIFICATION Spec

SYMMETRY MCSymmetry

INVARIANT PerProducerFIFO
INVARIANT MsgNoLoss

CONSTANTS
  Subs = {s1}
  Producers = {p1}
  Levels = {"INFO"}
  MaxMsgs = 2
  Stallers = {s1}
  None = None

SPECIFICATION Spec

PROPERTY PushReturns

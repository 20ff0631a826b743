CONSTANTS
  Subs = {s1, s2}
  Producers = {p1}
  Levels = {"INFO"}
  MaxMsgs = 2
  Stallers = {}
  None = None

SPECIFICATION Spec

PROPERTY PushReturns
PROPERTY HandlersExit

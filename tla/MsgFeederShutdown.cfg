CONSTANTS
  Subs = {s1}
  Producers = {p1}
  Levels = {"INFO"}
  MaxMsgs = 1
  Stallers = {s1}
  None = None

SPECIFICATION Spec

INVARIANT HandlersJoined

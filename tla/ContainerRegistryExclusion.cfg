CONSTANTS
  Cids = {c1}
  MaxWrites = 2
  MaxLookups = 2

SPECIFICATION Spec

\* The agent really stops here: a runtime throw ends the process and a
\* lookup blocked on its mutex copy is never woken.
CHECK_DEADLOCK FALSE

INVARIANT ReadExclusion

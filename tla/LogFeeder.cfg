CONSTANTS
  Subs = {s1, s2}
  None = None
  Filters <- MCFilters
  Origins <- MCOrigins
  MaxLogs = 2

SPECIFICATION Spec
SYMMETRY MCSymmetry

INVARIANT DeliveryOrdered
INVARIANT NoLossForRegistered
PROPERTY ImplementsLogBroadcast

CONSTANTS
  Subs = {s1, s2}
  None = None
  Filters <- MCLiveFilters
  Origins <- MCLiveOrigins
  MaxLogs = 2

SPECIFICATION Spec

PROPERTY QueueDrained
PROPERTY ShutdownUnregisters

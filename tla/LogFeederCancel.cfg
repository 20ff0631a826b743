CONSTANTS
  Subs = {s1}
  None = None
  Filters <- MCLiveFilters
  Origins <- MCLiveOrigins
  MaxLogs = 1

SPECIFICATION Spec

PROPERTY CancelledUnregistered

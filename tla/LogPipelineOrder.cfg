CONSTANTS
  Registry <- MCRegistry
  Events <- MCPidEvents
  MaxEvents = 2
  ExecPaths <- MCExecPaths
  ErrnoNames <- MCErrnoNames
  EnableAuditd = TRUE
  PERMISSION_DENIED <- MCPermissionDenied
  NUL <- MCNul
  Subs = {s1}
  Filters <- MCFilters
  None = None

SPECIFICATION Spec

INVARIANT PerPidOrder

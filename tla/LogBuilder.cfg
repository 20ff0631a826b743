CONSTANTS
  Registry <- MCRegistry
  Events <- MCEvents
  MaxEvents = 3
  ExecPaths <- MCExecPaths
  ErrnoNames <- MCErrnoNames
  EnableAuditd = TRUE
  PERMISSION_DENIED <- MCPermissionDenied
  NUL <- MCNul

SPECIFICATION Spec

INVARIANT LogsFollowContract

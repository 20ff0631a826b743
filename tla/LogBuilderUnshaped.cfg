CONSTANTS
  Registry <- MCRegistry
  Events <- MCUnshapedEvents
  MaxEvents = 1
  ExecPaths <- MCExecPaths
  ErrnoNames <- MCErrnoNames
  EnableAuditd = TRUE
  PERMISSION_DENIED <- MCPermissionDenied
  NUL <- MCNul

SPECIFICATION Spec

INVARIANT LogsFollowContract

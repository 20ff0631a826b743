CONSTANTS
  Registry <- MCRegistry
  Events <- MCConnectEvents
  MaxEvents = 2
  ExecPaths <- MCExecPaths
  ErrnoNames <- MCErrnoNames
  EnableAuditd = TRUE
  PERMISSION_DENIED <- MCPermissionDenied
  NUL <- MCNul

SPECIFICATION Spec

INVARIANT ResourceDeterministic

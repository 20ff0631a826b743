--------------------------- MODULE MCLogPipeline ---------------------------
(* Model-checking instance of LogPipeline: the MCLogData registry and      *)
(* tables, two events of one process (host pid 47), subscribers with no    *)
(* filter.                                                                 *)
EXTENDS LogPipeline, MCLogData

MCPidEvents ==
  { Event("c1", "openat", 7, <<Int32Arg(-100), StrArg("/etc/passwd"),
                                  StrArg("O_RDONLY")>>, 0),
    Event("c1", "close", 7, <<Int32Arg(3)>>, 0) }
MCFilters == {""}
=============================================================================

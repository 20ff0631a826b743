---------------------------- MODULE LogPipeline ----------------------------
(***************************************************************************)
(* UpdateLogs (LogBuilder) composed with the feeder (LogFeeder) through    *)
(* `go mon.LogFeeder.PushLog(log)`: every built log gets a goroutine of    *)
(* its own, and those goroutines reach LogQueue in any order.              *)
(* A log's id in the feeder is its position in the builder's `out`.        *)
(***************************************************************************)
EXTENDS Naturals, Sequences

CONSTANTS
  Registry, Events, MaxEvents, ExecPaths, ErrnoNames, EnableAuditd,
  PERMISSION_DENIED, NUL,
  Subs, Filters, None

VARIABLES
  Containers, ContextChan, stopped, running, delivered, consumed, out,
  Running, LogQueue, logLock, logStructs, pending, spawned, pc, reqFilter,
  snapshot, connected, appended, received, regAt, endAt

builderVars == <<Containers, ContextChan, stopped, running, delivered,
                 consumed, out>>
feederVars == <<Running, LogQueue, logLock, logStructs, pending, spawned, pc,
                reqFilter, snapshot, connected, appended, received, regAt,
                endAt>>
vars == <<builderVars, feederVars>>

B == INSTANCE LogBuilder
F == INSTANCE LogFeeder WITH Origins <- {"container", "host"},
                             MaxLogs <- MaxEvents,
                             delivered <- received

\* Logs of the host itself carry no container id (spec 3: HostLog).
Origin(log) == IF log.containerID = "" THEN "host" ELSE "container"

\* UpdateLogs handles one event and, when it built a log, starts PushLog.
UpdateLogsAndGo ==
  /\ B!UpdateLogs
  /\ IF Len(out') > Len(out)
     THEN /\ pending' = pending \cup
               {[id |-> Len(out'), origin |-> Origin(out'[Len(out')])]}
          /\ spawned' = spawned + 1
     ELSE UNCHANGED <<pending, spawned>>
  /\ UNCHANGED <<Running, LogQueue, logLock, logStructs, pc, reqFilter,
                 snapshot, connected, appended, received, regAt, endAt>>

\* The monitor and the feeder have both stopped and every goroutine ended.
Stopped ==
  /\ ~running /\ delivered = MaxEvents /\ pending = {}
  /\ ~Running /\ \A s \in Subs : pc[s] = "done"
  /\ UNCHANGED vars

Init == B!Init /\ F!Init

Next ==
  \/ (B!SendEvent \/ B!CloseStopChan \/ B!Return) /\ UNCHANGED feederVars
  \/ UpdateLogsAndGo
  \/ \E l \in pending : F!PushLog(l) /\ UNCHANGED builderVars
  \/ \E s \in Subs : (F!Subscriber(s) \/ F!ClientCancel(s))
                     /\ UNCHANGED builderVars
  \/ F!DestroyFeeder /\ UNCHANGED builderVars
  \/ Stopped

Spec == Init /\ [][Next]_vars

(***************************************************************************)
(* Spec section 5: events of one host pid are processed in the order they  *)
(* were ingested, and a subscriber receives logs in push order; so a       *)
(* subscriber receives the logs of one host pid in the order UpdateLogs    *)
(* took their events off ContextChan. `go PushLog` lets two PushLog        *)
(* goroutines append in either order.                                      *)
(***************************************************************************)
PerPidOrder ==
  \A s \in Subs :
    \A i, j \in 1..Len(received[s]) :
      LET a == received[s][i].id
          b == received[s][j].id
      IN (i < j /\ out[a].hostPid = out[b].hostPid) => a < b

=============================================================================

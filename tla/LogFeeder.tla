----------------------------- MODULE LogFeeder -----------------------------
(***************************************************************************)
(* The log path of the feeder (src/KubeArmor/feeder/feeder.go).            *)
(*                                                                         *)
(*  - PushLog goroutines (one per log, started by UpdateLogs with `go`)    *)
(*    decorate the log (UpdateMatchedPolicy) and append it to the global   *)
(*    LogQueue under the global LogLock.                                   *)
(*  - Each WatchLogs RPC is a goroutine that registers a LogStruct under   *)
(*    ls.LogLock, then loops `for Running`: take LogLock, snapshot the     *)
(*    LogStructs, drain the whole LogQueue sending every log to every      *)
(*    snapshotted subscriber whose filter accepts it, release, sleep.      *)
(*    On loop exit the deferred removeLogStruct unregisters it.            *)
(*  - DestroyFeeder clears Running.                                        *)
(*  - A client may cancel its stream; Send then fails and the error is     *)
(*    ignored by the code.                                                 *)
(*                                                                         *)
(* Every access to ls.LogStructs (add, remove, snapshot) is one critical   *)
(* section of ls.LogLock touching nothing else, so each is one step and    *)
(* that lock is not a variable. The snapshot is taken while LogLock is     *)
(* held and no push or drain can intervene, so Lock and getLogStructs are  *)
(* one step.                                                               *)
(***************************************************************************)
EXTENDS Naturals, Sequences, FiniteSets, TLC

CONSTANTS
  Subs,      \* WatchLogs RPC streams (one goroutine each, uuid keys)
  Filters,   \* request filters a client may send
  Origins,   \* "container" or "host": where a log comes from
  MaxLogs,   \* bound on the number of logs produced
  None       \* no lock holder / no value

ASSUME MaxLogs \in Nat \ {0}
ASSUME None \notin Subs

VARIABLES
  Running,     \* feeder.Running
  LogQueue,    \* feeder.LogQueue: sequence of decorated logs
  logLock,     \* holder of feeder.LogLock, or None
  logStructs,  \* ls.LogStructs: registered subscriber -> filter
  pending,     \* logs whose PushLog goroutine has not yet appended them
  spawned,     \* number of logs handed to PushLog so far
  pc,          \* program counter of each WatchLogs goroutine
  reqFilter,   \* req.Filter of each WatchLogs call
  snapshot,    \* local logStructs := ls.getLogStructs() of each goroutine
  connected,   \* the client side of the stream is still open
  \* history variables
  appended,    \* every log in the order it entered LogQueue
  delivered,   \* logs each client has received, in order
  regAt,       \* Len(appended) when the subscriber registered
  endAt        \* number dequeued when it disconnected or unregistered

vars == <<Running, LogQueue, logLock, logStructs, pending, spawned, pc,
          reqFilter, snapshot, connected, appended, delivered, regAt, endAt>>

LogTypes == {"ContainerLog", "HostLog", "MatchedPolicy", "MatchedHostPolicy"}
Log == [id : 1..MaxLogs, origin : Origins]
PbLog == [id : 1..MaxLogs, type : LogTypes]
PCs == {"idle", "check", "lock", "drain", "exit", "done"}

\* Number of logs taken off LogQueue so far.
Dequeued == Len(appended) - Len(LogQueue)

(***************************************************************************)
(* UpdateMatchedPolicy is not under src/: per spec 4.6 a log is typed      *)
(* MatchedPolicy / MatchedHostPolicy when a policy matched and             *)
(* ContainerLog / HostLog otherwise, by origin.                            *)
(***************************************************************************)
LogType(origin, matched) ==
  IF origin = "host"
  THEN IF matched THEN "MatchedHostPolicy" ELSE "HostLog"
  ELSE IF matched THEN "MatchedPolicy" ELSE "ContainerLog"

\* The filter test of the WatchLogs send loop.
FilterAccepts(filter, type) ==
  \/ filter = ""
  \/ filter = "policy" /\ type \in {"MatchedPolicy", "MatchedHostPolicy"}
  \/ filter = "system" /\ type \in {"ContainerLog", "HostLog"}

\* Send succeeds only while the client is connected and its handler runs.
CanReceive(s) == connected[s] /\ pc[s] # "done"

CloseWindow(s) ==
  endAt' = [endAt EXCEPT ![s] = IF @ = None THEN Dequeued ELSE @]

-----------------------------------------------------------------------------
(* Producer side *)

\* UpdateLogs hands a built log to a new PushLog goroutine (go PushLog).
Spawn ==
  /\ spawned < MaxLogs
  /\ \E o \in Origins :
       pending' = pending \cup {[id |-> spawned + 1, origin |-> o]}
  /\ spawned' = spawned + 1
  /\ UNCHANGED <<Running, LogQueue, logLock, logStructs, pc, reqFilter,
                 snapshot, connected, appended, delivered, regAt, endAt>>

PushLogUnlocked(l) == \* mutant: the append does not wait for LogLock
  /\ \E matched \in BOOLEAN :
       LET pbLog == [id |-> l.id, type |-> LogType(l.origin, matched)]
       IN /\ LogQueue' = Append(LogQueue, pbLog)
          /\ appended' = Append(appended, pbLog)
  /\ pending' = pending \ {l}
  /\ UNCHANGED <<Running, logLock, logStructs, spawned, pc, reqFilter,
                 snapshot, connected, delivered, regAt, endAt>>

\* PushLog: decorate, write the local sink, append under LogLock.
PushLog(l) ==
  /\ logLock = None
  /\ \E matched \in BOOLEAN :
       LET pbLog == [id |-> l.id, type |-> LogType(l.origin, matched)]
       IN /\ LogQueue' = Append(LogQueue, pbLog)
          /\ appended' = Append(appended, pbLog)
  /\ pending' = pending \ {l}
  /\ UNCHANGED <<Running, logLock, logStructs, spawned, pc, reqFilter,
                 snapshot, connected, delivered, regAt, endAt>>

-----------------------------------------------------------------------------
(* WatchLogs goroutine s *)

\* uid := uuid; addLogStruct(uid, svr, req.Filter)
AddLogStruct(s) ==
  /\ pc[s] = "idle"
  /\ \E f \in Filters :
       /\ logStructs' = logStructs @@ (s :> f)
       /\ reqFilter' = [reqFilter EXCEPT ![s] = f]
  /\ regAt' = [regAt EXCEPT ![s] = Len(appended)]
  /\ pc' = [pc EXCEPT ![s] = "check"]
  /\ UNCHANGED <<Running, LogQueue, logLock, pending, spawned, snapshot,
                 connected, appended, delivered, endAt>>

\* for Running { ... }: loop condition true.
LoopContinue(s) ==
  /\ pc[s] = "check"
  /\ Running
  /\ pc' = [pc EXCEPT ![s] = "lock"]
  /\ UNCHANGED <<Running, LogQueue, logLock, logStructs, pending, spawned,
                 reqFilter, snapshot, connected, appended, delivered, regAt,
                 endAt>>

\* for Running { ... }: loop condition false.
LoopExit(s) ==
  /\ pc[s] = "check"
  /\ ~Running
  /\ pc' = [pc EXCEPT ![s] = "exit"]
  /\ UNCHANGED <<Running, LogQueue, logLock, logStructs, pending, spawned,
                 reqFilter, snapshot, connected, appended, delivered, regAt,
                 endAt>>

LockStaleSnapshot(s) == \* mutant: the subscriber list is not re-read
  /\ pc[s] = "lock"
  /\ logLock = None
  /\ logLock' = s
  /\ pc' = [pc EXCEPT ![s] = "drain"]
  /\ UNCHANGED <<Running, LogQueue, logStructs, pending, spawned, reqFilter,
                 snapshot, connected, appended, delivered, regAt, endAt>>

\* LogLock.Lock(); logStructs := ls.getLogStructs()
Lock(s) ==
  /\ pc[s] = "lock"
  /\ logLock = None
  /\ logLock' = s
  /\ snapshot' = [snapshot EXCEPT ![s] = logStructs]
  /\ pc' = [pc EXCEPT ![s] = "drain"]
  /\ UNCHANGED <<Running, LogQueue, logStructs, pending, spawned, reqFilter,
                 connected, appended, delivered, regAt, endAt>>

\* One pass of `for len(LogQueue) != 0`: pop the head and Send it to every
\* snapshotted subscriber whose filter accepts it (errors ignored).
DrainSendAll(s) ==  \* mutant: the filter test is skipped
  /\ pc[s] = "drain"
  /\ LogQueue # <<>>
  /\ LET log == Head(LogQueue)
         to  == {x \in DOMAIN snapshot[s] : CanReceive(x)}
     IN delivered' = [x \in Subs |->
                        IF x \in to THEN Append(delivered[x], log)
                        ELSE delivered[x]]
  /\ LogQueue' = Tail(LogQueue)
  /\ UNCHANGED <<Running, logLock, logStructs, pending, spawned, pc,
                 reqFilter, snapshot, connected, appended, regAt, endAt>>

DrainLastKept(s) == \* mutant: `for len(LogQueue) > 1`
  /\ pc[s] = "drain"
  /\ Len(LogQueue) > 1
  /\ LET log == Head(LogQueue)
         to  == {x \in DOMAIN snapshot[s] :
                   CanReceive(x) /\ FilterAccepts(snapshot[s][x], log.type)}
     IN delivered' = [x \in Subs |->
                        IF x \in to THEN Append(delivered[x], log)
                        ELSE delivered[x]]
  /\ LogQueue' = Tail(LogQueue)
  /\ UNCHANGED <<Running, logLock, logStructs, pending, spawned, pc,
                 reqFilter, snapshot, connected, appended, regAt, endAt>>

Drain(s) ==
  /\ pc[s] = "drain"
  /\ LogQueue # <<>>
  /\ LET log == Head(LogQueue)
         to  == {x \in DOMAIN snapshot[s] :
                   CanReceive(x) /\ FilterAccepts(snapshot[s][x], log.type)}
     IN delivered' = [x \in Subs |->
                        IF x \in to THEN Append(delivered[x], log)
                        ELSE delivered[x]]
  /\ LogQueue' = Tail(LogQueue)
  /\ UNCHANGED <<Running, logLock, logStructs, pending, spawned, pc,
                 reqFilter, snapshot, connected, appended, regAt, endAt>>

\* Queue empty: LogLock.Unlock(); time.Sleep(1ms); back to the loop test.
\* The snapshot is local to the loop body and dies here.
Unlock(s) ==
  /\ pc[s] = "drain"
  /\ LogQueue = <<>>
  /\ logLock' = None
  /\ snapshot' = [snapshot EXCEPT ![s] = <<>>]
  /\ pc' = [pc EXCEPT ![s] = "check"]
  /\ UNCHANGED <<Running, LogQueue, logStructs, pending, spawned, reqFilter,
                 connected, appended, delivered, regAt, endAt>>

\* return nil, running the deferred removeLogStruct(uid).
ReturnNoRemove(s) == \* mutant: the defer is missing
  /\ pc[s] = "exit"
  /\ pc' = [pc EXCEPT ![s] = "done"]
  /\ CloseWindow(s)
  /\ UNCHANGED <<Running, LogQueue, logLock, logStructs, pending, spawned,
                 reqFilter, snapshot, connected, appended, delivered, regAt>>

RemoveLogStruct(s) ==
  /\ pc[s] = "exit"
  /\ logStructs' = [x \in DOMAIN logStructs \ {s} |-> logStructs[x]]
  /\ pc' = [pc EXCEPT ![s] = "done"]
  /\ CloseWindow(s)
  /\ UNCHANGED <<Running, LogQueue, logLock, pending, spawned, reqFilter,
                 snapshot, connected, appended, delivered, regAt>>

-----------------------------------------------------------------------------
(* Environment *)

\* The client cancels its stream; the handler is not told.
ClientCancel(s) ==
  /\ pc[s] \notin {"idle", "done"}
  /\ connected[s]
  /\ connected' = [connected EXCEPT ![s] = FALSE]
  /\ CloseWindow(s)
  /\ UNCHANGED <<Running, LogQueue, logLock, logStructs, pending, spawned,
                 pc, reqFilter, snapshot, appended, delivered, regAt>>

\* DestroyFeeder: Running = false (then sleep, close the listener, wait).
DestroyFeeder ==
  /\ Running
  /\ Running' = FALSE
  /\ UNCHANGED <<LogQueue, logLock, logStructs, pending, spawned, pc,
                 reqFilter, snapshot, connected, appended, delivered, regAt,
                 endAt>>

\* After shutdown every handler has returned and every log was pushed:
\* the agent process exits.
Terminated ==
  /\ ~Running
  /\ \A s \in Subs : pc[s] = "done"
  /\ pending = {} /\ spawned = MaxLogs
  /\ UNCHANGED vars

-----------------------------------------------------------------------------
\* NewFeeder registers a LogService whose subscriber tables start empty.
NewLogService == logStructs = <<>>

Init ==
  /\ Running = TRUE
  /\ LogQueue = <<>>
  /\ logLock = None
  /\ NewLogService
  /\ pending = {}
  /\ spawned = 0
  /\ pc = [s \in Subs |-> "idle"]
  /\ reqFilter = [s \in Subs |-> None]
  /\ snapshot = [s \in Subs |-> <<>>]
  /\ connected = [s \in Subs |-> TRUE]
  /\ appended = <<>>
  /\ delivered = [s \in Subs |-> <<>>]
  /\ regAt = [s \in Subs |-> 0]
  /\ endAt = [s \in Subs |-> None]

Subscriber(s) ==
  \/ AddLogStruct(s) \/ LoopContinue(s) \/ LoopExit(s) \/ Lock(s)
  \/ Drain(s) \/ Unlock(s) \/ RemoveLogStruct(s)

Next ==
  \/ Spawn
  \/ \E l \in pending : PushLog(l)
  \/ \E s \in Subs : Subscriber(s) \/ ClientCancel(s)
  \/ DestroyFeeder
  \/ Terminated

(***************************************************************************)
(* Fairness: the Go scheduler runs every runnable goroutine, so each step  *)
(* of a started handler and each PushLog goroutine is weakly fair. Lock is *)
(* strongly fair: LogLock is released after every pass and sync.Mutex's    *)
(* starvation mode hands it to a waiter that keeps losing it. Clients      *)
(* calling or cancelling, and the shutdown, are not forced to happen.      *)
(***************************************************************************)
Fairness ==
  /\ \A s \in Subs :
       /\ WF_vars(LoopContinue(s) \/ LoopExit(s))
       /\ SF_vars(Lock(s))
       /\ WF_vars(Drain(s) \/ Unlock(s))
       /\ WF_vars(RemoveLogStruct(s))
  /\ WF_vars(\E l \in pending : PushLog(l))

Spec == Init /\ [][Next]_vars /\ Fairness

-----------------------------------------------------------------------------
\* Position of a log in the LogQueue append order.
PosOf(log) == CHOOSE p \in 1..Len(appended) : appended[p] = log

(***************************************************************************)
(* Per-subscriber FIFO, exactly once, filtered (spec 4.7, invariant 5 and  *)
(* the per-subscriber FIFO of section 5): what a WatchLogs client receives *)
(* are logs its filter accepts, each at most once, in the order PushLog    *)
(* appended them, although several WatchLogs goroutines drain the one      *)
(* global queue, each sending to its own snapshot of the subscribers.      *)
(***************************************************************************)
DeliveryOrdered ==
  \A s \in Subs :
    /\ \A k \in 1..Len(delivered[s]) :
         FilterAccepts(reqFilter[s], delivered[s][k].type)
    /\ \A k \in 1..Len(delivered[s]) - 1 :
         PosOf(delivered[s][k]) < PosOf(delivered[s][k + 1])

(***************************************************************************)
(* No loss for a live subscriber: every log appended after a WatchLogs     *)
(* call registered, and taken off the queue (by any goroutine) before that *)
(* client cancelled or the handler unregistered, reached the client if its *)
(* filter accepts it. This holds only because each drain pass re-reads the *)
(* LogStructs after taking LogLock, the lock PushLog needs.                *)
(***************************************************************************)
NoLossForRegistered ==
  \A s \in Subs : pc[s] # "idle" =>
    LET upper == IF endAt[s] = None THEN Dequeued ELSE endAt[s]
    IN \A p \in regAt[s] + 1 .. upper :
         FilterAccepts(reqFilter[s], appended[p].type) =>
           \E k \in 1..Len(delivered[s]) : delivered[s][k] = appended[p]

(***************************************************************************)
(* Progress of the drain loop: while the feeder runs and some WatchLogs    *)
(* handler is active, every log on LogQueue is eventually taken off it.    *)
(***************************************************************************)
QueueDrained ==
  \A i \in 1..MaxLogs :
    (/\ Running
     /\ \E p \in 1..Len(LogQueue) : LogQueue[p].id = i
     /\ \E s \in Subs : pc[s] \notin {"idle", "done"})
    ~> (~Running \/ \A p \in 1..Len(LogQueue) : LogQueue[p].id # i)

(***************************************************************************)
(* Shutdown releases subscribers (spec invariant 8 and 4.7): once Running  *)
(* is cleared, every WatchLogs handler that was called returns and its     *)
(* LogStruct is removed, so the subscriber table ends empty.               *)
(***************************************************************************)
ShutdownUnregisters ==
  \A s \in Subs :
    (~Running /\ pc[s] # "idle") ~> (pc[s] = "done" /\ s \notin DOMAIN logStructs)

(***************************************************************************)
(* Spec 4.7 / state machine: a subscriber whose client cancelled (its Send *)
(* fails) is unregistered. The code ignores Send errors and only leaves    *)
(* the loop when Running is cleared.                                       *)
(***************************************************************************)
CancelledUnregistered ==
  \A s \in Subs :
    (pc[s] # "idle" /\ ~connected[s]) ~> (s \notin DOMAIN logStructs)

(***************************************************************************)
(* Refinement: the feeder's goroutines, locks and snapshots implement the  *)
(* LogBroadcast promise. The stream is the LogQueue append order, a log is *)
(* served when a WatchLogs goroutine pops it, a client is subscribed while *)
(* its LogStruct is in ls.LogStructs and live until it cancels. This is    *)
(* what makes the snapshot taken under LogLock safe: a client registered   *)
(* before a log was pushed is in the snapshot of the pass that pops it.    *)
(***************************************************************************)
Broadcast == INSTANCE LogBroadcast
  WITH stream <- appended, served <- Dequeued, subs <- logStructs,
       since <- regAt, live <- {x \in Subs : connected[x]},
       received <- delivered, Logs <- PbLog,
       Accepts <- LAMBDA f, l : FilterAccepts(f, l.type)

ImplementsLogBroadcast == Broadcast!Spec

=============================================================================

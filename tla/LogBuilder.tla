----------------------------- MODULE LogBuilder ----------------------------
(***************************************************************************)
(* The system monitor's log builder: UpdateLogs, BuildLogBase and          *)
(* GetNameFromContainerID (src/KubeArmor/types/types.go, monitor part).    *)
(*                                                                         *)
(* UpdateLogs loops on a select over StopChan and ContextChan. For each    *)
(* event it builds the log base (container names from the registry, pids,  *)
(* source exec path), shapes the log by syscall, drops some events, sets   *)
(* Result from Retval, and hands the log to `go LogFeeder.PushLog(log)`.   *)
(* The hand-off is the sequence `out`; the feeder side is LogFeeder.       *)
(*                                                                         *)
(* Syscall arguments are Go interface{} values: a record with the dynamic  *)
(* type in `kind` and the value in `val`, so type assertions are modelled. *)
(* Strings are TLA+ strings; Itoa is ToString; a comm is a sequence of     *)
(* one-character strings with NUL for the zero byte.                       *)
(***************************************************************************)
EXTENDS Integers, Sequences, SequencesExt, TLC

CONSTANTS
  Registry,          \* containerID -> [ns, pod, name] at start
  Events,            \* ContextCombined values the kernel side may deliver
  MaxEvents,         \* bound on the events delivered
  ExecPaths,         \* <<containerID, pid>> -> exec path known to the tracker
  ErrnoNames,        \* errno table of getErrorMessage: retval -> name
  EnableAuditd,      \* mon.EnableAuditd
  PERMISSION_DENIED, \* -EACCES
  NUL                \* the zero byte of a comm

VARIABLES
  Containers,  \* mon.Containers: containerID -> names (read-only here)
  ContextChan, \* mon.ContextChan, buffered
  stopped,     \* StopChan is closed
  running,     \* the UpdateLogs goroutine has not returned
  delivered,   \* number of events the kernel side has sent
  consumed,    \* history: events UpdateLogs took from ContextChan
  out          \* logs handed to PushLog, in order

vars == <<Containers, ContextChan, stopped, running, delivered, consumed, out>>

(* The uint32 ids of an event (host pid, ppid, pid, uid) are records     *)
(* [hi, lo]: the top bit and the low 31 bits, since TLC integers stop at  *)
(* 2^31 - 1 and a uid can be as large as 2^32 - 1.                        *)
MaxInt32 == 2147483647

SignDropped(u) == u.lo \* mutant: int32(x & 0x7fffffff), the top bit lost

\* int32(x) of a uint32: the top bit becomes the sign (two's complement).
Int32(u) == IF u.hi = 1 THEN u.lo - MaxInt32 - 1 ELSE u.lo

\* GetExecPath is outside src/ (process tree, spec 4.4): "" when unknown.
GetExecPath(cid, pid) ==
  IF <<cid, pid>> \in DOMAIN ExecPaths THEN ExecPaths[<<cid, pid>>] ELSE ""

\* getErrorMessage is outside src/ (spec 4.5 errno table).
GetErrorMessage(retval) ==
  IF retval \in DOMAIN ErrnoNames THEN ErrnoNames[retval] ELSE ""

\* getSyscallName: events carry their syscall by name in this model.
GetSyscallName(id) == id

GetNameFromContainerID(cid) ==
  IF cid \in DOMAIN Containers
  THEN <<Containers[cid].ns, Containers[cid].pod, Containers[cid].name>>
  ELSE <<"", "", "">>

\* string(Comm[:bytes.IndexByte(Comm[:], 0)]); a comm without NUL makes
\* IndexByte return -1 and the slice panics.
CommString(comm) ==
  LET nul == SelectInSeq(comm, LAMBDA b : b = NUL)
  IN IF nul = 0 THEN "panic"
     ELSE FoldLeft(LAMBDA acc, b : acc \o b, "", SubSeq(comm, 1, nul - 1))

BuildLogBase(msg) ==
  LET names == GetNameFromContainerID(msg.cid)
      path  == IF msg.eventId \in {"execve", "execveat"}
               THEN GetExecPath(msg.cid, msg.ppid)
               ELSE GetExecPath(msg.cid, msg.pid)
  IN [containerID |-> msg.cid,
      namespaceName |-> names[1], podName |-> names[2],
      containerName |-> names[3],
      hostPid |-> Int32(msg.hostPid), ppid |-> Int32(msg.ppid),
      pid |-> Int32(msg.pid), uid |-> Int32(msg.uid),
      source |-> IF path = "" THEN CommString(msg.comm) ELSE path]

(* Type assertions on ContextArgs[i]: the zero value when the dynamic    *)
(* type differs.                                                          *)
AsString(v) == IF v.kind = "string" THEN v.val ELSE ""
AsItoa(v)   == IF v.kind = "int32" THEN ToString(v.val) ELSE ""
AsMap(v)    == IF v.kind = "map" THEN v.val ELSE <<>>

\* for k, v := range sockAddr { r = r + " " + k + "=" + v }: Go visits the
\* keys in a random order, so this is the set of possible results.
SockAddrStrings(prefix, m) ==
  { FoldLeft(LAMBDA acc, k : acc \o " " \o k \o "=" \o m[k], prefix, order) :
      order \in SetToSeqs(DOMAIN m) }

\* The switch on EventID: the possible [operation, resource, data].
Shapes(msg) ==
  LET a == msg.args
      n == Len(a)
      name == GetSyscallName(msg.eventId)
      arg(i) == a[i]
  IN CASE msg.eventId = "open" ->
            {[operation |-> "File",
              resource |-> IF n = 2 THEN AsString(arg(1)) ELSE "",
              data |-> "flags=" \o (IF n = 2 THEN AsString(arg(2)) ELSE "")]}
       [] msg.eventId = "openat" ->
            {[operation |-> "File",
              resource |-> IF n = 3 THEN AsString(arg(2)) ELSE "",
              data |-> "fd=" \o (IF n = 3 THEN AsItoa(arg(1)) ELSE "")
                       \o " flags=" \o (IF n = 3 THEN AsString(arg(3)) ELSE "")]}
       [] msg.eventId = "close" ->
            {[operation |-> "File", resource |-> name,
              data |-> "fd=" \o (IF n = 1 THEN AsItoa(arg(1)) ELSE "")]}
       [] msg.eventId = "socket" ->
            {[operation |-> "Network",
              resource |-> "syscall=" \o name
                 \o " domain=" \o (IF n = 3 THEN AsString(arg(1)) ELSE "")
                 \o " type=" \o (IF n = 3 THEN AsString(arg(2)) ELSE "")
                 \o " protocol=" \o (IF n = 3 THEN AsItoa(arg(3)) ELSE ""),
              data |-> ""]}
       [] msg.eventId \in {"connect", "accept", "bind"} ->
            { [operation |-> "Network", resource |-> r,
               data |-> "fd=" \o (IF n = 2 THEN AsItoa(arg(1)) ELSE "")] :
                r \in SockAddrStrings("syscall=" \o name,
                                      IF n = 2 THEN AsMap(arg(2)) ELSE <<>>) }
       [] msg.eventId = "listen" ->
            {[operation |-> "Network", resource |-> "syscall=" \o name,
              data |-> "fd=" \o (IF n = 2 THEN AsItoa(arg(1)) ELSE "")]}

Handled == {"open", "openat", "close", "socket", "connect", "accept", "bind",
            "listen"}

DroppedAllFileEvents(msg) == \* mutant: auditd test applied to every syscall
  \/ msg.eventId \notin Handled
  \/ EnableAuditd /\ msg.retval = PERMISSION_DENIED

\* `default: continue`, and the auditd `continue` of open and openat.
Dropped(msg) ==
  \/ msg.eventId \notin Handled
  \/ /\ msg.eventId \in {"open", "openat"}
     /\ EnableAuditd /\ msg.retval = PERMISSION_DENIED

Result(retval) ==
  IF retval < 0
  THEN IF GetErrorMessage(retval) # ""
       THEN GetErrorMessage(retval)
       ELSE "Unknown (" \o ToString(retval) \o ")"
  ELSE "Passed"

\* The logs UpdateLogs may hand to PushLog for msg.
BuiltLogs(msg) ==
  { BuildLogBase(msg) @@ shape @@ [result |-> Result(msg.retval)] :
      shape \in Shapes(msg) }

-----------------------------------------------------------------------------
\* The kernel side sends an event on ContextChan.
SendEvent ==
  /\ delivered < MaxEvents
  /\ \E e \in Events : ContextChan' = Append(ContextChan, e)
  /\ delivered' = delivered + 1
  /\ UNCHANGED <<Containers, stopped, running, consumed, out>>

\* One iteration of UpdateLogs taking msg from ContextChan.
UpdateLogs ==
  /\ running
  /\ ContextChan # <<>>
  /\ LET msg == Head(ContextChan)
     IN /\ consumed' = Append(consumed, msg)
        /\ IF Dropped(msg)
           THEN UNCHANGED out
           ELSE \E log \in BuiltLogs(msg) : out' = Append(out, log)
  /\ ContextChan' = Tail(ContextChan)
  /\ UNCHANGED <<Containers, stopped, running, delivered>>

\* The monitor is destroyed: StopChan is closed.
CloseStopChan ==
  /\ ~stopped
  /\ stopped' = TRUE
  /\ UNCHANGED <<Containers, ContextChan, running, delivered, consumed, out>>

\* select picks the closed StopChan (at random when both are ready): return.
Return ==
  /\ running /\ stopped
  /\ running' = FALSE
  /\ UNCHANGED <<Containers, ContextChan, stopped, delivered, consumed, out>>

\* Every event sent and the goroutine returned: the monitor is gone.
Finished ==
  /\ ~running /\ delivered = MaxEvents
  /\ UNCHANGED vars

Init ==
  /\ Containers = Registry
  /\ ContextChan = <<>>
  /\ stopped = FALSE
  /\ running = TRUE
  /\ delivered = 0
  /\ consumed = <<>>
  /\ out = <<>>

Next == SendEvent \/ UpdateLogs \/ CloseStopChan \/ Return \/ Finished

Spec == Init /\ [][Next]_vars

-----------------------------------------------------------------------------
(***************************************************************************)
(* The log contract of spec 4.5 and invariants 1-4, written from the spec: *)
(* the reference the builder is checked against.                          *)
(***************************************************************************)
ArgVal(msg, i) == msg.args[i].val

\* Spec 4.5: the operation, resource and data a log of msg must carry.
ShapeConforms(log, msg) ==
  LET id == msg.eventId
      fd(i) == ToString(ArgVal(msg, i))
  IN CASE id = "open" ->
            /\ log.operation = "File" /\ log.resource = ArgVal(msg, 1)
            /\ log.data = "flags=" \o ArgVal(msg, 2)
       [] id = "openat" ->
            /\ log.operation = "File" /\ log.resource = ArgVal(msg, 2)
            /\ log.data = "fd=" \o fd(1) \o " flags=" \o ArgVal(msg, 3)
       [] id = "close" ->
            /\ log.operation = "File" /\ log.resource = "close"
            /\ log.data = "fd=" \o fd(1)
       [] id = "socket" ->
            /\ log.operation = "Network" /\ log.data = ""
            /\ log.resource = "syscall=socket domain=" \o ArgVal(msg, 1)
                  \o " type=" \o ArgVal(msg, 2) \o " protocol=" \o fd(3)
       [] id \in {"connect", "accept", "bind"} ->
            LET sa == ArgVal(msg, 2)
            IN /\ log.operation = "Network" /\ log.data = "fd=" \o fd(1)
               /\ \E order \in SetToSeqs(DOMAIN sa) :
                    log.resource = FoldLeft(LAMBDA r, k : r \o " " \o k \o "=" \o sa[k],
                                            "syscall=" \o id, order)
       [] id = "listen" ->
            /\ log.operation = "Network" /\ log.resource = "syscall=listen"
            /\ log.data = "fd=" \o fd(1)
       [] OTHER -> TRUE   \* execve: the spec fixes only the source (S5)

\* The wire fields are int32 (spec section 4.7): the log carries the 32
\* bits of the event's id, so it is negative exactly when the top bit is
\* set and differs from the low 31 bits by 0 or -2^31.
SameBits(v, u) ==
  /\ (v < 0) = (u.hi = 1)
  /\ v - u.lo \in {0, -MaxInt32 - 1}

\* Spec invariants 1-3 for one log.
LogConforms(log, msg) ==
  LET known == msg.cid \in DOMAIN Containers
      pid   == IF msg.eventId \in {"execve", "execveat"} THEN msg.ppid ELSE msg.pid
      exec  == IF <<msg.cid, pid>> \in DOMAIN ExecPaths
               THEN ExecPaths[<<msg.cid, pid>>] ELSE ""
      nul   == CHOOSE i \in 1..Len(msg.comm) :
                 msg.comm[i] = NUL /\ \A j \in 1..i - 1 : msg.comm[j] # NUL
      comm  == FoldLeft(LAMBDA a, b : a \o b, "", SubSeq(msg.comm, 1, nul - 1))
  IN /\ log.containerID = msg.cid
     /\ log.namespaceName = (IF known THEN Containers[msg.cid].ns ELSE "")
     /\ log.podName = (IF known THEN Containers[msg.cid].pod ELSE "")
     /\ log.containerName = (IF known THEN Containers[msg.cid].name ELSE "")
     /\ \A f \in {"hostPid", "ppid", "pid", "uid"} : SameBits(log[f], msg[f])
     /\ log.source = (IF exec # "" THEN exec ELSE comm)
     /\ ShapeConforms(log, msg)
     /\ log.result =
          IF msg.retval >= 0 THEN "Passed"
          ELSE IF msg.retval \in DOMAIN ErrnoNames THEN ErrnoNames[msg.retval]
          ELSE "Unknown (" \o ToString(msg.retval) \o ")"

\* Spec 4.5: the events that produce a log: every decoded syscall except
\* open/openat denied with EACCES while auditd reports denials.
SpecEmits(msg) ==
  ~(EnableAuditd /\ msg.eventId \in {"open", "openat"}
    /\ msg.retval = PERMISSION_DENIED)

(***************************************************************************)
(* The logs UpdateLogs hands to PushLog are, one for one and in order, the *)
(* logs spec 4.5 requires for the events it took off ContextChan: right    *)
(* container attribution, source exec path or comm, operation, resource    *)
(* and data of the syscall, result from retval, and none for an open or    *)
(* openat denied while auditd is enabled.                                  *)
(***************************************************************************)
LogsFollowContract ==
  LET emitting == SelectSeq(consumed, SpecEmits)
  IN /\ Len(out) = Len(emitting)
     /\ \A k \in 1..Len(out) : LogConforms(out[k], emitting[k])

(***************************************************************************)
(* Spec 4.5 calls the shaped fields a bit-exact contract and policies      *)
(* match resources by string: two logs built from the same event must      *)
(* carry the same resource.                                                *)
(***************************************************************************)
ResourceDeterministic ==
  LET emitting == SelectSeq(consumed, SpecEmits)
  IN \A i, j \in 1..Len(out) :
       emitting[i] = emitting[j] => out[i].resource = out[j].resource

=============================================================================

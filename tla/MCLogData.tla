----------------------------- MODULE MCLogData -----------------------------
(* Model values shared by the LogBuilder and LogPipeline instances: one    *)
(* known container c1, the process-tree and errno tables the spec gives,   *)
(* and constructors for events with the argument tuples of spec section 3. *)
EXTENDS Integers, TLC

MCNul == "NUL"
MCPermissionDenied == -13
MCRegistry == "c1" :> [ns |-> "ns1", pod |-> "web", name |-> "nginx"]
\* A uint32 id by its top bit and low 31 bits (see LogBuilder).
U32(hi, lo) == [hi |-> hi, lo |-> lo]

MCExecPaths == <<"c1", U32(0, 7)>> :> "/usr/sbin/nginx"
               @@ <<"c1", U32(0, 12)>> :> "/usr/sbin/cron"
MCErrnoNames == -13 :> "EACCES" @@ -2 :> "ENOENT"

Int32Arg(v) == [kind |-> "int32", val |-> v]
StrArg(v) == [kind |-> "string", val |-> v]
MapArg(v) == [kind |-> "map", val |-> v]

Comm == <<"s", "h", MCNul, "x">>

Event(cid, id, pid, args, retval) ==
  [cid |-> cid, eventId |-> id, hostPid |-> U32(0, 40 + pid), ppid |-> U32(0, 1),
   pid |-> U32(0, pid), uid |-> U32(0, 0), comm |-> Comm, args |-> args, retval |-> retval]

\* The overflow uid (uid_t)-1 = 2^32 - 1.
OverflowUid == U32(1, 2147483647)

SockAddr == "sa_family" :> "AF_INET" @@ "sin_port" :> "80"
=============================================================================

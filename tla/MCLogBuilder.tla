---------------------------- MODULE MCLogBuilder ---------------------------
(* Model-checking instance of LogBuilder: the container c1 of MCLogData,  *)
(* one container the registry does not know (c9), events of every shaped  *)
(* syscall with the argument tuples spec section 3 gives them; the close  *)
(* is by a process running as the overflow uid 2^32 - 1.                  *)
EXTENDS LogBuilder, MCLogData

\* Every shaped syscall but listen, including the spec's S1/S2 inputs.
MCEvents ==
  { Event("c1", "openat", 7, <<Int32Arg(-100), StrArg("/etc/passwd"),
                                StrArg("O_RDONLY")>>, r) : r \in {0, -13} }
  \cup
  { Event("c9", "open", 8, <<StrArg("/etc/shadow"), StrArg("O_RDWR")>>, -13),
    [Event("c1", "close", 8, <<Int32Arg(3)>>, -99) EXCEPT !.uid = OverflowUid],
    Event("c9", "socket", 7, <<StrArg("AF_INET"), StrArg("SOCK_STREAM"),
                               Int32Arg(6)>>, 3),
    Event("c1", "connect", 7, <<Int32Arg(3), MapArg(SockAddr)>>, -13),
    Event("c1", "accept", 8, <<Int32Arg(3), MapArg(SockAddr)>>, 4),
    Event("c1", "bind", 7, <<Int32Arg(3), MapArg(SockAddr)>>, -2) }

\* listen(fd): spec section 3 gives it the one argument fd.
MCListenEvents == { Event("c1", "listen", 7, <<Int32Arg(3)>>, 0) }

\* Spec S5: execve(path="/bin/sh") by pid 99, child of pid 12.
MCExecEvents ==
  { [cid |-> "c1", eventId |-> "execve", hostPid |-> U32(0, 140),
     ppid |-> U32(0, 12), pid |-> U32(0, 99), uid |-> U32(0, 0), comm |-> Comm, args |-> <<StrArg("/bin/sh")>>,
     retval |-> 0] }

\* The syscalls of spec section 3 that UpdateLogs mishandles.
MCUnshapedEvents == MCListenEvents \cup MCExecEvents

\* A connect whose sockaddr has two keys.
MCConnectEvents ==
  { Event("c1", "connect", 7, <<Int32Arg(3), MapArg(SockAddr)>>, 0) }
=============================================================================

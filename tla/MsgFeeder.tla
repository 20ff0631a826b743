----------------------------- MODULE MsgFeeder -----------------------------
(***************************************************************************)
(* The message path of the feeder (src/KubeArmor/feeder/feeder.go).        *)
(*                                                                         *)
(*  - Agent goroutines call Print/Debug/Err (and their f-variants), which  *)
(*    call PushMessage synchronously: build the record, take MsgLock,      *)
(*    append to the global MsgQueue, release.                              *)
(*  - Each WatchMessages RPC is a goroutine that registers a MsgStruct     *)
(*    under ls.MsgLock, then loops `for Running`: take MsgLock, snapshot   *)
(*    the MsgStructs, pop every queued message and Send it to every        *)
(*    snapshotted client (no filter is applied), release, sleep. On loop   *)
(*    exit the deferred removeMsgStruct unregisters it.                    *)
(*  - Send is a step of its own: a client that stopped reading (a Staller) *)
(*    blocks it, by HTTP/2 flow control, until the client cancels; a       *)
(*    cancelled or finished stream makes it fail at once (error ignored).  *)
(***************************************************************************)
EXTENDS Naturals, Sequences, FiniteSets

CONSTANTS
  Subs,       \* WatchMessages RPC streams
  Producers,  \* goroutines of the agent that log through the feeder
  Levels,     \* "INFO", "DEBUG", "ERROR"
  MaxMsgs,    \* messages each producer emits
  Stallers,   \* clients that stop reading their stream
  None

ASSUME Stallers \subseteq Subs /\ None \notin Subs \cup Producers
ASSUME MaxMsgs \in Nat \ {0}

VARIABLES
  Running,     \* feeder.Running
  MsgQueue,    \* feeder.MsgQueue
  msgLock,     \* holder of feeder.MsgLock (a Sub or a Producer), or None
  msgStructs,  \* ls.MsgStructs: the registered clients
  ppc,         \* producer: "idle" or "push" (inside PushMessage)
  pmsg,        \* the record a producer is pushing
  sent,        \* messages each producer has pushed
  pc,          \* program counter of each WatchMessages goroutine
  snapshot,    \* msgStructs := ls.getMsgStructs()
  cur,         \* msg := MsgQueue[0] being sent
  toSend,      \* snapshotted clients cur is still to be sent to
  connected,   \* the client side of the stream is still open
  fdpc,        \* DestroyFeeder: "serving", "sleeping" (after Running =
               \* false), "returned" (listener closed, WgServer.Wait done)
  \* history variables
  appended, delivered, regAt, endAt

vars == <<Running, MsgQueue, msgLock, msgStructs, ppc, pmsg, sent, pc,
          snapshot, cur, toSend, connected, fdpc, appended, delivered, regAt,
          endAt>>

Msg == [from : Producers, seq : 1..MaxMsgs, level : Levels]
PCs == {"idle", "check", "lock", "drain", "send", "exit", "done"}

Dequeued == Len(appended) - Len(MsgQueue)

\* Send returns at once unless the client is connected but not reading.
SendReturns(x) == x \notin Stallers \/ ~connected[x] \/ pc[x] = "done"

\* Send succeeds only while the client is connected and its handler runs.
CanReceive(x) == connected[x] /\ pc[x] # "done"

\* Messages popped and sent (or skipped) for client x: the one handler
\* inside its send pass holds MsgLock, so only the last popped can be owed.
Settled(x) ==
  IF \E s \in Subs : pc[s] = "send" /\ x \in toSend[s] THEN Dequeued - 1
  ELSE Dequeued

CloseWindow(s) ==
  endAt' = [endAt EXCEPT ![s] = IF @ = None THEN Settled(s) ELSE @]

-----------------------------------------------------------------------------
(* Producers: Print/Printf (INFO), Debug/Debugf (DEBUG), Err/Errf (ERROR) *)

\* fd.Print(message) and friends call fd.PushMessage(level, message).
Emit(p) ==
  /\ ppc[p] = "idle"
  /\ sent[p] < MaxMsgs
  /\ \E lv \in Levels :
       pmsg' = [pmsg EXCEPT ![p] = [from |-> p, seq |-> sent[p] + 1, level |-> lv]]
  /\ ppc' = [ppc EXCEPT ![p] = "push"]
  /\ UNCHANGED <<Running, MsgQueue, msgLock, msgStructs, sent, pc, snapshot,
                 cur, toSend, connected, appended, delivered, regAt, endAt,
                 fdpc>>

PushMessageUnlocked(p) == \* mutant: append without taking MsgLock
  /\ ppc[p] = "push"
  /\ MsgQueue' = Append(MsgQueue, pmsg[p])
  /\ appended' = Append(appended, pmsg[p])
  /\ sent' = [sent EXCEPT ![p] = @ + 1]
  /\ ppc' = [ppc EXCEPT ![p] = "idle"]
  /\ UNCHANGED <<Running, msgLock, msgStructs, pmsg, pc, snapshot, cur,
                 toSend, connected, delivered, regAt, endAt,
                 fdpc>>

\* MsgLock.Lock(); MsgQueue = append(MsgQueue, pbMsg); MsgLock.Unlock()
PushMessage(p) ==
  /\ ppc[p] = "push"
  /\ msgLock = None
  /\ MsgQueue' = Append(MsgQueue, pmsg[p])
  /\ appended' = Append(appended, pmsg[p])
  /\ sent' = [sent EXCEPT ![p] = @ + 1]
  /\ ppc' = [ppc EXCEPT ![p] = "idle"]
  /\ UNCHANGED <<Running, msgLock, msgStructs, pmsg, pc, snapshot, cur,
                 toSend, connected, delivered, regAt, endAt,
                 fdpc>>

-----------------------------------------------------------------------------
(* WatchMessages goroutine s *)

\* uid := uuid; addMsgStruct(uid, svr, req.Filter) (the filter is unused)
AddMsgStruct(s) ==
  /\ pc[s] = "idle"
  /\ msgStructs' = msgStructs \cup {s}
  /\ regAt' = [regAt EXCEPT ![s] = Len(appended)]
  /\ pc' = [pc EXCEPT ![s] = "check"]
  /\ UNCHANGED <<Running, MsgQueue, msgLock, ppc, pmsg, sent, snapshot, cur,
                 toSend, connected, appended, delivered, endAt,
                 fdpc>>

LoopTestForever(s) == \* mutant: the loop does not test Running (`for {`)
  /\ pc[s] = "check"
  /\ pc' = [pc EXCEPT ![s] = "lock"]
  /\ UNCHANGED <<Running, MsgQueue, msgLock, msgStructs, ppc, pmsg, sent,
                 snapshot, cur, toSend, connected, appended, delivered, regAt,
                 endAt, fdpc>>

\* for Running { ... }
LoopTest(s) ==
  /\ pc[s] = "check"
  /\ pc' = [pc EXCEPT ![s] = IF Running THEN "lock" ELSE "exit"]
  /\ UNCHANGED <<Running, MsgQueue, msgLock, msgStructs, ppc, pmsg, sent,
                 snapshot, cur, toSend, connected, appended, delivered, regAt,
                 endAt,
                 fdpc>>

\* MsgLock.Lock(); msgStructs := ls.getMsgStructs()
Lock(s) ==
  /\ pc[s] = "lock"
  /\ msgLock = None
  /\ msgLock' = s
  /\ snapshot' = [snapshot EXCEPT ![s] = msgStructs]
  /\ pc' = [pc EXCEPT ![s] = "drain"]
  /\ UNCHANGED <<Running, MsgQueue, msgStructs, ppc, pmsg, sent, cur, toSend,
                 connected, appended, delivered, regAt, endAt,
                 fdpc>>

PopLast(s) == \* mutant: takes the newest message instead of MsgQueue[0]
  /\ pc[s] = "drain"
  /\ MsgQueue # <<>>
  /\ cur' = [cur EXCEPT ![s] = MsgQueue[Len(MsgQueue)]]
  /\ MsgQueue' = SubSeq(MsgQueue, 1, Len(MsgQueue) - 1)
  /\ toSend' = [toSend EXCEPT ![s] = snapshot[s]]
  /\ pc' = [pc EXCEPT ![s] = IF snapshot[s] = {} THEN "drain" ELSE "send"]
  /\ UNCHANGED <<Running, msgLock, msgStructs, ppc, pmsg, sent, snapshot,
                 connected, appended, delivered, regAt, endAt,
                 fdpc>>

\* msg := MsgQueue[0]; MsgQueue = MsgQueue[1:]
Pop(s) ==
  /\ pc[s] = "drain"
  /\ MsgQueue # <<>>
  /\ cur' = [cur EXCEPT ![s] = Head(MsgQueue)]
  /\ MsgQueue' = Tail(MsgQueue)
  /\ toSend' = [toSend EXCEPT ![s] = snapshot[s]]
  /\ pc' = [pc EXCEPT ![s] = IF snapshot[s] = {} THEN "drain" ELSE "send"]
  /\ UNCHANGED <<Running, msgLock, msgStructs, ppc, pmsg, sent, snapshot,
                 connected, appended, delivered, regAt, endAt,
                 fdpc>>

\* for _, mgs := range msgStructs { mgs.Client.Send(&msg) }: one client.
Send(s, x) ==
  /\ pc[s] = "send"
  /\ x \in toSend[s]
  /\ SendReturns(x)
  /\ delivered' = IF CanReceive(x)
                  THEN [delivered EXCEPT ![x] = Append(@, cur[s])]
                  ELSE delivered
  /\ toSend' = [toSend EXCEPT ![s] = @ \ {x}]
  /\ pc' = [pc EXCEPT ![s] = IF toSend'[s] = {} THEN "drain" ELSE "send"]
  /\ UNCHANGED <<Running, MsgQueue, msgLock, msgStructs, ppc, pmsg, sent,
                 snapshot, cur, connected, appended, regAt, endAt,
                 fdpc>>

UnlockKept(s) == \* mutant: polls the empty queue again without releasing
  /\ pc[s] = "drain"
  /\ MsgQueue = <<>>
  /\ UNCHANGED vars

\* MsgLock.Unlock(); time.Sleep(1ms)
Unlock(s) ==
  /\ pc[s] = "drain"
  /\ MsgQueue = <<>>
  /\ msgLock' = None
  /\ snapshot' = [snapshot EXCEPT ![s] = {}]
  /\ pc' = [pc EXCEPT ![s] = "check"]
  /\ UNCHANGED <<Running, MsgQueue, msgStructs, ppc, pmsg, sent, cur, toSend,
                 connected, appended, delivered, regAt, endAt,
                 fdpc>>

\* return nil, running the deferred removeMsgStruct(uid).
RemoveMsgStruct(s) ==
  /\ pc[s] = "exit"
  /\ msgStructs' = msgStructs \ {s}
  /\ pc' = [pc EXCEPT ![s] = "done"]
  /\ CloseWindow(s)
  /\ UNCHANGED <<Running, MsgQueue, msgLock, ppc, pmsg, sent, snapshot, cur,
                 toSend, connected, appended, delivered, regAt,
                 fdpc>>

-----------------------------------------------------------------------------
(* Environment *)

ClientCancel(s) ==
  /\ pc[s] \notin {"idle", "done"}
  /\ connected[s]
  /\ connected' = [connected EXCEPT ![s] = FALSE]
  /\ CloseWindow(s)
  /\ UNCHANGED <<Running, MsgQueue, msgLock, msgStructs, ppc, pmsg, sent, pc,
                 snapshot, cur, toSend, appended, delivered, regAt,
                 fdpc>>

\* DestroyFeeder: Running = false; then time.Sleep(1s).
DestroyFeeder ==
  /\ fdpc = "serving"
  /\ Running' = FALSE
  /\ fdpc' = "sleeping"
  /\ UNCHANGED <<MsgQueue, msgLock, msgStructs, ppc, pmsg, sent, pc, snapshot,
                 cur, toSend, connected, appended, delivered, regAt, endAt>>

\* Handler s cannot move: its Send blocks on a client that stopped
\* reading, or it waits for MsgLock held by such a handler.
Blocked(s) ==
  LET stuck(h) == pc[h] = "send" /\ \A x \in toSend[h] : ~SendReturns(x)
  IN \/ stuck(s)
     \/ pc[s] = "lock" /\ msgLock \in Subs /\ stuck(msgLock)

\* The rest of DestroyFeeder, after the one-second sleep: listener.Close()
\* makes logServer.Serve return, so ServeLogFeeds runs its deferred
\* WgServer.Done() and WgServer.Wait() returns. The sleep is a thousand
\* loop periods of the handlers: every handler that can move has left its
\* loop by then (an idle one is an RPC not yet started).
CloseListener ==
  /\ fdpc = "sleeping"
  /\ \A s \in Subs : pc[s] \in {"idle", "done"} \/ Blocked(s)
  /\ fdpc' = "returned"
  /\ UNCHANGED <<Running, MsgQueue, msgLock, msgStructs, ppc, pmsg, sent, pc,
                 snapshot, cur, toSend, connected, appended, delivered, regAt,
                 endAt>>

\* Every producer done and DestroyFeeder returned: the process exits.
Terminated ==
  /\ fdpc = "returned"
  /\ \A s \in Subs : pc[s] = "done"
  /\ \A p \in Producers : ppc[p] = "idle" /\ sent[p] = MaxMsgs
  /\ UNCHANGED vars

-----------------------------------------------------------------------------
\* NewFeeder registers a LogService whose subscriber tables start empty.
NewLogService == msgStructs = {}

Init ==
  /\ Running = TRUE
  /\ MsgQueue = <<>>
  /\ msgLock = None
  /\ NewLogService
  /\ ppc = [p \in Producers |-> "idle"]
  /\ pmsg = [p \in Producers |-> None]
  /\ sent = [p \in Producers |-> 0]
  /\ pc = [s \in Subs |-> "idle"]
  /\ snapshot = [s \in Subs |-> {}]
  /\ cur = [s \in Subs |-> None]
  /\ toSend = [s \in Subs |-> {}]
  /\ connected = [s \in Subs |-> TRUE]
  /\ fdpc = "serving"
  /\ appended = <<>>
  /\ delivered = [s \in Subs |-> <<>>]
  /\ regAt = [s \in Subs |-> 0]
  /\ endAt = [s \in Subs |-> None]

Handler(s) ==
  \/ AddMsgStruct(s) \/ LoopTest(s) \/ Lock(s) \/ Pop(s)
  \/ \E x \in Subs : Send(s, x)
  \/ Unlock(s) \/ RemoveMsgStruct(s)

Next ==
  \/ \E p \in Producers : Emit(p) \/ PushMessage(p)
  \/ \E s \in Subs : Handler(s) \/ ClientCancel(s)
  \/ DestroyFeeder \/ CloseListener
  \/ Terminated

(***************************************************************************)
(* Fairness: every started goroutine is scheduled (WF on its steps); the   *)
(* mutex is handed to a waiter that keeps asking (SF on the two Lock       *)
(* sites, sync.Mutex starvation mode). Whether a producer logs again, and  *)
(* clients, cancels and shutdown, are not forced.                          *)
(***************************************************************************)
Fairness ==
  /\ \A p \in Producers : SF_vars(PushMessage(p))
  /\ \A s \in Subs :
       /\ WF_vars(LoopTest(s)) /\ SF_vars(Lock(s))
       /\ WF_vars(Pop(s) \/ Unlock(s) \/ \E x \in Subs : Send(s, x))
       /\ WF_vars(RemoveMsgStruct(s))
  /\ WF_vars(CloseListener)

Spec == Init /\ [][Next]_vars /\ Fairness

-----------------------------------------------------------------------------
(***************************************************************************)
(* FIFO per producer (spec section 5, "FIFO per-producer is preserved"):   *)
(* a WatchMessages client receives the messages of one agent goroutine     *)
(* once each and in the order it called Print/Debug/Err, although several  *)
(* handlers pop the one MsgQueue and send to their own snapshots.          *)
(***************************************************************************)
PerProducerFIFO ==
  \A x \in Subs : \A i, j \in 1..Len(delivered[x]) :
    (i < j /\ delivered[x][i].from = delivered[x][j].from)
      => delivered[x][i].seq < delivered[x][j].seq

(***************************************************************************)
(* No message is lost for a registered client: every message pushed after *)
(* WatchMessages registered x, and whose send pass ended before x         *)
(* cancelled or unregistered, reached x.                                   *)
(***************************************************************************)
MsgNoLoss ==
  \A x \in Subs : pc[x] # "idle" =>
    LET upper == IF endAt[x] = None THEN Settled(x) ELSE endAt[x]
    IN \A p \in regAt[x] + 1 .. upper :
           \E k \in 1..Len(delivered[x]) : delivered[x][k] = appended[p]

(***************************************************************************)
(* Logging never blocks the agent (spec section 5: "RPC subscribers that   *)
(* cannot keep up are unregistered rather than blocking the queue"; no     *)
(* operation blocks indefinitely): every Print/Debug/Err call returns.     *)
(* PushMessage needs MsgLock, which WatchMessages holds across Send.       *)
(***************************************************************************)
PushReturns == \A p \in Producers : (ppc[p] = "push") ~> (ppc[p] = "idle")

(***************************************************************************)
(* Shutdown ends every handler when clients keep reading (spec section 5,  *)
(* invariant 8): once DestroyFeeder has cleared Running, every started     *)
(* WatchMessages handler leaves its loop, releases MsgLock and runs its    *)
(* deferred removeMsgStruct.                                               *)
(***************************************************************************)
HandlersExit ==
  ~Running ~> \A s \in Subs : pc[s] \in {"idle", "done"} /\ s \notin msgStructs

(***************************************************************************)
(* Shutdown joins the tasks (spec section 5 and invariant 8: every task    *)
(* exits at its next suspension point and the task group is joined before *)
(* the process exits): once DestroyFeeder has returned, no WatchMessages   *)
(* handler is still inside its loop body, holding or waiting for MsgLock.  *)
(* DestroyFeeder's WgServer.Wait counts only the ServeLogFeeds goroutine.  *)
(* (An RPC started after the shutdown sees Running false and returns.)    *)
(***************************************************************************)
HandlersJoined ==
  fdpc = "returned" => \A s \in Subs : pc[s] \notin {"lock", "drain", "send"}

=============================================================================

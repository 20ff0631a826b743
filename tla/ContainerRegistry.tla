------------------------- MODULE ContainerRegistry -------------------------
(***************************************************************************)
(* mon.Containers under mon.ContainersLock: the container watcher (outside *)
(* src/, spec 4.1: writes serialized under the write lock) and the reader  *)
(* GetNameFromContainerID (types.go 384-396), called by UpdateLogs for     *)
(* every event. The reader copies the sync.RWMutex by value               *)
(* (`ContainersLock := *(mon.ContainersLock)`) and RLocks the copy: the    *)
(* copy carries the lock state of the moment it was taken and nobody       *)
(* else ever touches it.                                                   *)
(*                                                                         *)
(* A Go map write is not atomic: `writing` is the map's hashWriting        *)
(* window. A read inside it is a data race; the runtime may throw          *)
(* "concurrent map read and map write" (the agent dies) or return the old  *)
(* or the new entry.                                                       *)
(***************************************************************************)
EXTENDS Naturals

CONSTANTS
  Cids,        \* container ids
  MaxWrites,   \* watcher updates
  MaxLookups   \* GetNameFromContainerID calls

VARIABLES
  Containers,  \* ids present in mon.Containers
  wLocked,     \* mon.ContainersLock held for writing (no reader ever
               \* RLocks the real mutex, so only writers exclude writers)
  writing,     \* a map assignment/delete is in progress
  wpc, wop,    \* watcher: program counter, the pending upsert/delete
  writes,
  rpc,         \* reader: "idle", "copied", "locked"
  copyLocked,  \* write-held state of the reader's copy of the mutex
  lookups,
  result,      \* what the last lookup returned
  crashed      \* the Go runtime threw on a concurrent map access

vars == <<Containers, wLocked, writing, wpc, wop, writes, rpc,
          copyLocked, lookups, result, crashed>>

Ops == {"upsert", "remove"} \X Cids

\* The map once op has been applied.
Applied(op, m) == IF op[1] = "upsert" THEN m \cup {op[2]} ELSE m \ {op[2]}

-----------------------------------------------------------------------------
(* The container watcher, modelled from spec 4.1 (not under src/):        *)
(* ContainersLock.Lock(); Containers[id] = c / delete(...); Unlock().     *)

WLock ==
  /\ wpc = "idle" /\ writes < MaxWrites
  /\ ~wLocked
  /\ wLocked' = TRUE
  /\ \E op \in Ops : wop' = op
  /\ wpc' = "locked"
  /\ UNCHANGED <<Containers, writing, writes, rpc, copyLocked,
                 lookups, result, crashed>>

WriteBegin ==
  /\ wpc = "locked"
  /\ writing' = TRUE
  /\ wpc' = "writing"
  /\ UNCHANGED <<Containers, wLocked, wop, writes, rpc, copyLocked,
                 lookups, result, crashed>>

WriteEnd ==
  /\ wpc = "writing"
  /\ Containers' = Applied(wop, Containers)
  /\ writing' = FALSE
  /\ wpc' = "written"
  /\ UNCHANGED <<wLocked, wop, writes, rpc, copyLocked, lookups,
                 result, crashed>>

WUnlock ==
  /\ wpc = "written"
  /\ wLocked' = FALSE
  /\ writes' = writes + 1
  /\ wpc' = "idle"
  /\ UNCHANGED <<Containers, writing, wop, rpc, copyLocked, lookups,
                 result, crashed>>

-----------------------------------------------------------------------------
(* GetNameFromContainerID(containerID) *)

\* Containers := *(mon.Containers); ContainersLock := *(mon.ContainersLock)
CopyLock ==
  /\ rpc = "idle" /\ lookups < MaxLookups
  /\ copyLocked' = wLocked
  /\ rpc' = "copied"
  /\ UNCHANGED <<Containers, wLocked, writing, wpc, wop, writes,
                 lookups, result, crashed>>

\* ContainersLock.RLock(): on the copy; waits while the copy is write-held.
RLockCopy ==
  /\ rpc = "copied"
  /\ ~copyLocked
  /\ rpc' = "locked"
  /\ UNCHANGED <<Containers, wLocked, writing, wpc, wop, writes,
                 copyLocked, lookups, result, crashed>>

\* if val, ok := Containers[containerID]; ok { return names }; return "";
\* then the deferred RUnlock of the copy.
Lookup ==
  /\ rpc = "locked"
  /\ \E c \in Cids :
       IF writing
       THEN \/ crashed' = TRUE /\ UNCHANGED result
            \/ /\ result' \in {c \in Containers, c \in Applied(wop, Containers)}
               /\ UNCHANGED crashed
       ELSE result' = (c \in Containers) /\ UNCHANGED crashed
  /\ rpc' = "idle"
  /\ lookups' = lookups + 1
  /\ UNCHANGED <<Containers, wLocked, writing, wpc, wop, writes,
                 copyLocked>>

-----------------------------------------------------------------------------
Init ==
  /\ Containers = {}
  /\ wLocked = FALSE /\ writing = FALSE
  /\ wpc = "idle" /\ wop = <<"upsert", CHOOSE c \in Cids : TRUE>>
  /\ writes = 0
  /\ rpc = "idle" /\ copyLocked = FALSE /\ lookups = 0
  /\ result = FALSE /\ crashed = FALSE

Next ==
  /\ ~crashed
  /\ \/ WLock \/ WriteBegin \/ WriteEnd \/ WUnlock
     \/ CopyLock \/ RLockCopy \/ Lookup

Fairness ==
  /\ WF_vars(WriteBegin) /\ WF_vars(WriteEnd) /\ WF_vars(WUnlock)
  /\ WF_vars(RLockCopy) /\ WF_vars(Lookup)

Spec == Init /\ [][Next]_vars /\ Fairness

-----------------------------------------------------------------------------
(***************************************************************************)
(* Spec 4.1 and section 5: writes to the registry are serialized and      *)
(* reads take the shared lock, so a GetNameFromContainerID lookup never    *)
(* overlaps the watcher's critical section. Locking a by-value copy of     *)
(* the RWMutex excludes nobody.                                            *)
(***************************************************************************)
ReadExclusion == ~(rpc = "locked" /\ wpc \in {"locked", "writing", "written"})

=============================================================================

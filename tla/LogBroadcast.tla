---------------------------- MODULE LogBroadcast ----------------------------
(***************************************************************************)
(* What the log feeder promises its WatchLogs clients (spec 4.7 and the    *)
(* per-subscriber FIFO of section 5), free of locks, goroutines and        *)
(* snapshots: logs are published to one append-only stream and served     *)
(* from it in order, one at a time. Serving a log hands it to every live   *)
(* subscriber whose filter accepts it and that subscribed before the log   *)
(* was published; it may also reach live subscribers that subscribed       *)
(* later, but never a cancelled or unsubscribed one.                       *)
(***************************************************************************)
EXTENDS Naturals, Sequences, TLC

CONSTANTS Subs, Filters, Logs, Accepts(_, _)

VARIABLES
  stream,     \* every published log, in order
  served,     \* how many of them have been served
  subs,       \* subscriber -> filter, for the subscribed ones
  since,      \* Len(stream) when each subscriber subscribed
  live,       \* subscribers whose stream is still open
  received    \* what each subscriber got, in order

vars == <<stream, served, subs, since, live, received>>

Init ==
  /\ stream = <<>>
  /\ served = 0
  /\ subs = <<>>
  /\ since = [x \in Subs |-> 0]
  /\ live = Subs
  /\ received = [x \in Subs |-> <<>>]

Publish(l) ==
  /\ stream' = Append(stream, l)
  /\ UNCHANGED <<served, subs, since, live, received>>

Subscribe(x, f) ==
  /\ x \notin DOMAIN subs
  /\ subs' = subs @@ (x :> f)
  /\ since' = [since EXCEPT ![x] = Len(stream)]
  /\ UNCHANGED <<stream, served, live, received>>

Unsubscribe(x) ==
  /\ x \in DOMAIN subs
  /\ subs' = [y \in DOMAIN subs \ {x} |-> subs[y]]
  /\ UNCHANGED <<stream, served, since, live, received>>

Cancel(x) ==
  /\ x \in live
  /\ live' = live \ {x}
  /\ UNCHANGED <<stream, served, subs, since, received>>

\* Serve the next log to a set R of live subscribers that contains every
\* one that subscribed before it was published.
Serve ==
  /\ served < Len(stream)
  /\ LET l    == stream[served + 1]
         May  == DOMAIN subs \cap live
         Must == {x \in May : since[x] <= served}
     IN \E R \in SUBSET May :
          /\ Must \subseteq R
          /\ received' = [x \in Subs |->
                            IF x \in R /\ Accepts(subs[x], l)
                            THEN Append(received[x], l) ELSE received[x]]
  /\ served' = served + 1
  /\ UNCHANGED <<stream, subs, since, live>>

Next ==
  \/ \E l \in Logs : Publish(l)
  \/ \E x \in Subs : \/ \E f \in Filters : Subscribe(x, f)
                     \/ Unsubscribe(x) \/ Cancel(x)
  \/ Serve

Spec == Init /\ [][Next]_vars

=============================================================================

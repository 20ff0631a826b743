---------------------------- MODULE MCLogFeeder ----------------------------
(* Model-checking instance of LogFeeder.                                   *)
EXTENDS LogFeeder

\* The three filters WatchLogs tests for; an unknown filter only ever
\* receives nothing and is covered by the same code path as "policy"/"system"
\* failing their test.
MCFilters == {"", "policy", "system"}
MCOrigins == {"container", "host"}

\* Liveness does not depend on what is sent, only on the loop structure.
MCLiveFilters == {""}
MCLiveOrigins == {"container"}

\* Subscribers are interchangeable uuids.
MCSymmetry == Permutations(Subs)
=============================================================================

------------------------- MODULE MCSessionLifecycle -------------------------
(* Small instances of the session lifecycle for TLC.                        *)
EXTENDS SessionLifecycle, TLC

CONSTANTS p1, p2, t1, t2, t3, t4

One  == {p1}
Two  == {p1, p2}
TwoTasks   == {t1, t2}
ThreeTasks == {t1, t2, t3}
FourTasks  == {t1, t2, t3, t4}

Symmetry  == Permutations(Task) \cup Permutations(Profile)

All        == RequestKind
AllButSave == RequestKind \ {"save"}
StartStop  == {"start", "pause", "stop"}
Deletes    == {"start", "delete"}
Starts     == {"start"}
StartPause == {"start", "pause"}

\* What no step reads any more is left out: local variables of a request that
\* is past them, what a finished teardown went through, and why a health check
\* is over.
Requests == [t \in Task |->
  [at      |-> req[t].at, profile |-> req[t].profile, channel |-> req[t].channel,
   session |-> IF t \in channels
                    \/ req[t].at \in {"resume", "retunnel", "install", "stopdeleted"}
                 THEN req[t].session ELSE None,
   then    |-> IF req[t].at = "close" THEN req[t].then ELSE "done"]]
Teardowns == [t \in Task |-> IF Closing(t) THEN cleanup[t] ELSE Nothing]
Checks == [t \in Task |->
  IF health[t].at \in {"waiting", "ok", "failed"} THEN health[t]
  ELSE [at |-> IF health[t].at = "ready" THEN "ready" ELSE "over", session |-> None]]
Watchers == [t \in Task |-> IF watcher[t] = "over" THEN "none" ELSE watcher[t]]

View == <<sessions, current, proxyProfile, pendingStart, lastFailure, store, sess,
          Requests, Teardowns, open, Checks, Watchers>>

\* No step reads pendingStart and lastFailure, and a deletion clears them.
Core == <<sessions, current, proxyProfile, retired \cap (pendingStart \cup lastFailure),
          store, sess, Requests, Teardowns, open, Checks, Watchers>>

\* Bound on overlaps: two requests at a time, each with the goroutines, health
\* checks and watchers of all the earlier ones; a third request only if all
\* are for one profile.
Started == {t \in Task : req[t].at # "new"}
Running == {t \in Started : req[t].at # "done"}
Overlaps ==
  /\ Cardinality(Running) <= 2
  /\ Cardinality(Started) <= 2 \/ Cardinality({req[t].profile : t \in Started}) = 1
=============================================================================

------------------------------- MODULE MCBridge -------------------------------
(* A small instance of the bridge for TLC.                                  *)
EXTENDS Bridge, TLC

CONSTANTS r1, r2, r3, pa, pb, home

Requests == {r1, r2, r3}
Profiles == {pa, pb}
OneRoot  == {home}

Symmetry == Permutations(Requests) \cup Permutations(Profiles)

\* What no step and no property reads any more is left out: the locals of a
\* request that is past them, and the fate of a dial nobody waits for.
Locals == [r \in Request |->
  [other |-> IF pc[r] \in {"wait", "dial"} THEN other[r] ELSE None,
   use   |-> IF pc[r] \in {"have", "register"} \/ use[r] \in connected
               THEN use[r] ELSE None,
   done  |-> IF \E w \in Request : pc[w] = "wait" /\ other[w] = r
               THEN done[r] ELSE "open"]]
View == <<life, bridge, pc, target, Locals, sftp, sweep>>
=============================================================================

-------------------------- MODULE MCConnectionPool --------------------------
(* Small instances of the connection pool for TLC.                          *)
EXTENDS ConnectionPool, TLC

CONSTANTS u1, u2, c1, c2, c3, c4, c5

Users   == {u1, u2}

TwoConns   == {c1, c2}
FourConns  == {c1, c2, c3, c4}
FiveConns  == {c1, c2, c3, c4, c5}

NoTickers     == {}
KeepAliveOnly == {"keepalive"}
AllTickers    == {"health", "keepalive"}

Symmetry5 == Permutations(Users) \cup Permutations(FiveConns)
Symmetry4 == Permutations(Users) \cup Permutations(FourConns)

Callers == {u \in User : pc[u] # "idle"}

\* Bound on what runs at the same time: one caller with both background tasks,
\* two callers, or, before the first reconnection, two callers and one task.
MixedLoad ==
  \/ Cardinality(Callers) <= 1
  \/ hc = NoCheck /\ background = 0
  \/ background = 0 /\ lastClient = 1 /\ rc = NoReconnect

\* The flags and the transport of a forgotten connection are not part of the
\* state: OpenClients sets them before anybody reads them again.
View == <<poolVars, inUse \cap Known, failed \cap Known, retired \cap Known,
          [c \in Known |-> transport[c]], open, sshOpen, linkUp \cap sshOpen,
          lastClient, userVars, taskVars>>
=============================================================================

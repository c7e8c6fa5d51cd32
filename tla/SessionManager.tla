--------------------------- MODULE SessionManager ---------------------------
(***************************************************************************)
(* The registry of SFTP sessions (internal/sftpclient/service.go): tabs     *)
(* share one session of a profile, the bridge opens dedicated ones, and a   *)
(* session is closed with its last tab, with a reconnect that failed, or    *)
(* with the launcher. One profile: sessions of different profiles share     *)
(* nothing but the mutex.                                                   *)
(*                                                                          *)
(* The pool behind a session is what Manager sees of ConnectionPool: open   *)
(* or closed, its link up or down, its last dial recent or not. A call of   *)
(* reconnect is one step, because reconnectMu serialises them; the steps    *)
(* of Connect before and after it are critical sections of Manager.mu.      *)
(***************************************************************************)
EXTENDS Naturals, FiniteSets

CONSTANTS
  Tab,      \* callers: browser tabs and the bridge
  Session,  \* identities of sessions, reused once forgotten
  None      \* nil

ASSUME ManagerAssumption == None \notin Session /\ IsFiniteSet(Tab)

VARIABLES
  sessions,   \* m.sessions
  byProfile,  \* m.byProfile[profile], None when absent
  refs,       \* session.refs
  open,       \* sessions whose pool has not been closed
  up,         \* sessions whose SSH link works
  cooling,    \* sessions whose pool dialled less than the cool-down ago
  pc,         \* where each tab's request is
  chosen,     \* the session it has in a local variable
  held,       \* the session each tab was given
  shut,       \* CloseAll was called
  dropped,    \* history: sessions a failed reconnect or CloseAll removed
  kept,       \* history: tabs that were given a session in its cool-down
  dedicated   \* history: sessions opened by ConnectDedicated

index == <<sessions, byProfile, refs>>
pools == <<open, up, cooling>>
tabs  == <<pc, chosen, held>>
past  == <<dropped, kept, dedicated>>
vars  == <<index, pools, tabs, shut, past>>

PC == {"none", "reconnect", "keep", "keepcooling", "discard", "dial",
       "dedicated", "holds", "close"}

TypeOK ==
  /\ sessions \subseteq Session /\ byProfile \in Session \cup {None}
  /\ refs \in [Session -> 0..Cardinality(Tab)]
  /\ open \subseteq Session /\ up \subseteq Session /\ cooling \subseteq Session
  /\ pc \in [Tab -> PC]
  /\ chosen \in [Tab -> Session \cup {None}]
  /\ held \in [Tab -> Session \cup {None}]
  /\ shut \in BOOLEAN /\ dropped \subseteq Session
  /\ kept \subseteq Tab /\ dedicated \subseteq Session

Init ==
  /\ sessions = {} /\ byProfile = None /\ refs = [s \in Session |-> 0]
  /\ open = {} /\ up = {} /\ cooling = {}
  /\ pc = [t \in Tab |-> "none"]
  /\ chosen = [t \in Tab |-> None] /\ held = [t \in Tab |-> None]
  /\ shut = FALSE /\ dropped = {} /\ kept = {} /\ dedicated = {}

\* Sessions somebody can still name: an identity outside is unused.
Known == sessions \cup open
           \cup {chosen[t] : t \in Tab} \cup {held[t] : t \in Tab}

Holders(s) == {t \in Tab : held[t] = s}

\* The local variables of tab t's request.
Local(t, l, s) == /\ pc' = [pc EXCEPT ![t] = l]
                  /\ chosen' = [chosen EXCEPT ![t] = s]

\* The request of tab t ends with session s, or with an error (None).
Answer(t, s) == /\ Local(t, IF s = None THEN "none" ELSE "holds", None)
                /\ held' = [held EXCEPT ![t] = s]

\* Mutant: the discarded session is still offered to new tabs.
UnregisterId(s) == sessions' = sessions \ {s} /\ UNCHANGED byProfile

\* The session leaves both indexes.
Unregister(s) ==
  /\ sessions' = sessions \ {s}
  /\ byProfile' = IF byProfile = s THEN None ELSE byProfile

-----------------------------------------------------------------------------
(* Connect.                                                                 *)

Connect(t) ==
  /\ pc[t] = "none"
  /\ IF byProfile = None THEN Local(t, "dial", None)
                         ELSE Local(t, "reconnect", byProfile)
  /\ UNCHANGED <<index, pools, held, shut, past>>

\* ConnectDedicated: the session is not offered to other tabs.
ConnectDedicated(t) ==
  /\ pc[t] = "none"
  /\ Local(t, "dedicated", None)
  /\ UNCHANGED <<index, pools, held, shut, past>>

\* pool.reconnect(): the link answers or is dialled again.
ReconnectOk(t) ==
  /\ pc[t] = "reconnect" /\ chosen[t] \in open
  /\ \/ chosen[t] \in up /\ UNCHANGED <<up, cooling>>
     \/ /\ chosen[t] \notin up \cup cooling
        /\ up' = up \cup {chosen[t]} /\ cooling' = cooling \cup {chosen[t]}
  /\ Local(t, "keep", chosen[t])
  /\ UNCHANGED <<index, open, held, shut, past>>

\* errReconnectCooldown
ReconnectCooling(t) ==
  /\ pc[t] = "reconnect" /\ chosen[t] \in (open \cap cooling) \ up
  /\ Local(t, "keepcooling", chosen[t])
  /\ UNCHANGED <<index, pools, held, shut, past>>

\* The pool was closed meanwhile, or the dial fails.
ReconnectFails(t) ==
  /\ pc[t] = "reconnect" /\ chosen[t] \notin (up \cup cooling) \cap open
  /\ cooling' = cooling \cup ({chosen[t]} \cap open)
  /\ Local(t, "discard", chosen[t])
  /\ UNCHANGED <<index, open, up, held, shut, past>>

\* Mutant: the session found before the reconnect is handed out unchecked.
TrustsLookup(s) == TRUE

\* The session is still registered after the reconnect.
StillRegistered(s) == s \in sessions

Keep(t) ==
  LET s == chosen[t] IN
  /\ pc[t] \in {"keep", "keepcooling"}
  /\ IF StillRegistered(s)
       THEN /\ refs' = [refs EXCEPT ![s] = @ + 1]
            /\ Answer(t, s)
            /\ kept' = IF pc[t] = "keep" THEN kept ELSE kept \cup {t}
       ELSE Local(t, "dial", None) /\ UNCHANGED <<refs, held, kept>>
  /\ UNCHANGED <<sessions, byProfile, pools, shut, dropped, dedicated>>

\* Mutant: the pool of the discarded session is left to itself.
Abandon(t, s) == Local(t, "dial", None)

CloseNext(t, s) == Local(t, "close", s)

\* discard: the session is unregistered for everybody.
Discard(t) ==
  LET s == chosen[t] IN
  /\ pc[t] = "discard"
  /\ Unregister(s)
  /\ refs' = [refs EXCEPT ![s] = 0]
  /\ dropped' = dropped \cup ({s} \cap sessions)
  /\ CloseNext(t, s)
  /\ UNCHANGED <<pools, held, shut, kept, dedicated>>

\* session.close() after the unlock; Connect goes on with a new transport,
\* Disconnect is done.
ClosePool(t) ==
  /\ pc[t] = "close"
  /\ open' = open \ {chosen[t]}
  /\ Local(t, IF held[t] = chosen[t] THEN "none" ELSE "dial", None)
  /\ held' = [held EXCEPT ![t] = None]
  /\ UNCHANGED <<index, up, cooling, shut, past>>

\* reuseByProfile
Shared(t) == pc[t] = "dial"

\* connect: newConnectionPool, then the new session is registered.
Register(t) ==
  /\ pc[t] \in {"dial", "dedicated"}
  /\ \E s \in Session \ Known :
       /\ sessions' = sessions \cup {s}
       /\ byProfile' = IF Shared(t) THEN s ELSE byProfile
       /\ refs' = [refs EXCEPT ![s] = 1]
       /\ open' = open \cup {s} /\ up' = up \cup {s}
       /\ cooling' = cooling \ {s}
       /\ dropped' = dropped \ {s}
       /\ dedicated' = IF pc[t] = "dial" THEN dedicated \ {s}
                                         ELSE dedicated \cup {s}
       /\ Answer(t, s)
  /\ UNCHANGED <<shut, kept>>

ConnectFails(t) ==
  /\ pc[t] \in {"dial", "dedicated"}
  /\ Answer(t, None)
  /\ UNCHANGED <<index, pools, shut, past>>

-----------------------------------------------------------------------------
(* Disconnect and CloseAll.                                                 *)

Left(n) == n - 1

\* No tab is left after this one.
LastRef(s) == refs[s] <= 1

\* release: ErrSessionNotFound when the session is gone already.
Disconnect(t) ==
  LET s == held[t] IN
  /\ pc[t] = "holds"
  /\ kept' = kept \ {t}
  /\ IF s \notin sessions
       THEN Answer(t, None) /\ UNCHANGED index
       ELSE /\ refs' = [refs EXCEPT ![s] = Left(@)]
            /\ IF LastRef(s)
                 THEN Unregister(s) /\ Local(t, "close", s) /\ UNCHANGED held
                 ELSE /\ Answer(t, None)
                      /\ UNCHANGED <<sessions, byProfile>>
  /\ UNCHANGED <<pools, shut, dropped, dedicated>>

\* The map is swapped under the lock and its sessions are closed after it;
\* nobody can reach them any more, so this is one step.
CloseAll ==
  /\ ~shut /\ shut' = TRUE
  /\ sessions' = {} /\ byProfile' = None
  /\ open' = open \ sessions
  /\ dropped' = dropped \cup sessions
  /\ UNCHANGED <<refs, up, cooling, tabs, kept, dedicated>>

LinkDrops(s) ==
  /\ s \in open \cap up
  /\ up' = up \ {s}
  /\ UNCHANGED <<index, open, cooling, tabs, shut, past>>

\* The pool dials on its own: its health monitor, or an operation that failed.
PoolRedials(s) ==
  /\ s \in open \ (up \cup cooling)
  /\ cooling' = cooling \cup {s}
  /\ up' \in {up, up \cup {s}}
  /\ UNCHANGED <<index, open, tabs, shut, past>>

CooldownOver(s) ==
  /\ s \in cooling
  /\ cooling' = cooling \ {s}
  /\ UNCHANGED <<index, open, up, tabs, shut, past>>

-----------------------------------------------------------------------------
RequestStep(t) ==
  \/ ReconnectOk(t) \/ ReconnectCooling(t) \/ ReconnectFails(t)
  \/ Keep(t) \/ Discard(t) \/ ClosePool(t) \/ Register(t) \/ ConnectFails(t)

Next ==
  \/ \E t \in Tab : \/ Connect(t) \/ ConnectDedicated(t) \/ RequestStep(t)
                    \/ Disconnect(t)
  \/ \E s \in Session : LinkDrops(s) \/ PoolRedials(s) \/ CooldownOver(s)
  \/ CloseAll

Spec == Init /\ [][Next]_vars

-----------------------------------------------------------------------------
\* The counter of a registered session is the number of tabs that hold it,
\* whatever opens, failed reconnects and disconnects overlapped: with too high
\* a count its SSH connection is never closed, with too low a count too early.
RefsCountHolders ==
  \A s \in sessions : refs[s] = Cardinality({t \in Holders(s) : pc[t] = "holds"})

\* A tab loses its session through a reconnect that failed or CloseAll, never
\* because another tab opened or closed at the wrong moment.
HoldersKept ==
  \A t \in Tab : pc[t] = "holds" => held[t] \in sessions \cup dropped

\* A session that can be looked up has an open pool, and the one offered to
\* new tabs can be looked up.
RegisteredIsOpen ==
  /\ sessions \subseteq open
  /\ byProfile # None => byProfile \in sessions

\* A pool that is open is registered, or its closing is some request's next
\* step: no overlap of opens leaks an SSH connection.
PoolsOwned ==
  \A s \in open \ sessions : \E t \in Tab : pc[t] = "close" /\ chosen[t] = s

\* A session opened for the bridge is never handed to a tab as well: its stop
\* would cut the tab off.
DedicatedApart ==
  \A t, u \in Tab : t # u /\ held[t] # None /\ held[t] = held[u]
                      => held[t] \notin dedicated

\* The registry and its counters agree with what the tabs hold, whatever opens
\* and closes overlapped.
RegistrySound == TypeOK /\ RefsCountHolders /\ HoldersKept /\ DedicatedApart

\* service.go:63-65: "keep the session so a concurrent open does not tear down
\* a pool that a peer is still using".
PeerKeepsPool ==
  \A t \in kept : pc[t] = "holds" /\ ~shut => held[t] \in sessions

=============================================================================

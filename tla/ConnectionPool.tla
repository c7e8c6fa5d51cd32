--------------------------- MODULE ConnectionPool ---------------------------
(***************************************************************************)
(* The SFTP connection pool of one profile                                  *)
(* (internal/sftpclient/pool.go) together with the callers that borrow      *)
(* connections from it (withConn, openReadStream, OpenWriteAt in            *)
(* internal/sftpclient/service.go).                                         *)
(*                                                                          *)
(* A caller receives from the channel p.available without holding p.mu, so  *)
(* between the receive and the assignment of inUse the connection looks     *)
(* idle to everybody else. Every critical section of p.mu is one action;    *)
(* everything done between two critical sections (dialling, probing, the    *)
(* operation itself, closing a retired client) is an action of its own.     *)
(*                                                                          *)
(* Abstracted: the order of p.conns and of the channel (sets; an entry is   *)
(* never queued twice, see QueueSound), the clock (a connection may be      *)
(* "idle too long", its last probe recent enough or not, the cool-down over, *)
(* at any moment), and the identity of the error an operation returns.      *)
(***************************************************************************)
EXTENDS Naturals, FiniteSets

CONSTANTS
  User,           \* goroutines that run an SFTP operation
  Conn,           \* identities of pooled connections, reused once forgotten
  None,           \* nil
  Background,     \* the goroutine requestReconnect starts
  MinSize,        \* poolMinSize
  MaxSize,        \* poolMaxSize and the capacity of p.available
  Tickers,        \* bound: which tickers of healthCheckLoop run
  MaxDials,       \* bound: successful dials after the first one
  MaxBackground   \* bound: background reconnects waiting at once

ASSUME PoolAssumption ==
  /\ MinSize \in Nat /\ MaxSize \in Nat /\ MaxDials \in Nat
  /\ MaxBackground \in Nat /\ Tickers \subseteq {"health", "keepalive"}
  /\ 0 < MinSize /\ MinSize <= MaxSize /\ IsFiniteSet(Conn)
  /\ None \notin Conn /\ None \notin User /\ Background \notin User
  /\ None # Background

VARIABLES
  closed,      \* p.closed
  ssh,         \* p.sshClient, NoClient when nil
  cooling,     \* time.Since(p.lastDial) < reconnectCooldown
  conns,       \* p.conns
  available,   \* the entries of the channel p.available
  inUse,       \* connections with conn.inUse
  failed,      \* connections with conn.failed
  retired,     \* connections with conn.retired
  transport,   \* the SSH client a connection was opened on
  open,        \* SFTP clients on which Close has not been called
  sshOpen,     \* SSH clients on which Close has not been called
  linkUp,      \* SSH clients whose TCP link still works
  lastClient,  \* the newest SSH client dialled
  pc,          \* where each caller is
  held,        \* the connection each caller has in a local variable
  tries,       \* the loop counter of acquire
  attempt,     \* the loop counter of withConn
  rc,          \* the reconnect that holds reconnectMu
  rp,          \* the two replenish calls that may run at once
  hc,          \* the health check goroutine
  background   \* background reconnects waiting for reconnectMu

poolVars == <<closed, ssh, cooling, conns, available>>
connVars == <<inUse, failed, retired, transport, open>>
linkVars == <<sshOpen, linkUp, lastClient>>
userVars == <<pc, held, tries, attempt>>
taskVars == <<rc, rp, hc, background>>
vars == <<poolVars, connVars, linkVars, userVars, taskVars>>

NoClient == 0
Client   == 1..(MaxDials + 1)

PC == {"idle", "take", "room", "create", "add", "wait", "mark", "check",
       "use", "lock", "reconnect"}

Replenisher == {"health", "reconnect"}

NoReconnect == [who |-> None, at |-> "off", seen |-> NoClient,
                client |-> NoClient, made |-> {}, closing |-> {}]
NoReplenish == [at |-> "off", need |-> 0, conn |-> None]
Counting    == [at |-> "need", need |-> 0, conn |-> None]
NoCheck     == [at |-> "off", idle |-> {}, bad |-> FALSE]

ReconnectState == [who: User \cup {None, Background},
                   at: {"off", "probe", "dial", "swap", "close", "replenish"},
                   seen: Client \cup {NoClient}, client: Client \cup {NoClient},
                   made: SUBSET Conn, closing: SUBSET Conn]
ReplenishState == [at: {"off", "need", "create", "add"}, need: 0..MinSize,
                   conn: Conn \cup {None}]
CheckState     == [at: {"off", "probe", "replenish"}, idle: SUBSET Conn,
                   bad: BOOLEAN]

TypeOK ==
  /\ closed \in BOOLEAN /\ cooling \in BOOLEAN
  /\ ssh \in Client \cup {NoClient} /\ lastClient \in Client
  /\ conns \subseteq Conn /\ available \subseteq Conn
  /\ inUse \subseteq Conn /\ failed \subseteq Conn /\ retired \subseteq Conn
  /\ open \subseteq Conn
  /\ transport \in [Conn -> Client \cup {NoClient}]
  /\ sshOpen \subseteq Client /\ linkUp \subseteq Client
  /\ pc \in [User -> PC]
  /\ held \in [User -> Conn \cup {None}]
  /\ tries \in [User -> 0..(MaxSize - 1)]
  /\ attempt \in [User -> {0, 1}]
  /\ rc \in ReconnectState
  /\ rp \in [Replenisher -> ReplenishState]
  /\ hc \in CheckState
  /\ background \in 0..MaxBackground

\* A newly opened client that its creator has not yet registered or discarded.
Pending == {rp[r].conn : r \in Replenisher} \ {None}
Held    == {held[u] : u \in User} \ {None}

\* Everything some goroutine still refers to: an identity outside is unused.
Known == conns \cup available \cup open \cup Held \cup Pending
           \cup hc.idle \cup rc.made \cup rc.closing

Alive(g) == g \in sshOpen \cap linkUp
Works(c) == c \in open /\ Alive(transport[c])

Init ==
  /\ closed = FALSE /\ cooling = FALSE
  /\ ssh = 1 /\ lastClient = 1 /\ sshOpen = {1} /\ linkUp = {1}
  /\ conns \in {S \in SUBSET Conn : Cardinality(S) = MinSize}
  /\ available = conns /\ open = conns
  /\ inUse = {} /\ failed = {} /\ retired = {}
  /\ transport = [c \in Conn |-> IF c \in conns THEN 1 ELSE NoClient]
  /\ pc = [u \in User |-> "idle"]
  /\ held = [u \in User |-> None]
  /\ tries = [u \in User |-> 0]
  /\ attempt = [u \in User |-> 0]
  /\ rc = NoReconnect
  /\ rp = [r \in Replenisher |-> NoReplenish]
  /\ hc = NoCheck
  /\ background = 0

-----------------------------------------------------------------------------
(* The helpers that run with p.mu held.                                     *)

\* Mutant: the queue is rebuilt from the members that look idle.
RemoveAndRequeue(S) ==
  /\ conns' = conns \ S
  /\ available' = (conns \ S) \ inUse
  /\ open' = open \ S

\* removeConnection, for every connection of S.
RemoveConnections(S) ==
  /\ conns' = conns \ S
  /\ available' = available \ S
  /\ open' = open \ S

\* offerLocked: a full channel closes the connection instead of blocking.
Offer(c, members) ==
  IF Cardinality(available) < MaxSize
    THEN /\ available' = available \cup {c}
         /\ conns' = members
         /\ open' = open
    ELSE /\ available' = available \ {c}
         /\ conns' = members \ {c}
         /\ open' = open \ {c}

\* Mutant: the pool may have filled up during the dial.
CanAddUnchecked == ~closed

\* The check before a connection dialled outside p.mu joins the pool.
CanAdd == ~closed /\ Cardinality(conns) < MaxSize

\* A client that may not join the pool is closed by its creator.
Discard(c) == open' = open \ {c}

\* Mutant: connections owned by a caller are dropped too.
AllFailed == conns \cap failed

\* What dropFailedLocked and healthCheck remove: nobody uses it.
FailedIdle == (conns \cap failed) \ inUse

\* release(conn), after markFailed(conn) when bad.
Release(c, bad) ==
  /\ failed' = IF bad THEN failed \cup {c} ELSE failed
  /\ \/ /\ closed
        /\ UNCHANGED <<conns, available, open, inUse>>
     \/ /\ ~closed /\ c \in retired
        /\ open' = open \ {c}
        /\ UNCHANGED <<conns, available, inUse>>
     \/ /\ ~closed /\ c \notin retired
        /\ inUse' = inUse \ {c}
        /\ IF c \in failed'
             THEN RemoveConnections({c})
             ELSE Offer(c, conns)

\* newPooledConn on the SSH client g: the new identities start unflagged.
OpenClients(S, g) ==
  /\ open' = open \cup S
  /\ inUse' = inUse \ S
  /\ failed' = failed \ S
  /\ retired' = retired \ S
  /\ transport' = [c \in Conn |-> IF c \in S THEN g ELSE transport[c]]

\* The local variables of caller u: where it is, its connection, the loop
\* counters of acquire and of withConn.
Local(u, l, c, t, a) ==
  /\ pc' = [pc EXCEPT ![u] = l]
  /\ held' = [held EXCEPT ![u] = c]
  /\ tries' = [tries EXCEPT ![u] = t]
  /\ attempt' = [attempt EXCEPT ![u] = a]

Goto(u, l, c) == Local(u, l, c, tries[u], attempt[u])
Return(u)     == Local(u, "idle", None, 0, 0)

\* What withConn does with an error of acquire or of the operation: the first
\* one leads to reconnect and a second attempt.
TransportError(u) ==
  IF attempt[u] = 0 THEN Local(u, "lock", None, 0, 0) ELSE Return(u)

-----------------------------------------------------------------------------
(* Callers: withConn -> acquire -> takeConn / waitConn -> release.          *)

Begin(u) ==
  /\ pc[u] = "idle"
  /\ Goto(u, "take", None)
  /\ UNCHANGED <<poolVars, connVars, linkVars, taskVars>>

\* errPoolClosed, from the check or from a receive on the closed channel.
TakeClosed(u) ==
  /\ pc[u] \in {"take", "wait"} /\ closed
  /\ Return(u)
  /\ UNCHANGED <<poolVars, connVars, linkVars, taskVars>>

TakeQueued(u) ==
  /\ pc[u] \in {"take", "wait"}
  /\ \E c \in available :
       /\ available' = available \ {c}
       /\ Goto(u, "mark", c)
  /\ UNCHANGED <<closed, ssh, cooling, conns, connVars, linkVars, taskVars>>

TakeNone(u) ==
  /\ pc[u] = "take" /\ ~closed /\ available = {}
  /\ Goto(u, "room", None)
  /\ UNCHANGED <<poolVars, connVars, linkVars, taskVars>>

CheckRoom(u) ==
  /\ pc[u] = "room"
  /\ Goto(u, IF Cardinality(conns) < MaxSize THEN "create" ELSE "wait", None)
  /\ UNCHANGED <<poolVars, connVars, linkVars, taskVars>>

Create(u) ==
  /\ pc[u] = "create" /\ Alive(ssh)
  /\ \E c \in Conn \ Known :
       /\ OpenClients({c}, ssh)
       /\ Goto(u, "add", c)
  /\ UNCHANGED <<poolVars, linkVars, taskVars>>

CreateFails(u) ==
  /\ pc[u] = "create"
  /\ TransportError(u)
  /\ UNCHANGED <<poolVars, connVars, linkVars, taskVars>>

\* The second critical section of takeConn: closed and room are re-checked.
AddCreated(u) ==
  LET c == held[u] IN
  /\ pc[u] = "add"
  /\ \/ /\ CanAdd
        /\ conns' = conns \cup {c}
        /\ inUse' = inUse \cup {c}
        /\ Goto(u, "check", c)
        /\ UNCHANGED open
     \/ /\ ~CanAdd
        /\ Discard(c)
        /\ IF closed THEN Return(u) ELSE Goto(u, "wait", None)
        /\ UNCHANGED <<conns, inUse>>
  /\ UNCHANGED <<closed, ssh, cooling, available, failed, retired, transport,
                 linkVars, taskVars>>

\* Mutant: the wait for a connection has no deadline.
WaitsForever(u) == pc[u] = "wait" /\ available # {} /\ UNCHANGED vars

\* ctx.Done() in waitConn: a deadline counts as a transport error.
WaitTimesOut(u) ==
  /\ pc[u] = "wait"
  /\ TransportError(u)
  /\ UNCHANGED <<poolVars, connVars, linkVars, taskVars>>

MarkInUse(u) ==
  /\ pc[u] = "mark"
  /\ inUse' = inUse \cup {held[u]}
  /\ Goto(u, "check", held[u])
  /\ UNCHANGED <<poolVars, failed, retired, transport, open, linkVars,
                 taskVars>>

\* Mutant: probes are reused for longer than the health check interval.
TrustsOldProbe(c) == c \notin failed

\* A probe younger than connProbeInterval (5 s) is trusted, so the link may
\* have died since. The client itself may only have been closed by closeAll:
\* one that was dropped as idle had its last probe a health check interval
\* (30 s) before, and is probed again and found closed.
LooksUsable(c) == c \notin failed /\ (c \in open \/ closed)

\* connUsable answers TRUE.
Usable(u) ==
  /\ pc[u] = "check" /\ LooksUsable(held[u])
  /\ Local(u, "use", held[u], 0, attempt[u])
  /\ UNCHANGED <<poolVars, connVars, linkVars, taskVars>>

\* The loop condition of acquire.
MoreTries(u) == tries[u] + 1 < MaxSize

\* connUsable answers FALSE (a probe may also time out): discard, try again.
Unusable(u) ==
  /\ pc[u] = "check"
  /\ Release(held[u], TRUE)
  /\ IF MoreTries(u)
       THEN Local(u, "take", None, tries[u] + 1, attempt[u])
       ELSE TransportError(u)
  /\ UNCHANGED <<closed, ssh, cooling, retired, transport, linkVars, taskVars>>

UseSucceeds(u) ==
  /\ pc[u] = "use" /\ Works(held[u])
  /\ Release(held[u], FALSE)
  /\ Return(u)
  /\ UNCHANGED <<closed, ssh, cooling, retired, transport, linkVars, taskVars>>

\* The operation or the stream fails. A refusal of the server and an error of
\* an open stream are returned as they are; a transport error is retried once.
UseFails(u) ==
  /\ pc[u] = "use"
  /\ Release(held[u], TRUE)
  /\ TransportError(u) \/ Return(u)
  /\ UNCHANGED <<closed, ssh, cooling, retired, transport, linkVars, taskVars>>

-----------------------------------------------------------------------------
(* reconnect, run by a caller or in the background, one at a time.          *)

\* reconnect returns: a caller retries on success and gives up on an error.
ReconnectReturns(ok) ==
  /\ rc' = NoReconnect
  /\ IF rc.who = Background
       THEN background' = background - 1 /\ UNCHANGED userVars
       ELSE /\ IF ok THEN Local(rc.who, "take", None, 0, 1) ELSE Return(rc.who)
            /\ UNCHANGED background

\* w holds reconnectMu and has read p.sshClient.
Reconnecting(w) == [who |-> w, at |-> "probe", seen |-> ssh,
                    client |-> NoClient, made |-> {}, closing |-> {}]

\* A caller takes reconnectMu and p.mu.
UserEnters(u) ==
  /\ pc[u] = "lock" /\ rc.who = None
  /\ IF closed
       THEN Return(u) /\ UNCHANGED rc
       ELSE /\ Goto(u, "reconnect", None)
            /\ rc' = Reconnecting(u)
  /\ UNCHANGED <<poolVars, connVars, linkVars, rp, hc, background>>

BackgroundEnters ==
  /\ background > 0 /\ rc.who = None
  /\ IF closed
       THEN background' = background - 1 /\ UNCHANGED rc
       ELSE /\ rc' = Reconnecting(Background)
            /\ UNCHANGED background
  /\ UNCHANGED <<poolVars, connVars, linkVars, userVars, rp, hc>>

\* probeSSH succeeds: dropFailedLocked, then replenish.
TransportProbed ==
  /\ rc.at = "probe" /\ Alive(rc.seen)
  /\ IF closed
       THEN UNCHANGED <<conns, available, open>>
       ELSE RemoveConnections(FailedIdle)
  /\ rc' = [rc EXCEPT !.at = "replenish"]
  /\ rp' = [rp EXCEPT !["reconnect"] = Counting]
  /\ UNCHANGED <<closed, ssh, cooling, inUse, failed, retired,
                 transport, linkVars, userVars, hc, background>>

\* probeSSH fails (or times out) and the last dial is too recent.
CoolingDown ==
  /\ rc.at = "probe" /\ cooling
  /\ ReconnectReturns(FALSE)
  /\ UNCHANGED <<poolVars, connVars, linkVars, rp, hc>>

StartDial ==
  /\ rc.at = "probe" /\ ~cooling
  /\ cooling' = TRUE
  /\ rc' = [rc EXCEPT !.at = "dial"]
  /\ UNCHANGED <<closed, ssh, conns, available, connVars, linkVars, userVars,
                 rp, hc, background>>

\* Nothing is left behind when the dial or one of the new channels fails.
DialFails ==
  /\ rc.at = "dial"
  /\ ReconnectReturns(FALSE)
  /\ UNCHANGED <<poolVars, connVars, linkVars, rp, hc>>

Dial ==
  /\ rc.at = "dial" /\ lastClient <= MaxDials
  /\ lastClient' = lastClient + 1
  /\ sshOpen' = sshOpen \cup {lastClient'}
  /\ linkUp' = linkUp \cup {lastClient'}
  /\ \E S \in SUBSET (Conn \ Known) :
       /\ Cardinality(S) = MinSize
       /\ OpenClients(S, lastClient')
       /\ rc' = [rc EXCEPT !.at = "swap", !.client = lastClient', !.made = S]
  /\ UNCHANGED <<poolVars, userVars, rp, hc, background>>

\* Mutant: the new SSH client is dropped without Close.
GiveUpClients == /\ open' = open \ rc.made
                 /\ UNCHANGED sshOpen

\* What a reconnect that lost against closeAll closes.
GiveUp == /\ sshOpen' = sshOpen \ {rc.client}
          /\ open' = open \ rc.made

\* The pool was closed during the dial: the new transport is given up.
SwapClosed ==
  /\ rc.at = "swap" /\ closed
  /\ GiveUp
  /\ ReconnectReturns(FALSE)
  /\ UNCHANGED <<poolVars, inUse, failed, retired, transport, linkUp,
                 lastClient, rp, hc>>

\* The new generation replaces the old one, which is retired under the lock.
Swap ==
  /\ rc.at = "swap" /\ ~closed
  /\ conns' = rc.made
  /\ available' = rc.made
  /\ ssh' = rc.client
  /\ retired' = retired \cup conns
  /\ failed' = failed \cup conns
  /\ rc' = [rc EXCEPT !.at = "close", !.client = ssh, !.made = {},
                      !.closing = conns \ inUse]
  /\ UNCHANGED <<closed, cooling, inUse, transport, open, linkVars, userVars,
                 rp, hc, background>>

\* After the unlock: the idle old connections and the old SSH client.
CloseOld ==
  /\ rc.at = "close"
  /\ open' = open \ rc.closing
  /\ sshOpen' = sshOpen \ {rc.client}
  /\ ReconnectReturns(TRUE)
  /\ UNCHANGED <<poolVars, inUse, failed, retired, transport, linkUp,
                 lastClient, rp, hc>>

-----------------------------------------------------------------------------
(* replenish, run by the reconnect and by the health check.                 *)

\* replenish returns to its caller.
ReplenishReturns(r) ==
  /\ rp' = [rp EXCEPT ![r] = NoReplenish]
  /\ IF r = "health"
       THEN hc' = NoCheck /\ UNCHANGED <<rc, background, userVars>>
       ELSE ReconnectReturns(TRUE) /\ UNCHANGED hc

CountMissing(r) ==
  LET need == MinSize - Cardinality(conns) IN
  /\ rp[r].at = "need"
  /\ IF Cardinality(conns) < MinSize
       THEN /\ rp' = [rp EXCEPT ![r] = [at |-> "create", need |-> need,
                                        conn |-> None]]
            /\ UNCHANGED <<rc, hc, background, userVars>>
       ELSE ReplenishReturns(r)
  /\ UNCHANGED <<poolVars, connVars, linkVars>>

ReplenishCreates(r) ==
  /\ rp[r].at = "create" /\ Alive(ssh)
  /\ \E c \in Conn \ Known :
       /\ OpenClients({c}, ssh)
       /\ rp' = [rp EXCEPT ![r].at = "add", ![r].conn = c]
  /\ UNCHANGED <<poolVars, linkVars, userVars, rc, hc, background>>

ReplenishFails(r) ==
  /\ rp[r].at = "create"
  /\ ReplenishReturns(r)
  /\ UNCHANGED <<poolVars, connVars, linkVars>>

ReplenishAdds(r) ==
  /\ rp[r].at = "add" /\ CanAdd
  /\ Offer(rp[r].conn, conns \cup {rp[r].conn})
  /\ IF rp[r].need > 1
       THEN /\ rp' = [rp EXCEPT ![r] = [at |-> "create", need |-> @.need - 1,
                                        conn |-> None]]
            /\ UNCHANGED <<rc, hc, background, userVars>>
       ELSE ReplenishReturns(r)
  /\ UNCHANGED <<closed, ssh, cooling, inUse, failed, retired,
                 transport, linkVars>>

ReplenishDiscards(r) ==
  /\ rp[r].at = "add" /\ ~CanAdd
  /\ Discard(rp[r].conn)
  /\ ReplenishReturns(r)
  /\ UNCHANGED <<poolVars, inUse, failed, retired, transport, linkVars>>

-----------------------------------------------------------------------------
(* The health check goroutine.                                              *)

\* First critical section of healthCheck: drop what failed and, above the
\* minimum, what was idle too long.
HealthTick ==
  /\ "health" \in Tickers /\ hc.at = "off" /\ ~closed
  /\ \E tooOld \in SUBSET ((conns \ inUse) \ failed) :
       /\ tooOld # {} => Cardinality(tooOld) + MinSize <= Cardinality(conns)
       /\ RemoveConnections(tooOld \cup FailedIdle)
       /\ hc' = [at |-> "probe", bad |-> FALSE,
                 idle |-> ((conns \ inUse) \ failed) \ tooOld]
  /\ UNCHANGED <<closed, ssh, cooling, inUse, failed, retired,
                 transport, linkVars, userVars, rc, rp, background>>

HealthProbes(c) ==
  /\ hc.at = "probe" /\ c \in hc.idle /\ Works(c)
  /\ hc' = [hc EXCEPT !.idle = @ \ {c}]
  /\ UNCHANGED <<poolVars, connVars, linkVars, userVars, rc, rp, background>>

HealthProbeFails(c) ==
  /\ hc.at = "probe" /\ c \in hc.idle
  /\ hc' = [hc EXCEPT !.idle = @ \ {c}, !.bad = TRUE]
  /\ IF closed
       THEN UNCHANGED <<failed, conns, available, open>>
       ELSE /\ failed' = failed \cup {c}
            /\ IF c \in inUse
                 THEN UNCHANGED <<conns, available, open>>
                 ELSE RemoveConnections({c})
  /\ UNCHANGED <<closed, ssh, cooling, inUse, retired, transport, linkVars,
                 userVars, rc, rp, background>>

\* Mutant: the failure is noticed, and nobody is told to reconnect.
RequestIgnored == UNCHANGED background

\* A reconnect request beyond the bound joins the ones already waiting.
RequestReconnect ==
  background' = IF background < MaxBackground THEN background + 1
                                              ELSE background

HealthProbed ==
  /\ hc.at = "probe" /\ hc.idle = {}
  /\ IF hc.bad THEN RequestReconnect ELSE UNCHANGED background
  /\ hc' = [hc EXCEPT !.at = "replenish"]
  /\ rp' = [rp EXCEPT !["health"] = Counting]
  /\ UNCHANGED <<poolVars, connVars, linkVars, userVars, rc>>

\* keepAlive found the transport dead, or the answer took too long.
KeepAliveFails ==
  /\ "keepalive" \in Tickers /\ hc.at = "off" /\ ~closed
  /\ background < MaxBackground
  /\ RequestReconnect
  /\ UNCHANGED <<poolVars, connVars, linkVars, userVars, rc, rp, hc>>

-----------------------------------------------------------------------------
CloseAll ==
  /\ ~closed
  /\ closed' = TRUE
  /\ available' = {}
  /\ open' = open \ conns
  /\ conns' = {}
  /\ sshOpen' = sshOpen \ {ssh}
  /\ ssh' = NoClient
  /\ UNCHANGED <<cooling, inUse, failed, retired, transport, linkUp,
                 lastClient, userVars, taskVars>>

(* The environment: time passes and links drop.                             *)

CooldownOver ==
  /\ cooling
  /\ cooling' = FALSE
  /\ UNCHANGED <<closed, ssh, conns, available, connVars, linkVars, userVars,
                 taskVars>>

LinkDrops(g) ==
  /\ Alive(g)
  /\ linkUp' = linkUp \ {g}
  /\ UNCHANGED <<poolVars, connVars, sshOpen, lastClient, userVars, taskVars>>

-----------------------------------------------------------------------------
UserStep(u) ==
  \/ TakeClosed(u) \/ TakeQueued(u) \/ TakeNone(u) \/ CheckRoom(u)
  \/ Create(u) \/ CreateFails(u) \/ AddCreated(u) \/ WaitTimesOut(u)
  \/ MarkInUse(u) \/ Usable(u) \/ Unusable(u) \/ UseSucceeds(u) \/ UseFails(u)

ReconnectStep ==
  \/ TransportProbed \/ CoolingDown \/ StartDial \/ DialFails \/ Dial
  \/ SwapClosed \/ Swap \/ CloseOld

ReplenishStep(r) ==
  \/ CountMissing(r) \/ ReplenishCreates(r) \/ ReplenishFails(r)
  \/ ReplenishAdds(r) \/ ReplenishDiscards(r)

HealthStep ==
  \/ HealthProbed
  \/ \E c \in Conn : HealthProbes(c) \/ HealthProbeFails(c)

Next ==
  \/ \E u \in User : Begin(u) \/ UserStep(u) \/ UserEnters(u)
  \/ BackgroundEnters \/ ReconnectStep
  \/ \E r \in Replenisher : ReplenishStep(r)
  \/ HealthTick \/ HealthStep \/ KeepAliveFails
  \/ CloseAll \/ CooldownOver
  \/ \E g \in Client : LinkDrops(g)

Spec == Init /\ [][Next]_vars

\* Every goroutine runs on, every operation and dial ends, the mutexes are
\* starvation-free, the tickers tick, and of dials and keep-alives that are
\* tried again and again one is eventually answered truthfully.
Fairness ==
  /\ \A u \in User : WF_vars(UserStep(u)) /\ SF_vars(UserEnters(u))
  /\ SF_vars(BackgroundEnters) /\ WF_vars(ReconnectStep)
  /\ \A r \in Replenisher : WF_vars(ReplenishStep(r))
  /\ WF_vars(HealthStep)
  /\ SF_vars(KeepAliveFails /\ ~Alive(ssh))
  /\ WF_vars(CooldownOver) /\ SF_vars(Dial)
  /\ SF_vars(StartDial)

LiveSpec == Spec /\ Fairness

-----------------------------------------------------------------------------
(* Safety.                                                                  *)

\* Two callers and two replenish calls may each dial for the last free slot;
\* the pool never registers more than poolMaxSize connections.
PoolBounded == Cardinality(conns) <= MaxSize

\* The queue only offers members of the pool that are open, not retired and
\* not in use, whatever was removed, swapped or reconnected meanwhile.
QueueSound ==
  /\ available \subseteq (conns \cap open)
  /\ available \cap (retired \cup inUse \cup failed) = {}

\* A connection a caller has taken, even one it has not yet marked in use, is
\* in no other caller's hands and not in the queue: two goroutines on one SFTP
\* client would corrupt each other's stream.
ExclusiveUse ==
  /\ Held \cap (available \cup Pending) = {}
  /\ \A u, v \in User : u # v /\ held[u] # None => held[u] # held[v]

\* Nothing joins a pool that was closed while somebody was dialling for it.
ClosedIsEmpty == closed => conns = {} /\ available = {} /\ ssh = NoClient

\* Every SSH client that is open is the pool's own, the one being built or
\* the one being replaced: no dial that loses a race leaks a connection.
SshOwned == sshOpen \subseteq {ssh, rc.client}

\* Every open SFTP client is still somebody's duty to close, except one that
\* was retired in use and came back after the pool was closed.
ClientsOwned ==
  open \subseteq conns \cup Held \cup Pending \cup rc.made \cup rc.closing
                   \cup (IF closed THEN retired ELSE {})

\* While an operation runs, only closeAll closes its SFTP client.
NotCutInUse ==
  [][\A u \in User :
       pc[u] = "use" /\ held[u] \in open /\ held[u] \notin open'
         => closed' \/ pc'[u] # "use"]_vars

\* A caller may receive a connection just before the health check drops it as
\* idle; it still never runs an operation on a client the pool has closed.
NoClosedClientHandedOut ==
  \A u \in User : pc[u] = "use" /\ ~closed => held[u] \in open

\* The bookkeeping of the pool agrees with itself, whoever is in the middle of
\* a dial, a probe or a reconnect: bounded, nothing in a closed pool, and in the
\* channel only what may be taken from it.
PoolSound == TypeOK /\ PoolBounded /\ QueueSound /\ ClosedIsEmpty

\* Every SSH connection and every SFTP client that is open has somebody who
\* will close it, but those that RetiredAreClosed is about.
NothingLeaks == SshOwned /\ ClientsOwned

-----------------------------------------------------------------------------
(* The inductive invariant behind the safety properties.                    *)

\* The holder of reconnectMu, and the callers of replenish.
Runners ==
  /\ rc.at = "off" <=> rc.who = None
  /\ rc.who = Background => background > 0
  /\ rc.who \in User => pc[rc.who] = "reconnect"
  /\ rc.at = "replenish" <=> rp["reconnect"].at # "off"
  /\ hc.at = "replenish" <=> rp["health"].at # "off"
  /\ rc.at # "swap" => rc.made = {}
  /\ rc.at # "close" => rc.closing = {}
  /\ rc.at \notin {"swap", "close"} => rc.client = NoClient

\* Local variables that are set exactly where the code has a connection.
Locals ==
  /\ \A u \in User : held[u] # None <=> pc[u] \in {"add", "mark", "check", "use"}
  /\ \A r \in Replenisher : rp[r].conn # None <=> rp[r].at = "add"

\* Connections that were opened and have not joined the pool yet.
Created == {held[u] : u \in {v \in User : pc[v] = "add"}} \cup Pending \cup rc.made

CreatedApart ==
  /\ Created \subseteq open
  /\ Created \cap (conns \cup available \cup inUse \cup failed \cup retired
                     \cup hc.idle \cup rc.closing) = {}
  /\ (Held \cup Pending) \cap rc.made = {}
  /\ rp["health"].conn # None => rp["health"].conn # rp["reconnect"].conn
  /\ Cardinality(rc.made) <= MinSize

Members ==
  /\ conns \subseteq open /\ conns \cap retired = {}
  /\ conns \cap inUse \subseteq Held
  /\ retired \subseteq failed /\ rc.closing \subseteq retired

\* What a caller past the queue knows about its connection.
Borrowed ==
  \A u \in User :
    /\ pc[u] \in {"mark", "check", "use"} /\ held[u] \in open
         => held[u] \in conns \cup retired
    /\ pc[u] \in {"check", "use"} => held[u] \in inUse
    /\ pc[u] = "use" => held[u] \notin rc.closing

IInv ==
  /\ TypeOK /\ Runners /\ Locals /\ CreatedApart /\ Members /\ Borrowed
  /\ PoolBounded /\ QueueSound /\ ExclusiveUse /\ ClosedIsEmpty
  /\ SshOwned /\ ClientsOwned /\ NoClosedClientHandedOut

-----------------------------------------------------------------------------
\* Every call gets a connection, an error or its deadline: whatever happens to
\* the pool while it waits, takes or reconnects, it comes back.
CallsReturn == \A u \in User : pc[u] # "idle" ~> pc[u] = "idle"

\* A dead transport is dialled again without any user operation, and again
\* for as long as the dials fail: a request that the cool-down refuses is
\* forgotten, but the keep-alive asks once more.
DeadTransportRedialled ==
  (ssh # NoClient /\ ~Alive(ssh)) ~> (closed \/ Alive(ssh) \/ rc.at = "dial")

\* pool.go:673-675: connections still owned by a caller when the transport is
\* replaced are closed by release().
RetiredAreClosed ==
  closed /\ rc = NoReconnect /\ Held = {} /\ Pending = {} => open = {}
=============================================================================

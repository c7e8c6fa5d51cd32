-------------------------- MODULE SessionLifecycle --------------------------
(***************************************************************************)
(* The life of a remote session in the launcher's server                    *)
(* (internal/gui/gui.go): start, pause, resume, stop and deletion of a      *)
(* profile, with the goroutine of each start, the health check of each      *)
(* forwarding and the watcher of each remote command. A step is a critical  *)
(* section of Server.mu or one call that blocks outside it.                 *)
(*                                                                          *)
(* Everything a request creates bears its name: the session, SSH client and *)
(* remote command of start t, and the tunnel, proxy channel and health      *)
(* check of start or resume t.                                              *)
(***************************************************************************)
EXTENDS Naturals, FiniteSets

CONSTANTS
  Profile,  \* remote profiles
  Task,     \* requests; each is made at most once
  None,     \* nil
  Kinds,    \* the requests that may be made, a subset of RequestKind
  MaxDeletes  \* bound: deletions of a profile

RequestKind == {"start", "pause", "stop", "delete", "save", "activate"}

ASSUME LifecycleAssumption ==
  /\ None \notin Task \cup Profile
  /\ Kinds \subseteq RequestKind /\ MaxDeletes \in Nat

VARIABLES
  sessions,      \* s.sessions
  current,       \* s.session
  proxyProfile,  \* s.proxyProfileID
  pendingStart,  \* profiles in s.pendingStart
  lastFailure,   \* profiles in s.lastFailure
  retired,       \* profiles in s.retiredProfiles
  stored,        \* profiles in the profile store
  sess,          \* the activeSession of each start
  req,           \* each request: where it is and its local variables
  cleanup,       \* what each teardown still has to close
  clients,       \* open SSH clients
  tunnels,       \* open tunnels: each occupies its profile's local port
  channels,      \* open proxy channels
  bridge,        \* which channel each profile's remote bridge file names
  deletes,       \* deletions so far
  health,        \* each health check
  watcher        \* the process watcher of each session

server == <<sessions, current, proxyProfile, pendingStart, lastFailure>>
store  == <<retired, stored, deletes>>
open   == <<clients, tunnels, channels, bridge>>
vars   == <<server, store, sess, req, cleanup, open, health, watcher>>

\* Where a request can be: a start (from "check" to "commit", or to "install"
\* when it resumes a paused session), a deletion, a save; "close" is the
\* teardown on its way out, "end" the end of a start's goroutine.
RequestAt == {"new", "done", "stopfirst", "check", "paused", "resume", "retunnel",
              "install", "dial", "async", "channel", "portcheck", "commit",
              "close", "end", "erase", "stopdeleted", "revive"}
HealthAt  == {"none", "waiting", "ok", "failed", "cancelled", "ready", "over"}
WatcherAt == {"none", "spawned", "waiting", "failed", "over", "crashed"}

Maybe == Task \cup {None}

NoSession == [profile |-> None, client |-> None, process |-> FALSE, tunnel |-> None,
              channel |-> None, health |-> None, forwarding |-> FALSE, ready |-> FALSE]
NewRequest == [at |-> "new", profile |-> None, session |-> None, channel |-> None,
               then |-> "done"]
Nothing == [tunnel |-> None, channel |-> None, client |-> None, via |-> None]

Types ==
  /\ sessions \in [Profile -> Maybe] /\ current \in Maybe
  /\ proxyProfile \in Profile \cup {None}
  /\ pendingStart \subseteq Profile /\ lastFailure \subseteq Profile
  /\ retired \subseteq Profile /\ stored \subseteq Profile
  /\ deletes \in 0..MaxDeletes
  /\ sess \in [Task -> [profile : Profile \cup {None}, client : Maybe,
                        process : BOOLEAN, tunnel : Maybe, channel : Maybe,
                        health : Maybe, forwarding : BOOLEAN, ready : BOOLEAN]]
  /\ req \in [Task -> [at : RequestAt, profile : Profile \cup {None},
                       session : Maybe, channel : Maybe, then : RequestAt]]
  /\ cleanup \in [Task -> [tunnel : Maybe, channel : Maybe, client : Maybe, via : Maybe]]
  /\ clients \subseteq Task /\ tunnels \subseteq Task /\ channels \subseteq Task
  /\ bridge \in [Profile -> Maybe]
  /\ health \in [Task -> [at : HealthAt, session : Maybe]]
  /\ watcher \in [Task -> WatcherAt]

\* With the types: only a registered session holds anything.
TypeOK ==
  /\ Types
  /\ \A t \in Task : sess[t] # [NoSession EXCEPT !.profile = sess[t].profile]
                       => sessions[sess[t].profile] = t

Init ==
  /\ sessions = [p \in Profile |-> None] /\ current = None /\ proxyProfile = None
  /\ pendingStart = {} /\ lastFailure = {} /\ retired = {} /\ stored = Profile /\ deletes = 0
  /\ sess = [t \in Task |-> NoSession]
  /\ req = [t \in Task |-> NewRequest] /\ cleanup = [t \in Task |-> Nothing]
  /\ clients = {} /\ tunnels = {} /\ channels = {}
  /\ bridge = [p \in Profile |-> None]
  /\ health = [t \in Task |-> [at |-> "none", session |-> None]]
  /\ watcher = [t \in Task |-> "none"]

-----------------------------------------------------------------------------
(* Helpers of Server.                                                       *)

\* sessionForProfileLocked
SessionOf(p) ==
  IF sessions[p] # None THEN sessions[p]
  ELSE IF current # None /\ sess[current].profile = p THEN current ELSE None

StillActive(s) == SessionOf(sess[s].profile) = s

Go(t, at) == req' = [req EXCEPT ![t].at = at]

\* The request closes what it gives up and then goes on.
CloseThen(t, what, at) ==
  /\ cleanup' = [cleanup EXCEPT ![t] = what]
  /\ req' = [req EXCEPT ![t].at = "close", ![t].then = at, ![t].channel = None]

PortFree(p) == \A t \in tunnels : req[t].profile # p

\* promoteProxySessionLocked
Promote(s) == current' = s /\ proxyProfile' = sess[s].profile

\* Mutant: the session that was torn down stays the current one.
KeepsCurrent(s) ==
  /\ sessions' = [sessions EXCEPT ![sess[s].profile] = None]
  /\ UNCHANGED <<current, proxyProfile>>

\* removeSessionLocked: some session that forwards becomes the current one.
Remove(s) ==
  LET p == sess[s].profile
      left == IF sessions[p] = s THEN [sessions EXCEPT ![p] = None] ELSE sessions
      candidates == {c \in Task : sess[c].forwarding /\ \E q \in Profile : left[q] = c}
  IN /\ sessions' = left
     /\ IF current \in {s, None} /\ candidates # {}
          THEN \E c \in candidates : Promote(c)
          ELSE /\ current' = IF current = s THEN None ELSE current
               /\ proxyProfile' = IF proxyProfile = p THEN None ELSE proxyProfile

\* context.CancelFunc of health check h; one that has its answer is too late.
\* The check that tears its own session down is over.
Cancel(h, over) == health' = [t \in Task |->
  CASE t = over -> [health[t] EXCEPT !.at = "over"]
    [] t = h /\ t # over /\ health[t].at = "waiting" -> [health[t] EXCEPT !.at = "cancelled"]
    [] OTHER -> health[t]]

Emptied(s) == [NoSession EXCEPT !.profile = sess[s].profile]

\* stopSessionResources and watchRemoteProcess under the lock; what they close
\* after it is the cleanup of s.
TearDown(s, over) ==
  /\ Remove(s)
  /\ sess' = [sess EXCEPT ![s] = Emptied(s)]
  /\ cleanup' = [cleanup EXCEPT ![s] = [tunnel |-> sess[s].tunnel,
       channel |-> sess[s].channel, client |-> sess[s].client, via |-> sess[s].client]]
  /\ Cancel(sess[s].health, over)

\* recordSessionFailure
RecordFailure(p) == lastFailure' = lastFailure \cup ({p} \ retired)

\* startSessionProxyChannel: the channel opens and its bridge file is written,
\* or the session goes on without one.
OpenChannel(t, client) ==
  LET p == req[t].profile IN
  \/ /\ client \in clients
     /\ channels' = channels \cup {t} /\ bridge' = [bridge EXCEPT ![p] = t]
     /\ req' = [req EXCEPT ![t].channel = t,
                           ![t].at = IF @ = "resume" THEN "retunnel" ELSE "portcheck"]
  \/ /\ UNCHANGED <<channels, bridge>>
     /\ Go(t, IF req[t].at = "resume" THEN "retunnel" ELSE "portcheck")

-----------------------------------------------------------------------------
(* The end of a teardown: cleanup o belongs to the request o, or to the     *)
(* teardown of the session o.                                               *)

CloseTunnel(o) ==
  /\ cleanup[o].tunnel # None
  /\ tunnels' = tunnels \ {cleanup[o].tunnel}
  /\ cleanup' = [cleanup EXCEPT ![o].tunnel = None]
  /\ UNCHANGED <<server, store, sess, req, clients, channels, bridge, health, watcher>>

\* Channel.Close and RemoveProxyBridge: the file has one path per profile, and
\* the removal needs the SSH client.
CloseChannel(o) ==
  LET c == cleanup[o].channel IN
  /\ cleanup[o].tunnel = None /\ c # None
  /\ channels' = channels \ {c}
  /\ bridge' = IF cleanup[o].via \in clients
                 THEN [bridge EXCEPT ![req[c].profile] = None] ELSE bridge
  /\ cleanup' = [cleanup EXCEPT ![o].channel = None]
  /\ UNCHANGED <<server, store, sess, req, clients, tunnels, health, watcher>>

\* Mutant: the SSH client is not closed.
KeepsClient(c) == UNCHANGED clients

DropClient(c) == clients' = clients \ {c}

CloseClient(o) ==
  /\ cleanup[o].tunnel = None /\ cleanup[o].channel = None /\ cleanup[o].client # None
  /\ DropClient(cleanup[o].client)
  /\ cleanup' = [cleanup EXCEPT ![o].client = None]
  /\ UNCHANGED <<server, store, sess, req, tunnels, channels, bridge, health, watcher>>

Closing(o) == \E f \in {"tunnel", "channel", "client"} : cleanup[o][f] # None

Closed(t) ==
  /\ req[t].at = "close" /\ ~Closing(t)
  /\ Go(t, req[t].then)
  /\ cleanup' = [cleanup EXCEPT ![t] = Nothing]
  /\ UNCHANGED <<server, store, sess, open, health, watcher>>

-----------------------------------------------------------------------------
(* Pause: stopForwarding. A registered remote session has a client, so it   *)
(* is kept.                                                                 *)


\* Mutant: a paused session still says that it forwards.
StillForwards(s) == [sess[s] EXCEPT !.tunnel = None, !.health = None, !.ready = FALSE]

PausedSession(s) == [sess[s] EXCEPT !.tunnel = None, !.health = None,
                                    !.forwarding = FALSE, !.ready = FALSE]

StopForwarding(t, p, at) ==
  LET s == SessionOf(p) IN
  IF s = None \/ ~sess[s].forwarding
    THEN req' = [req EXCEPT ![t].profile = p, ![t].at = at] /\ UNCHANGED <<sess, cleanup, health>>
    ELSE /\ sess' = [sess EXCEPT ![s] = PausedSession(s)]
         /\ cleanup' = [cleanup EXCEPT ![t] = [Nothing EXCEPT !.tunnel = sess[s].tunnel]]
         /\ req' = [req EXCEPT ![t].profile = p, ![t].at = "close", ![t].then = at]
         /\ Cancel(sess[s].health, None)

Pause(t, p) ==
  /\ "pause" \in Kinds /\ req[t].at = "new"
  /\ SessionOf(p) # None
  /\ StopForwarding(t, p, "done")
  /\ UNCHANGED <<server, store, open, watcher>>

-----------------------------------------------------------------------------
(* Start: handleStart and restartForwardingIfPaused.                        *)

StartRequest(t, p) ==
  /\ "start" \in Kinds /\ req[t].at = "new"
  /\ p \in stored \ retired
  /\ req' = [req EXCEPT ![t].profile = p, ![t].at = "stopfirst"]
  /\ UNCHANGED <<server, store, sess, cleanup, open, health, watcher>>

\* stopActiveForwardingBeforeStart
StopFirst(t) ==
  /\ req[t].at = "stopfirst"
  /\ StopForwarding(t, req[t].profile, "check")
  /\ UNCHANGED <<server, store, open, watcher>>

\* blockActiveForwardingConflict and checkLocalPort
Check(t) ==
  LET p == req[t].profile  s == SessionOf(p) IN
  /\ req[t].at = "check"
  /\ Go(t, IF (s # None /\ sess[s].forwarding) \/ ~PortFree(p) THEN "done" ELSE "paused")
  /\ UNCHANGED <<server, store, sess, cleanup, open, health, watcher>>

\* restartForwardingIfPaused, the first critical section.
Paused(t) ==
  LET s == SessionOf(req[t].profile) IN
  /\ req[t].at = "paused"
  /\ req' = [req EXCEPT ![t].session = s, ![t].at =
       IF s = None THEN "dial" ELSE IF sess[s].forwarding THEN "done"
       ELSE IF sess[s].channel = None THEN "resume" ELSE "retunnel"]
  /\ UNCHANGED <<server, store, sess, cleanup, open, health, watcher>>

\* The channel goes through the paused session's client.
ResumeChannel(t) ==
  /\ req[t].at = "resume"
  /\ OpenChannel(t, req[t].session)
  /\ UNCHANGED <<server, store, sess, cleanup, clients, tunnels, health, watcher>>

\* The request gives up: what it has opened is closed through client c.
GiveUp(t, tunnel, client, via, at) ==
  CloseThen(t, [tunnel |-> tunnel, channel |-> req[t].channel,
                client |-> client, via |-> via], at)

ResumeTunnel(t) ==
  /\ req[t].at = "retunnel"
  /\ IF PortFree(req[t].profile)
       THEN tunnels' = tunnels \cup {t} /\ Go(t, "install") /\ UNCHANGED cleanup
       ELSE GiveUp(t, None, None, req[t].session, "done") /\ UNCHANGED tunnels
  /\ UNCHANGED <<server, store, sess, clients, channels, bridge, health, watcher>>

MayInstall(s) == StillActive(s) /\ ~sess[s].forwarding

\* restartForwardingIfPaused, the second critical section.
Install(t) ==
  LET s == req[t].session IN
  /\ req[t].at = "install"
  /\ IF MayInstall(s)
       THEN /\ sess' = [sess EXCEPT ![s].tunnel = t, ![s].health = t,
                 ![s].channel = IF req[t].channel = None THEN @ ELSE t,
                 ![s].forwarding = TRUE, ![s].ready = FALSE]
            /\ Promote(s)
            /\ health' = [health EXCEPT ![t] = [at |-> "waiting", session |-> s]]
            /\ req' = [req EXCEPT ![t].at = "done", ![t].channel = None]
            /\ UNCHANGED cleanup
       ELSE /\ GiveUp(t, t, None, s, "done")
            /\ UNCHANGED <<sess, current, proxyProfile, health>>
  /\ UNCHANGED <<sessions, pendingStart, lastFailure, store, open, watcher>>

\* DialWithHostKeyPolicy, then markStartPending.
Dial(t) ==
  LET p == req[t].profile IN
  /\ req[t].at = "dial"
  /\ clients' = clients \cup {t}
  /\ Go(t, "async")
  /\ pendingStart' = pendingStart \cup ({p} \ retired)
  /\ lastFailure' = lastFailure \ ({p} \ retired)
  /\ UNCHANGED <<sessions, current, proxyProfile, store, sess, cleanup, tunnels,
                 channels, bridge, health, watcher>>

DialFails(t) ==
  /\ req[t].at = "dial"
  /\ Go(t, "done")
  /\ UNCHANGED <<server, store, sess, cleanup, open, health, watcher>>

-----------------------------------------------------------------------------
(* startRemoteSessionAsync                                                  *)

StartAsync(t) ==
  /\ req[t].at = "async"
  /\ IF req[t].profile \in retired THEN GiveUp(t, None, t, t, "end")
                                   ELSE Go(t, "channel") /\ UNCHANGED cleanup
  /\ UNCHANGED <<server, store, sess, open, health, watcher>>

StartChannel(t) ==
  /\ req[t].at = "channel"
  /\ OpenChannel(t, t)
  /\ UNCHANGED <<server, store, sess, cleanup, clients, tunnels, health, watcher>>

\* RunCheckPortCommand
PortCheck(t) ==
  /\ req[t].at = "portcheck"
  /\ \/ Go(t, "commit") /\ UNCHANGED <<lastFailure, cleanup>>
     \/ RecordFailure(req[t].profile) /\ GiveUp(t, None, t, t, "end")
  /\ UNCHANGED <<sessions, current, proxyProfile, pendingStart, store, sess, open,
                 health, watcher>>

\* Nobody deleted the profile or started a session meanwhile.
MayCommit(p) == p \notin retired /\ SessionOf(p) = None

\* The critical section: the command is started unless the service that runs
\* is reused, the tunnel opens, and the session is registered.
Commit(t) ==
  LET p == req[t].profile IN
  /\ req[t].at = "commit" /\ MayCommit(p) /\ PortFree(p)
  /\ tunnels' = tunnels \cup {t}
  /\ \E command \in BOOLEAN :
       /\ sess' = [sess EXCEPT ![t] = [profile |-> p, client |-> t, process |-> command,
            tunnel |-> t, channel |-> req[t].channel, health |-> t,
            forwarding |-> TRUE, ready |-> FALSE]]
       /\ watcher' = [watcher EXCEPT ![t] = IF command THEN "spawned" ELSE "none"]
  /\ sessions' = [sessions EXCEPT ![p] = t] /\ current' = t /\ proxyProfile' = p
  /\ health' = [health EXCEPT ![t] = [at |-> "waiting", session |-> t]]
  /\ req' = [req EXCEPT ![t].at = "end", ![t].channel = None]
  /\ UNCHANGED <<pendingStart, lastFailure, store, cleanup, clients, channels, bridge>>

\* The profile is retired, a session is running, or the command or the tunnel
\* cannot start.
CommitFails(t) ==
  LET p == req[t].profile IN
  /\ req[t].at = "commit"
  /\ IF MayCommit(p) THEN RecordFailure(p) ELSE UNCHANGED lastFailure
  /\ GiveUp(t, None, t, t, "end")
  /\ UNCHANGED <<sessions, current, proxyProfile, pendingStart, store, sess, open,
                 health, watcher>>

\* Mutant: a start that gave up stays pending.
StaysPending(p) == pendingStart

Unpended(p) == pendingStart \ {p}

\* clearStartPending
StartEnds(t) ==
  /\ req[t].at = "end"
  /\ pendingStart' = Unpended(req[t].profile)
  /\ Go(t, "done")
  /\ UNCHANGED <<sessions, current, proxyProfile, lastFailure, store, sess, cleanup,
                 open, health, watcher>>

-----------------------------------------------------------------------------
(* Stop, delete, save and activate.                                         *)

\* handleStopService and stopSessionResources
Stop(t, p) ==
  /\ "stop" \in Kinds /\ req[t].at = "new" /\ SessionOf(p) # None
  /\ req' = [req EXCEPT ![t].profile = p, ![t].at = "done"]
  /\ TearDown(SessionOf(p), None)
  /\ UNCHANGED <<pendingStart, lastFailure, store, open, watcher>>

\* Mutant: a deletion does not retire the profile.
NotRetired(p) == retired

Retired(p) == retired \cup {p}

\* handleProfileByID, DELETE.
Delete(t, p) ==
  /\ "delete" \in Kinds /\ req[t].at = "new" /\ p \in stored
  /\ deletes < MaxDeletes /\ deletes' = deletes + 1
  /\ retired' = Retired(p)
  /\ pendingStart' = pendingStart \ {p} /\ lastFailure' = lastFailure \ {p}
  /\ req' = [req EXCEPT ![t].profile = p, ![t].session = SessionOf(p),
                        ![t].at = "stopdeleted"]
  /\ UNCHANGED <<sessions, current, proxyProfile, stored, sess, cleanup, open, health,
                 watcher>>

DeleteStops(t) ==
  LET s == req[t].session IN
  /\ req[t].at = "stopdeleted"
  /\ Go(t, "erase")
  /\ IF s # None /\ StillActive(s) THEN TearDown(s, None)
     ELSE UNCHANGED <<sessions, current, proxyProfile, sess, cleanup, health>>
  /\ UNCHANGED <<pendingStart, lastFailure, store, open, watcher>>

\* Profiles.Delete fails when the file cannot be written, or with
\* ErrProfileNotFound; the profile is revived then.
Erase(t) ==
  LET p == req[t].profile IN
  /\ req[t].at = "erase"
  /\ Go(t, "done")
  /\ \/ p \in stored /\ stored' = stored \ {p} /\ UNCHANGED retired
     \/ retired' = retired \ {p} /\ UNCHANGED stored
  /\ UNCHANGED <<server, deletes, sess, cleanup, open, health, watcher>>

\* saveProfileWithSecrets, an import or a new profile.
Save(t, p) ==
  /\ "save" \in Kinds /\ req[t].at = "new"
  /\ stored' = stored \cup {p}
  /\ req' = [req EXCEPT ![t].profile = p, ![t].at = "revive"]
  /\ UNCHANGED <<server, retired, deletes, sess, cleanup, open, health, watcher>>

\* reviveProfile
Revive(t) ==
  /\ req[t].at = "revive"
  /\ retired' = retired \ {req[t].profile}
  /\ Go(t, "done")
  /\ UNCHANGED <<server, stored, deletes, sess, cleanup, open, health, watcher>>

\* handleActivate
Activate(t, p) ==
  LET s == SessionOf(p) IN
  /\ "activate" \in Kinds /\ req[t].at = "new" /\ s # None /\ sess[s].forwarding
  /\ req' = [req EXCEPT ![t].profile = p, ![t].at = "done"]
  /\ Promote(s)
  /\ UNCHANGED <<sessions, pendingStart, lastFailure, store, sess, cleanup, open,
                 health, watcher>>

-----------------------------------------------------------------------------
(* waitForRemoteHealth, waitForRestartedForwardingHealth.                   *)

HealthAnswers(h) ==
  /\ health[h].at = "waiting"
  /\ \E at \in {"ok", "failed"} : health' = [health EXCEPT ![h].at = at]
  /\ UNCHANGED <<server, store, sess, req, cleanup, open, watcher>>

\* markSessionReady
MarkReady(h) ==
  LET s == health[h].session IN
  /\ health[h].at = "ok"
  /\ health' = [health EXCEPT ![h].at = "ready"]
  /\ IF StillActive(s) /\ sess[s].forwarding
       THEN /\ sess' = [sess EXCEPT ![s].ready = TRUE]
            /\ lastFailure' = lastFailure \ {sess[s].profile}
       ELSE UNCHANGED <<sess, lastFailure>>
  /\ UNCHANGED <<sessions, current, proxyProfile, pendingStart, store, req, cleanup,
                 open, watcher>>

\* recordSessionFailure and stopSessionResources.
HealthFails(h) ==
  LET s == health[h].session IN
  /\ health[h].at = "failed"
  /\ RecordFailure(sess[s].profile)
  /\ IF StillActive(s)
       THEN TearDown(s, h)
       ELSE /\ Cancel(None, h)
            /\ UNCHANGED <<sessions, current, proxyProfile, sess, cleanup>>
  /\ UNCHANGED <<pendingStart, store, req, open, watcher>>

-----------------------------------------------------------------------------
(* watchRemoteProcess                                                       *)

\* The goroutine reads session.process without the lock; a nil process makes
\* Done panic.
WatcherStarts(s) ==
  /\ watcher[s] = "spawned"
  /\ watcher' = [watcher EXCEPT ![s] = IF sess[s].process THEN "waiting" ELSE "crashed"]
  /\ UNCHANGED <<server, store, sess, req, cleanup, open, health>>

\* The remote command ends without an error: forwarding stays.
CommandExits(s) ==
  /\ watcher[s] = "waiting"
  /\ watcher' = [watcher EXCEPT ![s] = "over"]
  /\ sess' = [sess EXCEPT ![s].process = FALSE]
  /\ UNCHANGED <<server, store, req, cleanup, open, health>>

\* It ends with an error, as it does when its client is closed.
CommandFails(s) ==
  /\ watcher[s] = "waiting"
  /\ watcher' = [watcher EXCEPT ![s] = "over"]
  /\ IF StillActive(s)
       THEN TearDown(s, None) /\ RecordFailure(sess[s].profile)
       ELSE UNCHANGED <<sessions, current, proxyProfile, sess, cleanup, health, lastFailure>>
  /\ UNCHANGED <<pendingStart, store, req, open>>

-----------------------------------------------------------------------------
NewRequests(t, p) ==
  \/ StartRequest(t, p) \/ Pause(t, p) \/ Stop(t, p) \/ Delete(t, p)
  \/ Save(t, p) \/ Activate(t, p)

\* A request or a start's goroutine goes on.
Advance(t) ==
  \/ Closed(t) \/ StopFirst(t) \/ Check(t) \/ Paused(t)
  \/ ResumeChannel(t) \/ ResumeTunnel(t) \/ Install(t)
  \/ Dial(t) \/ DialFails(t) \/ StartAsync(t) \/ StartChannel(t) \/ PortCheck(t)
  \/ Commit(t) \/ CommitFails(t) \/ StartEnds(t)
  \/ DeleteStops(t) \/ Erase(t) \/ Revive(t)

\* A teardown goes on.
CloseNext(o) == CloseTunnel(o) \/ CloseChannel(o) \/ CloseClient(o)

Proceed(t) == CloseNext(t) \/ Advance(t)

HealthStep(h) == HealthAnswers(h) \/ MarkReady(h) \/ HealthFails(h)
WatcherStep(s) == WatcherStarts(s) \/ CommandExits(s) \/ CommandFails(s)

Next ==
  \E t \in Task : \/ \E p \in Profile : NewRequests(t, p)
                  \/ Proceed(t) \/ HealthStep(t) \/ WatcherStep(t)

Spec == Init /\ [][Next]_vars

\* The request is inside a call to the server that has no timeout: the handshake
\* of a dial, Listen and the SFTP client of a proxy channel, the port check with
\* its pre-start command, the start of the command (with Server.mu held).
AwaitsServer(t) ==
  \/ req[t].at \in {"resume", "dial", "channel", "portcheck"}
  \/ req[t].at = "commit" /\ MayCommit(req[t].profile)

\* So is the teardown: a channel's listener and bridge file are removed on the
\* server, and before its client is closed a session's service is killed.
CloseAwaitsServer(o) ==
  /\ cleanup[o].tunnel = None
  /\ cleanup[o].channel # None \/ (cleanup[o].client # None /\ req[o].at # "close")

\* The launcher's own steps are taken, and a health check has a timeout; nothing
\* makes a call to the server return.
Fairness == \A t \in Task :
  /\ WF_vars(~AwaitsServer(t) /\ Advance(t))
  /\ WF_vars(~CloseAwaitsServer(t) /\ CloseNext(t))
  /\ WF_vars(HealthStep(t))

LiveSpec == Spec /\ Fairness

-----------------------------------------------------------------------------
\* The current session is registered, and the profile the proxy serves is its
\* profile: requests never go to a session that was torn down.
TargetAgrees ==
  /\ (current = None) = (proxyProfile = None)
  /\ current # None => sessions[proxyProfile] = current

\* A registered session has its open SSH client, and its open tunnel while it
\* forwards, though teardowns and losers of starts close theirs meanwhile.
ForwardingWorks ==
  \A p \in Profile : LET s == sessions[p] IN
    s # None => /\ sess[s].client = s /\ s \in clients
                /\ sess[s].forwarding => sess[s].tunnel \in tunnels

\* Who will close tunnel, channel or client r: its session, its teardown, or
\* the request that still holds it in a local variable.
HoldsTunnel(r)  == {<<"session", s>> : s \in {x \in Task : sess[x].tunnel = r /\ StillActive(x)}}
                     \cup {<<"cleanup", o>> : o \in {x \in Task : cleanup[x].tunnel = r}}
                     \cup {<<"request", t>> : t \in {x \in {r} : req[x].at = "install"}}
HoldsChannel(r) == {<<"session", s>> : s \in {x \in Task : sess[x].channel = r /\ StillActive(x)}}
                     \cup {<<"cleanup", o>> : o \in {x \in Task : cleanup[x].channel = r}}
                     \cup {<<"request", t>> : t \in {x \in Task : req[x].channel = r}}
HoldsClient(r)  == {<<"session", s>> : s \in {x \in Task : sess[x].client = r /\ StillActive(x)}}
                     \cup {<<"cleanup", o>> : o \in {x \in Task : cleanup[x].client = r}}
                     \cup {<<"request", t>> : t \in {x \in {r} : req[x].at \in
                             {"async", "channel", "portcheck", "commit"}}}

\* A proxy channel that nobody holds: a resumption opened it, which is over.
Replaced(r) == HoldsChannel(r) = {} /\ req[r].at = "done" /\ req[r].session # None

\* Every open tunnel and SSH connection has exactly one owner, and so has every
\* proxy channel until a second resumption puts its own in its place: no overlap
\* of starts, stops and failures leaks one or closes it twice.
OneOwner ==
  /\ \A r \in tunnels  : Cardinality(HoldsTunnel(r)) = 1
  /\ \A r \in channels : Cardinality(HoldsChannel(r)) = 1 \/ Replaced(r)
  /\ \A r \in clients  : Cardinality(HoldsClient(r)) = 1

\* A profile that was deleted has no session and gets none from a start that
\* was under way.
DeletedStays ==
  \A p \in Profile \ stored : sessions[p] = None

\* Nor does it leave a record behind that the status would show: what a late
\* step of a start writes is dropped.
DeletedHasNoRecords == retired \cap (pendingStart \cup lastFailure) = {}

\* Tunnels, channels and SSH connections keep their one owner through every
\* overlap of requests.
ResourcesOwned == TypeOK /\ OneOwner

\* Deletion is final, for the sessions and for the records, though starts were
\* under way.
DeletedLeavesNothing == DeletedStays /\ DeletedHasNoRecords

\* A start of the profile is inside a call to the server, or some start is that
\* holds Server.mu there.
HeldUp(t, p) ==
  \/ req[t].at = "commit" /\ MayCommit(req[t].profile)
  \/ /\ req[t].profile = p
     /\ \/ req[t].at \in {"channel", "portcheck"}
        \/ req[t].at = "close" /\ req[t].then = "end" /\ CloseAwaitsServer(t)

\* Whatever way a start ends, retired, refused, failed, overtaken or registered,
\* its profile does not stay pending: only a start that is for ever inside one
\* of its calls to the server keeps it so. See PendingEndsAnyway.
PendingEnds == \A p \in Profile :
  []<>(p \notin pendingStart) \/ \E t \in Task : <>[]HeldUp(t, p)

-----------------------------------------------------------------------------
\* README.md:226-259: the session's bridge file is there, naming its channel,
\* until the session is stopped.
BridgeStays ==
  \A p \in Profile : LET s == sessions[p] IN
    s # None /\ sess[s].channel # None => bridge[p] = sess[s].channel

\* README.md:258-259: stopping the session closes the reverse listener. Of two
\* resumptions that both found no channel the second overwrites the first one's,
\* if the forwarding was paused between them.
ChannelsOwned == \A r \in channels : HoldsChannel(r) # {}

\* gui.go:879-881: a concurrent stop is expected as soon as the session is
\* registered; no goroutine of the session may crash the launcher then.
NoCrash == \A s \in Task : watcher[s] # "crashed"

\* "ready" says that the health check of this forwarding has answered.
ReadyIsChecked ==
  \A p \in Profile : LET s == sessions[p] IN
    s # None /\ sess[s].ready => health[sess[s].tunnel].at = "ready"

\* gui.go:1279: the flag is cleared "once the start attempt has finished".
PendingUntilFinished ==
  \A t \in Task : req[t].at \in {"async", "channel", "portcheck", "commit"}
                    => req[t].profile \in pendingStart \cup retired

\* gui.go:2394: one session is "the one the local proxy serves"; while some
\* session forwards it is one of those.
TargetForwards ==
  (\E p \in Profile : sessions[p] # None /\ sess[sessions[p]].forwarding)
     => current # None /\ sess[current].forwarding

\* gui.go:1279: "once the start attempt has finished, whether it succeeded or
\* failed"; one whose server stays silent does neither, and nothing ends it.
PendingEndsAnyway == \A p \in Profile : p \in pendingStart ~> p \notin pendingStart

=============================================================================

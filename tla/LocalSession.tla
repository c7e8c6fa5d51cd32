---------------------------- MODULE LocalSession ----------------------------
(***************************************************************************)
(* The session of one local profile (internal/gui/gui.go:                   *)
(* startLocalSession, stopForwarding, stopSessionResources,                 *)
(* watchLocalProcess, stopAllLocalLauncherResources): ChemSSH runs as a     *)
(* process of the launcher's machine, started by the launcher or found      *)
(* there. Session, process and health check bear the name of the request    *)
(* that makes them. A step is a critical section of Server.mu or a call     *)
(* outside it.                                                              *)
(***************************************************************************)
EXTENDS Naturals, FiniteSets

CONSTANTS
  Call,      \* requests; each is made at most once
  CallKinds, \* requests that may be made
  Nobody     \* nil

LocalKind == {"start", "pause", "stop", "delete"}

ASSUME LocalAssumption ==
  /\ Nobody \notin Call /\ CallKinds \subseteq LocalKind
  /\ <<"exit">> \notin Call /\ \A t \in Call : <<"check", t>> \notin Call

VARIABLES
  session,  \* s.sessions[p.ID]
  fields,   \* the activeSession of each start
  process,  \* what became of the process of each start
  watched,  \* watchLocalProcess of each start
  probe,    \* the health check of each start or resumption: [at, session]
  call,     \* the requests: [kind, at, session]
  killing,  \* the process each request, check or exit has yet to kill
  retired,  \* s.retiredProfiles has the profile
  exit      \* stopAllLocalLauncherResources: [at, todo, took]

localVars == <<session, fields, process, watched, probe, call, killing, retired, exit>>

Some == Call \cup {Nobody}
Check(t) == <<"check", t>>
Sweep == <<"exit">>
Killer == Call \cup {Check(t) : t \in Call} \cup {Sweep}

\* process: localProcess; remotePID: it is known.
NoFields == [process |-> FALSE, remotePID |-> FALSE, probe |-> Nobody, forwarding |-> FALSE,
             ready |-> FALSE]

LocalTypeOK ==
  /\ session \in Some
  /\ fields \in [Call -> [process : BOOLEAN, remotePID : BOOLEAN, probe : Some,
                          forwarding : BOOLEAN, ready : BOOLEAN]]
  /\ process \in [Call -> {"none", "running", "ended"}]
  /\ watched \in [Call -> {"none", "waiting", "over"}]
  /\ probe \in [Call -> [at : {"none", "waiting", "ok", "failed", "identity", "over"},
                         session : Some]]
  /\ call \in [Call -> [kind : LocalKind \cup {"none"}, session : Some,
                        at : {"new", "first", "check", "resume", "spawn", "register", "stop",
                              "erase", "kill", "done"}]]
  /\ killing \in [Killer -> Some] /\ retired \in BOOLEAN
  /\ exit \in [at : {"no", "sweep", "kill", "gone"}, todo : Some, took : Some]

LocalInit ==
  /\ session = Nobody /\ fields = [t \in Call |-> NoFields]
  /\ process = [t \in Call |-> "none"] /\ watched = [t \in Call |-> "none"]
  /\ probe = [t \in Call |-> [at |-> "none", session |-> Nobody]]
  /\ call = [t \in Call |-> [kind |-> "none", at |-> "new", session |-> Nobody]]
  /\ killing = [k \in Killer |-> Nobody] /\ retired = FALSE
  /\ exit = [at |-> "no", todo |-> Nobody, took |-> Nobody]

-----------------------------------------------------------------------------
LocalGo(t, at) == call' = [call EXCEPT ![t].at = at]

\* context.CancelFunc: a check that has its answer is too late.
CancelProbe(h) == probe' = [t \in Call |->
  IF t = h /\ probe[t].at = "waiting" THEN [probe[t] EXCEPT !.at = "over"] ELSE probe[t]]

\* stopSessionResources and stopLocalLauncherResources up to the unlock, for a
\* registered session: k has its process to kill.
TakeApart(k, s) ==
  /\ session' = Nobody /\ CancelProbe(fields[s].probe)
  /\ fields' = [fields EXCEPT ![s] = NoFields]
  /\ killing' = [killing EXCEPT ![k] = IF fields[s].process THEN s ELSE Nobody]

NotTaken == UNCHANGED <<session, fields, probe, killing>>

\* stopForwarding of a session that forwards. One with a process or a known
\* PID stays, paused; another goes.
StopsForwarding(s) ==
  /\ CancelProbe(fields[s].probe)
  /\ session' = IF fields[s].process \/ fields[s].remotePID THEN session ELSE Nobody
  /\ fields' = [fields EXCEPT ![s].forwarding = FALSE, ![s].ready = FALSE, ![s].probe = Nobody]

Forwards == session # Nobody /\ fields[session].forwarding

-----------------------------------------------------------------------------
(* Requests.                                                                *)

StartLocal(t) ==
  /\ call[t].at = "new" /\ "start" \in CallKinds /\ ~retired
  /\ call' = [call EXCEPT ![t].kind = "start", ![t].at = "first"]
  /\ UNCHANGED <<session, fields, process, watched, probe, killing, retired, exit>>

\* stopActiveForwardingBeforeStart
StopFirstLocal(t) ==
  /\ call[t].at = "first"
  /\ LocalGo(t, "check")
  /\ \/ Forwards /\ StopsForwarding(session)
     \/ ~Forwards /\ UNCHANGED <<session, fields, probe>>
  /\ UNCHANGED <<process, watched, killing, retired, exit>>

\* blockActiveForwardingConflict
CheckLocal(t) ==
  /\ call[t].at = "check"
  /\ LocalGo(t, IF Forwards THEN "done" ELSE "resume")
  /\ UNCHANGED <<session, fields, process, watched, probe, killing, retired, exit>>

\* restartLocalSessionIfPaused
ResumeLocal(t) ==
  /\ call[t].at = "resume"
  /\ IF session = Nobody \/ Forwards
       THEN /\ LocalGo(t, IF session = Nobody THEN "spawn" ELSE "done")
            /\ UNCHANGED <<fields, probe>>
       ELSE /\ LocalGo(t, "done")
            /\ fields' = [fields EXCEPT ![session].forwarding = TRUE, ![session].ready = FALSE,
                                        ![session].probe = t]
            /\ probe' = [probe EXCEPT ![t] = [at |-> "waiting", session |-> session]]
  /\ UNCHANGED <<session, process, watched, killing, retired, exit>>

\* The service answers already, is started, or cannot be started.
Spawn(t) ==
  /\ call[t].at = "spawn"
  /\ \/ LocalGo(t, "register") /\ UNCHANGED process
     \/ LocalGo(t, "register") /\ process' = [process EXCEPT ![t] = "running"]
     \/ LocalGo(t, "done") /\ UNCHANGED process
  /\ UNCHANGED <<session, fields, watched, probe, killing, retired, exit>>

\* Mutant: the deletion of the profile is not looked at again.
NoSessionYet == session = Nobody

MayRegister == ~retired /\ session = Nobody

RegisterLocal(t) ==
  /\ call[t].at = "register" /\ MayRegister
  /\ session' = t
  /\ fields' = [fields EXCEPT ![t] = [process |-> process[t] # "none", remotePID |-> FALSE,
                                      probe |-> t, forwarding |-> TRUE, ready |-> FALSE]]
  /\ watched' = [watched EXCEPT ![t] = IF process[t] # "none" THEN "waiting" ELSE "none"]
  /\ probe' = [probe EXCEPT ![t] = [at |-> "waiting", session |-> t]]
  /\ LocalGo(t, "done")
  /\ UNCHANGED <<process, killing, retired, exit>>

\* The profile was deleted or another start was faster: the process is killed.
NotRegisteredLocal(t) ==
  /\ call[t].at = "register" /\ ~MayRegister
  /\ killing' = [killing EXCEPT ![t] = IF process[t] # "none" THEN t ELSE Nobody]
  /\ LocalGo(t, "kill")
  /\ UNCHANGED <<session, fields, process, watched, probe, retired, exit>>

PauseLocal(t) ==
  /\ call[t].at = "new" /\ "pause" \in CallKinds /\ Forwards
  /\ call' = [call EXCEPT ![t].kind = "pause", ![t].at = "done"]
  /\ StopsForwarding(session)
  /\ UNCHANGED <<process, watched, killing, retired, exit>>

\* handleStopService and the deletion read the session in one critical section
\* and stop it in a later one.
StopLocal(t) ==
  /\ call[t].at = "new" /\ "stop" \in CallKinds /\ session # Nobody
  /\ call' = [call EXCEPT ![t] = [kind |-> "stop", at |-> "stop", session |-> session]]
  /\ UNCHANGED <<session, fields, process, watched, probe, killing, retired, exit>>

DeleteLocal(t) ==
  /\ call[t].at = "new" /\ "delete" \in CallKinds /\ ~retired
  /\ retired' = TRUE
  /\ call' = [call EXCEPT ![t] = [kind |-> "delete", session |-> session,
                                  at |-> IF session = Nobody THEN "erase" ELSE "stop"]]
  /\ UNCHANGED <<session, fields, process, watched, probe, killing, exit>>

\* sessionStillActiveLocked
StillThere(s) == session = s

\* stopSessionResources(session, true)
StopResources(t) ==
  LET s == call[t].session IN
  /\ call[t].at = "stop"
  /\ \/ StillThere(s) /\ TakeApart(t, s)
     \/ ~StillThere(s) /\ NotTaken
  /\ LocalGo(t, "kill")
  /\ UNCHANGED <<process, watched, retired, exit>>

Killed(k) ==
  /\ process' = [s \in Call |-> IF s = killing[k] THEN "ended" ELSE process[s]]
  /\ killing' = [killing EXCEPT ![k] = Nobody]

KillLocal(t) ==
  /\ call[t].at = "kill"
  /\ Killed(t)
  /\ LocalGo(t, IF call[t].kind = "delete" THEN "erase" ELSE "done")
  /\ UNCHANGED <<session, fields, watched, probe, retired, exit>>

\* A profile that cannot be erased is revived.
EraseLocal(t) ==
  /\ call[t].at = "erase"
  /\ LocalGo(t, "done") /\ retired' \in BOOLEAN
  /\ UNCHANGED <<session, fields, process, watched, probe, killing, exit>>

-----------------------------------------------------------------------------
(* Goroutines.                                                              *)

ProcessEnds(s) ==
  /\ process[s] = "running"
  /\ process' = [process EXCEPT ![s] = "ended"]
  /\ UNCHANGED <<session, fields, watched, probe, call, killing, retired, exit>>

\* watchLocalProcess
ProcessWatched(s) ==
  /\ watched[s] = "waiting" /\ process[s] = "ended"
  /\ watched' = [watched EXCEPT ![s] = "over"]
  /\ \/ /\ StillThere(s)
        /\ session' = Nobody /\ CancelProbe(fields[s].probe)
        /\ fields' = [fields EXCEPT ![s] = NoFields]
     \/ ~StillThere(s) /\ UNCHANGED <<session, fields, probe>>
  /\ UNCHANGED <<process, call, killing, retired, exit>>

\* waitForLocalHealth: the answer, and then what is done about it.
ProbeAnswers(h) ==
  /\ probe[h].at = "waiting"
  /\ \E answer \in {"ok", "failed"} : probe' = [probe EXCEPT ![h].at = answer]
  /\ UNCHANGED <<session, fields, process, watched, call, killing, retired, exit>>

\* markSessionReady
ProbeOk(h) ==
  LET s == probe[h].session IN
  /\ probe[h].at = "ok"
  /\ probe' = [probe EXCEPT ![h].at = "identity"]
  /\ fields' = IF StillThere(s) /\ fields[s].forwarding
                 THEN [fields EXCEPT ![s].ready = TRUE] ELSE fields
  /\ UNCHANGED <<session, process, watched, call, killing, retired, exit>>

\* refreshLocalIdentity: the identity is read with a limit of its own, which
\* nothing cancels, and noted also when the session has been paused meanwhile.
ProbeIdentifies(h) ==
  LET s == probe[h].session IN
  /\ probe[h].at = "identity"
  /\ probe' = [probe EXCEPT ![h].at = "over"]
  /\ \/ StillThere(s) /\ fields' = [fields EXCEPT ![s].remotePID = TRUE]
     \/ UNCHANGED fields
  /\ UNCHANGED <<session, process, watched, call, killing, retired, exit>>

\* chemSSHBridgeContext: a request of the page reads it for a session that
\* still forwards when the answer is there.
BridgeIdentifies ==
  /\ Forwards
  /\ fields' = [fields EXCEPT ![session].remotePID = TRUE]
  /\ UNCHANGED <<session, process, watched, probe, call, killing, retired, exit>>

\* The check is over; what it cancels is another check of the session.
ProbeFailed(h) ==
  LET s == probe[h].session IN
  /\ probe[h].at = "failed"
  /\ probe' = [t \in Call |->
       IF t = h \/ (StillThere(s) /\ t = fields[s].probe /\ probe[t].at = "waiting")
         THEN [probe[t] EXCEPT !.at = "over"] ELSE probe[t]]
  /\ IF StillThere(s)
       THEN /\ session' = Nobody
            /\ fields' = [fields EXCEPT ![s] = NoFields]
            /\ killing' = [killing EXCEPT ![Check(h)] = IF fields[s].process THEN s ELSE Nobody]
       ELSE UNCHANGED <<session, fields, killing>>
  /\ UNCHANGED <<process, watched, call, retired, exit>>

ProbeKills(h) ==
  /\ killing[Check(h)] # Nobody
  /\ Killed(Check(h))
  /\ UNCHANGED <<session, fields, watched, probe, call, retired, exit>>

\* stopAllLocalLauncherResources: a snapshot, then each session of it.
ExitSnapshot ==
  /\ exit.at = "no"
  /\ exit' = [at |-> "sweep", todo |-> session, took |-> session]
  /\ UNCHANGED <<session, fields, process, watched, probe, call, killing, retired>>

ExitSweep ==
  /\ exit.at = "sweep"
  /\ exit' = [exit EXCEPT !.at = "kill", !.todo = Nobody]
  /\ IF exit.todo # Nobody /\ StillThere(exit.todo)
       THEN TakeApart(Sweep, exit.todo) ELSE NotTaken
  /\ UNCHANGED <<process, watched, call, retired>>

ExitKill ==
  /\ exit.at = "kill"
  /\ Killed(Sweep)
  /\ exit' = [exit EXCEPT !.at = "gone"]
  /\ UNCHANGED <<session, fields, watched, probe, call, retired>>

-----------------------------------------------------------------------------
Serve(t) == StopFirstLocal(t) \/ CheckLocal(t) \/ ResumeLocal(t) \/ Spawn(t) \/ RegisterLocal(t)
            \/ NotRegisteredLocal(t) \/ StopResources(t) \/ KillLocal(t) \/ EraseLocal(t)
Probe(h) == ProbeAnswers(h) \/ ProbeOk(h) \/ ProbeIdentifies(h) \/ ProbeFailed(h)
            \/ ProbeKills(h)

\* Requests and goroutines go on until the process ends.
LocalNext ==
  \/ \E t \in Call : StartLocal(t) \/ PauseLocal(t) \/ StopLocal(t) \/ DeleteLocal(t)
  \/ \E t \in Call : Serve(t) \/ ProcessEnds(t) \/ ProcessWatched(t) \/ Probe(t)
  \/ BridgeIdentifies \/ ExitSnapshot \/ ExitSweep \/ ExitKill

LocalFairness == \A t \in Call :
  WF_localVars(Serve(t)) /\ WF_localVars(ProcessWatched(t)) /\ WF_localVars(Probe(t))

LocalSpec == LocalInit /\ [][LocalNext]_localVars /\ LocalFairness

-----------------------------------------------------------------------------
(* Properties.                                                              *)

Starting(t) == call[t].at = "register"

\* A local ChemSSH process is never left to itself: while it runs, its session
\* is registered and has it, the start that made it has not registered it yet,
\* or somebody who took the session apart is about to kill it.
ProcessOwned == \A t \in Call : process[t] = "running" =>
  \/ session = t /\ fields[t].process
  \/ Starting(t)
  \/ \E k \in Killer : killing[k] = t

\* A dead process does not stay registered: its watcher will take the session
\* away, and no other session with it.
DeadIsNoticed ==
  /\ session # Nobody /\ fields[session].process /\ process[session] = "ended"
       => watched[session] = "waiting"
  /\ \A t \in Call : fields[t] # NoFields => session = t

\* A deleted local profile has no session once the deletion is over, although a
\* start may have been under way all along.
DeletedLocalGone ==
  retired /\ (\A t \in Call : call[t].kind = "delete" => call[t].at = "done")
    => session = Nobody

\* What the exit found in its snapshot is stopped: the process of that session
\* does not run when stopAllLocalLauncherResources returns, unless another
\* request is stopping it. A session registered after the snapshot is not
\* among them: see NothingLeft.
SweptIsStopped == exit.at = "gone" /\ exit.took # Nobody =>
  process[exit.took] # "running" \/ \E k \in Killer : killing[k] = exit.took

\* No process of a local profile is left to itself, none that died stays
\* registered, and neither deletion nor exit forgets one they have found.
LocalSound ==
  LocalTypeOK /\ ProcessOwned /\ DeadIsNoticed /\ DeletedLocalGone /\ SweptIsStopped

\* README.md:508 says the launcher stops local ChemSSH when its pages are gone.
\* A start that is under way at the snapshot leaves a process behind.
NothingLeft == exit.at = "gone" /\ (\A t \in Call : call[t].at \in {"new", "done"}) =>
  \A t \in Call : process[t] # "running"
=============================================================================

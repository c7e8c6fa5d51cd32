-------------------------------- MODULE Bridge --------------------------------
(***************************************************************************)
(* The bridge through which ChemSSH's page opens remote files locally       *)
(* (internal/gui/chemssh_bridge.go): all requests share one slot, s.bridge, *)
(* that is empty, being filled by one dial, or full with a dedicated SFTP   *)
(* session. A request for another profile or workspace takes the slot; so   *)
(* does the end of forwarding; the dial under way learns of it at its end.  *)
(*                                                                          *)
(* A request that takes the slot gives its name to its dial                 *)
(* (chemSSHBridgeConnect) and to the SFTP session this opens. The warm-up   *)
(* after a start is a request that opens no file. Local profiles have no    *)
(* bridge session. What becomes of a watched item is in OpenSync.           *)
(***************************************************************************)
EXTENDS Naturals, FiniteSets

CONSTANTS
  Request,   \* requests of pages to open a file, and warm-ups
  Profile,   \* remote profiles
  Root,      \* workspace roots ChemSSH may report
  None,      \* nil or ""
  MaxStarts  \* bound: how often forwarding starts

ASSUME BridgeAssumption ==
  None \notin Request \cup (Profile \X Root) /\ MaxStarts \in Nat

VARIABLES
  forwarding, \* profiles whose active session forwards
  root,       \* the workspace of each profile's session
  starts,     \* starts so far
  stopping,   \* stops that have still to call closeChemSSHBridgeSessionForProfile
  bridge,     \* s.bridge: [session, connecting, target]
  pc,         \* where each request is
  target,     \* its profile and workspace root
  other,      \* the dial it waits for, or the session whose slot it took
  use,        \* the session it was given
  done,       \* what became of its own dial, as its waiters learn
  connected,  \* sessions registered in the session registry
  items,      \* sessions with files registered for upload
  sweep,      \* clearChemSSHBridgeState of a session taken from the slot
  shut        \* how far the shutdown has come

life  == <<forwarding, root, starts, stopping, shut>>
local == <<target, other, use>>
sftp  == <<connected, items>>
vars  == <<life, bridge, pc, local, done, sftp, sweep>>

Target == Profile \X Root
Nothing == [session |-> None, connecting |-> None, target |-> None]

Ended == {"failed", "warmed", "opened"}
PC == Ended \cup {"new", "reserve", "wait", "dial", "check", "finish", "giveback",
                  "error", "discard", "have", "register"}

TypeOK ==
  /\ forwarding \subseteq Profile /\ root \in [Profile -> Root]
  /\ starts \in 0..MaxStarts /\ stopping \in [Profile -> 0..MaxStarts]
  /\ bridge \in [session : Request \cup {None}, connecting : Request \cup {None},
                 target : Target \cup {None}]
  /\ bridge.session = None \/ bridge.connecting = None
  /\ pc \in [Request -> PC] /\ target \in [Request -> Target \cup {None}]
  /\ other \in [Request -> Request \cup {None}]
  /\ use \in [Request -> Request \cup {None}]
  /\ done \in [Request -> {"open", "ok", "failed"}]
  /\ connected \subseteq Request /\ items \subseteq Request
  /\ sweep \in [Request -> {"no", "unregister", "disconnect", "over"}]
  /\ shut \in {"no", "sftp", "sync", "over"}

Init ==
  /\ forwarding = {} /\ root \in [Profile -> Root]
  /\ starts = 0 /\ stopping = [p \in Profile |-> 0]
  /\ bridge = Nothing
  /\ pc = [r \in Request |-> "new"] /\ target = [r \in Request |-> None]
  /\ other = [r \in Request |-> None] /\ use = [r \in Request |-> None]
  /\ done = [r \in Request |-> "open"]
  /\ connected = {} /\ items = {}
  /\ sweep = [r \in Request |-> "no"] /\ shut = "no"

Goto(r, at) == pc' = [pc EXCEPT ![r] = at]

\* The slot is left to newSlot; a session that was in it has to be cleared.
Take(newSlot) ==
  /\ bridge' = newSlot
  /\ sweep' = IF bridge.session = None THEN sweep
              ELSE [sweep EXCEPT ![bridge.session] = "unregister"]

-----------------------------------------------------------------------------
(* Forwarding starts and stops (SessionLifecycle has the details).          *)

\* Also a resume; ChemSSH may run in another workspace than before.
Start(p) ==
  /\ p \notin forwarding /\ starts < MaxStarts
  /\ starts' = starts + 1
  /\ forwarding' = forwarding \cup {p}
  /\ root' \in {[root EXCEPT ![p] = v] : v \in Root}
  /\ UNCHANGED <<stopping, shut, bridge, pc, local, done, sftp, sweep>>

\* A pause, a stop, a failed health check or the end of the remote command,
\* up to the unlock.
Stop(p) ==
  /\ p \in forwarding /\ forwarding' = forwarding \ {p}
  /\ stopping' = [stopping EXCEPT ![p] = @ + 1]
  /\ UNCHANGED <<root, starts, shut, bridge, pc, local, done, sftp, sweep>>

OfProfile(p) == bridge.target # None /\ bridge.target[1] = p

CloseForProfile(p) ==
  /\ stopping[p] > 0 /\ stopping' = [stopping EXCEPT ![p] = @ - 1]
  /\ IF OfProfile(p) THEN Take(Nothing) ELSE UNCHANGED <<bridge, sweep>>
  /\ UNCHANGED <<forwarding, root, starts, shut, pc, local, done, sftp>>

-----------------------------------------------------------------------------
(* clearChemSSHBridgeState                                                  *)

ClearUnregister(s) ==
  /\ sweep[s] = "unregister" /\ sweep' = [sweep EXCEPT ![s] = "disconnect"]
  /\ items' = items \ {s}
  /\ UNCHANGED <<life, bridge, pc, local, done, connected>>

\* Mutant: the session stays registered.
Kept(s) == connected

Released(s) == connected \ {s}

ClearDisconnect(s) ==
  /\ sweep[s] = "disconnect" /\ sweep' = [sweep EXCEPT ![s] = "over"]
  /\ connected' = Released(s)
  /\ UNCHANGED <<life, bridge, pc, local, done, items>>

-----------------------------------------------------------------------------
(* ensureChemSSHBridgeSFTPSessionForProfile                                 *)

\* chemSSHBridgeContext, or the check of a warm-up: what is read here may be
\* out of date in every later step.
Begin(r) ==
  /\ pc[r] = "new" /\ Goto(r, "reserve")
  /\ \E p \in forwarding : target' = [target EXCEPT ![r] = <<p, root[p]>>]
  /\ UNCHANGED <<life, bridge, other, use, done, sftp, sweep>>

\* Mutant: only the workspace is compared.
SameRoot(r) == bridge.target # None /\ bridge.target[2] = target[r][2]

SameTarget(r) == bridge.target = target[r]

CanReuse(r) == SameTarget(r) /\ bridge.session \in connected
CanJoin(r)  == SameTarget(r) /\ bridge.connecting # None

Reuse(r) ==
  /\ pc[r] = "reserve" /\ CanReuse(r)
  /\ use' = [use EXCEPT ![r] = bridge.session] /\ Goto(r, "have")
  /\ UNCHANGED <<life, bridge, target, other, done, sftp, sweep>>

Join(r) ==
  /\ pc[r] = "reserve" /\ CanJoin(r)
  /\ other' = [other EXCEPT ![r] = bridge.connecting] /\ Goto(r, "wait")
  /\ UNCHANGED <<life, bridge, target, use, done, sftp, sweep>>

TakeSlot(r) ==
  /\ pc[r] = "reserve" /\ ~CanReuse(r) /\ ~CanJoin(r)
  /\ Take([session |-> None, connecting |-> r, target |-> target[r]])
  /\ other' = [other EXCEPT ![r] = bridge.session] /\ Goto(r, "dial")
  /\ UNCHANGED <<life, target, use, done, sftp>>

\* <-connect.done
Joined(r) ==
  LET c == other[r] IN
  /\ pc[r] = "wait" /\ done[c] # "open"
  /\ IF done[c] = "ok" THEN use' = [use EXCEPT ![r] = c] /\ Goto(r, "have")
                       ELSE Goto(r, "failed") /\ UNCHANGED use
  /\ UNCHANGED <<life, bridge, target, other, done, sftp, sweep>>

\* ConnectDedicated, when the session whose slot was taken is cleared.
Cleared(r) == other[r] \in {None} \cup {s \in Request : sweep[s] = "over"}

DialOk(r) ==
  /\ pc[r] = "dial" /\ Cleared(r)
  /\ connected' = connected \cup {r} /\ Goto(r, "check")
  /\ UNCHANGED <<life, bridge, local, done, items, sweep>>

DialFails(r) ==
  /\ pc[r] = "dial" /\ Cleared(r) /\ Goto(r, "error")
  /\ UNCHANGED <<life, bridge, local, done, sftp, sweep>>

\* Mutant: what was true when the request came is not looked at again.
WasForwarding(r) == TRUE

StillForwarding(r) == target[r][1] \in forwarding

Check(r) ==
  /\ pc[r] = "check"
  /\ Goto(r, IF StillForwarding(r) THEN "finish" ELSE "giveback")
  /\ UNCHANGED <<life, bridge, local, done, sftp, sweep>>

GiveBack(r) ==
  /\ pc[r] = "giveback" /\ Goto(r, "error")
  /\ connected' = Released(r)
  /\ UNCHANGED <<life, bridge, local, done, items, sweep>>

\* Mutant: a dial that ends fills the slot, whoever holds it.
Always(r) == TRUE

HoldsSlot(r) == bridge.connecting = r

\* Mutant: a dial that lost its slot does not wake its waiters.
WakeHeld(r, how) ==
  done' = IF bridge.connecting = r THEN [done EXCEPT ![r] = how] ELSE done

\* close(connect.done)
Wake(r, how) == done' = [done EXCEPT ![r] = how]

\* finishChemSSHBridgeSFTPConnect with an error
FinishError(r) ==
  /\ pc[r] = "error" /\ Goto(r, "failed")
  /\ bridge' = IF HoldsSlot(r) THEN Nothing ELSE bridge
  /\ Wake(r, "failed")
  /\ UNCHANGED <<life, local, sftp, sweep>>

Filled(r) == [session |-> r, connecting |-> None, target |-> target[r]]

\* finishChemSSHBridgeSFTPConnect with a session
Finish(r) ==
  /\ pc[r] = "finish"
  /\ IF HoldsSlot(r)
       THEN /\ bridge' = Filled(r) /\ Wake(r, "ok")
            /\ use' = [use EXCEPT ![r] = r] /\ Goto(r, "have")
       ELSE Wake(r, "failed") /\ Goto(r, "discard") /\ UNCHANGED <<bridge, use>>
  /\ UNCHANGED <<life, target, other, sftp, sweep>>

Discard(r) ==
  /\ pc[r] = "discard" /\ Goto(r, "failed")
  /\ connected' = Released(r)
  /\ UNCHANGED <<life, bridge, local, done, items, sweep>>

-----------------------------------------------------------------------------
(* openRemoteFileWithLocalApp, with the session in hand.                    *)

Warmed(r) ==
  /\ pc[r] = "have" /\ Goto(r, "warmed")
  /\ UNCHANGED <<life, bridge, local, done, sftp, sweep>>

CacheFile(r) ==
  /\ pc[r] = "have" /\ use[r] \in connected /\ Goto(r, "register")
  /\ UNCHANGED <<life, bridge, local, done, sftp, sweep>>

\* The download fails, or the session is gone.
CacheFails(r) ==
  /\ pc[r] = "have" /\ Goto(r, "failed")
  /\ UNCHANGED <<life, bridge, local, done, sftp, sweep>>

Register(r) ==
  /\ pc[r] = "register" /\ Goto(r, "opened")
  /\ items' = items \cup {use[r]}
  /\ UNCHANGED <<life, bridge, local, done, connected, sweep>>

-----------------------------------------------------------------------------
(* shutdownAfterBrowserClientsGone: the active sessions it saw are stopped  *)
(* by Stop; a start under way may come after that.                          *)

CloseSessions ==
  /\ shut = "no" /\ shut' = "sftp" /\ connected' = {}
  /\ UNCHANGED <<forwarding, root, starts, stopping, bridge, pc, local, done, items, sweep>>

CloseItems ==
  /\ shut = "sftp" /\ shut' = "sync" /\ items' = {}
  /\ UNCHANGED <<forwarding, root, starts, stopping, bridge, pc, local, done, connected, sweep>>

CloseBridge ==
  /\ shut = "sync" /\ shut' = "over" /\ Take(Nothing)
  /\ UNCHANGED <<forwarding, root, starts, stopping, pc, local, done, sftp>>

-----------------------------------------------------------------------------
RequestStep(r) ==
  \/ Reuse(r) \/ Join(r) \/ TakeSlot(r) \/ Joined(r) \/ DialOk(r) \/ DialFails(r)
  \/ Check(r) \/ GiveBack(r) \/ FinishError(r) \/ Finish(r) \/ Discard(r)
  \/ Warmed(r) \/ CacheFile(r) \/ CacheFails(r) \/ Register(r)

Clear(s) == ClearUnregister(s) \/ ClearDisconnect(s)

Next ==
  \/ \E p \in Profile : Start(p) \/ Stop(p) \/ CloseForProfile(p)
  \/ \E r \in Request : Begin(r) \/ RequestStep(r) \/ Clear(r)
  \/ CloseSessions \/ CloseItems \/ CloseBridge

Spec == Init /\ [][Next]_vars

-----------------------------------------------------------------------------
\* A registered bridge session is in the slot, being cleared, or its own dial
\* still has to decide about it: whatever took the slot meanwhile, no SSH
\* connection is left without somebody who closes it.
SessionsHeld ==
  \A s \in connected :
    \/ bridge.session = s
    \/ sweep[s] \in {"unregister", "disconnect"}
    \/ pc[s] \in {"check", "finish", "giveback", "discard"}

\* A session in the slot belongs to a profile that forwards, or the stop of
\* its forwarding is about to look: a dial never outlives a stop it overlapped.
ServesForwarding ==
  bridge.session # None =>
    bridge.target[1] \in forwarding \/ stopping[bridge.target[1]] > 0

\* A request is given a session of its own profile and workspace, be it its
\* own, one found in the slot or one it waited for: a path is never opened on
\* another server.
AnswersMatch ==
  \A r \in Request : use[r] # None => target[use[r]] = target[r]

\* A file that was opened is watched as long as its session is registered;
\* who takes the session from the slot drops the items first.
OpenedIsWatched ==
  \A r \in Request : pc[r] = "opened" /\ use[r] \in connected /\ shut = "no"
    => use[r] \in items \/ sweep[use[r]] = "disconnect"

\* A request that waits for a dial will be woken: the dial has been reported, or
\* is still under way, whoever took its slot.
WaitersServed ==
  \A r \in Request : pc[r] = "wait" =>
    \/ done[other[r]] # "open"
    \/ pc[other[r]] \in {"dial", "check", "finish", "giveback", "error"}

\* The slot, the requests and their answers agree.
BridgeSound == TypeOK /\ AnswersMatch

-----------------------------------------------------------------------------
(* What makes these inductive.                                              *)

Dialling == {"dial", "check", "finish", "giveback", "error"}
Served   == {"have", "register"} \cup Ended

\* A stop that has not looked yet, or a profile that forwards, took a start.
StopsCounted ==
  \A p \in Profile :
    /\ stopping[p] <= starts
    /\ p \in forwarding => stopping[p] < starts

\* The slot names a dial under way, or a session nobody has begun to clear.
SlotSound ==
  /\ bridge.connecting # None =>
       /\ pc[bridge.connecting] \in Dialling
       /\ bridge.target = target[bridge.connecting]
  /\ bridge.session # None =>
       /\ pc[bridge.session] \in Served
       /\ bridge.target = target[bridge.session]
       /\ sweep[bridge.session] = "no"

\* What a request knows: its target since it came, whom it waits for, and a
\* session whose dial was successful.
LocalsSound ==
  \A r \in Request :
    /\ pc[r] # "new" => target[r] \in Target
    /\ pc[r] = "wait" => /\ other[r] \in Request
                         /\ pc[other[r]] # "new"
                         /\ target[other[r]] = target[r]
    /\ pc[r] \in {"have", "register", "opened"} => use[r] # None
    /\ use[r] # None => pc[use[r]] \in Served /\ pc[r] # "new"

\* When a request's own session is registered, reported and cleared.
SessionsSound ==
  \A s \in Request :
    /\ s \in connected => pc[s] \in {"check", "finish", "giveback", "discard"} \cup Served
    /\ sweep[s] # "no" \/ done[s] = "ok" => pc[s] \in Served
    /\ sweep[s] = "over" => s \notin connected

\* A dial past its check still has the stop of its profile before it.
CheckedInTime ==
  \A r \in Request :
    pc[r] = "finish" /\ bridge.connecting = r =>
      target[r][1] \in forwarding \/ stopping[target[r][1]] > 0

IInv ==
  /\ TypeOK /\ StopsCounted /\ SlotSound /\ LocalsSound /\ SessionsSound
  /\ CheckedInTime /\ SessionsHeld /\ ServesForwarding /\ AnswersMatch
  /\ OpenedIsWatched /\ WaitersServed

=============================================================================

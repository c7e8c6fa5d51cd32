------------------------------- MODULE Shells -------------------------------
(***************************************************************************)
(* The SSH terminals of the launcher (internal/gui/terminal.go over         *)
(* internal/sshclient/shell.go): a request opens a remote shell on an SSH   *)
(* connection of its own and registers it, a second request streams its     *)
(* output, and the stream's end, a timer, a request, the deletion of the    *)
(* profile, the end of the remote shell and the launcher's exit all close   *)
(* it. Each shell is named by the request that opens it.                    *)
(*                                                                         *)
(* The attach timeout (30 s) is assumed to outlast the two statements of    *)
(* add that follow its start, so arming and registering are one step.       *)
(***************************************************************************)
EXTENDS Naturals, FiniteSets

CONSTANTS
  Shell,    \* open requests, and the shells they open
  Reader,   \* requests for a shell's output
  Sweeper,  \* requests that close a shell or delete a profile
  ShellProfile,
  None

\* Who closes shells: requests, the goroutine on a request's context, the exit.
Exiter == <<"exit">>
Ctx(r) == <<"ctx", r>>
Closer == Sweeper \cup Reader \cup {Ctx(r) : r \in Reader} \cup {Exiter}

ASSUME ShellAssumption ==
  /\ IsFiniteSet(Shell) /\ IsFiniteSet(Reader) /\ IsFiniteSet(Sweeper)
  /\ None \notin Shell \cup ShellProfile
  /\ Sweeper \cap Reader = {}
  /\ ({Ctx(r) : r \in Reader} \cup {Exiter}) \cap (Sweeper \cup Reader) = {}

VARIABLES
  sh,      \* the shells, see ShellRecord
  listed,  \* m.sessions
  stored,  \* profiles in the store
  reader,  \* output requests: [at, shell, gone]
  sweep,   \* sweepers: [at, profile]
  job,     \* closings: shells taken from the map and the one being closed
  leave    \* the launcher's exit: [at, cut]

shellVars == <<sh, listed, stored, reader, sweep, job, leave>>

ShellRecord ==
  [at      : {"new", "dial", "channel", "integrate", "session", "start", "add",
              "giveup", "done", "failed"},
   profile : ShellProfile \cup {None},
   try     : {"integrated", "proxied", "plain"},
   ssh     : {"none", "open", "dead", "closed"},
   channel : {"none", "open", "told"}, \* reverse channel to the local proxy; the
                       \* shell was started with its address in the environment
   ended   : BOOLEAN,  \* the remote shell is over
   wait    : {"none", "waiting", "closing", "over"}, \* goroutine on session.Wait
   once    : {"idle", "half", "over"},               \* closeOnce
   timer   : {"none", "armed", "fired", "closing", "over"},
   attached : BOOLEAN,
   closed  : BOOLEAN]

ShellTypeOK ==
  /\ sh \in [Shell -> ShellRecord]
  /\ listed \subseteq Shell /\ stored \subseteq ShellProfile
  /\ reader \in [Reader -> [at : {"new", "found", "reading", "leaving", "over"},
                            shell : Shell \cup {None}, gone : BOOLEAN,
                            ctx : {"none", "watching", "closing", "over"}]]
  /\ sweep \in [Sweeper -> [at : {"new", "deleting", "sweeping"},
                            profile : ShellProfile \cup {None}]]
  /\ job \in [Closer -> [todo : SUBSET Shell, cur : Shell \cup {None}]]
  /\ leave \in [at : {"running", "closing", "shutdown", "again", "exited"}, cut : BOOLEAN]

ShellInit ==
  /\ sh = [s \in Shell |->
       [at |-> "new", profile |-> None, try |-> "plain", ssh |-> "none",
        channel |-> "none", ended |-> FALSE, wait |-> "none",
        once |-> "idle", timer |-> "none", attached |-> FALSE, closed |-> FALSE]]
  /\ listed = {} /\ stored = ShellProfile
  /\ reader = [r \in Reader |->
       [at |-> "new", shell |-> None, gone |-> FALSE, ctx |-> "none"]]
  /\ sweep = [w \in Sweeper |-> [at |-> "new", profile |-> None]]
  /\ job = [c \in Closer |-> [todo |-> {}, cur |-> None]]
  /\ leave = [at |-> "running", cut |-> FALSE]

Serving == leave.at \in {"running", "closing"}
Up == leave.at # "exited"

-----------------------------------------------------------------------------
(* StartInteractiveShell.                                                   *)

shellRest == <<listed, stored, reader, sweep, job, leave>>
SetShell(s, new) == sh' = [sh EXCEPT ![s] = new] /\ UNCHANGED shellRest
ShellAt(s, at) == SetShell(s, [sh[s] EXCEPT !.at = at])

\* Mutant: a failure leaves the SSH connection open.
OnlyChannelClosed(x) ==
  [x EXCEPT !.at = "failed", !.channel = "none"]

\* fail: the channel and the client are closed.
ShellFailed(x) == [x EXCEPT !.at = "failed", !.ssh = "closed", !.channel = "none"]

OpenStart(s) ==
  /\ sh[s].at = "new" /\ Serving
  /\ \E p \in stored : SetShell(s, [sh[s] EXCEPT !.at = "dial", !.profile = p])

Dial(s) ==
  /\ sh[s].at = "dial"
  /\ \/ SetShell(s, [sh[s] EXCEPT !.at = "channel", !.ssh = "open"])
     \/ ShellAt(s, "failed")

\* The reverse channel, if the profile has a local proxy; without it the
\* terminal starts all the same.
OpenChannel(s) ==
  /\ sh[s].at = "channel"
  /\ \/ sh[s].ssh = "open" /\ SetShell(s, [sh[s] EXCEPT !.at = "integrate", !.channel = "open"])
     \/ ShellAt(s, "integrate")

NextTry(x) == IF x.channel = "open" THEN "proxied" ELSE "plain"

Integrate(s) ==
  /\ sh[s].at = "integrate"
  /\ \/ /\ sh[s].ssh = "open"
        /\ SetShell(s, [sh[s] EXCEPT !.at = "session", !.try = "integrated"])
     \/ SetShell(s, [sh[s] EXCEPT !.at = "session", !.try = NextTry(sh[s])])

OpenSession(s) ==
  /\ sh[s].at = "session"
  /\ \/ sh[s].ssh = "open" /\ ShellAt(s, "start")
     \/ SetShell(s, ShellFailed(sh[s]))

\* The remote shell runs and its end is waited for. A shell that had to be
\* started without the environment loses the channel.
Started(x) ==
  [x EXCEPT !.at = "add", !.wait = "waiting", !.try = "plain",
            !.channel = IF x.try # "plain" /\ @ = "open" THEN "told" ELSE "none"]

StartShell(s) ==
  LET x == sh[s] IN
  /\ x.at = "start"
  /\ \/ x.ssh = "open" /\ SetShell(s, Started(x))
     \/ /\ x.try # "plain"
        /\ SetShell(s, [x EXCEPT !.at = "session",
                            !.try = IF x.try = "integrated" THEN NextTry(x) ELSE "plain"])
     \/ x.try = "plain" /\ SetShell(s, ShellFailed(x))

-----------------------------------------------------------------------------
(* The registry.                                                            *)

\* add; without an identity (no randomness) the shell is closed.
Register(s) ==
  /\ sh[s].at = "add"
  /\ sh' = [sh EXCEPT ![s].at = "done", ![s].timer = "armed"]
  /\ listed' = listed \cup {s}
  /\ UNCHANGED <<stored, reader, sweep, job, leave>>

NotRegistered(s) == sh[s].at = "add" /\ ShellAt(s, "giveup")
GaveUp(s) == sh[s].at = "giveup" /\ sh[s].once = "over" /\ ShellAt(s, "failed")

Stopped(timer) == IF timer = "armed" THEN "over" ELSE timer

TimerFires(s) ==
  /\ sh[s].timer = "armed"
  /\ SetShell(s, [sh[s] EXCEPT !.timer = "fired"])

\* Mutant: the timer looks whether the shell is registered, and no more.
AnyListed(s) == s \in listed

Unattended(s) == s \in listed /\ ~sh[s].attached /\ ~sh[s].closed

CloseIfUnattached(s) ==
  /\ sh[s].timer = "fired"
  /\ IF Unattended(s)
       THEN /\ sh' = [sh EXCEPT ![s].timer = "closing", ![s].closed = TRUE]
            /\ listed' = listed \ {s}
       ELSE /\ sh' = [sh EXCEPT ![s].timer = "over"]
            /\ UNCHANGED listed
  /\ UNCHANGED <<stored, reader, sweep, job, leave>>

TimerReturns(s) ==
  /\ sh[s].timer = "closing" /\ sh[s].once = "over"
  /\ SetShell(s, [sh[s] EXCEPT !.timer = "over"])

\* A closer takes shells out of the map in one critical section ...
Take(c, S) ==
  /\ job' = [job EXCEPT ![c].todo = S \cap listed]
  /\ listed' = listed \ S

\* ... and then closes one after the other: launcherShell.close marks a shell
\* and calls Close, unless somebody else has.
CloseOne(c) ==
  /\ job[c].cur = None
  /\ \E s \in job[c].todo :
       IF sh[s].closed
         THEN /\ job' = [job EXCEPT ![c].todo = @ \ {s}]
              /\ UNCHANGED sh
         ELSE /\ job' = [job EXCEPT ![c] = [todo |-> @.todo \ {s}, cur |-> s]]
              /\ sh' = [sh EXCEPT ![s].closed = TRUE, ![s].timer = Stopped(@)]
  /\ UNCHANGED <<listed, stored, reader, sweep, leave>>

CloseReturns(c) ==
  /\ job[c].cur # None /\ sh[job[c].cur].once = "over"
  /\ job' = [job EXCEPT ![c].cur = None]
  /\ UNCHANGED <<sh, listed, stored, reader, sweep, leave>>

JobIdle(c) == job[c].todo = {} /\ job[c].cur = None

-----------------------------------------------------------------------------
(* InteractiveShell.Close under its sync.Once: one caller runs it, the       *)
(* others wait.                                                             *)

Calls(s) == \/ sh[s].wait = "closing" \/ sh[s].timer = "closing" \/ sh[s].at = "giveup"
            \/ \E c \in Closer : job[c].cur = s

CloseChannel(s) ==
  /\ sh[s].once = "idle" /\ Calls(s)
  /\ SetShell(s, [sh[s] EXCEPT !.once = "half", !.channel = "none"])

\* Session, remote files of the integration, client and output.
CloseClient(s) ==
  /\ sh[s].once = "half"
  /\ SetShell(s, [sh[s] EXCEPT !.once = "over", !.ssh = "closed", !.ended = TRUE])

\* Mutant: the end of the remote shell is not passed on.
IgnoresEnd(s) == SetShell(s, [sh[s] EXCEPT !.wait = "over"])

WaiterCloses(s) == SetShell(s, [sh[s] EXCEPT !.wait = "closing"])

\* session.Wait returns.
WaitReturns(s) == sh[s].wait = "waiting" /\ sh[s].ended /\ WaiterCloses(s)

WaiterReturns(s) ==
  /\ sh[s].wait = "closing" /\ sh[s].once = "over"
  /\ SetShell(s, [sh[s] EXCEPT !.wait = "over"])

\* The remote shell ends, by itself or with the connection; the connection
\* breaks while it is being opened.
RemoteEnds(s) ==
  /\ sh[s].wait = "waiting" /\ ~sh[s].ended
  /\ SetShell(s, [sh[s] EXCEPT !.ended = TRUE])
Breaks(s) ==
  /\ sh[s].ssh = "open" /\ sh[s].wait = "none"
  /\ SetShell(s, [sh[s] EXCEPT !.ssh = "dead"])

-----------------------------------------------------------------------------
(* handleShellOutput.                                                       *)

Get(r) ==
  /\ reader[r].at = "new" /\ Serving
  /\ \E s \in listed : reader' = [reader EXCEPT ![r].at = "found", ![r].shell = s]
  /\ UNCHANGED <<sh, listed, stored, sweep, job, leave>>

Attach(r) ==
  LET s == reader[r].shell IN
  /\ reader[r].at = "found"
  /\ IF sh[s].closed \/ sh[s].attached
       THEN /\ reader' = [reader EXCEPT ![r].at = "over"]
            /\ UNCHANGED sh
       ELSE /\ reader' = [reader EXCEPT ![r].at = "reading", ![r].ctx = "watching"]
            /\ sh' = [sh EXCEPT ![s].attached = TRUE, ![s].timer = Stopped(@)]
  /\ UNCHANGED <<listed, stored, sweep, job, leave>>

BrowserLeaves(r) ==
  /\ reader[r].at = "reading" /\ ~reader[r].gone
  /\ reader' = [reader EXCEPT ![r].gone = TRUE]
  /\ UNCHANGED <<sh, listed, stored, sweep, job, leave>>

\* The output ends or cannot be written; the deferred close.
StreamEnds(r) ==
  /\ reader[r].at = "reading"
  /\ reader[r].gone \/ sh[reader[r].shell].once = "over"
  /\ reader' = [reader EXCEPT ![r].at = "leaving"]
  /\ Take(r, {reader[r].shell})
  /\ UNCHANGED <<sh, stored, sweep, leave>>

ReaderReturns(r) ==
  /\ reader[r].at = "leaving" /\ JobIdle(r)
  /\ reader' = [reader EXCEPT ![r].at = "over"]
  /\ UNCHANGED <<sh, listed, stored, sweep, job, leave>>

\* The goroutine on the request's context.
ContextDone(r) ==
  /\ reader[r].ctx = "watching" /\ reader[r].gone
  /\ reader' = [reader EXCEPT ![r].ctx = "closing"]
  /\ Take(Ctx(r), {reader[r].shell})
  /\ UNCHANGED <<sh, stored, sweep, leave>>
ContextReturns(r) ==
  /\ \/ reader[r].ctx = "watching" /\ reader[r].at \in {"leaving", "over"}
     \/ reader[r].ctx = "closing" /\ JobIdle(Ctx(r))
  /\ reader' = [reader EXCEPT ![r].ctx = "over"]
  /\ UNCHANGED <<sh, listed, stored, sweep, job, leave>>

-----------------------------------------------------------------------------
(* Closing on request, with a profile, and at the end.                      *)

CloseRequest(w) ==
  /\ sweep[w].at = "new" /\ Serving
  /\ \E s \in listed : Take(w, {s})
  /\ sweep' = [sweep EXCEPT ![w].at = "sweeping"]
  /\ UNCHANGED <<sh, stored, reader, leave>>

RemoveProfile(w) ==
  /\ sweep[w].at = "new" /\ Serving
  /\ \E p \in stored :
       /\ stored' = stored \ {p}
       /\ sweep' = [sweep EXCEPT ![w] = [at |-> "deleting", profile |-> p]]
  /\ UNCHANGED <<sh, listed, reader, job, leave>>

CloseProfile(w) ==
  /\ sweep[w].at = "deleting"
  /\ Take(w, {s \in Shell : sh[s].profile = sweep[w].profile})
  /\ sweep' = [sweep EXCEPT ![w].at = "sweeping"]
  /\ UNCHANGED <<sh, stored, reader, leave>>

CloseAll(c) == Take(c, Shell)

ExitBegins ==
  /\ leave.at = "running"
  /\ leave' = [leave EXCEPT !.at = "closing"]
  /\ Take(Exiter, Shell)
  /\ UNCHANGED <<sh, stored, reader, sweep>>

\* http.Server.Shutdown: no more requests, and three seconds for the others.
Shutdown ==
  /\ leave.at = "closing" /\ JobIdle(Exiter)
  /\ leave' = [leave EXCEPT !.at = "shutdown"]
  /\ UNCHANGED <<sh, listed, stored, reader, sweep, job>>

Handling == \/ \E s \in Shell : sh[s].at \notin {"new", "done", "failed"}
            \/ \E r \in Reader : reader[r].at \notin {"new", "over"}
            \/ \E w \in Sweeper : sweep[w].at = "deleting" \/ ~JobIdle(w)

DeferredCloseAll ==
  /\ leave.at = "shutdown"
  /\ leave' = [at |-> "again", cut |-> Handling]
  /\ CloseAll(Exiter)
  /\ UNCHANGED <<sh, stored, reader, sweep>>

Exits ==
  /\ leave.at = "again" /\ JobIdle(Exiter)
  /\ leave' = [leave EXCEPT !.at = "exited"]
  /\ UNCHANGED <<sh, listed, stored, reader, sweep, job>>

-----------------------------------------------------------------------------
Opening(s) == Dial(s) \/ OpenChannel(s) \/ Integrate(s) \/ OpenSession(s) \/ StartShell(s)
              \/ Register(s) \/ NotRegistered(s) \/ GaveUp(s)
Timing(s) == CloseIfUnattached(s) \/ TimerReturns(s)
Waiting(s) == WaitReturns(s) \/ WaiterReturns(s)
Closing(s) == CloseChannel(s) \/ CloseClient(s)
Reading(r) == Attach(r) \/ StreamEnds(r) \/ ReaderReturns(r)
Leaving == Shutdown \/ DeferredCloseAll \/ Exits

ShellNext ==
  \/ Up /\ \E s \in Shell :
       \/ OpenStart(s) \/ Opening(s) \/ TimerFires(s) \/ Timing(s) \/ Waiting(s)
       \/ Closing(s) \/ RemoteEnds(s) \/ Breaks(s)
  \/ Up /\ \E r \in Reader :
       Get(r) \/ Reading(r) \/ BrowserLeaves(r) \/ ContextDone(r) \/ ContextReturns(r)
  \/ Up /\ \E c \in Closer : CloseOne(c) \/ CloseReturns(c)
  \/ Up /\ \E w \in Sweeper : CloseRequest(w) \/ RemoveProfile(w) \/ CloseProfile(w)
  \/ ExitBegins \/ Leaving

\* Every goroutine goes on, and time passes. Users, networks and the exit are
\* free.
ShellFairness ==
  /\ \A s \in Shell :
       /\ WF_shellVars(Up /\ Timing(s)) /\ WF_shellVars(Up /\ TimerFires(s))
       /\ WF_shellVars(Up /\ Waiting(s)) /\ WF_shellVars(Up /\ Closing(s))
       /\ WF_shellVars(Up /\ Opening(s))
  /\ \A r \in Reader : WF_shellVars(Up /\ Reading(r))
  /\ \A c \in Closer : WF_shellVars(Up /\ (CloseOne(c) \/ CloseReturns(c)))

ShellSpec == ShellInit /\ [][ShellNext]_shellVars /\ ShellFairness

-----------------------------------------------------------------------------
(* Properties.                                                              *)

Open(s) == sh[s].ssh \in {"open", "dead"}
\* Somebody is going to close it, or is doing so.
Doomed(s) == Calls(s) \/ \E c \in Closer : s \in job[c].todo

\* No SSH connection of a terminal is forgotten: one that has not been closed is
\* still being opened, or registered where the exit and the deletion find it, or
\* somebody who has taken it from the map is closing it.
ShellsOwned == \A s \in Shell : Open(s) =>
  sh[s].at \notin {"done", "failed"} \/ s \in listed \/ Doomed(s)

\* A registered shell never waits for nobody: its attach timer runs or has
\* fired, or an output request that will close it holds it; the timer never
\* closes one that was attached, however the two race; one request reads.
AttachedKept == \A s \in Shell :
  /\ s \in listed /\ ~sh[s].attached => sh[s].timer \in {"armed", "fired"}
  /\ s \in listed /\ sh[s].attached => \E r \in Reader :
       reader[r].shell = s /\ reader[r].at = "reading"
  /\ sh[s].attached => sh[s].timer # "closing"
  /\ Cardinality({r \in Reader : reader[r].at = "reading" /\ reader[r].shell = s}) <= 1

\* A terminal that runs keeps a reverse channel on the server only if its
\* shell was told of it.
ChannelUsable == \A s \in Shell :
  sh[s].wait # "none" => sh[s].channel # "open"

\* When the launcher has exited and every request had ended in time, no shell is
\* left registered, and every shell was closed or had been taken from the map by
\* somebody who was closing it: a terminal opened between the first closeAll and
\* the end of the HTTP server is found by the second.
ExitClosesShells == leave.at = "exited" /\ ~leave.cut =>
  listed = {} /\ \A s \in Shell : Open(s) => Doomed(s)

\* No SSH connection of a terminal is forgotten, not even by the exit.
TerminalsOwned == ShellTypeOK /\ ShellsOwned /\ ExitClosesShells

\* A registered terminal has its reader or its timer, one reader at most, and a
\* reverse channel only if its shell knows it.
TerminalsAttached == AttachedKept /\ ChannelUsable

\* A terminal whose remote shell is over goes away, attached or not, and its
\* connection is closed.
EndedIsGone == \A s \in Shell :
  (sh[s].ended /\ sh[s].at = "done") ~> ((s \notin listed /\ ~Open(s)) \/ ~Up)

\* README.md:160 says that deleting a profile closes its terminals. One whose
\* opening overlaps the deletion stays.
DeletedHasNoShells == \A s \in listed :
  \/ sh[s].profile \in stored
  \/ \E w \in Sweeper : sweep[w] = [at |-> "deleting", profile |-> sh[s].profile]
=============================================================================

------------------------------ MODULE MCServer ------------------------------
(***************************************************************************)
(* Small instances of the parts of the server that share no state with each *)
(* other, for TLC: in a behaviour one of them moves, and the others stay as *)
(* they were in the beginning, where nothing of theirs is under way.        *)
(***************************************************************************)
EXTENDS Shells, Tunnel, LogStream, LocalSession, Watchdog, LauncherFiles, TLC

CONSTANTS
  Parts,  \* the parts that may move
  s1, s2, r1, r2, w1,            \* terminals
  c1, c2, c3,                    \* connections of a tunnel
  l1, l2, g1, g2,                \* logs and streams
  p1, p2,                        \* pages
  t1, t2, t3,                    \* requests for a local session
  i1, i2,                        \* profiles
  MaxOpens, MaxSaves, MaxReplaces, MaxFails, MaxRetries, Worker, Modes, Missing

VARIABLES
  part,
  watching, closed, exited, connected, leaving, item, local, stamp, watch,
  events, fileLoop, opening, up, remote, saves, spent

Sync == INSTANCE OpenSync WITH loop <- fileLoop

TwoShells == {s1, s2}
OneShell == {s1}
TwoReaders == {r1, r2}
OneReader == {r1}
OneSweeper == {w1}
ThreeConns == {c1, c2, c3}
TwoConns == {c1, c2}
TwoStreams == {g1, g2}
TwoPages == {p1, p2}
TwoLogs == {l1, l2}
ThreeCalls == {t1, t2, t3}
TwoCalls == {t1, t2}
TwoIds == {i1, i2}

\* What the user does with the two secrets of a profile.
FewActions == {<<"replace", "keep">>, <<"keep", "clear">>}
OneAction == {<<"replace", "keep">>}

\* OpenSync.SavesArrive.
SavesArrive == Sync!SavesArrive

syncVars == <<watching, closed, exited, connected, leaving, item, local, stamp, watch,
              events, fileLoop, opening, up, remote, saves, spent>>

\* A part that does not move has one initial state. Bound: a profile that is
\* there in the beginning is i1.
ServerInit ==
  /\ part \in Parts
  /\ ShellInit /\ TunnelInit /\ LogInit /\ LocalInit /\ WatchdogInit /\ FilesInit
  /\ HostsInit /\ Sync!Init
  /\ part # "watchdog" => main.at = "page"
  /\ part = "files" => \A n \in DOMAIN file : file[n].id = i1
  /\ part # "files" => file = <<>> /\ vault = CHOOSE v \in Vaults : TRUE
  /\ part # "hosts" => lines = <<>>

Alone(p) ==
  /\ part = p /\ UNCHANGED part
  /\ IF p = "shells"   THEN TRUE ELSE UNCHANGED shellVars
  /\ IF p = "tunnel"   THEN TRUE ELSE UNCHANGED tunnelVars
  /\ IF p = "logs"     THEN TRUE ELSE UNCHANGED logVars
  /\ IF p = "local"    THEN TRUE ELSE UNCHANGED localVars
  /\ IF p = "watchdog" THEN TRUE ELSE UNCHANGED watchdogVars
  /\ IF p = "files"    THEN TRUE ELSE UNCHANGED filesVars
  /\ IF p = "hosts"    THEN TRUE ELSE UNCHANGED hostsVars
  /\ IF p = "sync"     THEN TRUE ELSE UNCHANGED syncVars

ServerNext ==
  \/ Alone("shells")   /\ ShellNext
  \/ Alone("tunnel")   /\ TunnelNext
  \/ Alone("logs")     /\ LogNext
  \/ Alone("local")    /\ LocalNext
  \/ Alone("watchdog") /\ WatchdogNext
  \/ Alone("files")    /\ FilesNext
  \/ Alone("hosts")    /\ HostsNext
  \/ Alone("sync")     /\ Sync!Next

serverVars == <<part, shellVars, tunnelVars, logVars, localVars, watchdogVars, filesVars,
                hostsVars, syncVars>>

ServerSpec == ServerInit /\ [][ServerNext]_serverVars

ServerLiveSpec ==
  /\ ServerSpec
  /\ ShellFairness /\ TunnelFairness /\ LocalFairness /\ WatchdogFairness
  /\ Sync!Fairness

-----------------------------------------------------------------------------
(* Bounds.                                                                  *)

\* Bound: the second terminal is opened when the first is there, both get a
\* plain shell, and one request reads the first.
Plain(s) == sh[s].try = "plain" /\ sh[s].channel = "none" /\ sh[s].ssh # "dead"
SecondIsPlain ==
  s2 \in Shell /\ sh[s2].at # "new" =>
    /\ sh[s1].at = "done" /\ \A s \in Shell : Plain(s) /\ sh[s].at \notin {"failed", "giveup"}
    /\ \A r \in Reader : reader[r].shell \in {s1, None}
    /\ \A r \in Reader \ {r1} : reader[r].at = "new"
    /\ \A w \in Sweeper : sweep[w].at = "new"

\* Bound: requests for the local session come in the order of their names, two
\* at a time, and the third only while the launcher does not exit.
TwoAtATime ==
  part = "local" =>
    /\ Cardinality({t \in Call : call[t].at \notin {"new", "done"}}) <= 2
    /\ t3 \in Call /\ call[t3].at # "new" => call[t2].at # "new" /\ exit.at = "no"
    /\ call[t2].at # "new" => call[t1].at # "new"

Bounds == SecondIsPlain /\ TwoAtATime

=============================================================================

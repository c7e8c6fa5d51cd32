# Verification of chemssh-launcher

TLA+ specifications of the launcher's concurrent core and of its files, checked with TLC on
small instances, and machine-checked proofs of every safety property that the passing runs
check: about the connection pool, the session registry, the transfers, open-file
synchronisation, the ChemSSH bridge, the life of remote and local sessions, terminals, tunnels,
logs, the watchdog, the profile and secret files and known_hosts. The reference is the Go code; file names
below are relative to `src/`, and `PROJECT.json` maps every definition to the lines it stands for.

## The system

chemssh-launcher is one Go process on the user's machine. It serves a web page
(in a browser or an embedded web view), opens SSH connections to servers, starts a
remote program (ChemSSH) there, and forwards a local port to it. Beside that it
has SFTP tabs, terminal tabs, ChemSSH as a process of the same machine, and a bridge
through which ChemSSH's own page opens remote files with local applications.

Everything runs in goroutines: one per HTTP request, and background ones for health
checks, remote commands, uploads, tickers and accept loops. There is no
database; state is in maps guarded by mutexes, and in a few files. The recurring
pattern, and the source of most hazards, is *take the lock, decide, release the lock
to dial or close, take the lock again*.

| Part | Code | State | Operations | Talks to |
|---|---|---|---|---|
| Connection pool | `internal/sftpclient/pool.go` | `conns`, channel `available`, `sshClient`, flags per connection | acquire, release, reconnect, replenish, health check, keep-alive, closeAll | called by SFTP operations and by the registry |
| Session registry | `internal/sftpclient/service.go` | `sessions`, `byProfile`, `refs` | Connect, ConnectDedicated, Disconnect, CloseAll | owns one pool per session |
| Resumable transfers | `internal/gui/transfer_resume.go`, `transfer_progress.go` | one progress record per transfer, the source's identity | begin, copy, retry; pause, resume, cancel, reset posted by the page | reads and writes through pooled connections |
| Open-file synchronisation | `internal/gui/sftp_open_sync.go`, open handlers of `sftp.go` | watched items, fsnotify watcher | register, notice a change, upload, drop, CloseAll | uploads through a registry session |
| Session lifecycle | `internal/gui/gui.go` | `sessions`, `session`, `proxyProfileID`, `pendingStart`, `lastFailure`, `retiredProfiles` | start, resume, pause, stop, delete, save, activate; health check, process watcher | SSH client, tunnel, proxy channel and its bridge file, profile store |
| Local session | `internal/gui/gui.go` | the same maps, for a profile without a server | start, resume, pause, stop, delete; process watcher, health check, exit | a process of the machine |
| ChemSSH bridge | `internal/gui/chemssh_bridge.go` | `bridge`: a session or a dial in flight | reserve, connect, finish, clear | lifecycle, registry, open-file sync |
| Terminal shells | `internal/gui/terminal.go`, `internal/sshclient/shell.go` | `sessions` with an attach timer; SSH client, shell, reverse channel | open, attach, close, closeProfile, closeAll | own SSH clients; deletion of a profile; exit |
| Tunnels | `internal/sshclient/tunnel.go` | table of open connections, wait group | accept, dial, Close | lifecycle, shells |
| Logs and event streams | `internal/gui/gui.go` | lines, listener channels | add, addListener, removeListener, delete | everything logs |
| Shutdown, browser watchdog | `internal/gui/gui.go`, `frontend/src/App.vue` | heartbeats of pages, order of closing | note, forget, tick, shut down | closes all of the above |
| Profile store, secrets | `internal/config/store.go`, `internal/secret`, handlers of `gui.go` | `profiles.json`, the system's credential store or the vault file | save, duplicate, delete, import, reorder | lifecycle, dials |
| Known hosts | `internal/sshclient/hostkey.go` | `known_hosts` | check, append, replace | every dial |
| Frontend | `frontend/src` | the transfer queue, tabs | posts requests and controls | all handlers |

What is hard: callers that hold a value read before an unlock (all parts); a dial
that ends after the thing it was for is gone; two starts, stops or deletions of one
profile; failures half way; retries of something already done; events lost while
the item they are about is busy; the launcher's end in the middle of a write. The
list with lines is `hazards` in `PROJECT.json`.

What makes each modelled part correct:

- pool: one user per SFTP client, at most `poolMaxSize` members, no leaked or
  twice-queued client, nothing closed under an operation, calls come back, a dead
  transport is dialled again;
- registry: the counter equals the tabs that hold a session, a session others hold
  is not closed, every open pool can be found by someone who will close it;
- transfers: a reported success is an intact file, progress is never more than the target
  holds, a cancellation is final, every run ends;
- bridge: a dial that lost the slot gives its session back, a session never outlives the
  forwarding it serves, an answer is for the server that was asked, and nobody waits for
  a dial that will not report;
- open-file sync: every save reaches the server, an item is never stuck, no upload
  outlives CloseAll;
- lifecycle: every tunnel, channel and SSH client has exactly one owner (but a proxy channel that
  a second resumption has replaced, see `LifeChannels` below), the proxy
  serves a registered session, a deleted profile gets no session, no start that is over
  leaves its profile pending;
- local session: every process has somebody who will kill it or notice its end, and
  no watcher, check or stop takes a successor's session apart;
- shells: no SSH connection is forgotten, the attach timer and a reader never both own
  a shell, a shell whose remote end is over goes away;
- tunnels: Close reaches every connection that is open, and returns without its timeout only
  when nothing is left;
- logs: a stream shows lines once and in order, and a listener goes with its stream;
- watchdog: the launcher exits without pages, never under one, and cleans its cache after
  the uploads;
- files: requests change the profile file one at a time and completely, the flags of a
  profile agree with its secrets, trust in a host is dropped only on purpose (the code keeps this
  as long as no two replacements of keys overlap).

## The modules

Each component has a module; `MC<module>` gives the constants small values and holds
symmetry sets, views and bounds on overlaps. The components from `Shells` to `KnownHosts`
share no state with each other and are instantiated by one module, `MCServer`.

### ConnectionPool

`conns`, `available`, `inUse`, `failed`, `retired` and `open` are sets of connection
identities; an identity is reused once nothing refers to it (`Known`). One action is
one critical section of `p.mu`, or one blocking call between two of them. A caller
goes through `acquire` (`take`, `room`, `create`, `add`, `wait`, `mark`, `check`),
the operation (`use`) and, on a transport error, `withConn`'s single retry (`lock`,
`reconnect`). `rc` is the one reconnect that holds `reconnectMu`; `rp` the two calls
of `replenish` that may overlap; `hc` the health-check goroutine; `background` the
reconnects that `requestReconnect` has started. The receive from the channel is
outside the lock in the code, so `TakeQueued` and `MarkInUse` are two actions: between
them the connection looks idle to everybody else.

Abstracted: the order of the queue, the clock (a connection may be idle too long, or
its last probe recent enough, at any moment), and which error an operation returns.

### SessionManager

One profile; a tab is a request of `Connect`, `ConnectDedicated` and `Disconnect`. The
pool behind a session is what the registry sees of it: open or closed, link up or
down, cooling after a dial. `Reconnect` is called without the manager's lock, so the
look-up, the reconnect and the second critical section are separate actions, and the
session may be gone or replaced when the lock is taken again.

### TransferResume

One transfer. A file is a sequence of blocks, each the version of the source it was
read from; *intact* means all blocks of one version. `Begin` to `Finish` are the steps
of `runResumableTransfer`; any call may break (`CallFails`), the source may be
replaced and the target may lose its end between attempts. Controls arrive between
any two steps. `waitAllowed` is the condition variable it is: a copy that finds itself held goes to sleep
(`Sleep`) and takes no step until a control broadcasts (`Broadcast`), whatever the record says by then. The variables `changed`, `doubt` and `cancelled` are history, read by
properties only.

### OpenSync

One remote file with its cache file, in two blocks. The open handler (download, then
register), the watch loop (with fsnotify or by polling, a constant `Modes`), the
debounce, the upload goroutines with `withConn`'s repetition, the end of the session and
`CloseAll` interleave. A stamp stands for (mtime, size).

### SessionLifecycle

Each start, pause, stop, deletion, save or activation is a task; the session, SSH client
and remote command of a start, and the tunnel, channel and health check of a start or
resume, bear the task's name. `req` holds where each request is and its local variables,
`cleanup` what a teardown has collected under the lock and still has to close outside
it, `sess` the `activeSession` records. The goroutine of `startRemoteSessionAsync`, the
health check and the process watcher are actions of their own.

`AwaitsServer` and `CloseAwaitsServer` name the steps that wait for the server: the dial, the proxy channel with its
bridge file, the check of the port with the pre-start commands, the start of the command (under `s.mu`), and in a
teardown the removal of the bridge file and the kill of the service. The code gives none of these calls a timeout of
its own but the dial, and the model lets each of them take for ever.

Only remote profiles are modelled. A remote command is a resource that ends by itself,
with an error, or with its client.

### Bridge

The slot `s.bridge` is a record: a session, or a dial under way, and the profile and
workspace it is for. A request of ChemSSH's page reads once which profile forwards
(`Begin`), then finds its session in the slot (`Reuse`), waits for the dial in it (`Join`)
or takes the slot (`TakeSlot`) and goes through the dial (`dial`, `check`, `finish`, and on
the other paths `giveback`, `error`, `discard`). The dial and its SFTP session bear the
name of the request. One action is one critical section of `s.mu`, or one call between
two of them; `Check` and `Finish` are two, as they are in `connectChemSSHBridgeSFTP`.
`stopping` counts, for each profile, the stops that have left their critical section and
not yet called `closeChemSSHBridgeSessionForProfile`; `sweep` holds the sessions
`clearChemSSHBridgeState` still has to clear, items first. The last three actions are the
end of `shutdownAfterBrowserClientsGone`.

A model of the code shows what it does besides its safety: two profiles that
forward at the same time and whose pages are both used displace each other's session at
every request, with a new dial each time.

### Shells

A terminal is a record named by the request that opens it: where
`StartInteractiveShell` is (dial, reverse channel, shell, and the second try without
shell integration), its SSH connection, channel and attach timer, and whether the remote
shell is over. `listed` is `m.sessions`. Everybody who closes takes shells from the map
under `m.mu` into a `job` and then calls `InteractiveShell.Close` for each, which is a
`sync.Once`: one closer runs it and the others wait, so a closer is at a step of the
close while others are blocked. Closers are the end of an output request, the timer, a
delete request, the deletion of the profile, the goroutine on `session.Wait` and the two
`closeAll` of the exit, between which the HTTP server stops and, after its timeout, cuts
the requests that remain (`leave.cut`).

Abstracted: input, resizing and output, which change nothing the launcher keeps; the
text of the shell integration.

### Tunnel

One tunnel, forward or reverse (the code is the same loop with the ends exchanged). A
connection has an accepted and a dialled end; `table` is `t.conns`, `group` is `t.wg`.
The loop's `Accept`, the entry into the table, `wg.Add` and the start of a handler are
distinct actions; so are the dial of a handler and the entry of its second end. `Close`
cancels, closes the listener, goes through the table, and waits for the group, or gives up
after its timeout.

### LogStream

The log of one profile under `logs[profileID]`, which a deletion drops and a later line
creates anew (`Log` are the identities). A stream replays a snapshot of the lines, then adds
a channel with room for `Buffer` lines, reads it, and on its way out closes the channel before
it removes the listener, in the order of the deferred calls. A writer finds the log, later
adds the line and sends it to every listener with room. A line is its number.

### LocalSession

The session of one local profile. As in SessionLifecycle, a session, its process and its
checks bear the name of the request that makes them. `call` holds requests between their
critical sections; `killing` the process that each request, check, watcher or the exit
has taken under the lock and still has to kill outside it. A process is `process` (`localProcess`: the launcher
started it and kills it) or was found running. After each health check that answers, `refreshLocalIdentity` reads the
identity of the program (`ProbeIdentifies`), as does ChemSSH's bridge (`BridgeIdentifies`), and sets `remotePID`. A
pause keeps the session if it has a process or a `remotePID` (`StopsForwarding`, gui.go:2136): one found running stays
registered and paused from then on, and a later start resumes it; before then a pause removes it.

### Watchdog

Time goes in ticks. A page beats at least every `Beat` ticks (later in the background, where
browsers slow timers), sends a last message when it goes or does not, and its messages are delivered
in the tick of their sending in any order. `noted`, `age`, `seen` and `empty` are the
launcher's side. `dog` and `main` go through the two lists of parts to close, the one of
`shutdownAfterBrowserClientsGone` and the deferred calls of `RunWithOptions`, each part
through its own idempotent `Close`.

### ProfileBook and ProfileFiles

`ProfileFiles` has `profiles.json` and the secrets. A handler is the list of store calls
it has still to make; each call is read, truncate and write of a file (or one call of
the credential store), each may fail, and the launcher may end between any two of these steps.
`SaveCalls`, `Copies`, `DropAll` give the lists of the handlers, with the clean-up a
failure causes; `SyncFlag` is what `syncSecretFlags` reads back before the profile is written.

`ProfileBook` is the abstract specification: a book of profiles in which a request changes
one entry, or the order, in one step, and in which everything is lost only if a write is
interrupted. Under `book <- IF Writers = {} THEN file ELSE ToWrite(...)`, `ProfileFiles`
implements it (`ProfilesAtomic`) as long as requests do not overlap: a write takes place when the
file is truncated.

### KnownHosts

A connection reads the file when it is set up, and its callback compares the server's key
with that reading during the handshake (`VerifyKnown`, `VerifyChanged`, `VerifyUnknown`,
each under one of three policies). What it appends or replaces is one step, serialized by
`knownHostsMu`; the lines it replaces are numbers of the first reading. As `knownhosts` does, `Want` has the first line
of each key type of the host. Every connection may be one for which the user confirms a changed key (`Replacer`).

### Positions and LauncherFiles

`Positions` has the one operator on sequences the file models share, `Picked(s, K)`: what `s` has
at the positions `K`, in its order. Dropping lines of known_hosts, deleting a profile and moving one
to the front are uses of it. It is defined by counting positions, without recursion, so that
one lemma (`PickedProperties`) serves all its proofs. `LauncherFiles` puts `ProfileFiles` and `KnownHosts`
together and states what both keep (`FilesSound`).

### The proofs

`ConnectionPool_proofs`, `SessionManager_proofs`, `TransferResume_proofs`, `OpenSync_proofs`,
`Bridge_proofs`, `SessionLifecycle_proofs`, `Processes_proofs` (terminals and local sessions) and
`Server_proofs` (tunnels, logs, watchdog, known hosts and profile files); see below.

## The runs

`PROJECT.json` lists twelve runs. With two workers each takes at most about two minutes.

| Run | Bounds | What it shows |
|---|---|---|
| `PoolSafety` | 2 callers, pool of 1–2, 4 identities, both tickers, 1 successful reconnection, 1 waiting background reconnect | the bookkeeping of the pool (`PoolSound`), no leaked client or connection (`NothingLeaks`), and nothing closed under an operation, with closeAll at any moment |
| `PoolProgress` | 2 callers, pool of 1, no dial succeeds, keep-alive | `CallsReturn`, `DeadTransportRedialled` |
| `SessionsShared` | 3 tabs, 4 identities of sessions | counters and holders (`RegistrySound`), found sessions are open, ownership of pools |
| `Transfer` | 3 versions of 2, 1 and 3 blocks, 3 attempts | integrity, progress, cancellation, termination (also of a copy asleep on the condition variable) |
| `OpenSyncSafety` | both modes, 2 opens, 1 save, 1 replacement, 1 failed and 1 repeated upload, 4 of these but replacements in one behaviour, 3 upload goroutines | a marked item has its upload, and uploads do not outnumber the openings (`UploadsSound`), CloseAll waits |
| `BridgeSlot` | 3 requests, 2 profiles, 1 workspace, 2 starts | nobody loses a session, waits for ever or gets another profile's session, while forwarding stops and the launcher shuts down |
| `LifeSafety` | 2 profiles, 3 requests of any kind but saves, 1 deletion | one owner for every tunnel, channel and client (`ResourcesOwned`), proxy target, what forwarding needs, deletion |
| `LifeEnds` | 1 profile, 2 requests of any kind, a server that need not answer | `PendingEnds`: a profile stays pending only if a start is for ever inside a call to the server |
| `ServerSafety` | one of seven parts per behaviour: 2 terminals, 2 output requests, 1 sweeper; 2 connections; 2 streams, 3 lines, a log of 2 and a channel of 1; 3 local requests; 2 pages; 2 profiles, 2 requests, 1 failure or crash; 2 connections that may both replace, 2 hosts, 2 key types | the safety of Shells, Tunnel, LogStream, LocalSession, Watchdog, ProfileFiles and KnownHosts; the refinement of `ProfileBook` |
| `ServerProgress` | one of four parts: 1 terminal; 2 connections; 2 pages; OpenSync with polling, 3 saves, 1 failed upload | a dead terminal goes away, swept connections end, the launcher exits, every save reaches the server |
| `OpenSyncDropped` | fsnotify, 2 saves | **violated**: a save during an upload is forgotten |
| `ProfilesImported` | 2 profiles, 2 requests | **violated**: an imported profile keeps the flag of a deleted token |

**Why these bounds.** The pool needs two callers to contend, one more identity than the
pool is large for every replacement that may exist beside it (one reconnection retires
one generation), and one reconnection to have two generations. `MixedLoad` bounds what
runs at once: one caller with both background tasks, two callers, or, before the first
reconnection, two callers and one task; all safety properties of this run are also proved
without any bound. In `PoolProgress` every dial fails, the case in which the retries have
to go on for ever. In it an identity may be missing for a new connection; the action that
fails is enabled then, so nothing gets stuck by the bound. Three tabs are the fewest in
which two opens race while a third holds the session, and four identities let each tab
have one and one linger. Three requests at the bridge are one in the slot, one that took it and
one that waits; two starts are a restart, or two profiles that forward. One workspace is
enough for these races (a workspace and a profile enter every comparison as a pair), and the
proofs cover any number of each. In `OpenSyncSafety` all five disturbances of the constants never
come together: `Disturbed` bounds how many opens, saves, failures and repetitions one behaviour has,
each combination of four being explored. Three versions give a source that shrinks and grows; three
attempts have a retry of a retry. A file of two blocks can be half written. Three
requests of one profile are a winner, a loser and a stop or deletion; `Overlaps` allows two
of them at a time (each with its goroutines, checks and watchers), the third only on one
profile.

In `MCServer`, `Alone` lets one part move in a behaviour. The parts share no variable, so a state
of their product is a state of each; nothing is lost but the size. In `ServerInit` a part that will not move has one
initial state. `SecondIsPlain` lets the second terminal be opened when the first is there: the
registry, the exit and the deletion then have two shells, while a dial with both tries is explored
for each alone. `TwoAtATime` has three local requests in the order of their names, two of which overlap, each with its check and
watcher; the exit meets two of them (a third is made only while the launcher does not exit):
a start, the stop or deletion that takes it apart and the start that follows. `FewActions` are a new secret with
the other kept, and a kept one with the other cleared. A log of two lines drops its oldest when the
third is written, a channel of one is full after one line. `Beat = 1`, `Stale = 2`, `Grace = 2`
keep the order of the real values (a beat is well within the stale limit) and let a page miss a
beat. One failure or crash in two requests reaches every call of both. In `KnownHosts` each of two
connections may append or replace a changed key, so line numbers do shift under the second; what is then lost is excepted in
`TrustForgottenOrOvertaken`, and is `HostsStale` below. `Request` has one element in the listed runs: requests follow each
other; see `FilesOverlap` for what overlapping ones do.

**Views and symmetry.** A view leaves out what no step and no property of the run reads:
the flags of forgotten connections or sessions, local variables of requests that are over,
and, in `LifeSafety`, `pendingStart` and `lastFailure` but for retired profiles. Identities
of callers, connections, tabs, sessions, workers, tasks and profiles are symmetric, as are the
requests and profiles of the bridge: no definition names one. In `BridgeSlot` the view leaves out
local variables no later step reads. Runs with liveness use no symmetry and no constraint; the runs of
`MCServer` use no symmetry.

**Deadlock.** `CHECK_DEADLOCK FALSE` is set for OpenSync, SessionLifecycle, Bridge and the parts in MCServer
only: their requests are bounded in number, and the system rests when all are over and closed.

**Fairness.** `PoolProgress`: goroutines run on (weak fairness of each step), Go's mutexes
and channels do not starve a waiter (strong fairness of taking `reconnectMu`), tickers
tick, and of keep-alives repeated for ever one is answered truthfully (the probe has a
timeout, so a dead link is seen). No fairness is assumed for callers to start operations or
for links to drop. `Transfer`: calls on files return with an answer or an error.
`LifeEnds`: the launcher's own steps are taken and a health check
has its timeout. Nothing is assumed of a call to the server (`AwaitsServer`, `CloseAwaitsServer`) nor of the remote command:
`RunCheckPortCommand` waits for the end of a remote shell (client.go:133) and the listener and `sftp.NewClient` for an answer,
all without a timeout. `PendingEnds` therefore excepts a start that is for ever in such a call (`HeldUp`; for the call
made under `s.mu`, a start of any profile). Without the exception it is `PendingEndsAnyway`, which is violated.
`ServerProgress`: in OpenSync the loop ticks, timers expire, uploads proceed, and a disconnect that
began goes on; uploads fail at most `MaxFails` times. In Shells each goroutine runs on and calls on a
closed or dead connection return; nothing is assumed of the user, of a remote shell or of the timer
of a shell that is attached. In Tunnel the loop, the handlers and Close run on, and a copy ends once one of
its connections is closed; nobody is assumed to connect or to hang up. In Watchdog time passes,
the ticker ticks and the parts close; pages owe nothing.

## The proofs

Every proof is for *all* values of the constants, from the named assumption of its module
alone, and, for four theorems, from a hypothesis that is stated with them (`OnceDeleted` or
`OneAtATime`); without it the property is false, as `LifeRevived` and `FilesOverlap` show. No invariant
worth having is inductive as it stands; each part has one that is (`IInv`, `SyncInv`, `LocalInv`, `LifeInv`,
`ShellInv`, `LogInv`, `DogInv`, `HostsInv`, `FilesInv`), which TLC
checked on the run's instance before it was proved. There is one lemma per action (`...Keeps`) with
one step per conjunct the action can disturb, and a temporal theorem at the end.

### The pool

`ConnectionPool_proofs` (any number of callers and
connections, any `0 < MinSize <= MaxSize`, any number of dials and background reconnects):
`[]TypeOK`, `[]PoolBounded`, `[]QueueSound`, `[]ExclusiveUse`,
`[]ClosedIsEmpty`, `[]SshOwned`, `[]ClientsOwned`, `[]NoClosedClientHandedOut`, their conjunctions
`PoolSound` and `NothingLeaks` that the run checks, and the action property `NotCutInUse`.
`IInv` adds:

- `Runners`: who holds `reconnectMu`, and that a replenish runs exactly while its caller is in it.
  Without it two reconnects could both believe they own the client being built;
- `Locals`: a local variable holds a connection exactly where the code has one;
- `CreatedApart`: a connection that was opened and has not joined the pool is open and known
  to nobody else. This is what keeps two racing dials from registering the same client, and it
  carries `QueueSound` and `ExclusiveUse` through `AddCreated`, `ReplenishAdds` and `Swap`;
- `Members`: members are open and not retired, members in use are held, what is retired is failed;
- `Borrowed`: what a caller past the channel knows of its connection. This is the heart: a
  connection received but not yet marked may be dropped by the health check or retired by a swap,
  and the re-check in `markInUse`/`usable` is why the operation still never runs on a closed one.

`NotCutInUse` uses `Borrowed` and `Members` before the step: the only client a step other than
closeAll closes is nobody's, or its closer's own.

### The registry

`SessionManager_proofs` (any number of tabs, any set of identities): `RegistrySound`,
`RegisteredIsOpen`, `PoolsOwned`. A reference count is compared with a *set* of holders, so the proof is about
cardinalities; `IInv` adds:

- `Locals`: which session each tab has in hand at each place, and that it is its own where it was
  just made;
- `Closers`: what a tab is about to close has left both indexes and is no other tab's to close.
  This is why the two critical sections of `Connect` never close a pool twice or one that
  somebody found meanwhile;
- `OfferedIsShared`: a session found under the profile was not made by ConnectDedicated;
- `Counts`: the count of a registered session is the number of tabs that hold it, or are between
  the increment and their return; the step that looked a session up and went to reconnect has
  *not* counted yet, which is what makes the re-check after the reconnect necessary.

### The transfers

`TransferResume_proofs` (any number of attempts, versions and sizes): `TransferSound`,
`SuccessIsExact`, `CancelSticks`. The run's history variable `doubt` says how a run lost sight of the
identity of its source; as long as it is empty, `IInv` follows two facts about blocks:

- `Placed`: a block stands only where its version had one, so a file with blocks of one version
  is not longer than that version;
- `KeptIsKnown`: what the next attempt will keep (`KeptLength`: the offset, the progress or the whole target,
  depending on the step) was read from the version the run knows or a later one. Versions only grow, so
  when the second Stat finds the source it began with, every block lies between the version known
  and the version now, which are the same;
- `CopiedAll`: the end of the source was reached, or the source has changed; with `Placed` the
  lengths agree;
- `LoadedIsKept`: the progress is never above what the target holds, and, unless `doubt`, offset, progress and target's
  length agree at the steps where the next one trusts them. With `doubt` a source whose size nobody knew may have shrunk, and
  `setTotal` cuts the progress below the offset (`ConfirmedAll`). At `size` they do not yet agree, because `setTotal` may have cut the progress: the
  proof needs `Placed` there, to see that what is beyond the new size is not kept;
- `OutcomeIsExact` carries the result over the step in which `finish` stores it, into which a
  cancellation may still come (`CancelSticks`).

### The bridge

`Bridge_proofs` (any sets of requests, profiles and workspaces, any
number of starts): `[]TypeOK`, `[]SessionsHeld`, `[]ServesForwarding`, `[]AnswersMatch`,
`[]OpenedIsWatched`, `[]WaitersServed` and `BridgeSound`, from `BridgeAssumption` (nil is neither a
request nor a target). `IInv` adds:

- `SlotSound`: what the slot names is a dial under way or a session nobody has begun to clear, with
  its own target. `AnswersMatch` rests on it: who reuses or joins compared targets with the slot only;
- `LocalsSound`: whom a request waits for, and that the session it was given is one whose dial was
  successful;
- `SessionsSound`: a session is registered only from its dial on and never after its clearing, so
  that `SessionsHeld` names everybody who may hold it;
- `CheckedInTime`: a dial that holds the slot and has passed its check belongs to a profile that
  forwards, or whose stop has still to look at the slot. The check is made in one critical section and
  the slot filled in a later one; this is why that gap is harmless, and `ServesForwarding` is
  not inductive without it;
- `StopsCounted`: a stop needs a start, which bounds `stopping`.

### The tunnel

`Server_proofs` (any finite number of connections): `TunnelSound`, that is, Close can reach every open
connection, and when it returns without its timeout nothing is left. `IInv` adds that the
wait group is exactly the loop, if it has not ended, plus the handlers that have not: the loop
counts a handler while it is itself counted, so `wg.Wait` cannot return between `Accept` and
`wg.Add`. As for the registry this is an argument about cardinalities of sets that gain or lose one element.

### Open-file synchronisation

`OpenSync_proofs` (any number of upload goroutines, any bounds): `UploadsSound` and
`NoUploadAfterExit`. `SyncInv` adds:

- `UploadsCounted`: uploads in flight, and an opening under way, are not more than the file was opened; while an item is
  unmarked they are fewer, so the upload that starts for it has its own opening. That is all the code gives: the
  completion of an earlier registration's upload clears the mark of the new one, and `UploadedOnce` is violated;
- `StampsCounted`: every write makes a stamp, and what an open has still to write is counted with
  what was written; the bound of the types needs it;
- `FilesThere`: what is open, registered or being uploaded has a cache file;
- `ExitWaited`: CloseAll's return, the closed flag and the empty set of uploads go together.

### The local session

`Processes_proofs` (any number of requests): `LocalSound`, an argument of ownership. `LocalInv` adds:

- `Registered`: the start of a registered session is over and its process is watched, so a session
  that is gone does not come back;
- `OrdersKept`: who has a process to kill is at the step that kills it, so no such order is
  overwritten by the next;
- `CallsKnow`: checks and stops know their session, and a check is made once;
- `DeletionHolds`: there is one deletion at a time, and it holds the only session there can be;
- `ExitHolds`: what the exit found is not the session any more once it has swept it.

### The session lifecycle

`SessionLifecycle_proofs` (any sets of requests and profiles, any number of
deletions): `TargetAgrees`, `ForwardingWorks` and `ResourcesOwned`, which is `TypeOK` and one owner for
everything that is open. Its 33 actions hand a tunnel, a proxy channel or an SSH client from a
request's local variable to the session, from the session to a teardown's list, or from the request to its own
clean-up; `LifeInv` says enough of each side for the hand-over to be exact:

- `NamesNew`: before a request opens something, nothing open bears its name. In the code this is the
  fresh pointer that a dial or a listener returns;
- `SessionsWhole`: a registered session comes from a start past its critical section, has its
  client, and has a tunnel exactly while it forwards. Nobody is closing anything for it;
- `TeardownsIdle`: who is in no teardown has nothing left to close, so the list that a pause, a
  failed start or a stop fills is empty beforehand and loses nothing;
- `TunnelsHeld`, `ChannelsHeld`, `ClientsHeld`: what a session, a teardown or a request holds is open, and
  held by nobody else; and what is open is held;
- `ChannelsFound`: a request that resumes did not find its session's own channel. It is needed for
  the exception: the channel that `Install` overwrites (gui.go:1208) is then one of an earlier resumption that
  is over, never one the session's own start opened. The attempt to prove one owner for channels without
  exception failed at that step, and `LifeChannels` is the behaviour it showed;
- `RegistryAgrees`, `TargetRegistered`, `ReferencesKnown`: the map, the two fields of the proxy's target and the
  references of checks, watchers and requests name sessions that were registered, which is what lets
  `sessionForProfileLocked` be replaced by a look at the map;
- `RecordsGone`, `DeletionHolds`: for `DeletedLeavesNothing`. The second is proved under `OnceDeleted` (at most
  one deletion, no save), and the theorem has that hypothesis: without it the property is false, see
  `LifeRevived`.

### The terminals

`Processes_proofs` (any number of terminals, output requests, deletions and profiles): `TerminalsOwned` and
`TerminalsAttached`. The assumption says that the names of requests are told apart from each other and from the two
names the model makes up, the goroutine on a request's context and the exit. `ShellInv` adds:

- `ListedFresh`, `JobsHold`: what is in the map nobody has begun to close, and what a closer has taken is in the
  map no more. A terminal is therefore in one of the two, whatever pair of closers meets;
- `JobsIdle`: who is not at the step that closes has nothing to close. Each of the six callers fills its list in
  one critical section, and this is why none overwrites an earlier list;
- `ShellsHeld`: who marks a shell closed calls `Close`; together with the two before it is `ShellsOwned`;
- `ReadersHold`: an output request that reads has its shell for itself. `attach` decides under the lock, and with `ShellPhases`
  (the timer closes only what was never attached) this gives the race of the timer and a reader;
- `ExitSweeps`: after the second `closeAll` no dial is under way, because the HTTP server waited for the
  requests that dial. When its timeout cuts them (`leave.cut`), nothing is claimed.

### Logs

`Server_proofs` (any number of logs, streams, writers and lines, any capacity): `StreamsSound`. `LogInv` says that what
a page has seen, followed by what its channel holds, is rising, and that nothing in it is newer than the last line
written (`StreamInOrder`). A line is sent to the listeners in the critical section that adds it, so it is later than
all that came before; the seam between replay and channel may lose a line (`NoGap` below) but cannot repeat one.

### The watchdog

`Server_proofs` (any number of pages, any limits): `CacheLast` and the action property `WatchdogPatient`. `DogInv` adds:

- `OpenPagesNoted`: as long as the watchdog may give up, an open page has a heartbeat on its way, or was noted
  no longer ago than its own timer began. The clocks of two processes are compared here, the page's
  `since` and the launcher's `age`;
- `ClosesAreLast`: a last message under way means that its page is gone, so it removes nobody who will beat again;
- `EmptyIsQuiet`: the grace time is counted only while no page is noted, and not faster than time passes;
- `UploadsFirst`: in both orders of closing the uploads are over before the cache's turn comes.

### Known hosts

`Server_proofs` (any hosts, key types, lines and connections, any of which may replace): `HostsTypeOK` and
`TrustForgottenOrOvertaken`. The lines a replacement drops are numbers of an earlier reading. That reading is still a prefix of
the file, or another connection has replaced a key since (`ReadStillThere`). In the first case the numbers name the lines they
named, and `PickedProperties` says that every other line is kept; the second is the exception the property states, and what
is lost in it is `HostsStale`.

### Profiles and secrets

`Server_proofs` (any profiles, either store of secrets, any number of requests, failures and crashes): `SecretsSound`,
its conjunction with `HostsTypeOK` (`FilesSound`), and `ProfilesAtomic`, the refinement of `ProfileBook`, all for requests
that do not overlap (`OneAtATime`). Overlapping ones lose each other's profiles or flags (`FilesOverlap`).

A handler is a list of calls, and any of them may fail, so an invariant has to say at each point what is right
already and what the rest of the list will put right. `FilesInv` does:

- `Agenda`: what a list may look like when some of its calls have been made. A secret that was looked up is
  pasted next; profiles are read just before they are written; a save looks at every secret after it has
  changed any. The lemmas `SaveAgenda`, `CopyAgenda` and their like show that the handlers' lists are such, and
  `Agenda` is kept when the head is dropped;
- `Progress`: for each secret of a save, its flag agrees with the store or a `sync` of it is still to come; for each
  secret of a duplication, store and flags agree exactly; for each in a rollback, it is gone or a `drop` of it is to come.
  It is not enough to say so of the end: a failure turns the list into another one in the middle;
- `InFlight` in `HandlerFits` and `Progress`: a change of the vault file is a read, a truncation and a write. What was read
  agrees with the files in the same way as what is stored, because it will be stored; between truncation and write the
  vault counts as broken, and nothing is claimed of it;
- `HandlerFits`: at the write, what was read of `profiles.json` is what it has. This is the step of the refinement: it is where
  overlapping requests differ, and `TheBook` (the file, or what the interrupted writer was writing)
  takes one step of `ProfileBook` at the truncation, and stutters everywhere else.

The refinement maps initial states to initial states (`BookBegins`) and each step to a step or a stutter
(`BookFollows`); the truncation that a crash leaves unfinished is the loss that `ProfileBook` allows.

### What stays with TLC

Liveness, and anything with ENABLED or fairness, which the prover does not handle: `CallsReturn`,
`DeadTransportRedialled`, `RunsEnd`, `PendingEnds`, `EndedIsGone`, `SweptEnds`, `LauncherExits` and `SavesArrive`. The
violated properties are TLC's too: each is false, so its run is the statement. No statement by induction over data is needed: lists
of calls and parts of sequences are described by their positions.

## Findings

The two violated runs are findings in `PROJECT.json`. `OpenSyncDropped` loses user
data without an error; `ProfilesImported` shows a security token that is not there.

### Other divergences

These were met while modelling. Each has a property in its module and a configuration that
reproduces the counterexample (`tlc -config <name>.cfg MC<module>`; where a configuration is for several
properties, the others stand in it as comments); they are not among the regular runs.

| Configuration | Property | Where | What happens |
|---|---|---|---|
| `PoolRetired` | `RetiredAreClosed` | pool.go:372 | a connection retired in use and released after closeAll is never closed, contrary to pool.go:674 |
| `SessionsPeer` | `PeerKeepsPool` | service.go:78 | a second open whose dial fails after the cool-down discards the session a peer was just given, contrary to service.go:63-65 |
| `TransferChange` | `ChangeIsReported` | transfer_resume.go:270 | a change of the source goes unnoticed when the second Stat fails |
| `TransferRetry` | `RetryRestartsChanged` | transfer_resume.go:239 | a run whose first Stat failed stores no identity; a manual retry continues on another version |
| `TransferRetry` | `ConfirmedAll` | transfer_resume.go:254, transfer_progress.go:113 | the first Stat of a run fails and the source shrinks: the new total cuts the progress, but the copy is reopened at the offset from before, and the progress stays below what the target holds, contrary to transfer_resume.go:218 |
| `TransferIdentity` | `OnlyRealChanges` | transfer_resume.go:271 | such a run copies everything and then reports a source that never changed as changed |
| `TransferRetry` | `CancelledRestarts` | transfer_progress.go:276 | a manual retry of a cancelled transfer continues from its offset, contrary to README.md:194 |
| `OpenSyncAgain` | `DoneIsComplete` | service.go:346 | an upload that withConn repeats after a broken connection reads on where the first attempt stopped, and ends without an error with only the end of the file on the server |
| `OpenSyncOthers` | `RemoteKept` | sftp.go:284 | opening a watched file again writes the watched file; half of it may be uploaded |
| `OpenSyncOthers` | `StaysWatched` | sftp_open_sync.go:302 | an editor that saves by renaming ends the synchronisation |
| `OpenSyncOthers` | `UploadedOnce` | sftp_open_sync.go:413 | the file is opened again during an upload, whose completion clears the mark of the new registration: the same save is uploaded by two goroutines, contrary to the mark of line 331 |
| `LifeStarts` | `NoCrash` | gui.go:2038 | a stop between a start's critical section and the first line of its process watcher makes the watcher dereference nil, which ends the launcher |
| `LifeStarts` | `BridgeStays` | gui.go:806 | the loser of two starts removes the winner's bridge file |
| `LifePauses` | `ReadyIsChecked` | gui.go:1316 | the health check of an earlier forwarding makes a resumed one ready |
| `LifeStarts` | `PendingUntilFinished` | gui.go:1286 | the first of two starts to end clears the flag of the other |
| `LifeEnds` | `PendingEndsAnyway` | sshclient/client.go:133 | the server does not answer the check of the port or a pre-start command: the start never ends, and the profile stays pending |
| `LifePauses` | `TargetForwards` | gui.go:2134 | pausing the current session leaves the proxy on it, though another session forwards |
| `LifeChannels` | `ChannelsOwned` | gui.go:1208 | of two resumptions that both found no proxy channel, with a pause between their ends, the second overwrites the first one's channel; nobody closes it, contrary to README.md:258-259 |
| `LifeRevived` | `DeletedStays` | gui.go:709 | a second deletion fails and revives a profile that is gone; a start under way then registers |
| `ServerOthers` | `DeletedHasNoShells` | terminal.go:217 | a terminal that is being dialled while its profile is deleted is registered afterwards and stays, contrary to README.md:160 |
| `TunnelLate` | `AllEnd` | tunnel.go:110 | a connection accepted before the listener was closed joins the table after Close has gone through it; nobody closes it, though tunnel.go:92 expects it to finish |
| `ServerOthers` | `NoGap` | gui.go:2725 | a line logged between the replay and addListener is in neither |
| `ServerOthers` | `NeverPanics` | gui.go:2727 | the channel is closed before the listener is removed; a line logged in between is sent on a closed channel |
| `ServerOthers` | `NothingLeft` | gui.go:2297 | a local start under way at the exit's snapshot registers a process that nobody stops, contrary to README.md:508 |
| `ServerOthers` | `UploadsNotCut` | gui.go:2657 | the watchdog closes the SFTP sessions before it waits for the uploads that use them |
| `FilesOverlap` | `SavesKept` | store.go:70 | two saves that overlap read the same profiles, and the second write drops the first one's change |
| `FilesOverlap` | `FlagsAgree` | gui.go:3045 | a save that was answered leaves the flag of a secret that another save of the same profile, still under way, has deleted since |
| `HostsStale` | `TrustForgottenOnPurpose` | hostkey.go:142 | two confirmed replacements: the second drops lines by the numbers of a reading the first has shifted, and another host's line is lost |

`ServerOthers`, `TunnelLate`, `FilesOverlap` and `HostsStale` belong to `MCServer`. Because of `LifeRevived`, `LifeSafety`
allows one deletion and no save: with either, a revived profile can
get a session although it is gone from the store.

## What is not modelled, and why

- HTTP routing, pages, proxying, compression, identity checks of requests: stateless I/O.
- Single SFTP file operations, listings, local file operations, the trash, icons, the web view: calls
  into libraries or the operating system with no state of the launcher.
- The command line: one session from start to interrupt in one goroutine, a sequential case of
  SessionLifecycle. Its prompts are I/O.
- The page's transfer queue and tabs (`frontend/src`): TransferResume has the requests and controls the page may
  post, in any order it can post them; which of them it posts when is the user's choice.
- Remote commands: SessionLifecycle has what becomes of one; the shell text that is built is a string.
- Text: environment variables, logs' wording, settings' validation.
- Clock values: a timeout or cool-down may be over at any moment, which covers all values; only Watchdog
  counts ticks, because its correctness is about the order of its limits.
- `remotePID` of a remote profile and the take-over of a remote service that runs already (a local one is in LocalSession).

### What a property leaves open

- `ProfilesAtomic`: `ProfileBook.Lose` is the empty or torn `profiles.json` of an interrupted write, which the code allows and does
  not repair. The refinement shows that nothing else is lost.
- `FilesSound`: a save that fails after it changed a secret leaves the secret and the old flag; only answered saves are claimed.
- `FileStore.Get` and `Delete` also match a profile by its name; the model has identities only.
- `StreamsSound` says nothing of a line that is lost (`NoGap`) nor of a line sent on a closed channel (`NeverPanics`).
- `LocalSound`: its part about the exit covers what was registered at the exit's snapshot; a start under way then is `NothingLeft`.
- `DeletedLeavesNothing` covers one deletion and no save, see `LifeRevived`.

## Plan

Done: all modules above, the proofs of their safety properties, one refinement with its proof.

What is left, in order of what could go wrong:

1. Abstract specifications for the two central resources: a slot that is empty, being filled or full,
   which Bridge implements, and an exclusive-ownership pool that ConnectionPool implements, with the
   step simulation proved.
2. SessionLifecycle: `remotePID` and services found running.
3. Compositions: the registry under OpenSync and Bridge, and the exit (Watchdog) over Shells and LocalSession
   instead of the summary each has of the other.

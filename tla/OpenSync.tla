------------------------------ MODULE OpenSync ------------------------------
(***************************************************************************)
(* A remote file opened with a local application                            *)
(* (internal/gui/sftp_open_sync.go and the open handler of sftp.go): it is  *)
(* downloaded to a cache file, registered, watched for changes, and         *)
(* uploaded back after each. One remote file: items share nothing but the   *)
(* manager's mutex, and two sessions never share a cache file.              *)
(*                                                                          *)
(* A file is a function from its blocks to versions: 0 is what the server   *)
(* held before, k what the k-th save wrote, Missing a block beyond the end. *)
(* Its stamp stands for (mtime, size): every write makes a new one.         *)
(***************************************************************************)
EXTENDS Naturals, FiniteSets

CONSTANTS
  Worker,      \* identities of upload goroutines
  Modes,       \* is fsnotify available?  A subset of BOOLEAN
  Missing, None,
  MaxOpens,    \* bound: downloads of the file
  MaxSaves,    \* bound: times the user saves
  MaxReplaces, \* bound: times an editor saves by replacing the file
  MaxFails,    \* bound: uploads that end with an error
  MaxRetries   \* bound: uploads withConn repeats on a new connection

Blocks == 2

ASSUME SyncAssumption ==
  /\ IsFiniteSet(Worker) /\ None \notin Worker /\ Missing \notin Nat
  /\ Modes \subseteq BOOLEAN /\ Modes # {}
  /\ {MaxOpens, MaxSaves, MaxReplaces, MaxFails, MaxRetries} \subseteq Nat

VARIABLES
  watching,  \* m.watcher # nil
  closed,    \* m.closed
  exited,    \* CloseAll returned
  connected, \* the SFTP session is registered
  leaving,   \* handleSFTPDisconnect is between Disconnect and UnregisterSession
  item,      \* m.items[path]: [stamp, dirty, syncing, due] or None
  local,     \* the cache file, None when there is none
  stamp,     \* its modification time and size
  watch,     \* fsnotify watches the file
  events,    \* events waiting in the watcher's channel
  loop,      \* the watch loop inside handleFileChange: [at, seen]
  opening,   \* the open handler: [at, next, seen]
  up,        \* the upload goroutines: [at, stamp, src, dst, again]
  remote,    \* the file on the server
  saves,     \* saves so far: the version the user last saved
  spent      \* uses of the bounds: [opens, replaces, fails, retries]

session == <<closed, exited, connected, leaving>>
file    == <<local, stamp, watch, events>>
vars == <<watching, session, item, file, loop, opening, up, remote, saves, spent>>

Content == [1..Blocks -> 0..(MaxSaves + MaxReplaces) \cup {Missing}]
Whole(v) == [b \in 1..Blocks |-> v]
Empty == Whole(Missing)
\* Stamps: creating, writing each block, and each save.
MaxStamp == MaxOpens * (Blocks + 1) + MaxSaves + MaxReplaces

ItemRecord == [stamp : 0..MaxStamp, dirty : BOOLEAN, syncing : BOOLEAN, due : BOOLEAN]
UploadRecord == [at : {"free", "open", "create", "copy", "done", "failed", "gone"},
                 stamp : 0..MaxStamp, src : 1..Blocks+1, dst : 1..Blocks+1,
                 again : BOOLEAN]
Free == [at |-> "free", stamp |-> 0, src |-> 1, dst |-> 1, again |-> FALSE]

TypeOK ==
  /\ watching \in BOOLEAN /\ closed \in BOOLEAN /\ exited \in BOOLEAN
  /\ connected \in BOOLEAN /\ leaving \in BOOLEAN
  /\ item \in ItemRecord \cup {None}
  /\ local \in Content \cup {None} /\ stamp \in 0..MaxStamp
  /\ watch \in BOOLEAN /\ (closed => ~watch) /\ events \subseteq {"change", "remove"}
  /\ loop \in [at : {"idle", "stat", "apply"}, seen : 0..MaxStamp]
  /\ opening \in [at : {"none", "create", "copy", "stat", "register"},
                  next : 1..Blocks+1, seen : 0..MaxStamp]
  /\ up \in [Worker -> UploadRecord]
  /\ remote \in Content
  /\ saves \in 0..(MaxSaves + MaxReplaces)
  /\ spent \in [opens : 0..MaxOpens, replaces : 0..MaxReplaces,
                fails : 0..MaxFails, retries : 0..MaxRetries]

Idle == [at |-> "idle", seen |-> 0]
NotOpening == [at |-> "none", next |-> 1, seen |-> 0]

Init ==
  /\ watching \in Modes /\ closed = FALSE /\ exited = FALSE
  /\ connected = TRUE /\ leaving = FALSE
  /\ item = None /\ local = None /\ stamp = 0 /\ watch = FALSE /\ events = {}
  /\ loop = Idle /\ opening = NotOpening /\ up = [w \in Worker |-> Free]
  /\ remote = Whole(0) /\ saves = 0
  /\ spent = [opens |-> 0, replaces |-> 0, fails |-> 0, retries |-> 0]

InFlight == {w \in Worker : up[w].at # "free"}

Spend(what, bound) == /\ spent[what] < bound
                      /\ spent' = [spent EXCEPT ![what] = @ + 1]

\* The cache file is written: a new stamp, and an event if it is watched.
Write(content) ==
  /\ local' = content /\ stamp' = stamp + 1
  /\ events' = IF watch THEN events \cup {"change"} ELSE events

\* The item is dropped and its watch removed.
Forget == item' = None /\ watch' = FALSE

-----------------------------------------------------------------------------
(* The user's application.                                                  *)

\* The application has the file once it was registered; what it saves after
\* the item is gone concerns nobody.
Edited == item # None

Save ==
  /\ Edited /\ saves < MaxSaves + spent.replaces
  /\ saves' = saves + 1
  /\ Write(Whole(saves + 1))
  /\ UNCHANGED <<watching, session, item, watch, loop, opening, up, remote, spent>>

\* The application saves to a new file and renames it over the old one: the
\* watched file is gone. Not while an upload has the old one open.
Replace ==
  /\ Edited /\ Spend("replaces", MaxReplaces)
  /\ \A w \in Worker : up[w].at \notin {"create", "copy"}
  /\ saves' = saves + 1
  /\ local' = Whole(saves + 1) /\ stamp' = stamp + 1
  /\ events' = IF watch THEN events \cup {"remove"} ELSE events
  /\ watch' = FALSE
  /\ UNCHANGED <<watching, session, item, loop, opening, up, remote>>

-----------------------------------------------------------------------------
(* handleSFTPOpen, handleSFTPOpenText and the bridge's open.                *)

At(at) == opening' = [opening EXCEPT !.at = at]

OpenStart ==
  /\ opening.at = "none" /\ connected /\ Spend("opens", MaxOpens)
  /\ At("create")
  /\ UNCHANGED <<watching, session, item, file, loop, up, remote, saves>>

\* os.Create truncates the file, watched or not.
OpenCreate ==
  /\ opening.at = "create"
  /\ Write(Empty)
  /\ opening' = [opening EXCEPT !.at = "copy", !.next = 1]
  /\ UNCHANGED <<watching, session, item, watch, loop, up, remote, saves, spent>>

OpenCopy ==
  /\ opening.at = "copy" /\ opening.next <= Blocks
  /\ Write([local EXCEPT ![opening.next] = remote[opening.next]])
  /\ opening' = [opening EXCEPT !.next = @ + 1]
  /\ UNCHANGED <<watching, session, item, watch, loop, up, remote, saves, spent>>

\* The download breaks: what has arrived stays in the cache file.
OpenFails ==
  /\ opening.at = "copy"
  /\ opening' = NotOpening
  /\ UNCHANGED <<watching, session, item, file, loop, up, remote, saves, spent>>

\* Register: os.Stat
OpenStat ==
  /\ opening.at = "copy" /\ opening.next > Blocks
  /\ opening' = [opening EXCEPT !.at = "register", !.seen = stamp]
  /\ UNCHANGED <<watching, session, item, file, loop, up, remote, saves, spent>>

\* Register under the lock; it does not look at closed.
Register ==
  /\ opening.at = "register"
  /\ item' = [stamp |-> opening.seen, dirty |-> FALSE, syncing |-> FALSE, due |-> FALSE]
  /\ watch' = (watching /\ ~closed)
  /\ opening' = NotOpening
  /\ UNCHANGED <<watching, session, local, stamp, events, loop, up, remote, saves, spent>>

-----------------------------------------------------------------------------
(* The watch loop.                                                          *)

\* Mutant: a polled change does not mark the item.
NotNoticed(it, seen) == [it EXCEPT !.stamp = seen]

\* A change on disk is recorded and waits for the debounce time.
Noticed(it, seen) ==
  IF seen = it.stamp THEN it
  ELSE [it EXCEPT !.stamp = seen, !.dirty = TRUE, !.due = FALSE]

Uploadable(it) == ~it.syncing /\ it.dirty /\ it.due

Marked(it) == [it EXCEPT !.syncing = TRUE]

StartUpload(it) ==
  \E w \in Worker :
    /\ up[w].at = "free"
    /\ up' = [up EXCEPT ![w] = [Free EXCEPT !.at = "open", !.stamp = it.stamp]]
    /\ item' = Marked(it)

\* handleFileChange up to the first unlock: an event for an item that is
\* being uploaded is dropped.
LoopEvent ==
  /\ watching /\ loop.at = "idle" /\ "change" \in events
  /\ events' = events \ {"change"}
  /\ loop' = IF closed \/ item = None \/ item.syncing
               THEN Idle ELSE [Idle EXCEPT !.at = "stat"]
  /\ UNCHANGED <<watching, session, item, local, stamp, watch, opening, up, remote, saves, spent>>

LoopStat ==
  /\ loop.at = "stat"
  /\ loop' = [at |-> "apply", seen |-> stamp]
  /\ UNCHANGED <<watching, session, item, file, opening, up, remote, saves, spent>>

\* handleFileChange from the second lock on.
LoopApply ==
  /\ loop.at = "apply"
  /\ item' = IF closed \/ item = None \/ item.syncing
               THEN item ELSE Noticed(item, loop.seen)
  /\ loop' = Idle
  /\ UNCHANGED <<watching, session, file, opening, up, remote, saves, spent>>

\* handleFileRemove
LoopRemove ==
  /\ watching /\ loop.at = "idle" /\ "remove" \in events
  /\ events' = events \ {"remove"}
  /\ IF closed \/ item = None THEN UNCHANGED <<item, watch>>
                             ELSE Forget
  /\ UNCHANGED <<watching, session, local, stamp, loop, opening, up, remote, saves, spent>>

\* checkAllFiles
LoopTick ==
  /\ watching /\ loop.at = "idle" /\ ~closed
  /\ item # None /\ Uploadable(item)
  /\ StartUpload(item)
  /\ UNCHANGED <<watching, session, file, loop, opening, remote, saves, spent>>

\* poll: the loop of a launcher whose fsnotify did not start.
Poll ==
  /\ ~watching /\ ~closed /\ item # None /\ ~item.syncing
  /\ LET seen == Noticed(item, stamp) IN
       IF Uploadable(seen) THEN StartUpload(seen) ELSE item' = seen /\ UNCHANGED up
  /\ UNCHANGED <<watching, session, file, loop, opening, remote, saves, spent>>

\* item.nextSync has passed.
DebounceOver ==
  /\ item # None /\ item.dirty /\ ~item.due
  /\ item' = [item EXCEPT !.due = TRUE]
  /\ UNCHANGED <<watching, session, file, loop, opening, up, remote, saves, spent>>

-----------------------------------------------------------------------------
(* upload, one goroutine each.                                              *)

Step(w, at) == up' = [up EXCEPT ![w].at = at]

UploadOpen(w) ==
  /\ up[w].at = "open"
  /\ Step(w, "create")
  /\ UNCHANGED <<watching, session, item, file, loop, opening, remote, saves, spent>>

\* The remote file is opened with O_TRUNC, or the session is not found.
UploadCreate(w) ==
  /\ up[w].at = "create"
  /\ IF connected
       THEN /\ up' = [up EXCEPT ![w].at = "copy", ![w].dst = 1]
            /\ remote' = Empty
       ELSE Step(w, "gone") /\ UNCHANGED remote
  /\ UNCHANGED <<watching, session, item, file, loop, opening, saves, spent>>

\* The reader delivers another block.
More(w) == up[w].src <= Blocks /\ local[up[w].src] # Missing

UploadCopy(w) ==
  /\ up[w].at = "copy" /\ More(w)
  /\ remote' = [remote EXCEPT ![up[w].dst] = local[up[w].src]]
  /\ up' = [up EXCEPT ![w].src = @ + 1, ![w].dst = @ + 1]
  /\ UNCHANGED <<watching, session, item, file, loop, opening, saves, spent>>

UploadEnds(w) ==
  /\ up[w].at = "copy" /\ ~More(w)
  /\ Step(w, "done")
  /\ UNCHANGED <<watching, session, item, file, loop, opening, remote, saves, spent>>

\* The server refuses, or the connection breaks and cannot be rebuilt.
UploadFails(w) ==
  /\ up[w].at \in {"create", "copy"} /\ Spend("fails", MaxFails)
  /\ Step(w, "failed")
  /\ UNCHANGED <<watching, session, item, file, loop, opening, remote, saves>>

\* The connection breaks, perhaps with a block read and not written, and
\* withConn repeats the upload on a new one: with the same reader.
UploadAgain(w) ==
  /\ up[w].at \in {"create", "copy"} /\ ~up[w].again
  /\ Spend("retries", MaxRetries)
  /\ \E read \in IF up[w].at = "copy" /\ More(w) THEN {0, 1} ELSE {0} :
       up' = [up EXCEPT ![w].at = "create", ![w].again = TRUE, ![w].src = @ + read]
  /\ UNCHANGED <<watching, session, item, file, loop, opening, remote, saves>>

\* Mutant: a failed upload leaves the item marked as syncing.
StaysMarked(it, u) ==
  IF u.at = "failed" THEN [it EXCEPT !.dirty = TRUE, !.due = FALSE]
  ELSE [it EXCEPT !.syncing = FALSE, !.dirty = @ /\ it.stamp # u.stamp]

\* The item after upload u: an error other than ErrSessionNotFound is tried
\* again after sftpOpenSyncRetryDelay.
Completed(it, u) ==
  IF u.at = "failed" THEN [it EXCEPT !.syncing = FALSE, !.dirty = TRUE, !.due = FALSE]
  ELSE [it EXCEPT !.syncing = FALSE, !.dirty = @ /\ it.stamp # u.stamp]

UploadComplete(w) ==
  /\ up[w].at \in {"done", "failed", "gone"}
  /\ item' = IF item = None \/ up[w].at = "gone" THEN None
                                                 ELSE Completed(item, up[w])
  /\ up' = [up EXCEPT ![w] = Free]
  /\ UNCHANGED <<watching, session, file, loop, opening, remote, saves, spent>>

-----------------------------------------------------------------------------
(* The session and the manager end.                                         *)

\* The last tab disconnects; or a failed reconnect discards the session, and
\* nobody tells the manager.
SessionEnds ==
  /\ connected /\ connected' = FALSE
  /\ leaving' \in BOOLEAN
  /\ UNCHANGED <<watching, closed, exited, item, file, loop, opening, up, remote, saves, spent>>

UnregisterSession ==
  /\ leaving /\ leaving' = FALSE
  /\ Forget
  /\ UNCHANGED <<watching, closed, exited, connected, local, stamp, events, loop,
                 opening, up, remote, saves, spent>>

\* CloseAll: m.closed is set and the items are dropped under the lock.
CloseAll ==
  /\ ~closed /\ closed' = TRUE
  /\ Forget
  /\ UNCHANGED <<watching, exited, connected, leaving, local, stamp, events, loop,
                 opening, up, remote, saves, spent>>

\* Mutant: CloseAll does not wait.
NoWait == TRUE

\* m.wg.Wait()
AllUploaded == InFlight = {}

CloseAllReturns ==
  /\ closed /\ ~exited /\ AllUploaded
  /\ exited' = TRUE
  /\ UNCHANGED <<watching, closed, connected, leaving, item, file, loop, opening, up,
                 remote, saves, spent>>

-----------------------------------------------------------------------------
Loop == LoopEvent \/ LoopStat \/ LoopApply \/ LoopRemove \/ LoopTick \/ Poll
Upload(w) ==
  \/ UploadOpen(w) \/ UploadCreate(w) \/ UploadCopy(w) \/ UploadEnds(w)
  \/ UploadFails(w) \/ UploadAgain(w) \/ UploadComplete(w)
Open == OpenStart \/ OpenCreate \/ OpenCopy \/ OpenFails \/ OpenStat \/ Register

Next ==
  \/ Save \/ Replace \/ Open \/ Loop \/ DebounceOver
  \/ \E w \in Worker : Upload(w)
  \/ SessionEnds \/ UnregisterSession \/ CloseAll \/ CloseAllReturns

Spec == Init /\ [][Next]_vars

\* The loop ticks, timers run out, an upload proceeds, and a disconnect that
\* has begun goes on.
Fairness ==
  /\ WF_vars(Loop) /\ WF_vars(DebounceOver) /\ WF_vars(UnregisterSession)
  /\ \A w \in Worker : WF_vars(Upload(w))

LiveSpec == Spec /\ Fairness

-----------------------------------------------------------------------------
\* An item marked as syncing has an upload in flight, which will clear the
\* mark: otherwise the file would never be uploaded again.
SyncingIsOwned == item # None /\ item.syncing => InFlight # {}

\* When CloseAll has returned no upload runs: the sessions closed after it and
\* the process exit cut nothing off.
NoUploadAfterExit == exited => InFlight = {}

\* Only another opening of the file can put a second upload beside a running
\* one: no more are in flight than the file was opened, however completions,
\* failures, repetitions, saves and lost items overlap. It does not say that each
\* registration has one: see UploadedOnce.
UploadsBounded == Cardinality(InFlight) <= spent.opens

\* Marks and uploads agree, whatever opens, failures and repetitions overlap.
UploadsSound == TypeOK /\ SyncingIsOwned /\ UploadsBounded

\* Nothing is going on: no upload, no event, and the last change was noticed.
Quiet ==
  /\ item # None /\ ~item.dirty /\ InFlight = {} /\ opening.at = "none"
  /\ IF watching THEN watch /\ events = {} /\ loop.at = "idle"
                 ELSE item.stamp = stamp

\* A file that is watched and rests is on the server as it is in the cache:
\* no save is forgotten.
NothingForgotten == Quiet => remote = local

\* A save reaches the server, or the item is given up with its session.
SavesArrive ==
  saves > 0 ~> (remote = Whole(saves) \/ item = None \/ closed \/ ~connected)

\* "uploaded back": the server's file is never touched while the user has
\* saved nothing.
RemoteKept == saves = 0 => remote = Whole(0)

\* An upload that ends without an error, alone and with the file unchanged
\* since it was started, has stored the whole file.
DoneIsComplete ==
  \A w \in Worker : up[w].at = "done" /\ InFlight = {w} /\ spent.opens = 1
                      /\ up[w].stamp = stamp => remote = local

\* "watched ... while the SFTP session remains connected".
StaysWatched ==
  saves > 0 /\ spent.opens = 1 /\ connected /\ ~closed => item # None

\* sftp_open_sync.go:331: an item is marked so that no second upload of it
\* starts. The upload of an earlier registration clears the mark of the new one
\* when it ends, and the same save is uploaded by two goroutines at once.
UploadedOnce ==
  \A v, w \in InFlight : v # w => up[v].stamp # up[w].stamp
=============================================================================

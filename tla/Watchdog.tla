------------------------------ MODULE Watchdog ------------------------------
(***************************************************************************)
(* When the launcher exits, and in which order it closes its parts          *)
(* (internal/gui/gui.go: RunWithOptions, the browser client handlers and    *)
(* the watchdog; frontend/src/App.vue). In a browser every page sends       *)
(* heartbeats and, if it can, a last message when it goes; when no page is  *)
(* left the watchdog closes everything. In a window of its own the launcher *)
(* exits with the window.                                                   *)
(*                                                                         *)
(* Time goes in ticks. A message is delivered in the tick in which it is    *)
(* sent, in any order.                                                      *)
(***************************************************************************)
EXTENDS Naturals, Sequences, FiniteSets

CONSTANTS
  Page,  \* launcher pages; each is opened at most once and has its own id
  Beat,  \* a page's timer runs at least once in so many ticks
  Stale, \* browserClientStaleAfter
  Grace  \* browserClientGoneGrace

ASSUME WatchdogAssumption ==
  /\ IsFiniteSet(Page)
  /\ Beat \in Nat \ {0} /\ Stale \in Nat /\ Grace \in Nat \ {0} /\ Beat <= Stale

VARIABLES
  page,    \* [Page -> [at, since]]: ticks since its last heartbeat
  mail,    \* messages on their way: [what, from]
  noted,   \* browserClients
  age,     \* ticks since a page was noted
  seen,    \* browserClientSeen
  empty,   \* browserClientsEmptySince: [set, ticks]
  dog,     \* the watchdog: 0 while it watches, then the part it closes
  main,    \* RunWithOptions: [at, part]
  upload,  \* an upload of a changed file
  ended,   \* parts of the launcher that are closed
  quiet    \* ticks since a page was in browserClients, if one was; Grace or more is one

watchdogVars == <<page, mail, noted, age, seen, empty, dog, main, upload, ended, quiet>>

\* shutdownAfterBrowserClientsGone closes the parts in this order, and the
\* deferred calls of RunWithOptions in that one.
DogOrder == <<"resources", "sftp", "sync", "shells", "bridge">>

\* Mutant: the cache is cleaned first.
CacheFirst == <<"cache", "bridge", "shells", "sync", "sftp">>

DeferOrder == <<"bridge", "shells", "sync", "sftp", "cache">>

Part == {"resources", "sftp", "sync", "shells", "bridge", "cache"}
Message == [what : {"beat", "close"}, from : Page]

WatchdogTypeOK ==
  /\ page \in [Page -> [at : {"new", "open", "left"}, since : 0..Beat]]
  /\ mail \subseteq Message
  /\ noted \subseteq Page /\ age \in [Page -> 0..Stale + 1] /\ seen \in BOOLEAN
  /\ empty \in [set : BOOLEAN, ticks : 0..Grace]
  /\ dog \in 0..Len(DogOrder) + 1
  /\ main \in [at : {"page", "window", "shells", "shutdown", "defer", "exited"},
               part : 1..Len(DeferOrder) + 1]
  /\ upload \in {"none", "running", "finished", "cut"}
  /\ ended \subseteq Part /\ quiet \in 0..Grace

WatchdogInit ==
  /\ page = [q \in Page |-> [at |-> "new", since |-> 0]]
  /\ mail = {} /\ noted = {} /\ age = [q \in Page |-> 0] /\ seen = FALSE
  /\ empty = [set |-> FALSE, ticks |-> 0]
  /\ dog = 0 /\ \E mode \in {"page", "window"} : main = [at |-> mode, part |-> 1]
  /\ upload = "none" /\ ended = {} /\ quiet = Grace

Limit(n, bound) == IF n < bound THEN n + 1 ELSE bound

Listening == main.at \in {"page", "window", "shells"}

-----------------------------------------------------------------------------
(* Pages and time.                                                          *)

Clients == <<noted, age, seen, empty, quiet>>
PartsClosing == <<dog, main, upload, ended>>

Post(what, q) == mail' = mail \cup {[what |-> what, from |-> q]}

\* A page opens, or its timer runs: it sends a heartbeat.
Beats(q) ==
  /\ page[q].at \in {"new", "open"} /\ main.at # "exited"
  /\ page[q].at = "new" => Listening
  /\ page' = [page EXCEPT ![q] = [at |-> "open", since |-> 0]]
  /\ Post("beat", q)
  /\ UNCHANGED <<Clients, PartsClosing>>

\* A page goes; its last message may not be sent.
Leaves(q) ==
  /\ page[q].at = "open"
  /\ page' = [page EXCEPT ![q].at = "left"]
  /\ Post("close", q) \/ UNCHANGED mail
  /\ UNCHANGED <<Clients, PartsClosing>>

Tick ==
  /\ mail = {} /\ main.at # "exited"
  /\ \A q \in Page : page[q].at = "open" => page[q].since < Beat
  /\ page' = [q \in Page |-> IF page[q].at = "open" THEN [page[q] EXCEPT !.since = @ + 1]
                             ELSE page[q]]
  /\ age' = [q \in Page |-> IF q \in noted THEN Limit(age[q], Stale + 1) ELSE 0]
  /\ empty' = IF empty.set THEN [empty EXCEPT !.ticks = Limit(@, Grace)] ELSE empty
  /\ quiet' = IF noted = {} THEN Limit(quiet, Grace) ELSE 0
  /\ UNCHANGED <<mail, noted, seen, PartsClosing>>

Never == [set |-> FALSE, ticks |-> 0]
Now == [set |-> TRUE, ticks |-> 0]

\* Mutant: a page that comes does not end the time without pages.
NotedInPassing(q) ==
  /\ noted' = noted \cup {q} /\ age' = [age EXCEPT ![q] = 0]
  /\ seen' = TRUE /\ quiet' = 0
  /\ UNCHANGED empty

\* noteBrowserClient
Note(q) ==
  /\ noted' = noted \cup {q} /\ age' = [age EXCEPT ![q] = 0]
  /\ seen' = TRUE /\ quiet' = 0
  /\ empty' = Never

\* forgetBrowserClient
ForgetPage(q) ==
  /\ noted' = noted \ {q} /\ age' = [age EXCEPT ![q] = 0]
  /\ empty' = IF seen /\ noted' = {} /\ ~empty.set THEN Now ELSE empty
  /\ UNCHANGED <<seen, quiet>>

Deliver(m) ==
  /\ mail' = mail \ {m}
  /\ IF ~Listening THEN UNCHANGED Clients
     ELSE IF m.what = "beat" THEN Note(m.from) ELSE ForgetPage(m.from)
  /\ UNCHANGED <<page, PartsClosing>>

-----------------------------------------------------------------------------
(* The watchdog.                                                            *)

\* Mutant: the time without pages starts with a last message only.
NoStart == Never

StartsCounting == Now

\* browserClientsGoneLongEnough
CheckPages ==
  LET left == {q \in noted : age[q] <= Stale} IN
  /\ dog = 0 /\ main.at = "page"
  /\ noted' = left
  /\ empty' = IF ~seen \/ left # {} THEN Never
              ELSE IF empty.set THEN empty ELSE StartsCounting
  /\ dog' = IF seen /\ left = {} /\ empty.set /\ empty.ticks >= Grace THEN 1 ELSE 0
  /\ UNCHANGED <<page, mail, age, seen, quiet, main, upload, ended>>

\* sftp.CloseAll cuts the connections of uploads; sftpSync.CloseAll waits for
\* them.
EndPart(part) ==
  /\ part = "sync" => upload # "running"
  /\ ended' = ended \cup {part}
  /\ upload' = IF part = "sftp" /\ upload = "running" THEN "cut" ELSE upload

DogCloses ==
  /\ dog \in 1..Len(DogOrder) /\ main.at # "exited"
  /\ EndPart(DogOrder[dog])
  /\ dog' = dog + 1
  /\ UNCHANGED <<page, mail, Clients, main>>

-----------------------------------------------------------------------------
(* RunWithOptions.                                                          *)

Main(at) == main' = [main EXCEPT !.at = at] /\ UNCHANGED <<page, mail, Clients, dog>>

\* The user closes the window; it stays while files are transferred. The
\* transfers of the SFTP page are not those of changed files.
WindowCloses == main.at = "window" /\ Main("shells") /\ UNCHANGED <<upload, ended>>

Cancelled == main.at = "page" /\ dog > Len(DogOrder) /\ Main("shells") /\ UNCHANGED <<upload, ended>>

\* Serve fails: nothing is closed but by the deferred calls.
ServeFails == main.at = "page" /\ Main("defer") /\ UNCHANGED <<upload, ended>>

CloseShells == main.at = "shells" /\ Main("shutdown") /\ EndPart("shells")

\* http.Server.Shutdown, three seconds at most.
HttpShutdown == main.at = "shutdown" /\ Main("defer") /\ UNCHANGED <<upload, ended>>

Deferred ==
  /\ main.at = "defer" /\ main.part <= Len(DeferOrder)
  /\ EndPart(DeferOrder[main.part])
  /\ main' = [main EXCEPT !.part = @ + 1]
  /\ UNCHANGED <<page, mail, Clients, dog>>

Returns == /\ main.at = "defer" /\ main.part > Len(DeferOrder)
           /\ Main("exited") /\ UNCHANGED <<upload, ended>>

\* A watched file changes, and its upload ends.
Uploads ==
  /\ upload = "none" /\ {"sync", "sftp"} \cap ended = {} /\ main.at # "exited"
  /\ upload' = "running"
  /\ UNCHANGED <<page, mail, Clients, dog, main, ended>>
UploadEnds ==
  /\ upload = "running" /\ upload' = "finished"
  /\ UNCHANGED <<page, mail, Clients, dog, main, ended>>

-----------------------------------------------------------------------------
MainSteps == Cancelled \/ CloseShells \/ HttpShutdown \/ Deferred \/ Returns

WatchdogNext ==
  \/ \E q \in Page : Beats(q) \/ Leaves(q)
  \/ \E m \in mail : Deliver(m)
  \/ Tick \/ CheckPages \/ DogCloses \/ WindowCloses \/ ServeFails \/ MainSteps
  \/ Uploads \/ UploadEnds

\* Time passes, timers run, messages arrive, and the launcher's goroutines and
\* uploads go on.
WatchdogFairness ==
  /\ WF_watchdogVars(Tick) /\ WF_watchdogVars(CheckPages) /\ WF_watchdogVars(DogCloses)
  /\ WF_watchdogVars(MainSteps) /\ WF_watchdogVars(UploadEnds)
  /\ WF_watchdogVars(\E m \in mail : Deliver(m))

WatchdogSpec == WatchdogInit /\ [][WatchdogNext]_watchdogVars /\ WatchdogFairness

-----------------------------------------------------------------------------
(* Properties.                                                              *)

\* The watchdog gives up only when no page has been there for the whole grace
\* time, whichever pages came and went before, and never while a page is open
\* whose heartbeats arrive: a page in the background beats slowly, heartbeats
\* and last messages overtake each other, and a page is reloaded under a new id.
WatchdogPatient ==
  [][dog = 0 /\ dog' = 1 =>
       /\ quiet >= Grace
       /\ \A q \in Page : page[q].at = "open" => [what |-> "beat", from |-> q] \in mail
    ]_watchdogVars

\* The directory of opened files is cleaned only when no upload reads from it
\* and none can start, however the launcher ends.
CacheAfterUploads == "cache" \in ended => upload # "running" /\ "sync" \in ended

\* The cache is cleaned after the uploads, however the launcher ends.
CacheLast == WatchdogTypeOK /\ CacheAfterUploads

\* README.md:508: once its pages are gone the launcher exits, even when no page
\* could say goodbye.
LauncherExits ==
  (seen /\ main.at = "page" /\ \A q \in Page : page[q].at = "left") ~> (main.at = "exited")

\* README.md:198 says edited files are uploaded back. The watchdog closes the
\* SFTP sessions before it waits for the uploads, which the deferred calls of
\* RunWithOptions do in the other order.
UploadsNotCut == upload # "cut"
=============================================================================

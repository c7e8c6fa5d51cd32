----------------------------- MODULE LogStream -----------------------------
(***************************************************************************)
(* The log of one profile and the event streams that follow it              *)
(* (internal/gui/gui.go: profileLogStore, safeLog, handleLogsStream): a      *)
(* stream replays what the log holds, then listens on a channel of its own  *)
(* until its page goes away. Writers find the log by the profile's name and *)
(* add a line to it; deleting the profile drops the log from the store.     *)
(* A line is its number.                                                    *)
(***************************************************************************)
EXTENDS Naturals, Sequences, FiniteSets

CONSTANTS
  Log,      \* logs the store may create for the profile
  Stream,   \* requests to /api/logs/stream
  Writer,   \* goroutines that log
  NoLog,
  MaxLines, \* bound: lines written
  Cap,      \* lines a log keeps (500)
  Buffer    \* room of a stream's channel (10)

ASSUME LogAssumption ==
  /\ IsFiniteSet(Log) /\ NoLog \notin Log
  /\ MaxLines \in Nat /\ Cap \in Nat \ {0} /\ Buffer \in Nat \ {0}

VARIABLES
  store,     \* logs[profileID], NoLog when there is none
  log,       \* [Log -> [lines, listeners]]
  stream,    \* [Stream -> [at, log, seen, queue]]
  writer,    \* the log a writer has found, or NoLog
  written,   \* lines so far
  panicked   \* a line was sent on a closed channel

logVars == <<store, log, stream, writer, written, panicked>>

Lines == 1..MaxLines

LogTypeOK ==
  /\ store \in Log \cup {NoLog}
  /\ \A l \in Log : log[l].listeners \subseteq Stream /\ Len(log[l].lines) <= Cap
  /\ \A r \in Stream :
       /\ stream[r].at \in {"new", "replay", "listen", "streaming", "closing", "closed", "over"}
       /\ stream[r].log \in Log \cup {NoLog} /\ Len(stream[r].queue) <= Buffer
  /\ writer \in [Writer -> Log \cup {NoLog}]
  /\ written \in 0..MaxLines /\ panicked \in BOOLEAN

LogInit ==
  /\ store = NoLog
  /\ log = [l \in Log |-> [lines |-> <<>>, listeners |-> {}]]
  /\ stream = [r \in Stream |-> [at |-> "new", log |-> NoLog, seen |-> <<>>, queue |-> <<>>]]
  /\ writer = [w \in Writer |-> NoLog]
  /\ written = 0 /\ panicked = FALSE

\* A log nobody has had yet.
Unused == {l \in Log : l # store /\ log[l].lines = <<>>
             /\ \A r \in Stream : stream[r].log # l
             /\ \A w \in Writer : writer[w] # l}

\* forProfile
ForProfile(l) == IF store = NoLog THEN l \in Unused ELSE l = store

-----------------------------------------------------------------------------
FindLog(w) ==
  /\ writer[w] = NoLog /\ written < MaxLines
  /\ \E l \in Log : ForProfile(l) /\ writer' = [writer EXCEPT ![w] = l] /\ store' = l
  /\ UNCHANGED <<log, stream, written, panicked>>

Kept(lines) == IF Len(lines) > Cap THEN SubSeq(lines, Len(lines) - Cap + 1, Len(lines))
               ELSE lines

\* add: one critical section for the buffer and the channels. A full channel
\* is skipped, and a closed one panics, whether it is full or not.
Add(w) ==
  LET l == writer[w]
      line == written + 1
      to == log[l].listeners
  IN
  /\ l # NoLog
  /\ written < MaxLines
  /\ written' = line
  /\ writer' = [writer EXCEPT ![w] = NoLog]
  /\ log' = [log EXCEPT ![l].lines = Kept(Append(@, line))]
  /\ panicked' = (\E r \in to : stream[r].at = "closed")
  /\ stream' = [r \in Stream |->
       IF r \in to /\ stream[r].at # "closed" /\ Len(stream[r].queue) < Buffer
         THEN [stream[r] EXCEPT !.queue = Append(@, line)] ELSE stream[r]]
  /\ UNCHANGED store

\* profileLogStore.delete, when the profile is deleted.
DeleteLog ==
  /\ store # NoLog
  /\ store' = NoLog
  /\ UNCHANGED <<log, stream, writer, written, panicked>>

-----------------------------------------------------------------------------
(* handleLogsStream.                                                        *)

Follow(r, new) == stream' = [stream EXCEPT ![r] = new]
               /\ UNCHANGED <<writer, written, panicked>>

\* Mutant: the stream listens before it replays.
ConnectListening(r) ==
  /\ stream[r].at = "new"
  /\ \E l \in Log :
       /\ ForProfile(l) /\ store' = l
       /\ Follow(r, [stream[r] EXCEPT !.at = "replay", !.log = l])
       /\ log' = [log EXCEPT ![l].listeners = @ \cup {r}]

Connect(r) ==
  /\ stream[r].at = "new"
  /\ \E l \in Log : /\ ForProfile(l) /\ store' = l
                    /\ Follow(r, [stream[r] EXCEPT !.at = "replay", !.log = l])
  /\ UNCHANGED log

Replay(r) ==
  /\ stream[r].at = "replay"
  /\ Follow(r, [stream[r] EXCEPT !.at = "listen", !.seen = log[stream[r].log].lines])
  /\ UNCHANGED <<store, log>>

AddListener(r) ==
  /\ stream[r].at = "listen"
  /\ log' = [log EXCEPT ![stream[r].log].listeners = @ \cup {r}]
  /\ Follow(r, [stream[r] EXCEPT !.at = "streaming"])
  /\ UNCHANGED store

Forward(r) ==
  /\ stream[r].at = "streaming" /\ stream[r].queue # <<>>
  /\ Follow(r, [stream[r] EXCEPT !.seen = Append(@, Head(stream[r].queue)), !.queue = Tail(@)])
  /\ UNCHANGED <<store, log>>

\* The page goes away; a line that is ready may be forwarded first.
PageLeaves(r) ==
  /\ stream[r].at = "streaming"
  /\ Follow(r, [stream[r] EXCEPT !.at = "closing"])
  /\ UNCHANGED <<store, log>>

\* Deferred calls run last to first: close(ch), then removeListener.
CloseQueue(r) ==
  /\ stream[r].at = "closing"
  /\ Follow(r, [stream[r] EXCEPT !.at = "closed"])
  /\ UNCHANGED <<store, log>>

OwnLog(r) == stream[r].log

RemoveListener(r) ==
  /\ stream[r].at = "closed"
  /\ log' = IF OwnLog(r) = NoLog THEN log
            ELSE [log EXCEPT ![OwnLog(r)].listeners = @ \ {r}]
  /\ Follow(r, [stream[r] EXCEPT !.at = "over"])
  /\ UNCHANGED store

-----------------------------------------------------------------------------
Following(r) == Replay(r) \/ AddListener(r) \/ Forward(r) \/ CloseQueue(r) \/ RemoveListener(r)

\* A panic in a goroutine ends the process.
LogNext == ~panicked /\
  \/ \E w \in Writer : FindLog(w) \/ Add(w)
  \/ DeleteLog
  \/ \E r \in Stream : Connect(r) \/ Following(r) \/ PageLeaves(r)

LogFairness == \A r \in Stream : WF_logVars(~panicked /\ Following(r))

LogSpec == LogInit /\ [][LogNext]_logVars /\ LogFairness

-----------------------------------------------------------------------------
(* Properties.                                                              *)

Shown(r) == stream[r].seen \o stream[r].queue

\* A page shows every line at most once and in the order in which the lines
\* were logged, over the seam between the replay and the channel, with writers
\* on both sides of it, a full channel and a log that has dropped its oldest
\* lines.
LinesOnce == \A r \in Stream : \A i, j \in 1..Len(Shown(r)) :
  i < j => Shown(r)[i] < Shown(r)[j]

\* A log serves only streams that are there: the listener of a stream that has
\* ended is in no log, even when the profile's log was deleted or replaced
\* under the stream.
ListenersLive == \A l \in Log : \A r \in log[l].listeners :
  stream[r].log = l /\ stream[r].at \in {"streaming", "closing", "closed"}

\* A page sees each line once and in order, and no log keeps a stream that ended.
StreamsSound == LogTypeOK /\ LinesOnce /\ ListenersLive

\* A page that stays has every line its log received after it connected, as
\* long as its channel is not full: gui.go:143 calls the listeners those of
\* "real-time log streaming". Lines logged between the replay and addListener
\* are in neither.
NoGap == \A r \in Stream :
  stream[r].at = "streaming" /\ Len(stream[r].queue) < Buffer =>
    \A i \in 1..Len(log[stream[r].log].lines) :
      LET line == log[stream[r].log].lines[i] IN \E j \in 1..Len(Shown(r)) : Shown(r)[j] = line

\* Logging never panics.
NeverPanics == ~panicked
=============================================================================

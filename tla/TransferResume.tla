--------------------------- MODULE TransferResume ---------------------------
(***************************************************************************)
(* One entry of the transfer queue: the resumable copy of a file            *)
(* (internal/gui/transfer_resume.go) and its progress record                *)
(* (internal/gui/transfer_progress.go), with the controls the window posts. *)
(*                                                                          *)
(* A file is a sequence of blocks; a block is the version of the source it  *)
(* was read from, so a target is intact when all its blocks are of one      *)
(* version. Every change of the source gives it a new size or mtime: a      *)
(* version stands for the pair, and 0 for the zero values of a transfer     *)
(* that has not recorded one. A missing target is an empty one. Every       *)
(* critical section of transferProgressStore is a step of its own where a   *)
(* control may come in between.                                             *)
(***************************************************************************)
EXTENDS Naturals, Sequences

CONSTANTS
  MaxVersion,   \* bound: how often the source is replaced
  FileSize,     \* the size of each version, in blocks
  MaxAttempts   \* transferMaxAttempts

Version == 1..MaxVersion
Unknown == 0

ASSUME TransferAssumption ==
  /\ MaxVersion \in Nat \ {0} /\ MaxAttempts \in Nat \ {0}
  /\ FileSize \in [Version -> Nat]

VARIABLES
  source,    \* the version the source has now
  target,    \* the blocks of the target file
  p,         \* the progress record of the transfer
  active,    \* state.active
  identity,  \* state.sourceSize, state.sourceModTime, state.hasSource
  pending,   \* requests the window has posted and no handler has begun
  at,        \* where runResumableTransfer is
  resume,    \* its parameter
  attempt,   \* its loop counter
  offset,    \* its local variable
  known,     \* storedSize, storedModTime, hasStoredIdentity
  buffer,    \* the block copyResumableAt has read
  err,       \* the error it is about to finish with
  asleep,    \* it is in state.cond.Wait()
  changed,   \* history: the source changed since begin
  doubt,     \* history: how the run lost sight of the source's identity
  cancelled  \* history: the run before the last reset was cancelled

files == <<source, target>>
store == <<p, active, identity>>
run   == <<at, resume, attempt, offset, known, buffer, err, asleep>>
past  == <<changed, doubt, cancelled>>
vars  == <<files, store, pending, run, past>>

Request == {"fresh", "retry"}
Stages  == {"stat", "size", "open", "read", "check", "write", "close"}
Errors  == {"", "cancelled", "changed", "refused", "broken"}

Progress == [loaded: Nat, total: Nat, done: BOOLEAN, paused: BOOLEAN,
             cancelled: BOOLEAN, error: Errors, retrying: BOOLEAN]

TypeOK ==
  /\ source \in Version /\ target \in Seq(Version)
  /\ p \in Progress /\ active \in BOOLEAN
  /\ identity \in Version \cup {Unknown}
  /\ pending \subseteq Request
  /\ at \in Stages \cup {"idle", "verify", "finish", "backoff", "wait"}
  /\ resume \in BOOLEAN
  /\ attempt \in 1..MaxAttempts
  /\ offset \in Nat
  /\ known \in Version \cup {Unknown} /\ buffer \in Version
  /\ err \in Errors /\ asleep \in BOOLEAN
  /\ changed \in BOOLEAN /\ cancelled \in BOOLEAN
  /\ doubt \subseteq {"unidentified", "unchecked"}

NewProgress(n) == [loaded |-> n, total |-> 0, done |-> FALSE, paused |-> FALSE,
                   cancelled |-> FALSE, error |-> "", retrying |-> FALSE]

Init ==
  /\ source = 1 /\ target = <<>>
  /\ p = NewProgress(0) /\ active = FALSE /\ identity = Unknown
  /\ pending = {"fresh"}
  /\ at = "idle" /\ resume = FALSE /\ attempt = 1 /\ offset = 0
  /\ known = Unknown /\ buffer = 1 /\ err = "" /\ asleep = FALSE
  /\ changed = FALSE /\ doubt = {} /\ cancelled = FALSE

-----------------------------------------------------------------------------
(* The progress store.                                                      *)

Least(m, n) == IF m < n THEN m ELSE n
Most(m, n)  == IF m < n THEN n ELSE m

SetTotal(q, n) ==
  IF n = 0 THEN q ELSE [q EXCEPT !.total = n, !.loaded = Least(@, n)]

SetLoaded(q, n) == [q EXCEPT !.loaded = n, !.total = Most(@, n)]

\* add(id, n)
Added(q) == [q EXCEPT !.loaded = @ + 1, !.total = Most(@, q.loaded + 1),
                      !.retrying = FALSE]

\* Mutant: a transfer that failed late overwrites the cancellation.
FinishedAnyway(q, e) ==
  [q EXCEPT !.done = TRUE, !.paused = FALSE, !.retrying = FALSE, !.error = e,
            !.loaded = IF e = "" /\ q.total > 0 THEN q.total ELSE @]

\* finish(id, err)
Finished(q, e) ==
  [q EXCEPT !.done = TRUE, !.paused = FALSE, !.retrying = FALSE,
            !.error = IF q.cancelled THEN @ ELSE e,
            !.loaded = IF ~q.cancelled /\ e = "" /\ q.total > 0
                         THEN q.total ELSE @]

\* The loop of waitAllowed: while it goes on the run waits for a Broadcast.
Held == p.paused /\ ~p.cancelled /\ ~p.done
Allowed == ~asleep /\ ~Held

\* Mutant: a control other than "cancel" does not wake the copy.
CancelWakes == asleep' = (asleep /\ ~p'.cancelled)

Broadcast == asleep' = FALSE

-----------------------------------------------------------------------------
(* The controls: the window posts them for a transfer it shows.             *)

Pause ==
  /\ ~p.done /\ ~p.cancelled /\ ~p.paused
  /\ p' = [p EXCEPT !.paused = TRUE]
  /\ UNCHANGED <<files, active, identity, pending, run, past>>

Resume ==
  /\ p.paused
  /\ p' = [p EXCEPT !.paused = FALSE]
  /\ Broadcast
  /\ UNCHANGED <<files, active, identity, pending, at, resume, attempt, offset,
                 known, buffer, err, past>>

Cancel ==
  /\ ~p.cancelled
  /\ p' = [p EXCEPT !.cancelled = TRUE, !.paused = FALSE, !.done = TRUE,
                    !.retrying = FALSE, !.error = "cancelled"]
  /\ Broadcast
  /\ UNCHANGED <<files, active, identity, pending, at, resume, attempt, offset,
                 known, buffer, err, past>>

\* A failed row is retried: "reset" first, then the same transfer with resume.
\* While the transfer still runs the reset is refused, and nothing is posted.
Retry ==
  /\ p.done /\ p.error # "" /\ ~active /\ "retry" \notin pending
  /\ p' = [p EXCEPT !.done = FALSE, !.cancelled = FALSE, !.paused = FALSE,
                    !.retrying = FALSE, !.error = ""]
  /\ cancelled' = p.cancelled
  /\ pending' = pending \cup {"retry"}
  /\ UNCHANGED <<files, active, identity, run, changed, doubt>>

-----------------------------------------------------------------------------
(* runResumableTransfer.                                                    *)

Goto(stage) == at' = stage

Ends(e) == Goto("finish") /\ err' = e

\* begin: a second request for a running transfer is refused.
Begin(q) ==
  /\ q \in pending
  /\ pending' = pending \ {q}
  /\ IF active
       THEN UNCHANGED <<store, run, past>>
       ELSE LET start == IF q = "retry" /\ ~p.cancelled THEN p.loaded ELSE 0
            IN  /\ active' = TRUE
                /\ p' = NewProgress(start)
                /\ offset' = start /\ known' = identity
                /\ resume' = (q = "retry") /\ attempt' = 1
                /\ Goto("stat")
                /\ changed' = FALSE
                /\ doubt' = IF start = 0 THEN {}
                            ELSE IF identity = Unknown
                                   THEN doubt \cup {"unidentified"}
                                   ELSE doubt
                /\ UNCHANGED <<identity, buffer, err, asleep, cancelled>>
  /\ UNCHANGED files

\* A manual retry against a changed source starts again.
StartsAgain == attempt = 1 /\ resume /\ known \notin {Unknown, source}

\* src.Stat() answers.
StatSource ==
  /\ at = "stat"
  /\ IF attempt > 1 /\ known # Unknown /\ known # source
       THEN /\ Ends("changed")
            /\ UNCHANGED <<p, identity, offset, known, doubt>>
       ELSE /\ Goto("size")
            /\ known' = IF attempt = 1 THEN source ELSE known
            /\ identity' = IF attempt = 1 THEN source ELSE identity
            /\ offset' = IF StartsAgain THEN 0 ELSE offset
            /\ doubt' = IF StartsAgain THEN {}
                        ELSE IF attempt > 1 /\ known = Unknown
                               THEN doubt \cup {"unidentified"}
                               ELSE doubt
            /\ p' = SetTotal(IF StartsAgain THEN SetLoaded(p, 0) ELSE p,
                             FileSize[source])
            /\ UNCHANGED err
  /\ UNCHANGED <<files, active, pending, resume, attempt, buffer, changed,
                 cancelled, asleep>>

\* The offset resolveTargetOffset settles on.
TargetOffset == Least(offset, Len(target))

\* Mutant: the progress keeps counting what the target has lost.
NotCorrected == p

\* setLoaded, when the target holds less than the progress says.
Corrected == IF 0 < offset /\ TargetOffset < p.loaded
               THEN SetLoaded(p, TargetOffset) ELSE p

ResolveTargetOffset ==
  /\ at = "size"
  /\ offset' = TargetOffset
  /\ p' = Corrected
  /\ Goto("open")
  /\ UNCHANGED <<files, active, identity, pending, resume, attempt, known,
                 buffer, err, asleep, past>>

\* src.OpenAt and dst.OpenAt; the latter truncates the target to the offset.
OpenBoth ==
  /\ at = "open"
  /\ target' = SubSeq(target, 1, offset)
  /\ Goto("read")
  /\ UNCHANGED <<source, store, pending, resume, attempt, offset, known,
                 buffer, err, asleep, past>>

\* waitAllowed blocks the copy, or the wait for the next attempt.
Sleep ==
  /\ at \in {"read", "check", "wait"} /\ Held /\ ~asleep
  /\ asleep' = TRUE
  /\ UNCHANGED <<files, store, pending, at, resume, attempt, offset, known,
                 buffer, err, past>>

\* waitAllowed, then reader.Read at the position the target has reached.
Read ==
  /\ at = "read" /\ Allowed
  /\ IF p.cancelled
       THEN Ends("cancelled") /\ UNCHANGED buffer
       ELSE IF Len(target) < FileSize[source]
         THEN buffer' = source /\ Goto("check") /\ UNCHANGED err
         ELSE Goto("close") /\ UNCHANGED <<buffer, err>>
  /\ UNCHANGED <<files, store, pending, resume, attempt, offset, known, asleep, past>>

\* waitAllowed before the write.
CheckAllowed ==
  /\ at = "check" /\ Allowed
  /\ IF p.cancelled THEN Ends("cancelled") ELSE Goto("write") /\ UNCHANGED err
  /\ UNCHANGED <<files, store, pending, resume, attempt, offset, known, buffer,
                 asleep, past>>

Write ==
  /\ at = "write"
  /\ target' = Append(target, buffer)
  /\ p' = Added(p)
  /\ Goto("read")
  /\ UNCHANGED <<source, active, identity, pending, resume, attempt, offset,
                 known, buffer, err, asleep, past>>

Close ==
  /\ at = "close"
  /\ Goto("verify")
  /\ UNCHANGED <<files, store, pending, resume, attempt, offset, known, buffer,
                 err, asleep, past>>

\* Mutant: only the length is compared.
LooksUnchanged == p.total > 0 => p.loaded >= p.total

\* What the code compares after the copy, when the second Stat answers.
SameSource ==
  /\ p.total > 0 => p.loaded >= p.total
  /\ source = known

\* The second Stat answers, or fails, which counts as "unchanged".
Verify ==
  /\ at = "verify"
  /\ \/ Ends(IF SameSource THEN "" ELSE "changed") /\ UNCHANGED doubt
     \/ /\ p.total > 0 => p.loaded >= p.total
        /\ Ends("") /\ doubt' = doubt \cup {"unchecked"}
  /\ UNCHANGED <<files, store, pending, resume, attempt, offset, known, buffer,
                 changed, cancelled, asleep>>

\* attempt < transferMaxAttempts
MayRetry == attempt < MaxAttempts

\* Any call on either side fails: a broken connection is retried, a refusal
\* (permission, missing file, full disk, a directory) is not.
CallFails ==
  /\ at \in Stages \ {"check"} /\ ~asleep
  /\ \/ Ends("refused")
     \/ IF MayRetry THEN Goto("backoff") /\ UNCHANGED err ELSE Ends("broken")
  /\ UNCHANGED <<files, store, pending, resume, attempt, offset, known, buffer,
                 asleep, past>>

\* Reconnect on both sides, whose errors are only logged, and retryScheduled.
Backoff ==
  /\ at = "backoff"
  /\ offset' = p.loaded
  /\ p' = [p EXCEPT !.retrying = TRUE]
  /\ Goto("wait")
  /\ UNCHANGED <<files, active, identity, pending, resume, attempt, known,
                 buffer, err, asleep, past>>

NextAttemptNumber == attempt + 1

\* waitTransferRetry comes back: the delay is over, or the user cancelled.
NextAttempt ==
  /\ at = "wait" /\ Allowed
  /\ IF p.cancelled
       THEN Ends("cancelled") /\ UNCHANGED attempt
       ELSE attempt' = NextAttemptNumber /\ Goto("stat") /\ UNCHANGED err
  /\ UNCHANGED <<files, store, pending, resume, offset, known, buffer, asleep, past>>

Finish ==
  /\ at = "finish"
  /\ p' = Finished(p, err)
  /\ active' = FALSE
  /\ Goto("idle") /\ err' = ""
  /\ UNCHANGED <<files, identity, pending, resume, attempt, offset, known,
                 buffer, asleep, past>>

-----------------------------------------------------------------------------
(* The environment.                                                         *)

SourceChanges ==
  /\ source < MaxVersion
  /\ source' = source + 1
  /\ changed' = TRUE
  /\ UNCHANGED <<target, store, pending, run, doubt, cancelled>>

\* A server that crashed lost the end of the file, or somebody removed it.
TargetShrinks ==
  /\ at \in {"idle", "wait"} /\ ~(p.done /\ p.error = "")
  /\ \E n \in 0..Len(target) : n < Len(target) /\ target' = SubSeq(target, 1, n)
  /\ UNCHANGED <<source, store, pending, run, past>>

-----------------------------------------------------------------------------
RunStep ==
  \/ \E q \in Request : Begin(q)
  \/ StatSource \/ ResolveTargetOffset \/ OpenBoth \/ Sleep \/ Read
  \/ CheckAllowed \/ Write \/ Close \/ Verify \/ Backoff \/ NextAttempt \/ Finish

Next ==
  \/ RunStep \/ CallFails
  \/ Pause \/ Resume \/ Cancel \/ Retry
  \/ SourceChanges \/ TargetShrinks

Spec == Init /\ [][Next]_vars

\* Every call on a file returns, with an answer or an error, and the handler's
\* goroutine runs on.
LiveSpec == Spec /\ WF_vars(RunStep \/ CallFails)

-----------------------------------------------------------------------------
Whole(v) == [i \in 1..FileSize[v] |-> v]

Success == p.done /\ p.error = ""

Intact == \E v \in Version : target = Whole(v)

\* A transfer that reports success left a target with every block of one
\* version of the source, whatever broke, was paused, retried or resumed, as
\* long as the run could identify the source before and after the copy.
SuccessIsExact == Success /\ doubt = {} => Intact

\* While the copy runs, the progress the next attempt would continue from never
\* counts a block the target does not hold, whatever failed, shrank or changed
\* before; and it counts every one of them unless the run lost sight of the
\* source's identity (doubt), where setTotal may cut it: see ConfirmedAll.
ConfirmedBytes ==
  at \in {"read", "check", "write", "close"}
    => p.loaded <= Len(target) /\ (doubt = {} => p.loaded = Len(target))

\* What a transfer believes of its target is true.
TransferSound == TypeOK /\ ConfirmedBytes

\* A cancellation that raced with the end of the transfer, a failure or the
\* schedule of a retry is never overwritten by their outcome.
CancelSticks == p.cancelled => p.done /\ p.error = "cancelled"

\* Every run ends after a bounded number of attempts, unless it is paused: a
\* copy that sleeps because of a pause is woken when the pause ends, however
\* pauses, resumptions and a cancellation follow each other.
RunsEnd == active ~> ~active \/ p.paused

\* README.md:194: "If the source file size or mtime changes during a transfer,
\* the launcher stops and reports it rather than producing a corrupt file".
ChangeIsReported == Success /\ "unidentified" \notin doubt => Intact

\* README.md:194: "a manual retry against a changed source restarts that file
\* from zero".
RetryRestartsChanged == Success /\ "unchecked" \notin doubt => Intact

\* transfer_resume.go:26: "source file changed during the transfer".
OnlyRealChanges == p.error = "changed" => changed

\* README.md:194: "A cancelled task restarts from zero when it is retried."
CancelledRestarts ==
  [][cancelled /\ at = "idle" /\ at' = "stat" /\ resume' => offset' = 0]_vars

\* transfer_resume.go:218: "each retry reopens both sides at the last confirmed
\* byte offset": of a source that was not identified the new total cuts the
\* progress, and the copy is reopened at the offset from before the cut.
ConfirmedAll ==
  at \in {"read", "check", "write", "close"} => p.loaded = Len(target)
=============================================================================

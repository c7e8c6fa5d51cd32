----------------------- MODULE TransferResume_proofs -----------------------
(***************************************************************************)
(* TransferSound, SuccessIsExact and CancelSticks for any number of         *)
(* attempts and any versions and sizes of the source: what a transfer       *)
(* reports is true of the target.                                           *)
(*                                                                         *)
(* The argument follows two facts about blocks. A block stands where its    *)
(* version had one, and as long as the run has not lost sight of the        *)
(* source's identity the blocks the next attempt will keep are of that      *)
(* version or of a later one. A copy that ends with the source it began     *)
(* with therefore has blocks of that version only.                          *)
(***************************************************************************)
EXTENDS TransferResume, TLAPS

Copying == {"read", "check", "write", "close", "verify"}

\* The store and the run agree; a version, once seen, is not a later one.
Control ==
  /\ active <=> at # "idle"
  /\ known = identity /\ known <= source
  /\ at \in {"backoff", "wait"} => attempt < MaxAttempts
  /\ at = "stat" /\ attempt = 1 /\ ~resume => offset = 0

\* Only the end of a run is a success.
SuccessAtRest == Success => at = "idle"

\* A block stands where its version had one, the one in the buffer too.
Placed ==
  /\ \A i \in 1..Len(target) : i <= FileSize[target[i]]
  /\ at \in {"check", "write"} => Len(target) < FileSize[buffer]

\* How much of the target the next attempt keeps, if it is there.
KeptLength == CASE at \in {"stat", "size", "open", "wait"} -> offset
                [] at \in Copying -> Len(target)
                [] OTHER -> p.loaded

\* What is kept was read from the version the run knows, or a later one.
KeptIsKnown == doubt = {} => \A i \in 1..Len(target) :
  i <= KeptLength => known # Unknown /\ known <= target[i] /\ target[i] <= source

BufferIsKnown == doubt = {} /\ at \in {"check", "write"} => known <= buffer /\ buffer <= source

\* The progress and the offset.
LoadedIsKept ==
  /\ at \in {"stat", "wait"} => p.loaded = offset
  /\ at \in {"size", "open"} /\ doubt = {} => known # Unknown
  /\ at = "size" => p.loaded <= offset /\ (doubt = {} => Least(offset, Len(target)) <= p.loaded)
  /\ at = "open" => p.loaded <= offset /\ offset <= Len(target)
  /\ at = "open" /\ doubt = {} => p.loaded = offset
  /\ at \in Copying => p.loaded <= Len(target)
  /\ at \in Copying /\ doubt = {} => p.loaded = Len(target) /\ known # Unknown

\* Everything was copied, or the source has changed.
CopiedAll == at \in {"close", "verify"} => FileSize[source] <= Len(target) \/ known < source

\* The outcome before it is stored.
OutcomeIsExact == at = "finish" /\ err = "" /\ doubt = {} =>
  known # Unknown /\ target = Whole(known)

IInv ==
  /\ TypeOK /\ Control /\ SuccessAtRest /\ CancelSticks /\ Placed /\ KeptIsKnown /\ BufferIsKnown
  /\ LoadedIsKept /\ CopiedAll /\ OutcomeIsExact /\ SuccessIsExact

-----------------------------------------------------------------------------
(* Lemmas about files.                                                      *)

\* A file that is cut keeps its first blocks.
LEMMA CutFile ==
  ASSUME NEW f \in Seq(Version), NEW n \in 0..Len(f)
  PROVE  /\ SubSeq(f, 1, n) \in Seq(Version) /\ Len(SubSeq(f, 1, n)) = n
         /\ \A i \in 1..n : SubSeq(f, 1, n)[i] = f[i]
  OBVIOUS

\* A block is appended at the end.
LEMMA LongerFile ==
  ASSUME NEW f \in Seq(Version), NEW b \in Version
  PROVE  /\ Append(f, b) \in Seq(Version) /\ Len(Append(f, b)) = Len(f) + 1
         /\ \A i \in 1..Len(f) : Append(f, b)[i] = f[i]
         /\ Append(f, b)[Len(f) + 1] = b
  OBVIOUS

\* A file with every block of one version is that version.
LEMMA WholeFile ==
  ASSUME NEW f \in Seq(Version), NEW v \in Version, Len(f) = FileSize[v], \A i \in 1..Len(f) : f[i] = v
  PROVE  f = Whole(v)
  BY DEF Whole

\* How much is kept is a number.
LEMMA KeptType ==
  ASSUME TypeOK
  PROVE  KeptLength \in Nat
  BY DEF TypeOK, KeptLength, Progress

\* The numbers a transfer counts with.
LEMMA Numbers ==
  ASSUME TypeOK
  PROVE  /\ Len(target) \in Nat /\ offset \in Nat /\ p.loaded \in Nat /\ p.total \in Nat
         /\ source \in Version /\ source \in Nat /\ FileSize[source] \in Nat /\ known \in Nat
         /\ known # Unknown => known \in Version /\ FileSize[known] \in Nat
         /\ \A i \in 1..Len(target) :
              target[i] \in Version /\ target[i] \in Nat /\ FileSize[target[i]] \in Nat
<1>1. Len(target) \in Nat /\ offset \in Nat /\ p.loaded \in Nat /\ p.total \in Nat
  BY DEF TypeOK, Progress
<1>2. \A v \in Version : v \in Nat /\ FileSize[v] \in Nat
  BY TransferAssumption DEF Version
<1>3. source \in Version /\ known \in Version \cup {Unknown} /\ \A i \in 1..Len(target) : target[i] \in Version
  BY DEF TypeOK
<1> QED
  BY <1>1, <1>2, <1>3 DEF Unknown

\* A step that keeps no more of the same target keeps what it knows of it.
LEMMA KeptShrinks ==
  ASSUME IInv, TypeOK', target' = target, source' = source, known' = known,
         doubt' = {} => doubt = {} /\ KeptLength' <= KeptLength
  PROVE  KeptIsKnown'
<1>1. KeptLength \in Nat /\ KeptLength' \in Nat
  BY KeptType DEF IInv, TypeOK, KeptLength, Progress
<1> SUFFICES ASSUME doubt' = {}, NEW i \in 1..Len(target), i <= KeptLength'
             PROVE  known # Unknown /\ known <= target[i] /\ target[i] <= source
  BY DEF KeptIsKnown
<1>2. i <= KeptLength
  BY <1>1
<1> QED
  BY <1>2 DEF IInv, KeptIsKnown

-----------------------------------------------------------------------------
(* The invariant at the start, and one lemma per action.                    *)

LEMMA InitInv ==
  ASSUME Init
  PROVE  IInv
<1>a. 1 \in Version /\ 1 \in 1..MaxAttempts
  BY TransferAssumption DEF Version
<1>1. source \in Version /\ buffer \in Version /\ attempt \in 1..MaxAttempts
  BY <1>a DEF Init
<1>2. p \in Progress
  BY DEF Init, NewProgress, Progress, Errors
<1>b. <<>> \in Seq(Version) /\ Len(<<>>) = 0
  OBVIOUS
<1>3. target \in Seq(Version) /\ Len(target) = 0
  BY <1>b DEF Init
<1>4. TypeOK
  BY <1>1, <1>2, <1>3 DEF Init, TypeOK, Errors, Request
<1>5. Control
  <2>1. active = FALSE /\ at = "idle" /\ known = 0 /\ identity = 0 /\ source = 1
    BY DEF Init, Unknown
  <2> QED
    BY <2>1 DEF Control
<1>6. SuccessAtRest /\ CancelSticks /\ SuccessIsExact
  BY DEF Init, NewProgress, SuccessAtRest, Success, CancelSticks, SuccessIsExact
<1>7. Placed /\ KeptIsKnown
  <2>1. \A i \in 1..Len(target) : FALSE
    BY <1>3
  <2>2. at = "idle"
    BY DEF Init
  <2> QED
    BY <2>1, <2>2 DEF Placed, KeptIsKnown
<1>8. BufferIsKnown /\ LoadedIsKept /\ CopiedAll /\ OutcomeIsExact
  BY DEF Init, BufferIsKnown, LoadedIsKept, Copying, CopiedAll, OutcomeIsExact
<1> QED
  BY <1>4, <1>5, <1>6, <1>7, <1>8 DEF IInv

LEMMA PauseKeeps ==
  ASSUME IInv, Pause
  PROVE  IInv'
<1>1. TypeOK'
  <2>1. p' \in Progress
    BY TransferAssumption DEF Pause, files, store, run, past, IInv, TypeOK, Progress, Errors
  <2>2. target' \in Seq(Version)
    BY DEF Pause, files, store, run, past, IInv, TypeOK
  <2>3. /\ source' \in Version /\ buffer' \in Version
        /\ known' \in Version \cup {Unknown} /\ identity' \in Version \cup {Unknown}
    BY DEF Pause, files, store, run, past, IInv, TypeOK
  <2>4. attempt' \in 1..MaxAttempts /\ offset' \in Nat
    BY TransferAssumption DEF Pause, files, store, run, past, IInv, TypeOK, Progress, Least
  <2>5. /\ at' \in Stages \cup {"idle", "verify", "finish", "backoff", "wait"} /\ err' \in Errors
        /\ doubt' \subseteq {"unidentified", "unchecked"} /\ pending' \subseteq Request
    BY DEF Pause, files, store, run, past, IInv, TypeOK, Stages, Errors, Request
  <2>6. {active', resume', changed', cancelled', asleep'} \subseteq BOOLEAN
    BY DEF Pause, files, store, run, past, IInv, TypeOK, Progress
  <2> QED
    BY <2>1, <2>2, <2>3, <2>4, <2>5, <2>6 DEF TypeOK
<1>2. Control'
  BY TransferAssumption DEF Pause, files, store, run, past, IInv, TypeOK, Control, Version, Unknown
<1>3. SuccessAtRest'
  BY TransferAssumption DEF Pause, files, store, run, past, IInv, TypeOK, Progress, Errors,
    SuccessAtRest, Success, Control, CancelSticks
<1>4. CancelSticks'
  BY TransferAssumption DEF Pause, files, store, run, past, IInv, TypeOK, Progress, Errors,
    CancelSticks
<1>5. Placed'
  BY TransferAssumption DEF Pause, files, store, run, past, IInv, TypeOK, Placed, Version
<1>6. KeptIsKnown'
  <2>1. target' = target /\ source' = source /\ known' = known
    BY DEF Pause, files, store, run, past
  <2>2. doubt' = {} => doubt = {} /\ KeptLength' <= KeptLength
    BY <1>1 DEF Pause, files, store, run, past, IInv, TypeOK, Progress, LoadedIsKept, KeptLength,
      Copying
  <2> QED
    BY <1>1, <2>1, <2>2, KeptShrinks
<1>7. BufferIsKnown'
  BY TransferAssumption DEF Pause, files, store, run, past, IInv, TypeOK, Control, BufferIsKnown,
    Version, Unknown
<1>8. LoadedIsKept'
  BY TransferAssumption DEF Pause, files, store, run, past, IInv, TypeOK, Progress, Version,
    Control, LoadedIsKept, Copying, Least, Most, Unknown
<1>9. CopiedAll'
  BY TransferAssumption DEF Pause, files, store, run, past, IInv, TypeOK, Control, CopiedAll,
    Version, Unknown
<1>10. OutcomeIsExact'
  BY TransferAssumption DEF Pause, files, store, run, past, IInv, TypeOK, OutcomeIsExact
<1>11. SuccessIsExact'
  <2>1. UNCHANGED target /\ doubt' = doubt /\ (Success' => Success)
    BY DEF Pause, files, store, run, past, IInv, TypeOK, Progress, Success
  <2> QED
    BY <2>1 DEF IInv, SuccessIsExact, Intact
<1> QED
  BY <1>1, <1>2, <1>3, <1>4, <1>5, <1>6, <1>7, <1>8, <1>9, <1>10, <1>11 DEF IInv

LEMMA ResumeKeeps ==
  ASSUME IInv, Resume
  PROVE  IInv'
<1>1. TypeOK'
  <2>1. p' \in Progress
    BY TransferAssumption DEF Resume, files, store, run, past, IInv, TypeOK, Progress, Errors
  <2>2. target' \in Seq(Version)
    BY DEF Resume, files, store, run, past, IInv, TypeOK
  <2>3. /\ source' \in Version /\ buffer' \in Version
        /\ known' \in Version \cup {Unknown} /\ identity' \in Version \cup {Unknown}
    BY DEF Resume, files, store, run, past, IInv, TypeOK
  <2>4. attempt' \in 1..MaxAttempts /\ offset' \in Nat
    BY TransferAssumption DEF Resume, files, store, run, past, IInv, TypeOK, Progress, Least
  <2>5. /\ at' \in Stages \cup {"idle", "verify", "finish", "backoff", "wait"} /\ err' \in Errors
        /\ doubt' \subseteq {"unidentified", "unchecked"} /\ pending' \subseteq Request
    BY DEF Resume, files, store, run, past, IInv, TypeOK, Stages, Errors, Request
  <2>6. {active', resume', changed', cancelled', asleep'} \subseteq BOOLEAN
    BY DEF Resume, Broadcast, files, store, run, past, IInv, TypeOK, Progress
  <2> QED
    BY <2>1, <2>2, <2>3, <2>4, <2>5, <2>6 DEF TypeOK
<1>2. Control'
  BY TransferAssumption DEF Resume, files, store, run, past, IInv, TypeOK, Control, Version, Unknown
<1>3. SuccessAtRest'
  BY TransferAssumption DEF Resume, files, store, run, past, IInv, TypeOK, Progress, Errors,
    SuccessAtRest, Success, Control, CancelSticks
<1>4. CancelSticks'
  BY TransferAssumption DEF Resume, files, store, run, past, IInv, TypeOK, Progress, Errors,
    CancelSticks
<1>5. Placed'
  BY TransferAssumption DEF Resume, files, store, run, past, IInv, TypeOK, Placed, Version
<1>6. KeptIsKnown'
  <2>1. target' = target /\ source' = source /\ known' = known
    BY DEF Resume, files, store, run, past
  <2>2. doubt' = {} => doubt = {} /\ KeptLength' <= KeptLength
    BY <1>1 DEF Resume, files, store, run, past, IInv, TypeOK, Progress, LoadedIsKept,
      KeptLength, Copying
  <2> QED
    BY <1>1, <2>1, <2>2, KeptShrinks
<1>7. BufferIsKnown'
  BY TransferAssumption DEF Resume, files, store, run, past, IInv, TypeOK, Control,
    BufferIsKnown, Version, Unknown
<1>8. LoadedIsKept'
  BY TransferAssumption DEF Resume, files, store, run, past, IInv, TypeOK, Progress, Version,
    Control, LoadedIsKept, Copying, Least, Most, Unknown
<1>9. CopiedAll'
  BY TransferAssumption DEF Resume, files, store, run, past, IInv, TypeOK, Control, CopiedAll,
    Version, Unknown
<1>10. OutcomeIsExact'
  BY TransferAssumption DEF Resume, files, store, run, past, IInv, TypeOK, OutcomeIsExact
<1>11. SuccessIsExact'
  <2>1. UNCHANGED target /\ doubt' = doubt /\ (Success' => Success)
    BY DEF Resume, files, store, run, past, IInv, TypeOK, Progress, Success
  <2> QED
    BY <2>1 DEF IInv, SuccessIsExact, Intact
<1> QED
  BY <1>1, <1>2, <1>3, <1>4, <1>5, <1>6, <1>7, <1>8, <1>9, <1>10, <1>11 DEF IInv

LEMMA CancelKeeps ==
  ASSUME IInv, Cancel
  PROVE  IInv'
<1>1. TypeOK'
  <2>1. p' \in Progress
    BY TransferAssumption DEF Cancel, files, store, run, past, IInv, TypeOK, Progress, Errors
  <2>2. target' \in Seq(Version)
    BY DEF Cancel, files, store, run, past, IInv, TypeOK
  <2>3. /\ source' \in Version /\ buffer' \in Version
        /\ known' \in Version \cup {Unknown} /\ identity' \in Version \cup {Unknown}
    BY DEF Cancel, files, store, run, past, IInv, TypeOK
  <2>4. attempt' \in 1..MaxAttempts /\ offset' \in Nat
    BY TransferAssumption DEF Cancel, files, store, run, past, IInv, TypeOK, Progress, Least
  <2>5. /\ at' \in Stages \cup {"idle", "verify", "finish", "backoff", "wait"} /\ err' \in Errors
        /\ doubt' \subseteq {"unidentified", "unchecked"} /\ pending' \subseteq Request
    BY DEF Cancel, files, store, run, past, IInv, TypeOK, Stages, Errors, Request
  <2>6. {active', resume', changed', cancelled', asleep'} \subseteq BOOLEAN
    BY DEF Cancel, Broadcast, files, store, run, past, IInv, TypeOK, Progress
  <2> QED
    BY <2>1, <2>2, <2>3, <2>4, <2>5, <2>6 DEF TypeOK
<1>2. Control'
  BY TransferAssumption DEF Cancel, files, store, run, past, IInv, TypeOK, Control, Version, Unknown
<1>3. SuccessAtRest'
  BY TransferAssumption DEF Cancel, files, store, run, past, IInv, TypeOK, Progress, Errors,
    SuccessAtRest, Success, Control, CancelSticks
<1>4. CancelSticks'
  BY TransferAssumption DEF Cancel, files, store, run, past, IInv, TypeOK, Progress, Errors,
    CancelSticks
<1>5. Placed'
  BY TransferAssumption DEF Cancel, files, store, run, past, IInv, TypeOK, Placed, Version
<1>6. KeptIsKnown'
  <2>1. target' = target /\ source' = source /\ known' = known
    BY DEF Cancel, files, store, run, past
  <2>2. doubt' = {} => doubt = {} /\ KeptLength' <= KeptLength
    BY <1>1 DEF Cancel, files, store, run, past, IInv, TypeOK, Progress, LoadedIsKept,
      KeptLength, Copying
  <2> QED
    BY <1>1, <2>1, <2>2, KeptShrinks
<1>7. BufferIsKnown'
  BY TransferAssumption DEF Cancel, files, store, run, past, IInv, TypeOK, Control,
    BufferIsKnown, Version, Unknown
<1>8. LoadedIsKept'
  BY TransferAssumption DEF Cancel, files, store, run, past, IInv, TypeOK, Progress, Version,
    Control, LoadedIsKept, Copying, Least, Most, Unknown
<1>9. CopiedAll'
  BY TransferAssumption DEF Cancel, files, store, run, past, IInv, TypeOK, Control, CopiedAll,
    Version, Unknown
<1>10. OutcomeIsExact'
  BY TransferAssumption DEF Cancel, files, store, run, past, IInv, TypeOK, OutcomeIsExact
<1>11. SuccessIsExact'
  <2>1. ~Success'
    BY DEF Cancel, files, store, run, past, IInv, TypeOK, Progress, Success
  <2> QED
    BY <2>1 DEF SuccessIsExact
<1> QED
  BY <1>1, <1>2, <1>3, <1>4, <1>5, <1>6, <1>7, <1>8, <1>9, <1>10, <1>11 DEF IInv

LEMMA RetryKeeps ==
  ASSUME IInv, Retry
  PROVE  IInv'
<1>1. TypeOK'
  <2>1. p' \in Progress
    BY TransferAssumption DEF Retry, files, store, run, past, IInv, TypeOK, Progress, Errors
  <2>2. target' \in Seq(Version)
    BY DEF Retry, files, store, run, past, IInv, TypeOK
  <2>3. /\ source' \in Version /\ buffer' \in Version
        /\ known' \in Version \cup {Unknown} /\ identity' \in Version \cup {Unknown}
    BY DEF Retry, files, store, run, past, IInv, TypeOK
  <2>4. attempt' \in 1..MaxAttempts /\ offset' \in Nat
    BY TransferAssumption DEF Retry, files, store, run, past, IInv, TypeOK, Progress, Least
  <2>5. /\ at' \in Stages \cup {"idle", "verify", "finish", "backoff", "wait"} /\ err' \in Errors
        /\ doubt' \subseteq {"unidentified", "unchecked"} /\ pending' \subseteq Request
    BY DEF Retry, files, store, run, past, IInv, TypeOK, Stages, Errors, Request
  <2>6. {active', resume', changed', cancelled', asleep'} \subseteq BOOLEAN
    BY DEF Retry, files, store, run, past, IInv, TypeOK, Progress
  <2> QED
    BY <2>1, <2>2, <2>3, <2>4, <2>5, <2>6 DEF TypeOK
<1>2. Control'
  BY TransferAssumption DEF Retry, files, store, run, past, IInv, TypeOK, Control, Version, Unknown
<1>3. SuccessAtRest'
  BY TransferAssumption DEF Retry, files, store, run, past, IInv, TypeOK, Progress, Errors,
    SuccessAtRest, Success, Control, CancelSticks
<1>4. CancelSticks'
  BY TransferAssumption DEF Retry, files, store, run, past, IInv, TypeOK, Progress, Errors,
    CancelSticks
<1>5. Placed'
  BY TransferAssumption DEF Retry, files, store, run, past, IInv, TypeOK, Placed, Version
<1>6. KeptIsKnown'
  <2>1. target' = target /\ source' = source /\ known' = known
    BY DEF Retry, files, store, run, past
  <2>2. at = "idle" /\ at' = "idle" /\ p'.loaded = p.loaded /\ doubt' = doubt
    BY DEF Retry, run, IInv, TypeOK, Progress, Control
  <2>3. KeptLength' = KeptLength
    BY <2>2 DEF KeptLength, Copying
  <2>4. doubt' = {} => doubt = {} /\ KeptLength' <= KeptLength
    BY <2>2, <2>3, KeptType DEF IInv
  <2> QED
    BY <1>1, <2>1, <2>4, KeptShrinks
<1>7. BufferIsKnown'
  BY TransferAssumption DEF Retry, files, store, run, past, IInv, TypeOK, Control, BufferIsKnown,
    Version, Unknown
<1>8. LoadedIsKept'
  BY TransferAssumption DEF Retry, files, store, run, past, IInv, TypeOK, Progress, Version,
    Control, LoadedIsKept, Copying, Least, Most, Unknown
<1>9. CopiedAll'
  BY TransferAssumption DEF Retry, files, store, run, past, IInv, TypeOK, Control, CopiedAll,
    Version, Unknown
<1>10. OutcomeIsExact'
  BY TransferAssumption DEF Retry, files, store, run, past, IInv, TypeOK, OutcomeIsExact
<1>11. SuccessIsExact'
  <2>1. ~Success'
    BY DEF Retry, files, store, run, past, IInv, TypeOK, Progress, Success
  <2> QED
    BY <2>1 DEF SuccessIsExact
<1> QED
  BY <1>1, <1>2, <1>3, <1>4, <1>5, <1>6, <1>7, <1>8, <1>9, <1>10, <1>11 DEF IInv

\* Only a request was taken away.
LEMMA PendingTaken ==
  ASSUME IInv, pending' \subseteq pending, UNCHANGED <<files, store, run, past>>
  PROVE  IInv'
<1>1. TypeOK'
  BY DEF files, store, run, past, IInv, TypeOK
<1>2. /\ UNCHANGED <<source, target, p, active, identity, at, resume, attempt, offset, known, buffer>>
      /\ UNCHANGED <<err, changed, doubt, cancelled>>
  BY DEF files, store, run, past
<1>3. Control' /\ SuccessAtRest' /\ CancelSticks' /\ SuccessIsExact'
  BY <1>2 DEF IInv, Control, SuccessAtRest, CancelSticks, SuccessIsExact, Success, Intact, Whole
<1>4. Placed' /\ KeptIsKnown'
  BY <1>2 DEF IInv, Placed, KeptIsKnown, KeptLength, Copying
<1>5. BufferIsKnown' /\ LoadedIsKept' /\ CopiedAll' /\ OutcomeIsExact'
  BY <1>2 DEF IInv, BufferIsKnown, LoadedIsKept, Copying, CopiedAll, OutcomeIsExact, Whole
<1> QED
  BY <1>1, <1>3, <1>4, <1>5 DEF IInv

LEMMA BeginKeeps ==
  ASSUME IInv, NEW q \in Request, Begin(q)
  PROVE  IInv'
<1>1. CASE active
  BY <1>1, PendingTaken DEF Begin
<1>2. CASE ~active
  <2> DEFINE start == IF q = "retry" /\ ~p.cancelled THEN p.loaded ELSE 0
  <2>1. /\ at = "idle" /\ active' = TRUE /\ p' = NewProgress(start)
        /\ offset' = start /\ known' = identity /\ resume' = (q = "retry") /\ attempt' = 1
        /\ at' = "stat" /\ changed' = FALSE /\ pending' = pending \ {q}
        /\ doubt' = IF start = 0 THEN {}
                    ELSE IF identity = Unknown THEN doubt \cup {"unidentified"} ELSE doubt
        /\ UNCHANGED <<source, target, identity, buffer, err, asleep, cancelled>>
    BY <1>2 DEF Begin, Goto, files, IInv, Control
  <2>2. start \in Nat /\ (q = "fresh" => start = 0) /\ (start # 0 => start = p.loaded)
    BY DEF IInv, TypeOK, Progress
  <2> HIDE DEF start
  <2>3. p' \in Progress /\ p'.loaded = start /\ ~p'.done /\ ~p'.cancelled
    BY <2>1, <2>2 DEF NewProgress, Progress, Errors
  <2>4. TypeOK'
    <3>1. 1 \in 1..MaxAttempts
      BY TransferAssumption
    <3> QED
      BY <2>1, <2>2, <2>3, <3>1 DEF IInv, TypeOK, Stages
  <2>5. Control'
    BY <2>1, <2>2 DEF IInv, Control, Request
  <2>6. SuccessAtRest' /\ CancelSticks' /\ SuccessIsExact'
    BY <2>3 DEF SuccessAtRest, CancelSticks, SuccessIsExact, Success
  <2>7. Placed' /\ BufferIsKnown' /\ CopiedAll' /\ OutcomeIsExact'
    BY <2>1 DEF IInv, Placed, BufferIsKnown, CopiedAll, OutcomeIsExact
  <2>8. LoadedIsKept'
    BY <2>1, <2>3 DEF LoadedIsKept, Copying
  <2>9. KeptIsKnown'
    <3>1. KeptLength' = start /\ known' = known
      <4>1. KeptLength' = offset'
        BY <2>1 DEF KeptLength, Copying
      <4> QED
        BY <2>1, <4>1 DEF IInv, Control
    <3>2. CASE start = 0
      BY <2>1, <3>1, <3>2 DEF KeptIsKnown, IInv, TypeOK
    <3>3. CASE start # 0
      <4>1. KeptLength = start /\ (doubt' = {} => doubt = {})
        BY <2>1, <2>2, <3>3 DEF KeptLength, Copying
      <4> QED
        BY <2>1, <2>2, <2>4, <3>1, <4>1, KeptShrinks
    <3> QED
      BY <3>2, <3>3
  <2> QED
    BY <2>4, <2>5, <2>6, <2>7, <2>8, <2>9 DEF IInv
<1> QED
  BY <1>1, <1>2

\* What the first Stat changes unless it stops the run.
LEMMA StatGoesOn ==
  ASSUME TypeOK, StatSource, at' = "size"
  PROVE  /\ StartsAgain => offset' = 0 /\ p' = SetTotal(SetLoaded(p, 0), FileSize[source]) /\ attempt = 1
         /\ ~StartsAgain => offset' = offset /\ p' = SetTotal(p, FileSize[source])
         /\ attempt = 1 => known' = source
         /\ attempt # 1 => known' = known
         /\ attempt # 1 /\ known # Unknown => known = source
         /\ ~StartsAgain => doubt \subseteq doubt'
         /\ attempt # 1 /\ known = Unknown => "unidentified" \in doubt'
<1>1. attempt \in Nat /\ (attempt # 1 => attempt > 1)
  BY TransferAssumption DEF TypeOK
<1>2. ~(attempt > 1 /\ known # Unknown /\ known # source)
  BY DEF StatSource, Ends, Goto
<1>3. /\ known' = IF attempt = 1 THEN source ELSE known
      /\ offset' = IF StartsAgain THEN 0 ELSE offset
      /\ p' = SetTotal(IF StartsAgain THEN SetLoaded(p, 0) ELSE p, FileSize[source])
  BY <1>2 DEF StatSource
<1>4. doubt' = IF StartsAgain THEN {}
               ELSE IF attempt > 1 /\ known = Unknown THEN doubt \cup {"unidentified"} ELSE doubt
  BY <1>2 DEF StatSource
<1>5. StartsAgain => attempt = 1
  BY DEF StartsAgain
<1>6. /\ ~StartsAgain => doubt \subseteq doubt'
      /\ attempt # 1 /\ known = Unknown => "unidentified" \in doubt'
  BY <1>1, <1>4, <1>5
<1> QED
  BY <1>1, <1>2, <1>3, <1>5, <1>6

LEMMA StatSourceKeeps ==
  ASSUME IInv, StatSource
  PROVE  IInv'
<1>1. TypeOK'
  <2>1. p' \in Progress
    <3> DEFINE q == IF StartsAgain THEN SetLoaded(p, 0) ELSE p
    <3>1. p \in Progress /\ FileSize[source] \in Nat /\ (p' = p \/ p' = SetTotal(q, FileSize[source]))
      BY Numbers DEF StatSource, Goto, Ends, IInv, TypeOK
    <3>2. q \in Progress
      BY <3>1 DEF SetLoaded, Most, Progress
    <3> HIDE DEF q
    <3>3. Least(q.loaded, FileSize[source]) \in Nat
      BY <3>1, <3>2 DEF Least, Progress
    <3>4. SetTotal(q, FileSize[source]) \in Progress
      BY <3>1, <3>2, <3>3 DEF SetTotal, Progress
    <3> QED
      BY <3>1, <3>4
  <2>2. target' \in Seq(Version)
    BY DEF StatSource, Goto, Ends, StartsAgain, SetTotal, SetLoaded, files, store, run, past,
      IInv, TypeOK
  <2>3. /\ source' \in Version /\ buffer' \in Version
        /\ known' \in Version \cup {Unknown} /\ identity' \in Version \cup {Unknown}
    BY DEF StatSource, Goto, Ends, StartsAgain, SetTotal, SetLoaded, files, store, run, past,
      IInv, TypeOK
  <2>4. attempt' \in 1..MaxAttempts /\ offset' \in Nat
    BY TransferAssumption DEF StatSource, Goto, Ends, StartsAgain, SetTotal, SetLoaded, files,
      store, run, past, IInv, TypeOK, Progress, Least
  <2>5. /\ at' \in Stages \cup {"idle", "verify", "finish", "backoff", "wait"} /\ err' \in Errors
        /\ doubt' \subseteq {"unidentified", "unchecked"} /\ pending' \subseteq Request
    BY DEF StatSource, Goto, Ends, StartsAgain, SetTotal, SetLoaded, files, store, run, past,
      IInv, TypeOK, Stages, Errors, Request
  <2>6. {active', resume', changed', cancelled', asleep'} \subseteq BOOLEAN
    BY DEF StatSource, Goto, Ends, StartsAgain, SetTotal, SetLoaded, files, store, run, past,
      IInv, TypeOK, Progress
  <2> QED
    BY <2>1, <2>2, <2>3, <2>4, <2>5, <2>6 DEF TypeOK
<1>2. Control'
  BY TransferAssumption DEF StatSource, Goto, Ends, StartsAgain, SetTotal, SetLoaded, files,
    store, run, past, IInv, TypeOK, Control, Version, Unknown
<1>3. SuccessAtRest'
  BY TransferAssumption DEF StatSource, Goto, Ends, StartsAgain, SetTotal, SetLoaded, files,
    store, run, past, IInv, TypeOK, Progress, Errors, SuccessAtRest, Success, Control, CancelSticks
<1>4. CancelSticks'
  BY TransferAssumption DEF StatSource, Goto, Ends, StartsAgain, SetTotal, SetLoaded, files,
    store, run, past, IInv, TypeOK, Progress, Errors, CancelSticks
<1>5. Placed'
  BY TransferAssumption DEF StatSource, Goto, Ends, StartsAgain, SetTotal, SetLoaded, files,
    store, run, past, IInv, TypeOK, Placed, Version
<1>6. KeptIsKnown'
  <2>1. KeptLength = offset /\ p.loaded = offset /\ offset \in Nat
    BY DEF StatSource, IInv, TypeOK, KeptLength, Copying, LoadedIsKept
  <2>2. CASE at' = "finish"
    <3>1. UNCHANGED <<target, source, known, doubt, p>>
      BY <2>2 DEF StatSource, Goto, Ends, files
    <3>2. KeptLength' = p.loaded
      BY <2>2, <3>1 DEF KeptLength, Copying
    <3> QED
      BY <1>1, <2>1, <3>1, <3>2, KeptShrinks
  <2>3. CASE at' = "size"
    <3>1. UNCHANGED <<target, source>>
      BY DEF StatSource, files
    <3>a. KeptLength' = offset'
      BY <2>3 DEF KeptLength, Copying
    <3>2. CASE StartsAgain
      <4>1. offset' = 0
        BY <2>3, <3>2, StatGoesOn DEF IInv
      <4> QED
        BY <3>1, <3>a, <4>1 DEF KeptIsKnown, IInv, TypeOK
    <3>3. CASE ~StartsAgain
      <4>1. /\ offset' = offset /\ doubt \subseteq doubt'
            /\ known' = known \/ (attempt = 1 /\ known' = source)
        <5>1. TypeOK
          BY DEF IInv
        <5>2. offset' = offset /\ doubt \subseteq doubt'
          BY <2>3, <3>3, <5>1, StatGoesOn
        <5>3. known' = known \/ (attempt = 1 /\ known' = source)
          BY <2>3, <5>1, StatGoesOn
        <5> QED
          BY <5>2, <5>3
      <4>2. CASE known' = known
        BY <1>1, <2>1, <3>1, <3>a, <4>1, <4>2, KeptShrinks
      <4>3. CASE attempt = 1 /\ known' = source /\ known = Unknown
        BY <2>1, <3>1, <3>a, <4>1, <4>3 DEF IInv, TypeOK, KeptIsKnown
      <4>4. CASE attempt = 1 /\ known' = source /\ known # Unknown /\ known # source
        <5>1. offset = 0
          BY <3>3, <4>4 DEF StatSource, StartsAgain, IInv, TypeOK, Control
        <5> QED
          BY <3>1, <3>a, <4>1, <5>1 DEF KeptIsKnown, IInv, TypeOK
      <4> QED
        BY <4>1, <4>2, <4>3, <4>4
    <3> QED
      BY <3>2, <3>3
  <2> QED
    BY <2>2, <2>3 DEF StatSource, Goto, Ends
<1>7. BufferIsKnown'
  BY TransferAssumption DEF StatSource, Goto, Ends, StartsAgain, SetTotal, SetLoaded, files,
    store, run, past, IInv, TypeOK, Control, BufferIsKnown, Version, Unknown
<1>8. LoadedIsKept'
  <2>1. CASE at' # "size"
    BY <2>1 DEF StatSource, Goto, Ends, LoadedIsKept, Copying
  <2>2. CASE at' = "size"
    <3> DEFINE m == Least(offset, Len(target))
    <3>1. /\ p.loaded = offset /\ TypeOK /\ UNCHANGED <<source, target>>
          /\ offset \in Nat /\ Len(target) \in Nat /\ FileSize[source] \in Nat
          /\ source \in Nat /\ source # Unknown
      BY Numbers DEF StatSource, files, IInv, LoadedIsKept, Version, Unknown
    <3>2. CASE StartsAgain
      <4>1. offset' = 0 /\ p' = SetTotal(SetLoaded(p, 0), FileSize[source]) /\ known' # Unknown
        BY <2>2, <3>1, <3>2, StatGoesOn
      <4>2. p'.loaded = 0
        BY <3>1, <4>1 DEF SetTotal, SetLoaded, Least, TypeOK, Progress
      <4>3. Least(0, Len(target)) = 0
        BY <3>1 DEF Least
      <4> QED
        BY <2>2, <3>1, <4>1, <4>2, <4>3 DEF LoadedIsKept, Copying
    <3>3. CASE ~StartsAgain
      <4>1. offset' = offset /\ p' = SetTotal(p, FileSize[source])
        BY <2>2, <3>1, <3>3, StatGoesOn
      <4>2. p'.loaded = IF FileSize[source] = 0 THEN offset ELSE Least(offset, FileSize[source])
        BY <3>1, <4>1 DEF SetTotal, TypeOK, Progress
      <4>3. ASSUME doubt' = {}
            PROVE  known' = source /\ m <= FileSize[source]
        <5>1. known' = source
          BY <2>2, <3>1, <4>3, StatGoesOn
        <5>2. KeptLength' = offset
          BY <2>2, <4>1 DEF KeptLength, Copying
        <5>3. m \in Nat /\ m <= offset /\ m <= Len(target)
          BY <3>1 DEF Least
        <5> HIDE DEF m
        <5>4. CASE m = 0
          BY <3>1, <5>1, <5>4
        <5>5. CASE m # 0
          <6>1. m \in 1..Len(target) /\ m <= KeptLength' /\ source' = source
            BY <3>1, <5>2, <5>3, <5>5
          <6>2. source <= target[m] /\ target[m] <= source
            BY <1>6, <3>1, <4>3, <5>1, <6>1 DEF KeptIsKnown
          <6>3. target[m] = source
            BY <3>1, <6>1, <6>2, Numbers
          <6> QED
            BY <5>1, <6>1, <6>3 DEF IInv, Placed
        <5> QED
          BY <5>4, <5>5
      <4>4. m \in Nat /\ p'.loaded <= offset /\ (m <= FileSize[source] => m <= p'.loaded)
        BY <3>1, <4>2 DEF Least
      <4>5. doubt' = {} => known' # Unknown /\ m <= p'.loaded
        BY <3>1, <4>3, <4>4
      <4> QED
        BY <2>2, <3>1, <4>1, <4>4, <4>5 DEF LoadedIsKept, Copying
    <3> QED
      BY <3>2, <3>3
  <2> QED
    BY <2>1, <2>2
<1>9. CopiedAll'
  BY TransferAssumption DEF StatSource, Goto, Ends, StartsAgain, SetTotal, SetLoaded, files,
    store, run, past, IInv, TypeOK, Control, CopiedAll, Version, Unknown
<1>10. OutcomeIsExact'
  BY TransferAssumption DEF StatSource, Goto, Ends, StartsAgain, SetTotal, SetLoaded, files,
    store, run, past, IInv, TypeOK, OutcomeIsExact
<1>11. SuccessIsExact'
  <2>1. at' # "idle"
    BY DEF StatSource, Goto, Ends, StartsAgain, SetTotal, SetLoaded, files, store, run, past,
      IInv, TypeOK, Control, Stages
  <2> QED
    BY <1>3, <2>1 DEF SuccessIsExact, SuccessAtRest
<1> QED
  BY <1>1, <1>2, <1>3, <1>4, <1>5, <1>6, <1>7, <1>8, <1>9, <1>10, <1>11 DEF IInv

LEMMA ResolveTargetOffsetKeeps ==
  ASSUME IInv, ResolveTargetOffset
  PROVE  IInv'
<1>1. TypeOK'
  <2>1. p' \in Progress
    <3>1. p \in Progress /\ TargetOffset \in Nat /\ (p' = p \/ p' = SetLoaded(p, TargetOffset))
      BY Numbers DEF ResolveTargetOffset, Corrected, TargetOffset, Least, IInv, TypeOK
    <3> QED
      BY <3>1 DEF SetLoaded, Most, Progress
  <2>2. target' \in Seq(Version)
    BY DEF ResolveTargetOffset, Goto, TargetOffset, Corrected, SetLoaded, files, store, run,
      past, IInv, TypeOK
  <2>3. /\ source' \in Version /\ buffer' \in Version
        /\ known' \in Version \cup {Unknown} /\ identity' \in Version \cup {Unknown}
    BY DEF ResolveTargetOffset, Goto, TargetOffset, Corrected, SetLoaded, files, store, run,
      past, IInv, TypeOK
  <2>4. attempt' \in 1..MaxAttempts /\ offset' \in Nat
    BY TransferAssumption DEF ResolveTargetOffset, Goto, TargetOffset, Corrected, SetLoaded,
      files, store, run, past, IInv, TypeOK, Progress, Least
  <2>5. /\ at' \in Stages \cup {"idle", "verify", "finish", "backoff", "wait"} /\ err' \in Errors
        /\ doubt' \subseteq {"unidentified", "unchecked"} /\ pending' \subseteq Request
    BY DEF ResolveTargetOffset, Goto, TargetOffset, Corrected, SetLoaded, files, store, run,
      past, IInv, TypeOK, Stages, Errors, Request
  <2>6. {active', resume', changed', cancelled', asleep'} \subseteq BOOLEAN
    BY DEF ResolveTargetOffset, Goto, TargetOffset, Corrected, SetLoaded, files, store, run,
      past, IInv, TypeOK, Progress
  <2> QED
    BY <2>1, <2>2, <2>3, <2>4, <2>5, <2>6 DEF TypeOK
<1>2. Control'
  BY TransferAssumption DEF ResolveTargetOffset, Goto, TargetOffset, Corrected, SetLoaded, files,
    store, run, past, IInv, TypeOK, Control, Version, Unknown
<1>3. SuccessAtRest'
  BY TransferAssumption DEF ResolveTargetOffset, Goto, TargetOffset, Corrected, SetLoaded, files,
    store, run, past, IInv, TypeOK, Progress, Errors, SuccessAtRest, Success, Control, CancelSticks
<1>4. CancelSticks'
  BY TransferAssumption DEF ResolveTargetOffset, Goto, TargetOffset, Corrected, SetLoaded, files,
    store, run, past, IInv, TypeOK, Progress, Errors, CancelSticks
<1>5. Placed'
  BY TransferAssumption DEF ResolveTargetOffset, Goto, TargetOffset, Corrected, SetLoaded, files,
    store, run, past, IInv, TypeOK, Placed, Version
<1>6. KeptIsKnown'
  <2>1. target' = target /\ source' = source /\ known' = known
    BY DEF ResolveTargetOffset, Goto, TargetOffset, Corrected, SetLoaded, files, store, run, past
  <2>2. doubt' = {} => doubt = {} /\ KeptLength' <= KeptLength
    BY <1>1 DEF ResolveTargetOffset, Goto, TargetOffset, Corrected, SetLoaded, files, store, run,
      past, IInv, TypeOK, Progress, LoadedIsKept, KeptLength, Copying
  <2> QED
    BY <1>1, <2>1, <2>2, KeptShrinks
<1>7. BufferIsKnown'
  BY TransferAssumption DEF ResolveTargetOffset, Goto, TargetOffset, Corrected, SetLoaded, files,
    store, run, past, IInv, TypeOK, Control, BufferIsKnown, Version, Unknown
<1>8. LoadedIsKept'
  <2>1. /\ at = "size" /\ at' = "open" /\ offset' = TargetOffset /\ p' = Corrected
        /\ UNCHANGED <<target, known, doubt>>
    BY DEF ResolveTargetOffset, Goto, files, past
  <2>2. /\ p.loaded <= offset /\ (doubt = {} => TargetOffset <= p.loaded)
        /\ p.loaded \in Nat /\ offset \in Nat /\ Len(target) \in Nat /\ p \in Progress
    BY <2>1, Numbers DEF IInv, TypeOK, LoadedIsKept, TargetOffset
  <2>3. TargetOffset \in Nat /\ TargetOffset <= offset /\ TargetOffset <= Len(target)
    BY <2>2 DEF TargetOffset, Least
  <2>4. p'.loaded = IF 0 < offset /\ TargetOffset < p.loaded THEN TargetOffset ELSE p.loaded
    BY <2>1, <2>2, <2>3 DEF Corrected, SetLoaded, Progress
  <2>5. p'.loaded <= TargetOffset /\ (doubt = {} => p'.loaded = TargetOffset)
    BY <2>2, <2>3, <2>4
  <2>6. doubt = {} => known # Unknown
    BY <2>1 DEF IInv, LoadedIsKept
  <2> QED
    BY <2>1, <2>3, <2>5, <2>6 DEF LoadedIsKept, Copying
<1>9. CopiedAll'
  BY TransferAssumption DEF ResolveTargetOffset, Goto, TargetOffset, Corrected, SetLoaded, files,
    store, run, past, IInv, TypeOK, Control, CopiedAll, Version, Unknown
<1>10. OutcomeIsExact'
  BY TransferAssumption DEF ResolveTargetOffset, Goto, TargetOffset, Corrected, SetLoaded, files,
    store, run, past, IInv, TypeOK, OutcomeIsExact
<1>11. SuccessIsExact'
  <2>1. at' # "idle"
    BY DEF ResolveTargetOffset, Goto, TargetOffset, Corrected, SetLoaded, files, store, run,
      past, IInv, TypeOK, Control, Stages
  <2> QED
    BY <1>3, <2>1 DEF SuccessIsExact, SuccessAtRest
<1> QED
  BY <1>1, <1>2, <1>3, <1>4, <1>5, <1>6, <1>7, <1>8, <1>9, <1>10, <1>11 DEF IInv

LEMMA OpenBothKeeps ==
  ASSUME IInv, OpenBoth
  PROVE  IInv'
<1>a. /\ at = "open" /\ at' = "read" /\ target' = SubSeq(target, 1, offset) /\ offset \in 0..Len(target)
      /\ UNCHANGED <<source, known, doubt, p>>
  BY DEF OpenBoth, Goto, store, past, IInv, TypeOK, LoadedIsKept
<1>b. /\ target' \in Seq(Version) /\ Len(target') = offset
      /\ \A i \in 1..Len(target') : i \in 1..Len(target) /\ target'[i] = target[i]
  BY <1>a, CutFile DEF IInv, TypeOK
<1>1. TypeOK'
  <2>1. p' \in Progress
    BY TransferAssumption DEF OpenBoth, Goto, files, store, run, past, IInv, TypeOK, Progress,
      Errors
  <2>2. target' \in Seq(Version)
    BY <1>b
  <2>3. /\ source' \in Version /\ buffer' \in Version
        /\ known' \in Version \cup {Unknown} /\ identity' \in Version \cup {Unknown}
    BY DEF OpenBoth, Goto, files, store, run, past, IInv, TypeOK
  <2>4. attempt' \in 1..MaxAttempts /\ offset' \in Nat
    BY TransferAssumption DEF OpenBoth, Goto, files, store, run, past, IInv, TypeOK, Progress, Least
  <2>5. /\ at' \in Stages \cup {"idle", "verify", "finish", "backoff", "wait"} /\ err' \in Errors
        /\ doubt' \subseteq {"unidentified", "unchecked"} /\ pending' \subseteq Request
    BY DEF OpenBoth, Goto, files, store, run, past, IInv, TypeOK, Stages, Errors, Request
  <2>6. {active', resume', changed', cancelled', asleep'} \subseteq BOOLEAN
    BY DEF OpenBoth, Goto, files, store, run, past, IInv, TypeOK, Progress
  <2> QED
    BY <2>1, <2>2, <2>3, <2>4, <2>5, <2>6 DEF TypeOK
<1>2. Control'
  BY TransferAssumption DEF OpenBoth, Goto, files, store, run, past, IInv, TypeOK, Control,
    Version, Unknown
<1>3. SuccessAtRest'
  BY TransferAssumption DEF OpenBoth, Goto, files, store, run, past, IInv, TypeOK, Progress,
    Errors, SuccessAtRest, Success, Control, CancelSticks
<1>4. CancelSticks'
  BY TransferAssumption DEF OpenBoth, Goto, files, store, run, past, IInv, TypeOK, Progress,
    Errors, CancelSticks
<1>5. Placed'
  BY <1>a, <1>b DEF OpenBoth, Goto, files, store, run, past, IInv, TypeOK, Placed
<1>6. KeptIsKnown'
  BY <1>a, <1>b DEF IInv, TypeOK, KeptIsKnown, KeptLength, Copying
<1>7. BufferIsKnown'
  BY TransferAssumption DEF OpenBoth, Goto, files, store, run, past, IInv, TypeOK, Control,
    BufferIsKnown, Version, Unknown
<1>8. LoadedIsKept'
  <2>1. doubt = {} => p.loaded = offset
    BY <1>a DEF IInv, LoadedIsKept
  <2>2. doubt = {} => known # Unknown
    BY <1>a DEF IInv, LoadedIsKept
  <2>3. p.loaded <= offset
    BY <1>a DEF IInv, LoadedIsKept
  <2> QED
    BY <1>a, <1>b, <2>1, <2>2, <2>3 DEF LoadedIsKept
<1>9. CopiedAll'
  BY TransferAssumption DEF OpenBoth, Goto, files, store, run, past, IInv, TypeOK, Control,
    CopiedAll, Version, Unknown
<1>10. OutcomeIsExact'
  BY TransferAssumption DEF OpenBoth, Goto, files, store, run, past, IInv, TypeOK, OutcomeIsExact
<1>11. SuccessIsExact'
  <2>1. at' # "idle"
    BY DEF OpenBoth, Goto, files, store, run, past, IInv, TypeOK, Control, Stages
  <2> QED
    BY <1>3, <2>1 DEF SuccessIsExact, SuccessAtRest
<1> QED
  BY <1>1, <1>2, <1>3, <1>4, <1>5, <1>6, <1>7, <1>8, <1>9, <1>10, <1>11 DEF IInv

LEMMA SleepKeeps ==
  ASSUME IInv, Sleep
  PROVE  IInv'
<1>1. UNCHANGED <<files, store, pending, at, resume, attempt, offset, known, buffer, err, past>>
      /\ asleep' \in BOOLEAN
  BY DEF Sleep
<1>2. TypeOK'
  BY <1>1 DEF files, store, past, IInv, TypeOK
<1>3. Control' /\ SuccessAtRest' /\ CancelSticks' /\ Placed' /\ BufferIsKnown'
  BY <1>1 DEF files, store, past, IInv, Control, SuccessAtRest, Success, CancelSticks, Placed,
    BufferIsKnown
<1>4. KeptIsKnown' /\ LoadedIsKept' /\ CopiedAll'
  BY <1>1 DEF files, store, past, IInv, KeptIsKnown, KeptLength, LoadedIsKept, CopiedAll
<1>5. OutcomeIsExact' /\ SuccessIsExact'
  BY <1>1 DEF files, store, past, IInv, OutcomeIsExact, Whole, SuccessIsExact, Success, Intact
<1> QED
  BY <1>2, <1>3, <1>4, <1>5 DEF IInv

LEMMA ReadKeeps ==
  ASSUME IInv, Read
  PROVE  IInv'
<1>1. TypeOK'
  <2>1. p' \in Progress
    BY TransferAssumption DEF Read, Goto, Ends, Held, files, store, run, past, IInv, TypeOK,
      Progress, Errors
  <2>2. target' \in Seq(Version)
    BY DEF Read, Goto, Ends, Held, files, store, run, past, IInv, TypeOK
  <2>3. /\ source' \in Version /\ buffer' \in Version
        /\ known' \in Version \cup {Unknown} /\ identity' \in Version \cup {Unknown}
    BY DEF Read, Goto, Ends, Held, files, store, run, past, IInv, TypeOK
  <2>4. attempt' \in 1..MaxAttempts /\ offset' \in Nat
    BY TransferAssumption DEF Read, Goto, Ends, Held, files, store, run, past, IInv, TypeOK,
      Progress, Least
  <2>5. /\ at' \in Stages \cup {"idle", "verify", "finish", "backoff", "wait"} /\ err' \in Errors
        /\ doubt' \subseteq {"unidentified", "unchecked"} /\ pending' \subseteq Request
    BY DEF Read, Goto, Ends, Held, files, store, run, past, IInv, TypeOK, Stages, Errors, Request
  <2>6. {active', resume', changed', cancelled', asleep'} \subseteq BOOLEAN
    BY DEF Read, Goto, Ends, Held, files, store, run, past, IInv, TypeOK, Progress
  <2> QED
    BY <2>1, <2>2, <2>3, <2>4, <2>5, <2>6 DEF TypeOK
<1>2. Control'
  BY TransferAssumption DEF Read, Goto, Ends, Held, files, store, run, past, IInv, TypeOK,
    Control, Version, Unknown
<1>3. SuccessAtRest'
  BY TransferAssumption DEF Read, Goto, Ends, Held, files, store, run, past, IInv, TypeOK,
    Progress, Errors, SuccessAtRest, Success, Control, CancelSticks
<1>4. CancelSticks'
  BY TransferAssumption DEF Read, Goto, Ends, Held, files, store, run, past, IInv, TypeOK,
    Progress, Errors, CancelSticks
<1>5. Placed'
  BY TransferAssumption DEF Read, Goto, Ends, Held, files, store, run, past, IInv, TypeOK,
    Placed, Version
<1>6. KeptIsKnown'
  <2>1. target' = target /\ source' = source /\ known' = known
    BY DEF Read, Goto, Ends, Held, files, store, run, past
  <2>2. doubt' = {} => doubt = {} /\ KeptLength' <= KeptLength
    BY <1>1 DEF Read, Goto, Ends, Held, files, store, run, past, IInv, TypeOK, Progress,
      LoadedIsKept, KeptLength, Copying
  <2> QED
    BY <1>1, <2>1, <2>2, KeptShrinks
<1>7. BufferIsKnown'
  BY TransferAssumption DEF Read, Goto, Ends, Held, files, store, run, past, IInv, TypeOK,
    Control, BufferIsKnown, Version, Unknown
<1>8. LoadedIsKept'
  BY TransferAssumption DEF Read, Goto, Ends, Held, files, store, run, past, IInv, TypeOK,
    Progress, Version, Control, LoadedIsKept, Copying, Least, Most, Unknown
<1>9. CopiedAll'
  BY TransferAssumption DEF Read, Goto, Ends, Held, files, store, run, past, IInv, TypeOK,
    Control, CopiedAll, Version, Unknown
<1>10. OutcomeIsExact'
  BY TransferAssumption DEF Read, Goto, Ends, Held, files, store, run, past, IInv, TypeOK,
    OutcomeIsExact
<1>11. SuccessIsExact'
  <2>1. at' # "idle"
    BY DEF Read, Goto, Ends, Held, files, store, run, past, IInv, TypeOK, Control, Stages
  <2> QED
    BY <1>3, <2>1 DEF SuccessIsExact, SuccessAtRest
<1> QED
  BY <1>1, <1>2, <1>3, <1>4, <1>5, <1>6, <1>7, <1>8, <1>9, <1>10, <1>11 DEF IInv

LEMMA CheckAllowedKeeps ==
  ASSUME IInv, CheckAllowed
  PROVE  IInv'
<1>1. TypeOK'
  <2>1. p' \in Progress
    BY TransferAssumption DEF CheckAllowed, Goto, Ends, Held, files, store, run, past, IInv,
      TypeOK, Progress, Errors
  <2>2. target' \in Seq(Version)
    BY DEF CheckAllowed, Goto, Ends, Held, files, store, run, past, IInv, TypeOK
  <2>3. /\ source' \in Version /\ buffer' \in Version
        /\ known' \in Version \cup {Unknown} /\ identity' \in Version \cup {Unknown}
    BY DEF CheckAllowed, Goto, Ends, Held, files, store, run, past, IInv, TypeOK
  <2>4. attempt' \in 1..MaxAttempts /\ offset' \in Nat
    BY TransferAssumption DEF CheckAllowed, Goto, Ends, Held, files, store, run, past, IInv,
      TypeOK, Progress, Least
  <2>5. /\ at' \in Stages \cup {"idle", "verify", "finish", "backoff", "wait"} /\ err' \in Errors
        /\ doubt' \subseteq {"unidentified", "unchecked"} /\ pending' \subseteq Request
    BY DEF CheckAllowed, Goto, Ends, Held, files, store, run, past, IInv, TypeOK, Stages, Errors,
      Request
  <2>6. {active', resume', changed', cancelled', asleep'} \subseteq BOOLEAN
    BY DEF CheckAllowed, Goto, Ends, Held, files, store, run, past, IInv, TypeOK, Progress
  <2> QED
    BY <2>1, <2>2, <2>3, <2>4, <2>5, <2>6 DEF TypeOK
<1>2. Control'
  BY TransferAssumption DEF CheckAllowed, Goto, Ends, Held, files, store, run, past, IInv,
    TypeOK, Control, Version, Unknown
<1>3. SuccessAtRest'
  BY TransferAssumption DEF CheckAllowed, Goto, Ends, Held, files, store, run, past, IInv,
    TypeOK, Progress, Errors, SuccessAtRest, Success, Control, CancelSticks
<1>4. CancelSticks'
  BY TransferAssumption DEF CheckAllowed, Goto, Ends, Held, files, store, run, past, IInv,
    TypeOK, Progress, Errors, CancelSticks
<1>5. Placed'
  BY TransferAssumption DEF CheckAllowed, Goto, Ends, Held, files, store, run, past, IInv,
    TypeOK, Placed, Version
<1>6. KeptIsKnown'
  <2>1. target' = target /\ source' = source /\ known' = known
    BY DEF CheckAllowed, Goto, Ends, Held, files, store, run, past
  <2>2. doubt' = {} => doubt = {} /\ KeptLength' <= KeptLength
    BY <1>1 DEF CheckAllowed, Goto, Ends, Held, files, store, run, past, IInv, TypeOK, Progress,
      LoadedIsKept, KeptLength, Copying
  <2> QED
    BY <1>1, <2>1, <2>2, KeptShrinks
<1>7. BufferIsKnown'
  BY TransferAssumption DEF CheckAllowed, Goto, Ends, Held, files, store, run, past, IInv,
    TypeOK, Control, BufferIsKnown, Version, Unknown
<1>8. LoadedIsKept'
  BY TransferAssumption DEF CheckAllowed, Goto, Ends, Held, files, store, run, past, IInv,
    TypeOK, Progress, Version, Control, LoadedIsKept, Copying, Least, Most, Unknown
<1>9. CopiedAll'
  BY TransferAssumption DEF CheckAllowed, Goto, Ends, Held, files, store, run, past, IInv,
    TypeOK, Control, CopiedAll, Version, Unknown
<1>10. OutcomeIsExact'
  BY TransferAssumption DEF CheckAllowed, Goto, Ends, Held, files, store, run, past, IInv,
    TypeOK, OutcomeIsExact
<1>11. SuccessIsExact'
  <2>1. at' # "idle"
    BY DEF CheckAllowed, Goto, Ends, Held, files, store, run, past, IInv, TypeOK, Control, Stages
  <2> QED
    BY <1>3, <2>1 DEF SuccessIsExact, SuccessAtRest
<1> QED
  BY <1>1, <1>2, <1>3, <1>4, <1>5, <1>6, <1>7, <1>8, <1>9, <1>10, <1>11 DEF IInv

LEMMA WriteKeeps ==
  ASSUME IInv, Write
  PROVE  IInv'
<1>a. /\ at = "write" /\ at' = "read" /\ target' = Append(target, buffer) /\ p'.loaded = p.loaded + 1
      /\ UNCHANGED <<source, known, buffer, doubt>>
  BY DEF Write, Goto, Added, past, IInv, TypeOK, Progress
<1>b. /\ target' \in Seq(Version) /\ Len(target') = Len(target) + 1
      /\ \A i \in 1..Len(target) : target'[i] = target[i]
      /\ target'[Len(target) + 1] = buffer
  BY <1>a, LongerFile DEF IInv, TypeOK
<1>1. TypeOK'
  <2>1. p' \in Progress
    <3>1. p' = Added(p) /\ p \in Progress /\ p.loaded + 1 \in Nat /\ Most(p.total, p.loaded + 1) \in Nat
      BY Numbers DEF Write, Most, IInv, TypeOK
    <3> QED
      BY <3>1 DEF Added, Progress
  <2>2. target' \in Seq(Version)
    BY LongerFile DEF Write, IInv, TypeOK
  <2>3. /\ source' \in Version /\ buffer' \in Version
        /\ known' \in Version \cup {Unknown} /\ identity' \in Version \cup {Unknown}
    BY DEF Write, Goto, Added, files, store, run, past, Most, IInv, TypeOK
  <2>4. attempt' \in 1..MaxAttempts /\ offset' \in Nat
    BY TransferAssumption DEF Write, Goto, Added, files, store, run, past, Most, IInv, TypeOK,
      Progress, Least
  <2>5. /\ at' \in Stages \cup {"idle", "verify", "finish", "backoff", "wait"} /\ err' \in Errors
        /\ doubt' \subseteq {"unidentified", "unchecked"} /\ pending' \subseteq Request
    BY DEF Write, Goto, Added, files, store, run, past, Most, IInv, TypeOK, Stages, Errors, Request
  <2>6. {active', resume', changed', cancelled', asleep'} \subseteq BOOLEAN
    BY DEF Write, Goto, Added, files, store, run, past, Most, IInv, TypeOK, Progress
  <2> QED
    BY <2>1, <2>2, <2>3, <2>4, <2>5, <2>6 DEF TypeOK
<1>2. Control'
  BY TransferAssumption DEF Write, Goto, Added, files, store, run, past, IInv, TypeOK, Control,
    Version, Unknown
<1>3. SuccessAtRest'
  BY TransferAssumption DEF Write, Goto, Added, files, store, run, past, IInv, TypeOK, Progress,
    Errors, SuccessAtRest, Success, Control, CancelSticks
<1>4. CancelSticks'
  BY TransferAssumption DEF Write, Goto, Added, files, store, run, past, IInv, TypeOK, Progress,
    Errors, CancelSticks
<1>5. Placed'
  BY <1>a, <1>b, TransferAssumption DEF IInv, TypeOK, Placed, Version
<1>6. KeptIsKnown'
  <2> SUFFICES ASSUME doubt = {}, NEW i \in 1..Len(target')
               PROVE  known # Unknown /\ known <= target'[i] /\ target'[i] <= source
    BY <1>a DEF KeptIsKnown
  <2>1. known # Unknown /\ KeptLength = Len(target)
    BY <1>a DEF IInv, LoadedIsKept, KeptLength, Copying
  <2>2. CASE i \in 1..Len(target)
    BY <1>a, <1>b, <2>1, <2>2 DEF IInv, KeptIsKnown
  <2>3. CASE i = Len(target) + 1
    BY <1>a, <1>b, <2>1, <2>3 DEF IInv, BufferIsKnown
  <2> QED
    BY <1>b, <2>2, <2>3 DEF IInv, TypeOK
<1>7. BufferIsKnown'
  BY TransferAssumption DEF Write, Goto, Added, files, store, run, past, IInv, TypeOK, Control,
    BufferIsKnown, Version, Unknown
<1>8. LoadedIsKept'
  <2>1. p.loaded <= Len(target) /\ (doubt = {} => p.loaded = Len(target) /\ known # Unknown)
    BY <1>a DEF IInv, LoadedIsKept, Copying
  <2>2. p.loaded \in Nat /\ Len(target) \in Nat
    BY Numbers DEF IInv
  <2>3. p'.loaded <= Len(target') /\ (doubt = {} => p'.loaded = Len(target'))
    BY <1>a, <1>b, <2>1, <2>2
  <2> QED
    BY <1>a, <2>1, <2>3 DEF LoadedIsKept
<1>9. CopiedAll'
  BY TransferAssumption DEF Write, Goto, Added, files, store, run, past, IInv, TypeOK, Control,
    CopiedAll, Version, Unknown
<1>10. OutcomeIsExact'
  BY TransferAssumption DEF Write, Goto, Added, files, store, run, past, IInv, TypeOK,
    OutcomeIsExact
<1>11. SuccessIsExact'
  <2>1. at' # "idle"
    BY DEF Write, Goto, Added, files, store, run, past, IInv, TypeOK, Control, Stages
  <2> QED
    BY <1>3, <2>1 DEF SuccessIsExact, SuccessAtRest
<1> QED
  BY <1>1, <1>2, <1>3, <1>4, <1>5, <1>6, <1>7, <1>8, <1>9, <1>10, <1>11 DEF IInv

LEMMA CloseKeeps ==
  ASSUME IInv, Close
  PROVE  IInv'
<1>1. TypeOK'
  <2>1. p' \in Progress
    BY TransferAssumption DEF Close, Goto, files, store, run, past, IInv, TypeOK, Progress, Errors
  <2>2. target' \in Seq(Version)
    BY DEF Close, Goto, files, store, run, past, IInv, TypeOK
  <2>3. /\ source' \in Version /\ buffer' \in Version
        /\ known' \in Version \cup {Unknown} /\ identity' \in Version \cup {Unknown}
    BY DEF Close, Goto, files, store, run, past, IInv, TypeOK
  <2>4. attempt' \in 1..MaxAttempts /\ offset' \in Nat
    BY TransferAssumption DEF Close, Goto, files, store, run, past, IInv, TypeOK, Progress, Least
  <2>5. /\ at' \in Stages \cup {"idle", "verify", "finish", "backoff", "wait"} /\ err' \in Errors
        /\ doubt' \subseteq {"unidentified", "unchecked"} /\ pending' \subseteq Request
    BY DEF Close, Goto, files, store, run, past, IInv, TypeOK, Stages, Errors, Request
  <2>6. {active', resume', changed', cancelled', asleep'} \subseteq BOOLEAN
    BY DEF Close, Goto, files, store, run, past, IInv, TypeOK, Progress
  <2> QED
    BY <2>1, <2>2, <2>3, <2>4, <2>5, <2>6 DEF TypeOK
<1>2. Control'
  BY TransferAssumption DEF Close, Goto, files, store, run, past, IInv, TypeOK, Control, Version,
    Unknown
<1>3. SuccessAtRest'
  BY TransferAssumption DEF Close, Goto, files, store, run, past, IInv, TypeOK, Progress, Errors,
    SuccessAtRest, Success, Control, CancelSticks
<1>4. CancelSticks'
  BY TransferAssumption DEF Close, Goto, files, store, run, past, IInv, TypeOK, Progress, Errors,
    CancelSticks
<1>5. Placed'
  BY TransferAssumption DEF Close, Goto, files, store, run, past, IInv, TypeOK, Placed, Version
<1>6. KeptIsKnown'
  <2>1. target' = target /\ source' = source /\ known' = known
    BY DEF Close, Goto, files, store, run, past
  <2>2. doubt' = {} => doubt = {} /\ KeptLength' <= KeptLength
    BY <1>1 DEF Close, Goto, files, store, run, past, IInv, TypeOK, Progress, LoadedIsKept,
      KeptLength, Copying
  <2> QED
    BY <1>1, <2>1, <2>2, KeptShrinks
<1>7. BufferIsKnown'
  BY TransferAssumption DEF Close, Goto, files, store, run, past, IInv, TypeOK, Control,
    BufferIsKnown, Version, Unknown
<1>8. LoadedIsKept'
  BY TransferAssumption DEF Close, Goto, files, store, run, past, IInv, TypeOK, Progress,
    Version, Control, LoadedIsKept, Copying, Least, Most, Unknown
<1>9. CopiedAll'
  BY TransferAssumption DEF Close, Goto, files, store, run, past, IInv, TypeOK, Control,
    CopiedAll, Version, Unknown
<1>10. OutcomeIsExact'
  BY TransferAssumption DEF Close, Goto, files, store, run, past, IInv, TypeOK, OutcomeIsExact
<1>11. SuccessIsExact'
  <2>1. at' # "idle"
    BY DEF Close, Goto, files, store, run, past, IInv, TypeOK, Control, Stages
  <2> QED
    BY <1>3, <2>1 DEF SuccessIsExact, SuccessAtRest
<1> QED
  BY <1>1, <1>2, <1>3, <1>4, <1>5, <1>6, <1>7, <1>8, <1>9, <1>10, <1>11 DEF IInv

LEMMA VerifyKeeps ==
  ASSUME IInv, Verify
  PROVE  IInv'
<1>1. TypeOK'
  <2>1. p' \in Progress
    BY TransferAssumption DEF Verify, Goto, Ends, SameSource, files, store, run, past, IInv,
      TypeOK, Progress, Errors
  <2>2. target' \in Seq(Version)
    BY DEF Verify, Goto, Ends, SameSource, files, store, run, past, IInv, TypeOK
  <2>3. /\ source' \in Version /\ buffer' \in Version
        /\ known' \in Version \cup {Unknown} /\ identity' \in Version \cup {Unknown}
    BY DEF Verify, Goto, Ends, SameSource, files, store, run, past, IInv, TypeOK
  <2>4. attempt' \in 1..MaxAttempts /\ offset' \in Nat
    BY TransferAssumption DEF Verify, Goto, Ends, SameSource, files, store, run, past, IInv,
      TypeOK, Progress, Least
  <2>5. /\ at' \in Stages \cup {"idle", "verify", "finish", "backoff", "wait"} /\ err' \in Errors
        /\ doubt' \subseteq {"unidentified", "unchecked"} /\ pending' \subseteq Request
    BY DEF Verify, Goto, Ends, SameSource, files, store, run, past, IInv, TypeOK, Stages, Errors,
      Request
  <2>6. {active', resume', changed', cancelled', asleep'} \subseteq BOOLEAN
    BY DEF Verify, Goto, Ends, SameSource, files, store, run, past, IInv, TypeOK, Progress
  <2> QED
    BY <2>1, <2>2, <2>3, <2>4, <2>5, <2>6 DEF TypeOK
<1>2. Control'
  BY TransferAssumption DEF Verify, Goto, Ends, SameSource, files, store, run, past, IInv,
    TypeOK, Control, Version, Unknown
<1>3. SuccessAtRest'
  BY TransferAssumption DEF Verify, Goto, Ends, SameSource, files, store, run, past, IInv,
    TypeOK, Progress, Errors, SuccessAtRest, Success, Control, CancelSticks
<1>4. CancelSticks'
  BY TransferAssumption DEF Verify, Goto, Ends, SameSource, files, store, run, past, IInv,
    TypeOK, Progress, Errors, CancelSticks
<1>5. Placed'
  BY TransferAssumption DEF Verify, Goto, Ends, SameSource, files, store, run, past, IInv,
    TypeOK, Placed, Version
<1>6. KeptIsKnown'
  <2>1. target' = target /\ source' = source /\ known' = known
    BY DEF Verify, Goto, Ends, SameSource, files, store, run, past
  <2>a. at = "verify" /\ at' = "finish" /\ p' = p /\ (doubt' = {} => doubt = {})
    BY DEF Verify, Goto, Ends, store
  <2>b. KeptLength = Len(target) /\ KeptLength' = p.loaded
    BY <2>a DEF KeptLength, Copying
  <2>2. doubt' = {} => doubt = {} /\ KeptLength' <= KeptLength
    BY <2>a, <2>b, Numbers DEF IInv, LoadedIsKept, Copying
  <2> QED
    BY <1>1, <2>1, <2>2, KeptShrinks
<1>7. BufferIsKnown'
  BY TransferAssumption DEF Verify, Goto, Ends, SameSource, files, store, run, past, IInv,
    TypeOK, Control, BufferIsKnown, Version, Unknown
<1>8. LoadedIsKept'
  BY TransferAssumption DEF Verify, Goto, Ends, SameSource, files, store, run, past, IInv,
    TypeOK, Progress, Version, Control, LoadedIsKept, Copying, Least, Most, Unknown
<1>9. CopiedAll'
  BY TransferAssumption DEF Verify, Goto, Ends, SameSource, files, store, run, past, IInv,
    TypeOK, Control, CopiedAll, Version, Unknown
<1>10. OutcomeIsExact'
  <2>1. CASE ~(err' = "" /\ doubt' = {})
    BY <2>1 DEF OutcomeIsExact
  <2>2. CASE err' = "" /\ doubt' = {}
    <3>1. at = "verify" /\ doubt = {} /\ source = known /\ UNCHANGED <<known, target>>
      BY <2>2 DEF Verify, Goto, Ends, SameSource, files
    <3>2. TypeOK /\ known # Unknown /\ KeptLength = Len(target)
      BY <3>1 DEF IInv, LoadedIsKept, KeptLength, Copying
    <3>3. Len(target) \in Nat /\ known \in Version /\ known \in Nat /\ FileSize[known] \in Nat
      BY <3>2, Numbers
    <3>4. ASSUME NEW i \in 1..Len(target)
          PROVE  target[i] = known
      <4>1. target[i] \in Nat /\ i <= KeptLength
        BY <3>2, <3>3, Numbers
      <4>2. known <= target[i] /\ target[i] <= known
        BY <3>1, <4>1 DEF IInv, KeptIsKnown
      <4> QED
        BY <3>3, <4>1, <4>2
    <3>5. FileSize[known] <= Len(target)
      BY <3>1, <3>3 DEF IInv, CopiedAll
    <3>6. Len(target) <= FileSize[known]
      <4>1. CASE Len(target) = 0
        BY <3>3, <4>1
      <4>2. CASE Len(target) # 0
        <5>1. Len(target) \in 1..Len(target)
          BY <3>3, <4>2
        <5> QED
          BY <3>4, <5>1 DEF IInv, Placed
      <4> QED
        BY <4>1, <4>2
    <3>7. Len(target) = FileSize[known]
      BY <3>3, <3>5, <3>6
    <3>8. target = Whole(known)
      BY <3>2, <3>3, <3>4, <3>7, WholeFile DEF TypeOK
    <3> QED
      BY <3>1, <3>2, <3>8 DEF OutcomeIsExact, Whole
  <2> QED
    BY <2>1, <2>2
<1>11. SuccessIsExact'
  <2>1. at' # "idle"
    BY DEF Verify, Goto, Ends, SameSource, files, store, run, past, IInv, TypeOK, Control, Stages
  <2> QED
    BY <1>3, <2>1 DEF SuccessIsExact, SuccessAtRest
<1> QED
  BY <1>1, <1>2, <1>3, <1>4, <1>5, <1>6, <1>7, <1>8, <1>9, <1>10, <1>11 DEF IInv

LEMMA CallFailsKeeps ==
  ASSUME IInv, CallFails
  PROVE  IInv'
<1>1. TypeOK'
  <2>1. p' \in Progress
    BY TransferAssumption DEF CallFails, Goto, Ends, MayRetry, Stages, files, store, run, past,
      IInv, TypeOK, Progress, Errors
  <2>2. target' \in Seq(Version)
    BY DEF CallFails, Goto, Ends, MayRetry, Stages, files, store, run, past, IInv, TypeOK
  <2>3. /\ source' \in Version /\ buffer' \in Version
        /\ known' \in Version \cup {Unknown} /\ identity' \in Version \cup {Unknown}
    BY DEF CallFails, Goto, Ends, MayRetry, Stages, files, store, run, past, IInv, TypeOK
  <2>4. attempt' \in 1..MaxAttempts /\ offset' \in Nat
    BY TransferAssumption DEF CallFails, Goto, Ends, MayRetry, Stages, files, store, run, past,
      IInv, TypeOK, Progress, Least
  <2>5. /\ at' \in Stages \cup {"idle", "verify", "finish", "backoff", "wait"} /\ err' \in Errors
        /\ doubt' \subseteq {"unidentified", "unchecked"} /\ pending' \subseteq Request
    BY DEF CallFails, Goto, Ends, MayRetry, Stages, files, store, run, past, IInv, TypeOK,
      Errors, Request
  <2>6. {active', resume', changed', cancelled', asleep'} \subseteq BOOLEAN
    BY DEF CallFails, Goto, Ends, MayRetry, Stages, files, store, run, past, IInv, TypeOK, Progress
  <2> QED
    BY <2>1, <2>2, <2>3, <2>4, <2>5, <2>6 DEF TypeOK
<1>2. Control'
  BY TransferAssumption DEF CallFails, Goto, Ends, MayRetry, Stages, files, store, run, past,
    IInv, TypeOK, Control, Version, Unknown
<1>3. SuccessAtRest'
  BY TransferAssumption DEF CallFails, Goto, Ends, MayRetry, Stages, files, store, run, past,
    IInv, TypeOK, Progress, Errors, SuccessAtRest, Success, Control, CancelSticks
<1>4. CancelSticks'
  BY TransferAssumption DEF CallFails, Goto, Ends, MayRetry, Stages, files, store, run, past,
    IInv, TypeOK, Progress, Errors, CancelSticks
<1>5. Placed'
  BY TransferAssumption DEF CallFails, Goto, Ends, MayRetry, Stages, files, store, run, past,
    IInv, TypeOK, Placed, Version
<1>6. KeptIsKnown'
  <2>1. target' = target /\ source' = source /\ known' = known
    BY DEF CallFails, Goto, Ends, MayRetry, Stages, files, store, run, past
  <2>2. doubt' = {} => doubt = {} /\ KeptLength' <= KeptLength
    BY <1>1 DEF CallFails, Goto, Ends, MayRetry, Stages, files, store, run, past, IInv, TypeOK,
      Progress, LoadedIsKept, KeptLength, Copying
  <2> QED
    BY <1>1, <2>1, <2>2, KeptShrinks
<1>7. BufferIsKnown'
  BY TransferAssumption DEF CallFails, Goto, Ends, MayRetry, Stages, files, store, run, past,
    IInv, TypeOK, Control, BufferIsKnown, Version, Unknown
<1>8. LoadedIsKept'
  BY TransferAssumption DEF CallFails, Goto, Ends, MayRetry, Stages, files, store, run, past,
    IInv, TypeOK, Progress, Version, Control, LoadedIsKept, Copying, Least, Most, Unknown
<1>9. CopiedAll'
  BY TransferAssumption DEF CallFails, Goto, Ends, MayRetry, Stages, files, store, run, past,
    IInv, TypeOK, Control, CopiedAll, Version, Unknown
<1>10. OutcomeIsExact'
  BY TransferAssumption DEF CallFails, Goto, Ends, MayRetry, Stages, files, store, run, past,
    IInv, TypeOK, OutcomeIsExact
<1>11. SuccessIsExact'
  <2>1. at' # "idle"
    BY DEF CallFails, Goto, Ends, MayRetry, Stages, files, store, run, past, IInv, TypeOK, Control
  <2> QED
    BY <1>3, <2>1 DEF SuccessIsExact, SuccessAtRest
<1> QED
  BY <1>1, <1>2, <1>3, <1>4, <1>5, <1>6, <1>7, <1>8, <1>9, <1>10, <1>11 DEF IInv

LEMMA BackoffKeeps ==
  ASSUME IInv, Backoff
  PROVE  IInv'
<1>1. TypeOK'
  <2>1. p' \in Progress
    BY TransferAssumption DEF Backoff, Goto, files, store, run, past, IInv, TypeOK, Progress, Errors
  <2>2. target' \in Seq(Version)
    BY DEF Backoff, Goto, files, store, run, past, IInv, TypeOK
  <2>3. /\ source' \in Version /\ buffer' \in Version
        /\ known' \in Version \cup {Unknown} /\ identity' \in Version \cup {Unknown}
    BY DEF Backoff, Goto, files, store, run, past, IInv, TypeOK
  <2>4. attempt' \in 1..MaxAttempts /\ offset' \in Nat
    BY TransferAssumption DEF Backoff, Goto, files, store, run, past, IInv, TypeOK, Progress, Least
  <2>5. /\ at' \in Stages \cup {"idle", "verify", "finish", "backoff", "wait"} /\ err' \in Errors
        /\ doubt' \subseteq {"unidentified", "unchecked"} /\ pending' \subseteq Request
    BY DEF Backoff, Goto, files, store, run, past, IInv, TypeOK, Stages, Errors, Request
  <2>6. {active', resume', changed', cancelled', asleep'} \subseteq BOOLEAN
    BY DEF Backoff, Goto, files, store, run, past, IInv, TypeOK, Progress
  <2> QED
    BY <2>1, <2>2, <2>3, <2>4, <2>5, <2>6 DEF TypeOK
<1>2. Control'
  BY TransferAssumption DEF Backoff, Goto, files, store, run, past, IInv, TypeOK, Control,
    Version, Unknown
<1>3. SuccessAtRest'
  BY TransferAssumption DEF Backoff, Goto, files, store, run, past, IInv, TypeOK, Progress,
    Errors, SuccessAtRest, Success, Control, CancelSticks
<1>4. CancelSticks'
  BY TransferAssumption DEF Backoff, Goto, files, store, run, past, IInv, TypeOK, Progress,
    Errors, CancelSticks
<1>5. Placed'
  BY TransferAssumption DEF Backoff, Goto, files, store, run, past, IInv, TypeOK, Placed, Version
<1>6. KeptIsKnown'
  <2>1. target' = target /\ source' = source /\ known' = known
    BY DEF Backoff, Goto, files, store, run, past
  <2>2. doubt' = {} => doubt = {} /\ KeptLength' <= KeptLength
    BY <1>1 DEF Backoff, Goto, files, store, run, past, IInv, TypeOK, Progress, LoadedIsKept,
      KeptLength, Copying
  <2> QED
    BY <1>1, <2>1, <2>2, KeptShrinks
<1>7. BufferIsKnown'
  BY TransferAssumption DEF Backoff, Goto, files, store, run, past, IInv, TypeOK, Control,
    BufferIsKnown, Version, Unknown
<1>8. LoadedIsKept'
  BY TransferAssumption DEF Backoff, Goto, files, store, run, past, IInv, TypeOK, Progress,
    Version, Control, LoadedIsKept, Copying, Least, Most, Unknown
<1>9. CopiedAll'
  BY TransferAssumption DEF Backoff, Goto, files, store, run, past, IInv, TypeOK, Control,
    CopiedAll, Version, Unknown
<1>10. OutcomeIsExact'
  BY TransferAssumption DEF Backoff, Goto, files, store, run, past, IInv, TypeOK, OutcomeIsExact
<1>11. SuccessIsExact'
  <2>1. at' # "idle"
    BY DEF Backoff, Goto, files, store, run, past, IInv, TypeOK, Control, Stages
  <2> QED
    BY <1>3, <2>1 DEF SuccessIsExact, SuccessAtRest
<1> QED
  BY <1>1, <1>2, <1>3, <1>4, <1>5, <1>6, <1>7, <1>8, <1>9, <1>10, <1>11 DEF IInv

LEMMA NextAttemptKeeps ==
  ASSUME IInv, NextAttempt
  PROVE  IInv'
<1>1. TypeOK'
  <2>1. p' \in Progress
    BY TransferAssumption DEF NextAttempt, Goto, Ends, NextAttemptNumber, Held, files, store,
      run, past, IInv, TypeOK, Progress, Errors
  <2>2. target' \in Seq(Version)
    BY DEF NextAttempt, Goto, Ends, NextAttemptNumber, Held, files, store, run, past, IInv, TypeOK
  <2>3. /\ source' \in Version /\ buffer' \in Version
        /\ known' \in Version \cup {Unknown} /\ identity' \in Version \cup {Unknown}
    BY DEF NextAttempt, Goto, Ends, NextAttemptNumber, Held, files, store, run, past, IInv, TypeOK
  <2>4. attempt' \in 1..MaxAttempts /\ offset' \in Nat
    <3>1. attempt \in 1..MaxAttempts /\ attempt < MaxAttempts /\ MaxAttempts \in Nat
      BY TransferAssumption DEF NextAttempt, IInv, TypeOK, Control
    <3>2. (attempt' = attempt \/ attempt' = attempt + 1) /\ offset' = offset
      BY DEF NextAttempt, NextAttemptNumber
    <3> QED
      BY <3>1, <3>2, Numbers DEF IInv
  <2>5. /\ at' \in Stages \cup {"idle", "verify", "finish", "backoff", "wait"} /\ err' \in Errors
        /\ doubt' \subseteq {"unidentified", "unchecked"} /\ pending' \subseteq Request
    BY DEF NextAttempt, Goto, Ends, NextAttemptNumber, Held, files, store, run, past, IInv,
      TypeOK, Stages, Errors, Request
  <2>6. {active', resume', changed', cancelled', asleep'} \subseteq BOOLEAN
    BY DEF NextAttempt, Goto, Ends, NextAttemptNumber, Held, files, store, run, past, IInv,
      TypeOK, Progress
  <2> QED
    BY <2>1, <2>2, <2>3, <2>4, <2>5, <2>6 DEF TypeOK
<1>2. Control'
  BY TransferAssumption DEF NextAttempt, Goto, Ends, NextAttemptNumber, Held, files, store, run,
    past, IInv, TypeOK, Control, Version, Unknown
<1>3. SuccessAtRest'
  BY TransferAssumption DEF NextAttempt, Goto, Ends, NextAttemptNumber, Held, files, store, run,
    past, IInv, TypeOK, Progress, Errors, SuccessAtRest, Success, Control, CancelSticks
<1>4. CancelSticks'
  BY TransferAssumption DEF NextAttempt, Goto, Ends, NextAttemptNumber, Held, files, store, run,
    past, IInv, TypeOK, Progress, Errors, CancelSticks
<1>5. Placed'
  BY TransferAssumption DEF NextAttempt, Goto, Ends, NextAttemptNumber, Held, files, store, run,
    past, IInv, TypeOK, Placed, Version
<1>6. KeptIsKnown'
  <2>1. target' = target /\ source' = source /\ known' = known
    BY DEF NextAttempt, Goto, Ends, NextAttemptNumber, Held, files, store, run, past
  <2>2. doubt' = {} => doubt = {} /\ KeptLength' <= KeptLength
    BY <1>1 DEF NextAttempt, Goto, Ends, NextAttemptNumber, Held, files, store, run, past, IInv,
      TypeOK, Progress, LoadedIsKept, KeptLength, Copying
  <2> QED
    BY <1>1, <2>1, <2>2, KeptShrinks
<1>7. BufferIsKnown'
  BY TransferAssumption DEF NextAttempt, Goto, Ends, NextAttemptNumber, Held, files, store, run,
    past, IInv, TypeOK, Control, BufferIsKnown, Version, Unknown
<1>8. LoadedIsKept'
  BY TransferAssumption DEF NextAttempt, Goto, Ends, NextAttemptNumber, Held, files, store, run,
    past, IInv, TypeOK, Progress, Version, Control, LoadedIsKept, Copying, Least, Most, Unknown
<1>9. CopiedAll'
  BY TransferAssumption DEF NextAttempt, Goto, Ends, NextAttemptNumber, Held, files, store, run,
    past, IInv, TypeOK, Control, CopiedAll, Version, Unknown
<1>10. OutcomeIsExact'
  BY TransferAssumption DEF NextAttempt, Goto, Ends, NextAttemptNumber, Held, files, store, run,
    past, IInv, TypeOK, OutcomeIsExact
<1>11. SuccessIsExact'
  <2>1. at' # "idle"
    BY DEF NextAttempt, Goto, Ends, NextAttemptNumber, Held, files, store, run, past, IInv,
      TypeOK, Control, Stages
  <2> QED
    BY <1>3, <2>1 DEF SuccessIsExact, SuccessAtRest
<1> QED
  BY <1>1, <1>2, <1>3, <1>4, <1>5, <1>6, <1>7, <1>8, <1>9, <1>10, <1>11 DEF IInv

LEMMA FinishKeeps ==
  ASSUME IInv, Finish
  PROVE  IInv'
<1>1. TypeOK'
  <2>1. p' \in Progress
    BY TransferAssumption DEF Finish, Goto, Finished, files, store, run, past, IInv, TypeOK,
      Progress, Errors
  <2>2. target' \in Seq(Version)
    BY DEF Finish, Goto, Finished, files, store, run, past, IInv, TypeOK
  <2>3. /\ source' \in Version /\ buffer' \in Version
        /\ known' \in Version \cup {Unknown} /\ identity' \in Version \cup {Unknown}
    BY DEF Finish, Goto, Finished, files, store, run, past, IInv, TypeOK
  <2>4. attempt' \in 1..MaxAttempts /\ offset' \in Nat
    BY TransferAssumption DEF Finish, Goto, Finished, files, store, run, past, IInv, TypeOK,
      Progress, Least
  <2>5. /\ at' \in Stages \cup {"idle", "verify", "finish", "backoff", "wait"} /\ err' \in Errors
        /\ doubt' \subseteq {"unidentified", "unchecked"} /\ pending' \subseteq Request
    BY DEF Finish, Goto, Finished, files, store, run, past, IInv, TypeOK, Stages, Errors, Request
  <2>6. {active', resume', changed', cancelled', asleep'} \subseteq BOOLEAN
    BY DEF Finish, Goto, Finished, files, store, run, past, IInv, TypeOK, Progress
  <2> QED
    BY <2>1, <2>2, <2>3, <2>4, <2>5, <2>6 DEF TypeOK
<1>2. Control'
  BY TransferAssumption DEF Finish, Goto, Finished, files, store, run, past, IInv, TypeOK,
    Control, Version, Unknown
<1>3. SuccessAtRest'
  BY TransferAssumption DEF Finish, Goto, Finished, files, store, run, past, IInv, TypeOK,
    Progress, Errors, SuccessAtRest, Success, Control, CancelSticks
<1>4. CancelSticks'
  BY TransferAssumption DEF Finish, Goto, Finished, files, store, run, past, IInv, TypeOK,
    Progress, Errors, CancelSticks
<1>5. Placed'
  BY TransferAssumption DEF Finish, Goto, Finished, files, store, run, past, IInv, TypeOK,
    Placed, Version
<1>6. KeptIsKnown'
  <2>1. UNCHANGED <<target, source, known, doubt>> /\ KeptLength' = p'.loaded /\ KeptLength = p.loaded
    BY DEF Finish, Goto, files, past, KeptLength, Copying
  <2>2. CASE p'.loaded = p.loaded
    <3>1. KeptLength' <= KeptLength
      BY <2>1, <2>2 DEF IInv, TypeOK, Progress
    <3> QED
      BY <1>1, <2>1, <3>1, KeptShrinks
  <2>3. CASE p'.loaded # p.loaded
    <3>1. err = ""
      BY <2>3 DEF Finish, Finished, IInv, TypeOK, Progress
    <3>2. doubt = {} => known # Unknown /\ target = Whole(known)
      BY <3>1 DEF Finish, IInv, OutcomeIsExact
    <3>3. ASSUME doubt = {}, NEW i \in 1..Len(target)
          PROVE  known # Unknown /\ target[i] = known /\ known <= source /\ known \in Nat
      <4>1. known \in Version /\ FileSize[known] \in Nat
        BY <3>2, <3>3, TransferAssumption DEF IInv, TypeOK
      <4>2. Len(target) = FileSize[known]
        BY <3>2, <3>3, <4>1 DEF Whole
      <4> QED
        BY <3>2, <3>3, <4>1, <4>2 DEF Whole, IInv, Control, Version
    <3> QED
      BY <2>1, <3>3 DEF KeptIsKnown
  <2> QED
    BY <2>2, <2>3
<1>7. BufferIsKnown'
  BY TransferAssumption DEF Finish, Goto, Finished, files, store, run, past, IInv, TypeOK,
    Control, BufferIsKnown, Version, Unknown
<1>8. LoadedIsKept'
  BY TransferAssumption DEF Finish, Goto, Finished, files, store, run, past, IInv, TypeOK,
    Progress, Version, Control, LoadedIsKept, Copying, Least, Most, Unknown
<1>9. CopiedAll'
  BY TransferAssumption DEF Finish, Goto, Finished, files, store, run, past, IInv, TypeOK,
    Control, CopiedAll, Version, Unknown
<1>10. OutcomeIsExact'
  BY TransferAssumption DEF Finish, Goto, Finished, files, store, run, past, IInv, TypeOK,
    OutcomeIsExact
<1>11. SuccessIsExact'
  <2> SUFFICES ASSUME Success', doubt' = {}
               PROVE  Intact'
    BY DEF SuccessIsExact
  <2>1. UNCHANGED <<target, known, doubt>> /\ at = "finish"
    BY DEF Finish, files, past
  <2>2. err = ""
    BY DEF Finish, Finished, Success, IInv, TypeOK, Progress, CancelSticks
  <2>3. known \in Version /\ target = Whole(known)
    BY <2>1, <2>2 DEF IInv, TypeOK, OutcomeIsExact
  <2> QED
    BY <2>1, <2>3 DEF Intact, Whole
<1> QED
  BY <1>1, <1>2, <1>3, <1>4, <1>5, <1>6, <1>7, <1>8, <1>9, <1>10, <1>11 DEF IInv

LEMMA SourceChangesKeeps ==
  ASSUME IInv, SourceChanges
  PROVE  IInv'
<1>1. TypeOK'
  <2>1. source' \in Version
    BY TransferAssumption DEF SourceChanges, IInv, TypeOK, Version
  <2> QED
    BY <2>1 DEF SourceChanges, store, run, IInv, TypeOK
<1>2. Control'
  BY TransferAssumption DEF SourceChanges, files, store, run, past, IInv, TypeOK, Control,
    Version, Unknown
<1>3. SuccessAtRest'
  BY TransferAssumption DEF SourceChanges, files, store, run, past, IInv, TypeOK, Progress,
    Errors, SuccessAtRest, Success, Control, CancelSticks
<1>4. CancelSticks'
  BY TransferAssumption DEF SourceChanges, files, store, run, past, IInv, TypeOK, Progress,
    Errors, CancelSticks
<1>5. Placed'
  BY TransferAssumption DEF SourceChanges, files, store, run, past, IInv, TypeOK, Placed, Version
<1>6. KeptIsKnown'
  <2>1. KeptLength' = KeptLength /\ source' = source + 1 /\ UNCHANGED <<target, known, doubt>>
    BY DEF SourceChanges, store, run, KeptLength, Copying
  <2>2. ASSUME NEW i \in 1..Len(target), target[i] <= source
        PROVE  target[i] <= source + 1
    BY <2>2, Numbers DEF IInv
  <2> QED
    BY <2>1, <2>2 DEF IInv, KeptIsKnown
<1>7. BufferIsKnown'
  BY TransferAssumption DEF SourceChanges, files, store, run, past, IInv, TypeOK, Control,
    BufferIsKnown, Version, Unknown
<1>8. LoadedIsKept'
  BY TransferAssumption DEF SourceChanges, files, store, run, past, IInv, TypeOK, Progress,
    Version, Control, LoadedIsKept, Copying, Least, Most, Unknown
<1>9. CopiedAll'
  BY TransferAssumption DEF SourceChanges, files, store, run, past, IInv, TypeOK, Control,
    CopiedAll, Version, Unknown
<1>10. OutcomeIsExact'
  BY TransferAssumption DEF SourceChanges, files, store, run, past, IInv, TypeOK, OutcomeIsExact
<1>11. SuccessIsExact'
  <2>1. UNCHANGED target /\ doubt' = doubt /\ (Success' => Success)
    BY DEF SourceChanges, files, store, run, past, IInv, TypeOK, Progress, Success
  <2> QED
    BY <2>1 DEF IInv, SuccessIsExact, Intact
<1> QED
  BY <1>1, <1>2, <1>3, <1>4, <1>5, <1>6, <1>7, <1>8, <1>9, <1>10, <1>11 DEF IInv

LEMMA TargetShrinksKeeps ==
  ASSUME IInv, TargetShrinks
  PROVE  IInv'
<1>a. PICK n \in 0..Len(target) : n < Len(target) /\ target' = SubSeq(target, 1, n)
  BY DEF TargetShrinks
<1>b. /\ target' \in Seq(Version) /\ Len(target') = n
      /\ \A i \in 1..Len(target') : i \in 1..Len(target) /\ target'[i] = target[i]
  BY <1>a, CutFile DEF IInv, TypeOK
<1>1. TypeOK'
  <2>1. p' \in Progress
    BY TransferAssumption DEF TargetShrinks, files, store, run, past, IInv, TypeOK, Progress, Errors
  <2>2. target' \in Seq(Version)
    BY <1>b
  <2>3. /\ source' \in Version /\ buffer' \in Version
        /\ known' \in Version \cup {Unknown} /\ identity' \in Version \cup {Unknown}
    BY DEF TargetShrinks, files, store, run, past, IInv, TypeOK
  <2>4. attempt' \in 1..MaxAttempts /\ offset' \in Nat
    BY TransferAssumption DEF TargetShrinks, files, store, run, past, IInv, TypeOK, Progress, Least
  <2>5. /\ at' \in Stages \cup {"idle", "verify", "finish", "backoff", "wait"} /\ err' \in Errors
        /\ doubt' \subseteq {"unidentified", "unchecked"} /\ pending' \subseteq Request
    BY DEF TargetShrinks, files, store, run, past, IInv, TypeOK, Stages, Errors, Request
  <2>6. {active', resume', changed', cancelled', asleep'} \subseteq BOOLEAN
    BY DEF TargetShrinks, files, store, run, past, IInv, TypeOK, Progress
  <2> QED
    BY <2>1, <2>2, <2>3, <2>4, <2>5, <2>6 DEF TypeOK
<1>2. Control'
  BY TransferAssumption DEF TargetShrinks, files, store, run, past, IInv, TypeOK, Control,
    Version, Unknown
<1>3. SuccessAtRest'
  BY TransferAssumption DEF TargetShrinks, files, store, run, past, IInv, TypeOK, Progress,
    Errors, SuccessAtRest, Success, Control, CancelSticks
<1>4. CancelSticks'
  BY TransferAssumption DEF TargetShrinks, files, store, run, past, IInv, TypeOK, Progress,
    Errors, CancelSticks
<1>5. Placed'
  BY <1>a, <1>b DEF TargetShrinks, files, store, run, past, IInv, TypeOK, Placed
<1>6. KeptIsKnown'
  <2>1. KeptLength' = KeptLength /\ known' = known /\ source' = source /\ doubt' = doubt
    BY DEF TargetShrinks, store, run, past, KeptLength, Copying
  <2> QED
    BY <1>b, <2>1 DEF IInv, KeptIsKnown
<1>7. BufferIsKnown'
  BY TransferAssumption DEF TargetShrinks, files, store, run, past, IInv, TypeOK, Control,
    BufferIsKnown, Version, Unknown
<1>8. LoadedIsKept'
  BY TransferAssumption DEF TargetShrinks, files, store, run, past, IInv, TypeOK, Progress,
    Version, Control, LoadedIsKept, Copying, Least, Most, Unknown
<1>9. CopiedAll'
  BY TransferAssumption DEF TargetShrinks, files, store, run, past, IInv, TypeOK, Control,
    CopiedAll, Version, Unknown
<1>10. OutcomeIsExact'
  BY TransferAssumption DEF TargetShrinks, files, store, run, past, IInv, TypeOK, OutcomeIsExact
<1>11. SuccessIsExact'
  <2>1. ~Success'
    BY DEF TargetShrinks, files, store, run, past, IInv, TypeOK, Progress, Success
  <2> QED
    BY <2>1 DEF SuccessIsExact
<1> QED
  BY <1>1, <1>2, <1>3, <1>4, <1>5, <1>6, <1>7, <1>8, <1>9, <1>10, <1>11 DEF IInv

LEMMA StutterKeeps ==
  ASSUME IInv, UNCHANGED vars
  PROVE  IInv'
  BY PendingTaken DEF vars

-----------------------------------------------------------------------------
(* The theorems.                                                            *)

LEMMA NextKeeps ==
  ASSUME IInv, Next
  PROVE  IInv'
BY PauseKeeps, ResumeKeeps, CancelKeeps, RetryKeeps, BeginKeeps, StatSourceKeeps,
  ResolveTargetOffsetKeeps, OpenBothKeeps, SleepKeeps, ReadKeeps, CheckAllowedKeeps, WriteKeeps,
  CloseKeeps,
  VerifyKeeps, CallFailsKeeps, BackoffKeeps, NextAttemptKeeps, FinishKeeps, SourceChangesKeeps,
  TargetShrinksKeeps DEF Next, RunStep

LEMMA Invariance == Spec => []IInv
<1>1. Init => IInv
  BY InitInv
<1>2. IInv /\ [Next]_vars => IInv'
  BY NextKeeps, StutterKeeps
<1> QED
  BY <1>1, <1>2, PTL DEF Spec

\* The record is well typed, and the progress a later attempt continues from is
\* what the target holds (transfer_resume.go:213-271).
THEOREM TransferAlwaysSound == Spec => []TransferSound
<1>1. IInv => TransferSound
  BY DEF IInv, TransferSound, ConfirmedBytes, LoadedIsKept, Copying
<1> QED
  BY <1>1, Invariance, PTL

\* A reported success is an intact file of one version, as long as the run
\* could identify the source (transfer_resume.go:255-280).
THEOREM SuccessAlwaysExact == Spec => []SuccessIsExact
<1>1. IInv => SuccessIsExact
  BY DEF IInv
<1> QED
  BY <1>1, Invariance, PTL

\* A cancellation is final for its run (transfer_progress.go).
THEOREM CancelAlwaysSticks == Spec => []CancelSticks
<1>1. IInv => CancelSticks
  BY DEF IInv
<1> QED
  BY <1>1, Invariance, PTL
=============================================================================

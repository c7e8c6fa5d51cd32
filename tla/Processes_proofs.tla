--------------------------- MODULE Processes_proofs ---------------------------
(***************************************************************************)
(* What becomes of the processes the launcher starts, for any number of     *)
(* requests: the remote shells of terminals (Shells) and the processes of   *)
(* local profiles (LocalSession). Both arguments are of ownership.          *)
(*                                                                         *)
(* Terminals: a shell is in the map or in the hands of closers, never both  *)
(* (ListedFresh, JobsHold); a closer with something to do is at the step    *)
(* that does it, so no list of terminals to close is overwritten by another *)
(* (JobsIdle); whoever marks a shell calls Close (ShellsHeld); and after    *)
(* the second closeAll nothing opens any more (ExitSweeps).                 *)
(*                                                                         *)
(* Local profiles: a start that has registered its session is over, so a    *)
(* session that is gone never comes back (Registered); who has a process to *)
(* kill is at the step that kills it (OrdersKept); a deletion that has      *)
(* begun holds the only session there can be (DeletionHolds); and what the  *)
(* exit found is not the session any more once it was swept (ExitHolds).    *)
(***************************************************************************)
EXTENDS Shells, LocalSession, FiniteSetTheorems, TLAPS

-----------------------------------------------------------------------------
(* Terminals.                                                               *)

Unstarted == {"new", "dial", "channel", "integrate", "session", "start"}

\* What a shell is at each stage of its life.
ShellPhase(x) ==
  /\ x.at \in {"new", "dial"} => x.ssh = "none"
  /\ x.at \in Unstarted => x.wait = "none" /\ x.once = "idle"
  /\ x.at # "done" => x.timer = "none" /\ ~x.attached /\ ~x.closed
  /\ x.at = "failed" => x.ssh \in {"none", "closed"}
  /\ x.once = "over" => x.ssh = "closed"
  /\ x.timer = "closing" => x.closed /\ ~x.attached
  /\ x.wait # "none" => x.channel # "open"
ShellPhases == \A s \in Shell : ShellPhase(sh[s])

\* The map holds shells that nobody has begun to close; a closing holds shells
\* that are in the map no more.
ListedFresh == \A s \in listed : sh[s].at = "done" /\ ~sh[s].closed
JobsHold == \A c \in Closer :
  /\ \A s \in job[c].todo : sh[s].at = "done" /\ s \notin listed
  /\ job[c].cur # None => LET x == sh[job[c].cur] IN
       x.at = "done" /\ x.closed /\ job[c].cur \notin listed

\* Who has shells to close is at it.
JobsIdle ==
  /\ \A r \in Reader : /\ reader[r].at # "leaving" => JobIdle(r)
                       /\ reader[r].ctx # "closing" => JobIdle(Ctx(r))
  /\ \A w \in Sweeper : sweep[w].at # "sweeping" => JobIdle(w)
  /\ leave.at \notin {"closing", "again"} => JobIdle(Exiter)

\* An output request has a shell, and reads it alone.
ReadersHold ==
  /\ \A r \in Reader :
       /\ reader[r].at # "new" => reader[r].shell # None /\ sh[reader[r].shell].at = "done"
       /\ reader[r].at = "reading" => sh[reader[r].shell].attached
       /\ reader[r].ctx \in {"watching", "closing"} => reader[r].at \notin {"new", "found"}
  /\ \A r, q \in Reader :
       reader[r].at = "reading" /\ reader[q].at = "reading" /\ reader[r].shell = reader[q].shell
         => r = q

\* Close is being called, by the timer or a closing.
Called(s) == sh[s].timer = "closing" \/ \E c \in Closer : job[c].cur = s
TakenOut(s) == \E c \in Closer : s \in job[c].todo
ShellsHeld == \A s \in Shell : Open(s) /\ sh[s].at = "done" =>
  /\ s \in listed \/ TakenOut(s) \/ Called(s)
  /\ sh[s].closed => Called(s)

\* A registered shell has its timer or its reader.
ListedAttended == \A s \in listed :
  /\ ~sh[s].attached => sh[s].timer \in {"armed", "fired"}
  /\ sh[s].attached => \E r \in Reader : reader[r].shell = s /\ reader[r].at = "reading"

\* After the second closeAll no terminal is opened.
ExitSweeps == leave.at \in {"again", "exited"} /\ ~leave.cut =>
  listed = {} /\ \A s \in Shell : sh[s].at \in {"new", "done", "failed"}

ShellInv ==
  /\ ShellTypeOK /\ ShellPhases /\ ListedFresh /\ JobsHold /\ JobsIdle
  /\ ReadersHold /\ ShellsHeld /\ ListedAttended /\ ExitSweeps

-----------------------------------------------------------------------------
\* Those who close terminals are distinct: requests, contexts of requests, the exit.
LEMMA ClosersDistinct ==
  /\ \A r \in Reader : r \in Closer /\ Ctx(r) \in Closer
  /\ \A w \in Sweeper : w \in Closer
  /\ Exiter \in Closer
  /\ \A r, q \in Reader : Ctx(r) # q /\ (Ctx(r) = Ctx(q) => r = q)
  /\ \A r \in Reader, w \in Sweeper : r # w /\ Ctx(r) # w
  /\ \A r \in Reader : Exiter # r /\ Exiter # Ctx(r)
  /\ \A w \in Sweeper : Exiter # w
<1>1. \A r \in Reader : Ctx(r) \notin Sweeper \cup Reader
  BY ShellAssumption DEF ShellAssumption
<1>2. Exiter \notin Sweeper \cup Reader
  BY ShellAssumption DEF ShellAssumption
<1>3. \A r, q \in Reader : Ctx(r) = Ctx(q) => r = q
  BY DEF Ctx
<1>4. \A r \in Reader : Exiter # Ctx(r)
  BY DEF Ctx, Exiter
<1>5. \A r \in Reader, w \in Sweeper : r # w
  BY ShellAssumption DEF ShellAssumption
<1> HIDE DEF Ctx, Exiter
<1>6. /\ \A r \in Reader : r \in Closer /\ Ctx(r) \in Closer
      /\ \A w \in Sweeper : w \in Closer
      /\ Exiter \in Closer
  BY DEF Closer
<1> QED BY <1>1, <1>2, <1>3, <1>4, <1>5, <1>6

\* None is no terminal.
LEMMA NoneIsNoShell == None \notin Shell
BY ShellAssumption DEF ShellAssumption

-----------------------------------------------------------------------------
\* In the beginning there is nothing to close.
LEMMA ShellInitInv == ShellInit => ShellInv
<1> SUFFICES ASSUME ShellInit PROVE ShellInv
  OBVIOUS
<1> USE DEF ShellInit
<1>1. ShellTypeOK
  BY DEF ShellTypeOK, ShellRecord
<1>2. ShellPhases
  BY DEF ShellPhases, ShellPhase, Unstarted
<1>3. ListedFresh /\ JobsHold /\ ListedAttended /\ ExitSweeps
  BY DEF ListedFresh, JobsHold, ListedAttended, ExitSweeps
<1>4. JobsIdle
  BY ClosersDistinct DEF JobsIdle, JobIdle
<1>5. ReadersHold
  BY DEF ReadersHold
<1>6. ShellsHeld
  BY DEF ShellsHeld, Open
<1> QED BY <1>1, <1>2, <1>3, <1>4, <1>5, <1>6 DEF ShellInv

-----------------------------------------------------------------------------
(* Steps that change one terminal only.                                     *)

\* What they may do to it: they register nothing and mark nothing.
Moves(s, x) ==
  /\ x \in ShellRecord /\ ShellPhase(x)
  /\ x.at = "done" <=> sh[s].at = "done"
  /\ x.closed = sh[s].closed /\ x.attached = sh[s].attached
  /\ \/ x.timer = sh[s].timer
     \/ sh[s].timer = "armed" /\ x.timer = "fired"
     \/ sh[s].timer = "closing" /\ x.timer = "over" /\ x.ssh = "closed"
  /\ x.at = "done" /\ x.ssh \in {"open", "dead"} => Open(s)
  /\ x.at = sh[s].at \/ sh[s].at \notin {"new", "done", "failed"} \/ Serving

\* Such a step keeps the invariant.
LEMMA MoveKeeps ==
  ASSUME ShellInv, NEW s \in Shell, NEW x, SetShell(s, x), Moves(s, x)
  PROVE  ShellInv'
<1>1. /\ sh' = [sh EXCEPT ![s] = x]
      /\ listed' = listed /\ stored' = stored /\ reader' = reader
      /\ sweep' = sweep /\ job' = job /\ leave' = leave
  BY DEF SetShell, shellRest
<1>2. ShellTypeOK
  BY DEF ShellInv
<1>3. /\ sh' \in [Shell -> ShellRecord] /\ sh'[s] = x
      /\ \A t \in Shell : t # s => sh'[t] = sh[t]
  BY <1>1, <1>2 DEF Moves, ShellTypeOK
<1>4. ShellTypeOK'
  BY <1>1, <1>2, <1>3 DEF ShellTypeOK
<1>5. \A t \in Shell : /\ sh'[t].at = "done" <=> sh[t].at = "done"
                       /\ sh'[t].closed = sh[t].closed /\ sh'[t].attached = sh[t].attached
  BY <1>3 DEF Moves
<1>6. ShellPhases'
  BY <1>3 DEF Moves, ShellPhases, ShellInv
<1>7. ListedFresh'
  BY <1>1, <1>2, <1>5 DEF ListedFresh, ShellInv, ShellTypeOK
<1>8. JobsHold'
  <2>1. \A c \in Closer : job[c].todo \subseteq Shell /\ job[c].cur \in Shell \cup {None}
    BY <1>2 DEF ShellTypeOK
  <2> QED BY <1>1, <1>5, <2>1 DEF JobsHold, ShellInv
<1>9. JobsIdle'
  BY <1>1 DEF JobsIdle, JobIdle, ShellInv
<1>10. ReadersHold'
  <2>1. \A r \in Reader : reader[r].shell \in Shell \cup {None}
    BY <1>2 DEF ShellTypeOK
  <2>2. ReadersHold
    BY DEF ShellInv
  <2>3. \A r \in Reader : reader[r].at = "reading" => reader[r].shell \in Shell
    BY <2>1, <2>2 DEF ReadersHold
  <2> QED BY <1>1, <1>5, <2>1, <2>2, <2>3 DEF ReadersHold
<1>11. ShellsHeld'
  <2> SUFFICES ASSUME NEW t \in Shell, Open(t)', sh'[t].at = "done"
               PROVE  /\ (t \in listed \/ TakenOut(t) \/ Called(t))'
                      /\ sh'[t].closed => Called(t)'
    BY DEF ShellsHeld
  <2>1. Open(t)
    BY <1>3 DEF Open, Moves
  <2>2. /\ t \in listed \/ TakenOut(t) \/ Called(t)
        /\ sh[t].closed => Called(t)
    BY <1>5, <2>1 DEF ShellsHeld, ShellInv
  <2>3. TakenOut(t)' <=> TakenOut(t)
    BY <1>1 DEF TakenOut
  <2>4. Called(t) => Called(t)'
    <3>1. sh[t].timer = "closing" => sh'[t].timer = "closing"
      BY <1>3 DEF Moves, Open
    <3> QED BY <1>1, <3>1 DEF Called
  <2> QED BY <1>1, <1>5, <2>2, <2>3, <2>4
<1>12. ListedAttended'
  <2>1. ListedAttended /\ listed \subseteq Shell
    BY <1>2 DEF ShellInv, ShellTypeOK
  <2>2. \A t \in Shell :
          sh[t].timer \in {"armed", "fired"} => sh'[t].timer \in {"armed", "fired"}
    BY <1>3 DEF Moves
  <2> QED BY <1>1, <1>5, <2>1, <2>2 DEF ListedAttended
<1>13. ExitSweeps'
  <2> SUFFICES ASSUME leave.at \in {"again", "exited"}, ~leave.cut
               PROVE  listed = {} /\ \A t \in Shell : sh'[t].at \in {"new", "done", "failed"}
    BY <1>1 DEF ExitSweeps
  <2>1. listed = {} /\ \A t \in Shell : sh[t].at \in {"new", "done", "failed"}
    BY DEF ShellInv, ExitSweeps
  <2>2. x.at = sh[s].at
    BY <2>1 DEF Moves, Serving
  <2> QED BY <1>3, <2>1, <2>2
<1> QED
  BY <1>4, <1>6, <1>7, <1>8, <1>9, <1>10, <1>11, <1>12, <1>13 DEF ShellInv

-----------------------------------------------------------------------------
\* What a step needs to know of the terminal it is about.
LEMMA ShellFacts ==
  ASSUME ShellInv, NEW s \in Shell
  PROVE  /\ sh[s] \in ShellRecord /\ ShellPhase(sh[s])
         /\ sh[s] = [at |-> sh[s].at, profile |-> sh[s].profile, try |-> sh[s].try,
                     ssh |-> sh[s].ssh, channel |-> sh[s].channel, ended |-> sh[s].ended,
                     wait |-> sh[s].wait, once |-> sh[s].once, timer |-> sh[s].timer,
                     attached |-> sh[s].attached, closed |-> sh[s].closed]
<1>1. sh[s] \in ShellRecord
  BY DEF ShellInv, ShellTypeOK
<1> QED BY <1>1 DEF ShellInv, ShellPhases, ShellRecord

\* The steps of StartInteractiveShell before the shell runs.
LEMMA EarlySteps ==
  ASSUME ShellInv, NEW s \in Shell,
         OpenStart(s) \/ Dial(s) \/ OpenChannel(s) \/ Integrate(s) \/ OpenSession(s)
  PROVE  ShellInv'
<1> DEFINE y == sh[s]
<1>1. y \in ShellRecord /\ ShellPhase(y)
  BY ShellFacts
<1>2. stored \subseteq ShellProfile
  BY DEF ShellInv, ShellTypeOK
<1>3. CASE OpenStart(s)
  <2>1. PICK p \in stored : SetShell(s, [y EXCEPT !.at = "dial", !.profile = p])
    BY <1>3 DEF OpenStart
  <2>2. Moves(s, [y EXCEPT !.at = "dial", !.profile = p])
    BY <1>1, <1>2, <1>3 DEF OpenStart, Moves, ShellRecord, ShellPhase, Unstarted, Open
  <2> QED BY <2>1, <2>2, MoveKeeps
<1>4. CASE Dial(s)
  <2>1. Moves(s, [y EXCEPT !.at = "channel", !.ssh = "open"])
    BY <1>1, <1>4 DEF Dial, Moves, ShellRecord, ShellPhase, Unstarted, Open
  <2>2. Moves(s, [y EXCEPT !.at = "failed"])
    BY <1>1, <1>4 DEF Dial, Moves, ShellRecord, ShellPhase, Unstarted, Open
  <2> QED BY <1>4, <2>1, <2>2, MoveKeeps DEF Dial, ShellAt
<1>5. CASE OpenChannel(s)
  <2>1. Moves(s, [y EXCEPT !.at = "integrate", !.channel = "open"])
    BY <1>1, <1>5 DEF OpenChannel, Moves, ShellRecord, ShellPhase, Unstarted, Open
  <2>2. Moves(s, [y EXCEPT !.at = "integrate"])
    BY <1>1, <1>5 DEF OpenChannel, Moves, ShellRecord, ShellPhase, Unstarted, Open
  <2> QED BY <1>5, <2>1, <2>2, MoveKeeps DEF OpenChannel, ShellAt
<1>6. CASE Integrate(s)
  <2>1. Moves(s, [y EXCEPT !.at = "session", !.try = "integrated"])
    BY <1>1, <1>6 DEF Integrate, Moves, ShellRecord, ShellPhase, Unstarted, Open
  <2>2. Moves(s, [y EXCEPT !.at = "session", !.try = NextTry(y)])
    BY <1>1, <1>6 DEF Integrate, Moves, ShellRecord, ShellPhase, Unstarted, Open, NextTry
  <2> QED BY <1>6, <2>1, <2>2, MoveKeeps DEF Integrate
<1>7. CASE OpenSession(s)
  <2>1. Moves(s, [y EXCEPT !.at = "start"])
    BY <1>1, <1>7 DEF OpenSession, Moves, ShellRecord, ShellPhase, Unstarted, Open
  <2>2. Moves(s, ShellFailed(y))
    BY <1>1, <1>7 DEF OpenSession, Moves, ShellFailed, ShellRecord, ShellPhase, Unstarted, Open
  <2> QED BY <1>7, <2>1, <2>2, MoveKeeps DEF OpenSession, ShellAt
<1> QED BY <1>3, <1>4, <1>5, <1>6, <1>7

\* Records of shells that are started, half closed and closed, field by field.
LEMMA StartedIsShell ==
  ASSUME NEW y \in ShellRecord, NEW c \in {"none", "told"}
  PROVE  [y EXCEPT !.at = "add", !.wait = "waiting", !.try = "plain", !.channel = c]
           \in ShellRecord
<1>1. \A x \in ShellRecord : [x EXCEPT !.at = "add"] \in ShellRecord
  BY DEF ShellRecord
<1>2. \A x \in ShellRecord : [x EXCEPT !.wait = "waiting"] \in ShellRecord
  BY DEF ShellRecord
<1>3. \A x \in ShellRecord : [x EXCEPT !.try = "plain"] \in ShellRecord
  BY DEF ShellRecord
<1>4. \A x \in ShellRecord : [x EXCEPT !.channel = c] \in ShellRecord
  BY DEF ShellRecord
<1> QED
  BY <1>1, <1>2, <1>3, <1>4

\* The same for Close's first half.
LEMMA HalfClosedIsShell ==
  ASSUME NEW y \in ShellRecord
  PROVE  [y EXCEPT !.once = "half", !.channel = "none"] \in ShellRecord
<1>1. \A x \in ShellRecord : [x EXCEPT !.once = "half"] \in ShellRecord
  BY DEF ShellRecord
<1>2. \A x \in ShellRecord : [x EXCEPT !.channel = "none"] \in ShellRecord
  BY DEF ShellRecord
<1> QED
  BY <1>1, <1>2

\* The same for its second half.
LEMMA ClosedIsShell ==
  ASSUME NEW y \in ShellRecord
  PROVE  [y EXCEPT !.once = "over", !.ssh = "closed", !.ended = TRUE] \in ShellRecord
<1>1. \A x \in ShellRecord : [x EXCEPT !.once = "over"] \in ShellRecord
  BY DEF ShellRecord
<1>2. \A x \in ShellRecord : [x EXCEPT !.ssh = "closed"] \in ShellRecord
  BY DEF ShellRecord
<1>3. \A x \in ShellRecord : [x EXCEPT !.ended = TRUE] \in ShellRecord
  BY DEF ShellRecord
<1> QED
  BY <1>1, <1>2, <1>3

\* The shell starts, or its identity cannot be had.
LEMMA StartSteps ==
  ASSUME ShellInv, NEW s \in Shell, StartShell(s) \/ NotRegistered(s) \/ GaveUp(s)
  PROVE  ShellInv'
<1> DEFINE y == sh[s]
<1>1. y \in ShellRecord /\ ShellPhase(y)
  BY ShellFacts
<1>2. CASE StartShell(s)
  <2> DEFINE again == [y EXCEPT !.at = "session",
                          !.try = IF y.try = "integrated" THEN NextTry(y) ELSE "plain"]
  <2>1. Moves(s, Started(y))
    <3>1. Started(y).at = "add" /\ Started(y).wait = "waiting"
          /\ Started(y).ssh = y.ssh /\ Started(y).once = y.once /\ Started(y).timer = y.timer
          /\ Started(y).attached = y.attached /\ Started(y).closed = y.closed
      BY <1>1 DEF Started, ShellRecord
    <3>2. Started(y).channel \in {"none", "told"}
      BY <1>1 DEF Started, ShellRecord
    <3>3. Started(y) \in ShellRecord
      <4>1. Started(y) = [y EXCEPT !.at = "add", !.wait = "waiting", !.try = "plain",
                                   !.channel = Started(y).channel]
        BY <1>1 DEF Started, ShellRecord
      <4> HIDE DEF y
      <4>2. [y EXCEPT !.at = "add", !.wait = "waiting", !.try = "plain",
                      !.channel = Started(y).channel] \in ShellRecord
        BY <1>1, <3>2, StartedIsShell
      <4> QED BY <4>1, <4>2
    <3>4. y.at = "start"
      BY <1>2 DEF StartShell
    <3> QED BY <1>1, <3>1, <3>2, <3>3, <3>4 DEF Moves, ShellPhase, Unstarted, Open
  <2>2. Moves(s, again)
    BY <1>1, <1>2 DEF StartShell, Moves, ShellRecord, ShellPhase, Unstarted, Open, NextTry
  <2>3. Moves(s, ShellFailed(y))
    BY <1>1, <1>2 DEF StartShell, Moves, ShellFailed, ShellRecord, ShellPhase, Unstarted, Open
  <2> QED BY <1>2, <2>1, <2>2, <2>3, MoveKeeps DEF StartShell
<1>3. CASE NotRegistered(s)
  <2>1. Moves(s, [y EXCEPT !.at = "giveup"])
    BY <1>1, <1>3 DEF NotRegistered, Moves, ShellRecord, ShellPhase, Unstarted, Open
  <2> QED BY <1>3, <2>1, MoveKeeps DEF NotRegistered, ShellAt
<1>4. CASE GaveUp(s)
  <2>1. Moves(s, [y EXCEPT !.at = "failed"])
    BY <1>1, <1>4 DEF GaveUp, Moves, ShellRecord, ShellPhase, Unstarted, Open
  <2> QED BY <1>4, <2>1, MoveKeeps DEF GaveUp, ShellAt
<1> QED BY <1>2, <1>3, <1>4

\* Who calls Close calls it on a shell that has been started.
LEMMA CallsLate ==
  ASSUME ShellInv, NEW s \in Shell, Calls(s)
  PROVE  sh[s].at \notin Unstarted
<1>1. ShellPhase(sh[s])
  BY ShellFacts
<1>2. ASSUME NEW c \in Closer, job[c].cur = s PROVE sh[s].at = "done"
  BY <1>2, NoneIsNoShell DEF ShellInv, JobsHold
<1> QED BY <1>1, <1>2 DEF Calls, ShellPhase, Unstarted

\* Close, the goroutine on session.Wait, the timer before it looks, and the server.
LEMMA RunSteps ==
  ASSUME ShellInv, NEW s \in Shell,
         \/ TimerFires(s) \/ TimerReturns(s) \/ CloseChannel(s) \/ CloseClient(s)
         \/ WaitReturns(s) \/ WaiterReturns(s) \/ RemoteEnds(s) \/ Breaks(s)
  PROVE  ShellInv'
<1> DEFINE y == sh[s]
<1>1. y \in ShellRecord /\ ShellPhase(y)
  BY ShellFacts
<1>10. [y EXCEPT !.once = "half", !.channel = "none"] \in ShellRecord
  BY <1>1, HalfClosedIsShell
<1>11. [y EXCEPT !.once = "over", !.ssh = "closed", !.ended = TRUE] \in ShellRecord
  BY <1>1, ClosedIsShell
<1> USE DEF Moves, ShellRecord, ShellPhase, Unstarted, Open
<1>2. CASE TimerFires(s)
  <2>1. Moves(s, [y EXCEPT !.timer = "fired"])
    BY <1>1, <1>2 DEF TimerFires
  <2> QED BY <1>2, <2>1, MoveKeeps DEF TimerFires
<1>3. CASE TimerReturns(s)
  <2>1. Moves(s, [y EXCEPT !.timer = "over"])
    BY <1>1, <1>3 DEF TimerReturns
  <2> QED BY <1>3, <2>1, MoveKeeps DEF TimerReturns
<1>4. CASE CloseChannel(s)
  <2>1. y.at \notin Unstarted
    BY <1>4, CallsLate DEF CloseChannel
  <2>2. Moves(s, [y EXCEPT !.once = "half", !.channel = "none"])
    <3> DEFINE x == [y EXCEPT !.once = "half", !.channel = "none"]
    <3>1. x \in ShellRecord
      BY <1>10
    <3>2. ShellPhase(x)
      BY <1>1, <2>1
    <3> QED BY <1>1, <3>1, <3>2
  <2> QED BY <1>4, <2>2, MoveKeeps DEF CloseChannel
<1>5. CASE CloseClient(s)
  <2>1. Moves(s, [y EXCEPT !.once = "over", !.ssh = "closed", !.ended = TRUE])
    <3> DEFINE x == [y EXCEPT !.once = "over", !.ssh = "closed", !.ended = TRUE]
    <3>1. x \in ShellRecord
      BY <1>11
    <3>2. ShellPhase(x)
      BY <1>1, <1>5 DEF CloseClient
    <3> QED BY <1>1, <3>1, <3>2
  <2> QED BY <1>5, <2>1, MoveKeeps DEF CloseClient
<1>6. CASE WaitReturns(s)
  <2>1. Moves(s, [y EXCEPT !.wait = "closing"])
    BY <1>1, <1>6 DEF WaitReturns
  <2> QED BY <1>6, <2>1, MoveKeeps DEF WaitReturns, WaiterCloses
<1>7. CASE WaiterReturns(s)
  <2>1. Moves(s, [y EXCEPT !.wait = "over"])
    BY <1>1, <1>7 DEF WaiterReturns
  <2> QED BY <1>7, <2>1, MoveKeeps DEF WaiterReturns
<1>8. CASE RemoteEnds(s)
  <2>1. Moves(s, [y EXCEPT !.ended = TRUE])
    <3> DEFINE x == [y EXCEPT !.ended = TRUE]
    <3>1. x \in ShellRecord
      BY <1>1
    <3>2. ShellPhase(x)
      BY <1>1, <1>8 DEF RemoteEnds
    <3> QED BY <1>1, <3>1, <3>2
  <2> QED BY <1>8, <2>1, MoveKeeps DEF RemoteEnds
<1>9. CASE Breaks(s)
  <2>1. Moves(s, [y EXCEPT !.ssh = "dead"])
    BY <1>1, <1>9 DEF Breaks
  <2> QED BY <1>9, <2>1, MoveKeeps DEF Breaks
<1> QED BY <1>2, <1>3, <1>4, <1>5, <1>6, <1>7, <1>8, <1>9

-----------------------------------------------------------------------------
(* Steps on the map.                                                        *)

\* add: the shell is in the map, its timer is armed, nobody closes it yet.
LEMMA RegisterKeeps ==
  ASSUME ShellInv, NEW s \in Shell, Register(s)
  PROVE  ShellInv'
<1> DEFINE y == sh[s]
<1>1. /\ ShellTypeOK /\ ShellPhases /\ ListedFresh /\ JobsHold /\ JobsIdle
      /\ ReadersHold /\ ShellsHeld /\ ListedAttended /\ ExitSweeps
  BY DEF ShellInv
<1>2. /\ y \in ShellRecord /\ ShellPhase(y) /\ y.at = "add"
      /\ sh' = [sh EXCEPT ![s] = [y EXCEPT !.at = "done", !.timer = "armed"]]
      /\ listed' = listed \cup {s}
      /\ stored' = stored /\ reader' = reader /\ sweep' = sweep /\ job' = job /\ leave' = leave
  BY <1>1, ShellFacts DEF Register, ShellTypeOK
<1>3. [y EXCEPT !.at = "done", !.timer = "armed"] \in ShellRecord
  BY <1>2 DEF ShellRecord
<1>4. /\ sh' \in [Shell -> ShellRecord]
      /\ sh'[s] = [y EXCEPT !.at = "done", !.timer = "armed"]
      /\ \A t \in Shell : t # s => sh'[t] = sh[t]
  BY <1>1, <1>2, <1>3 DEF ShellTypeOK
<1>5. /\ sh'[s].at = "done" /\ sh'[s].timer = "armed"
      /\ ~sh'[s].closed /\ ~sh'[s].attached
      /\ ShellPhase(sh'[s])
  BY <1>2, <1>4 DEF ShellRecord, ShellPhase, Unstarted
<1> HIDE DEF y
<1>6. ShellTypeOK'
  BY <1>1, <1>2, <1>4 DEF ShellTypeOK
<1>7. ShellPhases' /\ ListedFresh'
  BY <1>1, <1>2, <1>4, <1>5 DEF ShellPhases, ListedFresh, ShellTypeOK
<1>8. sh[s].at # "done"
  BY <1>2 DEF y
<1>9. JobsHold' /\ JobsIdle'
  <2>1. \A c \in Closer : job[c].todo \subseteq Shell /\ job[c].cur \in Shell \cup {None}
    BY <1>1 DEF ShellTypeOK
  <2> QED BY <1>1, <1>2, <1>4, <1>8, <2>1 DEF JobsHold, JobsIdle, JobIdle
<1>10. ReadersHold'
  <2>1. \A r \in Reader : reader[r].at # "new" =>
          reader[r].shell \in Shell \ {s} /\ sh'[reader[r].shell] = sh[reader[r].shell]
    BY <1>1, <1>4, <1>8 DEF ShellTypeOK, ReadersHold
  <2> QED BY <1>1, <1>2, <2>1 DEF ReadersHold
<1>11. ShellsHeld'
  BY <1>1, <1>2, <1>4, <1>5 DEF ShellsHeld, Open, TakenOut, Called
<1>12. ListedAttended'
  BY <1>1, <1>2, <1>4, <1>5 DEF ListedAttended, ShellTypeOK
<1>13. ExitSweeps'
  BY <1>1, <1>2 DEF ExitSweeps, y
<1> QED
  BY <1>6, <1>7, <1>9, <1>10, <1>11, <1>12, <1>13 DEF ShellInv

\* closeIfUnattached: a registered shell that nobody attached leaves the map, and
\* the timer calls Close; any other one is left alone.
LEMMA UnattendedKeeps ==
  ASSUME ShellInv, NEW s \in Shell, CloseIfUnattached(s)
  PROVE  ShellInv'
<1> DEFINE y == sh[s]
<1>1. /\ ShellTypeOK /\ ShellPhases /\ ListedFresh /\ JobsHold /\ JobsIdle
      /\ ReadersHold /\ ShellsHeld /\ ListedAttended /\ ExitSweeps
  BY DEF ShellInv
<1>2. /\ y \in ShellRecord /\ ShellPhase(y) /\ y.timer = "fired"
      /\ stored' = stored /\ reader' = reader /\ sweep' = sweep /\ job' = job /\ leave' = leave
  BY <1>1, ShellFacts DEF CloseIfUnattached, ShellTypeOK
<1>3. y.at = "done"
  BY <1>2 DEF ShellPhase
<1>4. CASE Unattended(s)
  <2> DEFINE x == [y EXCEPT !.timer = "closing", !.closed = TRUE]
  <2>1. sh' = [sh EXCEPT ![s] = x] /\ listed' = listed \ {s}
    BY <1>1, <1>4 DEF CloseIfUnattached, ShellTypeOK
  <2>2. x \in ShellRecord
    BY <1>2 DEF ShellRecord
  <2>3. ~y.attached /\ s \in listed
    BY <1>4 DEF Unattended
  <2>4. /\ x.at = "done" /\ x.timer = "closing" /\ x.closed /\ ~x.attached /\ x.ssh = y.ssh
        /\ ShellPhase(x)
    BY <1>2, <1>3, <2>3 DEF ShellRecord, ShellPhase, Unstarted
  <2> HIDE DEF x
  <2>5. /\ sh' \in [Shell -> ShellRecord] /\ sh'[s] = x
        /\ \A t \in Shell : t # s => sh'[t] = sh[t]
    BY <1>1, <2>1, <2>2 DEF ShellTypeOK
  <2>6. \A t \in Shell : /\ sh'[t].at = sh[t].at /\ sh'[t].attached = sh[t].attached
                         /\ sh[t].closed => sh'[t].closed
    <3>1. \A t \in Shell : sh'[t].at = sh[t].at
      BY <1>3, <2>4, <2>5
    <3>2. \A t \in Shell : sh'[t].attached = sh[t].attached
      <4>1. x.attached = y.attached
        BY <1>2 DEF x, ShellRecord
      <4> QED BY <2>5, <4>1
    <3>3. \A t \in Shell : sh[t].closed => sh'[t].closed
      BY <2>4, <2>5
    <3> QED BY <3>1, <3>2, <3>3
  <2>7. ShellTypeOK'
    BY <1>1, <1>2, <2>1, <2>5 DEF ShellTypeOK
  <2>8. ShellPhases' /\ ListedFresh'
    BY <1>1, <2>1, <2>4, <2>5 DEF ShellPhases, ListedFresh, ShellTypeOK
  <2>9. JobsHold' /\ JobsIdle'
    <3>1. \A c \in Closer : job[c].todo \subseteq Shell /\ job[c].cur \in Shell \cup {None}
      BY <1>1 DEF ShellTypeOK
    <3> QED BY <1>1, <1>2, <2>1, <2>6, <3>1 DEF JobsHold, JobsIdle, JobIdle
  <2>10. ReadersHold'
    <3>1. \A r \in Reader : reader[r].at # "new" => reader[r].shell \in Shell
      BY <1>1 DEF ShellTypeOK, ReadersHold
    <3> QED BY <1>1, <1>2, <2>6, <3>1 DEF ReadersHold
  <2>11. ShellsHeld'
    BY <1>1, <1>2, <2>1, <2>4, <2>5 DEF ShellsHeld, Open, TakenOut, Called
  <2>12. ListedAttended'
    BY <1>1, <1>2, <2>1, <2>5 DEF ListedAttended, ShellTypeOK
  <2>13. ExitSweeps'
    BY <1>1, <1>2, <2>1, <2>6 DEF ExitSweeps
  <2> QED
    BY <2>7, <2>8, <2>9, <2>10, <2>11, <2>12, <2>13 DEF ShellInv
<1>5. CASE ~Unattended(s)
  <2> DEFINE x == [y EXCEPT !.timer = "over"]
  <2>1. sh' = [sh EXCEPT ![s] = x] /\ listed' = listed
    BY <1>1, <1>5 DEF CloseIfUnattached, ShellTypeOK
  <2>2. x \in ShellRecord
    BY <1>2 DEF ShellRecord
  <2>3. /\ x.at = "done" /\ x.timer = "over" /\ x.closed = y.closed
        /\ x.attached = y.attached /\ x.ssh = y.ssh /\ ShellPhase(x)
    BY <1>2, <1>3 DEF ShellRecord, ShellPhase, Unstarted
  <2> HIDE DEF x
  <2>5. /\ sh' \in [Shell -> ShellRecord] /\ sh'[s] = x
        /\ \A t \in Shell : t # s => sh'[t] = sh[t]
    BY <1>1, <2>1, <2>2 DEF ShellTypeOK
  <2>6. \A t \in Shell : /\ sh'[t].at = sh[t].at /\ sh'[t].attached = sh[t].attached
                         /\ sh'[t].closed = sh[t].closed /\ sh'[t].ssh = sh[t].ssh
                         /\ sh[t].timer = "closing" => sh'[t].timer = "closing"
    BY <1>2, <1>3, <2>3, <2>5
  <2>7. ShellTypeOK'
    BY <1>1, <1>2, <2>1, <2>5 DEF ShellTypeOK
  <2>8. ShellPhases' /\ ListedFresh'
    BY <1>1, <2>1, <2>3, <2>5, <2>6 DEF ShellPhases, ListedFresh, ShellTypeOK
  <2>9. JobsHold' /\ JobsIdle'
    <3>1. \A c \in Closer : job[c].todo \subseteq Shell /\ job[c].cur \in Shell \cup {None}
      BY <1>1 DEF ShellTypeOK
    <3> QED BY <1>1, <1>2, <2>1, <2>6, <3>1 DEF JobsHold, JobsIdle, JobIdle
  <2>10. ReadersHold'
    <3>1. \A r \in Reader : reader[r].at # "new" => reader[r].shell \in Shell
      BY <1>1 DEF ShellTypeOK, ReadersHold
    <3> QED BY <1>1, <1>2, <2>6, <3>1 DEF ReadersHold
  <2>11. ShellsHeld'
    BY <1>1, <1>2, <2>1, <2>6 DEF ShellsHeld, Open, TakenOut, Called
  <2>12. ListedAttended'
    <3>1. s \in listed => sh[s].attached
      BY <1>1, <1>5 DEF Unattended, ListedFresh
    <3> QED BY <1>1, <1>2, <2>1, <2>5, <2>6, <3>1 DEF ListedAttended, ShellTypeOK
  <2>13. ExitSweeps'
    BY <1>1, <1>2, <2>1, <2>6 DEF ExitSweeps
  <2> QED
    BY <2>7, <2>8, <2>9, <2>10, <2>11, <2>12, <2>13 DEF ShellInv
<1> QED BY <1>4, <1>5

\* A closer that has nothing else to do takes shells out of the map: none of
\* them, and none that another closer holds, is lost.
LEMMA TakeHolds ==
  ASSUME ShellInv, NEW c \in Closer, NEW S, Take(c, S), JobIdle(c), sh' = sh
  PROVE  /\ ShellPhases' /\ ListedFresh' /\ JobsHold' /\ ShellsHeld'
         /\ job' \in [Closer -> [todo : SUBSET Shell, cur : Shell \cup {None}]]
         /\ listed' \subseteq listed /\ listed \subseteq Shell
         /\ \A d \in Closer : d # c => job'[d] = job[d]
<1>1. /\ ShellTypeOK /\ ShellPhases /\ ListedFresh /\ JobsHold /\ ShellsHeld
  BY DEF ShellInv
<1>2. /\ job \in [Closer -> [todo : SUBSET Shell, cur : Shell \cup {None}]]
      /\ listed \subseteq Shell
      /\ job' = [job EXCEPT ![c].todo = S \cap listed]
      /\ listed' = listed \ S
      /\ job[c].todo = {} /\ job[c].cur = None
  BY <1>1 DEF ShellTypeOK, Take, JobIdle
<1>3. job'[c] = [todo |-> S \cap listed, cur |-> None]
  BY <1>2
<1>4. \A d \in Closer : d # c => job'[d] = job[d]
  BY <1>2
<1>5. job' \in [Closer -> [todo : SUBSET Shell, cur : Shell \cup {None}]]
  BY <1>2
<1>6. ShellPhases' /\ ListedFresh'
  BY <1>1, <1>2 DEF ShellPhases, ListedFresh
<1>7. JobsHold'
  BY <1>1, <1>2, <1>3, <1>4 DEF JobsHold, ListedFresh
<1>8. ShellsHeld'
  <2> SUFFICES ASSUME NEW t \in Shell, Open(t)', sh'[t].at = "done"
               PROVE  /\ (t \in listed \/ TakenOut(t) \/ Called(t))'
                      /\ sh'[t].closed => Called(t)'
    BY DEF ShellsHeld
  <2>1. /\ t \in listed \/ TakenOut(t) \/ Called(t)
        /\ sh[t].closed => Called(t)
    BY <1>1 DEF ShellsHeld, Open
  <2>2. Called(t) => Called(t)'
    BY <1>2, <1>4, NoneIsNoShell DEF Called
  <2>3. TakenOut(t) => TakenOut(t)'
    BY <1>2, <1>4 DEF TakenOut
  <2>4. t \in listed => t \in listed' \/ TakenOut(t)'
    BY <1>2, <1>3 DEF TakenOut
  <2> QED BY <2>1, <2>2, <2>3, <2>4
<1> QED BY <1>2, <1>4, <1>5, <1>6, <1>7, <1>8

\* The steps that take terminals from the map: the output request's deferred close.
LEMMA StreamEndsKeeps ==
  ASSUME ShellInv, NEW r \in Reader, StreamEnds(r)
  PROVE  ShellInv'
<1>1. /\ ShellTypeOK /\ JobsIdle /\ ReadersHold /\ ListedAttended /\ ExitSweeps
  BY DEF ShellInv
<1>2. /\ reader[r].at = "reading" /\ Take(r, {reader[r].shell})
      /\ reader' = [reader EXCEPT ![r].at = "leaving"]
      /\ sh' = sh /\ stored' = stored /\ sweep' = sweep /\ leave' = leave
  BY DEF StreamEnds
<1>3. r \in Closer /\ JobIdle(r)
  BY <1>1, <1>2, ClosersDistinct DEF JobsIdle
<1>4. /\ ShellPhases' /\ ListedFresh' /\ JobsHold' /\ ShellsHeld'
      /\ job' \in [Closer -> [todo : SUBSET Shell, cur : Shell \cup {None}]]
      /\ listed' \subseteq listed /\ listed \subseteq Shell
      /\ \A d \in Closer : d # r => job'[d] = job[d]
  BY <1>2, <1>3, TakeHolds
<1>5. /\ reader'[r] = [reader[r] EXCEPT !.at = "leaving"]
      /\ \A q \in Reader : q # r => reader'[q] = reader[q]
  BY <1>1, <1>2 DEF ShellTypeOK
<1>6. ShellTypeOK'
  <2>1. [reader[r] EXCEPT !.at = "leaving"] \in
           [at : {"new", "found", "reading", "leaving", "over"},
            shell : Shell \cup {None}, gone : BOOLEAN,
            ctx : {"none", "watching", "closing", "over"}]
    BY <1>1 DEF ShellTypeOK
  <2> QED BY <1>1, <1>2, <1>4, <2>1 DEF ShellTypeOK
<1>7. JobsIdle'
  <2>1. \A q \in Reader : reader'[q].ctx = reader[q].ctx
    BY <1>1, <1>5 DEF ShellTypeOK
  <2>2. reader'[r].at = "leaving"
    BY <1>1, <1>5 DEF ShellTypeOK
  <2> QED BY <1>1, <1>2, <1>4, <1>5, <2>1, <2>2, ClosersDistinct DEF JobsIdle, JobIdle
<1>8. ReadersHold'
  <2>1. /\ reader'[r].at = "leaving" /\ reader'[r].shell = reader[r].shell
        /\ reader'[r].ctx = reader[r].ctx
    BY <1>1, <1>5 DEF ShellTypeOK
  <2> QED BY <1>1, <1>2, <1>5, <2>1 DEF ReadersHold
<1>9. ListedAttended'
  <2> SUFFICES ASSUME NEW s \in listed'
               PROVE  /\ ~sh[s].attached => sh[s].timer \in {"armed", "fired"}
                      /\ sh[s].attached => \E q \in Reader :
                           reader'[q].shell = s /\ reader'[q].at = "reading"
    BY <1>2 DEF ListedAttended
  <2>1. s \in listed /\ s # reader[r].shell
    BY <1>2, <1>4 DEF Take
  <2> QED BY <1>1, <1>5, <2>1 DEF ListedAttended
<1>10. ExitSweeps'
  BY <1>1, <1>2, <1>4 DEF ExitSweeps
<1> QED
  BY <1>4, <1>6, <1>7, <1>8, <1>9, <1>10 DEF ShellInv

\* The goroutine on the output request's context.
LEMMA ContextDoneKeeps ==
  ASSUME ShellInv, NEW r \in Reader, ContextDone(r)
  PROVE  ShellInv'
<1>1. /\ ShellTypeOK /\ JobsIdle /\ ReadersHold /\ ListedAttended /\ ExitSweeps
  BY DEF ShellInv
<1>2. /\ reader[r].ctx = "watching" /\ Take(Ctx(r), {reader[r].shell})
      /\ reader' = [reader EXCEPT ![r].ctx = "closing"]
      /\ sh' = sh /\ stored' = stored /\ sweep' = sweep /\ leave' = leave
  BY DEF ContextDone
<1>3. Ctx(r) \in Closer /\ JobIdle(Ctx(r))
  BY <1>1, <1>2, ClosersDistinct DEF JobsIdle
<1>4. /\ ShellPhases' /\ ListedFresh' /\ JobsHold' /\ ShellsHeld'
      /\ job' \in [Closer -> [todo : SUBSET Shell, cur : Shell \cup {None}]]
      /\ listed' \subseteq listed /\ listed \subseteq Shell
      /\ \A d \in Closer : d # Ctx(r) => job'[d] = job[d]
  BY <1>2, <1>3, TakeHolds
<1>5. /\ reader'[r] = [reader[r] EXCEPT !.ctx = "closing"]
      /\ \A q \in Reader : q # r => reader'[q] = reader[q]
  BY <1>1, <1>2 DEF ShellTypeOK
<1>6. /\ reader'[r].ctx = "closing"
      /\ \A q \in Reader : reader'[q].at = reader[q].at /\ reader'[q].shell = reader[q].shell
  BY <1>1, <1>5 DEF ShellTypeOK
<1>7. ShellTypeOK'
  <2>1. [reader[r] EXCEPT !.ctx = "closing"] \in
           [at : {"new", "found", "reading", "leaving", "over"},
            shell : Shell \cup {None}, gone : BOOLEAN,
            ctx : {"none", "watching", "closing", "over"}]
    BY <1>1 DEF ShellTypeOK
  <2> QED BY <1>1, <1>2, <1>4, <2>1 DEF ShellTypeOK
<1>8. JobsIdle'
  BY <1>1, <1>2, <1>4, <1>5, <1>6, ClosersDistinct DEF JobsIdle, JobIdle
<1>9. ReadersHold'
  BY <1>1, <1>2, <1>5, <1>6 DEF ReadersHold
<1>10. ListedAttended'
  BY <1>1, <1>2, <1>4, <1>6 DEF ListedAttended
<1>11. ExitSweeps'
  BY <1>1, <1>2, <1>4 DEF ExitSweeps
<1> QED
  BY <1>4, <1>7, <1>8, <1>9, <1>10, <1>11 DEF ShellInv

\* A request that closes a terminal or, after a deletion, those of a profile.
LEMMA SweepKeeps ==
  ASSUME ShellInv, NEW w \in Sweeper, CloseRequest(w) \/ CloseProfile(w)
  PROVE  ShellInv'
<1>1. /\ ShellTypeOK /\ JobsIdle /\ ReadersHold /\ ListedAttended /\ ExitSweeps
  BY DEF ShellInv
<1>2. PICK S : /\ sweep[w].at # "sweeping" /\ Take(w, S)
               /\ sweep' = [sweep EXCEPT ![w].at = "sweeping"]
               /\ sh' = sh /\ stored' = stored /\ reader' = reader /\ leave' = leave
  BY DEF CloseRequest, CloseProfile
<1>3. w \in Closer /\ JobIdle(w)
  BY <1>1, <1>2, ClosersDistinct DEF JobsIdle
<1>4. /\ ShellPhases' /\ ListedFresh' /\ JobsHold' /\ ShellsHeld'
      /\ job' \in [Closer -> [todo : SUBSET Shell, cur : Shell \cup {None}]]
      /\ listed' \subseteq listed /\ listed \subseteq Shell
      /\ \A d \in Closer : d # w => job'[d] = job[d]
  BY <1>2, <1>3, TakeHolds
<1>5. ShellTypeOK'
  BY <1>1, <1>2, <1>4 DEF ShellTypeOK
<1>6. JobsIdle'
  <2>1. sweep'[w].at = "sweeping" /\ \A v \in Sweeper : v # w => sweep'[v] = sweep[v]
    BY <1>1, <1>2 DEF ShellTypeOK
  <2> QED BY <1>1, <1>2, <1>4, <2>1, ClosersDistinct DEF JobsIdle, JobIdle
<1>7. ReadersHold'
  BY <1>1, <1>2 DEF ReadersHold
<1>8. ListedAttended'
  BY <1>1, <1>2, <1>4 DEF ListedAttended
<1>9. ExitSweeps'
  BY <1>1, <1>2, <1>4 DEF ExitSweeps
<1> QED
  BY <1>4, <1>5, <1>6, <1>7, <1>8, <1>9 DEF ShellInv

\* closeAll, before the HTTP server is shut down and after.
LEMMA CloseAllKeeps ==
  ASSUME ShellInv, ExitBegins \/ DeferredCloseAll
  PROVE  ShellInv'
<1>1. /\ ShellTypeOK /\ ShellPhases /\ JobsIdle /\ ReadersHold /\ ListedAttended /\ ExitSweeps
  BY DEF ShellInv
<1>2. /\ leave.at \notin {"closing", "again"} /\ Take(Exiter, Shell)
      /\ leave' \in [at : {"closing", "again"}, cut : BOOLEAN]
      /\ leave'.at = "again" => leave'.cut = Handling
      /\ sh' = sh /\ stored' = stored /\ reader' = reader /\ sweep' = sweep
  <2>1. CASE ExitBegins
    BY <1>1, <2>1 DEF ExitBegins, ShellTypeOK
  <2>2. CASE DeferredCloseAll
    BY <2>2 DEF DeferredCloseAll, CloseAll, Handling
  <2> QED BY <2>1, <2>2
<1>3. Exiter \in Closer /\ JobIdle(Exiter)
  BY <1>1, <1>2, ClosersDistinct DEF JobsIdle
<1>4. /\ ShellPhases' /\ ListedFresh' /\ JobsHold' /\ ShellsHeld'
      /\ job' \in [Closer -> [todo : SUBSET Shell, cur : Shell \cup {None}]]
      /\ listed' \subseteq listed /\ listed \subseteq Shell
      /\ \A d \in Closer : d # Exiter => job'[d] = job[d]
  BY <1>2, <1>3, TakeHolds
<1>5. ShellTypeOK'
  BY <1>1, <1>2, <1>4 DEF ShellTypeOK
<1>6. JobsIdle'
  BY <1>1, <1>2, <1>4, ClosersDistinct DEF JobsIdle, JobIdle
<1>7. ReadersHold'
  BY <1>1, <1>2 DEF ReadersHold
<1>8. ListedAttended'
  BY <1>1, <1>2, <1>4 DEF ListedAttended
<1>9. ExitSweeps'
  <2>1. listed' = {}
    BY <1>2, <1>4 DEF Take
  <2>2. \A s \in Shell : sh[s].at \notin {"new", "done", "failed"} => Handling
    BY DEF Handling
  <2> QED BY <1>2, <2>1, <2>2 DEF ExitSweeps
<1> QED
  BY <1>4, <1>5, <1>6, <1>7, <1>8, <1>9 DEF ShellInv

-----------------------------------------------------------------------------
(* Closers at work.                                                         *)

\* Records of shells that are marked, or attached, and whose timer is stopped.
LEMMA StoppedIsShell ==
  ASSUME NEW y \in ShellRecord
  PROVE  /\ [y EXCEPT !.closed = TRUE, !.timer = Stopped(@)] \in ShellRecord
         /\ [y EXCEPT !.attached = TRUE, !.timer = Stopped(@)] \in ShellRecord
<1>1. Stopped(y.timer) \in {"none", "armed", "fired", "closing", "over"}
  BY DEF ShellRecord, Stopped
<1>2. ASSUME NEW t \in {"none", "armed", "fired", "closing", "over"}
      PROVE  [y EXCEPT !.closed = TRUE, !.timer = t] \in ShellRecord
  BY DEF ShellRecord
<1>3. ASSUME NEW t \in {"none", "armed", "fired", "closing", "over"}
      PROVE  [y EXCEPT !.attached = TRUE, !.timer = t] \in ShellRecord
  BY DEF ShellRecord
<1>4. [y EXCEPT !.closed = TRUE, !.timer = Stopped(y.timer)] \in ShellRecord
  BY <1>1, <1>2
<1>5. [y EXCEPT !.attached = TRUE, !.timer = Stopped(y.timer)] \in ShellRecord
  BY <1>1, <1>3
<1> QED BY <1>4, <1>5 DEF ShellRecord

\* launcherShell.close: a shell that somebody has marked is that one's; another
\* one is marked and held until Close returns.
LEMMA CloseOneKeeps ==
  ASSUME ShellInv, NEW c \in Closer, CloseOne(c)
  PROVE  ShellInv'
<1>1. /\ ShellTypeOK /\ ShellPhases /\ ListedFresh /\ JobsHold /\ JobsIdle
      /\ ReadersHold /\ ShellsHeld /\ ListedAttended /\ ExitSweeps
  BY DEF ShellInv
<1>2. /\ job[c].cur = None
      /\ listed' = listed /\ stored' = stored /\ reader' = reader
      /\ sweep' = sweep /\ leave' = leave
  BY DEF CloseOne
<1>3. PICK s \in job[c].todo :
        IF sh[s].closed
          THEN /\ job' = [job EXCEPT ![c].todo = @ \ {s}]
               /\ sh' = sh
          ELSE /\ job' = [job EXCEPT ![c] = [todo |-> @.todo \ {s}, cur |-> s]]
               /\ sh' = [sh EXCEPT ![s].closed = TRUE, ![s].timer = Stopped(@)]
  BY DEF CloseOne
<1>4. /\ job[c].todo \subseteq Shell
      /\ \A d \in Closer : job[d].todo \subseteq Shell /\ job[d].cur \in Shell \cup {None}
  BY <1>1 DEF ShellTypeOK
<1>5. s \in Shell /\ sh[s].at = "done" /\ s \notin listed
  BY <1>1, <1>3, <1>4 DEF JobsHold
<1>6. ~JobIdle(c)
  BY <1>3 DEF JobIdle
<1>7. CASE sh[s].closed
  <2>1. /\ job' = [job EXCEPT ![c].todo = @ \ {s}] /\ sh' = sh
    BY <1>3, <1>7
  <2>2. /\ job'[c].todo = job[c].todo \ {s} /\ job'[c].cur = None
        /\ \A d \in Closer : d # c => job'[d] = job[d]
    BY <1>1, <1>2, <2>1 DEF ShellTypeOK
  <2>3. ShellTypeOK'
    BY <1>1, <1>2, <2>1 DEF ShellTypeOK
  <2>4. ShellPhases' /\ ListedFresh' /\ ReadersHold' /\ ListedAttended' /\ ExitSweeps'
    BY <1>1, <1>2, <2>1 DEF ShellPhases, ListedFresh, ReadersHold, ListedAttended, ExitSweeps
  <2>5. JobsHold'
    BY <1>1, <1>2, <2>1, <2>2 DEF JobsHold
  <2>6. \A d \in Closer : JobIdle(d) => JobIdle(d)'
    BY <1>6, <2>2 DEF JobIdle
  <2>7. JobsIdle'
    BY <1>1, <1>2, <2>6, ClosersDistinct DEF JobsIdle
  <2>8. ShellsHeld'
    <3> SUFFICES ASSUME NEW t \in Shell, Open(t)', sh'[t].at = "done"
                 PROVE  /\ (t \in listed \/ TakenOut(t) \/ Called(t))'
                        /\ sh'[t].closed => Called(t)'
      BY DEF ShellsHeld
    <3>1. /\ t \in listed \/ TakenOut(t) \/ Called(t)
          /\ sh[t].closed => Called(t)
      BY <1>1, <2>1 DEF ShellsHeld, Open
    <3>2. Called(t) => Called(t)'
      BY <1>2, <2>1, <2>2, NoneIsNoShell DEF Called
    <3>3. t # s => (TakenOut(t) => TakenOut(t)')
      BY <2>2 DEF TakenOut
    <3> QED BY <1>2, <1>7, <2>1, <3>1, <3>2, <3>3
  <2> QED
    BY <2>3, <2>4, <2>5, <2>7, <2>8 DEF ShellInv
<1>8. CASE ~sh[s].closed
  <2> DEFINE x == [sh[s] EXCEPT !.closed = TRUE, !.timer = Stopped(@)]
  <2>1. /\ job' = [job EXCEPT ![c] = [todo |-> @.todo \ {s}, cur |-> s]]
        /\ sh' = [sh EXCEPT ![s] = x]
    BY <1>1, <1>3, <1>5, <1>8 DEF ShellTypeOK
  <2>2. /\ job'[c].todo = job[c].todo \ {s} /\ job'[c].cur = s
        /\ \A d \in Closer : d # c => job'[d] = job[d]
    BY <1>1, <2>1 DEF ShellTypeOK
  <2>3. sh[s] \in ShellRecord /\ ShellPhase(sh[s])
    BY <1>5, ShellFacts
  <2>4. x \in ShellRecord
    BY <2>3, StoppedIsShell
  <2>5. /\ x.at = "done" /\ x.closed /\ x.attached = sh[s].attached /\ x.ssh = sh[s].ssh
        /\ ShellPhase(x)
    BY <1>5, <1>8, <2>3 DEF ShellRecord, ShellPhase, Unstarted, Stopped
  <2> HIDE DEF x
  <2>6. /\ sh' \in [Shell -> ShellRecord] /\ sh'[s] = x
        /\ \A t \in Shell : t # s => sh'[t] = sh[t]
    BY <1>1, <1>5, <2>1, <2>4 DEF ShellTypeOK
  <2>7. \A t \in Shell : /\ sh'[t].at = sh[t].at /\ sh'[t].attached = sh[t].attached
                         /\ sh'[t].ssh = sh[t].ssh
    BY <1>5, <2>5, <2>6
  <2>8. ShellTypeOK'
    BY <1>1, <1>2, <1>5, <2>1, <2>6 DEF ShellTypeOK
  <2>9. ShellPhases' /\ ListedFresh'
    BY <1>1, <1>2, <1>5, <2>5, <2>6 DEF ShellPhases, ListedFresh, ShellTypeOK
  <2>10. JobsHold'
    <3>1. \A t \in Shell : sh[t].closed => sh'[t].closed
      BY <2>5, <2>6
    <3> SUFFICES ASSUME NEW d \in Closer
                 PROVE  /\ \A t \in job'[d].todo : sh'[t].at = "done" /\ t \notin listed'
                        /\ job'[d].cur # None => /\ sh'[job'[d].cur].at = "done"
                                                 /\ sh'[job'[d].cur].closed
                                                 /\ job'[d].cur \notin listed'
      BY DEF JobsHold
    <3>2. CASE d = c
      BY <1>1, <1>2, <1>4, <1>5, <2>2, <2>5, <2>6, <2>7, <3>2 DEF JobsHold
    <3>3. CASE d # c
      BY <1>1, <1>2, <1>4, <2>2, <2>7, <3>1, <3>3 DEF JobsHold
    <3> QED BY <3>2, <3>3
  <2>11. \A d \in Closer : JobIdle(d) => JobIdle(d)'
    BY <1>6, <2>2 DEF JobIdle
  <2>12. JobsIdle'
    BY <1>1, <1>2, <2>11, ClosersDistinct DEF JobsIdle
  <2>13. ReadersHold'
    <3>1. \A r \in Reader : reader[r].at # "new" => reader[r].shell \in Shell
      BY <1>1 DEF ShellTypeOK, ReadersHold
    <3> QED BY <1>1, <1>2, <2>7, <3>1 DEF ReadersHold
  <2>14. ShellsHeld'
    <3> SUFFICES ASSUME NEW t \in Shell, Open(t)', sh'[t].at = "done"
                 PROVE  /\ (t \in listed \/ TakenOut(t) \/ Called(t))'
                        /\ sh'[t].closed => Called(t)'
      BY DEF ShellsHeld
    <3>1. CASE t = s
      BY <2>2, <3>1 DEF Called
    <3>2. CASE t # s
      <4>1. /\ t \in listed \/ TakenOut(t) \/ Called(t)
            /\ sh[t].closed => Called(t)
        BY <1>1, <2>6, <3>2 DEF ShellsHeld, Open
      <4>2. Called(t) => Called(t)'
        BY <1>2, <2>2, <2>6, <3>2, NoneIsNoShell DEF Called
      <4>3. TakenOut(t) => TakenOut(t)'
        BY <2>2, <3>2 DEF TakenOut
      <4> QED BY <1>2, <2>6, <3>2, <4>1, <4>2, <4>3
    <3> QED BY <3>1, <3>2
  <2>15. ListedAttended'
    BY <1>1, <1>2, <1>5, <2>6 DEF ListedAttended, ShellTypeOK
  <2>16. ExitSweeps'
    BY <1>1, <1>2, <2>7 DEF ExitSweeps
  <2> QED
    BY <2>8, <2>9, <2>10, <2>12, <2>13, <2>14, <2>15, <2>16 DEF ShellInv
<1> QED BY <1>7, <1>8

\* Close returns to its caller: the connection of the shell is closed.
LEMMA CloseReturnsKeeps ==
  ASSUME ShellInv, NEW c \in Closer, CloseReturns(c)
  PROVE  ShellInv'
<1>1. /\ ShellTypeOK /\ ShellPhases /\ ListedFresh /\ JobsHold /\ JobsIdle
      /\ ReadersHold /\ ShellsHeld /\ ListedAttended /\ ExitSweeps
  BY DEF ShellInv
<1>2. /\ job[c].cur # None /\ sh[job[c].cur].once = "over"
      /\ job' = [job EXCEPT ![c].cur = None]
      /\ sh' = sh /\ listed' = listed /\ stored' = stored /\ reader' = reader
      /\ sweep' = sweep /\ leave' = leave
  BY DEF CloseReturns
<1>3. /\ job'[c].todo = job[c].todo /\ job'[c].cur = None
      /\ \A d \in Closer : d # c => job'[d] = job[d]
  BY <1>1, <1>2 DEF ShellTypeOK
<1>4. ShellTypeOK'
  BY <1>1, <1>2 DEF ShellTypeOK
<1>5. ShellPhases' /\ ListedFresh' /\ ReadersHold' /\ ListedAttended' /\ ExitSweeps'
  BY <1>1, <1>2 DEF ShellPhases, ListedFresh, ReadersHold, ListedAttended, ExitSweeps
<1>6. JobsHold'
  BY <1>1, <1>2, <1>3 DEF JobsHold
<1>7. \A d \in Closer : JobIdle(d) => JobIdle(d)'
  BY <1>2, <1>3 DEF JobIdle
<1>8. JobsIdle'
  BY <1>1, <1>2, <1>7, ClosersDistinct DEF JobsIdle
<1>9. ShellsHeld'
  <2> SUFFICES ASSUME NEW t \in Shell, Open(t), sh[t].at = "done"
               PROVE  /\ (t \in listed \/ TakenOut(t) \/ Called(t))'
                      /\ sh[t].closed => Called(t)'
    BY <1>2 DEF ShellsHeld, Open
  <2>1. t # job[c].cur
    BY <1>1, <1>2 DEF Open, ShellPhases, ShellPhase
  <2>2. Called(t) => Called(t)'
    BY <1>2, <1>3, <2>1 DEF Called
  <2>3. TakenOut(t) => TakenOut(t)'
    BY <1>3 DEF TakenOut
  <2> QED BY <1>1, <1>2, <2>2, <2>3 DEF ShellsHeld
<1> QED
  BY <1>4, <1>5, <1>6, <1>8, <1>9 DEF ShellInv

-----------------------------------------------------------------------------
(* Output requests, the deletion of a profile, the exit.                    *)

\* Steps that change output requests only.
LEMMA ReaderSteps ==
  ASSUME ShellInv, NEW r \in Reader,
         \/ Get(r) \/ BrowserLeaves(r) \/ ReaderReturns(r) \/ ContextReturns(r)
  PROVE  ShellInv'
<1>1. /\ ShellTypeOK /\ ShellPhases /\ ListedFresh /\ JobsHold /\ JobsIdle
      /\ ReadersHold /\ ShellsHeld /\ ListedAttended /\ ExitSweeps
  BY DEF ShellInv
<1>2. /\ sh' = sh /\ listed' = listed /\ stored' = stored /\ sweep' = sweep
      /\ job' = job /\ leave' = leave
  BY DEF Get, BrowserLeaves, ReaderReturns, ContextReturns
<1>3. PICK y : reader' = [reader EXCEPT ![r] = y] /\
        \/ /\ reader[r].at = "new"
           /\ \E s \in listed : y = [reader[r] EXCEPT !.at = "found", !.shell = s]
        \/ reader[r].at = "reading" /\ y = [reader[r] EXCEPT !.gone = TRUE]
        \/ reader[r].at = "leaving" /\ JobIdle(r) /\ y = [reader[r] EXCEPT !.at = "over"]
        \/ /\ reader[r].ctx = "closing" => JobIdle(Ctx(r))
           /\ y = [reader[r] EXCEPT !.ctx = "over"]
  <2>1. CASE Get(r)
    <3>1. PICK s \in listed : reader' = [reader EXCEPT ![r].at = "found", ![r].shell = s]
      BY <2>1 DEF Get
    <3>2. reader' = [reader EXCEPT ![r] = [reader[r] EXCEPT !.at = "found", !.shell = s]]
      BY <1>1, <3>1 DEF ShellTypeOK
    <3> QED BY <2>1, <3>2 DEF Get
  <2>2. CASE BrowserLeaves(r)
    BY <1>1, <2>2 DEF BrowserLeaves, ShellTypeOK
  <2>3. CASE ReaderReturns(r)
    BY <1>1, <2>3 DEF ReaderReturns, ShellTypeOK
  <2>4. CASE ContextReturns(r)
    BY <1>1, <2>4 DEF ContextReturns, ShellTypeOK
  <2> QED BY <2>1, <2>2, <2>3, <2>4
<1>4. /\ y \in [at : {"new", "found", "reading", "leaving", "over"},
                shell : Shell \cup {None}, gone : BOOLEAN,
                ctx : {"none", "watching", "closing", "over"}]
      /\ y.at # "new" => y.shell # None /\ sh[y.shell].at = "done"
      /\ y.at = "reading" <=> reader[r].at = "reading"
      /\ y.at = "reading" => y.shell = reader[r].shell
      /\ y.ctx \in {"watching", "closing"} => y.at \notin {"new", "found"}
      /\ y.at # "leaving" => reader[r].at # "leaving" \/ JobIdle(r)
      /\ y.ctx # "closing" => reader[r].ctx # "closing" \/ JobIdle(Ctx(r))
  <2>1. reader[r] \in [at : {"new", "found", "reading", "leaving", "over"},
                       shell : Shell \cup {None}, gone : BOOLEAN,
                       ctx : {"none", "watching", "closing", "over"}]
    BY <1>1 DEF ShellTypeOK
  <2>2. \A s \in listed : s \in Shell /\ s # None /\ sh[s].at = "done"
    BY <1>1, NoneIsNoShell DEF ShellTypeOK, ListedFresh
  <2>3. /\ reader[r].at # "new" => reader[r].shell # None /\ sh[reader[r].shell].at = "done"
        /\ reader[r].ctx \in {"watching", "closing"} => reader[r].at \notin {"new", "found"}
    BY <1>1 DEF ReadersHold
  <2> QED BY <1>3, <2>1, <2>2, <2>3
<1>5. reader'[r] = y /\ \A q \in Reader : q # r => reader'[q] = reader[q]
  BY <1>1, <1>3 DEF ShellTypeOK
<1>6. ShellTypeOK'
  BY <1>1, <1>2, <1>3, <1>4 DEF ShellTypeOK
<1>7. ShellPhases' /\ ListedFresh' /\ JobsHold' /\ ExitSweeps' /\ ShellsHeld'
  BY <1>1, <1>2
     DEF ShellPhases, ListedFresh, JobsHold, ExitSweeps, ShellsHeld, Open, TakenOut, Called
<1>8. JobsIdle'
  BY <1>1, <1>2, <1>4, <1>5 DEF JobsIdle, JobIdle
<1>9. ReadersHold'
  BY <1>1, <1>2, <1>4, <1>5 DEF ReadersHold
<1>10. ListedAttended'
  BY <1>1, <1>2, <1>4, <1>5 DEF ListedAttended
<1> QED
  BY <1>6, <1>7, <1>8, <1>9, <1>10 DEF ShellInv

\* attach: the first request gets the output, and the timer is stopped.
LEMMA AttachKeeps ==
  ASSUME ShellInv, NEW r \in Reader, Attach(r)
  PROVE  ShellInv'
<1> DEFINE s == reader[r].shell
<1>1. /\ ShellTypeOK /\ ShellPhases /\ ListedFresh /\ JobsHold /\ JobsIdle
      /\ ReadersHold /\ ShellsHeld /\ ListedAttended /\ ExitSweeps
  BY DEF ShellInv
<1>2. /\ reader[r].at = "found"
      /\ listed' = listed /\ stored' = stored /\ sweep' = sweep /\ job' = job /\ leave' = leave
      /\ \A c \in Closer : JobIdle(c)' <=> JobIdle(c)
  BY DEF Attach, JobIdle
<1>3. /\ s \in Shell /\ sh[s].at = "done"
      /\ reader[r] \in [at : {"new", "found", "reading", "leaving", "over"},
                        shell : Shell \cup {None}, gone : BOOLEAN,
                        ctx : {"none", "watching", "closing", "over"}]
  BY <1>1, <1>2 DEF ShellTypeOK, ReadersHold
<1>4. CASE sh[s].closed \/ sh[s].attached
  <2> DEFINE y == [reader[r] EXCEPT !.at = "over"]
  <2>1. reader' = [reader EXCEPT ![r] = y] /\ sh' = sh
    BY <1>1, <1>4 DEF Attach, ShellTypeOK
  <2>2. /\ y.at = "over" /\ y.shell = s /\ y.ctx = reader[r].ctx
        /\ y \in [at : {"new", "found", "reading", "leaving", "over"},
                  shell : Shell \cup {None}, gone : BOOLEAN,
                  ctx : {"none", "watching", "closing", "over"}]
    BY <1>3
  <2> HIDE DEF y
  <2>3. reader'[r] = y /\ \A q \in Reader : q # r => reader'[q] = reader[q]
    BY <1>1, <2>1 DEF ShellTypeOK
  <2>4. ShellTypeOK'
    BY <1>1, <1>2, <2>1, <2>2 DEF ShellTypeOK
  <2>5. ShellPhases' /\ ListedFresh' /\ JobsHold' /\ ExitSweeps' /\ ShellsHeld'
    BY <1>1, <1>2, <2>1
       DEF ShellPhases, ListedFresh, JobsHold, ExitSweeps, ShellsHeld, Open, TakenOut, Called
  <2>6. JobsIdle'
    BY <1>1, <1>2, <2>2, <2>3, ClosersDistinct DEF JobsIdle
  <2>7. ReadersHold'
    BY <1>1, <1>2, <1>3, <2>1, <2>2, <2>3, NoneIsNoShell DEF ReadersHold
  <2>8. ListedAttended'
    BY <1>1, <1>2, <2>1, <2>2, <2>3 DEF ListedAttended
  <2> QED
    BY <2>4, <2>5, <2>6, <2>7, <2>8 DEF ShellInv
<1>5. CASE ~sh[s].closed /\ ~sh[s].attached
  <2> DEFINE y == [reader[r] EXCEPT !.at = "reading", !.ctx = "watching"]
             x == [sh[s] EXCEPT !.attached = TRUE, !.timer = Stopped(@)]
  <2>1. reader' = [reader EXCEPT ![r] = y] /\ sh' = [sh EXCEPT ![s] = x]
    BY <1>1, <1>3, <1>5 DEF Attach, ShellTypeOK
  <2>2. /\ y.at = "reading" /\ y.shell = s /\ y.ctx = "watching"
        /\ y \in [at : {"new", "found", "reading", "leaving", "over"},
                  shell : Shell \cup {None}, gone : BOOLEAN,
                  ctx : {"none", "watching", "closing", "over"}]
    BY <1>3
  <2> HIDE DEF y
  <2>3. reader'[r] = y /\ \A q \in Reader : q # r => reader'[q] = reader[q]
    BY <1>1, <2>1 DEF ShellTypeOK
  <2>4. sh[s] \in ShellRecord /\ ShellPhase(sh[s])
    BY <1>3, ShellFacts
  <2>5. x \in ShellRecord
    BY <2>4, StoppedIsShell
  <2>6. /\ x.at = "done" /\ ~x.closed /\ x.attached /\ x.ssh = sh[s].ssh
        /\ sh[s].timer # "closing" /\ ShellPhase(x)
    BY <1>3, <1>5, <2>4 DEF ShellRecord, ShellPhase, Unstarted, Stopped
  <2> HIDE DEF x
  <2>7. /\ sh' \in [Shell -> ShellRecord] /\ sh'[s] = x
        /\ \A t \in Shell : t # s => sh'[t] = sh[t]
    BY <1>1, <1>3, <2>1, <2>5 DEF ShellTypeOK
  <2>8. \A t \in Shell : /\ sh'[t].at = sh[t].at /\ sh'[t].ssh = sh[t].ssh
                         /\ sh'[t].closed <=> sh[t].closed
                         /\ sh[t].attached => sh'[t].attached
                         /\ sh[t].timer = "closing" => sh'[t].timer = "closing"
    BY <1>3, <1>5, <2>6, <2>7
  <2>9. ShellTypeOK'
    BY <1>1, <1>2, <1>3, <2>1, <2>2, <2>7 DEF ShellTypeOK
  <2>10. ShellPhases' /\ ListedFresh'
    BY <1>1, <1>2, <2>6, <2>7, <2>8 DEF ShellPhases, ListedFresh, ShellTypeOK
  <2>11. JobsHold'
    <3>1. \A c \in Closer : job[c].todo \subseteq Shell /\ job[c].cur \in Shell \cup {None}
      BY <1>1 DEF ShellTypeOK
    <3> QED BY <1>1, <1>2, <2>8, <3>1 DEF JobsHold
  <2>12. JobsIdle'
    <3>1. JobIdle(r) /\ JobIdle(Ctx(r))
      BY <1>1, <1>2 DEF JobsIdle, ReadersHold
    <3> QED BY <1>1, <1>2, <2>3, <3>1, ClosersDistinct DEF JobsIdle
  <2>13. ReadersHold'
    <3>1. \A q \in Reader : /\ reader[q].at # "new" => reader[q].shell \in Shell
                            /\ q # r /\ reader[q].at = "reading" => reader[q].shell # s
      BY <1>1, <1>5 DEF ShellTypeOK, ReadersHold
    <3> QED BY <1>1, <1>2, <1>3, <2>2, <2>3, <2>6, <2>7, <2>8, <3>1, NoneIsNoShell
            DEF ReadersHold
  <2>14. ShellsHeld'
    BY <1>1, <1>2, <2>8 DEF ShellsHeld, Open, TakenOut, Called
  <2>15. ListedAttended'
    <3> SUFFICES ASSUME NEW t \in listed
                 PROVE  /\ ~sh'[t].attached => sh'[t].timer \in {"armed", "fired"}
                        /\ sh'[t].attached => \E q \in Reader :
                             reader'[q].shell = t /\ reader'[q].at = "reading"
      BY <1>2 DEF ListedAttended
    <3>1. CASE t = s
      BY <2>2, <2>3, <2>6, <2>7, <3>1
    <3>2. CASE t # s
      BY <1>1, <1>2, <2>3, <2>7, <3>2 DEF ListedAttended, ShellTypeOK
    <3> QED BY <3>1, <3>2
  <2>16. ExitSweeps'
    BY <1>1, <1>2, <2>8 DEF ExitSweeps
  <2> QED
    BY <2>9, <2>10, <2>11, <2>12, <2>13, <2>14, <2>15, <2>16 DEF ShellInv
<1> QED BY <1>4, <1>5

\* A profile leaves the store, before its terminals are closed.
LEMMA RemoveProfileKeeps ==
  ASSUME ShellInv, NEW w \in Sweeper, RemoveProfile(w)
  PROVE  ShellInv'
<1>1. /\ ShellTypeOK /\ ShellPhases /\ ListedFresh /\ JobsHold /\ JobsIdle
      /\ ReadersHold /\ ShellsHeld /\ ListedAttended /\ ExitSweeps
  BY DEF ShellInv
<1>2. PICK p \in stored :
        /\ sweep[w].at = "new" /\ stored' = stored \ {p}
        /\ sweep' = [sweep EXCEPT ![w] = [at |-> "deleting", profile |-> p]]
        /\ sh' = sh /\ listed' = listed /\ reader' = reader /\ job' = job /\ leave' = leave
  BY DEF RemoveProfile
<1>3. ShellTypeOK'
  BY <1>1, <1>2 DEF ShellTypeOK
<1>4. JobsIdle'
  <2>1. sweep[w].at # "sweeping" /\ \A v \in Sweeper : v # w => sweep'[v] = sweep[v]
    BY <1>1, <1>2 DEF ShellTypeOK
  <2> QED BY <1>1, <1>2, <2>1 DEF JobsIdle, JobIdle
<1>5. /\ ShellPhases' /\ ListedFresh' /\ JobsHold' /\ ExitSweeps' /\ ShellsHeld'
      /\ ReadersHold' /\ ListedAttended'
  BY <1>1, <1>2
     DEF ShellPhases, ListedFresh, JobsHold, ExitSweeps, ShellsHeld, Open, TakenOut, Called,
         ReadersHold, ListedAttended
<1> QED BY <1>3, <1>4, <1>5 DEF ShellInv

\* The exit goes on when closeAll has returned.
LEMMA ExitKeeps ==
  ASSUME ShellInv, Shutdown \/ Exits
  PROVE  ShellInv'
<1>1. /\ ShellTypeOK /\ ShellPhases /\ ListedFresh /\ JobsHold /\ JobsIdle
      /\ ReadersHold /\ ShellsHeld /\ ListedAttended /\ ExitSweeps
  BY DEF ShellInv
<1>2. /\ JobIdle(Exiter)
      /\ leave' \in [at : {"shutdown", "exited"}, cut : BOOLEAN]
      /\ leave'.at = "exited" => leave.at = "again" /\ leave'.cut = leave.cut
      /\ sh' = sh /\ listed' = listed /\ stored' = stored /\ reader' = reader
      /\ sweep' = sweep /\ job' = job
  BY <1>1 DEF Shutdown, Exits, ShellTypeOK
<1>3. ShellTypeOK'
  BY <1>1, <1>2 DEF ShellTypeOK
<1>4. JobsIdle'
  BY <1>1, <1>2 DEF JobsIdle, JobIdle
<1>5. /\ ShellPhases' /\ ListedFresh' /\ JobsHold' /\ ShellsHeld' /\ ReadersHold'
      /\ ListedAttended'
  BY <1>1, <1>2
     DEF ShellPhases, ListedFresh, JobsHold, ShellsHeld, Open, TakenOut, Called,
         ReadersHold, ListedAttended
<1>6. ExitSweeps'
  BY <1>1, <1>2 DEF ExitSweeps
<1> QED BY <1>3, <1>4, <1>5, <1>6 DEF ShellInv

-----------------------------------------------------------------------------
\* Every step keeps the invariant.
LEMMA ShellNextInv == ShellInv /\ [ShellNext]_shellVars => ShellInv'
<1> SUFFICES ASSUME ShellInv, [ShellNext]_shellVars PROVE ShellInv'
  OBVIOUS
<1>1. CASE UNCHANGED shellVars
  BY <1>1
     DEF shellVars, ShellInv, ShellTypeOK, ShellPhases, ListedFresh, JobsHold, JobsIdle,
         JobIdle, ReadersHold, ShellsHeld, Open, TakenOut, Called, ListedAttended, ExitSweeps
<1>2. CASE \E s \in Shell :
             \/ OpenStart(s) \/ Opening(s) \/ TimerFires(s) \/ Timing(s) \/ Waiting(s)
             \/ Closing(s) \/ RemoteEnds(s) \/ Breaks(s)
  BY <1>2, EarlySteps, StartSteps, RunSteps, RegisterKeeps, UnattendedKeeps
     DEF Opening, Timing, Waiting, Closing
<1>3. CASE \E r \in Reader :
             Get(r) \/ Reading(r) \/ BrowserLeaves(r) \/ ContextDone(r) \/ ContextReturns(r)
  BY <1>3, ReaderSteps, AttachKeeps, StreamEndsKeeps, ContextDoneKeeps DEF Reading
<1>4. CASE \E c \in Closer : CloseOne(c) \/ CloseReturns(c)
  BY <1>4, CloseOneKeeps, CloseReturnsKeeps
<1>5. CASE \E w \in Sweeper : CloseRequest(w) \/ RemoveProfile(w) \/ CloseProfile(w)
  BY <1>5, SweepKeeps, RemoveProfileKeeps
<1>6. CASE ExitBegins \/ Leaving
  BY <1>6, CloseAllKeeps, ExitKeeps DEF Leaving
<1> QED BY <1>1, <1>2, <1>3, <1>4, <1>5, <1>6 DEF ShellNext

\* It holds always.
LEMMA ShellAlwaysInv == ShellSpec => []ShellInv
BY ShellInitInv, ShellNextInv, PTL DEF ShellSpec

\* No SSH connection of a terminal is forgotten: as long as it is open, it is
\* being opened, or in the map, or somebody who took it from the map closes it
\* (terminal.go: add, close, closeProfile, closeAll, closeIfUnattached); and the
\* exit, when every request ended in time, leaves none that nobody closes.
THEOREM TerminalsAlwaysOwned == ShellSpec => []TerminalsOwned
<1>1. ShellInv => TerminalsOwned
  <2> SUFFICES ASSUME ShellInv PROVE TerminalsOwned
    OBVIOUS
  <2>1. \A s \in Shell : TakenOut(s) \/ Called(s) => Doomed(s)
    BY DEF TakenOut, Called, Doomed, Calls
  <2>2. \A s \in Shell : Open(s) /\ sh[s].at = "done" => s \in listed \/ Doomed(s)
    BY <2>1 DEF ShellInv, ShellsHeld
  <2>3. \A s \in Shell : sh[s].at \in {"new", "failed"} => ~Open(s)
    BY DEF ShellInv, ShellPhases, ShellPhase, Open
  <2>4. ShellsOwned
    BY <2>2, <2>3 DEF ShellsOwned
  <2>5. ExitClosesShells
    BY <2>2, <2>3 DEF ExitClosesShells, ShellInv, ExitSweeps
  <2> QED BY <2>4, <2>5 DEF TerminalsOwned, ShellInv
<1> QED BY <1>1, ShellAlwaysInv, PTL

\* A terminal in the map has its attach timer or the request that reads it, the
\* timer never closes one that was attached, one request at most reads
\* (terminal.go: attach, closeIfUnattached), and a running shell keeps the
\* reverse channel only if it was started with it (sshclient/shell.go).
THEOREM TerminalsAlwaysAttached == ShellSpec => []TerminalsAttached
<1>1. ShellInv => TerminalsAttached
  <2> SUFFICES ASSUME ShellInv PROVE TerminalsAttached
    OBVIOUS
  <2>1. ASSUME NEW s \in Shell
        PROVE  Cardinality({r \in Reader : reader[r].at = "reading" /\ reader[r].shell = s}) <= 1
    <3> DEFINE R == {r \in Reader : reader[r].at = "reading" /\ reader[r].shell = s}
    <3>1. \A r, q \in R : r = q
      BY DEF ShellInv, ReadersHold
    <3>2. CASE R = {}
      BY <3>2, FS_EmptySet
    <3>3. CASE R # {}
      <4>1. PICK r \in R : R = {r}
        BY <3>1, <3>3
      <4>2. Cardinality({r}) = 1
        BY FS_Singleton
      <4> QED BY <4>1, <4>2
    <3> QED BY <3>2, <3>3
  <2>2. \A s \in Shell : sh[s].attached => sh[s].timer # "closing"
    BY DEF ShellInv, ShellPhases, ShellPhase
  <2>3. AttachedKept
    BY <2>1, <2>2 DEF AttachedKept, ShellInv, ListedAttended
  <2>4. ChannelUsable
    BY DEF ChannelUsable, ShellInv, ShellPhases, ShellPhase
  <2> QED BY <2>3, <2>4 DEF TerminalsAttached
<1> QED BY <1>1, ShellAlwaysInv, PTL


-----------------------------------------------------------------------------
(* Processes of local profiles.                                             *)

\* A registered session's start is over and its process is watched; nothing
\* else has fields.
Registered ==
  /\ session # Nobody =>
       /\ call[session].at = "done"
       /\ fields[session].process => watched[session] = "waiting"
  /\ \A t \in Call : fields[t] # NoFields => session = t

\* Who has a process to kill is about to do it.
OrdersKept ==
  /\ \A t \in Call : killing[t] # Nobody => call[t].at = "kill"
  /\ \A h \in Call : killing[Check(h)] # Nobody => probe[h].at = "over"
  /\ killing[Sweep] # Nobody => exit.at = "kill"

Early == {"new", "first", "check", "resume", "spawn", "register"}

\* A check and a stop know their session; a check is made once.
CallsKnow ==
  /\ \A t \in Call : call[t].at \in Early => probe[t].at = "none" /\ call[t].kind # "delete"
  /\ \A t \in Call : call[t].at = "stop" => call[t].session # Nobody
  /\ \A t \in Call : call[t].at = "erase" => call[t].kind = "delete"
  /\ \A h \in Call : probe[h].at # "none" => probe[h].session # Nobody

Deleting(t) == call[t].kind = "delete" /\ call[t].at \in {"stop", "kill", "erase"}

\* There is one deletion at a time, and the session of a deleted profile is the
\* one it will stop.
DeletionHolds ==
  /\ \A t \in Call : Deleting(t) => retired
  /\ \A t, u \in Call : Deleting(t) /\ Deleting(u) => t = u
  /\ retired /\ session # Nobody => \E t \in Call :
       call[t].kind = "delete" /\ call[t].at = "stop" /\ call[t].session = session

\* What the exit found was registered, and is not the session any more once the
\* exit has swept it.
ExitHolds ==
  /\ exit.took # Nobody => call[exit.took].at = "done"
  /\ exit.at = "sweep" => exit.todo = exit.took
  /\ exit.at \in {"kill", "gone"} /\ exit.took # Nobody => session # exit.took

LocalInv ==
  /\ LocalTypeOK /\ ProcessOwned /\ Registered /\ OrdersKept /\ CallsKnow
  /\ DeletionHolds /\ ExitHolds

-----------------------------------------------------------------------------
(* The names of those who kill are distinct.                                *)

LEMMA KillersApart ==
  /\ \A t \in Call : t \in Killer /\ Check(t) \in Killer /\ Check(t) \notin Call
                     /\ Check(t) # Sweep
  /\ \A t, u \in Call : Check(t) = Check(u) => t = u
  /\ Sweep \in Killer /\ Sweep \notin Call
  /\ Killer = Call \cup {Check(t) : t \in Call} \cup {Sweep}
  BY LocalAssumption DEF Killer, Check, Sweep

-----------------------------------------------------------------------------
(* What the steps they share do.                                            *)

FieldRecord == [process : BOOLEAN, remotePID : BOOLEAN, probe : Some, forwarding : BOOLEAN,
                ready : BOOLEAN]
ProbeRecord == [at : {"none", "waiting", "ok", "failed", "identity", "over"}, session : Some]
CallAt == {"new", "first", "check", "resume", "spawn", "register", "stop", "erase", "kill", "done"}
CallRecord == [kind : LocalKind \cup {"none"}, session : Some, at : CallAt]

Owned(t) ==
  \/ session = t /\ fields[t].process
  \/ Starting(t)
  \/ \E k \in Killer : killing[k] = t

\* The types, one by one.
LEMMA Typed ==
  ASSUME LocalInv
  PROVE  /\ session \in Some /\ fields \in [Call -> FieldRecord]
         /\ probe \in [Call -> ProbeRecord] /\ call \in [Call -> CallRecord]
         /\ killing \in [Killer -> Some] /\ retired \in BOOLEAN
         /\ \A t \in Call : process[t] = "running" => Owned(t)
         /\ \A s \in Some : s # Nobody => s \in Call
         /\ Nobody \in Some /\ \A s \in Call : s \in Some /\ s # Nobody
  BY LocalAssumption DEF LocalInv, LocalTypeOK, FieldRecord, ProbeRecord, CallAt, CallRecord,
    Some, ProcessOwned, Owned

\* A request moves on.
LEMMA Goes ==
  ASSUME LocalInv, NEW t \in Call, NEW at \in CallAt, LocalGo(t, at)
  PROVE  /\ call' \in [Call -> CallRecord]
         /\ \A u \in Call : u # t => call'[u] = call[u]
         /\ call'[t].at = at /\ call'[t].kind = call[t].kind /\ call'[t].session = call[t].session
<1>1. call \in [Call -> CallRecord]
  BY Typed
<1> QED
  BY <1>1 DEF LocalGo, CallRecord

\* A step of a request that changes nothing else but retired keeps the types.
LEMMA OnlyGoes ==
  ASSUME LocalInv, call' \in [Call -> CallRecord], retired' \in BOOLEAN,
         UNCHANGED <<session, fields, process, watched, probe, killing, exit>>
  PROVE  LocalTypeOK'
  BY DEF LocalInv, LocalTypeOK, CallRecord, CallAt

ProbesKept ==
  /\ probe' \in [Call -> ProbeRecord]
  /\ \A u \in Call : /\ probe'[u].session = probe[u].session
                     /\ probe'[u].at = "none" <=> probe[u].at = "none"
                     /\ probe[u].at = "over" => probe'[u].at = "over"

\* Cancelling a health check ends it at most.
LEMMA Cancels ==
  ASSUME LocalInv, NEW h, CancelProbe(h)
  PROVE  ProbesKept
<1>1. probe \in [Call -> ProbeRecord]
  BY Typed
<1> QED
  BY <1>1 DEF CancelProbe, ProbesKept, ProbeRecord

\* Without fields a session is not registered; one with a process is kept.
Halted ==
  /\ session' \in {session, Nobody}
  /\ session # Nobody /\ fields[session].process => session' = session
  /\ fields' \in [Call -> FieldRecord]
  /\ \A u \in Call : fields'[u].process = fields[u].process
  /\ \A u \in Call : fields'[u] # NoFields => session' = u
  /\ ProbesKept

\* Stopping the forwarding, or having nothing to stop.
LEMMA Halts ==
  ASSUME LocalInv, \/ Forwards /\ StopsForwarding(session)
                   \/ UNCHANGED <<session, fields, probe>>
  PROVE  Halted
<1>1. CASE UNCHANGED <<session, fields, probe>>
  BY <1>1, Typed DEF LocalInv, Registered, Halted, ProbesKept
<1>2. CASE Forwards /\ StopsForwarding(session)
  <2>1. session \in Call
    BY <1>2, Typed DEF Forwards
  <2>2. ProbesKept
    BY <1>2, Cancels DEF StopsForwarding
  <2>3. /\ fields' \in [Call -> FieldRecord]
        /\ \A u \in Call : u # session => fields'[u] = fields[u]
        /\ fields'[session] = [process |-> fields[session].process,
                               remotePID |-> fields[session].remotePID, probe |-> Nobody,
                               forwarding |-> FALSE, ready |-> FALSE]
    <3>1. fields' = [fields EXCEPT ![session].forwarding = FALSE, ![session].ready = FALSE,
                                   ![session].probe = Nobody]
      BY <1>2 DEF StopsForwarding
    <3>2. fields \in [Call -> FieldRecord] /\ Nobody \in Some
      BY Typed
    <3>4. \A u \in Call : u # session => fields'[u] = fields[u]
      BY <2>1, <3>1, <3>2
    <3>a. fields'[session] \in FieldRecord /\ DOMAIN fields' = Call
      BY <2>1, <3>1, <3>2 DEF FieldRecord
    <3>3. fields' \in [Call -> FieldRecord]
      BY <3>1, <3>2, <3>4, <3>a
    <3>5. /\ fields'[session].process = fields[session].process
          /\ fields'[session].remotePID = fields[session].remotePID
          /\ fields'[session].probe = Nobody /\ ~fields'[session].forwarding
          /\ ~fields'[session].ready
      BY <2>1, <3>1, <3>2 DEF FieldRecord
    <3> QED
      BY <2>1, <3>3, <3>4, <3>5 DEF FieldRecord
  <2>4. session' = IF fields[session].process \/ fields[session].remotePID
                     THEN session ELSE Nobody
    BY <1>2 DEF StopsForwarding
  <2>5. \A u \in Call : fields[u] # NoFields => session = u
    BY DEF LocalInv, Registered
  <2>6. fields[session].process \in BOOLEAN /\ fields[session].remotePID \in BOOLEAN
    BY <2>1, Typed DEF FieldRecord
  <2>7. fields'[session] # NoFields => session' = session
    BY <2>3, <2>4, <2>6 DEF NoFields
  <2>8. \A u \in Call : fields'[u].process = fields[u].process
    BY <2>3
  <2>9. \A u \in Call : fields'[u] # NoFields => session' = u
    BY <2>3, <2>5, <2>7
  <2> QED
    BY <2>2, <2>3, <2>4, <2>8, <2>9 DEF Halted
<1> QED
  BY <1>1, <1>2

\* A session taken away: whoever does it has its process to kill.
Taken(k) ==
  /\ session' = Nobody
  /\ fields' \in [Call -> FieldRecord] /\ \A u \in Call : fields'[u] = NoFields
  /\ ProbesKept
  /\ killing' \in [Killer -> Some]
  /\ \A j \in Killer : j # k => killing'[j] = killing[j]
  /\ fields[session].process => killing'[k] = session

LEMMA Takes ==
  ASSUME LocalInv, NEW k \in Killer, session \in Call, TakeApart(k, session)
  PROVE  Taken(k)
<1>1. ProbesKept
  BY Cancels DEF TakeApart
<1>2. fields' \in [Call -> FieldRecord] /\ \A u \in Call : fields'[u] = NoFields
  BY Typed, LocalAssumption DEF TakeApart, FieldRecord, NoFields, LocalInv, Registered
<1>3. /\ killing' \in [Killer -> Some]
      /\ \A j \in Killer : j # k => killing'[j] = killing[j]
      /\ fields[session].process => killing'[k] = session
  BY Typed DEF TakeApart
<1> QED
  BY <1>1, <1>2, <1>3 DEF TakeApart, Taken

\* An order to kill is carried out.
LEMMA Kills ==
  ASSUME LocalInv, NEW k \in Killer, Killed(k)
  PROVE  /\ process' \in [Call -> {"none", "running", "ended"}]
         /\ \A u \in Call : process'[u] = "running" => process[u] = "running" /\ u # killing[k]
         /\ killing' \in [Killer -> Some] /\ killing'[k] = Nobody
         /\ \A j \in Killer : j # k => killing'[j] = killing[j]
<1>1. process \in [Call -> {"none", "running", "ended"}] /\ killing \in [Killer -> Some]
      /\ Nobody \in Some
  BY Typed DEF LocalInv, LocalTypeOK
<1> QED
  BY <1>1 DEF Killed

\* A deletion under way stays what it is while others are served.
LEMMA DeletionStays ==
  ASSUME LocalInv, session' \in {session, Nobody}, retired' = retired,
         \A u \in Call : Deleting(u)' => Deleting(u),
         \A u \in Call : session' = session /\ call[u].kind = "delete" /\ call[u].at = "stop"
                           => call'[u] = call[u]
  PROVE  DeletionHolds'
<1>1. ASSUME retired', session' # Nobody
      PROVE  \E u \in Call : call'[u].kind = "delete" /\ call'[u].at = "stop"
                             /\ call'[u].session = session'
  BY <1>1 DEF LocalInv, DeletionHolds
<1> QED
  BY <1>1 DEF LocalInv, DeletionHolds

\* What a request and a health check know stays true while others move.
LEMMA KnowledgeStays ==
  ASSUME LocalInv, NEW t \in Call,
         \A u \in Call : u # t => call'[u] = call[u],
         call'[t].kind = call[t].kind, call'[t].session = call[t].session,
         call'[t].at = "erase" => call[t].kind = "delete", call'[t].at # "stop",
         call'[t].at \in Early => call[t].at \in Early /\ probe'[t].at = probe[t].at,
         \A u \in Call : u # t => (probe'[u].at = "none" <=> probe[u].at = "none"),
         \A u \in Call : u # t => probe'[u].session = probe[u].session,
         probe'[t].at # "none" => probe'[t].session # Nobody
  PROVE  CallsKnow'
<1>1. ASSUME NEW u \in Call, u # t
      PROVE  /\ call'[u].at \in Early => probe'[u].at = "none" /\ call'[u].kind # "delete"
             /\ call'[u].at = "stop" => call'[u].session # Nobody
             /\ call'[u].at = "erase" => call'[u].kind = "delete"
             /\ probe'[u].at # "none" => probe'[u].session # Nobody
  BY <1>1 DEF LocalInv, CallsKnow
<1>2. /\ call'[t].at \in Early => probe'[t].at = "none" /\ call'[t].kind # "delete"
      /\ call'[t].at = "erase" => call'[t].kind = "delete"
  BY DEF LocalInv, CallsKnow
<1>3. Early' = Early
  BY DEF Early
<1> QED
  BY <1>1, <1>2, <1>3 DEF CallsKnow

\* Ownership is a matter of the processes that run.
LEMMA OwnersSuffice ==
  ASSUME \A u \in Call : process'[u] = "running" => Owned(u)'
  PROVE  ProcessOwned'
  BY DEF ProcessOwned, Owned

-----------------------------------------------------------------------------
(* The invariant at the start, and one lemma per action.                    *)

LEMMA LocalInitInv ==
  ASSUME LocalInit
  PROVE  LocalInv
  BY LocalAssumption, KillersApart DEF LocalInit, LocalInv, LocalTypeOK, ProcessOwned,
    Registered, OrdersKept, CallsKnow, DeletionHolds, Deleting, ExitHolds, NoFields, Some,
    Early, LocalKind

LEMMA KeepsStartLocal ==
  ASSUME LocalInv, NEW t \in Call, StartLocal(t)
  PROVE  LocalInv'
<1>1. LocalTypeOK'
  BY LocalAssumption, KillersApart DEF StartLocal, LocalInv, LocalTypeOK, Some, LocalKind,
    NoFields
<1>2. ProcessOwned'
  BY LocalAssumption, KillersApart DEF StartLocal, LocalInv, LocalTypeOK, ProcessOwned,
    Starting, OrdersKept, Registered, NoFields, Some
<1>3. Registered'
  BY LocalAssumption DEF StartLocal, LocalInv, LocalTypeOK, Registered, NoFields, Some
<1>4. OrdersKept'
  BY LocalAssumption, KillersApart DEF StartLocal, LocalInv, LocalTypeOK, OrdersKept, CallsKnow,
    Early, Some
<1>5. CallsKnow'
  BY LocalAssumption DEF StartLocal, LocalInv, LocalTypeOK, CallsKnow, Early, Some, Registered
<1>6. DeletionHolds'
  BY LocalAssumption DEF StartLocal, LocalInv, LocalTypeOK, DeletionHolds, Deleting, CallsKnow,
    Some
<1>7. ExitHolds'
  BY LocalAssumption DEF StartLocal, LocalInv, LocalTypeOK, ExitHolds, Registered, Some
<1> QED
  BY <1>1, <1>2, <1>3, <1>4, <1>5, <1>6, <1>7 DEF LocalInv

LEMMA KeepsStopFirstLocal ==
  ASSUME LocalInv, NEW t \in Call, StopFirstLocal(t)
  PROVE  LocalInv'
<1>a. /\ call' \in [Call -> CallRecord]
      /\ \A u \in Call : u # t => call'[u] = call[u]
      /\ call'[t].at = "check" /\ call'[t].kind = call[t].kind
      /\ call'[t].session = call[t].session
  BY Goes DEF StopFirstLocal, CallAt
<1>b. Halted
  BY Halts DEF StopFirstLocal
<1>1. LocalTypeOK'
  BY <1>a, <1>b, Typed, LocalAssumption, KillersApart DEF StopFirstLocal, Halted, ProbesKept,
    LocalInv, LocalTypeOK, FieldRecord, ProbeRecord, CallRecord, CallAt
<1>2. ProcessOwned'
  <2> SUFFICES ASSUME NEW u \in Call, process'[u] = "running"
               PROVE  Owned(u)'
    BY OwnersSuffice
  <2>1. process[u] = "running" /\ Owned(u)
    BY <1>a, <1>b, Typed, LocalAssumption, KillersApart DEF StopFirstLocal, Halted, ProbesKept
  <2>2. CASE session = u /\ fields[u].process
    BY <2>1, <2>2, <1>a, <1>b, Typed, LocalAssumption, KillersApart DEF Owned, Starting,
      StopFirstLocal, Halted, ProbesKept
  <2>3. CASE Starting(u)
    BY <2>1, <2>3, <1>a, <1>b, Typed, LocalAssumption, KillersApart DEF Owned, Starting,
      StopFirstLocal, Halted, ProbesKept
  <2>4. CASE \E k \in Killer : killing[k] = u
    BY <2>1, <2>4, <1>a, <1>b, Typed, LocalAssumption, KillersApart DEF Owned, Starting,
      StopFirstLocal, Halted, ProbesKept
  <2> QED
    BY <2>1, <2>2, <2>3, <2>4 DEF Owned
<1>3. Registered'
  BY <1>a, <1>b, Typed, LocalAssumption, KillersApart DEF StopFirstLocal, Halted, ProbesKept,
    LocalInv, Registered
<1>4. OrdersKept'
  BY <1>a, <1>b, Typed, LocalAssumption, KillersApart DEF StopFirstLocal, Halted, ProbesKept,
    LocalInv, OrdersKept, CallsKnow, Early
<1>5. CallsKnow'
  <2>1. call[t].at = "first"
    BY DEF StopFirstLocal
  <2>2. call[t].at \in Early /\ probe[t].at = "none" /\ call[t].kind # "delete"
    BY <2>1 DEF LocalInv, CallsKnow, Early
  <2>3. \A u \in Call : /\ probe'[u].session = probe[u].session
                        /\ probe'[u].at = "none" <=> probe[u].at = "none"
    BY <1>b DEF Halted, ProbesKept
  <2>4. probe'[t].at = "none"
    BY <2>2, <2>3
  <2>5. call'[t].at # "stop" /\ call'[t].at # "erase"
    BY <1>a
  <2>6. \A u \in Call : u # t => call'[u] = call[u]
    BY <1>a
  <2>7. call'[t].kind = call[t].kind /\ call'[t].session = call[t].session
    BY <1>a
  <2>8. \A u \in Call : u # t => (probe'[u].at = "none" <=> probe[u].at = "none")
    BY <2>3
  <2>9. \A u \in Call : u # t => probe'[u].session = probe[u].session
    BY <2>3
  <2>10. call'[t].at = "erase" => call[t].kind = "delete"
    BY <2>5
  <2>11. call'[t].at \in Early => call[t].at \in Early /\ probe'[t].at = probe[t].at
    BY <2>2, <2>4
  <2>12. probe'[t].at # "none" => probe'[t].session # Nobody
    BY <2>4
  <2>13. call'[t].at # "stop"
    BY <2>5
  <2> QED
    BY <2>6, <2>7, <2>8, <2>9, <2>10, <2>11, <2>12, <2>13, KnowledgeStays
<1>6. DeletionHolds'
  BY <1>a, <1>b, Typed, LocalAssumption, KillersApart, DeletionStays DEF StopFirstLocal, Halted,
    ProbesKept, LocalInv, CallsKnow, Early, Deleting
<1>7. ExitHolds'
  BY <1>a, <1>b, Typed, LocalAssumption, KillersApart DEF StopFirstLocal, Halted, ProbesKept,
    LocalInv, LocalTypeOK, ExitHolds, Registered, Some
<1> QED
  BY <1>1, <1>2, <1>3, <1>4, <1>5, <1>6, <1>7 DEF LocalInv

LEMMA KeepsCheckLocal ==
  ASSUME LocalInv, NEW t \in Call, CheckLocal(t)
  PROVE  LocalInv'
<1>a. /\ call' \in [Call -> CallRecord]
      /\ \A u \in Call : u # t => call'[u] = call[u]
      /\ call'[t].at \in {"done", "resume"} /\ call'[t].kind = call[t].kind
      /\ call'[t].session = call[t].session
  BY Goes DEF CheckLocal, CallAt
<1>1. LocalTypeOK'
  BY LocalAssumption, KillersApart DEF CheckLocal, LocalGo, Forwards, LocalInv, LocalTypeOK,
    Some, LocalKind, NoFields
<1>2. ProcessOwned'
  <2> SUFFICES ASSUME NEW u \in Call, process'[u] = "running"
               PROVE  Owned(u)'
    BY OwnersSuffice
  <2>1. process[u] = "running" /\ Owned(u)
    BY <1>a, Typed, LocalAssumption, KillersApart DEF CheckLocal
  <2>2. CASE session = u /\ fields[u].process
    BY <2>1, <2>2, <1>a, Typed, LocalAssumption, KillersApart DEF Owned, Starting, CheckLocal
  <2>3. CASE Starting(u)
    BY <2>1, <2>3, <1>a, Typed, LocalAssumption, KillersApart DEF Owned, Starting, CheckLocal
  <2>4. CASE \E k \in Killer : killing[k] = u
    BY <2>1, <2>4, <1>a, Typed, LocalAssumption, KillersApart DEF Owned, Starting, CheckLocal
  <2> QED
    BY <2>1, <2>2, <2>3, <2>4 DEF Owned
<1>3. Registered'
  BY LocalAssumption DEF CheckLocal, LocalGo, Forwards, LocalInv, LocalTypeOK, Registered,
    NoFields, Some
<1>4. OrdersKept'
  BY LocalAssumption, KillersApart DEF CheckLocal, LocalGo, Forwards, LocalInv, LocalTypeOK,
    OrdersKept, CallsKnow, Early, Some
<1>5. CallsKnow'
  BY LocalAssumption DEF CheckLocal, LocalGo, Forwards, LocalInv, LocalTypeOK, CallsKnow, Early,
    Some, Registered
<1>6. DeletionHolds'
  BY LocalAssumption DEF CheckLocal, LocalGo, Forwards, LocalInv, LocalTypeOK, DeletionHolds,
    Deleting, CallsKnow, Some
<1>7. ExitHolds'
  BY LocalAssumption DEF CheckLocal, LocalGo, Forwards, LocalInv, LocalTypeOK, ExitHolds,
    Registered, Some
<1> QED
  BY <1>1, <1>2, <1>3, <1>4, <1>5, <1>6, <1>7 DEF LocalInv

LEMMA KeepsResumeLocal ==
  ASSUME LocalInv, NEW t \in Call, ResumeLocal(t)
  PROVE  LocalInv'
<1>a. /\ call' \in [Call -> CallRecord]
      /\ \A u \in Call : u # t => call'[u] = call[u]
      /\ call'[t].at \in {"spawn", "done"} /\ call'[t].kind = call[t].kind
      /\ call'[t].session = call[t].session
  BY Goes DEF ResumeLocal, CallAt
<1>b. /\ session' = session /\ fields' \in [Call -> FieldRecord]
      /\ \A u \in Call : fields'[u].process = fields[u].process
      /\ \A u \in Call : fields'[u] # NoFields => session = u
  <2>1. CASE UNCHANGED fields
    BY <2>1, Typed DEF ResumeLocal, LocalInv, Registered
  <2>2. CASE session \in Call /\ fields' = [fields EXCEPT ![session].forwarding = TRUE,
                                  ![session].ready = FALSE, ![session].probe = t]
    <3>1. fields \in [Call -> FieldRecord] /\ t \in Some
      BY Typed
    <3>a. fields'[session] \in FieldRecord
      BY <2>2, <3>1 DEF FieldRecord
    <3>b. \A u \in Call : u # session => fields'[u] = fields[u]
      BY <2>2, <3>1
    <3>2. fields' \in [Call -> FieldRecord]
      BY <2>2, <3>1, <3>a, <3>b
    <3>3. \A u \in Call : fields'[u].process = fields[u].process
      BY <2>2, <3>1 DEF FieldRecord
    <3> QED
      BY <3>2, <3>3, <3>b DEF ResumeLocal, LocalInv, Registered
  <2> QED
    BY <2>1, <2>2, Typed DEF ResumeLocal
<1>c. /\ probe' \in [Call -> ProbeRecord] /\ probe[t].at = "none"
      /\ \A u \in Call : u # t => probe'[u] = probe[u]
      /\ call'[t].at = "spawn" => probe'[t] = probe[t]
      /\ probe'[t].at = "none" \/ probe'[t].session # Nobody
  <2>1. probe \in [Call -> ProbeRecord] /\ probe[t].at = "none" /\ session \in Some
    BY Typed DEF ResumeLocal, LocalInv, CallsKnow, Early
  <2>2. CASE UNCHANGED probe
    BY <2>1, <2>2
  <2>3. CASE /\ probe' = [probe EXCEPT ![t] = [at |-> "waiting", session |-> session]]
             /\ LocalGo(t, "done") /\ session # Nobody
    <3>1. call'[t].at = "done"
      BY <2>3, Goes DEF CallAt
    <3> QED
      BY <2>1, <2>3, <3>1 DEF ProbeRecord
  <2> QED
    BY <2>2, <2>3 DEF ResumeLocal
<1>1. LocalTypeOK'
  BY <1>a, <1>b, <1>c, Typed, LocalAssumption, KillersApart DEF ResumeLocal, LocalInv,
    LocalTypeOK, FieldRecord, ProbeRecord, CallRecord, CallAt
<1>2. ProcessOwned'
  <2> SUFFICES ASSUME NEW u \in Call, process'[u] = "running"
               PROVE  Owned(u)'
    BY OwnersSuffice
  <2>1. process[u] = "running" /\ Owned(u)
    BY <1>a, <1>b, <1>c, Typed, LocalAssumption, KillersApart DEF ResumeLocal
  <2>2. CASE session = u /\ fields[u].process
    BY <2>1, <2>2, <1>a, <1>b, <1>c, Typed, LocalAssumption, KillersApart DEF Owned, Starting,
      ResumeLocal
  <2>3. CASE Starting(u)
    BY <2>1, <2>3, <1>a, <1>b, <1>c, Typed, LocalAssumption, KillersApart DEF Owned, Starting,
      ResumeLocal
  <2>4. CASE \E k \in Killer : killing[k] = u
    BY <2>1, <2>4, <1>a, <1>b, <1>c, Typed, LocalAssumption, KillersApart DEF Owned, Starting,
      ResumeLocal
  <2> QED
    BY <2>1, <2>2, <2>3, <2>4 DEF Owned
<1>3. Registered'
  BY <1>a, <1>b, <1>c, Typed, LocalAssumption, KillersApart DEF ResumeLocal, LocalInv,
    Registered
<1>4. OrdersKept'
  BY <1>a, <1>b, <1>c, Typed, LocalAssumption, KillersApart DEF ResumeLocal, LocalInv,
    OrdersKept, CallsKnow, Early
<1>5. CallsKnow'
  <2>1. call[t].at = "resume"
    BY DEF ResumeLocal
  <2>2. call[t].at \in Early /\ call'[t].at \notin {"stop", "erase"}
    BY <1>a, <2>1 DEF Early
  <2>3. call'[t].at \in Early => probe'[t].at = probe[t].at
    BY <1>a, <1>c DEF Early
  <2> QED
    BY <1>a, <1>c, <2>2, <2>3, KnowledgeStays
<1>6. DeletionHolds'
  BY <1>a, <1>b, <1>c, Typed, LocalAssumption, KillersApart, DeletionStays DEF ResumeLocal,
    LocalInv, CallsKnow, Early, Deleting
<1>7. ExitHolds'
  BY LocalAssumption DEF ResumeLocal, LocalGo, Forwards, LocalInv, LocalTypeOK, ExitHolds,
    Registered, Some
<1> QED
  BY <1>1, <1>2, <1>3, <1>4, <1>5, <1>6, <1>7 DEF LocalInv

LEMMA KeepsSpawn ==
  ASSUME LocalInv, NEW t \in Call, Spawn(t)
  PROVE  LocalInv'
<1>a. /\ call' \in [Call -> CallRecord]
      /\ \A u \in Call : u # t => call'[u] = call[u]
      /\ call'[t].at \in {"register", "done"} /\ call'[t].kind = call[t].kind
      /\ call'[t].session = call[t].session
  BY Goes DEF Spawn, CallAt
<1>b. /\ process' \in [Call -> {"none", "running", "ended"}]
      /\ \A u \in Call : u # t => process'[u] = process[u]
      /\ process'[t] = process[t] \/ call'[t].at = "register"
  BY <1>a, Goes DEF Spawn, LocalInv, LocalTypeOK, CallAt
<1>1. LocalTypeOK'
  BY <1>a, <1>b, Typed, LocalAssumption, KillersApart DEF Spawn, LocalInv, LocalTypeOK,
    FieldRecord, ProbeRecord, CallRecord, CallAt
<1>2. ProcessOwned'
  <2> SUFFICES ASSUME NEW u \in Call, process'[u] = "running"
               PROVE  Owned(u)'
    BY OwnersSuffice
  <2>0. CASE u = t /\ call'[t].at = "register"
    BY <2>0 DEF Owned, Starting
  <2>1. CASE ~(u = t /\ call'[t].at = "register")
    <3>1. process[u] = "running" /\ Owned(u)
      BY <1>b, <2>1, Typed
    <3>2. UNCHANGED <<session, fields, killing>>
      BY DEF Spawn
    <3>3. Starting(u) => Starting(u)'
      BY <1>a DEF Spawn, Starting
    <3> QED
      BY <3>1, <3>2, <3>3 DEF Owned
  <2> QED
    BY <2>0, <2>1
<1>3. Registered'
  BY LocalAssumption DEF Spawn, LocalGo, LocalInv, LocalTypeOK, Registered, NoFields, Some
<1>4. OrdersKept'
  BY LocalAssumption, KillersApart DEF Spawn, LocalGo, LocalInv, LocalTypeOK, OrdersKept,
    CallsKnow, Early, Some
<1>5. CallsKnow'
  <2>1. call[t].at \in Early /\ call'[t].at \notin {"stop", "erase"} /\ probe' = probe
    BY <1>a DEF Spawn, Early
  <2>2. probe[t].at = "none"
    BY <2>1 DEF LocalInv, CallsKnow
  <2> QED
    BY <1>a, <2>1, <2>2, KnowledgeStays
<1>6. DeletionHolds'
  BY <1>a, <1>b, Typed, LocalAssumption, KillersApart, DeletionStays DEF Spawn, LocalInv,
    CallsKnow, Early, Deleting
<1>7. ExitHolds'
  BY LocalAssumption DEF Spawn, LocalGo, LocalInv, LocalTypeOK, ExitHolds, Registered, Some
<1> QED
  BY <1>1, <1>2, <1>3, <1>4, <1>5, <1>6, <1>7 DEF LocalInv

LEMMA KeepsRegisterLocal ==
  ASSUME LocalInv, NEW t \in Call, RegisterLocal(t)
  PROVE  LocalInv'
<1>1. LocalTypeOK'
  <2>1. call' \in [Call -> CallRecord]
    BY Goes DEF RegisterLocal, CallAt
  <2>2. session' \in Some /\ fields' \in [Call -> FieldRecord] /\ probe' \in [Call -> ProbeRecord]
    BY Typed DEF RegisterLocal, FieldRecord, ProbeRecord
  <2>3. watched' \in [Call -> {"none", "waiting", "over"}]
    BY DEF RegisterLocal, LocalInv, LocalTypeOK
  <2>4. /\ UNCHANGED <<process, killing, retired, exit>>
        /\ process \in [Call -> {"none", "running", "ended"}] /\ killing \in [Killer -> Some]
        /\ retired \in BOOLEAN
        /\ exit \in [at : {"no", "sweep", "kill", "gone"}, todo : Some, took : Some]
    BY DEF RegisterLocal, LocalInv, LocalTypeOK
  <2> QED
    BY <2>1, <2>2, <2>3, <2>4 DEF LocalTypeOK, FieldRecord, ProbeRecord, CallRecord, CallAt
<1>2. ProcessOwned'
  <2> SUFFICES ASSUME NEW u \in Call, process'[u] = "running"
               PROVE  Owned(u)'
    BY OwnersSuffice
  <2>1. process[u] = "running" /\ Owned(u)
    BY Typed, LocalAssumption, KillersApart DEF RegisterLocal, LocalGo, MayRegister, LocalInv,
      LocalTypeOK
  <2>2. CASE session = u /\ fields[u].process
    BY <2>1, <2>2, Typed, LocalAssumption, KillersApart DEF Owned, Starting, RegisterLocal,
      LocalGo, MayRegister, LocalInv, LocalTypeOK
  <2>3. CASE Starting(u)
    BY <2>1, <2>3, Typed, LocalAssumption, KillersApart DEF Owned, Starting, RegisterLocal,
      LocalGo, MayRegister, LocalInv, LocalTypeOK
  <2>4. CASE \E k \in Killer : killing[k] = u
    BY <2>1, <2>4, Typed, LocalAssumption, KillersApart DEF Owned, Starting, RegisterLocal,
      LocalGo, MayRegister, LocalInv, LocalTypeOK
  <2> QED
    BY <2>1, <2>2, <2>3, <2>4 DEF Owned
<1>3. Registered'
  <2>1. /\ session' = t /\ session = Nobody /\ \A u \in Call : u # t => fields'[u] = fields[u]
        /\ fields'[t].process => watched'[t] = "waiting"
        /\ call'[t].at = "done"
    BY Typed DEF RegisterLocal, MayRegister, LocalGo, LocalInv, LocalTypeOK, FieldRecord,
      CallRecord, CallAt
  <2>2. \A u \in Call : fields[u] = NoFields
    BY <2>1, Typed DEF LocalInv, Registered
  <2> QED
    BY <2>1, <2>2 DEF Registered, NoFields
<1>4. OrdersKept'
  BY LocalAssumption, KillersApart DEF RegisterLocal, LocalGo, MayRegister, LocalInv,
    LocalTypeOK, OrdersKept, CallsKnow, Early, Some
<1>5. CallsKnow'
  BY LocalAssumption DEF RegisterLocal, LocalGo, MayRegister, LocalInv, LocalTypeOK, CallsKnow,
    Early, Some, Registered
<1>6. DeletionHolds'
  BY LocalAssumption DEF RegisterLocal, LocalGo, MayRegister, LocalInv, LocalTypeOK,
    DeletionHolds, Deleting, CallsKnow, Some
<1>7. ExitHolds'
  BY LocalAssumption DEF RegisterLocal, LocalGo, MayRegister, LocalInv, LocalTypeOK, ExitHolds,
    Registered, Some
<1> QED
  BY <1>1, <1>2, <1>3, <1>4, <1>5, <1>6, <1>7 DEF LocalInv

LEMMA KeepsNotRegisteredLocal ==
  ASSUME LocalInv, NEW t \in Call, NotRegisteredLocal(t)
  PROVE  LocalInv'
<1>a. /\ call' \in [Call -> CallRecord]
      /\ \A u \in Call : u # t => call'[u] = call[u]
      /\ call'[t].at = "kill" /\ call'[t].kind = call[t].kind
      /\ call'[t].session = call[t].session
  BY Goes DEF NotRegisteredLocal, CallAt
<1>b. /\ killing' \in [Killer -> Some] /\ killing[t] = Nobody
      /\ process[t] # "none" => killing'[t] = t
      /\ \A j \in Killer : j # t => killing'[j] = killing[j]
  BY Typed, KillersApart DEF NotRegisteredLocal, LocalInv, OrdersKept
<1>1. LocalTypeOK'
  BY <1>a, <1>b, Typed, LocalAssumption, KillersApart DEF NotRegisteredLocal, LocalInv,
    LocalTypeOK, FieldRecord, ProbeRecord, CallRecord, CallAt
<1>2. ProcessOwned'
  <2> SUFFICES ASSUME NEW u \in Call, process'[u] = "running"
               PROVE  Owned(u)'
    BY OwnersSuffice
  <2>1. process[u] = "running" /\ Owned(u)
    BY <1>a, <1>b, Typed, LocalAssumption, KillersApart DEF NotRegisteredLocal
  <2>2. CASE session = u /\ fields[u].process
    BY <2>1, <2>2, <1>a, <1>b, Typed, LocalAssumption, KillersApart DEF Owned, Starting,
      NotRegisteredLocal
  <2>3. CASE Starting(u)
    BY <2>1, <2>3, <1>a, <1>b, Typed, LocalAssumption, KillersApart DEF Owned, Starting,
      NotRegisteredLocal
  <2>4. CASE \E k \in Killer : killing[k] = u
    BY <2>1, <2>4, <1>a, <1>b, Typed, LocalAssumption, KillersApart DEF Owned, Starting,
      NotRegisteredLocal
  <2> QED
    BY <2>1, <2>2, <2>3, <2>4 DEF Owned
<1>3. Registered'
  BY LocalAssumption DEF NotRegisteredLocal, LocalGo, MayRegister, LocalInv, LocalTypeOK,
    Registered, NoFields, Some
<1>4. OrdersKept'
  BY <1>a, <1>b, Typed, LocalAssumption, KillersApart DEF NotRegisteredLocal, LocalInv,
    OrdersKept, CallsKnow, Early
<1>5. CallsKnow'
  BY <1>a, <1>b, Typed, LocalAssumption, KillersApart DEF NotRegisteredLocal, LocalInv,
    CallsKnow, Early
<1>6. DeletionHolds'
  BY <1>a, <1>b, Typed, LocalAssumption, KillersApart, DeletionStays DEF NotRegisteredLocal,
    LocalInv, CallsKnow, Early, Deleting
<1>7. ExitHolds'
  BY <1>a, <1>b, Typed, LocalAssumption, KillersApart DEF NotRegisteredLocal, LocalInv,
    LocalTypeOK, ExitHolds, Registered, Some
<1> QED
  BY <1>1, <1>2, <1>3, <1>4, <1>5, <1>6, <1>7 DEF LocalInv

LEMMA KeepsPauseLocal ==
  ASSUME LocalInv, NEW t \in Call, PauseLocal(t)
  PROVE  LocalInv'
<1>b. Halted
  BY Halts DEF PauseLocal
<1>1. LocalTypeOK'
  <2>1. session' \in Some /\ fields' \in [Call -> FieldRecord] /\ probe' \in [Call -> ProbeRecord]
    BY <1>b, Typed DEF Halted, ProbesKept
  <2>2. call' \in [Call -> CallRecord]
    BY Typed DEF PauseLocal, CallRecord, CallAt, LocalKind
  <2> QED
    BY <2>1, <2>2 DEF PauseLocal, LocalInv, LocalTypeOK, FieldRecord, ProbeRecord, CallRecord,
      CallAt
<1>2. ProcessOwned'
  <2> SUFFICES ASSUME NEW u \in Call, process'[u] = "running"
               PROVE  Owned(u)'
    BY OwnersSuffice
  <2>1. process[u] = "running" /\ Owned(u)
    BY <1>b, Typed, LocalAssumption, KillersApart DEF PauseLocal, Halted, ProbesKept
  <2>2. CASE session = u /\ fields[u].process
    BY <2>1, <2>2, <1>b, Typed, LocalAssumption, KillersApart DEF Owned, Starting, PauseLocal,
      Halted, ProbesKept
  <2>3. CASE Starting(u)
    BY <2>1, <2>3, <1>b, Typed, LocalAssumption, KillersApart DEF Owned, Starting, PauseLocal,
      Halted, ProbesKept
  <2>4. CASE \E k \in Killer : killing[k] = u
    BY <2>1, <2>4, <1>b, Typed, LocalAssumption, KillersApart DEF Owned, Starting, PauseLocal,
      Halted, ProbesKept
  <2> QED
    BY <2>1, <2>2, <2>3, <2>4 DEF Owned
<1>3. Registered'
  BY <1>b, Typed, LocalAssumption, KillersApart DEF PauseLocal, Halted, ProbesKept, LocalInv,
    Registered
<1>4. OrdersKept'
  BY LocalAssumption, KillersApart DEF PauseLocal, Forwards, StopsForwarding, CancelProbe,
    LocalInv, LocalTypeOK, OrdersKept, CallsKnow, Early, Some
<1>5. CallsKnow'
  BY LocalAssumption DEF PauseLocal, Forwards, StopsForwarding, CancelProbe, LocalInv,
    LocalTypeOK, CallsKnow, Early, Some, Registered
<1>6. DeletionHolds'
  BY LocalAssumption DEF PauseLocal, Forwards, StopsForwarding, CancelProbe, LocalInv,
    LocalTypeOK, DeletionHolds, Deleting, CallsKnow, Some
<1>7. ExitHolds'
  BY LocalAssumption DEF PauseLocal, Forwards, StopsForwarding, CancelProbe, LocalInv,
    LocalTypeOK, ExitHolds, Registered, Some
<1> QED
  BY <1>1, <1>2, <1>3, <1>4, <1>5, <1>6, <1>7 DEF LocalInv

LEMMA KeepsStopLocal ==
  ASSUME LocalInv, NEW t \in Call, StopLocal(t)
  PROVE  LocalInv'
<1>1. LocalTypeOK'
  BY LocalAssumption, KillersApart DEF StopLocal, LocalInv, LocalTypeOK, Some, LocalKind,
    NoFields
<1>2. ProcessOwned'
  BY LocalAssumption, KillersApart DEF StopLocal, LocalInv, LocalTypeOK, ProcessOwned, Starting,
    OrdersKept, Registered, NoFields, Some
<1>3. Registered'
  BY LocalAssumption DEF StopLocal, LocalInv, LocalTypeOK, Registered, NoFields, Some
<1>4. OrdersKept'
  BY LocalAssumption, KillersApart DEF StopLocal, LocalInv, LocalTypeOK, OrdersKept, CallsKnow,
    Early, Some
<1>5. CallsKnow'
  BY LocalAssumption DEF StopLocal, LocalInv, LocalTypeOK, CallsKnow, Early, Some, Registered
<1>6. DeletionHolds'
  BY LocalAssumption DEF StopLocal, LocalInv, LocalTypeOK, DeletionHolds, Deleting, CallsKnow,
    Some
<1>7. ExitHolds'
  BY LocalAssumption DEF StopLocal, LocalInv, LocalTypeOK, ExitHolds, Registered, Some
<1> QED
  BY <1>1, <1>2, <1>3, <1>4, <1>5, <1>6, <1>7 DEF LocalInv

LEMMA KeepsDeleteLocal ==
  ASSUME LocalInv, NEW t \in Call, DeleteLocal(t)
  PROVE  LocalInv'
<1>1. LocalTypeOK'
  BY LocalAssumption, KillersApart DEF DeleteLocal, LocalInv, LocalTypeOK, Some, LocalKind,
    NoFields
<1>2. ProcessOwned'
  BY LocalAssumption, KillersApart DEF DeleteLocal, LocalInv, LocalTypeOK, ProcessOwned,
    Starting, OrdersKept, Registered, NoFields, Some
<1>3. Registered'
  BY LocalAssumption DEF DeleteLocal, LocalInv, LocalTypeOK, Registered, NoFields, Some
<1>4. OrdersKept'
  BY LocalAssumption, KillersApart DEF DeleteLocal, LocalInv, LocalTypeOK, OrdersKept,
    CallsKnow, Early, Some
<1>5. CallsKnow'
  BY LocalAssumption DEF DeleteLocal, LocalInv, LocalTypeOK, CallsKnow, Early, Some, Registered
<1>6. DeletionHolds'
  BY LocalAssumption DEF DeleteLocal, LocalInv, LocalTypeOK, DeletionHolds, Deleting, CallsKnow,
    Some
<1>7. ExitHolds'
  BY LocalAssumption DEF DeleteLocal, LocalInv, LocalTypeOK, ExitHolds, Registered, Some
<1> QED
  BY <1>1, <1>2, <1>3, <1>4, <1>5, <1>6, <1>7 DEF LocalInv

LEMMA KeepsStopResources ==
  ASSUME LocalInv, NEW t \in Call, StopResources(t)
  PROVE  LocalInv'
<1>a. /\ call' \in [Call -> CallRecord]
      /\ \A u \in Call : u # t => call'[u] = call[u]
      /\ call'[t].at = "kill" /\ call'[t].kind = call[t].kind
      /\ call'[t].session = call[t].session
  BY Goes DEF StopResources, CallAt
<1>b. killing[t] = Nobody
  BY DEF StopResources, LocalInv, OrdersKept
<1>c. \/ Taken(t) /\ session \in Call
      \/ UNCHANGED <<session, fields, probe, killing>>
  <2>1. call[t].session \in Call
    BY Typed DEF StopResources, LocalInv, CallsKnow, CallRecord
  <2> QED
    BY <2>1, Takes, KillersApart DEF StopResources, StillThere, NotTaken
<1>1. LocalTypeOK'
  BY <1>a, <1>b, <1>c, Typed, LocalAssumption, KillersApart DEF StopResources, Taken,
    ProbesKept, LocalInv, LocalTypeOK, FieldRecord, ProbeRecord, CallRecord, CallAt
<1>2. ProcessOwned'
  <2> SUFFICES ASSUME NEW u \in Call, process'[u] = "running"
               PROVE  Owned(u)'
    BY OwnersSuffice
  <2>1. process[u] = "running" /\ Owned(u)
    BY <1>a, <1>b, <1>c, Typed, LocalAssumption, KillersApart DEF StopResources, Taken,
      ProbesKept
  <2>2. CASE session = u /\ fields[u].process
    BY <2>1, <2>2, <1>a, <1>b, <1>c, Typed, LocalAssumption, KillersApart DEF Owned, Starting,
      StopResources, Taken, ProbesKept
  <2>3. CASE Starting(u)
    BY <2>1, <2>3, <1>a, <1>b, <1>c, Typed, LocalAssumption, KillersApart DEF Owned, Starting,
      StopResources, Taken, ProbesKept
  <2>4. CASE \E k \in Killer : killing[k] = u
    BY <2>1, <2>4, <1>a, <1>b, <1>c, Typed, LocalAssumption, KillersApart DEF Owned, Starting,
      StopResources, Taken, ProbesKept
  <2> QED
    BY <2>1, <2>2, <2>3, <2>4 DEF Owned
<1>3. Registered'
  BY <1>a, <1>b, <1>c, Typed, LocalAssumption, KillersApart DEF StopResources, Taken,
    ProbesKept, LocalInv, Registered, NoFields
<1>4. OrdersKept'
  <2>1. \A j \in Killer : j # t => killing'[j] = killing[j]
    BY <1>c DEF Taken
  <2>2. \A h \in Call : probe[h].at = "over" => probe'[h].at = "over"
    BY <1>c DEF Taken, ProbesKept
  <2>3. exit' = exit
    BY DEF StopResources
  <2> QED
    BY <1>a, <2>1, <2>2, <2>3, KillersApart DEF LocalInv, OrdersKept
<1>5. CallsKnow'
  BY <1>a, <1>b, <1>c, Typed, LocalAssumption, KillersApart DEF StopResources, Taken,
    ProbesKept, LocalInv, CallsKnow, Early
<1>6. DeletionHolds'
  <2>1. CASE session' = Nobody
    <3>1. session' \in {session, Nobody} /\ retired' = retired
      BY <2>1 DEF StopResources
    <3>2. \A u \in Call : Deleting(u)' => Deleting(u)
      BY <1>a DEF StopResources, Deleting
    <3>3. session' = session => ~(retired /\ session # Nobody)
      BY <2>1
    <3> QED
      BY <2>1, <3>1, <3>2 DEF LocalInv, DeletionHolds
  <2>2. CASE session' = session /\ session # Nobody
    <3>1. call[t].session # session
      BY <2>2 DEF StopResources, StillThere, TakeApart
    <3>2. \A u \in Call : Deleting(u)' => Deleting(u)
      BY <1>a DEF StopResources, Deleting
    <3>3. ASSUME retired
          PROVE  \E u \in Call : call'[u].kind = "delete" /\ call'[u].at = "stop"
                                 /\ call'[u].session = session
      <4>1. PICK u \in Call : call[u].kind = "delete" /\ call[u].at = "stop"
                             /\ call[u].session = session
        BY <2>2, <3>3 DEF LocalInv, DeletionHolds
      <4> QED
        BY <1>a, <3>1, <4>1
    <3> QED
      BY <2>2, <3>2, <3>3 DEF StopResources, LocalInv, DeletionHolds
  <2> QED
    BY <1>c, <2>1, <2>2 DEF Taken
<1>7. ExitHolds'
  BY <1>a, <1>b, <1>c, Typed, LocalAssumption, KillersApart DEF StopResources, Taken,
    ProbesKept, LocalInv, LocalTypeOK, ExitHolds, Registered, Some
<1> QED
  BY <1>1, <1>2, <1>3, <1>4, <1>5, <1>6, <1>7 DEF LocalInv

LEMMA KeepsKillLocal ==
  ASSUME LocalInv, NEW t \in Call, KillLocal(t)
  PROVE  LocalInv'
<1>a. /\ call' \in [Call -> CallRecord]
      /\ \A u \in Call : u # t => call'[u] = call[u]
      /\ call'[t].at \in {"erase", "done"} /\ call'[t].kind = call[t].kind
      /\ call'[t].session = call[t].session
  BY Goes DEF KillLocal, CallAt
<1>b. /\ process' \in [Call -> {"none", "running", "ended"}]
      /\ \A u \in Call : process'[u] = "running" => process[u] = "running" /\ u # killing[t]
      /\ killing' \in [Killer -> Some] /\ killing'[t] = Nobody
      /\ \A j \in Killer : j # t => killing'[j] = killing[j]
  BY Kills, KillersApart DEF KillLocal
<1>1. LocalTypeOK'
  BY <1>a, <1>b, Typed, LocalAssumption, KillersApart DEF KillLocal, LocalInv, LocalTypeOK,
    FieldRecord, ProbeRecord, CallRecord, CallAt
<1>2. ProcessOwned'
  <2> SUFFICES ASSUME NEW u \in Call, process'[u] = "running"
               PROVE  Owned(u)'
    BY OwnersSuffice
  <2>1. process[u] = "running" /\ Owned(u)
    BY <1>a, <1>b, Typed, LocalAssumption, KillersApart DEF KillLocal
  <2>2. CASE session = u /\ fields[u].process
    BY <2>1, <2>2, <1>a, <1>b, Typed, LocalAssumption, KillersApart DEF Owned, Starting,
      KillLocal
  <2>3. CASE Starting(u)
    BY <2>1, <2>3, <1>a, <1>b, Typed, LocalAssumption, KillersApart DEF Owned, Starting,
      KillLocal
  <2>4. CASE \E k \in Killer : killing[k] = u
    BY <2>1, <2>4, <1>a, <1>b, Typed, LocalAssumption, KillersApart DEF Owned, Starting,
      KillLocal
  <2> QED
    BY <2>1, <2>2, <2>3, <2>4 DEF Owned
<1>3. Registered'
  BY LocalAssumption DEF KillLocal, LocalGo, Killed, LocalInv, LocalTypeOK, Registered,
    NoFields, Some
<1>4. OrdersKept'
  BY <1>a, <1>b, KillersApart DEF KillLocal, LocalInv, OrdersKept
<1>5. CallsKnow'
  BY LocalAssumption DEF KillLocal, LocalGo, Killed, LocalInv, LocalTypeOK, CallsKnow, Early,
    Some, Registered
<1>6. DeletionHolds'
  BY LocalAssumption DEF KillLocal, LocalGo, Killed, LocalInv, LocalTypeOK, DeletionHolds,
    Deleting, CallsKnow, Some
<1>7. ExitHolds'
  BY LocalAssumption DEF KillLocal, LocalGo, Killed, LocalInv, LocalTypeOK, ExitHolds,
    Registered, Some
<1> QED
  BY <1>1, <1>2, <1>3, <1>4, <1>5, <1>6, <1>7 DEF LocalInv

LEMMA KeepsEraseLocal ==
  ASSUME LocalInv, NEW t \in Call, EraseLocal(t)
  PROVE  LocalInv'
<1>1. LocalTypeOK'
  <2>1. call' \in [Call -> CallRecord]
    BY Goes DEF EraseLocal, CallAt
  <2> QED
    BY <2>1, OnlyGoes DEF EraseLocal
<1>2. ProcessOwned'
  BY LocalAssumption, KillersApart DEF EraseLocal, LocalGo, LocalInv, LocalTypeOK, ProcessOwned,
    Starting, OrdersKept, Registered, NoFields, Some
<1>3. Registered'
  BY LocalAssumption DEF EraseLocal, LocalGo, LocalInv, LocalTypeOK, Registered, NoFields, Some
<1>4. OrdersKept'
  BY LocalAssumption, KillersApart DEF EraseLocal, LocalGo, LocalInv, LocalTypeOK, OrdersKept,
    CallsKnow, Early, Some
<1>5. CallsKnow'
  BY LocalAssumption DEF EraseLocal, LocalGo, LocalInv, LocalTypeOK, CallsKnow, Early, Some,
    Registered
<1>6. DeletionHolds'
  BY LocalAssumption DEF EraseLocal, LocalGo, LocalInv, LocalTypeOK, DeletionHolds, Deleting,
    CallsKnow, Some
<1>7. ExitHolds'
  BY LocalAssumption DEF EraseLocal, LocalGo, LocalInv, LocalTypeOK, ExitHolds, Registered, Some
<1> QED
  BY <1>1, <1>2, <1>3, <1>4, <1>5, <1>6, <1>7 DEF LocalInv

LEMMA KeepsProcessEnds ==
  ASSUME LocalInv, NEW t \in Call, ProcessEnds(t)
  PROVE  LocalInv'
<1>1. LocalTypeOK'
  BY DEF ProcessEnds, LocalInv, LocalTypeOK
<1>2. ProcessOwned'
  BY DEF ProcessEnds, LocalInv, LocalTypeOK, ProcessOwned, Starting
<1>3. Registered'
  BY LocalAssumption DEF ProcessEnds, LocalInv, LocalTypeOK, Registered, NoFields, Some
<1>4. OrdersKept'
  BY LocalAssumption, KillersApart DEF ProcessEnds, LocalInv, LocalTypeOK, OrdersKept,
    CallsKnow, Early, Some
<1>5. CallsKnow'
  BY LocalAssumption DEF ProcessEnds, LocalInv, LocalTypeOK, CallsKnow, Early, Some, Registered
<1>6. DeletionHolds'
  BY LocalAssumption DEF ProcessEnds, LocalInv, LocalTypeOK, DeletionHolds, Deleting, CallsKnow,
    Some
<1>7. ExitHolds'
  BY LocalAssumption DEF ProcessEnds, LocalInv, LocalTypeOK, ExitHolds, Registered, Some
<1> QED
  BY <1>1, <1>2, <1>3, <1>4, <1>5, <1>6, <1>7 DEF LocalInv

LEMMA KeepsProcessWatched ==
  ASSUME LocalInv, NEW t \in Call, ProcessWatched(t)
  PROVE  LocalInv'
<1>b. ProbesKept /\ fields' \in [Call -> FieldRecord]
      /\ \/ session = t /\ session' = Nobody /\ \A u \in Call : fields'[u] = NoFields
         \/ session # t /\ UNCHANGED <<session, fields>>
  <2>1. CASE session = t /\ session' = Nobody /\ CancelProbe(fields[t].probe)
             /\ fields' = [fields EXCEPT ![t] = NoFields]
    <3>1. ProbesKept
      BY <2>1, Cancels
    <3>2. fields' \in [Call -> FieldRecord] /\ \A u \in Call : fields'[u] = NoFields
      BY <2>1, Typed DEF FieldRecord, NoFields, LocalInv, Registered
    <3> QED
      BY <2>1, <3>1, <3>2
  <2>2. CASE session # t /\ UNCHANGED <<session, fields, probe>>
    BY <2>2, Typed DEF ProbesKept
  <2> QED
    BY <2>1, <2>2 DEF ProcessWatched, StillThere
<1>1. LocalTypeOK'
  BY <1>b, Typed, LocalAssumption, KillersApart DEF ProcessWatched, ProbesKept, LocalInv,
    LocalTypeOK, FieldRecord, ProbeRecord, CallRecord, CallAt
<1>2. ProcessOwned'
  <2> SUFFICES ASSUME NEW u \in Call, process'[u] = "running"
               PROVE  Owned(u)'
    BY OwnersSuffice
  <2>1. process[u] = "running" /\ Owned(u)
    BY <1>b, Typed, LocalAssumption, KillersApart DEF ProcessWatched, ProbesKept
  <2>2. CASE session = u /\ fields[u].process
    BY <2>1, <2>2, <1>b, Typed, LocalAssumption, KillersApart DEF Owned, Starting,
      ProcessWatched, ProbesKept
  <2>3. CASE Starting(u)
    BY <2>1, <2>3, <1>b, Typed, LocalAssumption, KillersApart DEF Owned, Starting,
      ProcessWatched, ProbesKept
  <2>4. CASE \E k \in Killer : killing[k] = u
    BY <2>1, <2>4, <1>b, Typed, LocalAssumption, KillersApart DEF Owned, Starting,
      ProcessWatched, ProbesKept
  <2> QED
    BY <2>1, <2>2, <2>3, <2>4 DEF Owned
<1>3. Registered'
  BY <1>b, Typed, LocalAssumption, KillersApart DEF ProcessWatched, ProbesKept, LocalInv,
    Registered, NoFields
<1>4. OrdersKept'
  BY <1>b, Typed, LocalAssumption, KillersApart DEF ProcessWatched, ProbesKept, LocalInv,
    OrdersKept, CallsKnow, Early
<1>5. CallsKnow'
  BY <1>b, Typed, LocalAssumption, KillersApart DEF ProcessWatched, ProbesKept, LocalInv,
    CallsKnow, Early
<1>6. DeletionHolds'
  BY LocalAssumption DEF ProcessWatched, StillThere, CancelProbe, LocalInv, LocalTypeOK,
    DeletionHolds, Deleting, CallsKnow, Some
<1>7. ExitHolds'
  BY LocalAssumption DEF ProcessWatched, StillThere, CancelProbe, LocalInv, LocalTypeOK,
    ExitHolds, Registered, Some
<1> QED
  BY <1>1, <1>2, <1>3, <1>4, <1>5, <1>6, <1>7 DEF LocalInv

LEMMA KeepsProbeAnswers ==
  ASSUME LocalInv, NEW t \in Call, ProbeAnswers(t)
  PROVE  LocalInv'
<1>1. LocalTypeOK'
  BY LocalAssumption, KillersApart DEF ProbeAnswers, LocalInv, LocalTypeOK, Some, LocalKind,
    NoFields
<1>2. ProcessOwned'
  <2> SUFFICES ASSUME NEW u \in Call, process'[u] = "running"
               PROVE  Owned(u)'
    BY OwnersSuffice
  <2>1. process[u] = "running" /\ Owned(u)
    BY Typed, LocalAssumption, KillersApart DEF ProbeAnswers
  <2>2. CASE session = u /\ fields[u].process
    BY <2>1, <2>2, Typed, LocalAssumption, KillersApart DEF Owned, Starting, ProbeAnswers
  <2>3. CASE Starting(u)
    BY <2>1, <2>3, Typed, LocalAssumption, KillersApart DEF Owned, Starting, ProbeAnswers
  <2>4. CASE \E k \in Killer : killing[k] = u
    BY <2>1, <2>4, Typed, LocalAssumption, KillersApart DEF Owned, Starting, ProbeAnswers
  <2> QED
    BY <2>1, <2>2, <2>3, <2>4 DEF Owned
<1>3. Registered'
  BY LocalAssumption DEF ProbeAnswers, LocalInv, LocalTypeOK, Registered, NoFields, Some
<1>4. OrdersKept'
  BY LocalAssumption, KillersApart DEF ProbeAnswers, LocalInv, LocalTypeOK, OrdersKept,
    CallsKnow, Early, Some
<1>5. CallsKnow'
  BY LocalAssumption DEF ProbeAnswers, LocalInv, LocalTypeOK, CallsKnow, Early, Some, Registered
<1>6. DeletionHolds'
  BY LocalAssumption DEF ProbeAnswers, LocalInv, LocalTypeOK, DeletionHolds, Deleting,
    CallsKnow, Some
<1>7. ExitHolds'
  BY LocalAssumption DEF ProbeAnswers, LocalInv, LocalTypeOK, ExitHolds, Registered, Some
<1> QED
  BY <1>1, <1>2, <1>3, <1>4, <1>5, <1>6, <1>7 DEF LocalInv

\* Steps that only note something in the registered session's fields.
LEMMA NotesKeep ==
  ASSUME LocalInv, ProbesKept,
         UNCHANGED <<session, process, watched, call, killing, retired, exit>>,
         fields' \in [Call -> FieldRecord],
         \A u \in Call : fields'[u].process = fields[u].process,
         \A u \in Call : fields'[u] # NoFields => session = u
  PROVE  LocalInv'
<1>1. LocalTypeOK'
  BY DEF ProbesKept, LocalInv, LocalTypeOK, FieldRecord, ProbeRecord
<1>2. ProcessOwned'
  BY DEF LocalInv, ProcessOwned, Starting
<1>3. Registered'
  BY Typed DEF LocalInv, Registered
<1>4. OrdersKept'
  BY DEF LocalInv, OrdersKept, ProbesKept
<1>5. CallsKnow'
  BY DEF LocalInv, CallsKnow, ProbesKept, Early
<1>6. DeletionHolds'
  BY DEF LocalInv, DeletionHolds, Deleting
<1>7. ExitHolds'
  BY DEF LocalInv, ExitHolds
<1> QED
  BY <1>1, <1>2, <1>3, <1>4, <1>5, <1>6, <1>7 DEF LocalInv

LEMMA KeepsProbeOk ==
  ASSUME LocalInv, NEW t \in Call, ProbeOk(t)
  PROVE  LocalInv'
<1>1. ProbesKept /\ probe[t].session \in Call
  BY Typed DEF ProbeOk, LocalInv, CallsKnow, ProbeRecord, ProbesKept
<1>2. fields \in [Call -> FieldRecord] /\ \A u \in Call : fields[u] # NoFields => session = u
  BY Typed DEF LocalInv, Registered
<1>3. CASE UNCHANGED fields
  BY <1>1, <1>2, <1>3, NotesKeep DEF ProbeOk
<1>4. CASE session = probe[t].session
           /\ fields' = [fields EXCEPT ![probe[t].session].ready = TRUE]
  <2>1. fields' \in [Call -> FieldRecord] /\ \A u \in Call : fields'[u].process = fields[u].process
    BY <1>1, <1>2, <1>4 DEF FieldRecord
  <2>2. \A u \in Call : u # session => fields'[u] = fields[u]
    BY <1>1, <1>2, <1>4
  <2> QED
    BY <1>1, <1>2, <2>1, <2>2, NotesKeep DEF ProbeOk
<1> QED
  BY <1>3, <1>4 DEF ProbeOk, StillThere

\* The identity is noted, or not, in the session that is registered.
LEMMA IdentityNoted ==
  ASSUME LocalInv, ProbesKept, session \in Call,
         UNCHANGED <<session, process, watched, call, killing, retired, exit>>,
         fields' = [fields EXCEPT ![session].remotePID = TRUE]
  PROVE  LocalInv'
<1>1. fields \in [Call -> FieldRecord] /\ \A u \in Call : fields[u] # NoFields => session = u
  BY Typed DEF LocalInv, Registered
<1>2. fields' \in [Call -> FieldRecord] /\ \A u \in Call : fields'[u].process = fields[u].process
  BY <1>1 DEF FieldRecord
<1>3. \A u \in Call : u # session => fields'[u] = fields[u]
  BY <1>1
<1> QED
  BY <1>1, <1>2, <1>3, NotesKeep

LEMMA KeepsProbeIdentifies ==
  ASSUME LocalInv, NEW t \in Call, ProbeIdentifies(t)
  PROVE  LocalInv'
<1>1. ProbesKept /\ probe[t].session \in Call
  BY Typed DEF ProbeIdentifies, LocalInv, CallsKnow, ProbeRecord, ProbesKept
<1>2. fields \in [Call -> FieldRecord] /\ \A u \in Call : fields[u] # NoFields => session = u
  BY Typed DEF LocalInv, Registered
<1>3. CASE UNCHANGED fields
  BY <1>1, <1>2, <1>3, NotesKeep DEF ProbeIdentifies
<1>4. CASE session = probe[t].session
           /\ fields' = [fields EXCEPT ![probe[t].session].remotePID = TRUE]
  BY <1>1, <1>4, IdentityNoted DEF ProbeIdentifies
<1> QED
  BY <1>3, <1>4 DEF ProbeIdentifies, StillThere

LEMMA KeepsBridgeIdentifies ==
  ASSUME LocalInv, BridgeIdentifies
  PROVE  LocalInv'
<1>1. ProbesKept
  BY Typed DEF BridgeIdentifies, ProbesKept
<1>2. session \in Call
  BY Typed DEF BridgeIdentifies, Forwards
<1> QED
  BY <1>1, <1>2, IdentityNoted DEF BridgeIdentifies

LEMMA KeepsProbeFailed ==
  ASSUME LocalInv, NEW t \in Call, ProbeFailed(t)
  PROVE  LocalInv'
<1>a. probe[t].at = "failed" /\ probe[t].session \in Call /\ killing[Check(t)] = Nobody
  BY Typed, KillersApart DEF ProbeFailed, LocalInv, CallsKnow, OrdersKept, ProbeRecord
<1>b. probe' \in [Call -> ProbeRecord] /\ probe'[t].at = "over"
      /\ \A u \in Call : /\ probe'[u].session = probe[u].session
                         /\ probe'[u].at = "none" <=> probe[u].at = "none"
                         /\ probe[u].at = "over" => probe'[u].at = "over"
  BY <1>a, Typed DEF ProbeFailed, ProbeRecord
<1>c. \/ /\ session \in Call /\ session' = Nobody
         /\ fields' \in [Call -> FieldRecord] /\ \A u \in Call : fields'[u] = NoFields
         /\ killing' \in [Killer -> Some]
         /\ \A j \in Killer : j # Check(t) => killing'[j] = killing[j]
         /\ fields[session].process => killing'[Check(t)] = session
      \/ UNCHANGED <<session, fields, killing>>
  <2>1. CASE session = probe[t].session
    <3>1. fields' \in [Call -> FieldRecord] /\ \A u \in Call : fields'[u] = NoFields
      <4>1. fields \in [Call -> FieldRecord] /\ NoFields \in FieldRecord
        BY Typed DEF FieldRecord, NoFields
      <4>2. \A u \in Call : u # session => fields[u] = NoFields
        BY DEF LocalInv, Registered
      <4>3. fields' = [fields EXCEPT ![session] = NoFields]
        BY <2>1 DEF ProbeFailed, StillThere
      <4> QED
        BY <1>a, <2>1, <4>1, <4>2, <4>3
    <3>2. /\ killing' \in [Killer -> Some]
          /\ \A j \in Killer : j # Check(t) => killing'[j] = killing[j]
          /\ fields[session].process => killing'[Check(t)] = session
      BY <1>a, <2>1, Typed, KillersApart DEF ProbeFailed, StillThere
    <3> QED
      BY <1>a, <2>1, <3>1, <3>2 DEF ProbeFailed, StillThere
  <2>2. CASE session # probe[t].session
    BY <2>2 DEF ProbeFailed, StillThere
  <2> QED
    BY <2>1, <2>2
<1>1. LocalTypeOK'
  BY <1>a, <1>b, <1>c, Typed, LocalAssumption, KillersApart DEF ProbeFailed, LocalInv,
    LocalTypeOK, FieldRecord, ProbeRecord, CallRecord, CallAt
<1>2. ProcessOwned'
  <2> SUFFICES ASSUME NEW u \in Call, process'[u] = "running"
               PROVE  Owned(u)'
    BY OwnersSuffice
  <2>1. process[u] = "running" /\ Owned(u)
    BY <1>a, <1>b, <1>c, Typed, LocalAssumption, KillersApart DEF ProbeFailed
  <2>2. CASE session = u /\ fields[u].process
    BY <2>1, <2>2, <1>a, <1>b, <1>c, Typed, LocalAssumption, KillersApart DEF Owned, Starting,
      ProbeFailed
  <2>3. CASE Starting(u)
    BY <2>1, <2>3, <1>a, <1>b, <1>c, Typed, LocalAssumption, KillersApart DEF Owned, Starting,
      ProbeFailed
  <2>4. CASE \E k \in Killer : killing[k] = u
    BY <2>1, <2>4, <1>a, <1>b, <1>c, Typed, LocalAssumption, KillersApart DEF Owned, Starting,
      ProbeFailed
  <2> QED
    BY <2>1, <2>2, <2>3, <2>4 DEF Owned
<1>3. Registered'
  <2>1. CASE session' = Nobody /\ \A u \in Call : fields'[u] = NoFields
    BY <2>1 DEF Registered, NoFields
  <2>2. CASE UNCHANGED <<session, fields, killing>>
    BY <2>2 DEF ProbeFailed, LocalInv, Registered
  <2> QED
    BY <1>c, <2>1, <2>2
<1>4. OrdersKept'
  BY <1>a, <1>b, <1>c, Typed, LocalAssumption, KillersApart DEF ProbeFailed, LocalInv,
    OrdersKept, CallsKnow, Early
<1>5. CallsKnow'
  BY <1>a, <1>b, <1>c, Typed, LocalAssumption, KillersApart DEF ProbeFailed, LocalInv,
    CallsKnow, Early
<1>6. DeletionHolds'
  BY LocalAssumption DEF ProbeFailed, StillThere, LocalInv, LocalTypeOK, DeletionHolds,
    Deleting, CallsKnow, Some
<1>7. ExitHolds'
  BY LocalAssumption DEF ProbeFailed, StillThere, LocalInv, LocalTypeOK, ExitHolds, Registered,
    Some
<1> QED
  BY <1>1, <1>2, <1>3, <1>4, <1>5, <1>6, <1>7 DEF LocalInv

LEMMA KeepsProbeKills ==
  ASSUME LocalInv, NEW t \in Call, ProbeKills(t)
  PROVE  LocalInv'
<1>b. /\ process' \in [Call -> {"none", "running", "ended"}]
      /\ \A u \in Call : process'[u] = "running" => process[u] = "running" /\ u # killing[Check(t)]
      /\ killing' \in [Killer -> Some] /\ killing'[Check(t)] = Nobody
      /\ \A j \in Killer : j # Check(t) => killing'[j] = killing[j]
  BY Kills, KillersApart DEF ProbeKills
<1>1. LocalTypeOK'
  BY LocalAssumption, KillersApart DEF ProbeKills, Killed, LocalInv, LocalTypeOK, Some,
    LocalKind, NoFields
<1>2. ProcessOwned'
  <2> SUFFICES ASSUME NEW u \in Call, process'[u] = "running"
               PROVE  Owned(u)'
    BY OwnersSuffice
  <2>1. process[u] = "running" /\ Owned(u)
    BY <1>b, Typed, LocalAssumption, KillersApart DEF ProbeKills
  <2>2. CASE session = u /\ fields[u].process
    BY <2>1, <2>2, <1>b, Typed, LocalAssumption, KillersApart DEF Owned, Starting, ProbeKills
  <2>3. CASE Starting(u)
    BY <2>1, <2>3, <1>b, Typed, LocalAssumption, KillersApart DEF Owned, Starting, ProbeKills
  <2>4. CASE \E k \in Killer : killing[k] = u
    BY <2>1, <2>4, <1>b, Typed, LocalAssumption, KillersApart DEF Owned, Starting, ProbeKills
  <2> QED
    BY <2>1, <2>2, <2>3, <2>4 DEF Owned
<1>3. Registered'
  BY LocalAssumption DEF ProbeKills, Killed, LocalInv, LocalTypeOK, Registered, NoFields, Some
<1>4. OrdersKept'
  BY LocalAssumption, KillersApart DEF ProbeKills, Killed, LocalInv, LocalTypeOK, OrdersKept,
    CallsKnow, Early, Some
<1>5. CallsKnow'
  BY LocalAssumption DEF ProbeKills, Killed, LocalInv, LocalTypeOK, CallsKnow, Early, Some,
    Registered
<1>6. DeletionHolds'
  BY LocalAssumption DEF ProbeKills, Killed, LocalInv, LocalTypeOK, DeletionHolds, Deleting,
    CallsKnow, Some
<1>7. ExitHolds'
  BY LocalAssumption DEF ProbeKills, Killed, LocalInv, LocalTypeOK, ExitHolds, Registered, Some
<1> QED
  BY <1>1, <1>2, <1>3, <1>4, <1>5, <1>6, <1>7 DEF LocalInv

LEMMA KeepsExitSnapshot ==
  ASSUME LocalInv, ExitSnapshot
  PROVE  LocalInv'
<1>1. LocalTypeOK'
  BY DEF ExitSnapshot, LocalInv, LocalTypeOK
<1>2. ProcessOwned'
  BY DEF ExitSnapshot, LocalInv, ProcessOwned, Starting
<1>3. Registered'
  BY LocalAssumption DEF ExitSnapshot, LocalInv, LocalTypeOK, Registered, NoFields, Some
<1>4. OrdersKept'
  BY LocalAssumption, KillersApart DEF ExitSnapshot, LocalInv, LocalTypeOK, OrdersKept,
    CallsKnow, Early, Some
<1>5. CallsKnow'
  BY LocalAssumption DEF ExitSnapshot, LocalInv, LocalTypeOK, CallsKnow, Early, Some, Registered
<1>6. DeletionHolds'
  BY LocalAssumption DEF ExitSnapshot, LocalInv, LocalTypeOK, DeletionHolds, Deleting,
    CallsKnow, Some
<1>7. ExitHolds'
  BY LocalAssumption DEF ExitSnapshot, LocalInv, LocalTypeOK, ExitHolds, Registered, Some
<1> QED
  BY <1>1, <1>2, <1>3, <1>4, <1>5, <1>6, <1>7 DEF LocalInv

LEMMA KeepsExitSweep ==
  ASSUME LocalInv, ExitSweep
  PROVE  LocalInv'
<1>b. killing[Sweep] = Nobody
  BY DEF ExitSweep, LocalInv, OrdersKept
<1>c. \/ Taken(Sweep) /\ session \in Call
      \/ UNCHANGED <<session, fields, probe, killing>>
  BY Takes, KillersApart, Typed DEF ExitSweep, StillThere, NotTaken
<1>1. LocalTypeOK'
  BY <1>b, <1>c, Typed, LocalAssumption, KillersApart DEF ExitSweep, Taken, ProbesKept,
    LocalInv, LocalTypeOK, FieldRecord, ProbeRecord, CallRecord, CallAt
<1>2. ProcessOwned'
  <2> SUFFICES ASSUME NEW u \in Call, process'[u] = "running"
               PROVE  Owned(u)'
    BY OwnersSuffice
  <2>1. process[u] = "running" /\ Owned(u)
    BY <1>b, <1>c, Typed, LocalAssumption, KillersApart DEF ExitSweep, Taken, ProbesKept
  <2>2. CASE session = u /\ fields[u].process
    BY <2>1, <2>2, <1>b, <1>c, Typed, LocalAssumption, KillersApart DEF Owned, Starting,
      ExitSweep, Taken, ProbesKept
  <2>3. CASE Starting(u)
    BY <2>1, <2>3, <1>b, <1>c, Typed, LocalAssumption, KillersApart DEF Owned, Starting,
      ExitSweep, Taken, ProbesKept
  <2>4. CASE \E k \in Killer : killing[k] = u
    BY <2>1, <2>4, <1>b, <1>c, Typed, LocalAssumption, KillersApart DEF Owned, Starting,
      ExitSweep, Taken, ProbesKept
  <2> QED
    BY <2>1, <2>2, <2>3, <2>4 DEF Owned
<1>3. Registered'
  BY <1>b, <1>c, Typed, LocalAssumption, KillersApart DEF ExitSweep, Taken, ProbesKept,
    LocalInv, Registered, NoFields
<1>4. OrdersKept'
  BY LocalAssumption, KillersApart DEF ExitSweep, StillThere, TakeApart, NotTaken, CancelProbe,
    LocalInv, LocalTypeOK, OrdersKept, CallsKnow, Early, Some
<1>5. CallsKnow'
  BY LocalAssumption DEF ExitSweep, StillThere, TakeApart, NotTaken, CancelProbe, LocalInv,
    LocalTypeOK, CallsKnow, Early, Some, Registered
<1>6. DeletionHolds'
  BY LocalAssumption DEF ExitSweep, StillThere, TakeApart, NotTaken, CancelProbe, LocalInv,
    LocalTypeOK, DeletionHolds, Deleting, CallsKnow, Some
<1>7. ExitHolds'
  BY LocalAssumption DEF ExitSweep, StillThere, TakeApart, NotTaken, CancelProbe, LocalInv,
    LocalTypeOK, ExitHolds, Registered, Some
<1> QED
  BY <1>1, <1>2, <1>3, <1>4, <1>5, <1>6, <1>7 DEF LocalInv

LEMMA KeepsExitKill ==
  ASSUME LocalInv, ExitKill
  PROVE  LocalInv'
<1>b. /\ process' \in [Call -> {"none", "running", "ended"}]
      /\ \A u \in Call : process'[u] = "running" => process[u] = "running" /\ u # killing[Sweep]
      /\ killing' \in [Killer -> Some] /\ killing'[Sweep] = Nobody
      /\ \A j \in Killer : j # Sweep => killing'[j] = killing[j]
  BY Kills, KillersApart DEF ExitKill
<1>1. LocalTypeOK'
  BY LocalAssumption, KillersApart DEF ExitKill, Killed, LocalInv, LocalTypeOK, Some, LocalKind,
    NoFields
<1>2. ProcessOwned'
  <2> SUFFICES ASSUME NEW u \in Call, process'[u] = "running"
               PROVE  Owned(u)'
    BY OwnersSuffice
  <2>1. process[u] = "running" /\ Owned(u)
    BY <1>b, Typed, LocalAssumption, KillersApart DEF ExitKill
  <2>2. CASE session = u /\ fields[u].process
    BY <2>1, <2>2, <1>b, Typed, LocalAssumption, KillersApart DEF Owned, Starting, ExitKill
  <2>3. CASE Starting(u)
    BY <2>1, <2>3, <1>b, Typed, LocalAssumption, KillersApart DEF Owned, Starting, ExitKill
  <2>4. CASE \E k \in Killer : killing[k] = u
    BY <2>1, <2>4, <1>b, Typed, LocalAssumption, KillersApart DEF Owned, Starting, ExitKill
  <2> QED
    BY <2>1, <2>2, <2>3, <2>4 DEF Owned
<1>3. Registered'
  BY LocalAssumption DEF ExitKill, Killed, LocalInv, LocalTypeOK, Registered, NoFields, Some
<1>4. OrdersKept'
  BY LocalAssumption, KillersApart DEF ExitKill, Killed, LocalInv, LocalTypeOK, OrdersKept,
    CallsKnow, Early, Some
<1>5. CallsKnow'
  BY LocalAssumption DEF ExitKill, Killed, LocalInv, LocalTypeOK, CallsKnow, Early, Some,
    Registered
<1>6. DeletionHolds'
  BY LocalAssumption DEF ExitKill, Killed, LocalInv, LocalTypeOK, DeletionHolds, Deleting,
    CallsKnow, Some
<1>7. ExitHolds'
  BY LocalAssumption DEF ExitKill, Killed, LocalInv, LocalTypeOK, ExitHolds, Registered, Some
<1> QED
  BY <1>1, <1>2, <1>3, <1>4, <1>5, <1>6, <1>7 DEF LocalInv

LEMMA LocalStutterKeeps ==
  ASSUME LocalInv, UNCHANGED localVars
  PROVE  LocalInv'
  BY DEF localVars, LocalInv, LocalTypeOK, ProcessOwned, Starting, Registered, OrdersKept,
    CallsKnow, DeletionHolds, Deleting, ExitHolds

-----------------------------------------------------------------------------
(* The theorem.                                                             *)

LEMMA LocalNextKeeps ==
  ASSUME LocalInv, LocalNext
  PROVE  LocalInv'
<1>1. ASSUME NEW t \in Call, StartLocal(t) \/ PauseLocal(t) \/ StopLocal(t) \/ DeleteLocal(t)
      PROVE  LocalInv'
  BY <1>1, KeepsStartLocal, KeepsPauseLocal, KeepsStopLocal, KeepsDeleteLocal
<1>2. ASSUME NEW t \in Call, Serve(t)
      PROVE  LocalInv'
  BY <1>2, KeepsStopFirstLocal, KeepsCheckLocal, KeepsResumeLocal, KeepsSpawn, KeepsRegisterLocal,
    KeepsNotRegisteredLocal, KeepsStopResources, KeepsKillLocal, KeepsEraseLocal DEF Serve
<1>3. ASSUME NEW t \in Call, ProcessEnds(t) \/ ProcessWatched(t) \/ Probe(t)
      PROVE  LocalInv'
  BY <1>3, KeepsProcessEnds, KeepsProcessWatched, KeepsProbeAnswers, KeepsProbeOk,
    KeepsProbeIdentifies, KeepsProbeFailed, KeepsProbeKills DEF Probe
<1>4. CASE BridgeIdentifies \/ ExitSnapshot \/ ExitSweep \/ ExitKill
  BY <1>4, KeepsBridgeIdentifies, KeepsExitSnapshot, KeepsExitSweep, KeepsExitKill
<1> QED
  BY <1>1, <1>2, <1>3, <1>4 DEF LocalNext

\* The invariant says what LocalSound promises.
LEMMA InvIsSound ==
  ASSUME LocalInv
  PROVE  LocalSound
<1>1. DeadIsNoticed
  BY DEF LocalInv, Registered, DeadIsNoticed
<1>2. DeletedLocalGone
  BY DEF LocalInv, DeletionHolds, DeletedLocalGone
<1>3. SweptIsStopped
  BY LocalAssumption DEF LocalInv, LocalTypeOK, ProcessOwned, Starting, ExitHolds,
    SweptIsStopped, Some
<1> QED
  BY <1>1, <1>2, <1>3 DEF LocalInv, LocalSound

\* LocalSound for any number of requests: no process of a local profile is left
\* to itself, none that died stays registered, and neither the deletion nor the
\* exit forgets one it has found (gui.go:956, gui.go:2087, gui.go:2276).
THEOREM LocalAlwaysSound == LocalSpec => []LocalSound
<1>1. LocalInit => LocalInv
  BY LocalInitInv
<1>2. LocalInv /\ [LocalNext]_localVars => LocalInv'
  BY LocalNextKeeps, LocalStutterKeeps
<1>3. LocalInv => LocalSound
  BY InvIsSound
<1> QED
  BY <1>1, <1>2, <1>3, PTL DEF LocalSpec
=============================================================================

------------------------------- MODULE Tunnel -------------------------------
(***************************************************************************)
(* One tunnel (internal/sshclient/tunnel.go), forward or reverse: the       *)
(* accept loop, a handler per connection, and Close, which cancels, closes  *)
(* the listener and what it finds in the table of connections, and waits    *)
(* for the loop and the handlers, two seconds at most.                      *)
(* A connection has two ends: the accepted one and the dialled one.         *)
(***************************************************************************)
EXTENDS Naturals, FiniteSets

CONSTANT Conn  \* connections peers make

ASSUME TunnelAssumption == IsFiniteSet(Conn)

VARIABLES
  loop,      \* the accept loop: "accept", "add" with hand, or "over"
  hand,      \* the connection between Accept and its handler
  listening, \* the listener is open
  conn,      \* [Conn -> [at, accepted, dialled]]
  table,     \* t.conns: pairs of a connection and an end
  group,     \* t.wg
  close      \* Close: [at, todo, swept]

tunnelVars == <<loop, hand, listening, conn, table, group, close>>

Ends == {"accepted", "dialled"}

TunnelTypeOK ==
  /\ loop \in {"accept", "add", "over"} /\ hand \subseteq Conn
  /\ listening \in BOOLEAN
  /\ conn \in [Conn -> [at : {"new", "queued", "held", "dial", "dialled", "copy", "closing", "over"},
                        accepted : BOOLEAN, dialled : BOOLEAN]]
  /\ table \subseteq Conn \X Ends
  /\ group \in 0..Cardinality(Conn) + 1
  /\ close \in [at : {"no", "cancelled", "snapshot", "sweep", "wait", "clean", "timeout"},
                todo : SUBSET (Conn \X Ends), swept : SUBSET Conn]

TunnelInit ==
  /\ loop = "accept" /\ hand = {} /\ listening = TRUE
  /\ conn = [c \in Conn |-> [at |-> "new", accepted |-> FALSE, dialled |-> FALSE]]
  /\ table = {} /\ group = 1
  /\ close = [at |-> "no", todo |-> {}, swept |-> {}]

TunnelCancelled == close.at # "no"

-----------------------------------------------------------------------------
(* The accept loop.                                                         *)

PeerConnects(c) ==
  /\ conn[c].at = "new" /\ listening
  /\ conn' = [conn EXCEPT ![c].at = "queued"]
  /\ UNCHANGED <<loop, hand, listening, table, group, close>>

Accept(c) ==
  /\ loop = "accept" /\ listening /\ conn[c].at = "queued"
  /\ loop' = "add" /\ hand' = {c}
  /\ conn' = [conn EXCEPT ![c] = [at |-> "held", accepted |-> TRUE, dialled |-> FALSE]]
  /\ UNCHANGED <<listening, table, group, close>>

\* addConn; wg.Add and the start of the handler follow.
AddConn(c) ==
  /\ loop = "add" /\ conn[c].at = "held" /\ <<c, "accepted">> \notin table
  /\ table' = table \cup {<<c, "accepted">>}
  /\ UNCHANGED <<loop, hand, listening, conn, group, close>>

StartHandler(c) ==
  /\ loop = "add" /\ conn[c].at = "held" /\ <<c, "accepted">> \in table
  /\ group' = group + 1
  /\ conn' = [conn EXCEPT ![c].at = "dial"]
  /\ loop' = "accept" /\ hand' = {}
  /\ UNCHANGED <<listening, table, close>>

\* Accept fails on the closed listener, and the context is done.
LoopEnds ==
  /\ loop = "accept" /\ ~listening /\ TunnelCancelled
  /\ loop' = "over" /\ group' = group - 1
  /\ UNCHANGED <<hand, listening, conn, table, close>>

-----------------------------------------------------------------------------
(* A handler.                                                               *)

HandlerRest == <<loop, hand, listening, group, close>>

Dials(c) ==
  /\ conn[c].at = "dial"
  /\ \/ conn' = [conn EXCEPT ![c].at = "dialled", ![c].dialled = TRUE]
     \/ conn' = [conn EXCEPT ![c].at = "closing"]
  /\ UNCHANGED <<table, HandlerRest>>

AddDialled(c) ==
  /\ conn[c].at = "dialled"
  /\ conn' = [conn EXCEPT ![c].at = "copy"]
  /\ table' = table \cup {<<c, "dialled">>}
  /\ UNCHANGED HandlerRest

\* Mutant: only the dialled end is listened to.
DialledEnded(c) == ~conn[c].dialled

\* A copy goroutine finds its source closed.
CopyEnded(c) == ~conn[c].accepted \/ ~conn[c].dialled

\* It closes both ends, and the handler goes on.
CopyEnds(c) ==
  /\ conn[c].at = "copy" /\ CopyEnded(c)
  /\ conn' = [conn EXCEPT ![c] = [at |-> "closing", accepted |-> FALSE, dialled |-> FALSE]]
  /\ UNCHANGED <<table, HandlerRest>>

\* A peer hangs up, and the copy goroutine closes both ends.
PeerLeaves(c) ==
  /\ conn[c].at = "copy"
  /\ conn' = [conn EXCEPT ![c] = [at |-> "closing", accepted |-> FALSE, dialled |-> FALSE]]
  /\ UNCHANGED <<table, HandlerRest>>

\* Mutant: an end is dropped from the table and closed later.
RemovedFirst(c, end) ==
  IF <<c, end>> \in table
    THEN table' = table \ {<<c, end>>} /\ UNCHANGED conn
    ELSE conn' = [conn EXCEPT ![c][end] = FALSE] /\ UNCHANGED table

\* The deferred Close and removeConn of an end.
ClosedFirst(c, end) ==
  IF conn[c][end]
    THEN conn' = [conn EXCEPT ![c][end] = FALSE] /\ UNCHANGED table
    ELSE table' = table \ {<<c, end>>} /\ UNCHANGED conn

\* First the dialled end, then the accepted one.
Release(c) ==
  /\ conn[c].at = "closing"
  /\ LET left == {e \in Ends : conn[c][e] \/ <<c, e>> \in table} IN
       /\ left # {}
       /\ ClosedFirst(c, IF "dialled" \in left THEN "dialled" ELSE "accepted")
  /\ UNCHANGED HandlerRest

HandlerDone(c) ==
  /\ conn[c].at = "closing" /\ \A e \in Ends : ~conn[c][e] /\ <<c, e>> \notin table
  /\ conn' = [conn EXCEPT ![c].at = "over"]
  /\ group' = group - 1
  /\ UNCHANGED <<loop, hand, listening, table, close>>

-----------------------------------------------------------------------------
(* Close.                                                                   *)

CloseRest == <<loop, hand, group>>

Cancel ==
  /\ close.at = "no"
  /\ close' = [close EXCEPT !.at = "cancelled"]
  /\ UNCHANGED <<CloseRest, listening, conn, table>>

\* Peers that were not accepted yet are turned away.
CloseListener ==
  /\ close.at = "cancelled"
  /\ listening' = FALSE
  /\ conn' = [c \in Conn |-> IF conn[c].at = "queued" THEN [conn[c] EXCEPT !.at = "over"]
                             ELSE conn[c]]
  /\ close' = [close EXCEPT !.at = "snapshot"]
  /\ UNCHANGED <<CloseRest, table>>

Snapshot ==
  /\ close.at = "snapshot"
  /\ close' = [at |-> "sweep", todo |-> table, swept |-> {e[1] : e \in table}]
  /\ UNCHANGED <<CloseRest, listening, conn, table>>

SweepOne ==
  /\ close.at = "sweep"
  /\ \E e \in close.todo :
       /\ conn' = [conn EXCEPT ![e[1]][e[2]] = FALSE]
       /\ close' = [close EXCEPT !.todo = @ \ {e}]
  /\ UNCHANGED <<CloseRest, listening, table>>

Swept ==
  /\ close.at = "sweep" /\ close.todo = {}
  /\ close' = [close EXCEPT !.at = "wait"]
  /\ UNCHANGED <<CloseRest, listening, conn, table>>

WaitOver ==
  /\ close.at = "wait"
  /\ \/ group = 0 /\ close' = [close EXCEPT !.at = "clean"]
     \/ close' = [close EXCEPT !.at = "timeout"]
  /\ UNCHANGED <<CloseRest, listening, conn, table>>

-----------------------------------------------------------------------------
Loop == LoopEnds \/ \E c \in Conn : AddConn(c) \/ StartHandler(c)
Handler(c) == Dials(c) \/ AddDialled(c) \/ CopyEnds(c) \/ Release(c) \/ HandlerDone(c)
CloseSteps == CloseListener \/ Snapshot \/ SweepOne \/ Swept \/ WaitOver

TunnelNext ==
  \/ \E c \in Conn : PeerConnects(c) \/ Accept(c) \/ Handler(c) \/ PeerLeaves(c)
  \/ Loop \/ Cancel \/ CloseSteps

\* Goroutines go on; a dial ends, at the latest with its SSH connection, which
\* is closed after the tunnel. Peers are free.
TunnelFairness ==
  /\ WF_tunnelVars(Loop) /\ WF_tunnelVars(CloseSteps)
  /\ \A c \in Conn : WF_tunnelVars(Handler(c))

TunnelSpec == TunnelInit /\ [][TunnelNext]_tunnelVars /\ TunnelFairness

-----------------------------------------------------------------------------
(* Properties.                                                              *)

\* Close can reach every open connection: one that is open is in the table, or
\* the loop or its handler is about to put it there; and what is no longer in
\* the table was closed before it was taken out.
ReachableAt(c) ==
  /\ conn[c].accepted => <<c, "accepted">> \in table \/ c \in hand
  /\ conn[c].dialled => <<c, "dialled">> \in table \/ conn[c].at = "dialled"
ConnectionsReachable == \A c \in Conn : ReachableAt(c)

\* When Close returns without its timeout nothing of the tunnel is left, and
\* nothing can start any more: the loop that counts the handlers is itself
\* counted until it has ended.
CleanIsEmpty == close.at = "clean" =>
  loop = "over" /\ \A c \in Conn : conn[c].at \in {"new", "over"}

\* The tunnel's invariant.
TunnelSound == TunnelTypeOK /\ ConnectionsReachable /\ CleanIsEmpty

\* Every connection that Close finds in its table ends with its handler, even
\* one whose dial was under way, which puts its other end into the table only
\* after Close has gone through it; the accept loop ends too.
SweptEnds ==
  /\ \A c \in Conn : c \in close.swept ~> conn[c].at = "over"
  /\ TunnelCancelled ~> loop = "over"

\* tunnel_test.go and the message of Close speak of background connections
\* that finish: one that was accepted before the listener was closed and put
\* into the table after Close looked at it is not closed by anybody.
AllEnd == \A c \in Conn : TunnelCancelled /\ conn[c].at # "new" ~> conn[c].at = "over"
=============================================================================

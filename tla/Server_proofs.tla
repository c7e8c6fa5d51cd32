----------------------------- MODULE Server_proofs -----------------------------
(***************************************************************************)
(* The parts of the server that keep lines, connections, pages and files,   *)
(* for all values of their constants. They share no state; each has an      *)
(* argument of its own, in this order.                                      *)
(*                                                                         *)
(* Tunnel: the count of the wait group is one for every handler and one for *)
(* the accept loop, so zero means that the loop is over, and only the loop  *)
(* starts handlers.                                                         *)
(* LogStream: what a stream has shown and what its channel holds are, one   *)
(* after the other, lines in order and none that is not written yet.        *)
(* Watchdog: an open page has a heartbeat on its way or was noted later     *)
(* than its own timer began (OpenPagesNoted), and the parts that come       *)
(* before the cache in the two orders are over when it is (UploadsFirst).   *)
(* KnownHosts: the lines that a connection has read are where it read them, *)
(* since others append, until one of them replaces a key (ReadStillThere).  *)
(* ProfileFiles: the calls a handler has still to make say what it will     *)
(* have put right by its end (Agenda, Progress); the file it replaces is    *)
(* the one it has read (HandlerFits).                                       *)
(***************************************************************************)
EXTENDS Tunnel, LogStream, Watchdog, LauncherFiles, FiniteSetTheorems,
        FunctionTheorems, SequenceTheorems, TLAPS


-----------------------------------------------------------------------------
(* Tunnels.                                                                 *)

\* The connections that have a handler.
Active == {c \in Conn : conn[c].at \in {"dial", "dialled", "copy", "closing"}}
Counted == IF loop = "over" THEN 0 ELSE 1

\* The loop holds one connection at most, and only while it adds it.
LoopHolds ==
  /\ \A c \in Conn : c \in hand <=> conn[c].at = "held"
  /\ \A c, d \in hand : c = d
  /\ loop = "add" <=> hand # {}

\* A listener that is closed has been closed by Close, and has turned away
\* whoever was waiting.
ListenerClosed ==
  /\ listening <=> close.at \in {"no", "cancelled"}
  /\ ~listening => \A c \in Conn : conn[c].at # "queued"
  /\ loop = "over" => ~listening

\* Which ends a connection has, and which are in the table.
KeptAt(c) ==
  /\ conn[c].at \in {"new", "queued", "over"} =>
       /\ ~conn[c].accepted /\ ~conn[c].dialled
       /\ <<c, "accepted">> \notin table /\ <<c, "dialled">> \notin table
  /\ conn[c].at \in {"held", "dial"} => ~conn[c].dialled
EndsKept == \A c \in Conn : KeptAt(c)

TunnelInv ==
  /\ TunnelTypeOK /\ LoopHolds /\ ListenerClosed /\ EndsKept
  /\ group = Cardinality(Active) + Counted
  /\ ConnectionsReachable /\ CleanIsEmpty

-----------------------------------------------------------------------------
(* The count.                                                               *)

\* The handlers are finitely many.
LEMMA ActiveFinite ==
  /\ IsFiniteSet(Active) /\ Cardinality(Active) \in Nat
  /\ Cardinality(Active) <= Cardinality(Conn) /\ Cardinality(Conn) \in Nat
  BY TunnelAssumption, FS_Subset, FS_CardinalityType DEF Active

\* Starting a handler adds one.
LEMMA ActiveMore ==
  ASSUME NEW c \in Conn, c \notin Active, Active' = Active \cup {c}
  PROVE  Cardinality(Active') = Cardinality(Active) + 1
  BY ActiveFinite, FS_AddElement

\* Ending it takes one away.
LEMMA ActiveLess ==
  ASSUME NEW c \in Conn, c \in Active, Active' = Active \ {c}
  PROVE  Cardinality(Active') = Cardinality(Active) - 1
  BY ActiveFinite, FS_RemoveElement

\* A step that keeps the count right keeps group within its bound.
LEMMA GroupBound ==
  ASSUME group' = Cardinality(Active') + Counted'
  PROVE  group' \in 0..Cardinality(Conn) + 1
<1>1. /\ Cardinality(Active') \in Nat /\ Cardinality(Active') <= Cardinality(Conn)
      /\ Cardinality(Conn) \in Nat
  <2>1. Active' \subseteq Conn
    BY DEF Active
  <2> QED
    BY <2>1, TunnelAssumption, FS_Subset, FS_CardinalityType
<1>2. Counted' \in 0..1
  BY DEF Counted
<1> QED
  BY <1>1, <1>2

-----------------------------------------------------------------------------
(* The invariant at the start, and one lemma per action.                    *)

LEMMA TunnelInitInv ==
  ASSUME TunnelInit
  PROVE  TunnelInv
<1>1. Cardinality(Active) = 0
  <2>1. Active = {}
    BY DEF TunnelInit, Active
  <2> QED
    BY <2>1, FS_EmptySet
<1>2. TunnelTypeOK
  BY ActiveFinite DEF TunnelInit, TunnelTypeOK, Ends
<1>3. LoopHolds /\ ListenerClosed /\ EndsKept /\ ConnectionsReachable /\ CleanIsEmpty
  BY DEF TunnelInit, LoopHolds, ListenerClosed, EndsKept, KeptAt, ConnectionsReachable,
    ReachableAt, CleanIsEmpty
<1> QED
  BY <1>1, <1>2, <1>3 DEF TunnelInv, TunnelInit, Counted

LEMMA KeepsPeerConnects ==
  ASSUME TunnelInv, NEW c \in Conn, PeerConnects(c)
  PROVE  TunnelInv'
<1>1. Active' = Active /\ Counted' = Counted
  BY DEF PeerConnects, Active, Counted, TunnelInv, TunnelTypeOK, LoopHolds
<1>2. group' = Cardinality(Active') + Counted'
  BY <1>1 DEF PeerConnects, TunnelInv
<1>3. TunnelTypeOK'
  BY <1>2, GroupBound DEF PeerConnects, TunnelInv, TunnelTypeOK, Ends
<1>4. LoopHolds'
  BY DEF PeerConnects, TunnelInv, TunnelTypeOK, LoopHolds
<1>5. ListenerClosed'
  BY DEF PeerConnects, TunnelInv, TunnelTypeOK, ListenerClosed
<1>6. EndsKept'
  BY DEF PeerConnects, TunnelInv, TunnelTypeOK, EndsKept, KeptAt, LoopHolds,
    ConnectionsReachable, ReachableAt, Ends
<1>7. ConnectionsReachable'
  BY DEF PeerConnects, TunnelInv, TunnelTypeOK, ConnectionsReachable, ReachableAt, LoopHolds,
    EndsKept, KeptAt
<1>8. CleanIsEmpty'
  BY DEF PeerConnects, TunnelInv, TunnelTypeOK, CleanIsEmpty, LoopHolds, ListenerClosed
<1> QED
  BY <1>2, <1>3, <1>4, <1>5, <1>6, <1>7, <1>8 DEF TunnelInv

LEMMA KeepsAccept ==
  ASSUME TunnelInv, NEW c \in Conn, Accept(c)
  PROVE  TunnelInv'
<1>1. Active' = Active /\ Counted' = Counted
  BY DEF Accept, Active, Counted, TunnelInv, TunnelTypeOK, LoopHolds
<1>2. group' = Cardinality(Active') + Counted'
  BY <1>1 DEF Accept, TunnelInv
<1>3. TunnelTypeOK'
  BY <1>2, GroupBound DEF Accept, TunnelInv, TunnelTypeOK, Ends
<1>4. LoopHolds'
  BY DEF Accept, TunnelInv, TunnelTypeOK, LoopHolds
<1>5. ListenerClosed'
  BY DEF Accept, TunnelInv, TunnelTypeOK, ListenerClosed
<1>6. EndsKept'
  BY DEF Accept, TunnelInv, TunnelTypeOK, EndsKept, KeptAt, LoopHolds, ConnectionsReachable,
    ReachableAt, Ends
<1>7. ConnectionsReachable'
  BY DEF Accept, TunnelInv, TunnelTypeOK, ConnectionsReachable, ReachableAt, LoopHolds, EndsKept,
    KeptAt
<1>8. CleanIsEmpty'
  BY DEF Accept, TunnelInv, TunnelTypeOK, CleanIsEmpty, LoopHolds, ListenerClosed
<1> QED
  BY <1>2, <1>3, <1>4, <1>5, <1>6, <1>7, <1>8 DEF TunnelInv

LEMMA KeepsAddConn ==
  ASSUME TunnelInv, NEW c \in Conn, AddConn(c)
  PROVE  TunnelInv'
<1>1. Active' = Active /\ Counted' = Counted
  BY DEF AddConn, Active, Counted, TunnelInv, TunnelTypeOK, LoopHolds
<1>2. group' = Cardinality(Active') + Counted'
  BY <1>1 DEF AddConn, TunnelInv
<1>3. TunnelTypeOK'
  BY <1>2, GroupBound DEF AddConn, TunnelInv, TunnelTypeOK, Ends
<1>4. LoopHolds'
  BY DEF AddConn, TunnelInv, TunnelTypeOK, LoopHolds
<1>5. ListenerClosed'
  BY DEF AddConn, TunnelInv, TunnelTypeOK, ListenerClosed
<1>6. EndsKept'
  BY DEF AddConn, TunnelInv, TunnelTypeOK, EndsKept, KeptAt, LoopHolds, ConnectionsReachable,
    ReachableAt, Ends
<1>7. ConnectionsReachable'
  BY DEF AddConn, TunnelInv, TunnelTypeOK, ConnectionsReachable, ReachableAt, LoopHolds,
    EndsKept, KeptAt
<1>8. CleanIsEmpty'
  BY DEF AddConn, TunnelInv, TunnelTypeOK, CleanIsEmpty, LoopHolds, ListenerClosed
<1> QED
  BY <1>2, <1>3, <1>4, <1>5, <1>6, <1>7, <1>8 DEF TunnelInv

LEMMA KeepsStartHandler ==
  ASSUME TunnelInv, NEW c \in Conn, StartHandler(c)
  PROVE  TunnelInv'
<1>a. \A d \in Conn : d # c => conn'[d] = conn[d]
  BY DEF StartHandler, TunnelInv, TunnelTypeOK
<1>b. conn'[c] = [conn[c] EXCEPT !.at = "dial"]
  BY DEF StartHandler, TunnelInv, TunnelTypeOK
<1>1. c \notin Active /\ Active' = Active \cup {c} /\ Counted' = Counted
  BY DEF StartHandler, Active, Counted, TunnelInv, TunnelTypeOK, LoopHolds
<1>2. group' = Cardinality(Active') + Counted'
  <2>1. group = Cardinality(Active) + Counted
    BY DEF TunnelInv
  <2>2. Counted \in {0, 1}
    BY DEF Counted
  <2>3. group' = group + 1
    BY DEF StartHandler
  <2>4. Cardinality(Active') = Cardinality(Active) + 1
    BY <1>1, ActiveMore
  <2>5. Cardinality(Active) \in Nat
    BY ActiveFinite
  <2> QED
    BY <1>1, <2>1, <2>2, <2>3, <2>4, <2>5
<1>3. TunnelTypeOK'
  BY <1>2, GroupBound DEF StartHandler, TunnelInv, TunnelTypeOK, Ends
<1>4. LoopHolds'
  BY DEF StartHandler, TunnelInv, TunnelTypeOK, LoopHolds
<1>5. ListenerClosed'
  BY DEF StartHandler, TunnelInv, TunnelTypeOK, ListenerClosed
<1>6. EndsKept'
  <2>1. ASSUME NEW d \in Conn, d # c
        PROVE  KeptAt(d)'
    BY <1>a, <2>1 DEF StartHandler, TunnelInv, TunnelTypeOK, EndsKept, KeptAt,
      ConnectionsReachable, ReachableAt, LoopHolds
  <2>2. KeptAt(c)'
    <3>1. ~conn[c].dialled
      BY DEF StartHandler, TunnelInv, EndsKept, KeptAt
    <3>2. conn'[c].at = "dial" /\ conn'[c].dialled = conn[c].dialled
      BY <1>b DEF TunnelInv, TunnelTypeOK
    <3> QED
      BY <3>1, <3>2 DEF KeptAt
  <2> QED
    BY <2>1, <2>2 DEF EndsKept, KeptAt
<1>7. ConnectionsReachable'
  <2>1. ASSUME NEW d \in Conn, d # c
        PROVE  ReachableAt(d)'
    BY <1>a, <2>1 DEF StartHandler, TunnelInv, TunnelTypeOK, EndsKept, KeptAt,
      ConnectionsReachable, ReachableAt, LoopHolds
  <2>2. ReachableAt(c)'
    BY <1>b DEF StartHandler, TunnelInv, TunnelTypeOK, EndsKept, KeptAt, ConnectionsReachable,
      ReachableAt, LoopHolds
  <2> QED
    BY <2>1, <2>2 DEF ConnectionsReachable, ReachableAt
<1>8. CleanIsEmpty'
  BY DEF StartHandler, TunnelInv, TunnelTypeOK, CleanIsEmpty, LoopHolds, ListenerClosed
<1> QED
  BY <1>2, <1>3, <1>4, <1>5, <1>6, <1>7, <1>8 DEF TunnelInv

LEMMA KeepsLoopEnds ==
  ASSUME TunnelInv, LoopEnds
  PROVE  TunnelInv'
<1>1. Active' = Active /\ Counted' = Counted - 1
  BY DEF LoopEnds, TunnelCancelled, Active, Counted, TunnelInv, TunnelTypeOK, LoopHolds
<1>2. group' = Cardinality(Active') + Counted'
  <2>1. group = Cardinality(Active) + Counted
    BY DEF TunnelInv
  <2>2. Counted \in {0, 1}
    BY DEF Counted
  <2>3. group' = group - 1
    BY DEF LoopEnds
  <2>4. Cardinality(Active') = Cardinality(Active)
    BY <1>1
  <2>5. Cardinality(Active) \in Nat
    BY ActiveFinite
  <2> QED
    BY <1>1, <2>1, <2>2, <2>3, <2>4, <2>5
<1>3. TunnelTypeOK'
  BY <1>2, GroupBound DEF LoopEnds, TunnelCancelled, TunnelInv, TunnelTypeOK, Ends
<1>4. LoopHolds'
  BY DEF LoopEnds, TunnelCancelled, TunnelInv, TunnelTypeOK, LoopHolds
<1>5. ListenerClosed'
  BY DEF LoopEnds, TunnelCancelled, TunnelInv, TunnelTypeOK, ListenerClosed
<1>6. EndsKept'
  BY DEF LoopEnds, TunnelCancelled, TunnelInv, TunnelTypeOK, EndsKept, KeptAt, LoopHolds,
    ConnectionsReachable, ReachableAt, Ends
<1>7. ConnectionsReachable'
  BY DEF LoopEnds, TunnelCancelled, TunnelInv, TunnelTypeOK, ConnectionsReachable, ReachableAt,
    LoopHolds, EndsKept, KeptAt
<1>8. CleanIsEmpty'
  BY DEF LoopEnds, TunnelCancelled, TunnelInv, TunnelTypeOK, CleanIsEmpty, LoopHolds, ListenerClosed
<1> QED
  BY <1>2, <1>3, <1>4, <1>5, <1>6, <1>7, <1>8 DEF TunnelInv

LEMMA KeepsDials ==
  ASSUME TunnelInv, NEW c \in Conn, Dials(c)
  PROVE  TunnelInv'
<1>a. \A d \in Conn : d # c => conn'[d] = conn[d]
  BY DEF Dials, HandlerRest, TunnelInv, TunnelTypeOK
<1>b. \/ conn'[c] = [conn[c] EXCEPT !.at = "dialled", !.dialled = TRUE]
      \/ conn'[c] = [conn[c] EXCEPT !.at = "closing"]
  BY DEF Dials, HandlerRest, TunnelInv, TunnelTypeOK
<1>1. Active' = Active /\ Counted' = Counted
  BY DEF Dials, HandlerRest, Active, Counted, TunnelInv, TunnelTypeOK, LoopHolds
<1>2. group' = Cardinality(Active') + Counted'
  BY <1>1 DEF Dials, HandlerRest, TunnelInv
<1>3. TunnelTypeOK'
  BY <1>2, GroupBound DEF Dials, HandlerRest, TunnelInv, TunnelTypeOK, Ends
<1>4. LoopHolds'
  BY DEF Dials, HandlerRest, TunnelInv, TunnelTypeOK, LoopHolds
<1>5. ListenerClosed'
  BY DEF Dials, HandlerRest, TunnelInv, TunnelTypeOK, ListenerClosed
<1>6. EndsKept'
  <2>1. ASSUME NEW d \in Conn, d # c
        PROVE  KeptAt(d)'
    BY <1>a, <2>1 DEF Dials, HandlerRest, TunnelInv, TunnelTypeOK, EndsKept, KeptAt,
      ConnectionsReachable, ReachableAt, LoopHolds
  <2>2. KeptAt(c)'
    BY <1>b DEF Dials, HandlerRest, TunnelInv, TunnelTypeOK, EndsKept, KeptAt,
      ConnectionsReachable, ReachableAt, LoopHolds
  <2> QED
    BY <2>1, <2>2 DEF EndsKept, KeptAt
<1>7. ConnectionsReachable'
  <2>1. ASSUME NEW d \in Conn, d # c
        PROVE  ReachableAt(d)'
    BY <1>a, <2>1 DEF Dials, HandlerRest, TunnelInv, TunnelTypeOK, EndsKept, KeptAt,
      ConnectionsReachable, ReachableAt, LoopHolds
  <2>2. ReachableAt(c)'
    BY <1>b DEF Dials, HandlerRest, TunnelInv, TunnelTypeOK, EndsKept, KeptAt,
      ConnectionsReachable, ReachableAt, LoopHolds
  <2> QED
    BY <2>1, <2>2 DEF ConnectionsReachable, ReachableAt
<1>8. CleanIsEmpty'
  BY DEF Dials, HandlerRest, TunnelInv, TunnelTypeOK, CleanIsEmpty, LoopHolds, ListenerClosed
<1> QED
  BY <1>2, <1>3, <1>4, <1>5, <1>6, <1>7, <1>8 DEF TunnelInv

LEMMA KeepsAddDialled ==
  ASSUME TunnelInv, NEW c \in Conn, AddDialled(c)
  PROVE  TunnelInv'
<1>a. \A d \in Conn : d # c => conn'[d] = conn[d]
  BY DEF AddDialled, HandlerRest, TunnelInv, TunnelTypeOK
<1>b. conn'[c] = [conn[c] EXCEPT !.at = "copy"]
  BY DEF AddDialled, HandlerRest, TunnelInv, TunnelTypeOK
<1>1. Active' = Active /\ Counted' = Counted
  BY DEF AddDialled, HandlerRest, Active, Counted, TunnelInv, TunnelTypeOK, LoopHolds
<1>2. group' = Cardinality(Active') + Counted'
  BY <1>1 DEF AddDialled, HandlerRest, TunnelInv
<1>3. TunnelTypeOK'
  BY <1>2, GroupBound DEF AddDialled, HandlerRest, TunnelInv, TunnelTypeOK, Ends
<1>4. LoopHolds'
  BY DEF AddDialled, HandlerRest, TunnelInv, TunnelTypeOK, LoopHolds
<1>5. ListenerClosed'
  BY DEF AddDialled, HandlerRest, TunnelInv, TunnelTypeOK, ListenerClosed
<1>6. EndsKept'
  <2>1. ASSUME NEW d \in Conn, d # c
        PROVE  KeptAt(d)'
    BY <1>a, <2>1 DEF AddDialled, HandlerRest, TunnelInv, TunnelTypeOK, EndsKept, KeptAt,
      ConnectionsReachable, ReachableAt, LoopHolds
  <2>2. KeptAt(c)'
    BY <1>b DEF AddDialled, HandlerRest, TunnelInv, TunnelTypeOK, EndsKept, KeptAt,
      ConnectionsReachable, ReachableAt, LoopHolds
  <2> QED
    BY <2>1, <2>2 DEF EndsKept, KeptAt
<1>7. ConnectionsReachable'
  <2>1. ASSUME NEW d \in Conn, d # c
        PROVE  ReachableAt(d)'
    BY <1>a, <2>1 DEF AddDialled, HandlerRest, TunnelInv, TunnelTypeOK, EndsKept, KeptAt,
      ConnectionsReachable, ReachableAt, LoopHolds
  <2>2. ReachableAt(c)'
    BY <1>b DEF AddDialled, HandlerRest, TunnelInv, TunnelTypeOK, EndsKept, KeptAt,
      ConnectionsReachable, ReachableAt, LoopHolds
  <2> QED
    BY <2>1, <2>2 DEF ConnectionsReachable, ReachableAt
<1>8. CleanIsEmpty'
  BY DEF AddDialled, HandlerRest, TunnelInv, TunnelTypeOK, CleanIsEmpty, LoopHolds, ListenerClosed
<1> QED
  BY <1>2, <1>3, <1>4, <1>5, <1>6, <1>7, <1>8 DEF TunnelInv

LEMMA KeepsCopyEnds ==
  ASSUME TunnelInv, NEW c \in Conn, CopyEnds(c)
  PROVE  TunnelInv'
<1>1. Active' = Active /\ Counted' = Counted
  BY DEF CopyEnds, HandlerRest, CopyEnded, Active, Counted, TunnelInv, TunnelTypeOK, LoopHolds
<1>2. group' = Cardinality(Active') + Counted'
  BY <1>1 DEF CopyEnds, HandlerRest, CopyEnded, TunnelInv
<1>3. TunnelTypeOK'
  BY <1>2, GroupBound DEF CopyEnds, HandlerRest, CopyEnded, TunnelInv, TunnelTypeOK, Ends
<1>4. LoopHolds'
  BY DEF CopyEnds, HandlerRest, CopyEnded, TunnelInv, TunnelTypeOK, LoopHolds
<1>5. ListenerClosed'
  BY DEF CopyEnds, HandlerRest, CopyEnded, TunnelInv, TunnelTypeOK, ListenerClosed
<1>6. EndsKept'
  BY DEF CopyEnds, HandlerRest, CopyEnded, TunnelInv, TunnelTypeOK, EndsKept, KeptAt, LoopHolds,
    ConnectionsReachable, ReachableAt, Ends
<1>7. ConnectionsReachable'
  BY DEF CopyEnds, HandlerRest, CopyEnded, TunnelInv, TunnelTypeOK, ConnectionsReachable,
    ReachableAt, LoopHolds, EndsKept, KeptAt
<1>8. CleanIsEmpty'
  BY DEF CopyEnds, HandlerRest, CopyEnded, TunnelInv, TunnelTypeOK, CleanIsEmpty, LoopHolds,
    ListenerClosed
<1> QED
  BY <1>2, <1>3, <1>4, <1>5, <1>6, <1>7, <1>8 DEF TunnelInv

LEMMA KeepsPeerLeaves ==
  ASSUME TunnelInv, NEW c \in Conn, PeerLeaves(c)
  PROVE  TunnelInv'
<1>1. Active' = Active /\ Counted' = Counted
  BY DEF PeerLeaves, HandlerRest, Active, Counted, TunnelInv, TunnelTypeOK, LoopHolds
<1>2. group' = Cardinality(Active') + Counted'
  BY <1>1 DEF PeerLeaves, HandlerRest, TunnelInv
<1>3. TunnelTypeOK'
  BY <1>2, GroupBound DEF PeerLeaves, HandlerRest, TunnelInv, TunnelTypeOK, Ends
<1>4. LoopHolds'
  BY DEF PeerLeaves, HandlerRest, TunnelInv, TunnelTypeOK, LoopHolds
<1>5. ListenerClosed'
  BY DEF PeerLeaves, HandlerRest, TunnelInv, TunnelTypeOK, ListenerClosed
<1>6. EndsKept'
  BY DEF PeerLeaves, HandlerRest, TunnelInv, TunnelTypeOK, EndsKept, KeptAt, LoopHolds,
    ConnectionsReachable, ReachableAt, Ends
<1>7. ConnectionsReachable'
  BY DEF PeerLeaves, HandlerRest, TunnelInv, TunnelTypeOK, ConnectionsReachable, ReachableAt,
    LoopHolds, EndsKept, KeptAt
<1>8. CleanIsEmpty'
  BY DEF PeerLeaves, HandlerRest, TunnelInv, TunnelTypeOK, CleanIsEmpty, LoopHolds, ListenerClosed
<1> QED
  BY <1>2, <1>3, <1>4, <1>5, <1>6, <1>7, <1>8 DEF TunnelInv

LEMMA KeepsHandlerDone ==
  ASSUME TunnelInv, NEW c \in Conn, HandlerDone(c)
  PROVE  TunnelInv'
<1>1. c \in Active /\ Active' = Active \ {c} /\ Counted' = Counted
  BY DEF HandlerDone, Active, Counted, TunnelInv, TunnelTypeOK, LoopHolds
<1>2. group' = Cardinality(Active') + Counted'
  <2>1. group = Cardinality(Active) + Counted
    BY DEF TunnelInv
  <2>2. Counted \in {0, 1}
    BY DEF Counted
  <2>3. group' = group - 1
    BY DEF HandlerDone
  <2>4. Cardinality(Active') = Cardinality(Active) - 1
    BY <1>1, ActiveLess
  <2>5. Cardinality(Active) \in Nat
    BY ActiveFinite
  <2> QED
    BY <1>1, <2>1, <2>2, <2>3, <2>4, <2>5
<1>3. TunnelTypeOK'
  BY <1>2, GroupBound DEF HandlerDone, TunnelInv, TunnelTypeOK, Ends
<1>4. LoopHolds'
  BY DEF HandlerDone, TunnelInv, TunnelTypeOK, LoopHolds
<1>5. ListenerClosed'
  BY DEF HandlerDone, TunnelInv, TunnelTypeOK, ListenerClosed
<1>6. EndsKept'
  BY DEF HandlerDone, TunnelInv, TunnelTypeOK, EndsKept, KeptAt, LoopHolds, ConnectionsReachable,
    ReachableAt, Ends
<1>7. ConnectionsReachable'
  BY DEF HandlerDone, TunnelInv, TunnelTypeOK, ConnectionsReachable, ReachableAt, LoopHolds,
    EndsKept, KeptAt
<1>8. CleanIsEmpty'
  BY DEF HandlerDone, TunnelInv, TunnelTypeOK, CleanIsEmpty, LoopHolds, ListenerClosed
<1> QED
  BY <1>2, <1>3, <1>4, <1>5, <1>6, <1>7, <1>8 DEF TunnelInv

LEMMA KeepsCancel ==
  ASSUME TunnelInv, Cancel
  PROVE  TunnelInv'
<1>1. Active' = Active /\ Counted' = Counted
  BY DEF Cancel, CloseRest, Active, Counted, TunnelInv, TunnelTypeOK, LoopHolds
<1>2. group' = Cardinality(Active') + Counted'
  BY <1>1 DEF Cancel, CloseRest, TunnelInv
<1>3. TunnelTypeOK'
  BY <1>2, GroupBound DEF Cancel, CloseRest, TunnelInv, TunnelTypeOK, Ends
<1>4. LoopHolds'
  BY DEF Cancel, CloseRest, TunnelInv, TunnelTypeOK, LoopHolds
<1>5. ListenerClosed'
  BY DEF Cancel, CloseRest, TunnelInv, TunnelTypeOK, ListenerClosed
<1>6. EndsKept'
  BY DEF Cancel, CloseRest, TunnelInv, TunnelTypeOK, EndsKept, KeptAt, LoopHolds,
    ConnectionsReachable, ReachableAt, Ends
<1>7. ConnectionsReachable'
  BY DEF Cancel, CloseRest, TunnelInv, TunnelTypeOK, ConnectionsReachable, ReachableAt,
    LoopHolds, EndsKept, KeptAt
<1>8. CleanIsEmpty'
  BY DEF Cancel, CloseRest, TunnelInv, TunnelTypeOK, CleanIsEmpty, LoopHolds, ListenerClosed
<1> QED
  BY <1>2, <1>3, <1>4, <1>5, <1>6, <1>7, <1>8 DEF TunnelInv

LEMMA KeepsCloseListener ==
  ASSUME TunnelInv, CloseListener
  PROVE  TunnelInv'
<1>1. Active' = Active /\ Counted' = Counted
  BY DEF CloseListener, CloseRest, Active, Counted, TunnelInv, TunnelTypeOK, LoopHolds
<1>2. group' = Cardinality(Active') + Counted'
  BY <1>1 DEF CloseListener, CloseRest, TunnelInv
<1>3. TunnelTypeOK'
  BY <1>2, GroupBound DEF CloseListener, CloseRest, TunnelInv, TunnelTypeOK, Ends
<1>4. LoopHolds'
  BY DEF CloseListener, CloseRest, TunnelInv, TunnelTypeOK, LoopHolds
<1>5. ListenerClosed'
  BY DEF CloseListener, CloseRest, TunnelInv, TunnelTypeOK, ListenerClosed
<1>6. EndsKept'
  BY DEF CloseListener, CloseRest, TunnelInv, TunnelTypeOK, EndsKept, KeptAt, LoopHolds,
    ConnectionsReachable, ReachableAt, Ends
<1>7. ConnectionsReachable'
  BY DEF CloseListener, CloseRest, TunnelInv, TunnelTypeOK, ConnectionsReachable, ReachableAt,
    LoopHolds, EndsKept, KeptAt
<1>8. CleanIsEmpty'
  BY DEF CloseListener, CloseRest, TunnelInv, TunnelTypeOK, CleanIsEmpty, LoopHolds, ListenerClosed
<1> QED
  BY <1>2, <1>3, <1>4, <1>5, <1>6, <1>7, <1>8 DEF TunnelInv

LEMMA KeepsSnapshot ==
  ASSUME TunnelInv, Snapshot
  PROVE  TunnelInv'
<1>1. Active' = Active /\ Counted' = Counted
  BY DEF Snapshot, CloseRest, Active, Counted, TunnelInv, TunnelTypeOK, LoopHolds
<1>2. group' = Cardinality(Active') + Counted'
  BY <1>1 DEF Snapshot, CloseRest, TunnelInv
<1>3. TunnelTypeOK'
  BY <1>2, GroupBound DEF Snapshot, CloseRest, TunnelInv, TunnelTypeOK, Ends
<1>4. LoopHolds'
  BY DEF Snapshot, CloseRest, TunnelInv, TunnelTypeOK, LoopHolds
<1>5. ListenerClosed'
  BY DEF Snapshot, CloseRest, TunnelInv, TunnelTypeOK, ListenerClosed
<1>6. EndsKept'
  BY DEF Snapshot, CloseRest, TunnelInv, TunnelTypeOK, EndsKept, KeptAt, LoopHolds,
    ConnectionsReachable, ReachableAt, Ends
<1>7. ConnectionsReachable'
  BY DEF Snapshot, CloseRest, TunnelInv, TunnelTypeOK, ConnectionsReachable, ReachableAt,
    LoopHolds, EndsKept, KeptAt
<1>8. CleanIsEmpty'
  BY DEF Snapshot, CloseRest, TunnelInv, TunnelTypeOK, CleanIsEmpty, LoopHolds, ListenerClosed
<1> QED
  BY <1>2, <1>3, <1>4, <1>5, <1>6, <1>7, <1>8 DEF TunnelInv

LEMMA KeepsSwept ==
  ASSUME TunnelInv, Swept
  PROVE  TunnelInv'
<1>1. Active' = Active /\ Counted' = Counted
  BY DEF Swept, CloseRest, Active, Counted, TunnelInv, TunnelTypeOK, LoopHolds
<1>2. group' = Cardinality(Active') + Counted'
  BY <1>1 DEF Swept, CloseRest, TunnelInv
<1>3. TunnelTypeOK'
  BY <1>2, GroupBound DEF Swept, CloseRest, TunnelInv, TunnelTypeOK, Ends
<1>4. LoopHolds'
  BY DEF Swept, CloseRest, TunnelInv, TunnelTypeOK, LoopHolds
<1>5. ListenerClosed'
  BY DEF Swept, CloseRest, TunnelInv, TunnelTypeOK, ListenerClosed
<1>6. EndsKept'
  BY DEF Swept, CloseRest, TunnelInv, TunnelTypeOK, EndsKept, KeptAt, LoopHolds,
    ConnectionsReachable, ReachableAt, Ends
<1>7. ConnectionsReachable'
  BY DEF Swept, CloseRest, TunnelInv, TunnelTypeOK, ConnectionsReachable, ReachableAt, LoopHolds,
    EndsKept, KeptAt
<1>8. CleanIsEmpty'
  BY DEF Swept, CloseRest, TunnelInv, TunnelTypeOK, CleanIsEmpty, LoopHolds, ListenerClosed
<1> QED
  BY <1>2, <1>3, <1>4, <1>5, <1>6, <1>7, <1>8 DEF TunnelInv

LEMMA KeepsWaitOver ==
  ASSUME TunnelInv, WaitOver
  PROVE  TunnelInv'
<1>1. Active' = Active /\ Counted' = Counted
  BY DEF WaitOver, CloseRest, Active, Counted, TunnelInv, TunnelTypeOK, LoopHolds
<1>2. group' = Cardinality(Active') + Counted'
  BY <1>1 DEF WaitOver, CloseRest, TunnelInv
<1>3. TunnelTypeOK'
  BY <1>2, GroupBound DEF WaitOver, CloseRest, TunnelInv, TunnelTypeOK, Ends
<1>4. LoopHolds'
  BY DEF WaitOver, CloseRest, TunnelInv, TunnelTypeOK, LoopHolds
<1>5. ListenerClosed'
  BY DEF WaitOver, CloseRest, TunnelInv, TunnelTypeOK, ListenerClosed
<1>6. EndsKept'
  BY DEF WaitOver, CloseRest, TunnelInv, TunnelTypeOK, EndsKept, KeptAt, LoopHolds,
    ConnectionsReachable, ReachableAt, Ends
<1>7. ConnectionsReachable'
  BY DEF WaitOver, CloseRest, TunnelInv, TunnelTypeOK, ConnectionsReachable, ReachableAt,
    LoopHolds, EndsKept, KeptAt
<1>8. CleanIsEmpty'
  <2> SUFFICES ASSUME group = 0, UNCHANGED <<loop, conn>>
               PROVE  loop' = "over" /\ \A c \in Conn : conn'[c].at \in {"new", "over"}
    BY DEF WaitOver, CloseRest, TunnelInv, TunnelTypeOK, CleanIsEmpty
  <2>1. Counted = 0 /\ Cardinality(Active) = 0
    <3>1. group = Cardinality(Active) + Counted /\ Counted \in {0, 1}
      BY DEF TunnelInv, Counted
    <3> QED
      BY <3>1, ActiveFinite
  <2>2. loop = "over" /\ Active = {}
    BY <2>1, ActiveFinite, FS_EmptySet DEF Counted
  <2>3. ~listening /\ hand = {}
    BY <2>2 DEF TunnelInv, ListenerClosed, LoopHolds
  <2>4. \A c \in Conn : conn[c].at \notin {"queued", "held", "dial", "dialled", "copy", "closing"}
    BY <2>2, <2>3 DEF TunnelInv, ListenerClosed, LoopHolds, Active
  <2> QED
    BY <2>2, <2>4 DEF TunnelInv, TunnelTypeOK
<1> QED
  BY <1>2, <1>3, <1>4, <1>5, <1>6, <1>7, <1>8 DEF TunnelInv

\* A step that closes ends, and takes closed ends out of the table, and does
\* nothing else to connections.
EndsClosed ==
  /\ conn' \in [Conn -> [at : {"new", "queued", "held", "dial", "dialled", "copy", "closing", "over"},
                         accepted : BOOLEAN, dialled : BOOLEAN]]
  /\ table' \subseteq table
  /\ \A d \in Conn :
       /\ conn'[d].at = conn[d].at
       /\ conn'[d].accepted => conn[d].accepted /\ (<<d, "accepted">> \in table => <<d, "accepted">> \in table')
       /\ conn'[d].dialled => conn[d].dialled /\ (<<d, "dialled">> \in table => <<d, "dialled">> \in table')

LEMMA AcceptedCloses ==
  ASSUME TunnelInv, NEW c \in Conn, conn' = [conn EXCEPT ![c].accepted = FALSE], UNCHANGED table
  PROVE  EndsClosed
<1>1. conn'[c] = [conn[c] EXCEPT !.accepted = FALSE] /\ \A d \in Conn : d # c => conn'[d] = conn[d]
  BY DEF TunnelInv, TunnelTypeOK
<1>2. \A d \in Conn : conn[d] \in [at : {"new", "queued", "held", "dial", "dialled", "copy", "closing", "over"},
                                   accepted : BOOLEAN, dialled : BOOLEAN]
  BY DEF TunnelInv, TunnelTypeOK
<1>3. \A d \in Conn : /\ conn'[d].at = conn[d].at
                      /\ conn'[d].accepted => conn[d].accepted
                      /\ conn'[d].dialled = conn[d].dialled
  BY <1>1, <1>2
<1>4. conn' \in [Conn -> [at : {"new", "queued", "held", "dial", "dialled", "copy", "closing", "over"},
                          accepted : BOOLEAN, dialled : BOOLEAN]]
  BY DEF TunnelInv, TunnelTypeOK
<1> QED
  BY <1>3, <1>4 DEF EndsClosed

LEMMA DialledCloses ==
  ASSUME TunnelInv, NEW c \in Conn, conn' = [conn EXCEPT ![c].dialled = FALSE], UNCHANGED table
  PROVE  EndsClosed
<1>1. conn'[c] = [conn[c] EXCEPT !.dialled = FALSE] /\ \A d \in Conn : d # c => conn'[d] = conn[d]
  BY DEF TunnelInv, TunnelTypeOK
<1>2. \A d \in Conn : conn[d] \in [at : {"new", "queued", "held", "dial", "dialled", "copy", "closing", "over"},
                                   accepted : BOOLEAN, dialled : BOOLEAN]
  BY DEF TunnelInv, TunnelTypeOK
<1>3. \A d \in Conn : /\ conn'[d].at = conn[d].at
                      /\ conn'[d].accepted = conn[d].accepted
                      /\ conn'[d].dialled => conn[d].dialled
  BY <1>1, <1>2
<1>4. conn' \in [Conn -> [at : {"new", "queued", "held", "dial", "dialled", "copy", "closing", "over"},
                          accepted : BOOLEAN, dialled : BOOLEAN]]
  BY DEF TunnelInv, TunnelTypeOK
<1> QED
  BY <1>3, <1>4 DEF EndsClosed

LEMMA EndsClosedKeeps ==
  ASSUME TunnelInv, EndsClosed, hand' = hand
  PROVE  EndsKept' /\ ConnectionsReachable'
<1>1. ASSUME NEW d \in Conn
      PROVE  KeptAt(d)' /\ ReachableAt(d)'
  BY <1>1 DEF EndsClosed, TunnelInv, EndsKept, KeptAt, ConnectionsReachable, ReachableAt
<1> QED
  BY <1>1 DEF EndsKept, ConnectionsReachable

\* What Release does, end by end.
Released(c) ==
  \/ conn' = [conn EXCEPT ![c].dialled = FALSE] /\ UNCHANGED table
  \/ ~conn[c].dialled /\ table' = table \ {<<c, "dialled">>} /\ UNCHANGED conn
  \/ conn' = [conn EXCEPT ![c].accepted = FALSE] /\ UNCHANGED table
  \/ ~conn[c].accepted /\ table' = table \ {<<c, "accepted">>} /\ UNCHANGED conn

LEMMA ReleaseReleases ==
  ASSUME NEW c \in Conn, Release(c)
  PROVE  conn[c].at = "closing" /\ Released(c) /\ UNCHANGED HandlerRest
<1>1. ClosedFirst(c, "dialled") \/ ClosedFirst(c, "accepted")
  BY DEF Release
<1>2. CASE ClosedFirst(c, "dialled")
  BY <1>2 DEF ClosedFirst, Released, Release
<1>3. CASE ClosedFirst(c, "accepted")
  BY <1>3 DEF ClosedFirst, Released, Release
<1> QED
  BY <1>1, <1>2, <1>3

LEMMA KeepsRelease ==
  ASSUME TunnelInv, NEW c \in Conn, Release(c)
  PROVE  TunnelInv'
<1>a. conn[c].at = "closing" /\ Released(c) /\ UNCHANGED HandlerRest
  BY ReleaseReleases
<1>b. EndsClosed
  <2>1. CASE ~conn[c].dialled /\ table' = table \ {<<c, "dialled">>} /\ UNCHANGED conn
    BY <2>1 DEF EndsClosed, TunnelInv, TunnelTypeOK
  <2>2. CASE ~conn[c].accepted /\ table' = table \ {<<c, "accepted">>} /\ UNCHANGED conn
    BY <2>2 DEF EndsClosed, TunnelInv, TunnelTypeOK
  <2> QED
    BY <1>a, <2>1, <2>2, AcceptedCloses, DialledCloses DEF Released
<1>1. Active' = Active /\ Counted' = Counted
  BY <1>a, <1>b DEF HandlerRest, EndsClosed, Active, Counted, TunnelInv, TunnelTypeOK, LoopHolds
<1>2. group' = Cardinality(Active') + Counted'
  BY <1>1, <1>a, <1>b DEF HandlerRest, EndsClosed, TunnelInv
<1>3. TunnelTypeOK'
  BY <1>2, <1>a, <1>b, GroupBound DEF HandlerRest, EndsClosed, TunnelInv, TunnelTypeOK, Ends
<1>4. LoopHolds'
  BY <1>a, <1>b DEF HandlerRest, EndsClosed, TunnelInv, TunnelTypeOK, LoopHolds
<1>5. ListenerClosed'
  BY <1>a, <1>b DEF HandlerRest, EndsClosed, TunnelInv, TunnelTypeOK, ListenerClosed
<1>6. EndsKept'
  BY <1>a, <1>b, EndsClosedKeeps DEF HandlerRest
<1>7. ConnectionsReachable'
  BY <1>a, <1>b, EndsClosedKeeps DEF HandlerRest
<1>8. CleanIsEmpty'
  BY <1>a, <1>b DEF HandlerRest, EndsClosed, TunnelInv, TunnelTypeOK, CleanIsEmpty, LoopHolds,
    ListenerClosed
<1> QED
  BY <1>2, <1>3, <1>4, <1>5, <1>6, <1>7, <1>8 DEF TunnelInv

\* What SweepOne does: it closes one end of one connection.
LEMMA SweepOneCloses ==
  ASSUME TunnelInv, SweepOne
  PROVE  /\ \E c \in Conn : \/ conn' = [conn EXCEPT ![c].accepted = FALSE]
                            \/ conn' = [conn EXCEPT ![c].dialled = FALSE]
         /\ close' \in [at : {"sweep"}, todo : SUBSET (Conn \X Ends), swept : SUBSET Conn]
         /\ close.at = "sweep" /\ UNCHANGED <<loop, hand, group, listening, table>>
<1>1. PICK e \in close.todo : conn' = [conn EXCEPT ![e[1]][e[2]] = FALSE] /\ close' = [close EXCEPT !.todo = @ \ {e}]
  BY DEF SweepOne
<1>2. PICK c \in Conn, end \in Ends : e = <<c, end>>
  BY DEF TunnelInv, TunnelTypeOK
<1>3. conn' = [conn EXCEPT ![c][end] = FALSE]
  BY <1>1, <1>2
<1>4. \/ conn' = [conn EXCEPT ![c].accepted = FALSE]
      \/ conn' = [conn EXCEPT ![c].dialled = FALSE]
  BY <1>3 DEF Ends
<1>5. close' \in [at : {"sweep"}, todo : SUBSET (Conn \X Ends), swept : SUBSET Conn]
  BY <1>1 DEF SweepOne, TunnelInv, TunnelTypeOK
<1> QED
  BY <1>4, <1>5 DEF SweepOne, CloseRest

LEMMA KeepsSweepOne ==
  ASSUME TunnelInv, SweepOne
  PROVE  TunnelInv'
<1>a. /\ close' \in [at : {"sweep"}, todo : SUBSET (Conn \X Ends), swept : SUBSET Conn]
      /\ close.at = "sweep" /\ UNCHANGED <<loop, hand, group, listening, table>>
  BY SweepOneCloses
<1>b. EndsClosed
  BY SweepOneCloses, AcceptedCloses, DialledCloses
<1>1. Active' = Active /\ Counted' = Counted
  BY <1>a, <1>b DEF EndsClosed, Active, Counted, TunnelInv, TunnelTypeOK, LoopHolds
<1>2. group' = Cardinality(Active') + Counted'
  BY <1>1, <1>a, <1>b DEF EndsClosed, TunnelInv
<1>3. TunnelTypeOK'
  BY <1>2, <1>a, <1>b, GroupBound DEF EndsClosed, TunnelInv, TunnelTypeOK, Ends
<1>4. LoopHolds'
  BY <1>a, <1>b DEF EndsClosed, TunnelInv, TunnelTypeOK, LoopHolds
<1>5. ListenerClosed'
  BY <1>a, <1>b DEF EndsClosed, TunnelInv, TunnelTypeOK, ListenerClosed
<1>6. EndsKept'
  BY <1>a, <1>b, EndsClosedKeeps DEF HandlerRest
<1>7. ConnectionsReachable'
  BY <1>a, <1>b, EndsClosedKeeps DEF HandlerRest
<1>8. CleanIsEmpty'
  BY <1>a, <1>b DEF EndsClosed, TunnelInv, TunnelTypeOK, CleanIsEmpty, LoopHolds, ListenerClosed
<1> QED
  BY <1>2, <1>3, <1>4, <1>5, <1>6, <1>7, <1>8 DEF TunnelInv

LEMMA TunnelStutterKeeps ==
  ASSUME TunnelInv, UNCHANGED tunnelVars
  PROVE  TunnelInv'
<1>1. Active' = Active /\ Counted' = Counted
  BY DEF tunnelVars, Active, Counted
<1> QED
  BY <1>1 DEF tunnelVars, TunnelInv, TunnelTypeOK, LoopHolds, ListenerClosed, EndsKept, KeptAt,
    ConnectionsReachable, ReachableAt, CleanIsEmpty

-----------------------------------------------------------------------------
(* The theorem.                                                             *)

LEMMA TunnelNextKeeps ==
  ASSUME TunnelInv, TunnelNext
  PROVE  TunnelInv'
<1>1. ASSUME NEW c \in Conn,
             PeerConnects(c) \/ Accept(c) \/ AddConn(c) \/ StartHandler(c) \/ Dials(c) \/ AddDialled(c)
             \/ CopyEnds(c) \/ PeerLeaves(c) \/ Release(c) \/ HandlerDone(c)
      PROVE  TunnelInv'
  BY <1>1, KeepsPeerConnects, KeepsAccept, KeepsAddConn, KeepsStartHandler, KeepsDials, KeepsAddDialled,
    KeepsCopyEnds, KeepsPeerLeaves, KeepsRelease, KeepsHandlerDone
<1>2. CASE LoopEnds \/ Cancel \/ CloseListener \/ Snapshot \/ SweepOne \/ Swept \/ WaitOver
  BY <1>2, KeepsLoopEnds, KeepsCancel, KeepsCloseListener, KeepsSnapshot, KeepsSweepOne, KeepsSwept, KeepsWaitOver
<1> QED
  BY <1>1, <1>2 DEF TunnelNext, Handler, Loop, CloseSteps

\* TunnelSound for any number of connections: Close reaches every open one, and
\* without its timeout leaves no loop, no handler and no connection behind
\* (tunnel.go:107, tunnel.go:137).
THEOREM TunnelAlwaysSound == TunnelSpec => []TunnelSound
<1>1. TunnelInit => TunnelInv
  BY TunnelInitInv
<1>2. TunnelInv /\ [TunnelNext]_tunnelVars => TunnelInv'
  BY TunnelNextKeeps, TunnelStutterKeeps
<1>3. TunnelInv => TunnelSound
  BY DEF TunnelInv, TunnelSound
<1> QED
  BY <1>1, <1>2, <1>3, PTL DEF TunnelSpec

-----------------------------------------------------------------------------
(* Logs.                                                                    *)

StreamStates == {"new", "replay", "listen", "streaming", "closing", "closed", "over"}
StreamRecord == [at : StreamStates, log : Log \cup {NoLog}, seen : Seq(Nat), queue : Seq(Nat)]

LogShape ==
  /\ store \in Log \cup {NoLog}
  /\ log \in [Log -> [lines : Seq(Nat), listeners : SUBSET Stream]]
  /\ stream \in [Stream -> StreamRecord]
  /\ writer \in [Writer -> Log \cup {NoLog}]
  /\ written \in 0..MaxLines /\ panicked \in BOOLEAN

\* Lines in the order in which they were logged, and none that was not.
Rising(s) == \A i, j \in 1..Len(s) : i < j => s[i] < s[j]
UpTo(s, n) == \A i \in 1..Len(s) : s[i] <= n
InOrder(s, n) == Rising(s) /\ UpTo(s, n)

LogsInOrder == \A l \in Log : Len(log[l].lines) <= Cap /\ InOrder(log[l].lines, written)

\* A stream has its channel from the replay on.
StreamInOrder(x) ==
  /\ InOrder(x.seen \o x.queue, written) /\ Len(x.queue) <= Buffer
  /\ x.at \in {"new", "replay", "listen"} => x.queue = <<>>
  /\ x.at # "new" => x.log # NoLog
StreamsInOrder == \A r \in Stream : StreamInOrder(stream[r])

LogInv == LogShape /\ LogsInOrder /\ StreamsInOrder /\ ListenersLive

-----------------------------------------------------------------------------
\* A line that is logged comes after those before it.
LEMMA OrderAppended ==
  ASSUME NEW s \in Seq(Nat), NEW n \in Nat, InOrder(s, n)
  PROVE  Append(s, n + 1) \in Seq(Nat) /\ InOrder(Append(s, n + 1), n + 1)
  <1>1. Len(s) \in Nat /\ \A i \in 1..Len(s) : s[i] \in Nat
    BY LenProperties, ElementOfSeq
  <1>2. Append(s, n + 1) \in Seq(Nat) /\ Len(Append(s, n + 1)) = Len(s) + 1
    BY AppendProperties
  <1>3. /\ \A i \in 1..Len(s) : Append(s, n + 1)[i] = s[i]
        /\ Append(s, n + 1)[Len(s) + 1] = n + 1
    BY AppendProperties
  <1>4. \A i \in 1..Len(s) : s[i] <= n
    BY DEF InOrder, UpTo
  <1>5. \A i, j \in 1..Len(s) : i < j => s[i] < s[j]
    BY DEF InOrder, Rising
  <1>6. UpTo(Append(s, n + 1), n + 1)
    <2>1. SUFFICES ASSUME NEW i \in 1..Len(s) + 1 PROVE Append(s, n + 1)[i] <= n + 1
      BY <1>2 DEF UpTo
    <2>2. CASE i = Len(s) + 1
      BY <2>2, <1>3
    <2>3. CASE i # Len(s) + 1
      <3>1. i \in 1..Len(s)
        BY <2>1, <2>3, <1>1
      <3>2. QED
        BY <3>1, <1>3, <1>4, <1>1
    <2>4. QED
      BY <2>2, <2>3
  <1>7. Rising(Append(s, n + 1))
    <2>1. SUFFICES ASSUME NEW i \in 1..Len(s) + 1, NEW j \in 1..Len(s) + 1, i < j
                   PROVE  Append(s, n + 1)[i] < Append(s, n + 1)[j]
      BY <1>2 DEF Rising
    <2>2. i \in 1..Len(s)
      BY <2>1, <1>1
    <2>3. CASE j = Len(s) + 1
      BY <2>2, <2>3, <1>1, <1>3, <1>4
    <2>4. CASE j # Len(s) + 1
      <3>1. j \in 1..Len(s)
        BY <2>1, <2>4, <1>1
      <3>2. QED
        BY <3>1, <2>1, <2>2, <1>3, <1>5
    <2>5. QED
      BY <2>3, <2>4
  <1>8. QED
    BY <1>2, <1>6, <1>7 DEF InOrder

\* The lines that a log keeps are in the order they were in.
LEMMA OrderKept ==
  ASSUME NEW s \in Seq(Nat), NEW n \in Nat, InOrder(s, n)
  PROVE  /\ Kept(s) \in Seq(Nat) /\ Len(Kept(s)) <= Cap
         /\ InOrder(Kept(s), n)
  <1>1. Len(s) \in Nat /\ \A i \in 1..Len(s) : s[i] \in Nat
    BY LenProperties, ElementOfSeq
  <1>2. Cap \in Nat \ {0}
    BY LogAssumption
  <1>3. CASE Len(s) <= Cap
    BY <1>1, <1>2, <1>3 DEF Kept
  <1>4. CASE Len(s) > Cap
    <2> DEFINE m == Len(s) - Cap + 1
               t == SubSeq(s, m, Len(s))
    <2>1. m \in Int /\ m >= 1 /\ Len(s) - m + 1 = Cap /\ m <= Len(s)
      BY <1>1, <1>2, <1>4
    <2>2. \A i \in m..Len(s) : s[i] \in Nat
      BY <2>1, <1>1
    <2>3. /\ t \in Seq(Nat) /\ Len(t) = Cap
          /\ \A i \in 1..Cap : t[i] = s[m + i - 1]
      <3> HIDE DEF m
      <3>1. QED
        BY <2>1, <2>2, <1>1, SubSeqProperties
    <2>4. Kept(s) = t
      BY <1>4 DEF Kept
    <2>5. \A i \in 1..Cap : m + i - 1 \in 1..Len(s)
      BY <2>1, <1>1, <1>2
    <2>6. UpTo(t, n)
      <3> HIDE DEF t, m
      <3>1. QED
        BY <2>3, <2>5 DEF InOrder, UpTo
    <2>7. Rising(t)
      <3>1. SUFFICES ASSUME NEW i \in 1..Cap, NEW j \in 1..Cap, i < j PROVE t[i] < t[j]
        <4> HIDE DEF t
        <4>1. QED
          BY <2>3 DEF Rising
      <3>2. m + i - 1 < m + j - 1
        BY <3>1, <2>1, <1>2
      <3>3. s[m + i - 1] < s[m + j - 1]
        <4> HIDE DEF m
        <4>1. QED
          BY <3>2, <2>5 DEF InOrder, Rising
      <3>4. QED
        <4> HIDE DEF t, m
        <4>1. QED
          BY <3>3, <2>3
    <2>8. QED
      <3> HIDE DEF t
      <3>1. QED
        BY <2>3, <2>4, <2>6, <2>7, <1>2 DEF InOrder
  <1>5. QED
    BY <1>1, <1>2, <1>3, <1>4

\* Lines stay in order when others are logged.
LEMMA OrderLater ==
  ASSUME NEW s \in Seq(Nat), NEW n \in Nat, InOrder(s, n)
  PROVE  InOrder(s, n + 1)
  <1>1. Len(s) \in Nat /\ \A i \in 1..Len(s) : s[i] \in Nat
    BY LenProperties, ElementOfSeq
  <1>2. QED
    BY <1>1 DEF InOrder, UpTo

\* A line that is put into a channel is shown last.
LEMMA ShownQueued ==
  ASSUME NEW s \in Seq(Nat), NEW t \in Seq(Nat), NEW x \in Nat
  PROVE  s \o Append(t, x) = Append(s \o t, x)
  <1>1. <<x>> \in Seq(Nat) /\ s \o t \in Seq(Nat)
    BY ConcatProperties
  <1>2. Append(t, x) = t \o <<x>> /\ Append(s \o t, x) = (s \o t) \o <<x>>
    BY <1>1, AppendIsConcat
  <1>3. QED
    BY <1>1, <1>2, ConcatAssociative

LEMMA LinesAssociative ==
  \A a, b, c \in Seq(Nat) : (a \o b) \o c = a \o (b \o c)
  BY ConcatAssociative

\* Forwarding shows what was going to be shown.
LEMMA ShownForwarded ==
  ASSUME NEW s \in Seq(Nat), NEW t \in Seq(Nat), t # <<>>
  PROVE  /\ Append(s, Head(t)) \in Seq(Nat) /\ Tail(t) \in Seq(Nat)
         /\ Len(Tail(t)) = Len(t) - 1
         /\ Append(s, Head(t)) \o Tail(t) = s \o t
  <1> DEFINE h == Head(t)
             rest == Tail(t)
  <1>1. /\ h \in Nat /\ rest \in Seq(Nat) /\ Len(rest) = Len(t) - 1
        /\ \A i \in 1..Len(rest) : rest[i] = t[i + 1]
    BY HeadTailProperties
  <1>2. h = t[1] /\ Len(t) \in Nat /\ Len(t) >= 1
    BY EmptySeq, LenProperties
  <1>3. Append(s, h) \in Seq(Nat)
    BY <1>1, AppendProperties
  <1> HIDE DEF h, rest
  <1>4. <<h>> \in Seq(Nat) /\ Len(<<h>>) = 1 /\ <<h>>[1] = h
    BY <1>1
  <1>5. <<h>> \o rest = t
    <2>1. <<h>> \o rest \in Seq(Nat) /\ Len(<<h>> \o rest) = Len(t)
      BY <1>1, <1>2, <1>4, ConcatProperties
    <2>2. ASSUME NEW i \in 1..Len(t) PROVE (<<h>> \o rest)[i] = t[i]
      <3>1. (<<h>> \o rest)[i] = IF i <= 1 THEN <<h>>[i] ELSE rest[i - 1]
        BY <1>1, <1>2, <1>4, ConcatProperties
      <3>2. QED
        BY <3>1, <1>1, <1>2, <1>4
    <2>3. QED
      BY <2>1, <2>2, SeqEqual
  <1>6. Append(s, h) = s \o <<h>>
    BY <1>1, AppendIsConcat
  <1>7. Append(s, h) \o rest = s \o t
    <2>1. (s \o <<h>>) \o rest = s \o (<<h>> \o rest)
      BY <1>1, <1>4, LinesAssociative
    <2>2. QED
      BY <2>1, <1>5, <1>6
  <1>8. QED
    BY <1>1, <1>3, <1>7 DEF h, rest

-----------------------------------------------------------------------------
\* LogInv holds at first.
LEMMA LogFirst == LogInit => LogInv
  <1>1. SUFFICES ASSUME LogInit PROVE LogInv
    OBVIOUS
  <1>2. /\ <<>> \in Seq(Nat) /\ Len(<<>>) = 0
        /\ <<>> \o <<>> = <<>>
    BY EmptySeq, ConcatEmptySeq
  <1>3. MaxLines \in Nat /\ Cap \in Nat \ {0} /\ Buffer \in Nat \ {0}
    BY LogAssumption
  <1>4. InOrder(<<>>, 0)
    BY <1>2 DEF InOrder, Rising, UpTo
  <1>5. LogShape
    <2>1. [lines |-> <<>>, listeners |-> {}] \in [lines : Seq(Nat), listeners : SUBSET Stream]
      BY <1>2
    <2>2. [at |-> "new", log |-> NoLog, seen |-> <<>>, queue |-> <<>>] \in StreamRecord
      BY <1>2 DEF StreamRecord, StreamStates
    <2>3. log \in [Log -> [lines : Seq(Nat), listeners : SUBSET Stream]]
      BY <1>1, <2>1 DEF LogInit
    <2>4. stream \in [Stream -> StreamRecord]
      BY <1>1, <2>2 DEF LogInit
    <2>5. written \in 0..MaxLines
      BY <1>1, <1>3 DEF LogInit
    <2>6. QED
      BY <1>1, <2>3, <2>4, <2>5 DEF LogInit, LogShape
  <1>6. LogsInOrder
    BY <1>1, <1>2, <1>3, <1>4 DEF LogInit, LogsInOrder
  <1>7. StreamsInOrder
    <2>1. ASSUME NEW r \in Stream PROVE StreamInOrder(stream[r])
      <3>1. /\ stream[r].at = "new" /\ stream[r].log = NoLog
            /\ stream[r].seen = <<>> /\ stream[r].queue = <<>> /\ written = 0
        BY <1>1 DEF LogInit
      <3>2. QED
        BY <3>1, <1>2, <1>3, <1>4 DEF StreamInOrder
    <2>2. QED
      BY <2>1 DEF StreamsInOrder
  <1>8. ListenersLive
    BY <1>1 DEF LogInit, ListenersLive
  <1>9. QED
    BY <1>5, <1>6, <1>7, <1>8 DEF LogInv

\* A step that touches no log and no line, and of one stream at most the state:
\* what it leaves alone stays in order.
LEMMA LogStreamMoves ==
  ASSUME LogInv, NEW r \in Stream, NEW x \in StreamRecord,
         stream' = [stream EXCEPT ![r] = x], UNCHANGED written,
         StreamInOrder(x)
  PROVE  StreamsInOrder'
  <1>1. \A q \in Stream : stream'[q] = IF q = r THEN x ELSE stream[q]
    BY DEF LogInv, LogShape
  <1>2. QED
    BY <1>1 DEF LogInv, StreamsInOrder, StreamInOrder

\* A writer finds its log, and deleting the profile drops the log.
LEMMA LogFound ==
  ASSUME LogInv, (\E w \in Writer : FindLog(w)) \/ DeleteLog
  PROVE  LogInv'
  <1>1. UNCHANGED <<log, stream, written, panicked>>
    BY DEF FindLog, DeleteLog
  <1>2. store' \in Log \cup {NoLog} /\ writer' \in [Writer -> Log \cup {NoLog}]
    BY DEF FindLog, DeleteLog, LogInv, LogShape
  <1>3. QED
    BY <1>1, <1>2 DEF LogInv, LogShape, LogsInOrder, StreamsInOrder, StreamInOrder, ListenersLive

\* A line is added to a log and put into the channels of its listeners.
LEMMA LogAdded ==
  ASSUME LogInv, NEW w \in Writer, Add(w)
  PROVE  LogInv'
  <1> DEFINE l == writer[w]
             line == written + 1
             kept == Kept(Append(log[l].lines, line))
             gets(r) == r \in log[l].listeners /\ stream[r].at # "closed"
                        /\ Len(stream[r].queue) < Buffer
  <1>1. l \in Log /\ written \in Nat /\ line \in 0..MaxLines /\ written' = line
    BY LogAssumption DEF LogInv, LogShape, Add
  <1>2. /\ log[l] \in [lines : Seq(Nat), listeners : SUBSET Stream]
        /\ InOrder(log[l].lines, written)
    BY <1>1 DEF LogInv, LogShape, LogsInOrder
  <1>3. kept \in Seq(Nat) /\ Len(kept) <= Cap /\ InOrder(kept, line)
    <2> DEFINE longer == Append(log[l].lines, line)
    <2>1. longer \in Seq(Nat) /\ InOrder(longer, line)
      BY <1>1, <1>2, OrderAppended
    <2>2. line \in Nat
      BY <1>1
    <2> HIDE DEF longer, line
    <2>3. Kept(longer) \in Seq(Nat) /\ Len(Kept(longer)) <= Cap /\ InOrder(Kept(longer), line)
      BY <2>1, <2>2, OrderKept
    <2>4. QED
      BY <2>3 DEF longer
  <1>4. log' = [log EXCEPT ![l].lines = kept]
    BY DEF Add
  <1>5. \A r \in Stream : stream'[r] =
          IF gets(r) THEN [stream[r] EXCEPT !.queue = Append(@, line)] ELSE stream[r]
    BY DEF Add
  <1>6. UNCHANGED store /\ writer' = [writer EXCEPT ![w] = NoLog] /\ panicked' \in BOOLEAN
    BY DEF Add
  <1> HIDE DEF kept, gets
  <1>7. \A k \in Log : /\ log'[k] \in [lines : Seq(Nat), listeners : SUBSET Stream]
                       /\ log'[k].listeners = log[k].listeners
                       /\ log'[k].lines = IF k = l THEN kept ELSE log[k].lines
    BY <1>1, <1>3, <1>4 DEF LogInv, LogShape
  <1>8. \A k \in Log : log[k].lines \in Seq(Nat)
    BY DEF LogInv, LogShape
  <1>9. LogsInOrder'
    <2>1. \A k \in Log : InOrder(log[k].lines, line)
      BY <1>1, <1>8, OrderLater DEF LogInv, LogsInOrder
    <2>2. QED
      BY <2>1, <1>1, <1>3, <1>7 DEF LogInv, LogsInOrder
  <1>10. ASSUME NEW r \in Stream
         PROVE  /\ stream'[r] \in StreamRecord
                /\ stream'[r].at = stream[r].at /\ stream'[r].log = stream[r].log
                /\ StreamInOrder(stream[r])'
    <2> DEFINE x == stream[r]
    <2>1. /\ x \in StreamRecord /\ x.seen \in Seq(Nat) /\ x.queue \in Seq(Nat)
          /\ StreamInOrder(x)
      BY DEF LogInv, LogShape, StreamsInOrder, StreamRecord
    <2>2. x.seen \o x.queue \in Seq(Nat) /\ InOrder(x.seen \o x.queue, written)
      BY <2>1, ConcatProperties DEF StreamInOrder
    <2>3. CASE gets(r)
      <3> DEFINE y == [x EXCEPT !.queue = Append(@, line)]
      <3>1. stream'[r] = y
        BY <2>3, <1>5
      <3>2. Append(x.queue, line) \in Seq(Nat) /\ Len(Append(x.queue, line)) = Len(x.queue) + 1
        BY <1>1, <2>1, AppendProperties
      <3>3. /\ y \in StreamRecord /\ y.at = x.at /\ y.log = x.log /\ y.seen = x.seen
            /\ y.queue = Append(x.queue, line)
        BY <2>1, <3>2 DEF StreamRecord
      <3>4. InOrder(x.seen \o Append(x.queue, line), line)
        <4>1. x.seen \o Append(x.queue, line) = Append(x.seen \o x.queue, line)
          <5>1. line \in Nat
            BY <1>1
          <5> HIDE DEF x, line
          <5>2. QED
            BY <5>1, <2>1, ShownQueued
        <4>2. InOrder(Append(x.seen \o x.queue, line), line)
          BY <1>1, <2>2, OrderAppended
        <4>3. QED
          BY <4>1, <4>2
      <3>5. x.at \in {"streaming", "closing"} /\ Len(x.queue) < Buffer
        BY <2>3, <1>1 DEF gets, LogInv, ListenersLive
      <3>6. x.log # NoLog
        BY <3>5, <2>1 DEF StreamInOrder
      <3>7. Len(x.queue) + 1 <= Buffer
        BY <3>5, <2>1, LenProperties, LogAssumption
      <3> HIDE DEF x, y
      <3>8. StreamInOrder(stream[r])'
        BY <3>1, <3>2, <3>3, <3>4, <3>5, <3>6, <3>7, <1>1 DEF StreamInOrder
      <3>9. QED
        BY <3>1, <3>3, <3>8 DEF x
    <2>4. CASE ~gets(r)
      <3>1. stream'[r] = x
        BY <2>4, <1>5
      <3>2. InOrder(x.seen \o x.queue, line)
        BY <2>2, <1>1, OrderLater
      <3>3. QED
        BY <3>1, <3>2, <2>1, <1>1 DEF StreamInOrder
    <2>5. QED
      BY <2>3, <2>4
  <1>11. LogShape'
    <2>1. log' \in [Log -> [lines : Seq(Nat), listeners : SUBSET Stream]]
      BY <1>7, <1>4 DEF LogInv, LogShape
    <2>2. stream' \in [Stream -> StreamRecord]
      <3>1. stream' = [r \in Stream |-> stream'[r]]
        BY DEF Add
      <3>2. QED
        BY <3>1, <1>10
    <2>3. QED
      BY <2>1, <2>2, <1>1, <1>6 DEF LogInv, LogShape
  <1>12. StreamsInOrder'
    BY <1>10 DEF StreamsInOrder
  <1>13. ListenersLive'
    BY <1>7, <1>10 DEF LogInv, LogShape, ListenersLive
  <1>14. QED
    BY <1>9, <1>11, <1>12, <1>13 DEF LogInv

\* A stream that moves keeps its log and stays in order; the logs keep their
\* lines, and it is among the listeners of its own log at most.
LEMMA LogMoved ==
  ASSUME LogInv, NEW r \in Stream, NEW x \in StreamRecord,
         stream' = [stream EXCEPT ![r] = x], StreamInOrder(x),
         store' \in Log \cup {NoLog}, UNCHANGED <<writer, written, panicked>>,
         log' \in [Log -> [lines : Seq(Nat), listeners : SUBSET Stream]],
         \A l \in Log : log'[l].lines = log[l].lines,
         \A l \in Log, q \in Stream \ {r} :
           q \in log'[l].listeners => q \in log[l].listeners,
         \A l \in Log : r \in log'[l].listeners =>
           x.log = l /\ x.at \in {"streaming", "closing", "closed"}
  PROVE  LogInv'
  <1>1. LogShape'
    BY DEF LogInv, LogShape
  <1>2. LogsInOrder'
    BY DEF LogInv, LogsInOrder
  <1>3. StreamsInOrder'
    BY LogStreamMoves
  <1>4. ListenersLive'
    <2>1. \A q \in Stream : stream'[q] = IF q = r THEN x ELSE stream[q]
      BY DEF LogInv, LogShape
    <2>2. QED
      BY <1>1, <2>1 DEF LogInv, LogShape, ListenersLive
  <1>5. QED
    BY <1>1, <1>2, <1>3, <1>4 DEF LogInv

\* The steps of a stream.
LEMMA LogFollowed ==
  ASSUME LogInv, NEW r \in Stream, Connect(r) \/ Following(r) \/ PageLeaves(r)
  PROVE  LogInv'
  <1> DEFINE x == stream[r]
  <1>1. /\ x \in StreamRecord /\ x.seen \in Seq(Nat) /\ x.queue \in Seq(Nat)
        /\ StreamInOrder(x)
    BY DEF LogInv, LogShape, StreamsInOrder, StreamRecord
  <1>2. /\ store \in Log \cup {NoLog}
        /\ log \in [Log -> [lines : Seq(Nat), listeners : SUBSET Stream]]
        /\ \A l \in Log : r \in log[l].listeners =>
             x.log = l /\ x.at \in {"streaming", "closing", "closed"}
    BY DEF LogInv, LogShape, ListenersLive
  <1>3. \A l \in Log : log[l].lines \in Seq(Nat) /\ InOrder(log[l].lines, written)
    BY <1>2 DEF LogInv, LogsInOrder
  <1>4. CASE Connect(r)
    <2>1. PICK l \in Log : /\ store' = l
                           /\ stream' = [stream EXCEPT ![r] = [x EXCEPT !.at = "replay", !.log = l]]
      BY <1>4 DEF Connect, Follow
    <2> DEFINE y == [x EXCEPT !.at = "replay", !.log = l]
    <2>2. /\ x.at = "new" /\ UNCHANGED <<log, writer, written, panicked>>
      BY <1>4 DEF Connect, Follow
    <2>3. /\ y \in StreamRecord /\ y.at = "replay" /\ y.log = l
          /\ y.seen = x.seen /\ y.queue = x.queue
      BY <1>1 DEF StreamRecord, StreamStates
    <2>4. StreamInOrder(y)
      <3> HIDE DEF x, y
      <3>1. QED
        BY <2>2, <2>3, <1>1, LogAssumption DEF StreamInOrder
    <2>5. \A k \in Log : r \notin log[k].listeners
      BY <1>2, <2>2
    <2> HIDE DEF y
    <2>6. stream' = [stream EXCEPT ![r] = y]
      BY <2>1 DEF y
    <2>7. store' \in Log \cup {NoLog}
      BY <2>1
    <2>8. QED
      BY <2>2, <2>3, <2>4, <2>5, <2>6, <2>7, <1>2, LogMoved
  <1>5. CASE Replay(r)
    <2> DEFINE y == [x EXCEPT !.at = "listen", !.seen = log[x.log].lines]
    <2>1. /\ x.at = "replay" /\ UNCHANGED <<store, log, writer, written, panicked>>
          /\ stream' = [stream EXCEPT ![r] = y]
      BY <1>5 DEF Replay, Follow
    <2>2. x.log \in Log /\ x.queue = <<>>
      BY <2>1, <1>1 DEF StreamInOrder, StreamRecord
    <2>3. log[x.log].lines \in Seq(Nat) /\ InOrder(log[x.log].lines, written)
      BY <2>2, <1>3
    <2>4. /\ y \in StreamRecord /\ y.at = "listen" /\ y.log = x.log
          /\ y.seen = log[x.log].lines /\ y.queue = x.queue
      BY <1>1, <2>3 DEF StreamRecord, StreamStates
    <2>5. y.seen \o y.queue = log[x.log].lines
      <3> HIDE DEF y, x
      <3>1. QED
        BY <2>2, <2>3, <2>4, ConcatEmptySeq
    <2>6. StreamInOrder(y)
      <3> HIDE DEF x, y
      <3>1. QED
        BY <2>1, <2>2, <2>3, <2>4, <2>5, <1>1, LogAssumption DEF StreamInOrder
    <2>7. \A k \in Log : r \notin log[k].listeners
      BY <1>2, <2>1
    <2> HIDE DEF y
    <2>8. QED
      BY <2>1, <2>4, <2>6, <2>7, <1>2, LogMoved
  <1>6. CASE AddListener(r)
    <2> DEFINE y == [x EXCEPT !.at = "streaming"]
    <2>1. /\ x.at = "listen" /\ UNCHANGED <<store, writer, written, panicked>>
          /\ stream' = [stream EXCEPT ![r] = y]
          /\ log' = [log EXCEPT ![x.log].listeners = @ \cup {r}]
      BY <1>6 DEF AddListener, Follow
    <2>2. x.log \in Log
      BY <2>1, <1>1 DEF StreamInOrder, StreamRecord
    <2>3. /\ y \in StreamRecord /\ y.at = "streaming" /\ y.log = x.log
          /\ y.seen = x.seen /\ y.queue = x.queue
      BY <1>1 DEF StreamRecord, StreamStates
    <2>4. StreamInOrder(y)
      <3> HIDE DEF x, y
      <3>1. QED
        BY <2>1, <2>3, <1>1 DEF StreamInOrder
    <2>5. /\ log' \in [Log -> [lines : Seq(Nat), listeners : SUBSET Stream]]
          /\ \A k \in Log :
               /\ log'[k].lines = log[k].lines
               /\ log'[k].listeners = IF k = x.log THEN log[k].listeners \cup {r}
                                      ELSE log[k].listeners
      <3> HIDE DEF x
      <3>1. QED
        BY <2>1, <2>2, <1>2
    <2>6. \A k \in Log : r \notin log[k].listeners
      BY <1>2, <2>1
    <2>7. /\ \A k \in Log : log'[k].lines = log[k].lines
          /\ \A k \in Log, d \in Stream \ {r} :
               d \in log'[k].listeners => d \in log[k].listeners
          /\ \A k \in Log : r \in log'[k].listeners => x.log = k
      BY <2>5, <2>6
    <2> HIDE DEF x, y
    <2>8. \A k \in Log : r \in log'[k].listeners =>
            y.log = k /\ y.at \in {"streaming", "closing", "closed"}
      BY <2>3, <2>7
    <2>9. y \in StreamRecord /\ stream' = [stream EXCEPT ![r] = y] /\ StreamInOrder(y)
      BY <2>1, <2>3, <2>4
    <2>10. store' \in Log \cup {NoLog} /\ UNCHANGED <<writer, written, panicked>>
      BY <2>1, <1>2
    <2>11. QED
      BY <2>5, <2>7, <2>8, <2>9, <2>10, LogMoved
  <1>7. CASE Forward(r)
    <2> DEFINE y == [x EXCEPT !.seen = Append(@, Head(x.queue)), !.queue = Tail(@)]
    <2>1. /\ x.at = "streaming" /\ x.queue # <<>> /\ UNCHANGED <<store, log, writer, written, panicked>>
          /\ stream' = [stream EXCEPT ![r] = y]
      BY <1>7 DEF Forward, Follow
    <2>2. /\ Append(x.seen, Head(x.queue)) \in Seq(Nat) /\ Tail(x.queue) \in Seq(Nat)
          /\ Len(Tail(x.queue)) = Len(x.queue) - 1
          /\ Append(x.seen, Head(x.queue)) \o Tail(x.queue) = x.seen \o x.queue
      BY <2>1, <1>1, ShownForwarded
    <2>3. /\ y \in StreamRecord /\ y.at = x.at /\ y.log = x.log
          /\ y.seen = Append(x.seen, Head(x.queue)) /\ y.queue = Tail(x.queue)
      BY <1>1, <2>2 DEF StreamRecord
    <2>4. Len(Tail(x.queue)) <= Buffer
      BY <1>1, <2>2, LenProperties, LogAssumption DEF StreamInOrder
    <2>5. StreamInOrder(y)
      <3> HIDE DEF x, y
      <3>1. QED
        BY <2>1, <2>2, <2>3, <2>4, <1>1 DEF StreamInOrder
    <2> HIDE DEF x, y
    <2>6. QED
      BY <2>1, <2>3, <2>5, <1>2, LogMoved
  <1>8. CASE PageLeaves(r) \/ CloseQueue(r)
    <2>1. PICK at \in {"closing", "closed"} :
            /\ x.at \in {"streaming", "closing"} /\ UNCHANGED <<store, log, writer, written, panicked>>
            /\ stream' = [stream EXCEPT ![r] = [x EXCEPT !.at = at]]
      BY <1>8 DEF PageLeaves, CloseQueue, Follow
    <2> DEFINE y == [x EXCEPT !.at = at]
    <2>2. /\ y \in StreamRecord /\ y.at = at /\ y.log = x.log
          /\ y.seen = x.seen /\ y.queue = x.queue
      BY <1>1 DEF StreamRecord, StreamStates
    <2>3. StreamInOrder(y)
      <3> HIDE DEF x, y
      <3>1. QED
        BY <2>1, <2>2, <1>1 DEF StreamInOrder
    <2>4. stream' = [stream EXCEPT ![r] = y]
      BY <2>1
    <2> HIDE DEF x, y
    <2>5. QED
      BY <2>1, <2>2, <2>3, <2>4, <1>2, LogMoved
  <1>9. CASE RemoveListener(r)
    <2> DEFINE y == [x EXCEPT !.at = "over"]
    <2>1. /\ x.at = "closed" /\ UNCHANGED <<store, writer, written, panicked>>
          /\ stream' = [stream EXCEPT ![r] = y]
      BY <1>9 DEF RemoveListener, Follow
    <2>2. x.log \in Log /\ x.log # NoLog
      BY <2>1, <1>1 DEF StreamInOrder, StreamRecord
    <2>3. log' = [log EXCEPT ![x.log].listeners = @ \ {r}]
      BY <1>9, <2>2 DEF RemoveListener, OwnLog
    <2>4. /\ y \in StreamRecord /\ y.at = "over" /\ y.log = x.log
          /\ y.seen = x.seen /\ y.queue = x.queue
      BY <1>1 DEF StreamRecord, StreamStates
    <2>5. StreamInOrder(y)
      <3> HIDE DEF x, y
      <3>1. QED
        BY <2>1, <2>4, <1>1 DEF StreamInOrder
    <2>6. /\ log' \in [Log -> [lines : Seq(Nat), listeners : SUBSET Stream]]
          /\ \A k \in Log :
               /\ log'[k].lines = log[k].lines
               /\ log'[k].listeners = IF k = x.log THEN log[k].listeners \ {r}
                                      ELSE log[k].listeners
      <3> HIDE DEF x
      <3>1. QED
        BY <2>2, <2>3, <1>2
    <2>7. \A k \in Log : r \notin log'[k].listeners
      BY <1>2, <2>6
    <2> HIDE DEF x, y
    <2>8. QED
      BY <2>1, <2>4, <2>5, <2>6, <2>7, <1>2, LogMoved
  <1>10. QED
    BY <1>4, <1>5, <1>6, <1>7, <1>8, <1>9 DEF Following

\* Every step keeps LogInv.
LEMMA LogStep == LogInv /\ [LogNext]_logVars => LogInv'
  <1>1. SUFFICES ASSUME LogInv, [LogNext]_logVars PROVE LogInv'
    OBVIOUS
  <1>2. CASE UNCHANGED logVars
    BY <1>1, <1>2 DEF logVars, LogInv, LogShape, LogsInOrder, StreamsInOrder, StreamInOrder,
                      ListenersLive
  <1>3. CASE LogNext
    BY <1>1, <1>3, LogFound, LogAdded, LogFollowed DEF LogNext
  <1>4. QED
    BY <1>1, <1>2, <1>3

\* What a page sees and which streams a log serves (internal/gui/gui.go:142,
\* gui.go:2696): a page shows every line at most once and in the order of
\* logging, over the seam between the replay and its channel, and no log keeps a
\* stream that has ended, for any number of logs, streams, writers and lines.
THEOREM StreamsAlwaysSound == LogSpec => []StreamsSound
  <1>1. LogInv => StreamsSound
    <2>1. SUFFICES ASSUME LogInv PROVE StreamsSound
      OBVIOUS
    <2>2. \A r \in Stream : stream[r] \in StreamRecord /\ StreamInOrder(stream[r])
      BY <2>1 DEF LogInv, LogShape, StreamsInOrder
    <2>3. LogTypeOK
      BY <2>1, <2>2 DEF LogInv, LogShape, LogsInOrder, LogTypeOK, StreamInOrder, StreamRecord,
                        StreamStates
    <2>4. LinesOnce
      BY <2>2 DEF LinesOnce, Shown, StreamInOrder, InOrder, Rising
    <2>5. QED
      BY <2>1, <2>3, <2>4 DEF LogInv, StreamsSound
  <1>2. QED
    BY <1>1, LogFirst, LogStep, PTL DEF LogSpec

-----------------------------------------------------------------------------
(* The watchdog and the exit.                                               *)

BeatOf(q) == [what |-> "beat", from |-> q]
CloseOf(q) == [what |-> "close", from |-> q]

\* The last message of a page is the last.
ClosesAreLast == \A q \in Page : CloseOf(q) \in mail => page[q].at = "left"

\* As long as the watchdog may give up, an open page has a heartbeat on its way
\* or was noted no longer ago than its timer ran.
OpenIsNoted(q) == \/ BeatOf(q) \in mail
                  \/ q \in noted /\ age[q] <= page[q].since
OpenPagesNoted == main.at = "page" =>
  \A q \in Page : page[q].at = "open" => OpenIsNoted(q)

\* The time without pages is counted while there is none.
EmptyIsQuiet == empty.set => noted = {} /\ empty.ticks <= quiet

\* Uploads are over when their part is, which is before the cache is cleaned.
UploadsFirst ==
  /\ "sync" \in ended => upload # "running"
  /\ main.part > 3 => "sync" \in ended
  /\ "cache" \in ended => main.part > 5

DogInv == /\ WatchdogTypeOK
          /\ ClosesAreLast /\ OpenPagesNoted /\ EmptyIsQuiet
          /\ UploadsFirst

LEMMA DogOrders ==
  /\ Len(DogOrder) = 5 /\ \A n \in 1..5 : DogOrder[n] \in Part \ {"cache"}
  /\ Len(DeferOrder) = 5 /\ \A n \in 1..5 : DeferOrder[n] \in Part
  /\ DeferOrder[3] = "sync" /\ \A n \in 1..4 : DeferOrder[n] # "cache"
  BY DEF DogOrder, DeferOrder, Part

\* DogInv holds at first.
LEMMA DogFirst == WatchdogInit => DogInv
  <1>1. SUFFICES ASSUME WatchdogInit PROVE DogInv
    OBVIOUS
  <1>2. Beat \in Nat \ {0} /\ Stale \in Nat /\ Grace \in Nat \ {0}
    BY WatchdogAssumption
  <1>3. WatchdogTypeOK
    <2>1. page \in [Page -> [at : {"new", "open", "left"}, since : 0..Beat]]
      BY <1>1, <1>2 DEF WatchdogInit
    <2>2. main \in [at : {"page", "window", "shells", "shutdown", "defer", "exited"},
                    part : 1..Len(DeferOrder) + 1]
      BY <1>1, DogOrders DEF WatchdogInit
    <2>3. dog \in 0..Len(DogOrder) + 1 /\ empty \in [set : BOOLEAN, ticks : 0..Grace]
      BY <1>1, <1>2, DogOrders DEF WatchdogInit
    <2>4. age \in [Page -> 0..Stale + 1] /\ quiet \in 0..Grace
      BY <1>1, <1>2 DEF WatchdogInit
    <2>5. mail \subseteq Message /\ noted \subseteq Page /\ seen \in BOOLEAN
          /\ upload \in {"none", "running", "finished", "cut"} /\ ended \subseteq Part
      BY <1>1 DEF WatchdogInit
    <2>6. QED
      BY <2>1, <2>2, <2>3, <2>4, <2>5 DEF WatchdogTypeOK
  <1>4. ClosesAreLast /\ OpenPagesNoted /\ EmptyIsQuiet /\ UploadsFirst
    BY <1>1 DEF WatchdogInit, ClosesAreLast, OpenPagesNoted, EmptyIsQuiet, UploadsFirst
  <1>5. QED
    BY <1>3, <1>4 DEF DogInv

-----------------------------------------------------------------------------
\* Pages send heartbeats and go.
LEMMA DogPages ==
  ASSUME DogInv, NEW q \in Page, Beats(q) \/ Leaves(q)
  PROVE  DogInv'
  <1>1. /\ UNCHANGED <<noted, age, seen, empty, quiet, dog, main, upload, ended>>
    BY DEF Beats, Leaves, Clients, PartsClosing
  <1>2. WatchdogAssumption
    BY WatchdogAssumption
  <1>3. PICK at \in {"open", "left"}, since \in 0..Beat :
          /\ page[q].at # "left"
          /\ \A p \in Page : page'[p] = IF p = q THEN [at |-> at, since |-> since] ELSE page[p]
          /\ at = "open" => mail' = mail \cup {BeatOf(q)}
          /\ at = "left" => mail' \subseteq mail \cup {CloseOf(q)} /\ mail \subseteq mail'
          /\ page' \in [Page -> [at : {"new", "open", "left"}, since : 0..Beat]]
    <2>1. CASE Beats(q)
      <3>1. 0 \in 0..Beat
        BY <1>2 DEF WatchdogAssumption
      <3>2. /\ page[q].at # "left" /\ page' = [page EXCEPT ![q] = [at |-> "open", since |-> 0]]
            /\ mail' = mail \cup {BeatOf(q)}
        BY <2>1 DEF Beats, Post, BeatOf
      <3>3. QED
        BY <3>1, <3>2 DEF DogInv, WatchdogTypeOK
    <2>2. CASE Leaves(q)
      <3>1. /\ page[q].at # "left" /\ page' = [page EXCEPT ![q].at = "left"]
            /\ mail' \subseteq mail \cup {CloseOf(q)} /\ mail \subseteq mail'
        BY <2>2 DEF Leaves, Post, CloseOf
      <3>2. page[q] \in [at : {"new", "open", "left"}, since : 0..Beat]
        BY DEF DogInv, WatchdogTypeOK
      <3>3. [page[q] EXCEPT !.at = "left"] = [at |-> "left", since |-> page[q].since]
        BY <3>2
      <3>4. page[q].since \in 0..Beat /\ page' = [page EXCEPT ![q] = [at |-> "left", since |-> page[q].since]]
        BY <3>1, <3>2, <3>3
      <3>5. /\ \A p \in Page : page'[p] = IF p = q THEN [at |-> "left", since |-> page[q].since]
                                        ELSE page[p]
            /\ page' \in [Page -> [at : {"new", "open", "left"}, since : 0..Beat]]
        BY <3>4 DEF DogInv, WatchdogTypeOK
      <3>6. QED
        BY <3>1, <3>4, <3>5
    <2>3. QED
      BY <2>1, <2>2
  <1>4. BeatOf(q) \in Message /\ CloseOf(q) \in Message /\ \A p \in Page : BeatOf(q) # CloseOf(p)
    BY DEF BeatOf, CloseOf, Message
  <1>5. WatchdogTypeOK'
    <2>1. mail' \subseteq Message
      BY <1>3, <1>4 DEF DogInv, WatchdogTypeOK
    <2>2. QED
      BY <1>1, <1>3, <2>1 DEF DogInv, WatchdogTypeOK
  <1>6. ClosesAreLast'
    <2>1. SUFFICES ASSUME NEW p \in Page, CloseOf(p) \in mail' PROVE page'[p].at = "left"
      BY DEF ClosesAreLast
    <2>2. CASE at = "open"
      <3>1. CloseOf(p) \in mail
        BY <2>1, <2>2, <1>3, <1>4
      <3>2. QED
        BY <3>1, <1>3 DEF DogInv, ClosesAreLast
    <2>3. CASE at = "left"
      <3>1. CloseOf(p) \in mail \/ p = q
        BY <2>1, <2>3, <1>3 DEF CloseOf
      <3>2. QED
        BY <3>1, <2>3, <1>3 DEF DogInv, ClosesAreLast
    <2>4. QED
      BY <2>2, <2>3
  <1>7. OpenPagesNoted'
    <2>1. SUFFICES ASSUME main.at = "page", NEW p \in Page, page'[p].at = "open"
                   PROVE  OpenIsNoted(p)'
      BY <1>1 DEF OpenPagesNoted
    <2>2. CASE p = q
      BY <2>1, <2>2, <1>3 DEF OpenIsNoted
    <2>3. CASE p # q
      BY <2>1, <2>3, <1>1, <1>3 DEF DogInv, OpenPagesNoted, OpenIsNoted
    <2>4. QED
      BY <2>2, <2>3
  <1>8. QED
    BY <1>1, <1>5, <1>6, <1>7 DEF DogInv, EmptyIsQuiet, UploadsFirst

\* Time passes once every message has arrived.
LEMMA DogTick ==
  ASSUME DogInv, Tick
  PROVE  DogInv'
  <1>1. /\ UNCHANGED <<mail, noted, seen, dog, main, upload, ended>> /\ mail = {}
        /\ \A q \in Page : page[q].at = "open" => page[q].since < Beat
    BY DEF Tick, PartsClosing
  <1>2. Beat \in Nat \ {0} /\ Stale \in Nat /\ Grace \in Nat \ {0} /\ Beat <= Stale
    BY WatchdogAssumption
  <1>3. ASSUME NEW q \in Page
        PROVE  /\ page'[q] \in [at : {"new", "open", "left"}, since : 0..Beat]
               /\ page'[q].at = page[q].at
               /\ page[q].at = "open" => page'[q].since = page[q].since + 1
    <2>1. /\ page[q] \in [at : {"new", "open", "left"}, since : 0..Beat]
          /\ page'[q] = IF page[q].at = "open" THEN [page[q] EXCEPT !.since = @ + 1] ELSE page[q]
      BY DEF Tick, DogInv, WatchdogTypeOK
    <2>2. page[q].at = "open" => page[q].since + 1 \in 0..Beat
      BY <2>1, <1>1, <1>2
    <2>3. QED
      BY <2>1, <2>2
  <1>4. ASSUME NEW q \in Page
        PROVE  /\ age'[q] \in 0..Stale + 1
               /\ q \in noted => age'[q] <= age[q] + 1
    <2>1. age[q] \in 0..Stale + 1
      BY DEF DogInv, WatchdogTypeOK
    <2>2. age'[q] = IF q \in noted THEN Limit(age[q], Stale + 1) ELSE 0
      BY DEF Tick
    <2>3. QED
      BY <2>1, <2>2, <1>2 DEF Limit
  <1>5. empty' \in [set : BOOLEAN, ticks : 0..Grace] /\ quiet' \in 0..Grace /\ EmptyIsQuiet'
    <2>1. /\ empty \in [set : BOOLEAN, ticks : 0..Grace] /\ quiet \in 0..Grace
          /\ empty.set => noted = {} /\ empty.ticks <= quiet
      BY DEF DogInv, WatchdogTypeOK, EmptyIsQuiet
    <2>2. CASE empty.set
      <3>1. /\ empty' = [empty EXCEPT !.ticks = Limit(empty.ticks, Grace)]
            /\ quiet' = Limit(quiet, Grace) /\ noted = {}
        BY <2>1, <2>2 DEF Tick
      <3>2. /\ Limit(empty.ticks, Grace) \in 0..Grace /\ Limit(quiet, Grace) \in 0..Grace
            /\ Limit(empty.ticks, Grace) <= Limit(quiet, Grace)
        BY <2>1, <2>2, <1>2 DEF Limit
      <3>3. QED
        BY <2>1, <3>1, <3>2, <1>1 DEF EmptyIsQuiet
    <2>3. CASE ~empty.set
      <3>1. /\ empty' = empty
            /\ quiet' = IF noted = {} THEN Limit(quiet, Grace) ELSE 0
        BY <2>3 DEF Tick
      <3>2. Limit(quiet, Grace) \in 0..Grace /\ 0 \in 0..Grace
        BY <2>1, <1>2 DEF Limit
      <3>3. QED
        BY <2>1, <2>3, <3>1, <3>2 DEF EmptyIsQuiet
    <2>4. QED
      BY <2>2, <2>3
  <1>6. page' \in [Page -> [at : {"new", "open", "left"}, since : 0..Beat]]
    <2>1. page' = [q \in Page |-> page'[q]]
      BY DEF Tick
    <2>2. QED
      BY <2>1, <1>3
  <1>7. age' \in [Page -> 0..Stale + 1]
    <2>1. age' = [q \in Page |-> age'[q]]
      BY DEF Tick
    <2>2. QED
      BY <2>1, <1>4
  <1>8. WatchdogTypeOK'
    BY <1>1, <1>5, <1>6, <1>7 DEF DogInv, WatchdogTypeOK
  <1>9. OpenPagesNoted'
    <2>1. SUFFICES ASSUME main.at = "page", NEW q \in Page, page[q].at = "open"
                   PROVE  OpenIsNoted(q)'
      BY <1>1, <1>3 DEF OpenPagesNoted
    <2>2. q \in noted /\ age[q] <= page[q].since
      BY <2>1, <1>1 DEF DogInv, OpenPagesNoted, OpenIsNoted
    <2>3. age[q] \in 0..Stale + 1 /\ page[q].since \in 0..Beat
      BY DEF DogInv, WatchdogTypeOK
    <2>4. age'[q] <= page'[q].since
      BY <2>1, <2>2, <2>3, <1>2, <1>3, <1>4
    <2>5. QED
      BY <2>2, <2>4, <1>1 DEF OpenIsNoted
  <1>10. ClosesAreLast' /\ UploadsFirst'
    BY <1>1, <1>3 DEF DogInv, ClosesAreLast, UploadsFirst
  <1>11. QED
    BY <1>5, <1>8, <1>9, <1>10 DEF DogInv

\* A message arrives: a heartbeat notes its page, a last message forgets it.
LEMMA DogDelivers ==
  ASSUME DogInv, NEW m \in mail, Deliver(m)
  PROVE  DogInv'
  <1>1. UNCHANGED <<page, dog, main, upload, ended>> /\ mail' = mail \ {m}
    BY DEF Deliver, PartsClosing
  <1>2. Stale \in Nat /\ Grace \in Nat \ {0}
    BY WatchdogAssumption
  <1>3. /\ m \in Message /\ m.from \in Page /\ m.what \in {"beat", "close"}
        /\ m.what = "beat" => m = BeatOf(m.from)
        /\ m.what = "close" => m = CloseOf(m.from)
    BY DEF DogInv, WatchdogTypeOK, Message, BeatOf, CloseOf
  <1>4. \A q \in Page : BeatOf(q) # CloseOf(m.from) /\ (BeatOf(q) = BeatOf(m.from) => q = m.from)
    BY DEF BeatOf, CloseOf
  <1>5. /\ empty \in [set : BOOLEAN, ticks : 0..Grace] /\ quiet \in 0..Grace
        /\ age \in [Page -> 0..Stale + 1]
        /\ empty.set => noted = {} /\ empty.ticks <= quiet
    BY DEF DogInv, WatchdogTypeOK, EmptyIsQuiet
  <1>6. 0 \in 0..Stale + 1 /\ 0 \in 0..Grace
    BY <1>2
  <1>7. ClosesAreLast' /\ UploadsFirst' /\ mail' \subseteq Message
    BY <1>1 DEF DogInv, ClosesAreLast, UploadsFirst, WatchdogTypeOK
  <1>8. CASE ~Listening
    <2>1. UNCHANGED <<noted, age, seen, empty, quiet>> /\ main.at # "page"
      BY <1>8 DEF Deliver, Clients, Listening
    <2>2. QED
      BY <2>1, <1>1, <1>7 DEF DogInv, WatchdogTypeOK, OpenPagesNoted, EmptyIsQuiet
  <1>9. CASE Listening /\ m.what = "beat"
    <2>1. /\ noted' = noted \cup {m.from} /\ age' = [age EXCEPT ![m.from] = 0]
          /\ seen' = TRUE /\ quiet' = 0 /\ empty' = Never
      BY <1>9 DEF Deliver, Note
    <2>2. empty' \in [set : BOOLEAN, ticks : 0..Grace] /\ EmptyIsQuiet'
      BY <2>1, <1>6 DEF Never, EmptyIsQuiet
    <2>3. WatchdogTypeOK'
      BY <2>1, <2>2, <1>1, <1>3, <1>5, <1>6, <1>7 DEF DogInv, WatchdogTypeOK
    <2>4. OpenPagesNoted'
      <3>1. SUFFICES ASSUME main.at = "page", NEW q \in Page, page[q].at = "open"
                     PROVE  OpenIsNoted(q)'
        BY <1>1 DEF OpenPagesNoted
      <3>2. page[q].since >= 0
        BY WatchdogAssumption DEF DogInv, WatchdogTypeOK
      <3>3. CASE q = m.from
        <4>1. age'[q] = 0 /\ q \in noted'
          BY <3>3, <2>1, <1>5
        <4>2. QED
          BY <4>1, <3>2, <1>1 DEF OpenIsNoted
      <3>4. CASE q # m.from
        <4>1. BeatOf(q) # m
          BY <3>4, <1>3, <1>4, <1>9
        <4>2. age'[q] = age[q] /\ (q \in noted => q \in noted')
          BY <3>4, <2>1, <1>5
        <4>3. OpenIsNoted(q)
          BY <3>1 DEF DogInv, OpenPagesNoted
        <4>4. QED
          BY <4>1, <4>2, <4>3, <1>1 DEF OpenIsNoted
      <3>5. QED
        BY <3>3, <3>4
    <2>5. QED
      BY <2>2, <2>3, <2>4, <1>7 DEF DogInv
  <1>10. CASE Listening /\ m.what = "close"
    <2>1. /\ noted' = noted \ {m.from} /\ age' = [age EXCEPT ![m.from] = 0]
          /\ empty' = IF seen /\ noted' = {} /\ ~empty.set THEN Now ELSE empty
          /\ UNCHANGED <<seen, quiet>>
      BY <1>10, <1>3 DEF Deliver, ForgetPage
    <2>2. empty' \in [set : BOOLEAN, ticks : 0..Grace] /\ EmptyIsQuiet'
      BY <2>1, <1>5, <1>6 DEF Now, EmptyIsQuiet
    <2>3. WatchdogTypeOK'
      BY <2>1, <2>2, <1>1, <1>3, <1>5, <1>6, <1>7 DEF DogInv, WatchdogTypeOK
    <2>4. OpenPagesNoted'
      <3>1. SUFFICES ASSUME main.at = "page", NEW q \in Page, page[q].at = "open"
                     PROVE  OpenIsNoted(q)'
        BY <1>1 DEF OpenPagesNoted
      <3>2. q # m.from
        BY <3>1, <1>3, <1>10 DEF DogInv, ClosesAreLast
      <3>3. BeatOf(q) # m
        BY <1>3, <1>4, <1>10
      <3>4. age'[q] = age[q] /\ (q \in noted => q \in noted')
        BY <3>2, <2>1, <1>5
      <3>5. OpenIsNoted(q)
        BY <3>1 DEF DogInv, OpenPagesNoted
      <3>6. QED
        BY <3>3, <3>4, <3>5, <1>1 DEF OpenIsNoted
    <2>5. QED
      BY <2>2, <2>3, <2>4, <1>7 DEF DogInv
  <1>11. QED
    BY <1>3, <1>8, <1>9, <1>10

\* The watchdog looks at the pages.
LEMMA DogChecks ==
  ASSUME DogInv, CheckPages
  PROVE  /\ DogInv'
         /\ dog' = 1 => /\ quiet >= Grace
                        /\ \A q \in Page : page[q].at = "open" => BeatOf(q) \in mail
  <1> DEFINE stay == {q \in noted : age[q] <= Stale}
  <1>1. /\ dog = 0 /\ main.at = "page" /\ noted' = stay
        /\ empty' = IF ~seen \/ stay # {} THEN Never
                    ELSE IF empty.set THEN empty ELSE StartsCounting
        /\ dog' = IF seen /\ stay = {} /\ empty.set /\ empty.ticks >= Grace THEN 1 ELSE 0
        /\ UNCHANGED <<page, mail, age, seen, quiet, main, upload, ended>>
    BY DEF CheckPages
  <1>2. Beat \in Nat \ {0} /\ Stale \in Nat /\ Grace \in Nat \ {0} /\ Beat <= Stale
    BY WatchdogAssumption
  <1>3. /\ empty \in [set : BOOLEAN, ticks : 0..Grace] /\ quiet \in 0..Grace
        /\ empty.set => noted = {} /\ empty.ticks <= quiet
    BY DEF DogInv, WatchdogTypeOK, EmptyIsQuiet
  <1>4. ASSUME NEW q \in Page, page[q].at = "open", BeatOf(q) \notin mail
        PROVE  q \in stay /\ age[q] <= page[q].since
    <2>1. q \in noted /\ age[q] <= page[q].since
      BY <1>1, <1>4 DEF DogInv, OpenPagesNoted, OpenIsNoted
    <2>2. page[q].since \in 0..Beat /\ age[q] \in 0..Stale + 1
      BY DEF DogInv, WatchdogTypeOK
    <2>3. QED
      BY <2>1, <2>2, <1>2
  <1>5. empty' \in [set : BOOLEAN, ticks : 0..Grace] /\ EmptyIsQuiet'
    <2>1. 0 \in 0..Grace /\ 0 <= quiet
      BY <1>2, <1>3
    <2>2. CASE ~seen \/ stay # {}
      <3>1. empty' = Never
        BY <2>2, <1>1
      <3>2. QED
        BY <3>1, <2>1 DEF Never, EmptyIsQuiet
    <2>3. CASE seen /\ stay = {}
      <3>1. noted' = {} /\ quiet' = quiet /\ empty' = IF empty.set THEN empty ELSE Now
        BY <2>3, <1>1 DEF StartsCounting
      <3>2. QED
        BY <3>1, <2>1, <1>3 DEF Now, EmptyIsQuiet
    <2>4. QED
      BY <2>2, <2>3, <1>1 DEF DogInv, WatchdogTypeOK
  <1>6. WatchdogTypeOK'
    <2>1. dog' \in 0..Len(DogOrder) + 1
      BY <1>1, DogOrders
    <2>2. stay \subseteq Page
      BY DEF DogInv, WatchdogTypeOK
    <2> HIDE DEF stay
    <2>3. QED
      BY <2>1, <2>2, <1>1, <1>5 DEF DogInv, WatchdogTypeOK
  <1>7. OpenPagesNoted'
    BY <1>1, <1>4 DEF OpenPagesNoted, OpenIsNoted
  <1>8. ClosesAreLast' /\ UploadsFirst'
    BY <1>1 DEF DogInv, ClosesAreLast, UploadsFirst
  <1>9. ASSUME dog' = 1
        PROVE  quiet >= Grace /\ \A q \in Page : page[q].at = "open" => BeatOf(q) \in mail
    <2>1. stay = {} /\ empty.set /\ empty.ticks >= Grace
      BY <1>1, <1>9
    <2>2. quiet >= Grace
      BY <2>1, <1>2, <1>3
    <2>3. QED
      BY <2>1, <2>2, <1>4
  <1>10. QED
    BY <1>5, <1>6, <1>7, <1>8, <1>9 DEF DogInv

\* A part is closed, by the watchdog or by RunWithOptions.
LEMMA DogEndsPart ==
  ASSUME DogInv, NEW part \in Part, EndPart(part)
  PROVE  /\ ended' \subseteq Part /\ upload' \in {"none", "running", "finished", "cut"}
         /\ ended' = ended \cup {part}
         /\ "sync" \in ended' => upload' # "running"
  BY DEF EndPart, DogInv, WatchdogTypeOK, UploadsFirst

LEMMA DogEnds ==
  ASSUME DogInv, DogCloses \/ WindowCloses \/ ServeFails \/ MainSteps
  PROVE  DogInv'
  <1>1. UNCHANGED <<page, mail, noted, age, seen, empty, quiet>>
    BY DEF DogCloses, WindowCloses, ServeFails, MainSteps, Cancelled, CloseShells, HttpShutdown,
           Deferred, Returns, Main, Clients
  <1>2. /\ main \in [at : {"page", "window", "shells", "shutdown", "defer", "exited"}, part : 1..6]
        /\ dog \in 0..6
    BY DogOrders DEF DogInv, WatchdogTypeOK
  <1>3. SUFFICES ASSUME /\ main' \in [at : {"page", "window", "shells", "shutdown", "defer",
                                           "exited"}, part : 1..6]
                        /\ main'.at = "page" => main.at = "page"
                        /\ dog' \in 0..6
                        /\ ended' \subseteq Part
                        /\ upload' \in {"none", "running", "finished", "cut"}
                        /\ UploadsFirst'
                 PROVE  DogInv'
    <2>1. /\ main' \in [at : {"page", "window", "shells", "shutdown", "defer", "exited"}, part : 1..6]
          /\ main'.at = "page" => main.at = "page"
          /\ dog' \in 0..6 /\ ended' \subseteq Part
          /\ upload' \in {"none", "running", "finished", "cut"}
          /\ UploadsFirst'
      <3>1. CASE DogCloses
        <4>1. /\ dog \in 1..5 /\ EndPart(DogOrder[dog]) /\ dog' = dog + 1 /\ main' = main
          BY <3>1, DogOrders DEF DogCloses
        <4>2. DogOrder[dog] \in Part \ {"cache"}
          BY <4>1, DogOrders
        <4>3. /\ ended' \subseteq Part /\ upload' \in {"none", "running", "finished", "cut"}
              /\ ended' = ended \cup {DogOrder[dog]}
              /\ "sync" \in ended' => upload' # "running"
          BY <4>1, <4>2, DogEndsPart
        <4>4. UploadsFirst'
          BY <4>1, <4>2, <4>3 DEF DogInv, UploadsFirst
        <4>5. QED
          BY <4>1, <4>3, <4>4, <1>2
      <3>2. CASE WindowCloses \/ Cancelled \/ ServeFails \/ HttpShutdown \/ Returns
        <4>1. PICK at \in {"shells", "defer", "exited"} :
                main' = [main EXCEPT !.at = at] /\ UNCHANGED <<dog, upload, ended>>
          BY <3>2 DEF WindowCloses, Cancelled, ServeFails, HttpShutdown, Returns, Main
        <4>2. main'.part = main.part /\ main'.at = at
          BY <4>1, <1>2
        <4>3. UploadsFirst'
          BY <4>1, <4>2 DEF DogInv, UploadsFirst
        <4>4. QED
          BY <4>1, <4>2, <4>3, <1>2 DEF DogInv, WatchdogTypeOK
      <3>3. CASE CloseShells
        <4>1. main' = [main EXCEPT !.at = "shutdown"] /\ dog' = dog /\ EndPart("shells")
          BY <3>3 DEF CloseShells, Main
        <4>2. /\ ended' \subseteq Part /\ upload' \in {"none", "running", "finished", "cut"}
              /\ ended' = ended \cup {"shells"}
              /\ "sync" \in ended' => upload' # "running"
          BY <4>1, DogEndsPart DEF Part
        <4>3. main'.part = main.part /\ main'.at = "shutdown"
          BY <4>1, <1>2
        <4>4. UploadsFirst'
          BY <4>2, <4>3 DEF DogInv, UploadsFirst
        <4>5. QED
          BY <4>1, <4>2, <4>3, <4>4, <1>2
      <3>4. CASE Deferred
        <4>1. /\ main.at = "defer" /\ main.part \in 1..5 /\ EndPart(DeferOrder[main.part])
              /\ main' = [main EXCEPT !.part = main.part + 1] /\ dog' = dog
          BY <3>4, <1>2, DogOrders DEF Deferred
        <4>2. main'.part = main.part + 1 /\ main'.at = "defer" /\ main.part + 1 \in 1..6
          BY <4>1, <1>2
        <4>3. DeferOrder[main.part] \in Part
          BY <4>1, DogOrders
        <4>4. /\ ended' \subseteq Part /\ upload' \in {"none", "running", "finished", "cut"}
              /\ ended' = ended \cup {DeferOrder[main.part]}
              /\ "sync" \in ended' => upload' # "running"
          BY <4>1, <4>3, DogEndsPart
        <4>5. main'.part > 3 => "sync" \in ended'
          BY <4>1, <4>2, <4>4, DogOrders DEF DogInv, UploadsFirst
        <4>6. "cache" \in ended' => main'.part > 5
          BY <4>1, <4>2, <4>4, DogOrders DEF DogInv, UploadsFirst
        <4>7. QED
          BY <4>1, <4>2, <4>4, <4>5, <4>6, <1>2 DEF UploadsFirst
      <3>5. QED
        BY <3>1, <3>2, <3>3, <3>4 DEF MainSteps
    <2>2. QED
      BY <2>1, <1>3
  <1>4. WatchdogTypeOK'
    BY <1>1, <1>3, DogOrders DEF DogInv, WatchdogTypeOK
  <1>5. QED
    BY <1>1, <1>3, <1>4 DEF DogInv, ClosesAreLast, OpenPagesNoted, OpenIsNoted, EmptyIsQuiet

\* A changed file is uploaded.
LEMMA DogUploads ==
  ASSUME DogInv, Uploads \/ UploadEnds
  PROVE  DogInv'
  <1>1. /\ UNCHANGED <<page, mail, noted, age, seen, empty, quiet, dog, main, ended>>
        /\ \/ upload' = "running" /\ "sync" \notin ended
           \/ upload' = "finished"
    BY DEF Uploads, UploadEnds, Clients
  <1>2. QED
    BY <1>1 DEF DogInv, WatchdogTypeOK, ClosesAreLast, OpenPagesNoted, OpenIsNoted, EmptyIsQuiet,
                UploadsFirst

\* Every step keeps DogInv, and the watchdog gives up in no step but its own.
LEMMA DogStep ==
  ASSUME DogInv, [WatchdogNext]_watchdogVars
  PROVE  /\ DogInv'
         /\ dog = 0 /\ dog' = 1 =>
              /\ quiet >= Grace
              /\ \A q \in Page : page[q].at = "open" => BeatOf(q) \in mail
  <1>1. CASE UNCHANGED watchdogVars
    BY <1>1 DEF watchdogVars, DogInv, WatchdogTypeOK, ClosesAreLast, OpenPagesNoted, OpenIsNoted,
                EmptyIsQuiet, UploadsFirst
  <1>2. CASE \E q \in Page : Beats(q) \/ Leaves(q)
    BY <1>2, DogPages DEF Beats, Leaves, PartsClosing
  <1>3. CASE \E m \in mail : Deliver(m)
    BY <1>3, DogDelivers DEF Deliver, PartsClosing
  <1>4. CASE Tick
    BY <1>4, DogTick DEF Tick, PartsClosing
  <1>5. CASE CheckPages
    BY <1>5, DogChecks
  <1>6. CASE DogCloses \/ WindowCloses \/ ServeFails \/ MainSteps
    <2>1. dog = 0 => dog' = 0
      BY <1>6 DEF DogCloses, WindowCloses, ServeFails, MainSteps, Cancelled, CloseShells,
                  HttpShutdown, Deferred, Returns, Main
    <2>2. QED
      BY <2>1, <1>6, DogEnds
  <1>7. CASE Uploads \/ UploadEnds
    BY <1>7, DogUploads DEF Uploads, UploadEnds
  <1>8. QED
    BY <1>1, <1>2, <1>3, <1>4, <1>5, <1>6, <1>7 DEF WatchdogNext

LEMMA DogAlways == WatchdogSpec => []DogInv
  BY DogFirst, DogStep, PTL DEF WatchdogSpec

\* The order of closing (internal/gui/gui.go:2643, gui.go:417): whichever way the
\* launcher ends, the directory of opened files is cleaned only after the
\* uploads that read from it, for any number of pages and any times.
THEOREM CacheAlwaysLast == WatchdogSpec => []CacheLast
  <1>1. DogInv => CacheLast
    <2>1. SUFFICES ASSUME DogInv PROVE CacheLast
      OBVIOUS
    <2>2. "cache" \in ended => "sync" \in ended
      BY <2>1 DEF DogInv, UploadsFirst, WatchdogTypeOK
    <2>3. QED
      BY <2>1, <2>2 DEF DogInv, UploadsFirst, CacheLast, CacheAfterUploads
  <1>2. QED
    BY <1>1, DogAlways, PTL

\* The watchdog's patience (internal/gui/gui.go:2643): it gives up only after the
\* whole grace time without a page, and never while a page is open whose last
\* heartbeat has arrived.
THEOREM WatchdogAlwaysPatient == WatchdogSpec => WatchdogPatient
  <1>1. DogInv /\ [WatchdogNext]_watchdogVars =>
          [dog = 0 /\ dog' = 1 =>
             /\ quiet >= Grace
             /\ \A q \in Page : page[q].at = "open" => [what |-> "beat", from |-> q] \in mail
          ]_watchdogVars
    BY DogStep DEF BeatOf
  <1>2. QED
    BY <1>1, DogAlways, PTL DEF WatchdogSpec, WatchdogPatient

-----------------------------------------------------------------------------
(* Parts of sequences.                                                      *)

\* Positions are counted one by one.
LEMMA RankCounts ==
  ASSUME NEW m \in Nat, NEW K \in SUBSET (1..m)
  PROVE  /\ IsFiniteSet(K) /\ Cardinality(K) \in Nat
         /\ \A k \in K : Rank(K, k) \in 1..Cardinality(K)
         /\ \A j, k \in K : j < k => Rank(K, j) < Rank(K, k)
  <1>1. IsFiniteSet(K) /\ Cardinality(K) \in Nat
    <2>1. IsFiniteSet(1..m)
      BY FS_Interval
    <2>2. IsFiniteSet(K)
      BY <2>1, FS_Subset
    <2>3. QED
      BY <2>2, FS_CardinalityType
  <1> DEFINE upTo(k) == {j \in K : j <= k}
  <1>2. \A k \in K : /\ upTo(k) \in SUBSET K /\ k \in upTo(k)
                     /\ IsFiniteSet(upTo(k)) /\ Cardinality(upTo(k)) \in Nat
                     /\ Cardinality(upTo(k)) <= Cardinality(K)
                     /\ Cardinality(upTo(k)) # 0
    <2>1. TAKE k \in K
    <2>2. upTo(k) \in SUBSET K /\ k \in upTo(k)
      OBVIOUS
    <2> HIDE DEF upTo
    <2>3. QED
      BY <2>2, <1>1, FS_Subset, FS_CardinalityType, FS_EmptySet
  <1>3. \A k \in K : Rank(K, k) = Cardinality(upTo(k))
    BY DEF Rank
  <1>4. ASSUME NEW j \in K, NEW k \in K, j < k
        PROVE  Cardinality(upTo(j)) < Cardinality(upTo(k))
    <2>1. upTo(j) \in SUBSET upTo(k) /\ k \in upTo(k) /\ k \notin upTo(j)
      <3>1. j \in Int /\ k \in Int /\ \A i \in K : i \in Int
        OBVIOUS
      <3>2. \A i \in K : i <= j => i <= k
        BY <3>1, <1>4
      <3>3. ~(k <= j) /\ k <= k
        BY <3>1, <1>4
      <3>4. QED
        BY <3>2, <3>3
    <2> HIDE DEF upTo
    <2>2. /\ Cardinality(upTo(j)) <= Cardinality(upTo(k))
          /\ Cardinality(upTo(k)) = Cardinality(upTo(j)) => upTo(k) = upTo(j)
      BY <2>1, <1>2, FS_Subset
    <2>3. QED
      BY <2>1, <2>2, <1>2
  <1> HIDE DEF upTo
  <1>5. QED
    BY <1>1, <1>2, <1>3, <1>4

\* Every number up to that of the positions is the rank of one of them.
LEMMA RankReaches ==
  ASSUME NEW m \in Nat, NEW K \in SUBSET (1..m), NEW n \in 1..Cardinality(K)
  PROVE  \E k \in K : Rank(K, k) = n
  <1> DEFINE f == [k \in K |-> Rank(K, k)]
             N == 1..Cardinality(K)
  <1>1. /\ IsFiniteSet(K) /\ Cardinality(K) \in Nat
        /\ \A k \in K : Rank(K, k) \in N
        /\ \A j, k \in K : j < k => Rank(K, j) < Rank(K, k)
    BY RankCounts
  <1>2. IsFiniteSet(N) /\ Cardinality(N) = Cardinality(K)
    BY <1>1, FS_Interval
  <1>3. f \in Injection(K, N)
    <2>1. f \in [K -> N]
      BY <1>1
    <2>2. ASSUME NEW j \in K, NEW k \in K, f[j] = f[k] PROVE j = k
      <3>1. Rank(K, j) = Rank(K, k) /\ Rank(K, j) \in Int /\ j \in Int /\ k \in Int
        BY <2>2, <1>1
      <3>2. QED
        BY <3>1, <1>1
    <2>3. QED
      BY <2>1, <2>2 DEF Injection, IsInjective
  <1>4. f \in Surjection(K, N)
    <2> HIDE DEF f, N
    <2>1. QED
      BY <1>2, <1>3, FS_Injection
  <1>5. PICK k \in K : f[k] = n
    BY <1>4 DEF Surjection
  <1>6. QED
    BY <1>5

\* What a part of a sequence is made of.
LEMMA PickedProperties ==
  ASSUME NEW S, NEW s \in Seq(S), NEW K \in SUBSET (1..Len(s))
  PROVE  /\ Picked(s, K) \in Seq(S) /\ Cardinality(K) \in Nat /\ Len(Picked(s, K)) = Cardinality(K)
         /\ \A k \in K : Rank(K, k) \in 1..Cardinality(K) /\ Picked(s, K)[Rank(K, k)] = s[k]
         /\ \A n \in 1..Cardinality(K) : \E k \in K : Rank(K, k) = n /\ Picked(s, K)[n] = s[k]
  <1> DEFINE which(n) == CHOOSE k \in K : Rank(K, k) = n
             t == [n \in 1..Cardinality(K) |-> s[which(n)]]
  <1>1. Len(s) \in Nat
    BY LenProperties
  <1>2. /\ Cardinality(K) \in Nat
        /\ \A k \in K : Rank(K, k) \in 1..Cardinality(K)
        /\ \A j, k \in K : j < k => Rank(K, j) < Rank(K, k)
    BY <1>1, RankCounts
  <1>3. \A n \in 1..Cardinality(K) : which(n) \in K /\ Rank(K, which(n)) = n
    BY <1>1, RankReaches
  <1>4. \A k \in K : which(Rank(K, k)) = k
    <2>1. TAKE k \in K
    <2> DEFINE j == which(Rank(K, k))
    <2>2. j \in K /\ Rank(K, j) = Rank(K, k)
      BY <1>2, <1>3
    <2> HIDE DEF j
    <2>3. j \in Int /\ k \in Int
      BY <1>1, <2>1, <2>2
    <2>4. j = k
      BY <2>2, <2>3, <1>2
    <2>5. QED
      BY <2>4 DEF j
  <1> HIDE DEF which
  <1>5. \A n \in 1..Cardinality(K) : s[which(n)] \in S
    BY <1>3, ElementOfSeq
  <1>6. Picked(s, K) = t
    BY DEF Picked, which
  <1>7. t \in Seq(S) /\ Len(t) = Cardinality(K)
    BY <1>2, <1>5
  <1>8. QED
    BY <1>2, <1>3, <1>4, <1>6, <1>7

-----------------------------------------------------------------------------
(* Known hosts.                                                             *)

DialStates == {"new", "handshake", "append", "replace", "trusted", "refused"}
DialRecord == [at : DialStates, policy : Policy, host : Host, key : Key, read : Seq(Line)]

\* A line is replaced for the user only, in the file that was read.
ReplaceAsked == \A d \in Dialer :
  /\ dial[d].policy = "replaceChanged" => d \in Replacer
  /\ dial[d].at = "replace" => dial[d].policy = "replaceChanged"

\* The lines that were read are still where they were, or another connection has
\* replaced a key.
ReadStillThere == \A d \in Dialer : dial[d].at \in {"handshake", "replace"} =>
  StillInPlace(dial[d].read) \/ \E e \in Dialer \ {d} : HasReplaced(e)

HostsShape == lines \in Seq(Line) /\ dial \in [Dialer -> DialRecord]
HostsInv == HostsShape /\ ReplaceAsked

\* HostsInv holds at first.
LEMMA HostsFirst == HostsInit => HostsInv /\ ReadStillThere
  <1>1. SUFFICES ASSUME HostsInit PROVE HostsInv /\ ReadStillThere
    OBVIOUS
  <1> DEFINE h == CHOOSE x \in Host : TRUE
             k == CHOOSE x \in Key : TRUE
  <1>2. PICK n \in 0..MaxHostLines : lines \in [1..n -> Line]
    BY <1>1 DEF HostsInit
  <1>3. lines \in Seq(Line)
    BY <1>2, HostsAssumption
  <1>4. h \in Host /\ k \in Key
    <2>1. PICK t \in KeyType : TRUE
      BY HostsAssumption
    <2>2. [type |-> t, value |-> "old"] \in Key
      BY DEF Key
    <2>3. QED
      BY <2>2, HostsAssumption
  <1>5. dial \in [Dialer -> [at : {"new"}, policy : {"strict"}, host : {h}, key : {k}, read : {<<>>}]]
    BY <1>1 DEF HostsInit
  <1> HIDE DEF h, k
  <1>6. \A d \in Dialer : /\ dial[d] \in DialRecord /\ dial[d].at = "new"
                          /\ dial[d].policy = "strict"
    <2>1. TAKE d \in Dialer
    <2>2. dial[d] \in [at : {"new"}, policy : {"strict"}, host : {h}, key : {k}, read : {<<>>}]
      BY <1>5
    <2>3. <<>> \in Seq(Line)
      OBVIOUS
    <2>4. QED
      BY <2>2, <2>3, <1>4 DEF DialRecord, DialStates, Policy
  <1>7. dial \in [Dialer -> DialRecord]
    BY <1>5, <1>6
  <1>8. QED
    BY <1>3, <1>6, <1>7, HostsAssumption DEF HostsInv, HostsShape, ReplaceAsked, ReadStillThere

\* The file that a replacement leaves.
LEMMA KeptLinesProperties ==
  ASSUME HostsInv, NEW d \in Dialer
  PROVE  /\ KeptLines(d) \in Seq(Line)
         /\ \A n \in 1..Len(lines) : n \notin StaleLines(d) =>
              \E m \in 1..Len(KeptLines(d)) : KeptLines(d)[m] = lines[n]
  <1> DEFINE K == DOMAIN lines \ StaleLines(d)
  <1>1. lines \in Seq(Line) /\ DOMAIN lines = 1..Len(lines) /\ K \in SUBSET (1..Len(lines))
    BY LenProperties DEF HostsInv, HostsShape
  <1>2. \A n \in 1..Len(lines) : n \notin StaleLines(d) => n \in K
    BY <1>1
  <1>3. KeptLines(d) = Picked(lines, K)
    BY DEF KeptLines
  <1> HIDE DEF K
  <1>4. /\ Picked(lines, K) \in Seq(Line) /\ Len(Picked(lines, K)) = Cardinality(K)
        /\ \A k \in K : Rank(K, k) \in 1..Cardinality(K) /\ Picked(lines, K)[Rank(K, k)] = lines[k]
    BY <1>1, PickedProperties
  <1>5. QED
    BY <1>2, <1>3, <1>4

\* A connection goes on; the file grows at its end or stays, unless a line is
\* replaced.
LEMMA HostsMoves ==
  ASSUME HostsInv, NEW d \in Dialer,
         \/ Setup(d) \/ VerifyKnown(d) \/ VerifyChanged(d) \/ VerifyUnknown(d)
         \/ AppendKnownHost(d) \/ ReplaceKnownHost(d) \/ WriteFails(d)
  PROVE  /\ HostsInv'
         /\ \A e \in Dialer \ {d} : dial'[e] = dial[e]
         /\ \/ lines' = lines
               /\ \/ dial'[d].at = "handshake" /\ dial'[d].read = lines
                  \/ dial[d].at = "handshake" /\ dial'[d].at = "replace" /\ dial'[d].read = dial[d].read
                  \/ dial'[d].at \notin {"handshake", "replace"}
            \/ /\ \E l \in Line : lines' = Append(lines, l)
               /\ dial'[d].at \notin {"handshake", "replace"}
            \/ /\ dial[d].at = "replace" /\ dial'[d].at = "trusted"
               /\ dial'[d].policy = "replaceChanged"
               /\ lines' = Append(KeptLines(d), TheLine(d))
         /\ dial[d].at # "trusted"
  <1>0. dial[d].at # "trusted"
    BY DEF Setup, VerifyKnown, VerifyChanged, VerifyUnknown, AppendKnownHost, ReplaceKnownHost,
      WriteFails
  <1>1. /\ lines \in Seq(Line) /\ dial \in [Dialer -> DialRecord] /\ dial[d] \in DialRecord
        /\ <<>> \in Seq(Line)
    BY DEF HostsInv, HostsShape
  <1>2. SUFFICES ASSUME NEW x \in DialRecord, dial' = [dial EXCEPT ![d] = x],
                        lines' \in Seq(Line),
                        x.policy = "replaceChanged" => d \in Replacer,
                        x.at = "replace" => x.policy = "replaceChanged",
                        \/ lines' = lines
                           /\ \/ x.at = "handshake" /\ x.read = lines
                              \/ dial[d].at = "handshake" /\ x.at = "replace" /\ x.read = dial[d].read
                              \/ x.at \notin {"handshake", "replace"}
                        \/ /\ \E l \in Line : lines' = Append(lines, l)
                           /\ x.at \notin {"handshake", "replace"}
                        \/ /\ dial[d].at = "replace" /\ x.at = "trusted"
                           /\ x.policy = "replaceChanged"
                           /\ lines' = Append(KeptLines(d), TheLine(d))
                 PROVE  /\ HostsInv'
                        /\ \A e \in Dialer \ {d} : dial'[e] = dial[e]
                        /\ dial'[d] = x
    <2>1. CASE Setup(d)
      <3>1. PICK policy \in IF d \in Replacer THEN Policy ELSE Policy \ {"replaceChanged"},
                 host \in Host, key \in Key :
              dial' = [dial EXCEPT ![d] = [at |-> "handshake", policy |-> policy, host |-> host,
                                           key |-> key, read |-> lines]]
        BY <2>1 DEF Setup
      <3>2. lines' = lines
        BY <2>1 DEF Setup
      <3>3. [at |-> "handshake", policy |-> policy, host |-> host, key |-> key, read |-> lines]
              \in DialRecord
        BY <1>1 DEF DialRecord, DialStates
      <3>4. QED
        BY <3>1, <3>2, <3>3, <1>0, <1>1, <1>2
    <2>2. ASSUME NEW at \in DialStates \ {"new", "handshake"}, dial' = Decided(d, at),
                 at = "replace" => dial[d].policy = "replaceChanged" /\ dial[d].at = "handshake"
          PROVE  \E x \in DialRecord :
                   /\ dial' = [dial EXCEPT ![d] = x]
                   /\ x.at = at /\ x.policy = dial[d].policy
                   /\ at = "replace" => x.read = dial[d].read
      <3> DEFINE x == [dial[d] EXCEPT !.at = at,
                                      !.read = IF at \in {"append", "replace"} THEN @ ELSE <<>>]
      <3>1. x \in DialRecord /\ x.at = at /\ x.policy = dial[d].policy
        BY <1>1 DEF DialRecord
      <3>2. at = "replace" => x.read = dial[d].read
        BY <1>1 DEF DialRecord
      <3>3. dial' = [dial EXCEPT ![d] = x]
        BY <2>2, <1>1 DEF Decided
      <3> HIDE DEF x
      <3>4. QED
        BY <3>1, <3>2, <3>3
    <2>3. CASE VerifyKnown(d) \/ VerifyChanged(d) \/ VerifyUnknown(d) \/ WriteFails(d)
      <3>1. PICK at \in DialStates \ {"new", "handshake"} :
              /\ dial' = Decided(d, at) /\ lines' = lines
              /\ at = "replace" => dial[d].policy = "replaceChanged" /\ dial[d].at = "handshake"
        BY <2>3 DEF VerifyKnown, VerifyChanged, VerifyUnknown, WriteFails, Goes, DialStates
      <3>2. PICK x \in DialRecord :
              /\ dial' = [dial EXCEPT ![d] = x]
              /\ x.at = at /\ x.policy = dial[d].policy
              /\ at = "replace" => x.read = dial[d].read
        BY <3>1, <2>2
      <3>3. QED
        BY <3>1, <3>2, <1>0, <1>1, <1>2 DEF HostsInv, ReplaceAsked, DialStates
    <2>4. CASE AppendKnownHost(d) \/ ReplaceKnownHost(d)
      <3>1. /\ dial' = Decided(d, "trusted")
            /\ \/ lines' = Append(lines, TheLine(d))
               \/ dial[d].at = "replace" /\ lines' = Append(KeptLines(d), TheLine(d))
        BY <2>4 DEF AppendKnownHost, ReplaceKnownHost
      <3>2. PICK x \in DialRecord :
              dial' = [dial EXCEPT ![d] = x] /\ x.at = "trusted" /\ x.policy = dial[d].policy
        BY <3>1, <2>2 DEF DialStates
      <3>3. TheLine(d) \in Line
        BY <1>1 DEF TheLine, Line, DialRecord
      <3> DEFINE kept == KeptLines(d)
                 l == TheLine(d)
      <3>4. kept \in Seq(Line) /\ l \in Line
        BY <3>3, KeptLinesProperties
      <3>5. lines' = Append(lines, l) \/ lines' = Append(kept, l)
        BY <3>1
      <3>6. lines' \in Seq(Line)
        <4> HIDE DEF kept, l
        <4>1. CASE lines' = Append(lines, l)
          BY <4>1, <3>4, <1>1, AppendProperties
        <4>2. CASE lines' = Append(kept, l)
          BY <4>2, <3>4, AppendProperties
        <4>3. QED
          BY <3>5, <4>1, <4>2
      <3>7. QED
        BY <3>1, <3>2, <3>3, <3>6, <1>0, <1>2 DEF HostsInv, ReplaceAsked
    <2>5. QED
      BY <2>1, <2>3, <2>4
  <1>3. dial' \in [Dialer -> DialRecord] /\ \A e \in Dialer : dial'[e] = IF e = d THEN x ELSE dial[e]
    BY <1>1, <1>2
  <1>4. QED
    BY <1>0, <1>2, <1>3 DEF HostsInv, HostsShape, ReplaceAsked

\* Every step keeps HostsInv.
LEMMA HostsStep == HostsInv /\ [HostsNext]_hostsVars => HostsInv'
  <1>1. SUFFICES ASSUME HostsInv, [HostsNext]_hostsVars PROVE HostsInv'
    OBVIOUS
  <1>2. CASE UNCHANGED hostsVars
    BY <1>1, <1>2 DEF hostsVars, HostsInv, HostsShape, ReplaceAsked
  <1>3. CASE HostsNext
    BY <1>1, <1>3, HostsMoves DEF HostsNext
  <1>4. QED
    BY <1>1, <1>2, <1>3

\* A reading stays true until another connection has replaced a key.
LEMMA ReadKept ==
  ASSUME HostsInv, ReadStillThere, [HostsNext]_hostsVars
  PROVE  ReadStillThere'
  <1>1. CASE UNCHANGED hostsVars
    BY <1>1 DEF hostsVars, ReadStillThere, StillInPlace, HasReplaced
  <1>2. CASE HostsNext
    <2>1. PICK d \in Dialer :
            \/ Setup(d) \/ VerifyKnown(d) \/ VerifyChanged(d) \/ VerifyUnknown(d)
            \/ AppendKnownHost(d) \/ ReplaceKnownHost(d) \/ WriteFails(d)
      BY <1>2 DEF HostsNext
    <2>2. SUFFICES ASSUME NEW e \in Dialer, dial'[e].at \in {"handshake", "replace"},
                          ~\E f \in Dialer \ {e} : HasReplaced(f)'
                   PROVE  StillInPlace(dial[e].read)'
      BY DEF ReadStillThere
    <2>a. lines \in Seq(Line) /\ Len(lines) \in Nat
      BY LenProperties DEF HostsInv, HostsShape
    <2>b. ~\E f \in Dialer \ {e} : HasReplaced(f)
      <3>1. \A f \in Dialer : HasReplaced(f) => HasReplaced(f)'
        BY <2>1, HostsMoves DEF HasReplaced
      <3> QED
        BY <2>2, <3>1
    <2>3. dial[e].at \in {"handshake", "replace"} => StillInPlace(dial[e].read)
      BY <2>b DEF ReadStillThere
    <2>4. CASE lines' = lines
      <3>1. CASE e = d /\ dial'[d].at = "handshake" /\ dial'[d].read = lines
        BY <2>a, <2>4, <3>1 DEF StillInPlace
      <3>2. CASE e # d \/ (dial[d].at = "handshake" /\ dial'[d].read = dial[d].read)
        <4>1. dial'[e].read = dial[e].read /\ dial[e].at \in {"handshake", "replace"}
          BY <2>1, <2>2, <3>2, HostsMoves
        <4>2. QED
          BY <4>1, <2>3, <2>4 DEF StillInPlace
      <3>3. QED
        BY <2>1, <2>2, <2>4, <3>1, <3>2, HostsMoves
    <2>5. CASE (\E l \in Line : lines' = Append(lines, l)) /\ dial'[d].at \notin {"handshake", "replace"}
      <3>1. e # d
        BY <2>2, <2>5
      <3>2. dial'[e] = dial[e]
        BY <3>1, <2>1, HostsMoves
      <3>3. PICK l \in Line : lines' = Append(lines, l)
        BY <2>5
      <3>4. Len(lines') = Len(lines) + 1 /\ \A n \in 1..Len(lines) : lines'[n] = lines[n]
        BY <3>3, <2>a, AppendProperties
      <3>5. StillInPlace(dial[e].read)
        BY <3>2, <2>2, <2>3
      <3>6. Len(dial[e].read) \in Nat
        BY LenProperties DEF HostsInv, HostsShape, DialRecord
      <3>7. QED
        BY <3>2, <3>4, <3>5, <3>6, <2>a DEF StillInPlace
    <2>6. CASE dial'[d].at = "trusted" /\ dial'[d].policy = "replaceChanged"
      <3>1. HasReplaced(d)'
        BY <2>6 DEF HasReplaced
      <3>2. d = e
        BY <3>1, <2>2
      <3>3. QED
        BY <3>2, <2>2, <2>6
    <2>7. QED
      BY <2>1, <2>4, <2>5, <2>6, HostsMoves
  <1>3. QED
    BY <1>1, <1>2

-----------------------------------------------------------------------------
\* The known_hosts file (internal/sshclient/hostkey.go:45, hostkey.go:142) is
\* made of keys, whatever connections do with it at the same time.
THEOREM HostsTypeCorrect == HostsSpec => []HostsTypeOK
  <1>1. HostsInv => HostsTypeOK
    <2>1. SUFFICES ASSUME HostsInv PROVE HostsTypeOK
      OBVIOUS
    <2>2. \A d \in Dialer : dial[d] \in DialRecord
      BY <2>1 DEF HostsInv, HostsShape
    <2>3. QED
      BY <2>1, <2>2 DEF HostsInv, HostsShape, HostsTypeOK, DialRecord, DialStates
  <1>2. QED
    BY <1>1, HostsFirst, HostsStep, PTL DEF HostsSpec

\* What TrustForgottenOrOvertaken says of a step.
OnPurposeOrOvertaken == \A l \in AllOf(lines) \ AllOf(lines') :
  \E d \in Dialer : Replaces(d) /\ (OwnLine(d, l) \/ Overtaken(d))

\* A line that leaves the file is one that was read, if what was read is still
\* in its place.
LEMMA LineForgotten ==
  ASSUME HostsInv, ReadStillThere, [HostsNext]_hostsVars,
         NEW l \in AllOf(lines) \ AllOf(lines')
  PROVE  \E d \in Dialer : Replaces(d) /\ (OwnLine(d, l) \/ Overtaken(d))
  <1>1. lines' # lines
    OBVIOUS
  <1>2. PICK d \in Dialer :
          \/ Setup(d) \/ VerifyKnown(d) \/ VerifyChanged(d) \/ VerifyUnknown(d)
          \/ AppendKnownHost(d) \/ ReplaceKnownHost(d) \/ WriteFails(d)
    BY <1>1 DEF HostsNext, hostsVars
  <1>3. /\ lines \in Seq(Line) /\ DOMAIN lines = 1..Len(lines) /\ Len(lines) \in Nat
        /\ dial[d] \in DialRecord
    BY LenProperties DEF HostsInv, HostsShape
  <1>4. PICK n \in 1..Len(lines) : l = lines[n]
    BY <1>3 DEF AllOf
  <1>5. ASSUME NEW x \in Line, lines' = Append(lines, x) PROVE FALSE
    <2>1. /\ lines' \in Seq(Line) /\ Len(lines') = Len(lines) + 1
          /\ lines'[n] = lines[n]
      BY <1>3, <1>4, <1>5, AppendProperties
    <2>2. n \in DOMAIN lines'
      BY <2>1, <1>3, <1>4, LenProperties
    <2>3. QED
      BY <1>4, <2>1, <2>2 DEF AllOf
  <1>6. /\ dial[d].at = "replace" /\ dial'[d].at = "trusted"
        /\ lines' = Append(KeptLines(d), TheLine(d))
    BY <1>2, <1>1, <1>5, HostsMoves
  <1>7. n \in StaleLines(d)
    <2>1. SUFFICES ASSUME n \notin StaleLines(d) PROVE FALSE
      OBVIOUS
    <2> DEFINE kept == KeptLines(d)
               x == TheLine(d)
    <2>2. /\ kept \in Seq(Line)
          /\ \E m \in 1..Len(kept) : kept[m] = lines[n]
      BY <1>4, <2>1, KeptLinesProperties
    <2>3. x \in Line /\ lines' = Append(kept, x)
      BY <1>3, <1>6 DEF TheLine, Line, DialRecord
    <2> HIDE DEF kept, x
    <2>4. PICK m \in 1..Len(kept) : kept[m] = lines[n]
      BY <2>2
    <2>5. /\ lines' \in Seq(Line) /\ Len(lines') = Len(kept) + 1 /\ Len(kept) \in Nat
          /\ lines'[m] = kept[m]
      BY <2>2, <2>3, AppendProperties, LenProperties
    <2>6. m \in DOMAIN lines'
      BY <2>5, LenProperties
    <2>7. QED
      BY <1>4, <2>4, <2>5, <2>6 DEF AllOf
  <1>8. CASE ~StillInPlace(dial[d].read)
    <2>1. Overtaken(d)
      BY <1>6, <1>8 DEF ReadStillThere, Overtaken
    <2>2. QED
      BY <1>6, <2>1 DEF Replaces
  <1>9. /\ n \in DOMAIN dial[d].read /\ dial[d].read[n].host = dial[d].host
        /\ dial[d].read[n].key.type = dial[d].key.type
    BY <1>7 DEF StaleLines, Want
  <1>10. DOMAIN dial[d].read = 1..Len(dial[d].read)
    BY <1>3, LenProperties DEF DialRecord
  <1>11. CASE StillInPlace(dial[d].read)
    <2>1. l = dial[d].read[n]
      BY <1>4, <1>11, <1>9, <1>10 DEF StillInPlace
    <2>2. QED
      BY <1>6, <1>9, <2>1 DEF Replaces, OwnLine
  <1>12. QED
    BY <1>8, <1>11

\* What is trusted is forgotten only on purpose, or where two replacements meet
\* (internal/sshclient/hostkey.go:142): a line leaves known_hosts only when a
\* changed key is confirmed, and is one of that key's host and type unless
\* another replacement has overtaken this one since it read the file, whatever
\* number of connections append and replace lines.
THEOREM TrustAlwaysForgottenOrOvertaken == HostsSpec => TrustForgottenOrOvertaken
  <1>1. HostsInv /\ ReadStillThere /\ [HostsNext]_hostsVars => (HostsInv /\ ReadStillThere)'
    BY HostsStep, ReadKept
  <1>2. HostsSpec => [](HostsInv /\ ReadStillThere)
    BY <1>1, HostsFirst, PTL DEF HostsSpec
  <1>3. HostsInv /\ ReadStillThere /\ [HostsNext]_hostsVars => [OnPurposeOrOvertaken]_hostsVars
    BY LineForgotten DEF OnPurposeOrOvertaken
  <1>4. HostsSpec => [][OnPurposeOrOvertaken]_hostsVars
    BY <1>2, <1>3, PTL DEF HostsSpec
  <1>5. QED
    BY <1>4 DEF OnPurposeOrOvertaken, TrustForgottenOrOvertaken

-----------------------------------------------------------------------------
(* Profiles and secrets.                                                    *)

\* Requests that do not overlap: the one there may be is idle before the next.
OneAtATime == \A q, r \in Request : q = r

\* The secrets a profile can have.
Uses(auth) == OwnKey(auth) \cup {"token"}

RequestRecord ==
  [at : {"idle", "calls", "rollback"},
   op : {"none", "save", "clone", "delete", "import", "reorder"},
   profile : Entry \cup {<<>>}, source : SUBSET ProfileId, todo : Seq(StoreCall),
   deep : {"no", "loaded", "cut"}, list : Seq(Entry),
   values : SUBSET (ProfileId \X SecretKey), copied : Seq(SecretKey),
   unread : BOOLEAN, slipped : BOOLEAN]

Mention(do, key) == [do |-> do, key |-> key]

\* The calls that each operation makes.
CallsOf(op) ==
  CASE op = "save"    -> {"set", "clear", "drop", "sync", "load", "write"}
    [] op = "clone"   -> {"find", "look", "paste", "load", "write"}
    [] op = "delete"  -> {"find", "write", "drop"}
    [] op = "import"  -> {"drop", "load", "write"}
    [] op = "reorder" -> {"find", "write"}
    [] OTHER          -> {}

\* What is true of a list of calls, and stays true while they are made: it has
\* secrets of the method only; a secret that was found is copied next; the
\* profiles are read just before they are written, which ends a save and a
\* duplication; a duplication looks for its source first; and a save looks at
\* every secret after it has changed any.
Agenda(op, auth, todo) ==
  /\ \A n \in DOMAIN todo :
       /\ todo[n].do \in CallsOf(op)
       /\ todo[n].do \in {"set", "paste", "sync"} => todo[n].key \in Uses(auth)
       /\ todo[n].do = "look" => n < Len(todo) /\ todo[n + 1].do = "paste"
       /\ todo[n].do = "write" /\ n > 1 => todo[n - 1].do \in {"load", "find"}
  /\ op \in {"save", "clone"} /\ todo # <<>> => todo[Len(todo)].do \in {"write", "find"}
  /\ op = "save" =>
       /\ \A m, n \in DOMAIN todo : m < n /\ todo[m].do = "sync" => todo[n].do \notin Changes
       /\ (\E n \in DOMAIN todo : todo[n].do \in Changes) =>
            \A k \in Uses(auth) : \E n \in DOMAIN todo : todo[n] = Mention("sync", k)
  /\ op = "clone" => \A n \in DOMAIN todo : n > 1 => todo[n].do # "find"

\* What the next call is, and a change that is on its way into the vault file.
Comes(q, calls) == q.todo # <<>> /\ Head(q.todo).do \in calls
InFlight(q) == q.deep # "no" /\ Comes(q, Changes)

\* A handler by itself.
HandlerOK(q) ==
  /\ q.at = "idle" => q = NoRequest
  /\ q.at # "idle" => q.profile \in Entry
  /\ q.at = "calls" => Agenda(q.op, q.profile.auth, q.todo)
  /\ q.at = "rollback" => \A n \in DOMAIN q.todo : q.todo[n].do = "drop"
  /\ q.op # "clone" => q.copied = <<>> /\ (q.at = "rollback" => q.todo = <<>>)
  /\ q.op = "clone" /\ q.at = "calls" =>
       q.profile.has = {q.copied[n] : n \in DOMAIN q.copied}
  /\ q.op = "clone" /\ Comes(q, {"find"}) => q.copied = <<>>
  /\ q.op = "delete" => q.source = {q.profile.id}
  /\ q.deep # "no" => Comes(q, IF q.deep = "cut" THEN Changes \cup {"write"} ELSE Changes)

\* Secrets agree with the flags of settled profiles, belong to ids that were
\* given out, and not to duplications that failed.
Agree(list, kept) == \A n \in DOMAIN list : list[n].id \in settled =>
  \A k \in Uses(list[n].auth) : k \in list[n].has <=> <<list[n].id, k>> \in kept
GivenOut(kept) ==
  /\ \A s \in kept : s[1] \in used
  /\ \A i \in failed, k \in SecretKey : <<i, k>> \notin kept

\* A broken vault holds nothing.
VaultOK == /\ broken => vault /\ secrets = {}
           /\ GivenOut(secrets) /\ (~broken => Agree(file, secrets))

\* A handler and the files.
HandlerFits(q) ==
  /\ q.at # "idle" =>
       /\ q.profile.id \in used \ failed
       /\ q.op # "reorder" => q.profile.id \notin settled
  /\ ~broken => Agree(q.list, secrets)
  /\ InFlight(q) =>
       /\ vault /\ GivenOut(q.values) /\ Agree(file, q.values) /\ Agree(q.list, q.values)
       /\ q.deep = "loaded" => ~broken
  /\ Comes(q, {"write"}) /\ q.deep = "no" =>
       /\ ~torn /\ q.list = file
       /\ q.op = "delete" => Position(q.list, q.profile.id) # {}
  /\ Comes(q, {"write"}) /\ q.deep = "cut" => file = <<>> /\ ~torn

\* How far a save, a duplication and its rollback have come.
Progress(q) ==
  /\ q.op = "save" /\ q.at = "calls" /\ ~q.unread /\ ~broken =>
       \A k \in Uses(q.profile.auth) :
         \/ \E n \in DOMAIN q.todo : q.todo[n] = Mention("sync", k)
         \/ k \in q.profile.has <=> <<q.profile.id, k>> \in secrets
  /\ q.op = "clone" /\ q.at = "calls" => \A k \in SecretKey :
       /\ ~broken => (<<q.profile.id, k>> \in secrets <=> k \in q.profile.has)
       /\ InFlight(q) =>
            (<<q.profile.id, k>> \in q.values <=> k \in q.profile.has \cup {Head(q.todo).key})
  /\ q.op \in {"save", "clone"} /\ q.at = "calls" /\ q.todo = <<>> =>
       \A n \in DOMAIN file : file[n].id = q.profile.id => file[n] = q.profile
  /\ q.op = "clone" /\ q.at = "rollback" /\ ~q.slipped => \A k \in SecretKey :
       /\ <<q.profile.id, k>> \in secrets =>
            \E n \in DOMAIN q.todo : q.todo[n] = Mention("drop", k)
       /\ InFlight(q) /\ <<q.profile.id, k>> \in q.values =>
            \E n \in DOMAIN q.todo : n > 1 /\ q.todo[n] = Mention("drop", k)

StoreTypeOK ==
  /\ file \in Seq(Entry) /\ torn \in BOOLEAN /\ broken \in BOOLEAN /\ vault \in Vaults
  /\ secrets \subseteq ProfileId \X SecretKey
  /\ left \in 0..MaxRequests /\ failures \in 0..MaxFailures
  /\ used \subseteq ProfileId /\ settled \subseteq used
  /\ failed \subseteq used /\ imported \subseteq used

FilesInv ==
  /\ StoreTypeOK /\ request \in [Request -> RequestRecord] /\ VaultOK
  /\ \A r \in Request :
       HandlerOK(request[r]) /\ HandlerFits(request[r]) /\ Progress(request[r])


-----------------------------------------------------------------------------
(* Lists of calls.                                                          *)

\* The first element and the rest of a list.
LEMMA Rest ==
  ASSUME NEW S, NEW s \in Seq(S), s # <<>>
  PROVE  /\ Len(s) \in Nat /\ Len(s) >= 1 /\ DOMAIN s = 1..Len(s)
         /\ Head(s) = s[1] /\ s[1] \in S /\ 1 \in DOMAIN s
         /\ Tail(s) \in Seq(S) /\ Len(Tail(s)) = Len(s) - 1
         /\ DOMAIN Tail(s) = 1..(Len(s) - 1)
         /\ \A n \in 1..(Len(s) - 1) : Tail(s)[n] = s[n + 1]
<1>1. Len(s) \in Nat /\ DOMAIN s = 1..Len(s)
  BY LenProperties
<1>2. Len(s) # 0
  BY EmptySeq
<1>3. /\ Tail(s) \in Seq(S) /\ Len(Tail(s)) = Len(s) - 1
      /\ \A n \in 1..Len(Tail(s)) : Tail(s)[n] = s[n + 1]
  BY HeadTailProperties
<1>4. DOMAIN Tail(s) = 1..(Len(s) - 1)
  BY <1>3, LenProperties
<1>5. Head(s) = s[1]
  OBVIOUS
<1>6. s[1] \in S
  BY <1>1, <1>2, ElementOfSeq
<1> QED
  BY <1>1, <1>2, <1>3, <1>4, <1>5, <1>6

\* Calls that have been made leave the others as they were.
LEMMA AgendaRest ==
  ASSUME NEW op, NEW auth, NEW todo \in Seq(StoreCall), todo # <<>>,
         Agenda(op, auth, todo)
  PROVE  Agenda(op, auth, Tail(todo))
<1> DEFINE rest == Tail(todo)
           size == Len(todo)
<1>1. /\ size \in Nat /\ size >= 1 /\ DOMAIN todo = 1..size
      /\ rest \in Seq(StoreCall) /\ Len(rest) = size - 1
      /\ DOMAIN rest = 1..(size - 1)
      /\ \A n \in 1..(size - 1) : rest[n] = todo[n + 1]
  BY Rest
<1>2. rest # <<>> => size > 1
  BY <1>1, EmptySeq
<1>10. /\ \A n \in 1..size :
            /\ todo[n].do \in CallsOf(op)
            /\ todo[n].do \in {"set", "paste", "sync"} => todo[n].key \in Uses(auth)
            /\ todo[n].do = "look" => n < size /\ todo[n + 1].do = "paste"
            /\ todo[n].do = "write" /\ n > 1 => todo[n - 1].do \in {"load", "find"}
       /\ op \in {"save", "clone"} => todo[size].do \in {"write", "find"}
       /\ op = "save" =>
            /\ \A m, n \in 1..size : m < n /\ todo[m].do = "sync" => todo[n].do \notin Changes
            /\ (\E n \in 1..size : todo[n].do \in Changes) =>
                 \A k \in Uses(auth) : \E n \in 1..size : todo[n] = Mention("sync", k)
       /\ op = "clone" => \A n \in 1..size : n > 1 => todo[n].do # "find"
  BY <1>1 DEF Agenda
<1> HIDE DEF rest, size
<1>3. ASSUME NEW n \in DOMAIN rest
      PROVE  /\ rest[n].do \in CallsOf(op)
             /\ rest[n].do \in {"set", "paste", "sync"} => rest[n].key \in Uses(auth)
             /\ rest[n].do = "look" => n < Len(rest) /\ rest[n + 1].do = "paste"
             /\ rest[n].do = "write" /\ n > 1 => rest[n - 1].do \in {"load", "find"}
  <2>1. n \in 1..(size - 1) /\ n + 1 \in 1..size /\ rest[n] = todo[n + 1]
    BY <1>1
  <2>2. /\ todo[n + 1].do \in CallsOf(op)
        /\ todo[n + 1].do \in {"set", "paste", "sync"} => todo[n + 1].key \in Uses(auth)
    BY <1>10, <2>1
  <2>3. ASSUME rest[n].do = "look"
        PROVE  n < Len(rest) /\ rest[n + 1].do = "paste"
    <3>1. n + 1 < size /\ todo[n + 2].do = "paste"
      BY <1>10, <2>1, <2>3
    <3> QED BY <1>1, <2>1, <3>1
  <2>4. ASSUME rest[n].do = "write", n > 1
        PROVE  rest[n - 1].do \in {"load", "find"}
    <3>1. todo[n].do \in {"load", "find"}
      BY <1>1, <1>10, <2>1, <2>4
    <3> QED BY <1>1, <2>1, <2>4, <3>1
  <2> QED BY <2>1, <2>2, <2>3, <2>4
<1>4. ASSUME op \in {"save", "clone"}, rest # <<>>
      PROVE  rest[Len(rest)].do \in {"write", "find"}
  BY <1>1, <1>2, <1>4, <1>10
<1>5. ASSUME op = "save", NEW m \in DOMAIN rest, NEW n \in DOMAIN rest,
             m < n, rest[m].do = "sync"
      PROVE  rest[n].do \notin Changes
  BY <1>1, <1>5, <1>10
<1>6. ASSUME op = "save", NEW j \in DOMAIN rest, rest[j].do \in Changes, NEW k \in Uses(auth)
      PROVE  \E n \in DOMAIN rest : rest[n] = Mention("sync", k)
  <2>1. j + 1 \in 1..size /\ todo[j + 1].do \in Changes
    BY <1>1, <1>6
  <2>2. PICK n \in 1..size : todo[n] = Mention("sync", k)
    BY <1>6, <1>10, <2>1
  <2>3. n # 1
    BY <1>1, <1>6, <1>10, <2>1, <2>2 DEF Mention
  <2>4. n - 1 \in DOMAIN rest /\ rest[n - 1] = todo[n]
    BY <1>1, <2>3
  <2> QED BY <2>2, <2>4
<1>7. ASSUME op = "clone", NEW n \in DOMAIN rest PROVE rest[n].do # "find"
  <2>1. n + 1 \in 1..size /\ n + 1 > 1 /\ rest[n] = todo[n + 1]
    BY <1>1
  <2> QED BY <1>7, <1>10, <2>1
<1> QED
  BY <1>3, <1>4, <1>5, <1>6, <1>7 DEF Agenda, rest

\* What comes after the first call.
LEMMA AgendaNext ==
  ASSUME NEW op, NEW auth, NEW todo \in Seq(StoreCall), todo # <<>>,
         Agenda(op, auth, todo)
  PROVE  /\ Head(todo).do \in CallsOf(op)
         /\ Head(todo).do \in {"set", "paste", "sync"} => Head(todo).key \in Uses(auth)
         /\ Head(todo).do = "look" => Tail(todo) # <<>> /\ Head(Tail(todo)).do = "paste"
         /\ Tail(todo) # <<>> /\ Head(Tail(todo)).do = "write" =>
              Head(todo).do \in {"load", "find"}
         /\ op \in {"save", "clone"} /\ Tail(todo) = <<>> => Head(todo).do \in {"write", "find"}
         /\ op = "clone" /\ Tail(todo) # <<>> => Head(Tail(todo)).do # "find"
<1>1. /\ Len(todo) \in Nat /\ Len(todo) >= 1 /\ DOMAIN todo = 1..Len(todo)
      /\ Tail(todo) \in Seq(StoreCall) /\ Len(Tail(todo)) = Len(todo) - 1
      /\ \A n \in 1..(Len(todo) - 1) : Tail(todo)[n] = todo[n + 1]
      /\ Head(todo) = todo[1]
  BY Rest
<1>2. /\ Tail(todo) = <<>> => Len(todo) = 1
      /\ Tail(todo) # <<>> => Head(Tail(todo)) = todo[2] /\ Len(todo) > 1
  <2>1. ASSUME Tail(todo) # <<>> PROVE Head(Tail(todo)) = Tail(todo)[1] /\ Len(Tail(todo)) >= 1
    BY <1>1, <2>1, Rest
  <2>2. Tail(todo) = <<>> => Len(Tail(todo)) = 0
    BY EmptySeq
  <2> QED BY <1>1, <2>1, <2>2
<1>3. /\ todo[1].do \in CallsOf(op)
      /\ todo[1].do \in {"set", "paste", "sync"} => todo[1].key \in Uses(auth)
      /\ todo[1].do = "look" => 1 < Len(todo) /\ todo[2].do = "paste"
  BY <1>1 DEF Agenda
<1>4. 2 \in DOMAIN todo /\ todo[2].do = "write" => todo[1].do \in {"load", "find"}
  BY <1>1 DEF Agenda
<1>5. op \in {"save", "clone"} => todo[Len(todo)].do \in {"write", "find"}
  BY DEF Agenda
<1>6. todo[1].do = "look" => Tail(todo) # <<>>
  BY <1>2, <1>3
<1>7. op = "clone" /\ 2 \in DOMAIN todo => todo[2].do # "find"
  BY DEF Agenda
<1> QED
  BY <1>1, <1>2, <1>3, <1>4, <1>5, <1>6, <1>7

\* One call, and two.
LEMMA Mentioned ==
  ASSUME NEW key \in SecretKey, NEW a, NEW b
  PROVE  /\ Mentions(<<a>>, key) = <<Mention(a, key)>>
         /\ Mentions(<<a, b>>, key) = <<Mention(a, key), Mention(b, key)>>
BY DEF Mentions, Mention


\* Lists that only change secrets of a method, and lists that only look at them.
ChangesOnly(auth, s) == \A n \in 1..Len(s) :
  s[n].do \in Changes /\ (s[n].do = "set" => s[n].key \in Uses(auth)) /\ s[n].do # "paste"
SyncsOnly(auth, s) == \A n \in 1..Len(s) : s[n].do = "sync" /\ s[n].key \in Uses(auth)

\* A call belongs to the calls.
LEMMA MentionIsCall ==
  /\ \A k \in SecretKey, d \in {"set", "clear", "drop", "look", "paste", "sync"} :
       Mention(d, k) \in StoreCall
  /\ \A d \in {"find", "load", "write"} : Mention(d, "file") \in StoreCall
BY DEF Mention, StoreCall

\* Lists of one, two and three calls.
LEMMA ShortLists ==
  ASSUME NEW S
  PROVE  /\ <<>> \in Seq(S) /\ Len(<<>>) = 0
         /\ \A a \in S : <<a>> \in Seq(S) /\ Len(<<a>>) = 1 /\ <<a>>[1] = a
         /\ \A a, b \in S : /\ <<a, b>> \in Seq(S) /\ Len(<<a, b>>) = 2
                            /\ <<a, b>>[1] = a /\ <<a, b>>[2] = b
         /\ \A a, b, c \in S : /\ <<a, b, c>> \in Seq(S) /\ Len(<<a, b, c>>) = 3
                               /\ <<a, b, c>>[1] = a /\ <<a, b, c>>[2] = b /\ <<a, b, c>>[3] = c
OBVIOUS

\* Two lists of changes are one.
LEMMA JoinChanges ==
  ASSUME NEW auth, NEW s \in Seq(StoreCall), NEW t \in Seq(StoreCall),
         ChangesOnly(auth, s), ChangesOnly(auth, t)
  PROVE  s \o t \in Seq(StoreCall) /\ ChangesOnly(auth, s \o t)
<1>1. /\ Len(s) \in Nat /\ Len(t) \in Nat
      /\ s \o t \in Seq(StoreCall) /\ Len(s \o t) = Len(s) + Len(t)
      /\ \A n \in 1..(Len(s) + Len(t)) :
           (s \o t)[n] = IF n <= Len(s) THEN s[n] ELSE t[n - Len(s)]
  BY ConcatProperties, LenProperties
<1>2. ASSUME NEW n \in 1..Len(s \o t)
      PROVE  \/ n \in 1..Len(s) /\ (s \o t)[n] = s[n]
             \/ n - Len(s) \in 1..Len(t) /\ (s \o t)[n] = t[n - Len(s)]
  BY <1>1
<1> QED BY <1>1, <1>2 DEF ChangesOnly

\* What is done about the secret of the method or the token.
LEMMA ActsChange ==
  ASSUME NEW auth, NEW action \in {"keep", "replace", "clear"},
         NEW key \in Uses(auth) \cap SecretKey
  PROVE  Acts(action, key) \in Seq(StoreCall) /\ ChangesOnly(auth, Acts(action, key))
<1>1. CASE action = "keep"
  BY <1>1, ShortLists DEF Acts, ChangesOnly
<1>2. CASE action = "replace"
  <2>1. Acts(action, key) = <<Mention("set", key)>> /\ Mention("set", key) \in StoreCall
    BY <1>2, Mentioned, MentionIsCall DEF Acts
  <2> QED BY <2>1, ShortLists DEF ChangesOnly, Mention, Changes
<1>3. CASE action = "clear"
  <2>1. Acts(action, key) = <<Mention("clear", key)>> /\ Mention("clear", key) \in StoreCall
    BY <1>3, Mentioned, MentionIsCall DEF Acts
  <2> QED BY <2>1, ShortLists DEF ChangesOnly, Mention, Changes
<1> QED BY <1>1, <1>2, <1>3

\* The deletions of secrets a method has not.
LEMMA DropsChange ==
  ASSUME NEW auth, NEW key \in SecretKey
  PROVE  Mentions(<<"drop">>, key) \in Seq(StoreCall) /\ ChangesOnly(auth, Mentions(<<"drop">>, key))
<1>1. Mentions(<<"drop">>, key) = <<Mention("drop", key)>> /\ Mention("drop", key) \in StoreCall
  BY Mentioned, MentionIsCall
<1> DEFINE s == Mentions(<<"drop">>, key)
<1>2. s \in Seq(StoreCall) /\ Len(s) = 1 /\ s[1] = Mention("drop", key)
  BY <1>1, ShortLists
<1> HIDE DEF s
<1>3. ChangesOnly(auth, s)
  BY <1>2 DEF ChangesOnly, Mention, Changes
<1> QED BY <1>2, <1>3 DEF s

\* A save looks at every secret of the profile's method, and at its token.
LEMMA SyncsLook ==
  ASSUME NEW auth \in Auth
  PROVE  /\ Syncs(auth) \in Seq(StoreCall) /\ SyncsOnly(auth, Syncs(auth))
         /\ \A k \in Uses(auth) : \E n \in 1..Len(Syncs(auth)) :
              Syncs(auth)[n] = Mention("sync", k)
<1> DEFINE last == Mentions(<<"sync">>, "token")
<1>1. /\ last = <<Mention("sync", "token")>>
      /\ \A k \in SecretKey : Mention("sync", k) \in StoreCall
  BY Mentioned, MentionIsCall DEF SecretKey
<1>2. ASSUME NEW k \in {"password", "passphrase"}, Uses(auth) = {k, "token"},
             Syncs(auth) = <<Mention("sync", k)>> \o last
      PROVE  /\ Syncs(auth) \in Seq(StoreCall) /\ SyncsOnly(auth, Syncs(auth))
             /\ \A j \in Uses(auth) : \E n \in 1..Len(Syncs(auth)) :
                  Syncs(auth)[n] = Mention("sync", j)
  <2>1. k \in SecretKey /\ "token" \in SecretKey
    BY DEF SecretKey
  <2>2. /\ Syncs(auth) \in Seq(StoreCall) /\ Len(Syncs(auth)) = 2
        /\ Syncs(auth)[1] = Mention("sync", k) /\ Syncs(auth)[2] = Mention("sync", "token")
    <3> DEFINE a == Mention("sync", k)
               b == Mention("sync", "token")
    <3>1. a \in StoreCall /\ b \in StoreCall
      BY <1>1, <2>1
    <3>2. Syncs(auth) = <<a>> \o <<b>>
      BY <1>1, <1>2
    <3> HIDE DEF a, b
    <3>3. /\ <<a>> \in Seq(StoreCall) /\ Len(<<a>>) = 1 /\ <<a>>[1] = a
          /\ <<b>> \in Seq(StoreCall) /\ Len(<<b>>) = 1 /\ <<b>>[1] = b
      BY <3>1, ShortLists
    <3>4. /\ <<a>> \o <<b>> \in Seq(StoreCall) /\ Len(<<a>> \o <<b>>) = 2
          /\ (<<a>> \o <<b>>)[1] = a /\ (<<a>> \o <<b>>)[2] = b
      BY <3>3, ConcatProperties
    <3> QED BY <3>2, <3>4 DEF a, b
  <2> QED BY <1>2, <2>2 DEF SyncsOnly, Mention
<1>3. CASE auth = "password"
  <2>1. Syncs(auth) = <<Mention("sync", "password")>> \o last
    BY <1>3, Mentioned DEF Syncs, SecretKey
  <2> QED BY <1>2, <1>3, <2>1 DEF Uses, OwnKey
<1>4. CASE auth = "key"
  <2>1. Syncs(auth) = <<Mention("sync", "passphrase")>> \o last
    BY <1>4, Mentioned DEF Syncs, SecretKey
  <2> QED BY <1>2, <1>4, <2>1 DEF Uses, OwnKey
<1>5. CASE auth = "local"
  <2>1. last \in Seq(StoreCall) /\ Len(last) = 1 /\ last[1] = Mention("sync", "token")
    BY <1>1, ShortLists DEF SecretKey
  <2>2. Syncs(auth) = last
    BY <1>5, <2>1, ConcatEmptySeq DEF Syncs
  <2>3. Uses(auth) = {"token"}
    BY <1>5 DEF Uses, OwnKey
  <2>4. /\ Syncs(auth) \in Seq(StoreCall) /\ Len(Syncs(auth)) = 1
        /\ Syncs(auth)[1] = Mention("sync", "token")
    BY <2>1, <2>2
  <2>5. SyncsOnly(auth, Syncs(auth))
    BY <2>3, <2>4 DEF SyncsOnly, Mention
  <2>6. \A k \in Uses(auth) : 1 \in 1..Len(Syncs(auth)) /\ Syncs(auth)[1] = Mention("sync", k)
    BY <2>3, <2>4
  <2> QED BY <2>4, <2>5, <2>6
<1> QED BY <1>3, <1>4, <1>5 DEF Auth

\* Profiles are read and written at the end.
LEMMA FileEnd ==
  LET end == FileCalls(<<"load", "write">>) IN
  /\ end \in Seq(StoreCall) /\ Len(end) = 2
  /\ end[1] = Mention("load", "file") /\ end[2] = Mention("write", "file")
<1> DEFINE end == FileCalls(<<"load", "write">>)
           a == Mention("load", "file")
           b == Mention("write", "file")
<1>1. end = <<a, b>>
  BY DEF FileCalls, Mentions, Mention
<1>2. a \in StoreCall /\ b \in StoreCall
  BY MentionIsCall
<1> HIDE DEF a, b, end
<1>3. end \in Seq(StoreCall) /\ Len(end) = 2 /\ end[1] = a /\ end[2] = b
  BY <1>1, <1>2, ShortLists
<1> QED BY <1>3 DEF a, b, end

\* A list that ends so.
LEMMA JoinEnd ==
  ASSUME NEW s \in Seq(StoreCall), NEW end \in Seq(StoreCall), Len(end) = 2,
         end[1] = Mention("load", "file"), end[2] = Mention("write", "file")
  PROVE  /\ s \o end \in Seq(StoreCall) /\ Len(s \o end) = Len(s) + 2
         /\ DOMAIN (s \o end) = 1..(Len(s) + 2)
         /\ \A n \in 1..Len(s) : (s \o end)[n] = s[n]
         /\ (s \o end)[Len(s) + 1].do = "load" /\ (s \o end)[Len(s) + 2].do = "write"
<1> DEFINE todo == s \o end
<1>1. /\ todo \in Seq(StoreCall) /\ Len(todo) = Len(s) + Len(end)
      /\ \A n \in 1..(Len(s) + Len(end)) :
           todo[n] = IF n <= Len(s) THEN s[n] ELSE end[n - Len(s)]
  BY ConcatProperties
<1>2. Len(s) \in Nat
  BY LenProperties
<1> HIDE DEF todo
<1>3. DOMAIN todo = 1..(Len(s) + 2)
  BY <1>1, LenProperties
<1>4. \A n \in 1..Len(s) : todo[n] = s[n]
  BY <1>1, <1>2
<1>5. todo[Len(s) + 1] = end[1] /\ todo[Len(s) + 2] = end[2]
  BY <1>1, <1>2
<1> QED BY <1>1, <1>3, <1>4, <1>5 DEF todo, Mention

\* A new save has its agenda.
LEMMA SaveAgenda ==
  ASSUME NEW auth \in Auth, NEW acts \in SecretAction
  PROVE  /\ SaveCalls(auth, acts) \in Seq(StoreCall) /\ SaveCalls(auth, acts) # <<>>
         /\ Agenda("save", auth, SaveCalls(auth, acts))
         /\ Head(SaveCalls(auth, acts)).do # "write"
         /\ \A k \in Uses(auth) : \E n \in DOMAIN SaveCalls(auth, acts) :
              SaveCalls(auth, acts)[n] = Mention("sync", k)
<1> DEFINE method ==
             CASE auth = "local"    -> Mentions(<<"drop">>, "password") \o Mentions(<<"drop">>, "passphrase")
               [] auth = "password" -> Acts(acts[1], "password") \o Mentions(<<"drop">>, "passphrase")
               [] auth = "key"      -> Acts(acts[1], "passphrase") \o Mentions(<<"drop">>, "password")
           token == Acts(acts[2], "token")
           syncs == Syncs(auth)
           end == FileCalls(<<"load", "write">>)
           todo == SaveCalls(auth, acts)
<1>1. /\ acts[1] \in {"keep", "replace", "clear"} /\ acts[2] \in {"keep", "replace", "clear"}
      /\ {"password", "passphrase", "token"} \subseteq SecretKey
      /\ "token" \in Uses(auth)
      /\ auth = "password" => "password" \in Uses(auth)
      /\ auth = "key" => "passphrase" \in Uses(auth)
  BY FilesAssumption DEF FilesAssumption, SecretKey, Uses, OwnKey
<1>2. method \in Seq(StoreCall) /\ ChangesOnly(auth, method)
  <2>1. CASE auth = "local"
    <3>1. method = Mentions(<<"drop">>, "password") \o Mentions(<<"drop">>, "passphrase")
      BY <2>1
    <3> DEFINE a == Mentions(<<"drop">>, "password")
               b == Mentions(<<"drop">>, "passphrase")
    <3>2. /\ a \in Seq(StoreCall) /\ ChangesOnly(auth, a)
          /\ b \in Seq(StoreCall) /\ ChangesOnly(auth, b)
      BY <1>1, DropsChange
    <3>3. method = a \o b
      BY <3>1
    <3> HIDE DEF a, b, method
    <3> QED BY <3>2, <3>3, JoinChanges
  <2>2. CASE auth = "password"
    <3>1. method = Acts(acts[1], "password") \o Mentions(<<"drop">>, "passphrase")
      BY <2>2
    <3> QED BY <1>1, <2>2, <3>1, ActsChange, DropsChange, JoinChanges
  <2>3. CASE auth = "key"
    <3>1. method = Acts(acts[1], "passphrase") \o Mentions(<<"drop">>, "password")
      BY <2>3
    <3> QED BY <1>1, <2>3, <3>1, ActsChange, DropsChange, JoinChanges
  <2> QED BY <2>1, <2>2, <2>3 DEF Auth
<1>3. token \in Seq(StoreCall) /\ ChangesOnly(auth, token)
  BY <1>1, ActsChange
<1>4. /\ syncs \in Seq(StoreCall) /\ SyncsOnly(auth, syncs)
      /\ \A k \in Uses(auth) : \E n \in 1..Len(syncs) : syncs[n] = Mention("sync", k)
  BY SyncsLook
<1>5. /\ end \in Seq(StoreCall) /\ Len(end) = 2
      /\ end[1] = Mention("load", "file") /\ end[2] = Mention("write", "file")
  BY FileEnd
<1>6. todo = ((method \o token) \o syncs) \o end
  BY DEF SaveCalls
<1> DEFINE changes == method \o token
<1>7. changes \in Seq(StoreCall) /\ ChangesOnly(auth, changes)
  BY <1>2, <1>3, JoinChanges
<1>8. todo = (changes \o syncs) \o end
  BY <1>6
<1> HIDE DEF method, token, syncs, end, todo, changes
<1> DEFINE c == Len(changes)
           m == Len(changes) + Len(syncs)
<1>9. /\ Len(changes) \in Nat /\ Len(syncs) \in Nat
      /\ changes \o syncs \in Seq(StoreCall) /\ Len(changes \o syncs) = m
      /\ \A n \in 1..m : (changes \o syncs)[n] = IF n <= c THEN changes[n] ELSE syncs[n - c]
  BY <1>4, <1>7, ConcatProperties, LenProperties
<1>10. /\ todo \in Seq(StoreCall) /\ Len(todo) = m + 2 /\ DOMAIN todo = 1..(m + 2)
       /\ \A n \in 1..(m + 2) : todo[n] = IF n <= m THEN (changes \o syncs)[n] ELSE end[n - m]
  <2> DEFINE s == changes \o syncs
  <2>1. s \in Seq(StoreCall) /\ Len(s) = m /\ todo = s \o end
    BY <1>8, <1>9
  <2> HIDE DEF s, m
  <2>2. /\ todo \in Seq(StoreCall) /\ Len(todo) = m + 2
        /\ \A n \in 1..(m + 2) : todo[n] = IF n <= m THEN s[n] ELSE end[n - m]
    <3>1. /\ s \o end \in Seq(StoreCall) /\ Len(s \o end) = Len(s) + Len(end)
          /\ \A n \in 1..(Len(s) + Len(end)) :
               (s \o end)[n] = IF n <= Len(s) THEN s[n] ELSE end[n - Len(s)]
      BY <1>5, <2>1, ConcatProperties
    <3>2. Len(s) = m /\ Len(end) = 2 /\ s \o end = todo
      BY <1>5, <2>1
    <3> QED BY <3>1, <3>2
  <2>3. DOMAIN todo = 1..(m + 2)
    BY <2>2, LenProperties
  <2> QED BY <2>2, <2>3 DEF s
<1>11. /\ \A n \in 1..c : todo[n] = changes[n]
       /\ \A n \in (c + 1)..m : todo[n] = syncs[n - c]
       /\ todo[m + 1] = Mention("load", "file") /\ todo[m + 2] = Mention("write", "file")
  <2>1. \A n \in 1..c : n \in 1..m /\ n \in 1..(m + 2)
    BY <1>9
  <2>2. \A n \in (c + 1)..m : n \in 1..m /\ n \in 1..(m + 2) /\ ~(n <= c)
    BY <1>9
  <2> DEFINE s == changes \o syncs
  <2>3. m \in Nat /\ \A n \in 1..(m + 2) : todo[n] = IF n <= m THEN s[n] ELSE end[n - m]
    BY <1>9, <1>10
  <2>4. todo[m + 1] = end[1] /\ todo[m + 2] = end[2]
    <3> HIDE DEF m, s
    <3>1. /\ m + 1 \in 1..(m + 2) /\ ~(m + 1 <= m) /\ (m + 1) - m = 1
          /\ m + 2 \in 1..(m + 2) /\ ~(m + 2 <= m) /\ (m + 2) - m = 2
      BY <2>3
    <3> QED BY <2>3, <3>1
  <2> QED BY <1>5, <1>9, <1>10, <2>1, <2>2, <2>4
<1>12. m \in Nat /\ c \in Nat /\ c <= m /\ m = c + Len(syncs)
  BY <1>9
<1>13. ASSUME NEW n \in 1..c
       PROVE  /\ todo[n].do \in Changes /\ todo[n].do # "paste"
              /\ todo[n].do = "set" => todo[n].key \in Uses(auth)
  BY <1>7, <1>11 DEF ChangesOnly
<1>14. ASSUME NEW n \in (c + 1)..m
       PROVE  todo[n].do = "sync" /\ todo[n].key \in Uses(auth)
  BY <1>4, <1>11, <1>12 DEF SyncsOnly
<1>15. /\ todo[m + 1].do = "load" /\ todo[m + 2].do = "write"
  BY <1>11 DEF Mention
<1> HIDE DEF m, c
<1>16. \A n \in DOMAIN todo : n \in 1..c \/ n \in (c + 1)..m \/ n = m + 1 \/ n = m + 2
  BY <1>10, <1>12
<1>17. \A k \in Uses(auth) : \E n \in DOMAIN todo : todo[n] = Mention("sync", k)
  <2> TAKE k \in Uses(auth)
  <2>1. PICK j \in 1..Len(syncs) : syncs[j] = Mention("sync", k)
    BY <1>4
  <2>2. c + j \in (c + 1)..m /\ c + j \in DOMAIN todo /\ (c + j) - c = j
    BY <1>9, <1>10, <1>12
  <2> QED BY <1>11, <2>1, <2>2
<1>18. ASSUME NEW n \in DOMAIN todo
       PROVE  /\ todo[n].do \in CallsOf("save")
              /\ todo[n].do \in {"set", "paste", "sync"} => todo[n].key \in Uses(auth)
              /\ todo[n].do = "look" => n < Len(todo) /\ todo[n + 1].do = "paste"
              /\ todo[n].do = "write" /\ n > 1 => todo[n - 1].do \in {"load", "find"}
  <2>1. CASE n \in 1..c
    BY <1>13, <2>1 DEF CallsOf, Changes
  <2>2. CASE n \in (c + 1)..m
    BY <1>14, <2>2 DEF CallsOf, Changes
  <2>3. CASE n = m + 1
    BY <1>15, <2>3 DEF CallsOf
  <2>4. CASE n = m + 2
    <3>1. n - 1 = m + 1
      BY <1>12, <2>4
    <3> QED BY <1>15, <2>4, <3>1 DEF CallsOf
  <2> QED BY <1>16, <2>1, <2>2, <2>3, <2>4
<1>19. ASSUME NEW i \in DOMAIN todo, NEW n \in DOMAIN todo, i < n, todo[i].do = "sync"
       PROVE  todo[n].do \notin Changes
  <2>1. i \notin 1..c
    BY <1>13, <1>19 DEF Changes
  <2>2. n \notin 1..c
    BY <1>10, <1>12, <1>19, <2>1
  <2> QED BY <1>14, <1>15, <1>16, <2>2 DEF Changes
<1>20. Agenda("save", auth, todo)
  BY <1>10, <1>12, <1>15, <1>17, <1>18, <1>19 DEF Agenda
<1>21. todo # <<>> /\ Head(todo).do # "write"
  <2>1. todo # <<>>
    BY <1>10, <1>12, EmptySeq
  <2>2. Head(todo) = todo[1]
    BY <1>10, <2>1, Rest
  <2>3. 1 \in 1..c \/ 1 \in (c + 1)..m \/ 1 = m + 1
    BY <1>12
  <2>4. todo[1].do # "write"
    BY <1>13, <1>14, <1>15, <2>3 DEF Changes
  <2> QED BY <2>1, <2>2, <2>4
<1> QED BY <1>10, <1>17, <1>20, <1>21 DEF todo


\* Lists of deletions, and of copies.
DropsOnly(s) == \A n \in 1..Len(s) : s[n].do = "drop"
CopiesOnly(auth, s) == \A n \in 1..Len(s) :
  /\ s[n].do \in {"look", "paste"} /\ s[n].key \in Uses(auth)
  /\ s[n].do = "look" => n < Len(s) /\ s[n + 1].do = "paste"

\* Two lists of copies are one.
LEMMA JoinCopies ==
  ASSUME NEW auth, NEW s \in Seq(StoreCall), NEW t \in Seq(StoreCall),
         CopiesOnly(auth, s), CopiesOnly(auth, t)
  PROVE  s \o t \in Seq(StoreCall) /\ CopiesOnly(auth, s \o t)
<1>1. /\ Len(s) \in Nat /\ Len(t) \in Nat
      /\ s \o t \in Seq(StoreCall) /\ Len(s \o t) = Len(s) + Len(t)
      /\ \A n \in 1..(Len(s) + Len(t)) :
           (s \o t)[n] = IF n <= Len(s) THEN s[n] ELSE t[n - Len(s)]
  BY ConcatProperties, LenProperties
<1> DEFINE u == s \o t
<1>2. /\ Len(u) = Len(s) + Len(t)
      /\ \A n \in 1..Len(s) : u[n] = s[n]
      /\ \A n \in 1..Len(t) : u[n + Len(s)] = t[n]
  <2>1. \A n \in 1..Len(s) : n \in 1..(Len(s) + Len(t)) /\ n <= Len(s)
    BY <1>1
  <2>2. \A n \in 1..Len(t) : /\ n + Len(s) \in 1..(Len(s) + Len(t))
                             /\ ~(n + Len(s) <= Len(s)) /\ (n + Len(s)) - Len(s) = n
    BY <1>1
  <2> QED BY <1>1, <2>1, <2>2
<1> HIDE DEF u
<1>3. ASSUME NEW n \in 1..Len(s)
      PROVE  /\ u[n].do \in {"look", "paste"} /\ u[n].key \in Uses(auth)
             /\ u[n].do = "look" => n < Len(u) /\ u[n + 1].do = "paste"
  <2>1. n < Len(s) => n + 1 \in 1..Len(s)
    BY <1>1
  <2> QED BY <1>1, <1>2, <2>1 DEF CopiesOnly
<1>4. ASSUME NEW n \in 1..Len(t)
      PROVE  /\ u[n + Len(s)].do \in {"look", "paste"} /\ u[n + Len(s)].key \in Uses(auth)
             /\ u[n + Len(s)].do = "look" =>
                  n + Len(s) < Len(u) /\ u[(n + Len(s)) + 1].do = "paste"
  <2>1. n < Len(t) => n + 1 \in 1..Len(t) /\ (n + Len(s)) + 1 = (n + 1) + Len(s)
    BY <1>1
  <2>2. /\ t[n].do \in {"look", "paste"} /\ t[n].key \in Uses(auth)
        /\ t[n].do = "look" => n < Len(t) /\ t[n + 1].do = "paste"
    BY DEF CopiesOnly
  <2>3. u[n + Len(s)] = t[n]
    BY <1>2
  <2>4. n < Len(t) => u[(n + Len(s)) + 1] = t[n + 1]
    BY <1>2, <2>1
  <2>5. n < Len(t) => n + Len(s) < Len(u)
    BY <1>1, <1>2
  <2> QED BY <2>2, <2>3, <2>4, <2>5
<1>5. \A n \in 1..Len(u) : n \in 1..Len(s) \/ \E j \in 1..Len(t) : n = j + Len(s)
  <2> TAKE n \in 1..Len(u)
  <2>1. n > Len(s) => n - Len(s) \in 1..Len(t) /\ n = (n - Len(s)) + Len(s)
    BY <1>1, <1>2
  <2> QED BY <1>1, <1>2, <2>1
<1>6. CopiesOnly(auth, u)
  <2> SUFFICES ASSUME NEW n \in 1..Len(u)
               PROVE  /\ u[n].do \in {"look", "paste"} /\ u[n].key \in Uses(auth)
                      /\ u[n].do = "look" => n < Len(u) /\ u[n + 1].do = "paste"
    BY DEF CopiesOnly
  <2>1. CASE n \in 1..Len(s)
    BY <1>3, <2>1
  <2>2. CASE \E j \in 1..Len(t) : n = j + Len(s)
    BY <1>4, <2>2
  <2> QED BY <1>5, <2>1, <2>2
<1> QED BY <1>1, <1>6 DEF u

\* Two lists of deletions are one.
LEMMA JoinDrops ==
  ASSUME NEW s \in Seq(StoreCall), NEW t \in Seq(StoreCall), DropsOnly(s), DropsOnly(t)
  PROVE  s \o t \in Seq(StoreCall) /\ DropsOnly(s \o t)
<1>1. /\ Len(s) \in Nat /\ Len(t) \in Nat
      /\ s \o t \in Seq(StoreCall) /\ Len(s \o t) = Len(s) + Len(t)
      /\ \A n \in 1..(Len(s) + Len(t)) :
           (s \o t)[n] = IF n <= Len(s) THEN s[n] ELSE t[n - Len(s)]
  BY ConcatProperties, LenProperties
<1>2. ASSUME NEW n \in 1..Len(s \o t)
      PROVE  \/ n \in 1..Len(s) /\ (s \o t)[n] = s[n]
             \/ n - Len(s) \in 1..Len(t) /\ (s \o t)[n] = t[n - Len(s)]
  BY <1>1
<1> QED BY <1>1, <1>2 DEF DropsOnly

\* The three deletions, and a copy.
LEMMA DropAllDrops ==
  DropAll \in Seq(StoreCall) /\ DropsOnly(DropAll)
<1>1. ASSUME NEW k \in SecretKey
      PROVE  Mentions(<<"drop">>, k) \in Seq(StoreCall) /\ DropsOnly(Mentions(<<"drop">>, k))
  <2> DEFINE s == Mentions(<<"drop">>, k)
  <2>1. s = <<Mention("drop", k)>> /\ Mention("drop", k) \in StoreCall
    BY Mentioned, MentionIsCall
  <2>2. s \in Seq(StoreCall) /\ Len(s) = 1 /\ s[1] = Mention("drop", k)
    <3> DEFINE a == Mention("drop", k)
    <3>1. s = <<a>> /\ a \in StoreCall
      BY <2>1
    <3> HIDE DEF a, s
    <3>2. s \in Seq(StoreCall) /\ Len(s) = 1 /\ s[1] = a
      BY <3>1, ShortLists
    <3> QED BY <3>2 DEF a
  <2> HIDE DEF s
  <2>3. DropsOnly(s)
    BY <2>2 DEF DropsOnly, Mention
  <2> QED BY <2>2, <2>3 DEF s
<1> DEFINE a == Mentions(<<"drop">>, "password")
           b == Mentions(<<"drop">>, "passphrase")
           c == Mentions(<<"drop">>, "token")
<1>2. /\ a \in Seq(StoreCall) /\ DropsOnly(a) /\ b \in Seq(StoreCall) /\ DropsOnly(b)
      /\ c \in Seq(StoreCall) /\ DropsOnly(c)
  BY <1>1 DEF SecretKey
<1>3. DropAll = (a \o b) \o c
  BY DEF DropAll
<1> HIDE DEF a, b, c
<1>4. a \o b \in Seq(StoreCall) /\ DropsOnly(a \o b)
  BY <1>2, JoinDrops
<1>5. (a \o b) \o c \in Seq(StoreCall) /\ DropsOnly((a \o b) \o c)
  BY <1>2, <1>4, JoinDrops
<1> QED BY <1>3, <1>5

\* What a duplication copies.
LEMMA CopiesCopy ==
  ASSUME NEW auth \in Auth
  PROVE  /\ Copies(auth) \in Seq(StoreCall) /\ CopiesOnly(auth, Copies(auth))
         /\ Len(Copies(auth)) >= 2
<1>1. ASSUME NEW k \in SecretKey \cap Uses(auth)
      PROVE  /\ Mentions(<<"look", "paste">>, k) \in Seq(StoreCall)
             /\ CopiesOnly(auth, Mentions(<<"look", "paste">>, k))
             /\ Len(Mentions(<<"look", "paste">>, k)) = 2
  <2> DEFINE s == Mentions(<<"look", "paste">>, k)
             a == Mention("look", k)
             b == Mention("paste", k)
  <2>1. s = <<a, b>> /\ a \in StoreCall /\ b \in StoreCall
    BY Mentioned, MentionIsCall
  <2>2. a.do = "look" /\ b.do = "paste" /\ a.key = k /\ b.key = k
    BY DEF Mention
  <2> HIDE DEF a, b, s
  <2>3. s \in Seq(StoreCall) /\ Len(s) = 2 /\ s[1] = a /\ s[2] = b
    BY <2>1, ShortLists
  <2>4. CopiesOnly(auth, s)
    BY <2>2, <2>3 DEF CopiesOnly
  <2> QED BY <2>3, <2>4 DEF s
<1> DEFINE first ==
             CASE auth = "password" -> Mentions(<<"look", "paste">>, "password")
               [] auth = "key"      -> Mentions(<<"look", "paste">>, "passphrase")
               [] OTHER             -> <<>>
           last == Mentions(<<"look", "paste">>, "token")
<1>2. Copies(auth) = first \o last
  BY DEF Copies
<1>3. last \in Seq(StoreCall) /\ CopiesOnly(auth, last) /\ Len(last) = 2
  BY <1>1 DEF SecretKey, Uses
<1>4. first \in Seq(StoreCall) /\ CopiesOnly(auth, first)
  <2>1. CASE auth = "password"
    <3>1. first = Mentions(<<"look", "paste">>, "password")
      BY <2>1
    <3>2. "password" \in SecretKey \cap Uses(auth)
      BY <2>1 DEF SecretKey, Uses, OwnKey
    <3> QED BY <1>1, <3>1, <3>2
  <2>2. CASE auth = "key"
    <3>1. first = Mentions(<<"look", "paste">>, "passphrase")
      BY <2>2
    <3>2. "passphrase" \in SecretKey \cap Uses(auth)
      BY <2>2 DEF SecretKey, Uses, OwnKey
    <3> QED BY <1>1, <3>1, <3>2
  <2>3. CASE auth = "local"
    <3>1. first = <<>>
      BY <2>3
    <3> HIDE DEF first
    <3>2. first \in Seq(StoreCall) /\ Len(first) = 0
      BY <3>1, ShortLists
    <3> QED BY <3>2 DEF CopiesOnly
  <2> QED BY <2>1, <2>2, <2>3 DEF Auth
<1> HIDE DEF first, last
<1>5. first \o last \in Seq(StoreCall) /\ CopiesOnly(auth, first \o last)
  BY <1>3, <1>4, JoinCopies
<1>6. Len(first \o last) >= 2
  <2>1. Len(first) \in Nat /\ Len(first \o last) = Len(first) + Len(last)
    BY <1>3, <1>4, ConcatProperties, LenProperties
  <2> QED BY <1>3, <2>1
<1> QED BY <1>2, <1>5, <1>6

\* The agenda of a duplication that has found its source.
LEMMA CopyAgenda ==
  ASSUME NEW auth \in Auth
  PROVE  LET todo == Copies(auth) \o FileCalls(<<"load", "write">>) IN
         /\ todo \in Seq(StoreCall) /\ todo # <<>> /\ Head(todo).do # "write"
         /\ Agenda("clone", auth, todo)
<1> DEFINE copies == Copies(auth)
           end == FileCalls(<<"load", "write">>)
           todo == copies \o end
           m == Len(copies)
<1>1. copies \in Seq(StoreCall) /\ CopiesOnly(auth, copies) /\ m \in Nat /\ m >= 2
  BY CopiesCopy, LenProperties
<1>2. /\ end \in Seq(StoreCall) /\ Len(end) = 2
      /\ end[1] = Mention("load", "file") /\ end[2] = Mention("write", "file")
  BY FileEnd
<1> HIDE DEF copies, end
<1>3. /\ todo \in Seq(StoreCall) /\ Len(todo) = m + 2 /\ DOMAIN todo = 1..(m + 2)
      /\ \A n \in 1..m : todo[n] = copies[n]
      /\ todo[m + 1].do = "load" /\ todo[m + 2].do = "write"
  BY <1>1, <1>2, JoinEnd
<1> HIDE DEF todo, m
<1>4. \A n \in DOMAIN todo : n \in 1..m \/ n = m + 1 \/ n = m + 2
  BY <1>1, <1>3
<1>5. ASSUME NEW n \in 1..m
      PROVE  /\ todo[n].do \in {"look", "paste"} /\ todo[n].key \in Uses(auth)
             /\ todo[n].do = "look" => n < m + 2 /\ todo[n + 1].do = "paste"
  <2>1. /\ todo[n].do \in {"look", "paste"} /\ todo[n].key \in Uses(auth)
        /\ todo[n].do = "look" => n < m /\ copies[n + 1].do = "paste"
    BY <1>1, <1>3 DEF CopiesOnly, m
  <2>2. n < m => n + 1 \in 1..m /\ n < m + 2
    BY <1>1
  <2> QED BY <1>3, <2>1, <2>2
<1>6. ASSUME NEW n \in DOMAIN todo
      PROVE  /\ todo[n].do \in CallsOf("clone")
             /\ todo[n].do \in {"set", "paste", "sync"} => todo[n].key \in Uses(auth)
             /\ todo[n].do = "look" => n < Len(todo) /\ todo[n + 1].do = "paste"
             /\ todo[n].do = "write" /\ n > 1 => todo[n - 1].do \in {"load", "find"}
             /\ todo[n].do # "find"
  <2>1. CASE n \in 1..m
    BY <1>3, <1>5, <2>1 DEF CallsOf
  <2>2. CASE n = m + 1
    BY <1>3, <2>2 DEF CallsOf
  <2>3. CASE n = m + 2
    <3>1. n - 1 = m + 1
      BY <1>1, <2>3
    <3> QED BY <1>3, <2>3, <3>1 DEF CallsOf
  <2> QED BY <1>4, <2>1, <2>2, <2>3
<1>7. Agenda("clone", auth, todo)
  BY <1>3, <1>6 DEF Agenda
<1>8. todo # <<>> /\ Head(todo).do # "write"
  <2>1. todo # <<>>
    BY <1>1, <1>3, EmptySeq
  <2>2. Head(todo) = todo[1] /\ 1 \in 1..m
    BY <1>1, <1>3, <2>1, Rest
  <2> QED BY <1>5, <2>1, <2>2
<1> QED BY <1>3, <1>7, <1>8 DEF todo, copies, end

\* The agendas of the other requests, when they begin.
LEMMA FirstAgendas ==
  ASSUME NEW auth
  PROVE  /\ LET todo == FileCalls(<<"find">>) IN
            /\ todo \in Seq(StoreCall) /\ todo # <<>> /\ Head(todo).do # "write"
            /\ Agenda("clone", auth, todo)
         /\ LET todo == FileCalls(<<"find", "write">>) IN
            /\ todo \in Seq(StoreCall) /\ todo # <<>> /\ Head(todo).do # "write"
            /\ Agenda("reorder", auth, todo)
         /\ LET todo == FileCalls(<<"find", "find", "write">>) \o DropAll IN
            /\ todo \in Seq(StoreCall) /\ todo # <<>> /\ Head(todo).do # "write"
            /\ Agenda("delete", auth, todo)
         /\ LET todo == DropAll \o FileCalls(<<"load", "write">>) IN
            /\ todo \in Seq(StoreCall) /\ todo # <<>> /\ Head(todo).do # "write"
            /\ Agenda("import", auth, todo)
<1> DEFINE f == Mention("find", "file")
           w == Mention("write", "file")
<1>1. f \in StoreCall /\ w \in StoreCall /\ f.do = "find" /\ w.do = "write"
  BY MentionIsCall DEF Mention
<1>2. /\ FileCalls(<<"find">>) = <<f>> /\ FileCalls(<<"find", "write">>) = <<f, w>>
      /\ FileCalls(<<"find", "find", "write">>) = <<f, f, w>>
  BY DEF FileCalls, Mentions, Mention
<1> HIDE DEF f, w
<1>3. /\ <<f>> \in Seq(StoreCall) /\ Len(<<f>>) = 1 /\ <<f>>[1] = f
      /\ <<f, w>> \in Seq(StoreCall) /\ Len(<<f, w>>) = 2 /\ <<f, w>>[1] = f /\ <<f, w>>[2] = w
      /\ <<f, f, w>> \in Seq(StoreCall) /\ Len(<<f, f, w>>) = 3
      /\ <<f, f, w>>[1] = f /\ <<f, f, w>>[2] = f /\ <<f, f, w>>[3] = w
  BY <1>1, ShortLists
<1>4. ASSUME NEW todo \in Seq(StoreCall), Len(todo) = 1, todo[1] = f
      PROVE  /\ todo # <<>> /\ Head(todo).do # "write"
             /\ Agenda("clone", auth, todo)
  <2>1. todo # <<>> /\ DOMAIN todo = 1..1 /\ Head(todo) = todo[1]
    BY <1>4, EmptySeq, LenProperties, Rest
  <2> QED BY <1>1, <1>4, <2>1 DEF Agenda, CallsOf
<1>5. ASSUME NEW todo \in Seq(StoreCall), Len(todo) = 2, todo[1] = f, todo[2] = w
      PROVE  /\ todo # <<>> /\ Head(todo).do # "write"
             /\ Agenda("reorder", auth, todo)
  <2>3. todo # <<>>
    <3>1. <<>> \in Seq(StoreCall) /\ Len(<<>>) = 0
      BY EmptySeq
    <3> QED BY <1>5, <3>1
  <2>1. todo # <<>> /\ DOMAIN todo = 1..2
    BY <1>5, <2>3, LenProperties
  <2>2. Head(todo) = todo[1]
    BY <2>1, Rest
  <2> QED BY <1>1, <1>5, <2>1, <2>2 DEF Agenda, CallsOf
<1>6. ASSUME NEW begin \in Seq(StoreCall), Len(begin) = 3,
             begin[1] = f, begin[2] = f, begin[3] = w
      PROVE  LET todo == begin \o DropAll IN
             /\ todo \in Seq(StoreCall) /\ todo # <<>> /\ Head(todo).do # "write"
             /\ Agenda("delete", auth, todo)
  <2> DEFINE todo == begin \o DropAll
             m == Len(DropAll)
  <2>1. DropAll \in Seq(StoreCall) /\ DropsOnly(DropAll) /\ m \in Nat
    BY DropAllDrops, LenProperties
  <2>2. /\ todo \in Seq(StoreCall) /\ Len(todo) = 3 + m /\ DOMAIN todo = 1..(3 + m)
        /\ \A n \in 1..(3 + m) : todo[n] = IF n <= 3 THEN begin[n] ELSE DropAll[n - 3]
    <3>1. /\ begin \o DropAll \in Seq(StoreCall)
          /\ Len(begin \o DropAll) = Len(begin) + Len(DropAll)
          /\ \A n \in 1..(Len(begin) + Len(DropAll)) :
               (begin \o DropAll)[n] = IF n <= Len(begin) THEN begin[n]
                                       ELSE DropAll[n - Len(begin)]
      BY <2>1, ConcatProperties
    <3> HIDE DEF m
    <3>2. Len(begin) + Len(DropAll) = 3 + m
      BY <1>6 DEF m
    <3> QED BY <1>6, <3>1, <3>2, LenProperties
  <2> HIDE DEF todo, m
  <2>3. todo[1] = f /\ todo[2] = f /\ todo[3] = w
    BY <1>6, <2>1, <2>2
  <2>4. \A n \in 4..(3 + m) : todo[n].do = "drop"
    <3> TAKE n \in 4..(3 + m)
    <3>1. n - 3 \in 1..m /\ n \in 1..(3 + m) /\ ~(n <= 3)
      BY <2>1
    <3> QED BY <2>1, <2>2, <3>1 DEF DropsOnly, m
  <2>5. \A n \in DOMAIN todo : n = 1 \/ n = 2 \/ n = 3 \/ n \in 4..(3 + m)
    BY <2>1, <2>2
  <2>6. ASSUME NEW n \in DOMAIN todo
        PROVE  /\ todo[n].do \in CallsOf("delete") /\ todo[n].do \notin {"set", "paste", "sync"}
               /\ todo[n].do # "look"
               /\ todo[n].do = "write" /\ n > 1 => todo[n - 1].do \in {"load", "find"}
    BY <1>1, <2>3, <2>4, <2>5 DEF CallsOf
  <2>7. Agenda("delete", auth, todo)
    BY <2>6 DEF Agenda
  <2>8. todo # <<>> /\ Head(todo).do # "write"
    BY <1>1, <2>1, <2>2, <2>3, EmptySeq, Rest
  <2> QED BY <2>2, <2>7, <2>8 DEF todo
<1>7. LET todo == DropAll \o FileCalls(<<"load", "write">>) IN
      /\ todo \in Seq(StoreCall) /\ todo # <<>> /\ Head(todo).do # "write"
      /\ Agenda("import", auth, todo)
  <2> DEFINE end == FileCalls(<<"load", "write">>)
             todo == DropAll \o end
             m == Len(DropAll)
  <2>1. DropAll \in Seq(StoreCall) /\ DropsOnly(DropAll) /\ m \in Nat
    BY DropAllDrops, LenProperties
  <2>2. /\ end \in Seq(StoreCall) /\ Len(end) = 2
        /\ end[1] = Mention("load", "file") /\ end[2] = Mention("write", "file")
    BY FileEnd
  <2> HIDE DEF end
  <2>3. /\ todo \in Seq(StoreCall) /\ Len(todo) = m + 2 /\ DOMAIN todo = 1..(m + 2)
        /\ \A n \in 1..m : todo[n] = DropAll[n]
        /\ todo[m + 1].do = "load" /\ todo[m + 2].do = "write"
    BY <2>1, <2>2, JoinEnd
  <2> HIDE DEF todo
  <2>4. \A n \in 1..m : todo[n].do = "drop"
    BY <2>1, <2>3 DEF DropsOnly
  <2> HIDE DEF m
  <2>5. \A n \in DOMAIN todo : n \in 1..m \/ n = m + 1 \/ n = m + 2
    BY <2>1, <2>3
  <2>6. ASSUME NEW n \in DOMAIN todo
        PROVE  /\ todo[n].do \in CallsOf("import") /\ todo[n].do \notin {"set", "paste", "sync"}
               /\ todo[n].do # "look"
               /\ todo[n].do = "write" /\ n > 1 => todo[n - 1].do \in {"load", "find"}
    <3>1. n = m + 2 => n - 1 = m + 1
      BY <2>1
    <3> QED BY <2>3, <2>4, <2>5, <3>1 DEF CallsOf
  <2>7. Agenda("import", auth, todo)
    BY <2>6 DEF Agenda
  <2>8. todo # <<>> /\ Head(todo).do # "write"
    <3>1. todo # <<>> /\ (1 \in 1..m \/ 1 = m + 1)
      BY <2>1, <2>3, EmptySeq
    <3> QED BY <2>3, <2>4, <3>1, Rest
  <2> QED BY <2>3, <2>7, <2>8 DEF todo, end
<1> QED BY <1>2, <1>3, <1>4, <1>5, <1>6, <1>7


-----------------------------------------------------------------------------
(* Handlers.                                                                *)

\* The fields of a handler that has made a call.
LEMMA PassedFields ==
  ASSUME NEW q \in RequestRecord, q.todo # <<>>
  PROVE  /\ Passed(q) \in RequestRecord
         /\ Passed(q).at = q.at /\ Passed(q).op = q.op /\ Passed(q).profile = q.profile
         /\ Passed(q).source = q.source /\ Passed(q).todo = Tail(q.todo)
         /\ Passed(q).deep = "no" /\ Passed(q).list = q.list /\ Passed(q).values = q.values
         /\ Passed(q).copied = q.copied /\ Passed(q).unread = q.unread
         /\ Passed(q).slipped = q.slipped
<1>1. q.todo \in Seq(StoreCall)
  BY DEF RequestRecord
<1>2. Tail(q.todo) \in Seq(StoreCall)
  BY <1>1, HeadTailProperties
<1> DEFINE rest == Tail(q.todo)
<1>3. Passed(q) = [q EXCEPT !.todo = rest, !.deep = "no"]
  BY DEF Passed, RequestRecord
<1> HIDE DEF rest
<1>4. rest \in Seq(StoreCall)
  BY <1>2 DEF rest
<1>5. [q EXCEPT !.todo = rest, !.deep = "no"] \in RequestRecord
  BY <1>4 DEF RequestRecord
<1> QED BY <1>3, <1>5 DEF RequestRecord, rest

\* A handler whose error was passed over.
LEMMA SlippedFields ==
  ASSUME NEW q \in RequestRecord
  PROVE  LET x == [q EXCEPT !.slipped = TRUE, !.values = {}] IN
         /\ x \in RequestRecord
         /\ x.at = q.at /\ x.op = q.op /\ x.profile = q.profile /\ x.source = q.source
         /\ x.todo = q.todo /\ x.deep = q.deep /\ x.list = q.list /\ x.values = {}
         /\ x.copied = q.copied /\ x.unread = q.unread /\ x.slipped = TRUE
<1>1. [q EXCEPT !.slipped = TRUE, !.values = {}] \in RequestRecord
  BY DEF RequestRecord
<1> QED BY <1>1 DEF RequestRecord

\* A handler that could not read a flag.
LEMMA UnreadFields ==
  ASSUME NEW q \in RequestRecord
  PROVE  LET x == [q EXCEPT !.unread = TRUE] IN
         /\ x \in RequestRecord
         /\ x.at = q.at /\ x.op = q.op /\ x.profile = q.profile /\ x.source = q.source
         /\ x.todo = q.todo /\ x.deep = q.deep /\ x.list = q.list /\ x.values = q.values
         /\ x.copied = q.copied /\ x.unread = TRUE /\ x.slipped = q.slipped
<1>1. [q EXCEPT !.unread = TRUE] \in RequestRecord
  BY DEF RequestRecord
<1> QED BY <1>1 DEF RequestRecord

\* A handler whose profile has other flags.
LEMMA FlagFields ==
  ASSUME NEW q \in RequestRecord, q.profile \in Entry, NEW H \in SUBSET Uses(q.profile.auth)
  PROVE  LET x == [q EXCEPT !.profile.has = H] IN
         /\ x \in RequestRecord
         /\ x.profile \in Entry /\ x.profile.id = q.profile.id
         /\ x.profile.auth = q.profile.auth /\ x.profile.has = H
         /\ x.at = q.at /\ x.op = q.op /\ x.source = q.source
         /\ x.todo = q.todo /\ x.deep = q.deep /\ x.list = q.list /\ x.values = q.values
         /\ x.copied = q.copied /\ x.unread = q.unread /\ x.slipped = q.slipped
<1> DEFINE p == [q.profile EXCEPT !.has = H]
<1>1. /\ p \in Entry /\ p.id = q.profile.id /\ p.auth = q.profile.auth /\ p.has = H
  <2>1. H \in SUBSET SecretKey
    BY DEF Uses, OwnKey, SecretKey
  <2> QED BY <2>1 DEF Entry, Uses
<1>2. [q EXCEPT !.profile.has = H] = [q EXCEPT !.profile = p]
  BY DEF RequestRecord
<1> HIDE DEF p
<1>3. [q EXCEPT !.profile = p] \in RequestRecord
  BY <1>1 DEF RequestRecord
<1> QED BY <1>1, <1>2, <1>3 DEF RequestRecord

\* A handler with another list.
LEMMA ListFields ==
  ASSUME NEW q \in RequestRecord, NEW l \in Seq(Entry)
  PROVE  LET x == [q EXCEPT !.list = l] IN
         /\ x \in RequestRecord
         /\ x.at = q.at /\ x.op = q.op /\ x.profile = q.profile /\ x.source = q.source
         /\ x.todo = q.todo /\ x.deep = q.deep /\ x.list = l /\ x.values = q.values
         /\ x.copied = q.copied /\ x.unread = q.unread /\ x.slipped = q.slipped
<1>1. [q EXCEPT !.list = l] \in RequestRecord
  BY DEF RequestRecord
<1> QED BY <1>1 DEF RequestRecord

\* A handler in the middle of a write.
LEMMA DeepFields ==
  ASSUME NEW q \in RequestRecord, NEW d \in {"no", "loaded", "cut"},
         NEW v \in SUBSET (ProfileId \X SecretKey)
  PROVE  LET x == [q EXCEPT !.deep = d, !.values = v] IN
         /\ x \in RequestRecord
         /\ x.at = q.at /\ x.op = q.op /\ x.profile = q.profile /\ x.source = q.source
         /\ x.todo = q.todo /\ x.deep = d /\ x.list = q.list /\ x.values = v
         /\ x.copied = q.copied /\ x.unread = q.unread /\ x.slipped = q.slipped
<1>1. [q EXCEPT !.deep = d, !.values = v] \in RequestRecord
  BY DEF RequestRecord
<1> QED BY <1>1 DEF RequestRecord

\* A handler that has copied a secret.
LEMMA CopiedFields ==
  ASSUME NEW q \in RequestRecord, NEW k \in SecretKey
  PROVE  LET x == [q EXCEPT !.copied = Append(@, k)] IN
         /\ x \in RequestRecord
         /\ x.at = q.at /\ x.op = q.op /\ x.profile = q.profile /\ x.source = q.source
         /\ x.todo = q.todo /\ x.deep = q.deep /\ x.list = q.list /\ x.values = q.values
         /\ x.copied = Append(q.copied, k) /\ x.unread = q.unread /\ x.slipped = q.slipped
         /\ {x.copied[n] : n \in DOMAIN x.copied} = {q.copied[n] : n \in DOMAIN q.copied} \cup {k}
<1> DEFINE c == Append(q.copied, k)
<1>1. q.copied \in Seq(SecretKey)
  BY DEF RequestRecord
<1>2. /\ c \in Seq(SecretKey) /\ Len(c) = Len(q.copied) + 1
      /\ \A i \in 1..Len(q.copied) : c[i] = q.copied[i]
      /\ c[Len(q.copied) + 1] = k
  BY <1>1, AppendProperties
<1>3. [q EXCEPT !.copied = Append(@, k)] = [q EXCEPT !.copied = c]
  BY DEF RequestRecord
<1> HIDE DEF c
<1>4. [q EXCEPT !.copied = c] \in RequestRecord
  BY <1>2 DEF RequestRecord
<1>5. {c[n] : n \in DOMAIN c} = {q.copied[n] : n \in DOMAIN q.copied} \cup {k}
  <2>1. /\ Len(q.copied) \in Nat /\ DOMAIN q.copied = 1..Len(q.copied)
        /\ DOMAIN c = 1..(Len(q.copied) + 1)
    BY <1>1, <1>2, LenProperties
  <2> QED BY <1>2, <2>1
<1>6. [q EXCEPT !.copied = c].copied = c
  BY DEF RequestRecord
<1> QED BY <1>3, <1>4, <1>5, <1>6 DEF RequestRecord, c

\* A handler that answers with an error.
LEMMA AbortsFields ==
  ASSUME NEW q \in RequestRecord
  PROVE  LET x == Aborts(q) IN
         /\ x \in RequestRecord
         /\ x.at = "rollback" /\ x.op = q.op /\ x.profile = q.profile /\ x.source = q.source
         /\ x.deep = "no" /\ x.list = <<>> /\ x.values = {}
         /\ x.copied = q.copied /\ x.unread = q.unread /\ x.slipped = q.slipped
         /\ DOMAIN x.todo = DOMAIN q.copied
         /\ \A n \in DOMAIN q.copied : x.todo[n] = Mention("drop", q.copied[n])
         /\ q.copied = <<>> => x.todo = <<>>
<1> DEFINE t == [n \in DOMAIN q.copied |-> [do |-> "drop", key |-> q.copied[n]]]
<1>1. q.copied \in Seq(SecretKey)
  BY DEF RequestRecord
<1>2. /\ Len(q.copied) \in Nat /\ DOMAIN q.copied = 1..Len(q.copied)
      /\ \A n \in 1..Len(q.copied) : q.copied[n] \in SecretKey
  BY <1>1, LenProperties, ElementOfSeq
<1>3. t \in Seq(StoreCall)
  <2>1. \A n \in 1..Len(q.copied) : Mention("drop", q.copied[n]) \in StoreCall
    BY <1>2, MentionIsCall
  <2>2. t = [n \in 1..Len(q.copied) |-> Mention("drop", q.copied[n])]
    BY <1>2 DEF Mention
  <2> QED BY <1>2, <2>1, <2>2
<1>4. /\ DOMAIN t = DOMAIN q.copied
      /\ \A n \in DOMAIN q.copied : t[n] = Mention("drop", q.copied[n])
  BY DEF Mention
<1>5. q.copied = <<>> => t = <<>>
  <2>1. q.copied = <<>> => Len(t) = 0
    BY <1>2, <1>3, <1>4, LenProperties, EmptySeq
  <2> QED BY <1>3, <2>1, EmptySeq
<1>6. Aborts(q) = [q EXCEPT !.at = "rollback", !.deep = "no", !.values = {}, !.list = <<>>,
                            !.todo = t]
  BY DEF Aborts
<1> HIDE DEF t
<1>7. [q EXCEPT !.at = "rollback", !.deep = "no", !.values = {}, !.list = <<>>, !.todo = t]
        \in RequestRecord
  <2>1. <<>> \in Seq(Entry)
    BY EmptySeq
  <2> QED BY <1>3, <2>1 DEF RequestRecord
<1> QED BY <1>4, <1>5, <1>6, <1>7 DEF RequestRecord


-----------------------------------------------------------------------------
(* What the invariant says of a handler that is making a call.              *)

\* A handler with calls left.
LEMMA Working ==
  ASSUME FilesInv, NEW r \in Request, NEW calls, Doing(r, calls)
  PROVE  /\ request[r] \in RequestRecord /\ request[r].todo \in Seq(StoreCall)
         /\ request[r].todo # <<>> /\ request[r].at # "idle"
         /\ request[r].profile \in Entry /\ Own(r) = request[r].profile
         /\ TheCall(r) = Head(request[r].todo) /\ TheCall(r).do \in calls
         /\ Comes(request[r], calls)
         /\ HandlerOK(request[r]) /\ HandlerFits(request[r]) /\ Progress(request[r])
<1>1. /\ request[r] \in RequestRecord
      /\ HandlerOK(request[r]) /\ HandlerFits(request[r]) /\ Progress(request[r])
  BY DEF FilesInv
<1>2. request[r].at # "idle" /\ request[r].todo # <<>> /\ TheCall(r).do \in calls
  BY DEF Doing
<1>3. request[r].profile \in Entry
  BY <1>1, <1>2 DEF HandlerOK
<1>4. request[r].todo \in Seq(StoreCall)
  BY <1>1 DEF RequestRecord
<1> QED BY <1>1, <1>2, <1>3, <1>4 DEF Own, TheCall, Comes

\* A step of one handler keeps the invariant, if it leaves that handler right.
LEMMA HandlerStep ==
  ASSUME OneAtATime, FilesInv, NEW r \in Request, NEW x \in RequestRecord, Stays(r, x),
         HandlerOK(x), HandlerFits(x)', Progress(x)', VaultOK', StoreTypeOK'
  PROVE  FilesInv'
<1>1. request' = [request EXCEPT ![r] = x] /\ request \in [Request -> RequestRecord]
  BY DEF Stays, FilesInv
<1>2. request' \in [Request -> RequestRecord] /\ request'[r] = x
  BY <1>1
<1>3. ASSUME NEW s \in Request
      PROVE  HandlerOK(request'[s]) /\ (HandlerFits(request[s]) /\ Progress(request[s]))'
  <2>1. s = r
    BY DEF OneAtATime
  <2>2. request'[s] = x
    BY <1>2, <2>1
  <2> DEFINE y == request'[s]
  <2>3. y = x
    BY <2>2
  <2>4. HandlerOK(y)
    BY <2>3
  <2>5. (HandlerFits(request[s]) /\ Progress(request[s]))'
    BY <2>2 DEF HandlerFits, Progress, Agree, InFlight, Comes, GivenOut, Position
  <2> QED BY <2>4, <2>5
<1> QED BY <1>2, <1>3 DEF FilesInv, HandlerOK, Comes, Agenda, CallsOf, Mention, Uses

\* The next call of a handler that has made one.
LEMMA NextCall ==
  ASSUME NEW q \in RequestRecord, HandlerOK(q), q.at # "idle", q.todo # <<>>
  PROVE  /\ q.at \in {"calls", "rollback"}
         /\ q.at = "rollback" => q.op = "clone" /\ Head(q.todo).do = "drop"
         /\ q.at = "calls" => Head(q.todo).do \in CallsOf(q.op)
         /\ q.at = "calls" /\ Head(q.todo).do \in {"set", "paste", "sync"} =>
              Head(q.todo).key \in Uses(q.profile.auth)
         /\ Head(q.todo).do \in Changes \cup {"sync", "look"} => Head(q.todo).key \in SecretKey
         /\ Head(q.todo).do = "look" => Tail(q.todo) # <<>> /\ Head(Tail(q.todo)).do = "paste"
         /\ Tail(q.todo) # <<>> /\ Head(Tail(q.todo)).do = "write" =>
              Head(q.todo).do \in {"load", "find"}
         /\ q.at = "calls" /\ q.op \in {"save", "clone"} /\ Tail(q.todo) = <<>> =>
              Head(q.todo).do \in {"write", "find"}
         /\ q.op = "clone" /\ Tail(q.todo) # <<>> => Head(Tail(q.todo)).do # "find"
<1>1. q.todo \in Seq(StoreCall) /\ q.at \in {"idle", "calls", "rollback"}
  BY DEF RequestRecord
<1>2. /\ Len(q.todo) \in Nat /\ Len(q.todo) >= 1 /\ DOMAIN q.todo = 1..Len(q.todo)
      /\ Tail(q.todo) \in Seq(StoreCall) /\ Len(Tail(q.todo)) = Len(q.todo) - 1
      /\ \A n \in 1..(Len(q.todo) - 1) : Tail(q.todo)[n] = q.todo[n + 1]
      /\ Head(q.todo) = q.todo[1] /\ Head(q.todo) \in StoreCall
  BY <1>1, Rest
<1>3. Head(q.todo).do \in Changes \cup {"sync", "look"} => Head(q.todo).key \in SecretKey
  BY <1>2 DEF StoreCall, Changes
<1>4. CASE q.at = "calls"
  <2>1. Agenda(q.op, q.profile.auth, q.todo)
    BY <1>4 DEF HandlerOK
  <2>2. /\ Head(q.todo).do \in CallsOf(q.op)
        /\ Head(q.todo).do \in {"set", "paste", "sync"} => Head(q.todo).key \in Uses(q.profile.auth)
        /\ Head(q.todo).do = "look" => Tail(q.todo) # <<>> /\ Head(Tail(q.todo)).do = "paste"
        /\ Tail(q.todo) # <<>> /\ Head(Tail(q.todo)).do = "write" =>
             Head(q.todo).do \in {"load", "find"}
        /\ q.op \in {"save", "clone"} /\ Tail(q.todo) = <<>> => Head(q.todo).do \in {"write", "find"}
        /\ q.op = "clone" /\ Tail(q.todo) # <<>> => Head(Tail(q.todo)).do # "find"
    BY <1>1, <2>1, AgendaNext
  <2> QED BY <1>3, <1>4, <2>2
<1>5. CASE q.at = "rollback"
  <2>1. \A n \in DOMAIN q.todo : q.todo[n].do = "drop"
    BY <1>5 DEF HandlerOK
  <2>2. Head(q.todo).do = "drop"
    BY <1>2, <2>1
  <2>3. ASSUME Tail(q.todo) # <<>> PROVE Head(Tail(q.todo)).do = "drop"
    <3>1. Len(Tail(q.todo)) >= 1 /\ Head(Tail(q.todo)) = Tail(q.todo)[1]
      BY <1>2, <2>3, Rest
    <3> QED BY <1>2, <2>1, <3>1
  <2>4. q.op = "clone"
    BY <1>5 DEF HandlerOK
  <2> QED BY <1>3, <1>5, <2>2, <2>3, <2>4
<1> QED BY <1>1, <1>4, <1>5

\* Every operation but a reordering works on a profile that is not settled, and
\* reorders change no secret.
LEMMA OwnUnsettled ==
  ASSUME NEW q \in RequestRecord, HandlerOK(q), HandlerFits(q), q.at # "idle", q.todo # <<>>,
         Head(q.todo).do \in Changes \cup {"sync", "look"}
  PROVE  q.op # "reorder" /\ q.profile.id \notin settled
<1>1. q.op # "reorder"
  BY NextCall DEF CallsOf, Changes
<1> QED BY <1>1 DEF HandlerFits

\* A handler that has made a call is right.
LEMMA PassedOK ==
  ASSUME NEW q \in RequestRecord, HandlerOK(q), q.at # "idle", q.todo # <<>>,
         NEW x \in RequestRecord,
         x.at = q.at, x.op = q.op, x.source = q.source, x.todo = Tail(q.todo), x.deep = "no",
         x.profile \in Entry, x.profile.id = q.profile.id, x.profile.auth = q.profile.auth,
         q.op # "clone" => x.copied = q.copied,
         q.op = "clone" /\ q.at = "calls" =>
           x.profile.has = {x.copied[n] : n \in DOMAIN x.copied}
  PROVE  HandlerOK(x)
<1>1. q.todo \in Seq(StoreCall) /\ x.todo \in Seq(StoreCall)
  BY DEF RequestRecord
<1>2. q.at = "calls" => Agenda(x.op, x.profile.auth, x.todo)
  BY <1>1, AgendaRest DEF HandlerOK
<1>3. ASSUME q.at = "rollback" PROVE \A n \in DOMAIN x.todo : x.todo[n].do = "drop"
  <2>1. /\ DOMAIN q.todo = 1..Len(q.todo) /\ Len(q.todo) \in Nat
        /\ DOMAIN x.todo = 1..(Len(q.todo) - 1)
        /\ \A n \in 1..(Len(q.todo) - 1) : x.todo[n] = q.todo[n + 1]
    BY <1>1, Rest
  <2>2. \A n \in DOMAIN q.todo : q.todo[n].do = "drop"
    BY <1>3 DEF HandlerOK
  <2> QED BY <2>1, <2>2
<1>4. q.op = "clone" => ~Comes(x, {"find"})
  BY NextCall DEF Comes
<1>5. q.at = "rollback" => q.op = "clone"
  BY NextCall
<1>6. /\ q.op # "clone" => q.copied = <<>>
      /\ q.op = "delete" => q.source = {q.profile.id}
  BY DEF HandlerOK
<1> QED BY <1>2, <1>3, <1>4, <1>5, <1>6 DEF HandlerOK

\* A write comes after a look at the profiles.
LEMMA NoWriteNext ==
  ASSUME NEW q \in RequestRecord, HandlerOK(q), q.at # "idle", q.todo # <<>>,
         Head(q.todo).do \notin {"load", "find"}, NEW x, x.todo = Tail(q.todo)
  PROVE  ~Comes(x, {"write"})
BY NextCall DEF Comes

\* The calls that are left are still left.
LEMMA StillToDo ==
  ASSUME NEW q \in RequestRecord, q.todo # <<>>, NEW c, c # Head(q.todo)
  PROVE  (\E n \in DOMAIN q.todo : q.todo[n] = c) =>
           /\ \E n \in DOMAIN q.todo : n > 1 /\ q.todo[n] = c
           /\ \E n \in DOMAIN Tail(q.todo) : Tail(q.todo)[n] = c
<1>1. q.todo \in Seq(StoreCall)
  BY DEF RequestRecord
<1>2. /\ Len(q.todo) \in Nat /\ DOMAIN q.todo = 1..Len(q.todo)
      /\ DOMAIN Tail(q.todo) = 1..(Len(q.todo) - 1) /\ Head(q.todo) = q.todo[1]
      /\ \A n \in 1..(Len(q.todo) - 1) : Tail(q.todo)[n] = q.todo[n + 1]
  BY <1>1, Rest
<1>3. ASSUME NEW n \in DOMAIN q.todo, q.todo[n] = c
      PROVE  n > 1 /\ n - 1 \in DOMAIN Tail(q.todo) /\ Tail(q.todo)[n - 1] = c
  BY <1>2, <1>3
<1> QED BY <1>3

\* What is left after the first call is left.
LEMMA LeftToDo ==
  ASSUME NEW q \in RequestRecord, q.todo # <<>>, NEW c,
         \E n \in DOMAIN q.todo : n > 1 /\ q.todo[n] = c
  PROVE  \E n \in DOMAIN Tail(q.todo) : Tail(q.todo)[n] = c
<1>1. q.todo \in Seq(StoreCall)
  BY DEF RequestRecord
<1>2. /\ Len(q.todo) \in Nat /\ DOMAIN q.todo = 1..Len(q.todo)
      /\ DOMAIN Tail(q.todo) = 1..(Len(q.todo) - 1)
      /\ \A n \in 1..(Len(q.todo) - 1) : Tail(q.todo)[n] = q.todo[n + 1]
  BY <1>1, Rest
<1>3. PICK n \in DOMAIN q.todo : n > 1 /\ q.todo[n] = c
  OBVIOUS
<1>4. n - 1 \in DOMAIN Tail(q.todo) /\ Tail(q.todo)[n - 1] = c
  BY <1>2, <1>3
<1> QED BY <1>4

\* A save that changes a secret will look at all of them.
LEMMA LooksLater ==
  ASSUME NEW q \in RequestRecord, HandlerOK(q), q.at = "calls", q.op = "save", q.todo # <<>>,
         Head(q.todo).do \in Changes, NEW k \in Uses(q.profile.auth)
  PROVE  \E n \in DOMAIN Tail(q.todo) : Tail(q.todo)[n] = Mention("sync", k)
<1>1. q.todo \in Seq(StoreCall)
  BY DEF RequestRecord
<1>2. 1 \in DOMAIN q.todo /\ Head(q.todo) = q.todo[1]
  BY <1>1, Rest
<1>3. \E n \in DOMAIN q.todo : q.todo[n] = Mention("sync", k)
  BY <1>2 DEF HandlerOK, Agenda
<1>4. Mention("sync", k) # Head(q.todo)
  <2>1. Mention("sync", k).do = "sync"
    BY DEF Mention
  <2> QED BY <2>1 DEF Changes
<1> QED BY <1>3, <1>4, StillToDo


-----------------------------------------------------------------------------
(* Changes of secrets.                                                      *)

\* What a change does to a set of stored secrets.
LEMMA OwnChange ==
  ASSUME FilesInv, NEW r \in Request, Doing(r, Changes),
         NEW K \in SUBSET (ProfileId \X SecretKey), GivenOut(K)
  PROVE  /\ Changed(r, K) \subseteq ProfileId \X SecretKey /\ GivenOut(Changed(r, K))
         /\ \A list \in Seq(Entry) : Agree(list, K) => Agree(list, Changed(r, K))
         /\ \A k \in SecretKey : <<Own(r).id, k>> \in Changed(r, K) <=>
              IF TheCall(r).do \in {"set", "paste"}
                THEN k = TheCall(r).key \/ <<Own(r).id, k>> \in K
                ELSE k # TheCall(r).key /\ <<Own(r).id, k>> \in K
<1> DEFINE q == request[r]
           i == Own(r).id
           key == TheCall(r).key
<1>1. /\ q \in RequestRecord /\ HandlerOK(q) /\ HandlerFits(q) /\ q.at # "idle" /\ q.todo # <<>>
      /\ q.profile \in Entry /\ Own(r) = q.profile /\ TheCall(r) = Head(q.todo)
      /\ TheCall(r).do \in Changes
  BY Working
<1>2. key \in SecretKey
  <2>1. Head(q.todo).do \in Changes \cup {"sync", "look"} => Head(q.todo).key \in SecretKey
    BY <1>1, NextCall
  <2> QED BY <1>1, <2>1
<1>3. i \notin settled
  <2>1. Head(q.todo).do \in Changes \cup {"sync", "look"}
    BY <1>1
  <2>2. q.profile.id \notin settled
    BY <1>1, <2>1, OwnUnsettled
  <2> QED BY <1>1, <2>2
<1>4. i \in ProfileId /\ i \in used \ failed
  BY <1>1 DEF Entry, HandlerFits
<1> HIDE DEF q
<1> HIDE DEF i, key
<1>5. Changed(r, K) = IF TheCall(r).do \in {"set", "paste"} THEN K \cup {<<i, key>>}
                      ELSE K \ {<<i, key>>}
  BY DEF Changed, i, key
<1>6. \A j, k : j # i => (<<j, k>> \in Changed(r, K) <=> <<j, k>> \in K)
  BY <1>5
<1>7. Changed(r, K) \subseteq ProfileId \X SecretKey
  BY <1>2, <1>4, <1>5
<1>8. GivenOut(Changed(r, K))
  <2>1. \A s \in Changed(r, K) : s[1] \in used
    BY <1>4, <1>5 DEF GivenOut
  <2>2. \A j \in failed, k \in SecretKey : <<j, k>> \notin Changed(r, K)
    BY <1>4, <1>6 DEF GivenOut
  <2> QED BY <2>1, <2>2 DEF GivenOut
<1>9. ASSUME NEW list \in Seq(Entry), Agree(list, K) PROVE Agree(list, Changed(r, K))
  BY <1>3, <1>6, <1>9 DEF Agree
<1>10. ASSUME NEW k \in SecretKey
       PROVE  <<i, k>> \in Changed(r, K) <=>
                IF TheCall(r).do \in {"set", "paste"} THEN k = key \/ <<i, k>> \in K
                ELSE k # key /\ <<i, k>> \in K
  BY <1>5
<1> QED BY <1>7, <1>8, <1>9, <1>10 DEF i, key

\* What a handler notes of a change.
LEMMA NotedFields ==
  ASSUME FilesInv, NEW r \in Request, Doing(r, Changes)
  PROVE  LET q == request[r]
             x == Noted(r)
         IN /\ x \in RequestRecord /\ x.profile \in Entry
            /\ x.profile.id = q.profile.id /\ x.profile.auth = q.profile.auth
            /\ x.at = q.at /\ x.op = q.op /\ x.source = q.source /\ x.todo = q.todo
            /\ x.deep = q.deep /\ x.list = q.list /\ x.values = q.values
            /\ x.unread = q.unread /\ x.slipped = q.slipped
            /\ q.op # "clone" => x.copied = q.copied
            /\ q.op = "clone" /\ q.at = "calls" =>
                 /\ TheCall(r).do = "paste"
                 /\ x.profile.has = q.profile.has \cup {TheCall(r).key}
                 /\ x.profile.has = {x.copied[n] : n \in DOMAIN x.copied}
<1>1. PICK q : q = request[r]
  OBVIOUS
<1>2. PICK c : c = TheCall(r)
  OBVIOUS
<1>3. /\ q \in RequestRecord /\ HandlerOK(q) /\ q.at # "idle" /\ q.todo # <<>>
      /\ q.profile \in Entry /\ c = Head(q.todo) /\ c.do \in Changes
  BY <1>1, <1>2, Working
<1>4. /\ q.at \in {"calls", "rollback"}
      /\ q.at = "rollback" => q.op = "clone" /\ c.do = "drop"
      /\ q.at = "calls" => c.do \in CallsOf(q.op)
      /\ q.at = "calls" /\ c.do \in {"set", "paste", "sync"} => c.key \in Uses(q.profile.auth)
      /\ c.key \in SecretKey
  BY <1>3, NextCall
<1>5. q.profile.has \subseteq Uses(q.profile.auth)
  BY <1>3 DEF Entry, Uses
<1>6. /\ c.do = "paste" => q.op = "clone" /\ q.at = "calls"
      /\ q.op = "clone" /\ q.at = "calls" => c.do = "paste"
  <2>1. ASSUME q.at = "calls" PROVE c.do \in CallsOf(q.op) /\ c.do \in {"set", "paste", "clear", "drop"}
    BY <1>3, <1>4, <2>1 DEF Changes
  <2>2. q.op \in {"none", "save", "clone", "delete", "import", "reorder"}
    BY <1>3 DEF RequestRecord
  <2>3. CallsOf("clone") = {"find", "look", "paste", "load", "write"}
    BY DEF CallsOf
  <2>4. q.at = "calls" /\ c.do = "paste" => q.op = "clone"
    BY <2>1, <2>2 DEF CallsOf
  <2> QED BY <1>4, <2>1, <2>3, <2>4
<1>7. Noted(r) = CASE c.do = "paste" -> [q EXCEPT !.copied = Append(@, c.key),
                                                  !.profile.has = @ \cup {c.key}]
                   [] c.do = "set"   -> [q EXCEPT !.profile.has = @ \cup {c.key}]
                   [] c.do = "clear" -> [q EXCEPT !.profile.has = @ \ {c.key}]
                   [] OTHER          -> q
  BY <1>1, <1>2 DEF Noted
<1> DEFINE x == Noted(r)
           Same == /\ x \in RequestRecord /\ x.profile \in Entry
                   /\ x.profile.id = q.profile.id /\ x.profile.auth = q.profile.auth
                   /\ x.at = q.at /\ x.op = q.op /\ x.source = q.source /\ x.todo = q.todo
                   /\ x.deep = q.deep /\ x.list = q.list /\ x.values = q.values
                   /\ x.unread = q.unread /\ x.slipped = q.slipped
<1>8. ASSUME NEW H \in SUBSET Uses(q.profile.auth), x = [q EXCEPT !.profile.has = H]
      PROVE  Same /\ x.copied = q.copied
  <2>1. PICK z : z = [q EXCEPT !.profile.has = H]
    OBVIOUS
  <2>2. /\ z \in RequestRecord
        /\ z.profile \in Entry /\ z.profile.id = q.profile.id
        /\ z.profile.auth = q.profile.auth /\ z.profile.has = H
        /\ z.at = q.at /\ z.op = q.op /\ z.source = q.source
        /\ z.todo = q.todo /\ z.deep = q.deep /\ z.list = q.list /\ z.values = q.values
        /\ z.copied = q.copied /\ z.unread = q.unread /\ z.slipped = q.slipped
    BY <1>3, <2>1, FlagFields
  <2>3. x = z
    BY <1>8, <2>1
  <2> HIDE DEF x
  <2> QED BY <2>2, <2>3
<1>9. CASE c.do = "paste"
  <2>1. PICK y : y = [q EXCEPT !.copied = Append(@, c.key)]
    OBVIOUS
  <2>2. /\ y \in RequestRecord
        /\ y.at = q.at /\ y.op = q.op /\ y.profile = q.profile /\ y.source = q.source
        /\ y.todo = q.todo /\ y.deep = q.deep /\ y.list = q.list /\ y.values = q.values
        /\ y.unread = q.unread /\ y.slipped = q.slipped
        /\ {y.copied[n] : n \in DOMAIN y.copied} = {q.copied[n] : n \in DOMAIN q.copied} \cup {c.key}
    <3>1. PICK k : k = c.key
      OBVIOUS
    <3>2. k \in SecretKey /\ y = [q EXCEPT !.copied = Append(@, k)]
      BY <1>4, <2>1, <3>1
    <3>3. /\ y \in RequestRecord
          /\ y.at = q.at /\ y.op = q.op /\ y.profile = q.profile /\ y.source = q.source
          /\ y.todo = q.todo /\ y.deep = q.deep /\ y.list = q.list /\ y.values = q.values
          /\ y.unread = q.unread /\ y.slipped = q.slipped
          /\ {y.copied[n] : n \in DOMAIN y.copied} = {q.copied[n] : n \in DOMAIN q.copied} \cup {k}
      BY <1>3, <3>2, CopiedFields
    <3> QED BY <3>1, <3>3
  <2>3. PICK H : H = q.profile.has \cup {c.key}
    OBVIOUS
  <2>4. H \in SUBSET Uses(y.profile.auth)
    <3>1. c.key \in Uses(q.profile.auth) /\ q.profile.has \in SUBSET Uses(q.profile.auth)
      BY <1>4, <1>5, <1>6, <1>9
    <3>2. y.profile = q.profile
      BY <2>2
    <3> QED BY <2>3, <3>1, <3>2
  <2>5. x = [y EXCEPT !.profile.has = H]
    <3>1. x = [q EXCEPT !.copied = Append(@, c.key), !.profile.has = @ \cup {c.key}]
      BY <1>7, <1>9
    <3> HIDE DEF x
    <3> QED BY <1>3, <2>1, <2>3, <3>1 DEF RequestRecord
  <2> HIDE DEF x
  <2>6. y.profile \in Entry
    BY <1>3, <2>2
  <2>7. /\ x \in RequestRecord
        /\ x.profile \in Entry /\ x.profile.id = y.profile.id
        /\ x.profile.auth = y.profile.auth /\ x.profile.has = H
        /\ x.at = y.at /\ x.op = y.op /\ x.source = y.source
        /\ x.todo = y.todo /\ x.deep = y.deep /\ x.list = y.list /\ x.values = y.values
        /\ x.copied = y.copied /\ x.unread = y.unread /\ x.slipped = y.slipped
    BY <2>2, <2>4, <2>5, <2>6, FlagFields
  <2>8. q.profile.has = {q.copied[n] : n \in DOMAIN q.copied}
    BY <1>3, <1>6, <1>9 DEF HandlerOK
  <2>9. x.profile.has = {x.copied[n] : n \in DOMAIN x.copied}
    BY <2>2, <2>3, <2>7, <2>8
  <2> QED BY <1>1, <1>2, <1>6, <1>9, <2>2, <2>3, <2>7, <2>9 DEF x
<1>10. CASE c.do = "set"
  <2>1. PICK H : H = q.profile.has \cup {c.key}
    OBVIOUS
  <2>2. H \in SUBSET Uses(q.profile.auth)
    BY <1>4, <1>5, <1>10, <2>1
  <2>3. x = [q EXCEPT !.profile.has = H]
    BY <1>3, <1>7, <1>10, <2>1
  <2>4. Same /\ x.copied = q.copied
    BY <1>8, <2>2, <2>3
  <2> QED BY <1>1, <1>2, <1>6, <1>10, <2>4
<1>11. CASE c.do = "clear"
  <2>1. PICK H : H = q.profile.has \ {c.key}
    OBVIOUS
  <2>2. H \in SUBSET Uses(q.profile.auth)
    BY <1>5, <2>1
  <2>3. x = [q EXCEPT !.profile.has = H]
    BY <1>3, <1>7, <1>11, <2>1
  <2>4. Same /\ x.copied = q.copied
    BY <1>8, <2>2, <2>3
  <2> QED BY <1>1, <1>2, <1>6, <1>11, <2>4
<1>12. CASE c.do = "drop"
  <2>1. x = q
    BY <1>7, <1>12
  <2> QED BY <1>1, <1>2, <1>3, <1>6, <1>12, <2>1
<1> QED BY <1>3, <1>9, <1>10, <1>11, <1>12 DEF Changes

\* A change that has been made leaves the handler right.
LEMMA ChangeMade ==
  ASSUME OneAtATime, FilesInv, NEW r \in Request, Doing(r, Changes),
         NEW x \in RequestRecord, Stays(r, x),
         LET y == Noted(r) IN
           /\ x.at = y.at /\ x.op = y.op /\ x.profile = y.profile /\ x.source = y.source
           /\ x.todo = Tail(y.todo) /\ x.deep = "no" /\ x.list = y.list /\ x.copied = y.copied
           /\ x.unread = y.unread /\ x.slipped = y.slipped,
         UNCHANGED <<file, torn, failures, Requested>>, ~broken',
         secrets' \subseteq ProfileId \X SecretKey, GivenOut(secrets'),
         Agree(file, secrets'), Agree(request[r].list, secrets'),
         request[r].op = "clone" /\ request[r].at = "calls" => \A k \in SecretKey :
           <<Own(r).id, k>> \in secrets' <=> k \in request[r].profile.has \cup {TheCall(r).key},
         request[r].op = "clone" /\ request[r].at = "rollback" /\ ~request[r].slipped =>
           \A k \in SecretKey : <<Own(r).id, k>> \in secrets' =>
             \E n \in DOMAIN request[r].todo : n > 1 /\ request[r].todo[n] = Mention("drop", k),
         broken' \in BOOLEAN
  PROVE  FilesInv'
<1>1. PICK q : q = request[r]
  OBVIOUS
<1>2. /\ q \in RequestRecord /\ HandlerOK(q) /\ HandlerFits(q) /\ q.at # "idle" /\ q.todo # <<>>
      /\ q.profile \in Entry /\ Own(r) = q.profile /\ TheCall(r) = Head(q.todo)
      /\ Head(q.todo).do \in Changes
  BY <1>1, Working
<1>3. /\ x.profile \in Entry
      /\ x.profile.id = q.profile.id /\ x.profile.auth = q.profile.auth
      /\ x.at = q.at /\ x.op = q.op /\ x.source = q.source /\ x.todo = Tail(q.todo)
      /\ x.list = q.list /\ x.unread = q.unread /\ x.slipped = q.slipped
      /\ q.op # "clone" => x.copied = q.copied
      /\ q.op = "clone" /\ q.at = "calls" =>
           /\ x.profile.has = q.profile.has \cup {Head(q.todo).key}
           /\ x.profile.has = {x.copied[n] : n \in DOMAIN x.copied}
  BY <1>1, <1>2, NotedFields
<1>4. HandlerOK(x)
  BY <1>2, <1>3, PassedOK
<1>5. UNCHANGED <<file, vault, used, settled, failed, left, failures, torn, imported>>
  BY DEF Requested
<1>6. HandlerFits(x)'
  <2>1. ~Comes(x, {"write"})
    BY <1>2, <1>3, NoWriteNext DEF Changes
  <2>2. x.at # "idle" => x.profile.id \in used' \ failed' /\ (x.op # "reorder" => x.profile.id \notin settled')
    BY <1>2, <1>3, <1>5 DEF HandlerFits
  <2>3. Agree(x.list, secrets)'
    BY <1>1, <1>3, <1>5 DEF Agree
  <2>4. ~InFlight(x)
    BY DEF InFlight
  <2> QED BY <2>1, <2>2, <2>3, <2>4 DEF HandlerFits, InFlight, Comes
<1>7. VaultOK'
  BY <1>5 DEF VaultOK, GivenOut, Agree
<1>8. Progress(x)'
  <2>1. ASSUME x.op = "save", x.at = "calls", NEW k \in Uses(x.profile.auth)
        PROVE  \E n \in DOMAIN x.todo : x.todo[n] = Mention("sync", k)
    <3>1. q.at = "calls" /\ q.op = "save" /\ k \in Uses(q.profile.auth)
      BY <1>3, <2>1
    <3>2. \E n \in DOMAIN Tail(q.todo) : Tail(q.todo)[n] = Mention("sync", k)
      BY <1>2, <3>1, LooksLater
    <3> QED BY <1>3, <3>2
  <2>2. ASSUME x.op = "clone", x.at = "calls", NEW k \in SecretKey
        PROVE  <<x.profile.id, k>> \in secrets' <=> k \in x.profile.has
    BY <1>1, <1>2, <1>3, <2>2
  <2>3. x.op \in {"save", "clone"} /\ x.at = "calls" => x.todo # <<>>
    BY <1>2, <1>3, NextCall DEF Changes
  <2>4. ASSUME x.op = "clone", x.at = "rollback", ~x.slipped, NEW k \in SecretKey,
               <<x.profile.id, k>> \in secrets'
        PROVE  \E n \in DOMAIN x.todo : x.todo[n] = Mention("drop", k)
    <3>1. \E n \in DOMAIN q.todo : n > 1 /\ q.todo[n] = Mention("drop", k)
      BY <1>1, <1>2, <1>3, <2>4
    <3>2. \E n \in DOMAIN Tail(q.todo) : Tail(q.todo)[n] = Mention("drop", k)
      BY <1>2, <3>1, LeftToDo
    <3> QED BY <1>3, <3>2
  <2>5. ~InFlight(x)
    BY DEF InFlight
  <2> QED BY <2>1, <2>2, <2>3, <2>4, <2>5 DEF Progress, InFlight, Comes, Mention, Uses
<1>9. StoreTypeOK'
  BY <1>5 DEF FilesInv, StoreTypeOK
<1> QED BY <1>4, <1>6, <1>7, <1>8, <1>9, HandlerStep


-----------------------------------------------------------------------------
(* Each action keeps the invariant.                                         *)

\* What a change does to the secrets a duplication or its rollback has made.
LEMMA CopyChange ==
  ASSUME FilesInv, NEW r \in Request, Doing(r, Changes), ~broken
  PROVE  /\ request[r].op = "clone" /\ request[r].at = "calls" => \A k \in SecretKey :
              <<Own(r).id, k>> \in Changed(r, secrets) <=>
                k \in request[r].profile.has \cup {TheCall(r).key}
         /\ request[r].op = "clone" /\ request[r].at = "rollback" /\ ~request[r].slipped =>
              \A k \in SecretKey : <<Own(r).id, k>> \in Changed(r, secrets) =>
                \E n \in DOMAIN request[r].todo : n > 1 /\ request[r].todo[n] = Mention("drop", k)
<1>1. PICK q : q = request[r]
  OBVIOUS
<1>2. /\ q \in RequestRecord /\ HandlerOK(q) /\ Progress(q) /\ q.at # "idle" /\ q.todo # <<>>
      /\ Own(r) = q.profile /\ TheCall(r) = Head(q.todo) /\ Head(q.todo).do \in Changes
  BY <1>1, Working
<1>3. secrets \in SUBSET (ProfileId \X SecretKey) /\ GivenOut(secrets)
  BY DEF FilesInv, StoreTypeOK, VaultOK
<1>4. \A k \in SecretKey : <<Own(r).id, k>> \in Changed(r, secrets) <=>
         IF TheCall(r).do \in {"set", "paste"}
           THEN k = TheCall(r).key \/ <<Own(r).id, k>> \in secrets
           ELSE k # TheCall(r).key /\ <<Own(r).id, k>> \in secrets
  BY <1>3, OwnChange
<1>5. ASSUME q.op = "clone", q.at = "calls", NEW k \in SecretKey
      PROVE  <<Own(r).id, k>> \in Changed(r, secrets) <=> k \in q.profile.has \cup {TheCall(r).key}
  <2>1. TheCall(r).do = "paste"
    <3>1. Head(q.todo).do \in CallsOf("clone")
      BY <1>2, <1>5, NextCall
    <3> QED BY <1>2, <3>1 DEF CallsOf, Changes
  <2>2. <<Own(r).id, k>> \in secrets <=> k \in q.profile.has
    BY <1>2, <1>5 DEF Progress
  <2> QED BY <1>4, <2>1, <2>2
<1>6. ASSUME q.op = "clone", q.at = "rollback", ~q.slipped, NEW k \in SecretKey,
             <<Own(r).id, k>> \in Changed(r, secrets)
      PROVE  \E n \in DOMAIN q.todo : n > 1 /\ q.todo[n] = Mention("drop", k)
  <2>1. TheCall(r).do = "drop"
    BY <1>2, <1>6, NextCall
  <2>2. k # TheCall(r).key /\ <<Own(r).id, k>> \in secrets
    BY <1>4, <1>6, <2>1
  <2>3. \E n \in DOMAIN q.todo : q.todo[n] = Mention("drop", k)
    BY <1>2, <1>6, <2>2 DEF Progress
  <2>4. Mention("drop", k) # Head(q.todo)
    <3>1. Mention("drop", k).key = k
      BY DEF Mention
    <3> QED BY <1>2, <2>2, <3>1
  <2> QED BY <1>2, <2>3, <2>4, StillToDo
<1> QED BY <1>1, <1>5, <1>6

\* The system stores, or deletes, a secret.
LEMMA ChangeSecretKeeps ==
  ASSUME OneAtATime, FilesInv, NEW r \in Request, ChangeSecret(r)
  PROVE  FilesInv'
<1>1. /\ Doing(r, Changes) /\ secrets' = Changed(r, secrets)
      /\ Stays(r, Passed(Noted(r))) /\ UNCHANGED <<file, torn, failures, Requested>>
      /\ broken' = broken /\ ~vault
  BY DEF ChangeSecret
<1>2. /\ ~broken /\ GivenOut(secrets) /\ Agree(file, secrets) /\ file \in Seq(Entry)
      /\ secrets \in SUBSET (ProfileId \X SecretKey) /\ broken \in BOOLEAN
  BY <1>1 DEF FilesInv, StoreTypeOK, VaultOK
<1>3. /\ request[r] \in RequestRecord /\ HandlerFits(request[r]) /\ request[r].todo # <<>>
  BY <1>1, Working
<1>4. Agree(request[r].list, secrets) /\ request[r].list \in Seq(Entry)
  BY <1>2, <1>3 DEF HandlerFits, RequestRecord
<1>5. /\ secrets' \subseteq ProfileId \X SecretKey /\ GivenOut(secrets')
      /\ Agree(file, secrets') /\ Agree(request[r].list, secrets')
  <2>1. /\ Changed(r, secrets) \subseteq ProfileId \X SecretKey /\ GivenOut(Changed(r, secrets))
        /\ \A list \in Seq(Entry) : Agree(list, secrets) => Agree(list, Changed(r, secrets))
    BY <1>1, <1>2, OwnChange
  <2> QED BY <1>1, <1>2, <1>4, <2>1
<1>6. /\ request[r].op = "clone" /\ request[r].at = "calls" => \A k \in SecretKey :
           <<Own(r).id, k>> \in secrets' <=> k \in request[r].profile.has \cup {TheCall(r).key}
      /\ request[r].op = "clone" /\ request[r].at = "rollback" /\ ~request[r].slipped =>
           \A k \in SecretKey : <<Own(r).id, k>> \in secrets' =>
             \E n \in DOMAIN request[r].todo : n > 1 /\ request[r].todo[n] = Mention("drop", k)
  BY <1>1, <1>2, CopyChange
<1>7. PICK y : y = Noted(r)
  OBVIOUS
<1>8. y \in RequestRecord /\ y.todo # <<>>
  BY <1>1, <1>3, <1>7, NotedFields
<1>9. PICK x : x = Passed(y)
  OBVIOUS
<1>10. /\ x \in RequestRecord
       /\ x.at = y.at /\ x.op = y.op /\ x.profile = y.profile /\ x.source = y.source
       /\ x.todo = Tail(y.todo) /\ x.deep = "no" /\ x.list = y.list /\ x.copied = y.copied
       /\ x.unread = y.unread /\ x.slipped = y.slipped
  BY <1>8, <1>9, PassedFields
<1>11. Stays(r, x) /\ ~broken' /\ broken' \in BOOLEAN
  BY <1>1, <1>2, <1>7, <1>9
<1> QED BY <1>1, <1>5, <1>6, <1>7, <1>10, <1>11, ChangeMade

\* The vault file is written.
LEMMA VaultWriteKeeps ==
  ASSUME OneAtATime, FilesInv, NEW r \in Request, VaultWrite(r)
  PROVE  FilesInv'
<1>1. /\ Doing(r, Changes) /\ secrets' = request[r].values /\ broken' = FALSE
      /\ Stays(r, [Passed(Noted(r)) EXCEPT !.values = {}])
      /\ UNCHANGED <<file, torn, failures, Requested>>
      /\ vault /\ request[r].deep = "cut"
  BY DEF VaultWrite
<1>2. PICK q : q = request[r]
  OBVIOUS
<1>3. /\ q \in RequestRecord /\ HandlerOK(q) /\ HandlerFits(q) /\ Progress(q)
      /\ q.todo # <<>> /\ q.at # "idle" /\ Comes(q, Changes)
      /\ Own(r) = q.profile /\ TheCall(r) = Head(q.todo) /\ Head(q.todo).do \in Changes
  BY <1>1, <1>2, Working
<1>4. InFlight(q)
  BY <1>1, <1>2, <1>3 DEF InFlight
<1>5. /\ q.values \subseteq ProfileId \X SecretKey /\ GivenOut(q.values)
      /\ Agree(file, q.values) /\ Agree(q.list, q.values)
  BY <1>3, <1>4 DEF HandlerFits, RequestRecord
<1>6. /\ secrets' \subseteq ProfileId \X SecretKey /\ GivenOut(secrets')
      /\ Agree(file, secrets') /\ Agree(request[r].list, secrets')
  BY <1>1, <1>2, <1>5
<1>7. ASSUME q.op = "clone", q.at = "calls", NEW k \in SecretKey
      PROVE  <<Own(r).id, k>> \in secrets' <=> k \in q.profile.has \cup {TheCall(r).key}
  BY <1>1, <1>2, <1>3, <1>4, <1>7 DEF Progress
<1>8. ASSUME q.op = "clone", q.at = "rollback", ~q.slipped, NEW k \in SecretKey,
             <<Own(r).id, k>> \in secrets'
      PROVE  \E n \in DOMAIN q.todo : n > 1 /\ q.todo[n] = Mention("drop", k)
  BY <1>1, <1>2, <1>3, <1>4, <1>8 DEF Progress
<1>9. PICK y : y = Noted(r)
  OBVIOUS
<1>10. y \in RequestRecord /\ y.todo # <<>>
  BY <1>1, <1>2, <1>3, <1>9, NotedFields
<1>11. PICK z : z = Passed(y)
  OBVIOUS
<1>12. /\ z \in RequestRecord
       /\ z.at = y.at /\ z.op = y.op /\ z.profile = y.profile /\ z.source = y.source
       /\ z.todo = Tail(y.todo) /\ z.deep = "no" /\ z.list = y.list /\ z.copied = y.copied
       /\ z.unread = y.unread /\ z.slipped = y.slipped
  BY <1>10, <1>11, PassedFields
<1>13. PICK x : x = [z EXCEPT !.values = {}]
  OBVIOUS
<1>14. /\ x \in RequestRecord
       /\ x.at = y.at /\ x.op = y.op /\ x.profile = y.profile /\ x.source = y.source
       /\ x.todo = Tail(y.todo) /\ x.deep = "no" /\ x.list = y.list /\ x.copied = y.copied
       /\ x.unread = y.unread /\ x.slipped = y.slipped
  BY <1>12, <1>13 DEF RequestRecord
<1>15. Stays(r, x) /\ ~broken' /\ broken' \in BOOLEAN
  BY <1>1, <1>9, <1>11, <1>13
<1>16. /\ request[r].op = "clone" /\ request[r].at = "calls" => \A k \in SecretKey :
            <<Own(r).id, k>> \in secrets' <=> k \in request[r].profile.has \cup {TheCall(r).key}
       /\ request[r].op = "clone" /\ request[r].at = "rollback" /\ ~request[r].slipped =>
            \A k \in SecretKey : <<Own(r).id, k>> \in secrets' =>
              \E n \in DOMAIN request[r].todo : n > 1 /\ request[r].todo[n] = Mention("drop", k)
  BY <1>2, <1>7, <1>8
<1> QED BY <1>1, <1>6, <1>9, <1>14, <1>15, <1>16, ChangeMade

\* The vault file is read.
LEMMA VaultLoadKeeps ==
  ASSUME OneAtATime, FilesInv, NEW r \in Request, VaultLoad(r)
  PROVE  FilesInv'
<1>1. /\ Doing(r, Changes) /\ vault /\ ~broken /\ request[r].deep = "no"
      /\ Stays(r, [request[r] EXCEPT !.deep = "loaded", !.values = Changed(r, secrets)])
      /\ UNCHANGED <<file, torn, secrets, broken, failures, Requested>>
  BY DEF VaultLoad
<1>2. PICK q : q = request[r]
  OBVIOUS
<1>3. /\ q \in RequestRecord /\ HandlerOK(q) /\ HandlerFits(q) /\ Progress(q)
      /\ q.todo # <<>> /\ q.at # "idle" /\ Comes(q, Changes)
      /\ Own(r) = q.profile /\ TheCall(r) = Head(q.todo) /\ Head(q.todo).do \in Changes
  BY <1>1, <1>2, Working
<1>4. PICK V : V = Changed(r, secrets)
  OBVIOUS
<1>5. /\ GivenOut(secrets) /\ Agree(file, secrets) /\ file \in Seq(Entry)
      /\ secrets \in SUBSET (ProfileId \X SecretKey)
  BY <1>1 DEF FilesInv, StoreTypeOK, VaultOK
<1>6. Agree(q.list, secrets) /\ q.list \in Seq(Entry)
  BY <1>1, <1>3 DEF HandlerFits, RequestRecord
<1>7. /\ V \in SUBSET (ProfileId \X SecretKey) /\ GivenOut(V) /\ Agree(file, V) /\ Agree(q.list, V)
  <2>1. /\ Changed(r, secrets) \subseteq ProfileId \X SecretKey /\ GivenOut(Changed(r, secrets))
        /\ \A list \in Seq(Entry) : Agree(list, secrets) => Agree(list, Changed(r, secrets))
    BY <1>1, <1>5, OwnChange
  <2> QED BY <1>4, <1>5, <1>6, <2>1
<1>8. /\ q.op = "clone" /\ q.at = "calls" => \A k \in SecretKey :
           <<q.profile.id, k>> \in V <=> k \in q.profile.has \cup {Head(q.todo).key}
      /\ q.op = "clone" /\ q.at = "rollback" /\ ~q.slipped => \A k \in SecretKey :
           <<q.profile.id, k>> \in V => \E n \in DOMAIN q.todo : n > 1 /\ q.todo[n] = Mention("drop", k)
  BY <1>1, <1>2, <1>3, <1>4, CopyChange
<1>9. PICK x : x = [q EXCEPT !.deep = "loaded", !.values = V]
  OBVIOUS
<1>10. /\ x \in RequestRecord
       /\ x.at = q.at /\ x.op = q.op /\ x.profile = q.profile /\ x.source = q.source
       /\ x.todo = q.todo /\ x.deep = "loaded" /\ x.list = q.list /\ x.values = V
       /\ x.copied = q.copied /\ x.unread = q.unread /\ x.slipped = q.slipped
  BY <1>3, <1>7, <1>9 DEF RequestRecord
<1>11. Stays(r, x)
  BY <1>1, <1>2, <1>4, <1>9
<1>12. UNCHANGED <<file, vault, used, settled, failed, left, failures, torn, imported, secrets, broken>>
  BY <1>1 DEF Requested
<1>13. ~Comes(x, {"write"}) /\ Comes(x, Changes)
  BY <1>3, <1>10 DEF Comes, Changes
<1>14. HandlerOK(x)
  BY <1>3, <1>10, <1>13 DEF HandlerOK, NoRequest, Comes
<1>15. HandlerFits(x)'
  <2>1. x.at # "idle" => x.profile.id \in used' \ failed' /\ (x.op # "reorder" => x.profile.id \notin settled')
    BY <1>3, <1>10, <1>12 DEF HandlerFits
  <2>2. Agree(x.list, secrets)'
    BY <1>6, <1>10, <1>12 DEF Agree
  <2>3. vault' /\ GivenOut(x.values)' /\ Agree(file, x.values)' /\ Agree(x.list, x.values)' /\ ~broken'
    BY <1>1, <1>7, <1>10, <1>12 DEF Agree, GivenOut
  <2> QED BY <1>13, <2>1, <2>2, <2>3 DEF HandlerFits, InFlight, Comes
<1>16. Progress(x)'
  <2>1. ASSUME x.op = "save", x.at = "calls", ~x.unread, NEW k \in Uses(x.profile.auth)
        PROVE  \/ \E n \in DOMAIN x.todo : x.todo[n] = Mention("sync", k)
               \/ k \in x.profile.has <=> <<x.profile.id, k>> \in secrets'
    BY <1>1, <1>3, <1>10, <1>12, <2>1 DEF Progress
  <2>2. ASSUME x.op = "clone", x.at = "calls", NEW k \in SecretKey
        PROVE  /\ <<x.profile.id, k>> \in secrets' <=> k \in x.profile.has
               /\ <<x.profile.id, k>> \in x.values <=> k \in x.profile.has \cup {Head(x.todo).key}
    BY <1>1, <1>3, <1>8, <1>10, <1>12, <2>2 DEF Progress
  <2>3. x.todo # <<>>
    BY <1>3, <1>10
  <2>4. ASSUME x.op = "clone", x.at = "rollback", ~x.slipped, NEW k \in SecretKey
        PROVE  /\ <<x.profile.id, k>> \in secrets' =>
                    \E n \in DOMAIN x.todo : x.todo[n] = Mention("drop", k)
               /\ <<x.profile.id, k>> \in x.values =>
                    \E n \in DOMAIN x.todo : n > 1 /\ x.todo[n] = Mention("drop", k)
    BY <1>3, <1>8, <1>10, <1>12, <2>4 DEF Progress
  <2> QED BY <2>1, <2>2, <2>3, <2>4 DEF Progress, InFlight, Comes, Mention, Uses
<1>17. VaultOK' /\ StoreTypeOK'
  BY <1>12 DEF FilesInv, VaultOK, StoreTypeOK, GivenOut, Agree
<1> QED BY <1>10, <1>11, <1>14, <1>15, <1>16, <1>17, HandlerStep

\* The vault file is truncated.
LEMMA VaultTruncateKeeps ==
  ASSUME OneAtATime, FilesInv, NEW r \in Request, VaultTruncate(r)
  PROVE  FilesInv'
<1>1. /\ Doing(r, Changes) /\ vault /\ request[r].deep = "loaded"
      /\ broken' = TRUE /\ secrets' = {}
      /\ Stays(r, [request[r] EXCEPT !.deep = "cut"])
      /\ UNCHANGED <<file, torn, failures, Requested>>
  BY DEF VaultTruncate
<1>2. PICK q : q = request[r]
  OBVIOUS
<1>3. /\ q \in RequestRecord /\ HandlerOK(q) /\ HandlerFits(q) /\ Progress(q)
      /\ q.todo # <<>> /\ q.at # "idle" /\ Comes(q, Changes) /\ Head(q.todo).do \in Changes
  BY <1>1, <1>2, Working
<1>4. InFlight(q)
  BY <1>1, <1>2, <1>3 DEF InFlight
<1>5. PICK x : x = [q EXCEPT !.deep = "cut"]
  OBVIOUS
<1>6. /\ x \in RequestRecord
      /\ x.at = q.at /\ x.op = q.op /\ x.profile = q.profile /\ x.source = q.source
      /\ x.todo = q.todo /\ x.deep = "cut" /\ x.list = q.list /\ x.values = q.values
      /\ x.copied = q.copied /\ x.unread = q.unread /\ x.slipped = q.slipped
  BY <1>3, <1>5 DEF RequestRecord
<1>7. Stays(r, x)
  BY <1>1, <1>2, <1>5
<1>8. UNCHANGED <<file, vault, used, settled, failed, left, failures, torn, imported>>
  BY <1>1 DEF Requested
<1>9. ~Comes(x, {"write"}) /\ Comes(x, Changes \cup {"write"})
  BY <1>3, <1>6 DEF Comes, Changes
<1>10. HandlerOK(x)
  BY <1>3, <1>6, <1>9 DEF HandlerOK, NoRequest, Comes
<1>11. HandlerFits(x)'
  <2>1. x.at # "idle" => x.profile.id \in used' \ failed' /\ (x.op # "reorder" => x.profile.id \notin settled')
    BY <1>3, <1>6, <1>8 DEF HandlerFits
  <2>2. vault' /\ GivenOut(x.values)' /\ Agree(file, x.values)' /\ Agree(x.list, x.values)'
    BY <1>1, <1>3, <1>4, <1>6, <1>8 DEF HandlerFits, Agree, GivenOut
  <2> QED BY <1>1, <1>6, <1>9, <2>1, <2>2 DEF HandlerFits, InFlight, Comes
<1>12. Progress(x)'
  <2>1. ASSUME x.op = "clone", x.at = "calls", NEW k \in SecretKey
        PROVE  <<x.profile.id, k>> \in x.values <=> k \in x.profile.has \cup {Head(x.todo).key}
    BY <1>3, <1>4, <1>6, <2>1 DEF Progress
  <2>2. x.todo # <<>>
    BY <1>3, <1>6
  <2>3. ASSUME x.op = "clone", x.at = "rollback", ~x.slipped, NEW k \in SecretKey
        PROVE  <<x.profile.id, k>> \in x.values =>
                 \E n \in DOMAIN x.todo : n > 1 /\ x.todo[n] = Mention("drop", k)
    BY <1>3, <1>4, <1>6, <2>3 DEF Progress
  <2> QED BY <1>1, <2>1, <2>2, <2>3 DEF Progress, InFlight, Comes, Mention, Uses
<1>13. VaultOK' /\ StoreTypeOK'
  BY <1>1, <1>8 DEF FilesInv, VaultOK, StoreTypeOK, GivenOut, Agree
<1> QED BY <1>6, <1>7, <1>10, <1>11, <1>12, <1>13, HandlerStep


\* A step that changes no store keeps the invariant, if the handler is right.
LEMMA QuietStep ==
  ASSUME OneAtATime, FilesInv, NEW r \in Request, NEW x \in RequestRecord, Stays(r, x),
         UNCHANGED <<file, secrets, broken, Requested>>,
         torn' \in BOOLEAN, failures' \in 0..MaxFailures,
         torn' = torn \/ ~Comes(x, {"write"}),
         HandlerOK(x), HandlerFits(x), Progress(x)
  PROVE  FilesInv'
<1>1. UNCHANGED <<file, vault, used, settled, failed, left, imported, secrets, broken>>
  BY DEF Requested
<1>2. HandlerFits(x)'
  <2>1. x.at # "idle" => x.profile.id \in used' \ failed' /\ (x.op # "reorder" => x.profile.id \notin settled')
    BY <1>1 DEF HandlerFits
  <2>2. (~broken => Agree(x.list, secrets))'
    BY <1>1 DEF HandlerFits, Agree
  <2>3. InFlight(x) =>
          /\ vault' /\ GivenOut(x.values)' /\ Agree(file, x.values)' /\ Agree(x.list, x.values)'
          /\ x.deep = "loaded" => ~broken'
    BY <1>1 DEF HandlerFits, Agree, GivenOut
  <2>4. /\ Comes(x, {"write"}) /\ x.deep = "no" =>
             /\ ~torn' /\ x.list = file'
             /\ x.op = "delete" => Position(x.list, x.profile.id) # {}
        /\ Comes(x, {"write"}) /\ x.deep = "cut" => file' = <<>> /\ ~torn'
    BY <1>1 DEF HandlerFits
  <2> QED BY <2>1, <2>2, <2>3, <2>4 DEF HandlerFits, InFlight, Comes, Position
<1>3. Progress(x)'
  BY <1>1 DEF Progress, InFlight, Comes, Mention, Uses
<1>4. VaultOK' /\ StoreTypeOK'
  BY <1>1 DEF FilesInv, VaultOK, StoreTypeOK, GivenOut, Agree
<1> QED BY <1>2, <1>3, <1>4, HandlerStep

\* A flag is set to what the store says.
LEMMA SyncFlagKeeps ==
  ASSUME OneAtATime, FilesInv, NEW r \in Request, SyncFlag(r)
  PROVE  FilesInv'
<1>1. PICK q : q = request[r]
  OBVIOUS
<1>2. PICK k : k = TheCall(r).key
  OBVIOUS
<1>3. PICK H : H = IF <<Own(r).id, k>> \in secrets THEN q.profile.has \cup {k}
                   ELSE q.profile.has \ {k}
  OBVIOUS
<1>4. /\ Doing(r, {"sync"}) /\ ~broken
      /\ Stays(r, [Passed(q) EXCEPT !.profile.has = IF <<Own(r).id, k>> \in secrets
                                                      THEN @ \cup {k} ELSE @ \ {k}])
      /\ UNCHANGED <<file, torn, secrets, broken, failures, Requested>>
  BY <1>1, <1>2 DEF SyncFlag
<1>5. /\ q \in RequestRecord /\ HandlerOK(q) /\ HandlerFits(q) /\ Progress(q)
      /\ q.todo # <<>> /\ q.at # "idle" /\ q.profile \in Entry
      /\ Own(r) = q.profile /\ TheCall(r) = Head(q.todo) /\ Head(q.todo).do = "sync"
  BY <1>1, <1>4, Working
<1>6. /\ q.at = "calls" /\ q.op = "save" /\ k \in Uses(q.profile.auth) /\ Tail(q.todo) # <<>>
  <2>1. q.at = "calls" /\ "sync" \in CallsOf(q.op) /\ k \in Uses(q.profile.auth)
    BY <1>2, <1>5, NextCall
  <2>2. q.op = "save"
    BY <1>5, <2>1 DEF CallsOf, RequestRecord
  <2> QED BY <1>5, <2>1, <2>2, NextCall
<1>7. PICK y : y = Passed(q)
  OBVIOUS
<1>8. /\ y \in RequestRecord /\ y.at = q.at /\ y.op = q.op /\ y.profile = q.profile
      /\ y.source = q.source /\ y.todo = Tail(q.todo) /\ y.deep = "no" /\ y.list = q.list
      /\ y.values = q.values /\ y.copied = q.copied /\ y.unread = q.unread
      /\ y.slipped = q.slipped
  BY <1>5, <1>7, PassedFields
<1>9. PICK x : x = [y EXCEPT !.profile.has = H]
  OBVIOUS
<1>10. y.profile \in Entry /\ H \in SUBSET Uses(y.profile.auth)
  <2>1. q.profile.has \subseteq Uses(q.profile.auth)
    BY <1>5 DEF Entry, Uses
  <2> QED BY <1>3, <1>5, <1>6, <1>8, <2>1
<1>11. /\ x \in RequestRecord
       /\ x.profile \in Entry /\ x.profile.id = y.profile.id
       /\ x.profile.auth = y.profile.auth /\ x.profile.has = H
       /\ x.at = y.at /\ x.op = y.op /\ x.source = y.source
       /\ x.todo = y.todo /\ x.deep = y.deep /\ x.list = y.list /\ x.values = y.values
       /\ x.copied = y.copied /\ x.unread = y.unread /\ x.slipped = y.slipped
  BY <1>8, <1>9, <1>10, FlagFields
<1>12. Stays(r, x)
  <2>1. x = [y EXCEPT !.profile.has = IF <<Own(r).id, k>> \in secrets
                                        THEN @ \cup {k} ELSE @ \ {k}]
    BY <1>3, <1>8, <1>9 DEF RequestRecord
  <2> QED BY <1>4, <1>7, <2>1
<1>13. HandlerOK(x)
  BY <1>5, <1>6, <1>8, <1>11, PassedOK
<1>14. ~Comes(x, {"write"})
  BY <1>5, <1>8, <1>11, NoWriteNext
<1>15. HandlerFits(x)
  BY <1>5, <1>8, <1>11, <1>14 DEF HandlerFits, InFlight
<1>16. ASSUME ~x.unread, NEW j \in Uses(x.profile.auth)
       PROVE  \/ \E n \in DOMAIN x.todo : x.todo[n] = Mention("sync", j)
              \/ j \in x.profile.has <=> <<x.profile.id, j>> \in secrets
  <2>1. CASE j = k
    BY <1>3, <1>5, <1>8, <1>11, <2>1
  <2>2. CASE j # k
    <3>1. j \in x.profile.has <=> j \in q.profile.has
      BY <1>3, <1>11, <2>2
    <3>2. j \in Uses(q.profile.auth)
      BY <1>8, <1>11
    <3>3. \/ \E n \in DOMAIN q.todo : q.todo[n] = Mention("sync", j)
          \/ j \in q.profile.has <=> <<q.profile.id, j>> \in secrets
      BY <1>4, <1>5, <1>6, <1>8, <1>11, <1>16, <3>2 DEF Progress
    <3>4. Mention("sync", j) # Head(q.todo)
      <4>1. Mention("sync", j).key = j
        BY DEF Mention
      <4> QED BY <1>2, <1>5, <2>2, <4>1
    <3>5. (\E n \in DOMAIN q.todo : q.todo[n] = Mention("sync", j)) =>
            \E n \in DOMAIN x.todo : x.todo[n] = Mention("sync", j)
      <4>1. (\E n \in DOMAIN q.todo : q.todo[n] = Mention("sync", j)) =>
              \E n \in DOMAIN Tail(q.todo) : Tail(q.todo)[n] = Mention("sync", j)
        BY <1>5, <3>4, StillToDo
      <4> QED BY <1>8, <1>11, <4>1
    <3> QED BY <1>8, <1>11, <3>1, <3>3, <3>5
  <2> QED BY <2>1, <2>2
<1>17. Progress(x)
  BY <1>6, <1>8, <1>11, <1>16 DEF Progress
<1>18. torn' \in BOOLEAN /\ failures' \in 0..MaxFailures /\ torn' = torn
  BY <1>4 DEF FilesInv, StoreTypeOK
<1> QED BY <1>4, <1>11, <1>12, <1>13, <1>15, <1>17, <1>18, QuietStep

\* A call that changed nothing has been made, by a duplication.
LEMMA CopyPassed ==
  ASSUME NEW q \in RequestRecord, HandlerOK(q), HandlerFits(q), Progress(q),
         q.at = "calls", q.op = "clone", q.todo # <<>>, Head(q.todo).do \in {"look", "paste"},
         Tail(q.todo) # <<>>
  PROVE  /\ Passed(q) \in RequestRecord /\ HandlerOK(Passed(q))
         /\ HandlerFits(Passed(q)) /\ Progress(Passed(q))
<1>1. PICK x : x = Passed(q)
  OBVIOUS
<1>2. /\ x \in RequestRecord /\ x.at = q.at /\ x.op = q.op /\ x.profile = q.profile
      /\ x.source = q.source /\ x.todo = Tail(q.todo) /\ x.deep = "no" /\ x.list = q.list
      /\ x.values = q.values /\ x.copied = q.copied /\ x.unread = q.unread
      /\ x.slipped = q.slipped
  BY <1>1, PassedFields
<1>3. q.profile \in Entry /\ q.profile.has = {q.copied[n] : n \in DOMAIN q.copied}
  BY DEF HandlerOK
<1>4. HandlerOK(x)
  BY <1>2, <1>3, PassedOK
<1>5. ~Comes(x, {"write"})
  BY <1>2, NoWriteNext
<1>6. HandlerFits(x)
  BY <1>2, <1>5 DEF HandlerFits, InFlight
<1>7. Progress(x)
  BY <1>2 DEF Progress, InFlight
<1> QED BY <1>1, <1>2, <1>4, <1>6, <1>7

\* The source of a duplication is asked for a secret.
LEMMA LookUpKeeps ==
  ASSUME OneAtATime, FilesInv, NEW r \in Request, LookUp(r)
  PROVE  FilesInv'
<1>1. PICK q : q = request[r]
  OBVIOUS
<1>2. /\ Doing(r, {"look"}) /\ UNCHANGED <<file, torn, secrets, broken, failures, Requested>>
      /\ Stays(r, Passed(q)) \/ Stays(r, Passed(Passed(q)))
  BY <1>1 DEF LookUp
<1>3. /\ q \in RequestRecord /\ HandlerOK(q) /\ HandlerFits(q) /\ Progress(q)
      /\ q.todo # <<>> /\ q.at # "idle" /\ Head(q.todo).do = "look"
  BY <1>1, <1>2, Working
<1>4. /\ q.at = "calls" /\ q.op = "clone" /\ Tail(q.todo) # <<>> /\ Head(Tail(q.todo)).do = "paste"
  <2>1. q.at = "calls" /\ "look" \in CallsOf(q.op)
    BY <1>3, NextCall
  <2>2. q.op = "clone"
    BY <1>3, <2>1 DEF CallsOf, RequestRecord
  <2> QED BY <1>3, <2>1, <2>2, NextCall
<1>5. PICK y : y = Passed(q)
  OBVIOUS
<1>6. y \in RequestRecord /\ HandlerOK(y) /\ HandlerFits(y) /\ Progress(y)
  BY <1>3, <1>4, <1>5, CopyPassed
<1>7. /\ y.at = "calls" /\ y.op = "clone" /\ y.todo # <<>> /\ Head(y.todo).do = "paste"
  BY <1>3, <1>4, <1>5, PassedFields
<1>8. Tail(y.todo) # <<>>
  <2>1. y.at = "calls" /\ y.op \in {"save", "clone"} /\ Tail(y.todo) = <<>> =>
          Head(y.todo).do \in {"write", "find"}
    BY <1>6, <1>7, NextCall
  <2> QED BY <1>7, <2>1
<1>9. PICK z : z = Passed(y)
  OBVIOUS
<1>10. z \in RequestRecord /\ HandlerOK(z) /\ HandlerFits(z) /\ Progress(z)
  BY <1>6, <1>7, <1>8, <1>9, CopyPassed
<1>11. torn' \in BOOLEAN /\ failures' \in 0..MaxFailures /\ torn' = torn
  BY <1>2 DEF FilesInv, StoreTypeOK
<1>12. Stays(r, y) \/ Stays(r, z)
  BY <1>2, <1>5, <1>9
<1> QED BY <1>2, <1>6, <1>10, <1>11, <1>12, QuietStep


\* FileStore.Get, and what deletions and reorders read.
LEMMA FindProfileKeeps ==
  ASSUME OneAtATime, FilesInv, NEW r \in Request, FindProfile(r)
  PROVE  FilesInv'
<1>1. PICK q : q = request[r]
  OBVIOUS
<1>20. PICK i \in q.source : \E n \in Position(file, i) :
        LET z == [Passed(q) EXCEPT !.list = file] IN
        IF z.op = "clone"
          THEN Stays(r, [z EXCEPT !.profile.auth = file[n].auth,
                                  !.todo = Copies(file[n].auth) \o FileCalls(<<"load", "write">>)])
          ELSE Stays(r, z)
  BY <1>1 DEF FindProfile
<1>2. PICK n \in Position(file, i) :
        LET z == [Passed(q) EXCEPT !.list = file] IN
        IF z.op = "clone"
          THEN Stays(r, [z EXCEPT !.profile.auth = file[n].auth,
                                  !.todo = Copies(file[n].auth) \o FileCalls(<<"load", "write">>)])
          ELSE Stays(r, z)
  BY <1>20
<1>3. /\ Doing(r, {"find"}) /\ ~torn /\ UNCHANGED <<file, torn, secrets, broken, failures, Requested>>
  BY DEF FindProfile
<1>4. /\ q \in RequestRecord /\ HandlerOK(q) /\ HandlerFits(q) /\ Progress(q)
      /\ q.todo # <<>> /\ q.at # "idle" /\ q.profile \in Entry
      /\ Head(q.todo).do = "find" /\ Comes(q, {"find"})
  BY <1>1, <1>3, Working
<1>5. file \in Seq(Entry) /\ n \in DOMAIN file /\ file[n].id = i /\ file[n] \in Entry
  <2>1. file \in Seq(Entry)
    BY DEF FilesInv, StoreTypeOK
  <2>2. n \in DOMAIN file /\ file[n].id = i
    BY <1>2 DEF Position
  <2>3. file[n] \in Entry
    BY <2>1, <2>2, LenProperties, ElementOfSeq
  <2> QED BY <2>1, <2>2, <2>3
<1>6. q.at = "calls" /\ q.op # "save"
  <2>1. q.at = "calls" /\ "find" \in CallsOf(q.op)
    BY <1>4, NextCall
  <2> QED BY <2>1 DEF CallsOf
<1>7. PICK y : y = Passed(q)
  OBVIOUS
<1>8. /\ y \in RequestRecord /\ y.at = q.at /\ y.op = q.op /\ y.profile = q.profile
      /\ y.source = q.source /\ y.todo = Tail(q.todo) /\ y.deep = "no" /\ y.list = q.list
      /\ y.values = q.values /\ y.copied = q.copied /\ y.unread = q.unread
      /\ y.slipped = q.slipped
  BY <1>4, <1>7, PassedFields
<1>9. PICK z : z = [y EXCEPT !.list = file]
  OBVIOUS
<1>10. /\ z \in RequestRecord
       /\ z.at = q.at /\ z.op = q.op /\ z.profile = q.profile /\ z.source = q.source
       /\ z.todo = Tail(q.todo) /\ z.deep = "no" /\ z.list = file /\ z.values = q.values
       /\ z.copied = q.copied /\ z.unread = q.unread /\ z.slipped = q.slipped
  BY <1>5, <1>8, <1>9, ListFields
<1>11. torn' \in BOOLEAN /\ failures' \in 0..MaxFailures /\ torn' = torn
  BY <1>3 DEF FilesInv, StoreTypeOK
<1>12. ~broken => Agree(file, secrets)
  BY DEF FilesInv, VaultOK
<1>13. CASE q.op = "clone"
  <2>1. PICK a : a = file[n].auth
    OBVIOUS
  <2>2. a \in Auth
    BY <1>5, <2>1 DEF Entry
  <2>3. PICK t : t = Copies(a) \o FileCalls(<<"load", "write">>)
    OBVIOUS
  <2>4. /\ t \in Seq(StoreCall) /\ t # <<>> /\ Head(t).do # "write"
        /\ Agenda("clone", a, t)
    BY <2>2, <2>3, CopyAgenda
  <2>5. Head(t).do # "find"
    <3>1. Copies(a) \in Seq(StoreCall) /\ CopiesOnly(a, Copies(a)) /\ Len(Copies(a)) >= 2
      BY <2>2, CopiesCopy
    <3>2. LET end == FileCalls(<<"load", "write">>) IN
          /\ end \in Seq(StoreCall) /\ Len(end) = 2
          /\ end[1] = Mention("load", "file") /\ end[2] = Mention("write", "file")
      BY FileEnd
    <3>3. \A m \in 1..Len(Copies(a)) : t[m] = Copies(a)[m]
      BY <2>3, <3>1, <3>2, JoinEnd
    <3>4. 1 \in 1..Len(Copies(a))
      BY <3>1, LenProperties
    <3>5. t[1].do \in {"look", "paste"} /\ Head(t) = t[1]
      BY <3>1, <3>3, <3>4 DEF CopiesOnly
    <3> QED BY <3>5
  <2>6. PICK x : x = [z EXCEPT !.profile.auth = a, !.todo = t]
    OBVIOUS
  <2>7. q.copied = <<>> /\ q.profile.has = {}
    <3>1. q.copied = <<>> /\ q.profile.has = {q.copied[m] : m \in DOMAIN q.copied}
      BY <1>4, <1>6, <1>13 DEF HandlerOK
    <3>2. \A m : m \notin DOMAIN q.copied
      BY <3>1
    <3> QED BY <3>1, <3>2
  <2>8. z.profile \in Entry /\ z.profile.has = {}
    BY <1>4, <1>10, <2>7
  <2>9. /\ x \in RequestRecord
        /\ x.profile \in Entry /\ x.profile.id = z.profile.id
        /\ x.profile.auth = a /\ x.profile.has = {}
        /\ x.at = z.at /\ x.op = z.op /\ x.source = z.source
        /\ x.todo = t /\ x.deep = z.deep /\ x.list = z.list /\ x.values = z.values
        /\ x.copied = z.copied /\ x.unread = z.unread /\ x.slipped = z.slipped
    <3>1. z \in RequestRecord /\ t \in Seq(StoreCall)
      BY <1>10, <2>4
    <3>2. PICK p : p = [z.profile EXCEPT !.auth = a]
      OBVIOUS
    <3>3. p \in Entry /\ p.id = z.profile.id /\ p.auth = a /\ p.has = {}
      BY <2>2, <2>8, <3>2 DEF Entry
    <3>4. x = [z EXCEPT !.profile = p, !.todo = t]
      BY <2>6, <3>1, <3>2 DEF RequestRecord
    <3> QED BY <3>1, <3>3, <3>4 DEF RequestRecord
  <2>10. Stays(r, x)
    <3>1. z.op = "clone"
      BY <1>10, <1>13
    <3>2. Stays(r, [z EXCEPT !.profile.auth = file[n].auth,
                      !.todo = Copies(file[n].auth) \o FileCalls(<<"load", "write">>)])
      BY <1>2, <1>7, <1>9, <3>1
    <3> QED BY <2>1, <2>3, <2>6, <3>2
  <2>11. HandlerOK(x)
    <3>1. Agenda(x.op, x.profile.auth, x.todo)
      BY <1>10, <1>13, <2>4, <2>9
    <3>2. ~Comes(x, {"find"})
      BY <2>5, <2>9 DEF Comes
    <3>3. x.profile.has = {x.copied[m] : m \in DOMAIN x.copied}
      BY <1>10, <2>7, <2>9
    <3> QED BY <1>6, <1>10, <1>13, <2>9, <3>1, <3>2, <3>3 DEF HandlerOK
  <2>12. ~Comes(x, {"write"})
    BY <2>4, <2>9 DEF Comes
  <2>13. HandlerFits(x)
    BY <1>4, <1>10, <1>12, <2>9, <2>12 DEF HandlerFits, InFlight
  <2>14. Progress(x)
    <3>1. ~broken => \A k \in SecretKey :
            <<x.profile.id, k>> \in secrets <=> k \in x.profile.has
      BY <1>4, <1>6, <1>10, <1>13, <2>7, <2>9 DEF Progress
    <3> QED BY <1>6, <1>10, <1>13, <2>4, <2>9, <3>1 DEF Progress, InFlight
  <2> QED BY <1>3, <1>11, <2>9, <2>10, <2>11, <2>13, <2>14, QuietStep
<1>14. CASE q.op # "clone"
  <2>1. Stays(r, z)
    BY <1>2, <1>7, <1>9, <1>10, <1>14
  <2>2. HandlerOK(z)
    BY <1>4, <1>10, <1>14, PassedOK
  <2>3. q.op = "delete" => Position(z.list, z.profile.id) # {}
    <3>1. q.op = "delete" => i = q.profile.id
      BY <1>4 DEF HandlerOK
    <3> QED BY <1>2, <1>10, <3>1
  <2>4. HandlerFits(z)
    BY <1>3, <1>4, <1>10, <1>12, <2>3 DEF HandlerFits, InFlight
  <2>5. Progress(z)
    BY <1>6, <1>10, <1>14 DEF Progress
  <2> QED BY <1>3, <1>10, <1>11, <2>1, <2>2, <2>4, <2>5, QuietStep
<1> QED BY <1>13, <1>14

\* The profiles are read, to be written.
LEMMA LoadProfilesKeeps ==
  ASSUME OneAtATime, FilesInv, NEW r \in Request, LoadProfiles(r)
  PROVE  FilesInv'
<1>1. PICK q : q = request[r]
  OBVIOUS
<1>2. /\ Doing(r, {"load"}) /\ ~torn /\ Stays(r, [Passed(q) EXCEPT !.list = file])
      /\ UNCHANGED <<file, torn, secrets, broken, failures, Requested>>
  BY <1>1 DEF LoadProfiles
<1>3. /\ q \in RequestRecord /\ HandlerOK(q) /\ HandlerFits(q) /\ Progress(q)
      /\ q.todo # <<>> /\ q.at # "idle" /\ q.profile \in Entry /\ Head(q.todo).do = "load"
  BY <1>1, <1>2, Working
<1>4. q.at = "calls" /\ q.op # "delete" /\ (q.op \in {"save", "clone"} => Tail(q.todo) # <<>>)
  <2>1. /\ q.at = "calls" /\ "load" \in CallsOf(q.op)
        /\ q.op \in {"save", "clone"} => Tail(q.todo) # <<>>
    BY <1>3, NextCall
  <2> QED BY <2>1 DEF CallsOf
<1>5. file \in Seq(Entry) /\ (~broken => Agree(file, secrets))
  BY DEF FilesInv, StoreTypeOK, VaultOK
<1>6. PICK y : y = Passed(q)
  OBVIOUS
<1>7. /\ y \in RequestRecord /\ y.at = q.at /\ y.op = q.op /\ y.profile = q.profile
      /\ y.source = q.source /\ y.todo = Tail(q.todo) /\ y.deep = "no" /\ y.list = q.list
      /\ y.values = q.values /\ y.copied = q.copied /\ y.unread = q.unread
      /\ y.slipped = q.slipped
  BY <1>3, <1>6, PassedFields
<1>8. PICK z : z = [y EXCEPT !.list = file]
  OBVIOUS
<1>9. /\ z \in RequestRecord
      /\ z.at = q.at /\ z.op = q.op /\ z.profile = q.profile /\ z.source = q.source
      /\ z.todo = Tail(q.todo) /\ z.deep = "no" /\ z.list = file /\ z.values = q.values
      /\ z.copied = q.copied /\ z.unread = q.unread /\ z.slipped = q.slipped
  BY <1>5, <1>7, <1>8, ListFields
<1>10. torn' \in BOOLEAN /\ failures' \in 0..MaxFailures /\ torn' = torn
  BY <1>2 DEF FilesInv, StoreTypeOK
<1>11. Stays(r, z)
  BY <1>2, <1>6, <1>8
<1>12. HandlerOK(z)
  <2>1. q.op = "clone" => q.profile.has = {q.copied[n] : n \in DOMAIN q.copied}
    BY <1>3, <1>4 DEF HandlerOK
  <2> QED BY <1>3, <1>9, <2>1, PassedOK
<1>13. HandlerFits(z)
  BY <1>2, <1>3, <1>4, <1>5, <1>9 DEF HandlerFits, InFlight
<1>14. Progress(z)
  <2>1. ASSUME q.op = "save", ~q.unread, ~broken, NEW k \in Uses(q.profile.auth)
        PROVE  \/ \E n \in DOMAIN z.todo : z.todo[n] = Mention("sync", k)
               \/ k \in q.profile.has <=> <<q.profile.id, k>> \in secrets
    <3>1. Mention("sync", k) # Head(q.todo)
      BY <1>3 DEF Mention
    <3>2. (\E n \in DOMAIN q.todo : q.todo[n] = Mention("sync", k)) =>
            \E n \in DOMAIN Tail(q.todo) : Tail(q.todo)[n] = Mention("sync", k)
      BY <1>3, <3>1, StillToDo
    <3>3. \/ \E n \in DOMAIN q.todo : q.todo[n] = Mention("sync", k)
          \/ k \in q.profile.has <=> <<q.profile.id, k>> \in secrets
      BY <1>3, <1>4, <2>1 DEF Progress
    <3> QED BY <1>9, <3>2, <3>3
  <2>2. q.op = "clone" /\ ~broken => \A k \in SecretKey :
          <<q.profile.id, k>> \in secrets <=> k \in q.profile.has
    BY <1>3, <1>4 DEF Progress
  <2> QED BY <1>4, <1>9, <2>1, <2>2 DEF Progress, InFlight
<1> QED BY <1>2, <1>9, <1>10, <1>11, <1>12, <1>13, <1>14, QuietStep


\* The profile file is truncated.
LEMMA TruncateProfilesKeeps ==
  ASSUME OneAtATime, FilesInv, NEW r \in Request, TruncateProfiles(r)
  PROVE  FilesInv'
<1>1. PICK q : q = request[r]
  OBVIOUS
<1>2. /\ Doing(r, {"write"}) /\ file' = <<>> /\ torn' = FALSE
      /\ Stays(r, [q EXCEPT !.deep = "cut"])
      /\ UNCHANGED <<secrets, broken, failures, Requested>>
  BY <1>1 DEF TruncateProfiles
<1>3. /\ q \in RequestRecord /\ HandlerOK(q) /\ HandlerFits(q) /\ Progress(q)
      /\ q.todo # <<>> /\ q.at # "idle" /\ Comes(q, {"write"}) /\ Head(q.todo).do = "write"
  BY <1>1, <1>2, Working
<1>4. PICK x : x = [q EXCEPT !.deep = "cut"]
  OBVIOUS
<1>5. /\ x \in RequestRecord
      /\ x.at = q.at /\ x.op = q.op /\ x.profile = q.profile /\ x.source = q.source
      /\ x.todo = q.todo /\ x.deep = "cut" /\ x.list = q.list /\ x.values = q.values
      /\ x.copied = q.copied /\ x.unread = q.unread /\ x.slipped = q.slipped
  BY <1>3, <1>4 DEF RequestRecord
<1>6. Stays(r, x)
  BY <1>2, <1>4
<1>7. UNCHANGED <<vault, used, settled, failed, left, failures, imported, secrets, broken>>
  BY <1>2 DEF Requested
<1>8. Comes(x, Changes \cup {"write"}) /\ ~InFlight(q) /\ ~InFlight(x)
  BY <1>3, <1>5 DEF Comes, InFlight, Changes
<1>9. HandlerOK(x)
  BY <1>3, <1>5, <1>8 DEF HandlerOK, Comes
<1>10. HandlerFits(x)'
  <2>1. x.at # "idle" => x.profile.id \in used' \ failed' /\ (x.op # "reorder" => x.profile.id \notin settled')
    BY <1>3, <1>5, <1>7 DEF HandlerFits
  <2>2. (~broken => Agree(x.list, secrets))'
    BY <1>3, <1>5, <1>7 DEF HandlerFits, Agree
  <2>3. file' = <<>> /\ ~torn'
    BY <1>2
  <2> QED BY <1>5, <1>8, <2>1, <2>2, <2>3 DEF HandlerFits, InFlight, Comes
<1>11. Progress(x)'
  <2>1. x.todo # <<>>
    BY <1>3, <1>5
  <2>2. ASSUME x.op = "save", x.at = "calls", ~x.unread, ~broken', NEW k \in Uses(x.profile.auth)
        PROVE  \/ \E n \in DOMAIN x.todo : x.todo[n] = Mention("sync", k)
               \/ k \in x.profile.has <=> <<x.profile.id, k>> \in secrets'
    BY <1>3, <1>5, <1>7, <2>2 DEF Progress
  <2>3. ASSUME x.op = "clone", x.at = "calls", ~broken', NEW k \in SecretKey
        PROVE  <<x.profile.id, k>> \in secrets' <=> k \in x.profile.has
    BY <1>3, <1>5, <1>7, <2>3 DEF Progress
  <2>4. x.op = "clone" => x.at # "rollback"
    BY <1>3, <1>5, NextCall
  <2> QED BY <1>8, <2>1, <2>2, <2>3, <2>4 DEF Progress, InFlight, Comes, Mention, Uses
<1>12. VaultOK'
  <2>1. Agree(file, secrets)'
    BY <1>2 DEF Agree
  <2>2. broken' => vault' /\ secrets' = {}
    BY <1>7 DEF FilesInv, VaultOK
  <2>3. GivenOut(secrets)'
    BY <1>7 DEF FilesInv, VaultOK, GivenOut
  <2> QED BY <2>1, <2>2, <2>3 DEF VaultOK
<1>13. StoreTypeOK'
  <2>1. <<>> \in Seq(Entry)
    BY EmptySeq
  <2> QED BY <1>2, <1>7, <2>1 DEF FilesInv, StoreTypeOK
<1> QED BY <1>5, <1>6, <1>9, <1>10, <1>11, <1>12, <1>13, HandlerStep

\* Where profiles are in a list.
LEMMA Positions1 ==
  ASSUME NEW list \in Seq(Entry), NEW i
  PROVE  /\ Position(list, i) \in SUBSET (1..Len(list))
         /\ DOMAIN list \ Position(list, i) \in SUBSET (1..Len(list))
         /\ Len(list) \in Nat /\ DOMAIN list = 1..Len(list)
         /\ \A n \in 1..Len(list) : list[n] \in Entry
BY LenProperties, ElementOfSeq DEF Position

\* Parts of a list have its profiles.
LEMMA PickedEntries ==
  ASSUME NEW list \in Seq(Entry), NEW K \in SUBSET (1..Len(list))
  PROVE  /\ Picked(list, K) \in Seq(Entry)
         /\ \A n \in DOMAIN Picked(list, K) : \E m \in DOMAIN list : Picked(list, K)[n] = list[m]
<1>1. /\ Picked(list, K) \in Seq(Entry) /\ Len(Picked(list, K)) = Cardinality(K)
      /\ \A n \in 1..Cardinality(K) : \E k \in K : Rank(K, k) = n /\ Picked(list, K)[n] = list[k]
  BY PickedProperties
<1>2. DOMAIN list = 1..Len(list) /\ DOMAIN Picked(list, K) = 1..Cardinality(K)
  BY <1>1, LenProperties
<1> QED BY <1>1, <1>2

\* What a request writes: the profiles it has read, and its own profile, which
\* a save and a duplication put in the place of the one with that id.
LEMMA WrittenEntries ==
  ASSUME NEW q \in RequestRecord, q.profile \in Entry
  PROVE  /\ ToWrite(q) \in Seq(Entry)
         /\ \A n \in DOMAIN ToWrite(q) :
              \/ \E m \in DOMAIN q.list : ToWrite(q)[n] = q.list[m]
              \/ q.op # "reorder" /\ ToWrite(q)[n] = q.profile
         /\ q.op \in {"save", "clone"} => \A n \in DOMAIN ToWrite(q) :
              ToWrite(q)[n].id = q.profile.id => ToWrite(q)[n] = q.profile
<1> DEFINE list == q.list
           own == Position(list, q.profile.id)
           others == DOMAIN list \ own
<1>1. list \in Seq(Entry)
  BY DEF RequestRecord
<1>2. /\ own \in SUBSET (1..Len(list)) /\ others \in SUBSET (1..Len(list))
      /\ Len(list) \in Nat /\ DOMAIN list = 1..Len(list)
      /\ \A n \in 1..Len(list) : list[n] \in Entry
  BY <1>1, Positions1
<1>3. /\ Picked(list, own) \in Seq(Entry) /\ Picked(list, others) \in Seq(Entry)
      /\ \A n \in DOMAIN Picked(list, own) : \E m \in DOMAIN list : Picked(list, own)[n] = list[m]
      /\ \A n \in DOMAIN Picked(list, others) :
           \E m \in DOMAIN list : Picked(list, others)[n] = list[m]
  <2> HIDE DEF list, own, others
  <2> QED BY <1>1, <1>2, PickedEntries
<1>4. CASE q.op = "delete"
  <2>1. ToWrite(q) = Picked(list, others)
    BY <1>4 DEF ToWrite
  <2> QED BY <1>3, <1>4, <2>1
<1>5. CASE q.op = "reorder"
  <2>1. ToWrite(q) = Picked(list, own) \o Picked(list, others)
    BY <1>5 DEF ToWrite
  <2> DEFINE s == Picked(list, own)
             t == Picked(list, others)
  <2>2. s \in Seq(Entry) /\ t \in Seq(Entry) /\ ToWrite(q) = s \o t
    BY <1>3, <2>1
  <2>3. /\ \A n \in DOMAIN s : \E m \in DOMAIN q.list : s[n] = q.list[m]
        /\ \A n \in DOMAIN t : \E m \in DOMAIN q.list : t[n] = q.list[m]
    BY <1>3
  <2> HIDE DEF s, t
  <2>4. /\ s \o t \in Seq(Entry) /\ Len(s \o t) = Len(s) + Len(t)
        /\ \A n \in 1..(Len(s) + Len(t)) :
             (s \o t)[n] = IF n <= Len(s) THEN s[n] ELSE t[n - Len(s)]
    BY <2>2, ConcatProperties
  <2>5. /\ Len(s) \in Nat /\ Len(t) \in Nat /\ DOMAIN s = 1..Len(s) /\ DOMAIN t = 1..Len(t)
        /\ DOMAIN (s \o t) = 1..(Len(s) + Len(t))
    BY <2>2, <2>4, LenProperties
  <2>6. ASSUME NEW n \in DOMAIN (s \o t)
        PROVE  \/ n \in DOMAIN s /\ (s \o t)[n] = s[n]
               \/ n - Len(s) \in DOMAIN t /\ (s \o t)[n] = t[n - Len(s)]
    BY <2>4, <2>5
  <2>7. \A n \in DOMAIN (s \o t) : \E m \in DOMAIN q.list : (s \o t)[n] = q.list[m]
    BY <2>3, <2>6
  <2> QED BY <1>5, <2>2, <2>4, <2>7
<1>6. CASE q.op \notin {"delete", "reorder"}
  <2>1. ToWrite(q) = Saved(q)
    BY <1>6 DEF ToWrite
  <2>2. CASE own # {}
    <3> DEFINE u == [n \in DOMAIN list |-> IF list[n].id = q.profile.id THEN q.profile ELSE list[n]]
    <3>1. Saved(q) = u
      BY <2>2 DEF Saved
    <3>2. \A n \in 1..Len(list) : (IF list[n].id = q.profile.id THEN q.profile ELSE list[n]) \in Entry
      BY <1>2
    <3>3. u = [n \in 1..Len(list) |-> IF list[n].id = q.profile.id THEN q.profile ELSE list[n]]
      BY <1>2
    <3>4. u \in Seq(Entry)
      BY <1>2, <3>2, <3>3
    <3>5. DOMAIN u = DOMAIN list
      OBVIOUS
    <3>6. \A n \in DOMAIN u : u[n] = IF list[n].id = q.profile.id THEN q.profile ELSE list[n]
      OBVIOUS
    <3> HIDE DEF u
    <3> QED BY <1>6, <2>1, <3>1, <3>4, <3>5, <3>6
  <2>3. CASE own = {}
    <3> DEFINE u == Append(list, q.profile)
    <3>1. Saved(q) = u
      BY <2>3 DEF Saved
    <3>2. /\ u \in Seq(Entry) /\ Len(u) = Len(list) + 1
          /\ \A i \in 1..Len(list) : u[i] = list[i]
          /\ u[Len(list) + 1] = q.profile
      BY <1>1, AppendProperties
    <3>3. DOMAIN u = 1..(Len(list) + 1)
      BY <3>2, LenProperties
    <3>4. \A n \in DOMAIN list : list[n].id # q.profile.id
      BY <2>3 DEF Position
    <3>5. \A n \in DOMAIN u : n \in 1..Len(list) \/ n = Len(list) + 1
      BY <1>2, <3>3
    <3> HIDE DEF u
    <3>6. \A n \in DOMAIN u : \/ n \in DOMAIN list /\ u[n] = list[n] /\ u[n].id # q.profile.id
                              \/ u[n] = q.profile
      BY <1>2, <3>2, <3>4, <3>5
    <3> QED BY <1>6, <2>1, <3>1, <3>2, <3>6
  <2> QED BY <2>2, <2>3
<1> QED BY <1>4, <1>5, <1>6

\* The profile file is written.
LEMMA WriteProfilesKeeps ==
  ASSUME OneAtATime, FilesInv, NEW r \in Request, WriteProfiles(r)
  PROVE  FilesInv'
<1>1. PICK q : q = request[r]
  OBVIOUS
<1>2. /\ Doing(r, {"write"}) /\ file' = ToWrite(q) /\ torn' = FALSE
      /\ Stays(r, [Passed(q) EXCEPT !.list = <<>>])
      /\ UNCHANGED <<secrets, broken, failures, Requested>>
  BY <1>1 DEF WriteProfiles
<1>3. /\ q \in RequestRecord /\ HandlerOK(q) /\ HandlerFits(q) /\ Progress(q)
      /\ q.todo # <<>> /\ q.at # "idle" /\ q.profile \in Entry
      /\ Comes(q, {"write"}) /\ Head(q.todo).do = "write"
  BY <1>1, <1>2, Working
<1>4. q.at = "calls"
  BY <1>3, NextCall
<1>5. /\ file' \in Seq(Entry)
      /\ \A n \in DOMAIN file' :
           \/ \E m \in DOMAIN q.list : file'[n] = q.list[m]
           \/ q.op # "reorder" /\ file'[n] = q.profile
      /\ q.op \in {"save", "clone"} => \A n \in DOMAIN file' :
           file'[n].id = q.profile.id => file'[n] = q.profile
  BY <1>2, <1>3, WrittenEntries
<1>6. PICK y : y = Passed(q)
  OBVIOUS
<1>7. /\ y \in RequestRecord /\ y.at = q.at /\ y.op = q.op /\ y.profile = q.profile
      /\ y.source = q.source /\ y.todo = Tail(q.todo) /\ y.deep = "no" /\ y.list = q.list
      /\ y.values = q.values /\ y.copied = q.copied /\ y.unread = q.unread
      /\ y.slipped = q.slipped
  BY <1>3, <1>6, PassedFields
<1>8. PICK l : l = <<>> /\ l \in Seq(Entry)
  BY EmptySeq
<1>9. PICK x : x = [y EXCEPT !.list = l]
  OBVIOUS
<1>10. /\ x \in RequestRecord
       /\ x.at = q.at /\ x.op = q.op /\ x.profile = q.profile /\ x.source = q.source
       /\ x.todo = Tail(q.todo) /\ x.deep = "no" /\ x.list = l /\ x.values = q.values
       /\ x.copied = q.copied /\ x.unread = q.unread /\ x.slipped = q.slipped
  BY <1>7, <1>8, <1>9, ListFields
<1>11. Stays(r, x)
  BY <1>2, <1>6, <1>8, <1>9
<1>12. UNCHANGED <<vault, used, settled, failed, left, failures, imported, secrets, broken>>
  BY <1>2 DEF Requested
<1>13. HandlerOK(x)
  <2>1. q.op = "clone" => q.profile.has = {q.copied[n] : n \in DOMAIN q.copied}
    BY <1>3, <1>4 DEF HandlerOK
  <2> QED BY <1>3, <1>10, <2>1, PassedOK
<1>14. ~Comes(x, {"write"}) /\ ~InFlight(x)
  BY <1>3, <1>10, NoWriteNext DEF InFlight
<1>15. HandlerFits(x)'
  <2>1. x.at # "idle" => x.profile.id \in used' \ failed' /\ (x.op # "reorder" => x.profile.id \notin settled')
    BY <1>3, <1>10, <1>12 DEF HandlerFits
  <2>2. Agree(x.list, secrets)'
    BY <1>8, <1>10 DEF Agree
  <2> QED BY <1>14, <2>1, <2>2 DEF HandlerFits, InFlight, Comes
<1>16. Progress(x)'
  <2>1. ASSUME x.op = "save", ~x.unread, ~broken', NEW k \in Uses(x.profile.auth)
        PROVE  \/ \E n \in DOMAIN x.todo : x.todo[n] = Mention("sync", k)
               \/ k \in x.profile.has <=> <<x.profile.id, k>> \in secrets'
    <3>1. Mention("sync", k) # Head(q.todo)
      BY <1>3 DEF Mention
    <3>2. (\E n \in DOMAIN q.todo : q.todo[n] = Mention("sync", k)) =>
            \E n \in DOMAIN Tail(q.todo) : Tail(q.todo)[n] = Mention("sync", k)
      BY <1>3, <3>1, StillToDo
    <3>3. \/ \E n \in DOMAIN q.todo : q.todo[n] = Mention("sync", k)
          \/ k \in q.profile.has <=> <<q.profile.id, k>> \in secrets
      BY <1>3, <1>4, <1>10, <1>12, <2>1 DEF Progress
    <3> QED BY <1>10, <1>12, <3>2, <3>3
  <2>2. ASSUME x.op = "clone", ~broken', NEW k \in SecretKey
        PROVE  <<x.profile.id, k>> \in secrets' <=> k \in x.profile.has
    BY <1>3, <1>4, <1>10, <1>12, <2>2 DEF Progress
  <2>3. x.op \in {"save", "clone"} => \A n \in DOMAIN file' :
          file'[n].id = x.profile.id => file'[n] = x.profile
    BY <1>5, <1>10
  <2>4. x.at = "calls"
    BY <1>4, <1>10
  <2> QED BY <1>14, <2>1, <2>2, <2>3, <2>4 DEF Progress, InFlight, Comes, Mention, Uses
<1>17. VaultOK'
  <2>1. ASSUME ~broken, NEW n \in DOMAIN file', file'[n].id \in settled, NEW k \in Uses(file'[n].auth)
        PROVE  k \in file'[n].has <=> <<file'[n].id, k>> \in secrets
    <3>1. q.op # "reorder" => q.profile.id \notin settled
      BY <1>3 DEF HandlerFits
    <3>2. PICK m \in DOMAIN q.list : file'[n] = q.list[m]
      BY <1>5, <2>1, <3>1
    <3>3. Agree(q.list, secrets)
      BY <1>3, <2>1 DEF HandlerFits
    <3> QED BY <2>1, <3>2, <3>3 DEF Agree
  <2>2. (~broken => Agree(file, secrets))'
    BY <1>12, <2>1 DEF Agree, Uses
  <2>3. broken' => vault' /\ secrets' = {}
    BY <1>12 DEF FilesInv, VaultOK
  <2>4. GivenOut(secrets)'
    BY <1>12 DEF FilesInv, VaultOK, GivenOut
  <2> QED BY <2>2, <2>3, <2>4 DEF VaultOK
<1>18. StoreTypeOK'
  BY <1>2, <1>5, <1>12 DEF FilesInv, StoreTypeOK
<1> QED BY <1>10, <1>11, <1>13, <1>15, <1>16, <1>17, <1>18, HandlerStep


\* What a handler does about an error leaves it right.
LEMMA ErrorTaken ==
  ASSUME FilesInv, NEW r \in Request,
         Doing(r, {"set", "paste", "clear", "drop", "look", "sync", "find", "load", "write"})
  PROVE  LET x == AfterError(r) IN
         /\ x \in RequestRecord /\ HandlerOK(x) /\ HandlerFits(x) /\ Progress(x)
         /\ ~Comes(x, {"write"})
<1>1. PICK q : q = request[r]
  OBVIOUS
<1>2. /\ q \in RequestRecord /\ HandlerOK(q) /\ HandlerFits(q) /\ Progress(q)
      /\ q.todo # <<>> /\ q.at # "idle" /\ q.profile \in Entry /\ TheCall(r) = Head(q.todo)
  BY <1>1, Working
<1>3. AfterError(r) = CASE Head(q.todo).do = "drop" -> [Passed(q) EXCEPT !.slipped = TRUE, !.values = {}]
                        [] Head(q.todo).do = "sync" -> [Passed(q) EXCEPT !.unread = TRUE]
                        [] OTHER -> Aborts(q)
  BY <1>1, <1>2 DEF AfterError
<1>4. q.op = "clone" /\ q.at = "calls" => q.profile.has = {q.copied[n] : n \in DOMAIN q.copied}
  BY <1>2 DEF HandlerOK
<1>5. PICK y : y = Passed(q)
  OBVIOUS
<1>6. /\ y \in RequestRecord /\ y.at = q.at /\ y.op = q.op /\ y.profile = q.profile
      /\ y.source = q.source /\ y.todo = Tail(q.todo) /\ y.deep = "no" /\ y.list = q.list
      /\ y.values = q.values /\ y.copied = q.copied /\ y.unread = q.unread
      /\ y.slipped = q.slipped
  BY <1>2, <1>5, PassedFields
<1>7. CASE Head(q.todo).do = "drop"
  <2>1. PICK x : x = [y EXCEPT !.slipped = TRUE, !.values = {}]
    OBVIOUS
  <2>2. /\ x \in RequestRecord
        /\ x.at = q.at /\ x.op = q.op /\ x.profile = q.profile /\ x.source = q.source
        /\ x.todo = Tail(q.todo) /\ x.deep = "no" /\ x.list = q.list
        /\ x.copied = q.copied /\ x.unread = q.unread /\ x.slipped = TRUE
    BY <1>6, <2>1, SlippedFields
  <2>3. x = AfterError(r)
    BY <1>3, <1>5, <1>7, <2>1
  <2>4. HandlerOK(x)
    BY <1>2, <1>4, <2>2, PassedOK
  <2>5. ~Comes(x, {"write"}) /\ ~InFlight(x)
    BY <1>2, <1>7, <2>2, NoWriteNext DEF InFlight
  <2>6. HandlerFits(x)
    BY <1>2, <2>2, <2>5 DEF HandlerFits
  <2>7. Progress(x)
    <3>1. ASSUME x.op = "save", x.at = "calls", NEW k \in Uses(x.profile.auth)
          PROVE  \E n \in DOMAIN x.todo : x.todo[n] = Mention("sync", k)
      <4>1. k \in Uses(q.profile.auth) /\ q.op = "save" /\ q.at = "calls" /\ Head(q.todo).do \in Changes
        BY <1>7, <2>2, <3>1 DEF Changes
      <4>2. \E n \in DOMAIN Tail(q.todo) : Tail(q.todo)[n] = Mention("sync", k)
        BY <1>2, <4>1, LooksLater
      <4> QED BY <2>2, <4>2
    <3>2. ~(x.op = "clone" /\ x.at = "calls")
      <4>1. "drop" \notin CallsOf("clone")
        BY DEF CallsOf
      <4> QED BY <1>2, <1>7, <2>2, <4>1, NextCall
    <3>3. x.op \in {"save", "clone"} /\ x.at = "calls" => x.todo # <<>>
      BY <1>2, <1>7, <2>2, NextCall
    <3> QED BY <2>2, <3>1, <3>2, <3>3 DEF Progress
  <2> QED BY <2>2, <2>3, <2>4, <2>5, <2>6, <2>7
<1>8. CASE Head(q.todo).do = "sync"
  <2>1. PICK x : x = [y EXCEPT !.unread = TRUE]
    OBVIOUS
  <2>2. /\ x \in RequestRecord
        /\ x.at = q.at /\ x.op = q.op /\ x.profile = q.profile /\ x.source = q.source
        /\ x.todo = Tail(q.todo) /\ x.deep = "no" /\ x.list = q.list
        /\ x.copied = q.copied /\ x.unread = TRUE /\ x.slipped = q.slipped
    BY <1>6, <2>1, UnreadFields
  <2>3. x = AfterError(r)
    BY <1>3, <1>5, <1>8, <2>1
  <2>4. HandlerOK(x)
    BY <1>2, <1>4, <2>2, PassedOK
  <2>5. ~Comes(x, {"write"}) /\ ~InFlight(x)
    BY <1>2, <1>8, <2>2, NoWriteNext DEF InFlight
  <2>6. HandlerFits(x)
    BY <1>2, <2>2, <2>5 DEF HandlerFits
  <2>7. x.op = "save" /\ x.at = "calls" /\ x.todo # <<>>
    <3>1. q.at = "calls" /\ "sync" \in CallsOf(q.op)
      BY <1>2, <1>8, NextCall
    <3>2. q.op = "save"
      BY <1>2, <3>1 DEF CallsOf, RequestRecord
    <3> QED BY <1>2, <1>8, <2>2, <3>1, <3>2, NextCall
  <2>8. Progress(x)
    BY <2>2, <2>7 DEF Progress
  <2> QED BY <2>2, <2>3, <2>4, <2>5, <2>6, <2>8
<1>9. CASE Head(q.todo).do \notin {"drop", "sync"}
  <2>1. PICK x : x = Aborts(q)
    OBVIOUS
  <2>2. /\ x \in RequestRecord
        /\ x.at = "rollback" /\ x.op = q.op /\ x.profile = q.profile /\ x.source = q.source
        /\ x.deep = "no" /\ x.list = <<>> /\ x.values = {}
        /\ x.copied = q.copied /\ x.unread = q.unread /\ x.slipped = q.slipped
        /\ DOMAIN x.todo = DOMAIN q.copied
        /\ \A n \in DOMAIN q.copied : x.todo[n] = Mention("drop", q.copied[n])
        /\ q.copied = <<>> => x.todo = <<>>
    BY <1>2, <2>1, AbortsFields
  <2>3. x = AfterError(r)
    BY <1>3, <1>9, <2>1
  <2>4. q.at = "calls"
    BY <1>2, <1>9, NextCall
  <2>5. \A n \in DOMAIN x.todo : x.todo[n].do = "drop"
    <3>1. \A k : Mention("drop", k).do = "drop"
      BY DEF Mention
    <3> QED BY <2>2, <3>1
  <2>6. ~Comes(x, {"write"}) /\ ~Comes(x, {"find"}) /\ ~InFlight(x)
    <3>1. x.todo \in Seq(StoreCall)
      BY <2>2 DEF RequestRecord
    <3>2. x.todo # <<>> => Head(x.todo) = x.todo[1] /\ 1 \in DOMAIN x.todo
      BY <3>1, Rest
    <3> QED BY <2>2, <2>5, <3>2 DEF Comes, InFlight
  <2>7. HandlerOK(x)
    BY <1>2, <2>2, <2>5, <2>6 DEF HandlerOK
  <2>8. HandlerFits(x)
    <3>1. Agree(x.list, secrets)
      BY <2>2 DEF Agree
    <3> QED BY <1>2, <2>2, <2>6, <3>1 DEF HandlerFits
  <2>9. Progress(x)
    <3>1. ASSUME x.op = "clone", NEW k \in SecretKey, <<x.profile.id, k>> \in secrets
          PROVE  \E n \in DOMAIN x.todo : x.todo[n] = Mention("drop", k)
      <4>1. ~broken
        BY <3>1 DEF FilesInv, VaultOK
      <4>2. k \in q.profile.has
        BY <1>2, <2>2, <2>4, <3>1, <4>1 DEF Progress
      <4>3. PICK n \in DOMAIN q.copied : q.copied[n] = k
        BY <1>4, <2>2, <2>4, <3>1, <4>2
      <4> QED BY <2>2, <4>3
    <3> QED BY <2>2, <2>6, <3>1 DEF Progress
  <2> QED BY <2>2, <2>3, <2>6, <2>7, <2>8, <2>9
<1> QED BY <1>7, <1>8, <1>9

\* The stores refuse a call.
LEMMA CallRefusedKeeps ==
  ASSUME OneAtATime, FilesInv, NEW r \in Request, CallRefused(r)
  PROVE  FilesInv'
<1>1. Doing(r, {"set", "paste", "clear", "drop", "look", "sync", "find", "load", "write"})
  BY DEF CallRefused, Doing, Changes
<1>2. /\ Stays(r, AfterError(r)) /\ UNCHANGED <<file, torn, secrets, broken, failures, Requested>>
  BY DEF CallRefused
<1>3. PICK x : x = AfterError(r)
  OBVIOUS
<1>4. x \in RequestRecord /\ HandlerOK(x) /\ HandlerFits(x) /\ Progress(x)
  BY <1>1, <1>3, ErrorTaken
<1>5. torn' \in BOOLEAN /\ failures' \in 0..MaxFailures /\ torn' = torn
  BY <1>2 DEF FilesInv, StoreTypeOK
<1> QED BY <1>2, <1>3, <1>4, <1>5, QuietStep

\* A call fails.
LEMMA CallFailsKeeps ==
  ASSUME OneAtATime, FilesInv, NEW r \in Request, CallFails(r)
  PROVE  FilesInv'
<1>1. /\ Doing(r, {"set", "paste", "clear", "drop", "look", "sync", "find", "load", "write"})
      /\ Stays(r, AfterError(r)) /\ UNCHANGED <<file, secrets, broken, Requested>>
      /\ failures < MaxFailures /\ failures' = failures + 1
      /\ torn' \in IF TheCall(r).do = "write" /\ request[r].deep = "cut" THEN BOOLEAN ELSE {torn}
  BY DEF CallFails
<1>2. PICK x : x = AfterError(r)
  OBVIOUS
<1>3. /\ x \in RequestRecord /\ HandlerOK(x) /\ HandlerFits(x) /\ Progress(x)
      /\ ~Comes(x, {"write"})
  BY <1>1, <1>2, ErrorTaken
<1>4. torn' \in BOOLEAN /\ failures' \in 0..MaxFailures
  BY <1>1, FilesAssumption DEF FilesInv, StoreTypeOK, FilesAssumption
<1> QED BY <1>1, <1>2, <1>3, <1>4, QuietStep

\* A handler that does nothing is right.
LEMMA IdleRight ==
  /\ NoRequest \in RequestRecord /\ HandlerOK(NoRequest) /\ ~Comes(NoRequest, {"write"})
  /\ HandlerFits(NoRequest) /\ Progress(NoRequest)
  /\ HandlerFits(NoRequest)' /\ Progress(NoRequest)'
<1>1. PICK x : x = NoRequest
  OBVIOUS
<1>2. /\ x.at = "idle" /\ x.op = "none" /\ x.deep = "no" /\ x.todo = <<>> /\ x.list = <<>>
      /\ x.copied = <<>>
  BY <1>1 DEF NoRequest
<1>3. x \in RequestRecord
  <2>1. <<>> \in Seq(StoreCall) /\ <<>> \in Seq(Entry) /\ <<>> \in Seq(SecretKey)
    BY EmptySeq
  <2> QED BY <1>1, <2>1 DEF NoRequest, RequestRecord
<1>4. \A c : ~Comes(x, c)
  BY <1>2 DEF Comes
<1>5. HandlerOK(x)
  BY <1>1, <1>2, <1>4 DEF HandlerOK
<1>6. HandlerFits(x) /\ HandlerFits(x)'
  BY <1>2, <1>4 DEF HandlerFits, InFlight, Agree, Comes
<1>7. Progress(x) /\ Progress(x)'
  BY <1>2 DEF Progress
<1>8. (HandlerFits(NoRequest) /\ Progress(NoRequest))'
  <2>1. NoRequest' = NoRequest
    BY DEF NoRequest
  <2> QED BY <1>1, <1>6, <1>7, <2>1 DEF HandlerFits, InFlight, Agree, Comes, Progress, GivenOut, Position
<1> QED BY <1>1, <1>3, <1>4, <1>5, <1>6, <1>7, <1>8

\* A request is answered.
LEMMA AnsweredKeeps ==
  ASSUME OneAtATime, FilesInv, NEW r \in Request, Answered(r)
  PROVE  FilesInv'
<1>1. PICK q : q = request[r]
  OBVIOUS
<1>2. /\ q.at = "calls" /\ q.todo = <<>> /\ Stays(r, NoRequest) /\ Own(r) = q.profile
      /\ settled' = IF q.op \in {"save", "clone"} /\ ~q.unread
                      THEN settled \cup {q.profile.id} ELSE settled
      /\ imported' = IF q.op = "import" THEN imported \cup {q.profile.id} ELSE imported
      /\ UNCHANGED <<vault, file, torn, secrets, broken, left, failures, used, failed>>
  BY <1>1 DEF Answered, Ending, Own
<1>3. /\ q \in RequestRecord /\ HandlerOK(q) /\ HandlerFits(q) /\ Progress(q)
  BY <1>1 DEF FilesInv
<1>4. q.profile.id \in used
  BY <1>2, <1>3 DEF HandlerFits
<1>5. ASSUME q.op \in {"save", "clone"}, ~q.unread, ~broken, NEW k \in Uses(q.profile.auth)
      PROVE  k \in q.profile.has <=> <<q.profile.id, k>> \in secrets
  <2>1. CASE q.op = "save"
    <3>1. ~\E n \in DOMAIN q.todo : q.todo[n] = Mention("sync", k)
      BY <1>2
    <3> QED BY <1>2, <1>3, <1>5, <2>1, <3>1 DEF Progress
  <2>2. CASE q.op = "clone"
    <3>1. k \in SecretKey
      BY DEF Uses, OwnKey, SecretKey
    <3> QED BY <1>2, <1>3, <1>5, <2>2, <3>1 DEF Progress
  <2> QED BY <1>5, <2>1, <2>2
<1>6. ASSUME ~broken, NEW n \in DOMAIN file, file[n].id \in settled', NEW k \in Uses(file[n].auth)
      PROVE  k \in file[n].has <=> <<file[n].id, k>> \in secrets
  <2>1. CASE file[n].id \in settled
    BY <1>6, <2>1 DEF FilesInv, VaultOK, Agree
  <2>2. CASE file[n].id \notin settled
    <3>1. q.op \in {"save", "clone"} /\ ~q.unread /\ file[n].id = q.profile.id
      BY <1>2, <1>6, <2>2
    <3>2. file[n] = q.profile
      BY <1>2, <1>3, <3>1 DEF Progress
    <3> QED BY <1>5, <1>6, <3>1, <3>2
  <2> QED BY <2>1, <2>2
<1>7. VaultOK'
  <2>1. (~broken => Agree(file, secrets))'
    BY <1>2, <1>6 DEF Agree, Uses
  <2>2. broken' => vault' /\ secrets' = {}
    BY <1>2 DEF FilesInv, VaultOK
  <2>3. GivenOut(secrets)'
    BY <1>2 DEF FilesInv, VaultOK, GivenOut
  <2> QED BY <2>1, <2>2, <2>3 DEF VaultOK
<1>8. StoreTypeOK'
  BY <1>2, <1>4 DEF FilesInv, StoreTypeOK
<1> QED BY <1>2, <1>7, <1>8, IdleRight, HandlerStep

\* A request is answered with an error.
LEMMA AnsweredErrorKeeps ==
  ASSUME OneAtATime, FilesInv, NEW r \in Request, AnsweredError(r)
  PROVE  FilesInv'
<1>1. PICK q : q = request[r]
  OBVIOUS
<1>2. /\ q.at = "rollback" /\ q.todo = <<>> /\ Stays(r, NoRequest) /\ Own(r) = q.profile
      /\ failed' = IF q.op = "clone" /\ ~q.slipped THEN failed \cup {q.profile.id} ELSE failed
      /\ UNCHANGED <<vault, file, torn, secrets, broken, left, failures, used, settled, imported>>
  BY <1>1 DEF AnsweredError, Ending, Own
<1>3. /\ q \in RequestRecord /\ HandlerFits(q) /\ Progress(q)
  BY <1>1 DEF FilesInv
<1>4. q.profile.id \in used
  BY <1>2, <1>3 DEF HandlerFits
<1>5. q.op = "clone" /\ ~q.slipped => \A k \in SecretKey : <<q.profile.id, k>> \notin secrets
  BY <1>2, <1>3 DEF Progress
<1>6. VaultOK'
  <2>1. (~broken => Agree(file, secrets))'
    BY <1>2 DEF FilesInv, VaultOK, Agree, Uses
  <2>2. broken' => vault' /\ secrets' = {}
    BY <1>2 DEF FilesInv, VaultOK
  <2>3. GivenOut(secrets)'
    BY <1>2, <1>5 DEF FilesInv, VaultOK, GivenOut
  <2> QED BY <2>1, <2>2, <2>3 DEF VaultOK
<1>7. StoreTypeOK'
  BY <1>2, <1>4 DEF FilesInv, StoreTypeOK
<1> QED BY <1>2, <1>6, <1>7, IdleRight, HandlerStep

\* The launcher ends.
LEMMA CrashKeeps ==
  ASSUME FilesInv, Crash
  PROVE  FilesInv'
<1>1. /\ request' = [r \in Request |-> NoRequest]
      /\ failures < MaxFailures /\ failures' = failures + 1
      /\ torn' \in BOOLEAN
      /\ UNCHANGED <<file, secrets, broken, vault, left, used, settled, failed, imported>>
  BY DEF Crash, Requested, FilesInv, StoreTypeOK
<1>2. VaultOK'
  BY <1>1 DEF FilesInv, VaultOK, GivenOut, Agree
<1>3. StoreTypeOK'
  BY <1>1, FilesAssumption DEF FilesInv, StoreTypeOK, FilesAssumption
<1>4. request' \in [Request -> RequestRecord]
  BY <1>1, IdleRight
<1>5. ASSUME NEW r \in Request
      PROVE  (HandlerOK(request[r]) /\ HandlerFits(request[r]) /\ Progress(request[r]))'
  <2>1. request'[r] = NoRequest
    BY <1>1
  <2> QED BY <2>1, IdleRight DEF HandlerOK, HandlerFits, Progress, InFlight, Agree, Comes, GivenOut,
                                 Position, Agenda, CallsOf, Mention, Uses
<1> QED BY <1>2, <1>3, <1>4, <1>5 DEF FilesInv


\* A request begins.
LEMMA BeginsKeeps ==
  ASSUME OneAtATime, FilesInv, NEW r \in Request,
         NEW op \in {"save", "clone", "delete", "import", "reorder"}, NEW p \in Entry,
         NEW i \in ProfileId, NEW todo \in Seq(StoreCall), Begins(r, op, p, {i}, todo),
         todo # <<>>, Head(todo).do # "write", Agenda(op, p.auth, todo),
         op = "save" => \A k \in Uses(p.auth) : \E n \in DOMAIN todo : todo[n] = Mention("sync", k),
         op = "clone" => p.id \notin used /\ p.has = {},
         op = "delete" => i = p.id
  PROVE  FilesInv'
<1>1. PICK x : x = [NoRequest EXCEPT !.at = "calls", !.op = op, !.profile = p, !.source = {i},
                                     !.todo = todo]
  OBVIOUS
<1>2. /\ Stays(r, x) /\ left > 0 /\ left' = left - 1 /\ used' = used \cup {p.id}
      /\ settled' = IF op = "reorder" THEN settled ELSE settled \ {p.id}
      /\ failed' = failed \ {p.id}
      /\ imported' = IF op = "reorder" THEN imported ELSE imported \ {p.id}
      /\ UNCHANGED <<vault, file, torn, secrets, broken, failures>>
  BY <1>1 DEF Begins, Stays
<1>3. /\ x.at = "calls" /\ x.op = op /\ x.profile = p /\ x.source = {i} /\ x.todo = todo
      /\ x.deep = "no" /\ x.list = <<>> /\ x.values = {} /\ x.copied = <<>>
      /\ x.unread = FALSE /\ x.slipped = FALSE
  BY <1>1 DEF NoRequest
<1>4. x \in RequestRecord
  <2>1. <<>> \in Seq(Entry) /\ <<>> \in Seq(SecretKey)
    BY EmptySeq
  <2> QED BY <1>1, <2>1 DEF NoRequest, RequestRecord
<1>5. ~Comes(x, {"write"}) /\ ~InFlight(x)
  BY <1>3 DEF Comes, InFlight
<1>6. HandlerOK(x)
  <2>1. op = "clone" => x.profile.has = {x.copied[n] : n \in DOMAIN x.copied}
    <3>1. {x.copied[n] : n \in DOMAIN x.copied} = {}
      <4>1. \A n : n \notin DOMAIN x.copied
        BY <1>3
      <4> QED BY <4>1
    <3> QED BY <1>3, <3>1
  <2> QED BY <1>3, <2>1 DEF HandlerOK
<1>7. HandlerFits(x)'
  <2>1. p.id \in used' \ failed' /\ (op # "reorder" => p.id \notin settled')
    BY <1>2
  <2>2. Agree(x.list, secrets)'
    BY <1>3 DEF Agree
  <2> QED BY <1>3, <1>5, <2>1, <2>2 DEF HandlerFits, InFlight, Comes
<1>8. \A k \in SecretKey : op = "clone" => <<p.id, k>> \notin secrets
  <2>1. \A s \in secrets : s[1] \in used
    BY DEF FilesInv, VaultOK, GivenOut
  <2> QED BY <2>1
<1>9. Progress(x)'
  <2>1. op = "save" => \A k \in Uses(x.profile.auth) :
          \E n \in DOMAIN x.todo : x.todo[n] = Mention("sync", k)
    BY <1>3
  <2>2. op = "clone" => \A k \in SecretKey : <<x.profile.id, k>> \notin secrets' /\ k \notin x.profile.has
    BY <1>2, <1>3, <1>8
  <2> QED BY <1>3, <1>5, <2>1, <2>2 DEF Progress, InFlight, Comes, Mention, Uses
<1>10. VaultOK'
  <2>1. (~broken => Agree(file, secrets))'
    BY <1>2 DEF FilesInv, VaultOK, Agree, Uses
  <2>2. broken' => vault' /\ secrets' = {}
    BY <1>2 DEF FilesInv, VaultOK
  <2>3. GivenOut(secrets)'
    BY <1>2 DEF FilesInv, VaultOK, GivenOut
  <2> QED BY <2>1, <2>2, <2>3 DEF VaultOK
<1>11. StoreTypeOK'
  <2>1. p.id \in ProfileId
    BY DEF Entry
  <2>2. left' \in 0..MaxRequests
    BY <1>2, FilesAssumption DEF FilesInv, StoreTypeOK, FilesAssumption
  <2>3. /\ used' \subseteq ProfileId /\ settled' \subseteq used'
        /\ failed' \subseteq used' /\ imported' \subseteq used'
    BY <1>2, <2>1 DEF FilesInv, StoreTypeOK
  <2> QED BY <1>2, <2>2, <2>3 DEF FilesInv, StoreTypeOK
<1> QED BY <1>2, <1>4, <1>6, <1>7, <1>9, <1>10, <1>11, HandlerStep

\* The profiles that requests begin with.
LEMMA NewEntry ==
  ASSUME NEW i \in ProfileId, NEW a \in Auth, NEW h \in SUBSET Uses(a)
  PROVE  [id |-> i, auth |-> a, has |-> h] \in Entry
<1>1. h \in SUBSET SecretKey
  BY DEF Uses, OwnKey, SecretKey
<1> QED BY <1>1 DEF Entry, Uses

\* A save begins.
LEMMA StartSaveKeeps ==
  ASSUME OneAtATime, FilesInv, NEW r \in Request, StartSave(r)
  PROVE  FilesInv'
<1>1. PICK i \in ProfileId, a \in Auth, acts \in SecretAction, claims \in {{}, SecretKey} :
        Begins(r, "save", [id |-> i, auth |-> a, has |-> claims \cap (OwnKey(a) \cup {"token"})],
               {i}, SaveCalls(a, acts))
  BY DEF StartSave
<1>2. PICK h : h = claims \cap (OwnKey(a) \cup {"token"})
  OBVIOUS
<1>3. PICK p : p = [id |-> i, auth |-> a, has |-> h]
  OBVIOUS
<1>4. p \in Entry /\ p.auth = a
  BY <1>2, <1>3, NewEntry DEF Uses
<1>5. PICK todo : todo = SaveCalls(a, acts)
  OBVIOUS
<1>6. /\ todo \in Seq(StoreCall) /\ todo # <<>> /\ Agenda("save", p.auth, todo)
      /\ Head(todo).do # "write"
      /\ \A k \in Uses(p.auth) : \E n \in DOMAIN todo : todo[n] = Mention("sync", k)
  BY <1>4, <1>5, SaveAgenda
<1>7. Begins(r, "save", p, {i}, todo)
  BY <1>1, <1>2, <1>3, <1>5
<1> QED BY <1>4, <1>6, <1>7, BeginsKeeps

\* A request of another kind begins.
LEMMA StartsKeep ==
  ASSUME OneAtATime, FilesInv, NEW r \in Request,
         StartClone(r) \/ StartDelete(r) \/ StartImport(r) \/ StartReorder(r)
  PROVE  FilesInv'
<1>1. used \subseteq ProfileId /\ "local" \in Auth
  BY DEF FilesInv, StoreTypeOK, Auth
<1>2. CASE StartClone(r)
  <2>1. PICK i \in ProfileId, new \in ProfileId :
          /\ new \notin used
          /\ Begins(r, "clone", [id |-> new, auth |-> "local", has |-> {}], {i}, FileCalls(<<"find">>))
    BY <1>2 DEF StartClone
  <2>2. PICK p : p = [id |-> new, auth |-> "local", has |-> {}]
    OBVIOUS
  <2>3. p \in Entry /\ p.id = new /\ p.has = {}
    BY <1>1, <2>2, NewEntry
  <2>4. PICK todo : todo = FileCalls(<<"find">>)
    OBVIOUS
  <2>5. /\ todo \in Seq(StoreCall) /\ todo # <<>> /\ Head(todo).do # "write"
        /\ Agenda("clone", p.auth, todo)
    BY <2>4, FirstAgendas
  <2>6. Begins(r, "clone", p, {i}, todo)
    BY <2>1, <2>2, <2>4
  <2> QED BY <2>1, <2>3, <2>5, <2>6, BeginsKeeps
<1>3. CASE StartDelete(r)
  <2>1. PICK i \in ProfileId :
          Begins(r, "delete", [id |-> i, auth |-> "local", has |-> {}], {i},
                 FileCalls(<<"find", "find", "write">>) \o DropAll)
    BY <1>3 DEF StartDelete
  <2>2. PICK p : p = [id |-> i, auth |-> "local", has |-> {}]
    OBVIOUS
  <2>3. p \in Entry /\ p.id = i
    BY <1>1, <2>2, NewEntry
  <2>4. PICK todo : todo = FileCalls(<<"find", "find", "write">>) \o DropAll
    OBVIOUS
  <2>5. /\ todo \in Seq(StoreCall) /\ todo # <<>> /\ Head(todo).do # "write"
        /\ Agenda("delete", p.auth, todo)
    BY <2>4, FirstAgendas
  <2>6. Begins(r, "delete", p, {i}, todo)
    BY <2>1, <2>2, <2>4
  <2> QED BY <2>3, <2>5, <2>6, BeginsKeeps
<1>4. CASE StartImport(r)
  <2>1. PICK i \in ProfileId, a \in Auth, has \in {{}, {"token"}} :
          Begins(r, "import", [id |-> i, auth |-> a, has |-> has], {i},
                 DropAll \o FileCalls(<<"load", "write">>))
    BY <1>4 DEF StartImport
  <2>2. PICK p : p = [id |-> i, auth |-> a, has |-> has]
    OBVIOUS
  <2>3. p \in Entry
    BY <2>2, NewEntry DEF Uses
  <2>4. PICK todo : todo = DropAll \o FileCalls(<<"load", "write">>)
    OBVIOUS
  <2>5. /\ todo \in Seq(StoreCall) /\ todo # <<>> /\ Head(todo).do # "write"
        /\ Agenda("import", p.auth, todo)
    BY <2>4, FirstAgendas
  <2>6. Begins(r, "import", p, {i}, todo)
    BY <2>1, <2>2, <2>4
  <2> QED BY <2>3, <2>5, <2>6, BeginsKeeps
<1>5. CASE StartReorder(r)
  <2>1. PICK i \in used :
          Begins(r, "reorder", [id |-> i, auth |-> "local", has |-> {}], {i},
                 FileCalls(<<"find", "write">>))
    BY <1>5 DEF StartReorder
  <2>2. PICK p : p = [id |-> i, auth |-> "local", has |-> {}]
    OBVIOUS
  <2>3. p \in Entry /\ i \in ProfileId
    BY <1>1, <2>2, NewEntry
  <2>4. PICK todo : todo = FileCalls(<<"find", "write">>)
    OBVIOUS
  <2>5. /\ todo \in Seq(StoreCall) /\ todo # <<>> /\ Head(todo).do # "write"
        /\ Agenda("reorder", p.auth, todo)
    BY <2>4, FirstAgendas
  <2>6. Begins(r, "reorder", p, {i}, todo)
    BY <2>1, <2>2, <2>4
  <2> QED BY <2>3, <2>5, <2>6, BeginsKeeps
<1> QED BY <1>2, <1>3, <1>4, <1>5

\* The invariant holds when the launcher starts.
LEMMA FilesInitInv == FilesInit => FilesInv
<1> SUFFICES ASSUME FilesInit PROVE FilesInv
  OBVIOUS
<1>1. /\ vault \in Vaults /\ torn = FALSE /\ broken = FALSE
      /\ request = [r \in Request |-> NoRequest] /\ left = MaxRequests /\ failures = 0
      /\ secrets = UNION {{file[n].id} \X file[n].has : n \in DOMAIN file}
      /\ used = {file[n].id : n \in DOMAIN file}
      /\ settled = used /\ failed = {} /\ imported = {}
  BY DEF FilesInit
<1>2. /\ file \in Seq(Entry)
      /\ \A n \in DOMAIN file : file[n].has = Uses(file[n].auth) /\ file[n] \in Entry
      /\ \A m, n \in DOMAIN file : m = n
  <2>1. CASE file = <<>>
    <3>1. \A n : n \notin DOMAIN file
      BY <2>1
    <3> QED BY <2>1, <3>1, EmptySeq
  <2>2. ASSUME NEW i \in ProfileId, NEW a \in Auth,
               file = <<[id |-> i, auth |-> a, has |-> OwnKey(a) \cup {"token"}]>>
        PROVE  /\ file \in Seq(Entry)
               /\ \A n \in DOMAIN file : file[n].has = Uses(file[n].auth) /\ file[n] \in Entry
               /\ \A m, n \in DOMAIN file : m = n
    <3>1. PICK p : p = [id |-> i, auth |-> a, has |-> Uses(a)]
      OBVIOUS
    <3>2. p \in Entry /\ p.has = Uses(p.auth)
      BY <3>1, NewEntry
    <3>3. file = <<p>>
      BY <2>2, <3>1 DEF Uses
    <3>4. file \in Seq(Entry) /\ Len(file) = 1 /\ file[1] = p
      BY <3>2, <3>3, ShortLists
    <3>5. DOMAIN file = 1..1
      BY <3>4, LenProperties
    <3> QED BY <3>2, <3>4, <3>5
  <2> QED BY <2>1, <2>2 DEF FilesInit
<1>3. \A i, k : <<i, k>> \in secrets <=> \E n \in DOMAIN file : i = file[n].id /\ k \in file[n].has
  BY <1>1
<1>4. \A s \in secrets : \E n \in DOMAIN file : s[1] = file[n].id /\ s[2] \in file[n].has /\ s = <<s[1], s[2]>>
  BY <1>1
<1>5. \A n \in DOMAIN file : file[n].id \in ProfileId /\ file[n].has \subseteq SecretKey
  BY <1>2 DEF Entry
<1>6. StoreTypeOK
  <2>1. secrets \subseteq ProfileId \X SecretKey
    BY <1>4, <1>5
  <2>2. used \subseteq ProfileId
    BY <1>1, <1>5
  <2>3. left \in 0..MaxRequests /\ failures \in 0..MaxFailures
    BY <1>1, FilesAssumption DEF FilesAssumption
  <2>4. settled \subseteq used /\ failed \subseteq used /\ imported \subseteq used
    BY <1>1
  <2>5. torn \in BOOLEAN /\ broken \in BOOLEAN
    BY <1>1
  <2> QED BY <1>1, <1>2, <2>1, <2>2, <2>3, <2>4, <2>5 DEF StoreTypeOK
<1>7. VaultOK
  <2>1. Agree(file, secrets)
    BY <1>2, <1>3 DEF Agree
  <2>2. GivenOut(secrets)
    BY <1>1, <1>4 DEF GivenOut
  <2> QED BY <1>1, <2>1, <2>2 DEF VaultOK
<1>8. request \in [Request -> RequestRecord]
  BY <1>1, IdleRight
<1>9. ASSUME NEW r \in Request
      PROVE  HandlerOK(request[r]) /\ HandlerFits(request[r]) /\ Progress(request[r])
  <2>1. request[r] = NoRequest
    BY <1>1
  <2> QED BY <2>1, IdleRight
<1> QED BY <1>6, <1>7, <1>8, <1>9 DEF FilesInv

\* Every step keeps the invariant.
LEMMA FilesNextInv ==
  ASSUME OneAtATime, FilesInv, [FilesNext]_filesVars
  PROVE  FilesInv'
<1>1. CASE UNCHANGED filesVars
  BY <1>1 DEF FilesInv, StoreTypeOK, VaultOK, HandlerOK, HandlerFits, Progress, InFlight, Agree,
              Comes, GivenOut, Position, Agenda, CallsOf, Mention, Uses, filesVars
<1>2. CASE Crash
  BY <1>2, CrashKeeps
<1>3. ASSUME NEW r \in Request,
             \/ StartSave(r) \/ StartClone(r) \/ StartDelete(r) \/ StartImport(r) \/ StartReorder(r)
             \/ ChangeSecret(r) \/ VaultLoad(r) \/ VaultTruncate(r) \/ VaultWrite(r)
             \/ SyncFlag(r) \/ LookUp(r) \/ FindProfile(r) \/ LoadProfiles(r)
             \/ TruncateProfiles(r) \/ WriteProfiles(r)
             \/ CallRefused(r) \/ CallFails(r) \/ Answered(r) \/ AnsweredError(r)
      PROVE  FilesInv'
  BY <1>3, StartSaveKeeps, StartsKeep, ChangeSecretKeeps, VaultLoadKeeps, VaultTruncateKeeps,
     VaultWriteKeeps, SyncFlagKeeps, LookUpKeeps, FindProfileKeeps, LoadProfilesKeeps,
     TruncateProfilesKeeps, WriteProfilesKeeps, CallRefusedKeeps, CallFailsKeeps, AnsweredKeeps,
     AnsweredErrorKeeps
<1> QED BY <1>1, <1>2, <1>3 DEF FilesNext

\* The invariant says that secrets are sound.
LEMMA InvIsSound == FilesInv => SecretsSound
<1> SUFFICES ASSUME FilesInv PROVE SecretsSound
  OBVIOUS
<1>1. FilesTypeOK
  BY DEF FilesInv, StoreTypeOK, RequestRecord, FilesTypeOK
<1>2. FlagsAgree
  BY DEF FilesInv, VaultOK, Agree, Uses, FlagsAgree
<1>3. FailedCopiesLeaveNothing
  BY DEF FilesInv, VaultOK, GivenOut, FailedCopiesLeaveNothing
<1> QED BY <1>1, <1>2, <1>3 DEF SecretsSound

\* What the editor shows is true (saveProfileWithSecrets, syncSecretFlags and the
\* rollback of handleDuplicateProfile in internal/gui/gui.go): after a save or
\* duplication whose reads did not fail, a flag is set exactly where the store
\* has a secret, and a failed duplication leaves none, whichever calls fail
\* before or after and wherever the launcher ends, for any number of profiles
\* and requests, as long as requests do not overlap.
THEOREM SecretsAlwaysSound ==
  ASSUME OneAtATime
  PROVE  FilesSpec => []SecretsSound
<1>1. FilesInit => FilesInv
  BY FilesInitInv
<1>2. FilesInv /\ [FilesNext]_filesVars => FilesInv'
  BY FilesNextInv
<1>3. FilesInv => SecretsSound
  BY InvIsSound
<1> QED BY <1>1, <1>2, <1>3, PTL DEF FilesSpec


-----------------------------------------------------------------------------
(* The refinement of ProfileBook.                                           *)

\* A handler has truncated the profile file.
CutWrite(q) == Comes(q, {"write"}) /\ q.deep = "cut"

\* What stands for the stored profiles.
TheBook == IF Writers = {} THEN file ELSE ToWrite(request[CHOOSE r \in Writers : TRUE])

\* The writer is the request that is handled, or there is none.
LEMMA WriterIs ==
  ASSUME OneAtATime, FilesInv, FilesInv', NEW r \in Request
  PROVE  /\ CutWrite(request[r]) => Writers # {} /\ TheBook = ToWrite(request[r])
         /\ ~CutWrite(request[r]) => Writers = {} /\ TheBook = file
         /\ CutWrite(request'[r]) => Writers' # {} /\ TheBook' = ToWrite(request'[r])
         /\ ~CutWrite(request'[r]) => Writers' = {} /\ TheBook' = file'
<1>1. \A q \in RequestRecord : HandlerOK(q) /\ q.todo # <<>> => q.at # "idle"
  BY DEF HandlerOK, NoRequest
<1>2. /\ request[r] \in RequestRecord /\ HandlerOK(request[r])
      /\ \A s \in Request : s = r
  BY DEF FilesInv, OneAtATime
<1>3. request'[r] \in RequestRecord /\ HandlerOK(request'[r])
  <2>1. (request \in [Request -> RequestRecord] /\ \A s \in Request : HandlerOK(request[s]))'
    BY DEF FilesInv
  <2>2. request'[r] \in RequestRecord
    BY <2>1 DEF RequestRecord, Entry, StoreCall
  <2>3. HandlerOK(request'[r])
    BY <2>1 DEF HandlerOK, Comes, Agenda, CallsOf, Mention, Uses
  <2> QED BY <2>2, <2>3
<1>4. r \in Writers <=> CutWrite(request[r])
  BY <1>1, <1>2 DEF Writers, Doing, TheCall, CutWrite, Comes
<1>5. r \in Writers' <=> CutWrite(request'[r])
  BY <1>1, <1>3 DEF Writers, Doing, TheCall, CutWrite, Comes
<1>6. Writers \subseteq Request /\ Writers' \subseteq Request
  BY DEF Writers
<1>7. Writers = {} \/ Writers = {r}
  BY <1>2, <1>6
<1>8. Writers' = {} \/ Writers' = {r}
  BY <1>2, <1>6
<1>9. Writers = {r} => (CHOOSE s \in Writers : TRUE) = r
  <2> SUFFICES ASSUME Writers = {r} PROVE (CHOOSE s \in {r} : TRUE) = r
    OBVIOUS
  <2> QED OBVIOUS
<1>10. Writers' = {r} => (CHOOSE s \in Writers' : TRUE) = r
  <2> SUFFICES ASSUME Writers' = {r} PROVE (CHOOSE s \in {r} : TRUE) = r
    OBVIOUS
  <2> QED OBVIOUS
<1>11. /\ CutWrite(request[r]) => Writers # {} /\ TheBook = ToWrite(request[r])
       /\ ~CutWrite(request[r]) => Writers = {} /\ TheBook = file
  BY <1>4, <1>7, <1>9 DEF TheBook
<1>12. /\ CutWrite(request'[r]) => Writers' # {} /\ TheBook' = ToWrite(request'[r])
       /\ ~CutWrite(request'[r]) => Writers' = {} /\ TheBook' = file'
  <2>1. TheBook' = IF Writers' = {} THEN file' ELSE ToWrite(request'[CHOOSE s \in Writers' : TRUE])
    BY DEF TheBook, ToWrite, Saved, Position
  <2> QED BY <1>5, <1>8, <1>10, <2>1
<1> QED BY <1>11, <1>12

\* What the book of the refinement is called.
BookStep == Book!Change \/ Book!Finish \/ Book!Lose
BookSame == UNCHANGED Book!bookVars

\* Nothing happens to the book.
LEMMA BookStutters ==
  ASSUME OneAtATime, FilesInv, FilesInv', NEW r \in Request,
         ~CutWrite(request[r]), ~CutWrite(request'[r]), file' = file, torn' = torn
  PROVE  BookSame
<1>1. Writers = {} /\ TheBook = file /\ Writers' = {} /\ TheBook' = file'
  BY WriterIs
<1> QED BY <1>1 DEF BookSame, Book!bookVars, TheBook

\* A write that ends, or is lost.
LEMMA BookEnds ==
  ASSUME OneAtATime, FilesInv, FilesInv', NEW r \in Request,
         CutWrite(request[r]), ~CutWrite(request'[r]),
         \/ file' = ToWrite(request[r]) /\ ~torn'
         \/ file' = file
  PROVE  BookStep
<1>1. Writers # {} /\ TheBook = ToWrite(request[r]) /\ Writers' = {} /\ TheBook' = file'
  BY WriterIs
<1>2. file = <<>> /\ ~torn
  BY DEF FilesInv, HandlerFits, CutWrite
<1>3. torn \in BOOLEAN /\ torn' \in BOOLEAN
  BY DEF FilesInv, StoreTypeOK
<1>4. CASE file' = ToWrite(request[r]) /\ ~torn'
  <2>1. Book!Finish
    BY <1>1, <1>2, <1>3, <1>4 DEF Book!Finish, TheBook
  <2> QED BY <2>1 DEF BookStep
<1>5. CASE file' = file
  <2>1. Book!Lose
    BY <1>1, <1>2, <1>3, <1>5 DEF Book!Lose, TheBook
  <2> QED BY <2>1 DEF BookStep
<1> QED BY <1>4, <1>5

\* The order that a reordering makes of a list is an order of the same list.
LEMMA ReorderArranges ==
  ASSUME NEW list \in Seq(Entry), NEW K \in SUBSET (1..Len(list))
  PROVE  LET others == DOMAIN list \ K IN
         \E f \in [DOMAIN list -> DOMAIN list] :
           /\ {f[n] : n \in DOMAIN list} = DOMAIN list
           /\ Picked(list, K) \o Picked(list, others) = [n \in DOMAIN list |-> list[f[n]]]
<1> DEFINE D == 1..Len(list)
           H == D \ K
           s == Picked(list, K)
           t == Picked(list, H)
           c == Cardinality(K)
           d == Cardinality(H)
<1>1. Len(list) \in Nat /\ DOMAIN list = D /\ K \in SUBSET D /\ H \in SUBSET D
  BY LenProperties
<1>2. /\ s \in Seq(Entry) /\ c \in Nat /\ Len(s) = c
      /\ \A k \in K : Rank(K, k) \in 1..c /\ s[Rank(K, k)] = list[k]
      /\ \A n \in 1..c : \E k \in K : Rank(K, k) = n /\ s[n] = list[k]
  BY PickedProperties
<1>3. /\ t \in Seq(Entry) /\ d \in Nat /\ Len(t) = d
      /\ \A k \in H : Rank(H, k) \in 1..d /\ t[Rank(H, k)] = list[k]
      /\ \A n \in 1..d : \E k \in H : Rank(H, k) = n /\ t[n] = list[k]
  <2> HIDE DEF H
  <2> QED BY <1>1, PickedProperties
<1>4. /\ \A j, k \in K : j < k => Rank(K, j) < Rank(K, k)
      /\ \A j, k \in H : j < k => Rank(H, j) < Rank(H, k)
  <2> HIDE DEF H
  <2> QED BY <1>1, RankCounts
<1>5. c + d = Len(list)
  <2>1. IsFiniteSet(D) /\ Cardinality(D) = Len(list)
    BY <1>1, FS_Interval
  <2>2. IsFiniteSet(K) /\ IsFiniteSet(H)
    BY <1>1, <2>1, FS_Subset
  <2>3. K \cap H = {} /\ K \cup H = D
    BY <1>1
  <2> HIDE DEF D, H, c, d
  <2>4. Cardinality(K \cup H) = Cardinality(K) + Cardinality(H) - Cardinality(K \cap H)
    BY <2>2, FS_Union
  <2>5. Cardinality(K \cap H) = 0
    BY <2>3, FS_EmptySet
  <2>6. Cardinality(K) \in Nat /\ Cardinality(H) \in Nat
    BY <2>2, FS_CardinalityType
  <2>7. Cardinality(D) = Cardinality(K) + Cardinality(H) - 0
    BY <2>3, <2>4, <2>5
  <2>8. Len(list) = c + d
    BY <2>1, <2>6, <2>7 DEF c, d
  <2> QED BY <2>8
<1>6. /\ s \o t \in Seq(Entry) /\ Len(s \o t) = c + d
      /\ \A n \in 1..(c + d) : (s \o t)[n] = IF n <= c THEN s[n] ELSE t[n - c]
  <2> HIDE DEF s, t, c, d
  <2>1. /\ s \o t \in Seq(Entry) /\ Len(s \o t) = Len(s) + Len(t)
        /\ \A n \in 1..(Len(s) + Len(t)) :
             (s \o t)[n] = IF n <= Len(s) THEN s[n] ELSE t[n - Len(s)]
    <3>1. s \in Seq(Entry) /\ t \in Seq(Entry)
      BY <1>2, <1>3
    <3> QED BY <3>1, ConcatProperties
  <2>2. Len(s) = c /\ Len(t) = d
    BY <1>2, <1>3
  <2> QED BY <2>1, <2>2
<1> DEFINE F(n) == IF n <= c THEN CHOOSE k \in K : Rank(K, k) = n
                   ELSE CHOOSE k \in H : Rank(H, k) = n - c
           f == [n \in D |-> F(n)]
<1> HIDE DEF s, t, c, d
<1>7. ASSUME NEW n \in D
      PROVE  F(n) \in D /\ (s \o t)[n] = list[F(n)]
  <2>1. CASE n <= c
    <3>1. n \in 1..c
      BY <1>1, <1>2, <2>1
    <3>2. F(n) = CHOOSE k \in K : Rank(K, k) = n
      BY <2>1
    <3>3. F(n) \in K /\ Rank(K, F(n)) = n
      BY <1>2, <3>1, <3>2
    <3> HIDE DEF F
    <3>4. s[n] = list[F(n)]
      BY <1>2, <3>3
    <3> QED BY <1>1, <1>5, <1>6, <2>1, <3>3, <3>4
  <2>2. CASE ~(n <= c)
    <3>1. n - c \in 1..d
      BY <1>1, <1>2, <1>3, <1>5, <2>2
    <3>2. F(n) = CHOOSE k \in H : Rank(H, k) = n - c
      BY <2>2
    <3> HIDE DEF H
    <3>3. F(n) \in H /\ Rank(H, F(n)) = n - c
      BY <1>3, <3>1, <3>2
    <3> HIDE DEF F
    <3>4. t[n - c] = list[F(n)]
      BY <1>3, <3>3
    <3> QED BY <1>1, <1>5, <1>6, <2>2, <3>3, <3>4
  <2> QED BY <2>1, <2>2
<1>8. ASSUME NEW m \in D
      PROVE  \E n \in D : F(n) = m
  <2>1. CASE m \in K
    <3>1. PICK n : n = Rank(K, m)
      OBVIOUS
    <3>2. n \in 1..c /\ n \in D /\ n <= c
      BY <1>1, <1>2, <1>3, <1>5, <2>1, <3>1
    <3>3. F(n) = CHOOSE k \in K : Rank(K, k) = n
      BY <3>2
    <3>4. F(n) \in K /\ Rank(K, F(n)) = n
      BY <2>1, <3>1, <3>3
    <3> HIDE DEF F
    <3>5. F(n) = m
      <4>1. PICK y : y = F(n)
        OBVIOUS
      <4>2. y \in K /\ Rank(K, y) = Rank(K, m) /\ Rank(K, m) \in Nat
        BY <1>2, <2>1, <3>1, <3>2, <3>4, <4>1
      <4>3. (y < m => Rank(K, y) < Rank(K, m)) /\ (m < y => Rank(K, m) < Rank(K, y))
        BY <1>4, <2>1, <4>2
      <4>4. y \in Nat /\ m \in Nat
        BY <1>1, <4>2
      <4> QED BY <4>1, <4>2, <4>3, <4>4
    <3> QED BY <3>2, <3>5
  <2>2. CASE m \in H
    <3>1. PICK n : n = Rank(H, m) + c
      OBVIOUS
    <3>2. Rank(H, m) \in 1..d
      BY <1>3, <2>2
    <3>3. n \in D /\ ~(n <= c) /\ n - c = Rank(H, m)
      BY <1>1, <1>2, <1>3, <1>5, <3>1, <3>2
    <3>4. F(n) = CHOOSE k \in H : Rank(H, k) = n - c
      BY <3>3
    <3> HIDE DEF H
    <3>5. F(n) \in H /\ Rank(H, F(n)) = Rank(H, m)
      BY <2>2, <3>3, <3>4
    <3> HIDE DEF F
    <3>6. F(n) = m
      <4>1. PICK y : y = F(n)
        OBVIOUS
      <4>2. y \in H /\ Rank(H, y) = Rank(H, m) /\ Rank(H, m) \in Nat
        BY <1>3, <3>2, <3>5, <4>1
      <4>3. (y < m => Rank(H, y) < Rank(H, m)) /\ (m < y => Rank(H, m) < Rank(H, y))
        BY <1>4, <2>2, <4>2
      <4>4. y \in Nat /\ m \in Nat
        BY <1>1, <4>2
      <4> QED BY <4>1, <4>2, <4>3, <4>4
    <3> QED BY <3>3, <3>6
  <2> QED BY <2>1, <2>2
<1> HIDE DEF F
<1>9. f \in [D -> D] /\ {f[n] : n \in D} = D
  BY <1>7, <1>8
<1>10. s \o t = [n \in D |-> list[f[n]]]
  <2>1. DOMAIN (s \o t) = D /\ s \o t = [n \in D |-> (s \o t)[n]]
    <3>1. DOMAIN (s \o t) = 1..Len(s \o t) /\ Len(s \o t) \in Nat
      BY <1>6, LenProperties
    <3>2. DOMAIN (s \o t) = D
      BY <1>5, <1>6, <3>1
    <3>3. s \o t \in [1..Len(s \o t) -> Entry]
      BY <1>6, LenProperties
    <3> QED BY <1>5, <1>6, <3>2, <3>3
  <2>2. \A n \in D : (s \o t)[n] = list[f[n]]
    BY <1>7
  <2> QED BY <2>1, <2>2
<1>11. PICK g : g = f
  OBVIOUS
<1> HIDE DEF f
<1>12. /\ g \in [D -> D] /\ {g[n] : n \in D} = D
       /\ s \o t = [n \in D |-> list[g[n]]]
  BY <1>9, <1>10, <1>11
<1>13. H = DOMAIN list \ K /\ DOMAIN list = D
  BY <1>1
<1> QED BY <1>12, <1>13 DEF s, t


\* What a request writes is a change of the profiles it has read.
LEMMA WriteIsChange ==
  ASSUME NEW q \in RequestRecord, q.profile \in Entry,
         q.op = "delete" => Position(q.list, q.profile.id) # {},
         TheBook = q.list, TheBook' = ToWrite(q)
  PROVE  (\E p \in Entry : Book!Put(p)) \/ (\E i \in ProfileId : Book!Remove(i)) \/ Book!Rearrange
<1>1. PICK b : b = q.list
  OBVIOUS
<1>2. PICK c : c = ToWrite(q)
  OBVIOUS
<1>3. PICK p : p = q.profile
  OBVIOUS
<1>4. b \in Seq(Entry) /\ p \in Entry /\ p.id \in ProfileId
  BY <1>1, <1>3 DEF RequestRecord, Entry
<1>5. /\ b = IF Writers = {} THEN file ELSE ToWrite(request[CHOOSE r \in Writers : TRUE])
      /\ c = (IF Writers = {} THEN file ELSE ToWrite(request[CHOOSE r \in Writers : TRUE]))'
  BY <1>1, <1>2 DEF TheBook
<1>6. CASE q.op = "delete"
  <2>1. c = Picked(b, DOMAIN b \ Position(b, p.id))
    BY <1>1, <1>2, <1>3, <1>6 DEF ToWrite
  <2>2. DOMAIN b \ Position(b, p.id) = {n \in DOMAIN b : b[n].id # p.id}
    BY DEF Position
  <2>3. Book!Listed(b, p.id)
    BY <1>1, <1>3, <1>6 DEF Position, Book!Listed
  <2>4. Book!Picked(b, {n \in DOMAIN b : b[n].id # p.id}) = Picked(b, {n \in DOMAIN b : b[n].id # p.id})
    BY DEF Book!Picked, Picked, Book!Rank, Rank, Book!Cardinality, Cardinality
  <2>5. c = Book!Picked(b, {n \in DOMAIN b : b[n].id # p.id})
    BY <2>1, <2>2, <2>4
  <2>6. Book!Remove(p.id)
    BY <1>5, <2>3, <2>5 DEF Book!Remove
  <2> QED BY <1>4, <2>6
<1>7. CASE q.op = "reorder"
  <2>1. c = Picked(b, Position(b, p.id)) \o Picked(b, DOMAIN b \ Position(b, p.id))
    BY <1>1, <1>2, <1>3, <1>7 DEF ToWrite
  <2>2. Position(b, p.id) \in SUBSET (1..Len(b))
    BY <1>4, Positions1
  <2>3. PICK K : K = Position(b, p.id)
    OBVIOUS
  <2>4. \E f \in [DOMAIN b -> DOMAIN b] :
          /\ {f[n] : n \in DOMAIN b} = DOMAIN b
          /\ Picked(b, K) \o Picked(b, DOMAIN b \ K) = [n \in DOMAIN b |-> b[f[n]]]
    BY <1>4, <2>2, <2>3, ReorderArranges
  <2>5. PICK f \in [DOMAIN b -> DOMAIN b] :
          {f[n] : n \in DOMAIN b} = DOMAIN b /\ c = [n \in DOMAIN b |-> b[f[n]]]
    BY <2>1, <2>3, <2>4
  <2>6. b = TheBook /\ c = TheBook'
    BY <1>1, <1>2
  <2>7. TheBook' = [n \in DOMAIN TheBook |-> TheBook[f[n]]]
    BY <2>5, <2>6
  <2>8. f \in [DOMAIN TheBook -> DOMAIN TheBook] /\ {f[n] : n \in DOMAIN TheBook} = DOMAIN TheBook
    BY <2>5, <2>6
  <2>9. Book!Rearrange
    BY <2>7, <2>8 DEF Book!Rearrange, TheBook
  <2> QED BY <2>9
<1>8. CASE q.op \notin {"delete", "reorder"}
  <2>1. c = IF Position(b, p.id) # {}
              THEN [n \in DOMAIN b |-> IF b[n].id = p.id THEN p ELSE b[n]]
              ELSE Append(b, p)
    BY <1>1, <1>2, <1>3, <1>8 DEF ToWrite, Saved
  <2>2. Position(b, p.id) # {} <=> Book!Listed(b, p.id)
    BY DEF Position, Book!Listed
  <2>3. Book!Put(p)
    BY <1>5, <2>1, <2>2 DEF Book!Put
  <2> QED BY <1>4, <2>3
<1> QED BY <1>6, <1>7, <1>8

\* The profile file is truncated: the change takes place.
LEMMA BookChanges ==
  ASSUME OneAtATime, FilesInv, FilesInv', NEW r \in Request, TruncateProfiles(r)
  PROVE  BookStep
<1>1. PICK q : q = request[r]
  OBVIOUS
<1>2. PICK x : x = [q EXCEPT !.deep = "cut"]
  OBVIOUS
<1>3. Doing(r, {"write"}) /\ q.deep = "no" /\ torn' = FALSE /\ Stays(r, x)
  BY <1>1, <1>2 DEF TruncateProfiles
<1>4. /\ q \in RequestRecord /\ HandlerOK(q) /\ HandlerFits(q) /\ q.profile \in Entry
      /\ Comes(q, {"write"}) /\ q.todo # <<>>
  BY <1>1, <1>3, Working
<1>5. /\ x \in RequestRecord /\ x.todo = q.todo /\ x.deep = "cut" /\ x.op = q.op
      /\ x.list = q.list /\ x.profile = q.profile
  BY <1>2, <1>4 DEF RequestRecord
<1>6. request'[r] = x
  BY <1>3 DEF Stays, FilesInv
<1>7. ~CutWrite(q) /\ CutWrite(x) /\ CutWrite(request'[r])
  BY <1>3, <1>4, <1>5, <1>6 DEF CutWrite, Comes
<1>8. /\ Writers = {} /\ TheBook = file
      /\ Writers' # {} /\ TheBook' = ToWrite(request'[r])
  BY <1>1, <1>7, WriterIs
<1>9. ToWrite(x) = ToWrite(q)
  BY <1>5 DEF ToWrite, Saved
<1>10. /\ ~torn /\ q.list = file
       /\ q.op = "delete" => Position(q.list, q.profile.id) # {}
  BY <1>3, <1>4 DEF HandlerFits
<1>11. (\E p \in Entry : Book!Put(p)) \/ (\E i \in ProfileId : Book!Remove(i)) \/ Book!Rearrange
  BY <1>4, <1>6, <1>8, <1>9, <1>10, WriteIsChange
<1>12. Book!Change
  BY <1>3, <1>8, <1>10, <1>11 DEF Book!Change
<1> QED BY <1>12 DEF BookStep

\* No other call but a write touches the book.
LEMMA BookKept ==
  ASSUME OneAtATime, FilesInv, FilesInv', NEW r \in Request, NEW x, Stays(r, x), ~CutWrite(x),
         ~CutWrite(request[r]), file' = file, torn' = torn
  PROVE  BookSame
<1>1. request'[r] = x
  BY DEF Stays, FilesInv
<1>2. ~CutWrite(request'[r])
  BY <1>1
<1> QED BY <1>2, BookStutters

\* Each step is a step of the book, or none.
LEMMA BookFollows ==
  ASSUME OneAtATime, FilesInv, FilesInv', FilesNext
  PROVE  BookStep \/ BookSame
<1>1. ASSUME NEW r \in Request, NEW calls, Doing(r, calls), "write" \notin calls
      PROVE  ~CutWrite(request[r])
  <2>1. TheCall(r).do \in calls /\ TheCall(r) = Head(request[r].todo)
    BY <1>1, Working
  <2> QED BY <1>1, <2>1 DEF CutWrite, Comes
<1>2. ASSUME NEW r \in Request, NEW x, Stays(r, x), x.deep # "cut", ~CutWrite(request[r]),
             file' = file, torn' = torn
      PROVE  BookSame
  <2>1. ~CutWrite(x)
    BY <1>2 DEF CutWrite
  <2> QED BY <1>2, <2>1, BookKept
<1>3. ASSUME NEW r \in Request, NEW op, NEW p, NEW source, NEW todo, Begins(r, op, p, source, todo)
      PROVE  BookSame
  <2>1. PICK x : x = [NoRequest EXCEPT !.at = "calls", !.op = op, !.profile = p,
                                       !.source = source, !.todo = todo]
    OBVIOUS
  <2>2. Stays(r, x) /\ request[r].at = "idle" /\ UNCHANGED <<file, torn>>
    BY <1>3, <2>1 DEF Begins, Stays
  <2>3. x.deep = "no"
    BY <2>1 DEF NoRequest
  <2>4. request[r] = NoRequest
    BY <2>2 DEF FilesInv, HandlerOK
  <2>5. ~CutWrite(request[r])
    BY <2>4 DEF CutWrite, NoRequest
  <2> QED BY <1>2, <2>2, <2>3, <2>5
<1>4. ASSUME NEW r \in Request,
             StartSave(r) \/ StartClone(r) \/ StartDelete(r) \/ StartImport(r) \/ StartReorder(r)
      PROVE  BookSame
  BY <1>3, <1>4 DEF StartSave, StartClone, StartDelete, StartImport, StartReorder
<1>5. ASSUME NEW r \in Request, Doing(r, Changes)
      PROVE  /\ ~CutWrite(request[r]) /\ Noted(r) \in RequestRecord
             /\ Passed(Noted(r)) \in RequestRecord /\ Passed(Noted(r)).deep = "no"
  <2>1. PICK y : y = Noted(r)
    OBVIOUS
  <2>2. y \in RequestRecord /\ y.todo = request[r].todo
    BY <1>5, <2>1, NotedFields
  <2>3. y.todo # <<>>
    BY <1>5, <2>2, Working
  <2>4. Passed(y) \in RequestRecord /\ Passed(y).deep = "no"
    BY <2>2, <2>3, PassedFields
  <2>5. ~CutWrite(request[r])
    BY <1>1, <1>5 DEF Changes
  <2> QED BY <2>1, <2>2, <2>4, <2>5
<1>6. ASSUME NEW r \in Request, ChangeSecret(r) PROVE BookSame
  <2>1. Doing(r, Changes) /\ Stays(r, Passed(Noted(r))) /\ UNCHANGED <<file, torn>>
    BY <1>6 DEF ChangeSecret
  <2>2. PICK x : x = Passed(Noted(r))
    OBVIOUS
  <2>3. x.deep = "no" /\ ~CutWrite(request[r])
    BY <1>5, <2>1, <2>2
  <2> QED BY <1>2, <2>1, <2>2, <2>3
<1>7. ASSUME NEW r \in Request, VaultLoad(r) PROVE BookSame
  <2>1. PICK x : x = [request[r] EXCEPT !.deep = "loaded", !.values = Changed(r, secrets)]
    OBVIOUS
  <2>2. Doing(r, Changes) /\ Stays(r, x) /\ UNCHANGED <<file, torn>>
    BY <1>7, <2>1 DEF VaultLoad
  <2>3. x.deep = "loaded"
    <3>1. request[r] \in RequestRecord
      BY <2>2, Working
    <3> QED BY <2>1, <3>1 DEF RequestRecord
  <2> QED BY <1>2, <1>5, <2>2, <2>3
<1>8. ASSUME NEW r \in Request, VaultTruncate(r) PROVE BookSame
  <2>1. PICK x : x = [request[r] EXCEPT !.deep = "cut"]
    OBVIOUS
  <2>2. Doing(r, Changes) /\ Stays(r, x) /\ UNCHANGED <<file, torn>>
    BY <1>8, <2>1 DEF VaultTruncate
  <2>3. request[r] \in RequestRecord /\ Head(request[r].todo).do \in Changes
    BY <2>2, Working
  <2>4. x.todo = request[r].todo
    BY <2>1, <2>3 DEF RequestRecord
  <2>5. ~CutWrite(x)
    BY <2>3, <2>4 DEF CutWrite, Comes, Changes
  <2> QED BY <1>5, <2>2, <2>5, BookKept
<1>9. ASSUME NEW r \in Request, VaultWrite(r) PROVE BookSame
  <2>1. PICK y : y = Passed(Noted(r))
    OBVIOUS
  <2>2. PICK x : x = [y EXCEPT !.values = {}]
    OBVIOUS
  <2>3. Doing(r, Changes) /\ Stays(r, x) /\ UNCHANGED <<file, torn>>
    BY <1>9, <2>1, <2>2 DEF VaultWrite
  <2>4. y \in RequestRecord /\ y.deep = "no"
    BY <1>5, <2>1, <2>3
  <2>5. x.deep = "no"
    BY <2>2, <2>4 DEF RequestRecord
  <2> QED BY <1>2, <1>5, <2>3, <2>5
<1>10. ASSUME NEW r \in Request, NEW calls, Doing(r, calls)
       PROVE  /\ request[r] \in RequestRecord
              /\ Passed(request[r]) \in RequestRecord /\ Passed(request[r]).deep = "no"
  <2>1. request[r] \in RequestRecord /\ request[r].todo # <<>>
    BY <1>10, Working
  <2> QED BY <2>1, PassedFields
<1>11. ASSUME NEW r \in Request, SyncFlag(r) PROVE BookSame
  <2>1. PICK y : y = Passed(request[r])
    OBVIOUS
  <2>2. PICK x : x = [y EXCEPT !.profile.has = IF <<Own(r).id, TheCall(r).key>> \in secrets
                                                 THEN @ \cup {TheCall(r).key}
                                                 ELSE @ \ {TheCall(r).key}]
    OBVIOUS
  <2>3. Doing(r, {"sync"}) /\ Stays(r, x) /\ UNCHANGED <<file, torn>>
    BY <1>11, <2>1, <2>2 DEF SyncFlag
  <2>4. y \in RequestRecord /\ y.deep = "no"
    BY <1>10, <2>1, <2>3
  <2>5. x.deep = "no"
    BY <2>2, <2>4 DEF RequestRecord
  <2> QED BY <1>1, <1>2, <2>3, <2>5
<1>12. ASSUME NEW r \in Request, LookUp(r) PROVE BookSame
  <2>1. PICK y : y = Passed(request[r])
    OBVIOUS
  <2>2. PICK z : z = Passed(y)
    OBVIOUS
  <2>3. Doing(r, {"look"}) /\ (Stays(r, y) \/ Stays(r, z)) /\ UNCHANGED <<file, torn>>
    BY <1>12, <2>1, <2>2 DEF LookUp
  <2>4. y \in RequestRecord /\ y.deep = "no"
    BY <1>10, <2>1, <2>3
  <2>5. z.deep = "no"
    BY <2>2, <2>4 DEF Passed, RequestRecord
  <2> QED BY <1>1, <1>2, <2>3, <2>4, <2>5
<1>13. ASSUME NEW r \in Request, FindProfile(r) PROVE BookSame
  <2>1. PICK y : y = Passed(request[r])
    OBVIOUS
  <2>2. PICK z : z = [y EXCEPT !.list = file]
    OBVIOUS
  <2>3. /\ Doing(r, {"find"}) /\ UNCHANGED <<file, torn>>
        /\ \/ Stays(r, z)
           \/ \E n : Stays(r, [z EXCEPT !.profile.auth = file[n].auth,
                     !.todo = Copies(file[n].auth) \o FileCalls(<<"load", "write">>)])
    BY <1>13, <2>1, <2>2 DEF FindProfile
  <2>4. y \in RequestRecord /\ y.deep = "no"
    BY <1>10, <2>1, <2>3
  <2>5. z.deep = "no" /\ z = [z EXCEPT !.deep = "no"]
    BY <2>2, <2>4 DEF RequestRecord
  <2>6. ASSUME NEW a, NEW t PROVE [z EXCEPT !.profile.auth = a, !.todo = t].deep = "no"
    BY <2>5
  <2> QED BY <1>1, <1>2, <2>3, <2>5, <2>6
<1>14. ASSUME NEW r \in Request, LoadProfiles(r) PROVE BookSame
  <2>1. PICK y : y = Passed(request[r])
    OBVIOUS
  <2>2. PICK x : x = [y EXCEPT !.list = file]
    OBVIOUS
  <2>3. Doing(r, {"load"}) /\ Stays(r, x) /\ UNCHANGED <<file, torn>>
    BY <1>14, <2>1, <2>2 DEF LoadProfiles
  <2>4. y \in RequestRecord /\ y.deep = "no"
    BY <1>10, <2>1, <2>3
  <2>5. x.deep = "no"
    BY <2>2, <2>4 DEF RequestRecord
  <2> QED BY <1>1, <1>2, <2>3, <2>5
<1>15. ASSUME NEW r \in Request, TruncateProfiles(r) PROVE BookStep
  BY <1>15, BookChanges
<1>16. ASSUME NEW r \in Request, WriteProfiles(r) PROVE BookStep
  <2>1. PICK y : y = Passed(request[r])
    OBVIOUS
  <2>2. PICK x : x = [y EXCEPT !.list = <<>>]
    OBVIOUS
  <2>3. /\ Doing(r, {"write"}) /\ request[r].deep = "cut" /\ Stays(r, x)
        /\ file' = ToWrite(request[r]) /\ torn' = FALSE
    BY <1>16, <2>1, <2>2 DEF WriteProfiles
  <2>4. y \in RequestRecord /\ y.deep = "no" /\ Comes(request[r], {"write"})
    BY <1>10, <2>1, <2>3, Working
  <2>5. x.deep = "no" /\ request'[r] = x
    BY <2>2, <2>3, <2>4 DEF RequestRecord, Stays, FilesInv
  <2>6. CutWrite(request[r]) /\ ~CutWrite(request'[r])
    BY <2>3, <2>4, <2>5 DEF CutWrite
  <2> QED BY <2>3, <2>6, BookEnds
<1>17. ASSUME NEW r \in Request, CallRefused(r) PROVE BookSame
  <2>1. PICK x : x = AfterError(r)
    OBVIOUS
  <2>2. /\ Doing(r, {"find", "load"} \cup Changes \cup {"sync", "look"})
        /\ Doing(r, {"set", "paste", "clear", "drop", "look", "sync", "find", "load", "write"})
        /\ Stays(r, x) /\ UNCHANGED <<file, torn>>
    BY <1>17, <2>1 DEF CallRefused, Doing, Changes
  <2>3. ~Comes(x, {"write"})
    BY <2>1, <2>2, ErrorTaken
  <2>4. ~CutWrite(request[r]) /\ ~CutWrite(x)
    BY <1>1, <2>2, <2>3 DEF CutWrite, Changes
  <2> QED BY <2>2, <2>4, BookKept
<1>18. ASSUME NEW r \in Request, CallFails(r) PROVE BookStep \/ BookSame
  <2>1. PICK x : x = AfterError(r)
    OBVIOUS
  <2>2. /\ Doing(r, {"set", "paste", "clear", "drop", "look", "sync", "find", "load", "write"})
        /\ Stays(r, x) /\ UNCHANGED file
        /\ torn' \in IF TheCall(r).do = "write" /\ request[r].deep = "cut" THEN BOOLEAN ELSE {torn}
    BY <1>18, <2>1 DEF CallFails
  <2>3. ~CutWrite(x)
    <3>1. ~Comes(x, {"write"})
      BY <2>1, <2>2, ErrorTaken
    <3> QED BY <3>1 DEF CutWrite
  <2>4. request'[r] = x
    BY <2>2 DEF Stays, FilesInv
  <2>5. CASE CutWrite(request[r])
    <3>1. ~CutWrite(request'[r])
      BY <2>3, <2>4
    <3> QED BY <2>2, <2>5, <3>1, BookEnds
  <2>6. CASE ~CutWrite(request[r])
    <3>1. ~(TheCall(r).do = "write" /\ request[r].deep = "cut")
      BY <2>2, <2>6, Working DEF CutWrite, Comes
    <3>2. torn' = torn
      BY <2>2, <3>1
    <3> QED BY <2>2, <2>3, <2>6, <3>2, BookKept
  <2> QED BY <2>5, <2>6
<1>19. ASSUME NEW r \in Request, Answered(r) \/ AnsweredError(r) PROVE BookSame
  <2>1. PICK x : x = NoRequest
    OBVIOUS
  <2>2. request[r].todo = <<>> /\ Stays(r, x) /\ UNCHANGED <<file, torn>>
    BY <1>19, <2>1 DEF Answered, AnsweredError, Ending
  <2>3. x.deep = "no" /\ ~CutWrite(request[r])
    BY <2>1, <2>2 DEF NoRequest, CutWrite, Comes
  <2> QED BY <1>2, <2>2, <2>3
<1>20. CASE Crash
  <2>1. PICK r \in Request : request[r].at # "idle"
    BY <1>20 DEF Crash
  <2>2. /\ request' = [s \in Request |-> NoRequest] /\ UNCHANGED file
        /\ torn' \in IF \E s \in Request : Doing(s, {"write"}) /\ request[s].deep = "cut"
                       THEN BOOLEAN ELSE {torn}
    BY <1>20 DEF Crash
  <2>3. request'[r] = NoRequest /\ NoRequest.deep = "no"
    BY <2>2 DEF NoRequest
  <2>4. ~CutWrite(request'[r])
    BY <2>3 DEF CutWrite
  <2>5. CASE CutWrite(request[r])
    BY <2>2, <2>4, <2>5, BookEnds
  <2>6. CASE ~CutWrite(request[r])
    <3>1. ASSUME NEW s \in Request, Doing(s, {"write"}) PROVE request[s].deep # "cut"
      <4>1. s = r /\ Comes(request[s], {"write"})
        BY <3>1, Working DEF OneAtATime
      <4> QED BY <2>6, <4>1 DEF CutWrite
    <3>2. torn' = torn
      BY <2>2, <3>1
    <3> QED BY <2>2, <2>4, <2>6, <3>2, BookStutters
  <2> QED BY <2>5, <2>6
<1> QED BY <1>4, <1>6, <1>7, <1>8, <1>9, <1>11, <1>12, <1>13, <1>14, <1>15, <1>16, <1>17, <1>18,
           <1>19, <1>20 DEF FilesNext


\* The book at the start.
LEMMA BookBegins == FilesInit => Book!BookInit
<1> SUFFICES ASSUME FilesInit PROVE Book!BookInit
  OBVIOUS
<1>1. \A r \in Request : request[r].at = "idle"
  BY DEF FilesInit, NoRequest
<1>2. Writers = {}
  BY <1>1 DEF Writers, Doing
<1>3. torn = FALSE
  BY DEF FilesInit
<1>4. \E n \in 0..1 : file \in [1..n -> Entry]
  <2>1. CASE file = <<>>
    <3>1. file \in Seq(Entry) /\ Len(file) = 0
      BY <2>1, EmptySeq
    <3>2. file \in [1..0 -> Entry]
      BY <3>1, LenProperties
    <3> QED BY <3>2
  <2>2. ASSUME NEW i \in ProfileId, NEW a \in Auth,
               file = <<[id |-> i, auth |-> a, has |-> OwnKey(a) \cup {"token"}]>>
        PROVE  \E n \in 0..1 : file \in [1..n -> Entry]
    <3>1. PICK p : p = [id |-> i, auth |-> a, has |-> Uses(a)]
      OBVIOUS
    <3>2. p \in Entry
      BY <3>1, NewEntry
    <3>3. file = <<p>>
      BY <2>2, <3>1 DEF Uses
    <3>4. file \in Seq(Entry) /\ Len(file) = 1
      BY <3>2, <3>3, ShortLists
    <3>5. file \in [1..1 -> Entry]
      BY <3>4, LenProperties
    <3> QED BY <3>5
  <2> QED BY <2>1, <2>2 DEF FilesInit
<1> QED BY <1>2, <1>3, <1>4 DEF Book!BookInit

\* ProfileFiles implements ProfileBook (internal/config/store.go:61-175): a
\* request changes one entry, or the order, of the profiles it finds, in one step
\* that takes place where the file is truncated, and all is lost only if that
\* write is interrupted, for requests that do not overlap. Overlapping saves lose
\* changes.
THEOREM ProfilesFollowBook ==
  ASSUME OneAtATime
  PROVE  FilesSpec => ProfilesAtomic
<1>1. FilesInit => FilesInv
  BY FilesInitInv
<1>2. FilesInv /\ [FilesNext]_filesVars => FilesInv'
  BY FilesNextInv
<1>3. FilesInit => Book!BookInit
  BY BookBegins
<1>4. FilesInv /\ FilesInv' /\ [FilesNext]_filesVars => [BookStep]_(Book!bookVars)
  <2> SUFFICES ASSUME FilesInv, FilesInv', [FilesNext]_filesVars PROVE BookStep \/ BookSame
    BY DEF BookSame
  <2>1. CASE FilesNext
    BY <2>1, BookFollows
  <2>2. CASE UNCHANGED filesVars
    <3>1. PICK f : f = request
      OBVIOUS
    <3>2. /\ file' = file /\ torn' = torn /\ request' = request
      BY <2>2 DEF filesVars
    <3>3. Writers' = Writers
      BY <3>2 DEF Writers, Doing, TheCall
    <3>4. TheBook' = TheBook
      BY <3>2, <3>3 DEF TheBook, ToWrite, Saved, Position
    <3> QED BY <3>2, <3>3, <3>4 DEF BookSame, Book!bookVars, TheBook
  <2> QED BY <2>1, <2>2
<1> QED BY <1>1, <1>2, <1>3, <1>4, PTL DEF FilesSpec, ProfilesAtomic, Book!BookSpec, BookStep

-----------------------------------------------------------------------------
(* Both kinds of files.                                                     *)

\* What the files of the launcher say is true (syncSecretFlags and rollback in
\* internal/gui/gui.go, replaceKnownHost in internal/sshclient/hostkey.go): the
\* flags of profiles agree with their secrets, a failed duplication leaves none,
\* and known_hosts is made of keys, for requests that do not overlap and any
\* connections.
THEOREM FilesAlwaysSound ==
  ASSUME OneAtATime
  PROVE  FilesSpec /\ HostsSpec => []FilesSound
<1>1. SecretsSound /\ HostsTypeOK => FilesSound
  BY DEF FilesSound
<1> QED BY <1>1, SecretsAlwaysSound, HostsTypeCorrect, PTL
=============================================================================

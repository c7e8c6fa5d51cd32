----------------------- MODULE ConnectionPool_proofs -----------------------
(* Machine-checked theorems about the connection pool, for every number of  *)
(* callers and connections and every admissible pool size.                  *)
EXTENDS ConnectionPool, FiniteSetTheorems, TLAPS

(* Sets of connections are finite, so their sizes are natural numbers that  *)
(* subsets do not exceed.                                                   *)
LEMMA FiniteConns ==
  ASSUME NEW S \in SUBSET Conn
  PROVE  /\ IsFiniteSet(S) /\ Cardinality(S) \in Nat
         /\ \A T \in SUBSET S : Cardinality(T) <= Cardinality(S)
<1>1. IsFiniteSet(S) BY FS_Subset, PoolAssumption DEF PoolAssumption
<1>2. QED BY <1>1, FS_Subset, FS_CardinalityType

(* What registering one more connection, or none, does to the size.         *)
LEMMA SmallSets ==
  /\ Cardinality({}) = 0
  /\ \A S \in SUBSET Conn : \A c \in Conn :
       Cardinality(S \cup {c}) <= Cardinality(S) + 1
<1>1. ASSUME NEW S \in SUBSET Conn, NEW c \in Conn
      PROVE  Cardinality(S \cup {c}) <= Cardinality(S) + 1
  BY FiniteConns, FS_AddElement
<1>2. QED BY <1>1, FS_EmptySet

(* The local variables are typed after a reconnect returned to its caller.   *)
LEMMA ReturnTyped ==
  ASSUME IInv, rc.at # "off", NEW ok, ReconnectReturns(ok)
  PROVE  /\ pc' \in [User -> PC] /\ held' \in [User -> Conn \cup {None}]
         /\ tries' \in [User -> 0..(MaxSize - 1)]
         /\ attempt' \in [User -> {0, 1}]
         /\ rc' = NoReconnect /\ background' \in 0..MaxBackground
<1> USE PoolAssumption DEF ReconnectReturns, Local, Return, IInv, Runners,
                           userVars, ReconnectState
<1>1. rc.who \in User \cup {Background} BY DEF TypeOK
<1>2. CASE rc.who = Background BY <1>2 DEF TypeOK
<1>3. CASE rc.who # Background BY <1>1, <1>3 DEF TypeOK, PC
<1>4. QED BY <1>2, <1>3

(* The same after a replenish returned to the health check or a reconnect.   *)
LEMMA ReplenishReturnTyped ==
  ASSUME IInv, NEW r \in Replenisher, rp[r].at # "off", ReplenishReturns(r)
  PROVE  /\ pc' \in [User -> PC] /\ held' \in [User -> Conn \cup {None}]
         /\ tries' \in [User -> 0..(MaxSize - 1)]
         /\ attempt' \in [User -> {0, 1}]
         /\ rc' \in ReconnectState /\ background' \in 0..MaxBackground
         /\ hc' \in CheckState /\ rp' \in [Replenisher -> ReplenishState]
<1>1. rp' \in [Replenisher -> ReplenishState]
  BY PoolAssumption
  DEF IInv, TypeOK, ReplenishReturns, ReplenishState, NoReplenish, PoolAssumption
<1>2. CASE r = "health"
  <2>1. hc' = NoCheck /\ UNCHANGED <<rc, background, userVars>>
    BY <1>2 DEF ReplenishReturns
  <2>2. NoCheck \in CheckState
    BY DEF NoCheck, CheckState
  <2>3. QED BY <1>1, <2>1, <2>2 DEF IInv, TypeOK, userVars
<1>3. CASE r # "health"
  <2>1. r = "reconnect" /\ ReconnectReturns(TRUE) /\ hc' = hc
    BY <1>3 DEF ReplenishReturns, Replenisher
  <2>2. rc.at # "off"
    BY <2>1 DEF IInv, Runners
  <2>3. NoReconnect \in ReconnectState
    BY DEF NoReconnect, ReconnectState
  <2>4. QED BY <1>1, <2>1, <2>2, <2>3, ReturnTyped DEF IInv, TypeOK
<1>4. QED BY <1>2, <1>3

(* What a release does: only the released connection leaves the pool, its    *)
(* client, or the set of used connections; and when it stays in the pool, it *)
(* is open and no longer in use.                                             *)
LEMMA ReleaseEffect ==
  ASSUME IInv, NEW u \in User, pc[u] \in {"check", "use"},
         NEW bad \in BOOLEAN, Release(held[u], bad)
  PROVE  /\ conns' \subseteq conns /\ conns \ {held[u]} \subseteq conns'
         /\ open' \subseteq open /\ open \ {held[u]} \subseteq open'
         /\ inUse' \subseteq inUse /\ inUse \ {held[u]} \subseteq inUse'
         /\ held[u] \in conns' => held[u] \in open' /\ held[u] \notin inUse'
         /\ failed \subseteq failed' /\ failed' \subseteq failed \cup {held[u]}
<1> USE PoolAssumption DEF Release, Offer, RemoveConnections, IInv, Members,
                           ClosedIsEmpty
<1>1. CASE closed BY <1>1
<1>2. CASE ~closed /\ held[u] \in retired BY <1>2
<1>3. CASE ~closed /\ held[u] \notin retired BY <1>3
<1>4. QED BY <1>1, <1>2, <1>3

-----------------------------------------------------------------------------
(* Every action preserves the inductive invariant; one lemma per action.    *)

(* Begin: An operation starts.                                             *)
LEMMA BeginKeeps ==
  ASSUME NEW u \in User, IInv, Begin(u)
  PROVE  IInv'
<1> USE PoolAssumption DEF PoolAssumption, Begin, Goto, Local, poolVars,
      connVars, linkVars, userVars, taskVars, Client, NoClient, Replenisher
<1>1. TypeOK'
  BY DEF IInv, TypeOK, Runners, Locals, PC, ReconnectState, ReplenishState,
     CheckState
<1>2. (Runners /\ Locals)'
  BY DEF IInv, TypeOK, Runners, Locals
<1>3. CreatedApart'
  BY FiniteConns, SmallSets DEF IInv, TypeOK, Runners, Locals, CreatedApart,
     Created, Held, Pending, ExclusiveUse, Members, Borrowed, QueueSound
<1>4. (Members /\ Borrowed)'
  BY FiniteConns, SmallSets DEF IInv, TypeOK, Runners, Locals, CreatedApart,
     Created, Held, Pending, ExclusiveUse, Members, Borrowed, QueueSound
<1>5. PoolBounded'
  BY FiniteConns, SmallSets DEF IInv, TypeOK, Runners, CreatedApart,
     PoolBounded
<1>6. (QueueSound /\ ExclusiveUse)'
  BY DEF IInv, TypeOK, Runners, Locals, CreatedApart, Created, Held, Pending,
     ExclusiveUse, Members, Borrowed, QueueSound, ClosedIsEmpty
<1>7. (ClosedIsEmpty /\ SshOwned)'
  BY DEF IInv, TypeOK, Runners, ClosedIsEmpty, SshOwned
<1>8. (ClientsOwned /\ NoClosedClientHandedOut)'
  BY DEF IInv, TypeOK, Runners, Locals, CreatedApart, Created, Held, Pending,
     ExclusiveUse, Members, Borrowed, QueueSound, ClientsOwned,
     NoClosedClientHandedOut, ClosedIsEmpty
<1>9. QED BY <1>1, <1>2, <1>3, <1>4, <1>5, <1>6, <1>7, <1>8 DEF IInv

(* TakeClosed: The pool was found closed.                                  *)
LEMMA TakeClosedKeeps ==
  ASSUME NEW u \in User, IInv, TakeClosed(u)
  PROVE  IInv'
<1> USE PoolAssumption DEF PoolAssumption, TakeClosed, Return, Local,
      poolVars, connVars, linkVars, userVars, taskVars, Client, NoClient,
      Replenisher
<1>1. TypeOK'
  BY DEF IInv, TypeOK, Runners, Locals, PC, ReconnectState, ReplenishState,
     CheckState
<1>2. (Runners /\ Locals)'
  BY DEF IInv, TypeOK, Runners, Locals
<1>3. CreatedApart'
  BY FiniteConns, SmallSets DEF IInv, TypeOK, Runners, Locals, CreatedApart,
     Created, Held, Pending, ExclusiveUse, Members, Borrowed, QueueSound
<1>4. (Members /\ Borrowed)'
  BY FiniteConns, SmallSets DEF IInv, TypeOK, Runners, Locals, CreatedApart,
     Created, Held, Pending, ExclusiveUse, Members, Borrowed, QueueSound
<1>5. PoolBounded'
  BY FiniteConns, SmallSets DEF IInv, TypeOK, Runners, CreatedApart,
     PoolBounded
<1>6. (QueueSound /\ ExclusiveUse)'
  BY DEF IInv, TypeOK, Runners, Locals, CreatedApart, Created, Held, Pending,
     ExclusiveUse, Members, Borrowed, QueueSound, ClosedIsEmpty
<1>7. (ClosedIsEmpty /\ SshOwned)'
  BY DEF IInv, TypeOK, Runners, ClosedIsEmpty, SshOwned
<1>8. (ClientsOwned /\ NoClosedClientHandedOut)'
  BY DEF IInv, TypeOK, Runners, Locals, CreatedApart, Created, Held, Pending,
     ExclusiveUse, Members, Borrowed, QueueSound, ClientsOwned,
     NoClosedClientHandedOut, ClosedIsEmpty
<1>9. QED BY <1>1, <1>2, <1>3, <1>4, <1>5, <1>6, <1>7, <1>8 DEF IInv

(* TakeQueued: A connection is received from the channel.                  *)
LEMMA TakeQueuedKeeps ==
  ASSUME NEW u \in User, IInv, TakeQueued(u)
  PROVE  IInv'
<1> USE PoolAssumption DEF PoolAssumption, TakeQueued, Goto, Local, poolVars,
      connVars, linkVars, userVars, taskVars, Client, NoClient, Replenisher
<1>1. TypeOK'
  BY DEF IInv, TypeOK, Runners, Locals, PC, ReconnectState, ReplenishState,
     CheckState
<1>2. (Runners /\ Locals)'
  BY DEF IInv, TypeOK, Runners, Locals
<1>3. CreatedApart'
  BY FiniteConns, SmallSets DEF IInv, TypeOK, Runners, Locals, CreatedApart,
     Created, Held, Pending, ExclusiveUse, Members, Borrowed, QueueSound
<1>4. (Members /\ Borrowed)'
  BY FiniteConns, SmallSets DEF IInv, TypeOK, Runners, Locals, CreatedApart,
     Created, Held, Pending, ExclusiveUse, Members, Borrowed, QueueSound
<1>5. PoolBounded'
  BY FiniteConns, SmallSets DEF IInv, TypeOK, Runners, CreatedApart,
     PoolBounded
<1>6. (QueueSound /\ ExclusiveUse)'
  BY DEF IInv, TypeOK, Runners, Locals, CreatedApart, Created, Held, Pending,
     ExclusiveUse, Members, Borrowed, QueueSound, ClosedIsEmpty
<1>7. (ClosedIsEmpty /\ SshOwned)'
  BY DEF IInv, TypeOK, Runners, ClosedIsEmpty, SshOwned
<1>8. (ClientsOwned /\ NoClosedClientHandedOut)'
  BY DEF IInv, TypeOK, Runners, Locals, CreatedApart, Created, Held, Pending,
     ExclusiveUse, Members, Borrowed, QueueSound, ClientsOwned,
     NoClosedClientHandedOut, ClosedIsEmpty
<1>9. QED BY <1>1, <1>2, <1>3, <1>4, <1>5, <1>6, <1>7, <1>8 DEF IInv

(* TakeNone: The channel is empty.                                         *)
LEMMA TakeNoneKeeps ==
  ASSUME NEW u \in User, IInv, TakeNone(u)
  PROVE  IInv'
<1> USE PoolAssumption DEF PoolAssumption, TakeNone, Goto, Local, poolVars,
      connVars, linkVars, userVars, taskVars, Client, NoClient, Replenisher
<1>1. TypeOK'
  BY DEF IInv, TypeOK, Runners, Locals, PC, ReconnectState, ReplenishState,
     CheckState
<1>2. (Runners /\ Locals)'
  BY DEF IInv, TypeOK, Runners, Locals
<1>3. CreatedApart'
  BY FiniteConns, SmallSets DEF IInv, TypeOK, Runners, Locals, CreatedApart,
     Created, Held, Pending, ExclusiveUse, Members, Borrowed, QueueSound
<1>4. (Members /\ Borrowed)'
  BY FiniteConns, SmallSets DEF IInv, TypeOK, Runners, Locals, CreatedApart,
     Created, Held, Pending, ExclusiveUse, Members, Borrowed, QueueSound
<1>5. PoolBounded'
  BY FiniteConns, SmallSets DEF IInv, TypeOK, Runners, CreatedApart,
     PoolBounded
<1>6. (QueueSound /\ ExclusiveUse)'
  <2>1. QueueSound'
    BY DEF IInv, TypeOK, Locals, ExclusiveUse, Held, QueueSound
  <2>2. Held' = Held
    BY DEF IInv, TypeOK, Locals, Held
  <2>3. QED
    BY <2>1, <2>2 DEF IInv, TypeOK, Locals, ExclusiveUse, Pending
<1>7. (ClosedIsEmpty /\ SshOwned)'
  BY DEF IInv, TypeOK, Runners, ClosedIsEmpty, SshOwned
<1>8. (ClientsOwned /\ NoClosedClientHandedOut)'
  BY DEF IInv, TypeOK, Runners, Locals, CreatedApart, Created, Held, Pending,
     ExclusiveUse, Members, Borrowed, QueueSound, ClientsOwned,
     NoClosedClientHandedOut, ClosedIsEmpty
<1>9. QED BY <1>1, <1>2, <1>3, <1>4, <1>5, <1>6, <1>7, <1>8 DEF IInv

(* CheckRoom: The size of the pool is read.                                *)
LEMMA CheckRoomKeeps ==
  ASSUME NEW u \in User, IInv, CheckRoom(u)
  PROVE  IInv'
<1> USE PoolAssumption DEF PoolAssumption, CheckRoom, Goto, Local, poolVars,
      connVars, linkVars, userVars, taskVars, Client, NoClient, Replenisher
<1>1. TypeOK'
  BY DEF IInv, TypeOK, Runners, Locals, PC, ReconnectState, ReplenishState,
     CheckState
<1>2. (Runners /\ Locals)'
  BY DEF IInv, TypeOK, Runners, Locals
<1>3. CreatedApart'
  BY FiniteConns, SmallSets DEF IInv, TypeOK, Runners, Locals, CreatedApart,
     Created, Held, Pending, ExclusiveUse, Members, Borrowed, QueueSound
<1>4. (Members /\ Borrowed)'
  BY FiniteConns, SmallSets DEF IInv, TypeOK, Runners, Locals, CreatedApart,
     Created, Held, Pending, ExclusiveUse, Members, Borrowed, QueueSound
<1>5. PoolBounded'
  BY FiniteConns, SmallSets DEF IInv, TypeOK, Runners, CreatedApart,
     PoolBounded
<1>6. (QueueSound /\ ExclusiveUse)'
  <2>1. QueueSound'
    BY DEF IInv, TypeOK, Locals, ExclusiveUse, Held, QueueSound
  <2>2. Held' = Held
    BY DEF IInv, TypeOK, Locals, Held
  <2>3. QED
    BY <2>1, <2>2 DEF IInv, TypeOK, Locals, ExclusiveUse, Pending
<1>7. (ClosedIsEmpty /\ SshOwned)'
  BY DEF IInv, TypeOK, Runners, ClosedIsEmpty, SshOwned
<1>8. (ClientsOwned /\ NoClosedClientHandedOut)'
  BY DEF IInv, TypeOK, Runners, Locals, CreatedApart, Created, Held, Pending,
     ExclusiveUse, Members, Borrowed, QueueSound, ClientsOwned,
     NoClosedClientHandedOut, ClosedIsEmpty
<1>9. QED BY <1>1, <1>2, <1>3, <1>4, <1>5, <1>6, <1>7, <1>8 DEF IInv

(* Create: A connection is dialled for a caller.                           *)
LEMMA CreateKeeps ==
  ASSUME NEW u \in User, IInv, Create(u)
  PROVE  IInv'
<1> USE PoolAssumption DEF PoolAssumption, Create, Alive, OpenClients, Goto,
      Local, poolVars, connVars, linkVars, userVars, taskVars, Client,
      NoClient, Replenisher
<1>1. TypeOK'
  BY DEF IInv, TypeOK, Runners, Locals, PC, ReconnectState, ReplenishState,
     CheckState, Known, Held, Pending
<1>2. (Runners /\ Locals)'
  BY DEF IInv, TypeOK, Runners, Locals, Known, Held, Pending
<1>3. CreatedApart'
  BY FiniteConns, SmallSets DEF IInv, TypeOK, Runners, Locals, CreatedApart,
     Created, Held, Pending, ExclusiveUse, Members, Borrowed, QueueSound,
     Known
<1>4. (Members /\ Borrowed)'
  BY FiniteConns, SmallSets DEF IInv, TypeOK, Runners, Locals, CreatedApart,
     Created, Held, Pending, ExclusiveUse, Members, Borrowed, QueueSound,
     Known
<1>5. PoolBounded'
  BY FiniteConns, SmallSets DEF IInv, TypeOK, Runners, CreatedApart,
     PoolBounded, Known, Held, Pending
<1>6. (QueueSound /\ ExclusiveUse)'
  BY DEF IInv, TypeOK, Runners, Locals, CreatedApart, Created, Held, Pending,
     ExclusiveUse, Members, Borrowed, QueueSound, ClosedIsEmpty, Known
<1>7. (ClosedIsEmpty /\ SshOwned)'
  BY DEF IInv, TypeOK, Runners, ClosedIsEmpty, SshOwned, Known, Held, Pending
<1>8. (ClientsOwned /\ NoClosedClientHandedOut)'
  BY DEF IInv, TypeOK, Runners, Locals, CreatedApart, Created, Held, Pending,
     ExclusiveUse, Members, Borrowed, QueueSound, ClientsOwned,
     NoClosedClientHandedOut, ClosedIsEmpty, Known
<1>9. QED BY <1>1, <1>2, <1>3, <1>4, <1>5, <1>6, <1>7, <1>8 DEF IInv

(* CreateFails: That dial fails.                                           *)
LEMMA CreateFailsKeeps ==
  ASSUME NEW u \in User, IInv, CreateFails(u)
  PROVE  IInv'
<1> USE PoolAssumption DEF PoolAssumption, CreateFails, TransportError,
      Local, Return, poolVars, connVars, linkVars, userVars, taskVars,
      Client, NoClient, Replenisher
<1>1. TypeOK'
  BY DEF IInv, TypeOK, Runners, Locals, PC, ReconnectState, ReplenishState,
     CheckState
<1>2. (Runners /\ Locals)'
  BY DEF IInv, TypeOK, Runners, Locals
<1>3. CreatedApart'
  BY FiniteConns, SmallSets DEF IInv, TypeOK, Runners, Locals, CreatedApart,
     Created, Held, Pending, ExclusiveUse, Members, Borrowed, QueueSound
<1>4. (Members /\ Borrowed)'
  BY FiniteConns, SmallSets DEF IInv, TypeOK, Runners, Locals, CreatedApart,
     Created, Held, Pending, ExclusiveUse, Members, Borrowed, QueueSound
<1>5. PoolBounded'
  BY FiniteConns, SmallSets DEF IInv, TypeOK, Runners, CreatedApart,
     PoolBounded
<1>6. (QueueSound /\ ExclusiveUse)'
  BY DEF IInv, TypeOK, Runners, Locals, CreatedApart, Created, Held, Pending,
     ExclusiveUse, Members, Borrowed, QueueSound, ClosedIsEmpty
<1>7. (ClosedIsEmpty /\ SshOwned)'
  BY DEF IInv, TypeOK, Runners, ClosedIsEmpty, SshOwned
<1>8. (ClientsOwned /\ NoClosedClientHandedOut)'
  BY DEF IInv, TypeOK, Runners, Locals, CreatedApart, Created, Held, Pending,
     ExclusiveUse, Members, Borrowed, QueueSound, ClientsOwned,
     NoClosedClientHandedOut, ClosedIsEmpty
<1>9. QED BY <1>1, <1>2, <1>3, <1>4, <1>5, <1>6, <1>7, <1>8 DEF IInv

(* AddCreated: The dialled connection joins the pool or is closed.         *)
LEMMA AddCreatedKeeps ==
  ASSUME NEW u \in User, IInv, AddCreated(u)
  PROVE  IInv'
<1> USE PoolAssumption DEF PoolAssumption, AddCreated, CanAdd, Goto, Discard,
      Return, Local, poolVars, connVars, linkVars, userVars, taskVars,
      Client, NoClient, Replenisher
<1>1. TypeOK'
  BY DEF IInv, TypeOK, Runners, Locals, PC, ReconnectState, ReplenishState,
     CheckState
<1>2. (Runners /\ Locals)'
  BY DEF IInv, TypeOK, Runners, Locals
<1>3. CreatedApart'
  BY FiniteConns, SmallSets DEF IInv, TypeOK, Runners, Locals, CreatedApart,
     Created, Held, Pending, ExclusiveUse, Members, Borrowed, QueueSound
<1>4. (Members /\ Borrowed)'
  BY FiniteConns, SmallSets DEF IInv, TypeOK, Runners, Locals, CreatedApart,
     Created, Held, Pending, ExclusiveUse, Members, Borrowed, QueueSound
<1>5. PoolBounded'
  <2>1. CASE CanAdd
    <3>1. /\ conns \in SUBSET Conn /\ held[u] \in Conn
          /\ conns' = conns \cup {held[u]}
      BY <2>1 DEF IInv, TypeOK, Locals
    <3>2. Cardinality(conns') <= Cardinality(conns) + 1
      BY ONLY <3>1, SmallSets
    <3>3. Cardinality(conns) \in Nat /\ Cardinality(conns') \in Nat
      BY ONLY <3>1, FiniteConns
    <3>4. QED
      BY ONLY <2>1, <3>2, <3>3, PoolAssumption DEF PoolBounded, CanAdd, PoolAssumption
  <2>2. CASE ~CanAdd
    BY <2>2 DEF IInv, PoolBounded
  <2>3. QED BY <2>1, <2>2
<1>6. (QueueSound /\ ExclusiveUse)'
  BY DEF IInv, TypeOK, Runners, Locals, CreatedApart, Created, Held, Pending,
     ExclusiveUse, Members, Borrowed, QueueSound, ClosedIsEmpty
<1>7. (ClosedIsEmpty /\ SshOwned)'
  BY DEF IInv, TypeOK, Runners, ClosedIsEmpty, SshOwned
<1>8. (ClientsOwned /\ NoClosedClientHandedOut)'
  BY DEF IInv, TypeOK, Runners, Locals, CreatedApart, Created, Held, Pending,
     ExclusiveUse, Members, Borrowed, QueueSound, ClientsOwned,
     NoClosedClientHandedOut, ClosedIsEmpty
<1>9. QED BY <1>1, <1>2, <1>3, <1>4, <1>5, <1>6, <1>7, <1>8 DEF IInv

(* WaitTimesOut: The deadline of a waiting caller passes.                  *)
LEMMA WaitTimesOutKeeps ==
  ASSUME NEW u \in User, IInv, WaitTimesOut(u)
  PROVE  IInv'
<1> USE PoolAssumption DEF PoolAssumption, WaitTimesOut, TransportError,
      Local, Return, poolVars, connVars, linkVars, userVars, taskVars,
      Client, NoClient, Replenisher
<1>1. TypeOK'
  BY DEF IInv, TypeOK, Runners, Locals, PC, ReconnectState, ReplenishState,
     CheckState
<1>2. (Runners /\ Locals)'
  BY DEF IInv, TypeOK, Runners, Locals
<1>3. CreatedApart'
  BY FiniteConns, SmallSets DEF IInv, TypeOK, Runners, Locals, CreatedApart,
     Created, Held, Pending, ExclusiveUse, Members, Borrowed, QueueSound
<1>4. (Members /\ Borrowed)'
  BY FiniteConns, SmallSets DEF IInv, TypeOK, Runners, Locals, CreatedApart,
     Created, Held, Pending, ExclusiveUse, Members, Borrowed, QueueSound
<1>5. PoolBounded'
  BY FiniteConns, SmallSets DEF IInv, TypeOK, Runners, CreatedApart,
     PoolBounded
<1>6. (QueueSound /\ ExclusiveUse)'
  BY DEF IInv, TypeOK, Runners, Locals, CreatedApart, Created, Held, Pending,
     ExclusiveUse, Members, Borrowed, QueueSound, ClosedIsEmpty
<1>7. (ClosedIsEmpty /\ SshOwned)'
  BY DEF IInv, TypeOK, Runners, ClosedIsEmpty, SshOwned
<1>8. (ClientsOwned /\ NoClosedClientHandedOut)'
  BY DEF IInv, TypeOK, Runners, Locals, CreatedApart, Created, Held, Pending,
     ExclusiveUse, Members, Borrowed, QueueSound, ClientsOwned,
     NoClosedClientHandedOut, ClosedIsEmpty
<1>9. QED BY <1>1, <1>2, <1>3, <1>4, <1>5, <1>6, <1>7, <1>8 DEF IInv

(* MarkInUse: A received connection is marked.                             *)
LEMMA MarkInUseKeeps ==
  ASSUME NEW u \in User, IInv, MarkInUse(u)
  PROVE  IInv'
<1> USE PoolAssumption DEF PoolAssumption, MarkInUse, Goto, Local, poolVars,
      connVars, linkVars, userVars, taskVars, Client, NoClient, Replenisher
<1>1. TypeOK'
  BY DEF IInv, TypeOK, Runners, Locals, PC, ReconnectState, ReplenishState,
     CheckState
<1>2. (Runners /\ Locals)'
  BY DEF IInv, TypeOK, Runners, Locals
<1>3. CreatedApart'
  BY FiniteConns, SmallSets DEF IInv, TypeOK, Runners, Locals, CreatedApart,
     Created, Held, Pending, ExclusiveUse, Members, Borrowed, QueueSound
<1>4. (Members /\ Borrowed)'
  BY FiniteConns, SmallSets DEF IInv, TypeOK, Runners, Locals, CreatedApart,
     Created, Held, Pending, ExclusiveUse, Members, Borrowed, QueueSound
<1>5. PoolBounded'
  BY FiniteConns, SmallSets DEF IInv, TypeOK, Runners, CreatedApart,
     PoolBounded
<1>6. (QueueSound /\ ExclusiveUse)'
  <2>1. QueueSound'
    BY DEF IInv, TypeOK, Locals, ExclusiveUse, Held, QueueSound
  <2>2. Held' = Held
    BY DEF IInv, TypeOK, Locals, Held
  <2>3. QED
    BY <2>1, <2>2 DEF IInv, TypeOK, Locals, ExclusiveUse, Pending
<1>7. (ClosedIsEmpty /\ SshOwned)'
  BY DEF IInv, TypeOK, Runners, ClosedIsEmpty, SshOwned
<1>8. (ClientsOwned /\ NoClosedClientHandedOut)'
  BY DEF IInv, TypeOK, Runners, Locals, CreatedApart, Created, Held, Pending,
     ExclusiveUse, Members, Borrowed, QueueSound, ClientsOwned,
     NoClosedClientHandedOut, ClosedIsEmpty
<1>9. QED BY <1>1, <1>2, <1>3, <1>4, <1>5, <1>6, <1>7, <1>8 DEF IInv

(* Usable: The connection is found usable.                                 *)
LEMMA UsableKeeps ==
  ASSUME NEW u \in User, IInv, Usable(u)
  PROVE  IInv'
<1> USE PoolAssumption DEF PoolAssumption, Usable, LooksUsable, Local,
      poolVars, connVars, linkVars, userVars, taskVars, Client, NoClient,
      Replenisher
<1>1. TypeOK'
  BY DEF IInv, TypeOK, Runners, Locals, PC, ReconnectState, ReplenishState,
     CheckState
<1>2. (Runners /\ Locals)'
  BY DEF IInv, TypeOK, Runners, Locals
<1>3. CreatedApart'
  BY FiniteConns, SmallSets DEF IInv, TypeOK, Runners, Locals, CreatedApart,
     Created, Held, Pending, ExclusiveUse, Members, Borrowed, QueueSound
<1>4. (Members /\ Borrowed)'
  BY FiniteConns, SmallSets DEF IInv, TypeOK, Runners, Locals, CreatedApart,
     Created, Held, Pending, ExclusiveUse, Members, Borrowed, QueueSound
<1>5. PoolBounded'
  BY FiniteConns, SmallSets DEF IInv, TypeOK, Runners, CreatedApart,
     PoolBounded
<1>6. (QueueSound /\ ExclusiveUse)'
  BY DEF IInv, TypeOK, Runners, Locals, CreatedApart, Created, Held, Pending,
     ExclusiveUse, Members, Borrowed, QueueSound, ClosedIsEmpty
<1>7. (ClosedIsEmpty /\ SshOwned)'
  BY DEF IInv, TypeOK, Runners, ClosedIsEmpty, SshOwned
<1>8. (ClientsOwned /\ NoClosedClientHandedOut)'
  BY DEF IInv, TypeOK, Runners, Locals, CreatedApart, Created, Held, Pending,
     ExclusiveUse, Members, Borrowed, QueueSound, ClientsOwned,
     NoClosedClientHandedOut, ClosedIsEmpty
<1>9. QED BY <1>1, <1>2, <1>3, <1>4, <1>5, <1>6, <1>7, <1>8 DEF IInv

(* Unusable: It is found dead and is released.                             *)
LEMMA UnusableKeeps ==
  ASSUME NEW u \in User, IInv, Unusable(u)
  PROVE  IInv'
<1> USE PoolAssumption DEF PoolAssumption, Unusable, Release, MoreTries,
      Local, TransportError, RemoveConnections, Offer, Return, poolVars,
      connVars, linkVars, userVars, taskVars, Client, NoClient, Replenisher
<1>1. TypeOK'
  BY DEF IInv, TypeOK, Runners, Locals, PC, ReconnectState, ReplenishState,
     CheckState
<1>2. (Runners /\ Locals)'
  BY DEF IInv, TypeOK, Runners, Locals
<1>3. CreatedApart'
  BY FiniteConns, SmallSets DEF IInv, TypeOK, Runners, Locals, CreatedApart,
     Created, Held, Pending, ExclusiveUse, Members, Borrowed, QueueSound
<1>4. (Members /\ Borrowed)'
  <2>1. /\ held' = [held EXCEPT ![u] = None]
        /\ pc'[u] \notin {"mark", "check", "use"}
        /\ \A v \in User : v # u => pc'[v] = pc[v]
        /\ UNCHANGED <<retired, rc>>
    BY DEF IInv, TypeOK
  <2>2. /\ conns' \subseteq conns
        /\ open' \subseteq open /\ open \ {held[u]} \subseteq open'
        /\ inUse' \subseteq inUse /\ inUse \ {held[u]} \subseteq inUse'
        /\ conns \ {held[u]} \subseteq conns'
        /\ held[u] \in conns' => held[u] \in open' /\ held[u] \notin inUse'
        /\ failed \subseteq failed'
    BY ONLY ReleaseEffect, IInv, Unusable(u), u \in User DEF Unusable
  <2>3. held \in [User -> Conn \cup {None}] /\ conns \subseteq Conn
    BY DEF IInv, TypeOK
  <2>4. Members'
    BY ONLY <2>1, <2>2, <2>3, IInv, PoolAssumption
    DEF IInv, Members, Held, PoolAssumption
  <2>5. Borrowed'
    BY ONLY <2>1, <2>2, <2>3, IInv, u \in User, PoolAssumption
    DEF IInv, Locals, Borrowed, ExclusiveUse, PoolAssumption
  <2>6. QED BY <2>4, <2>5
<1>5. PoolBounded'
  BY FiniteConns, SmallSets DEF IInv, TypeOK, Runners, CreatedApart,
     PoolBounded
<1>6. (QueueSound /\ ExclusiveUse)'
  <2>1. held' = [held EXCEPT ![u] = None] /\ retired' = retired /\ rp' = rp
    BY DEF IInv, TypeOK
  <2>2. available' \subseteq available \cup {held[u]} /\ held[u] \in Conn
    BY DEF IInv, TypeOK, Locals
  <2>3. QueueSound'
    BY <2>1 DEF IInv, TypeOK, Locals, QueueSound, ExclusiveUse, Held, Members,
       Borrowed, ClosedIsEmpty
  <2>4. ExclusiveUse'
    BY ONLY <2>1, <2>2, IInv, u \in User, PoolAssumption
    DEF IInv, TypeOK, Locals, ExclusiveUse, Held, Pending, PoolAssumption,
        CreatedApart, Created
  <2>5. QED BY <2>3, <2>4
<1>7. (ClosedIsEmpty /\ SshOwned)'
  BY DEF IInv, TypeOK, Runners, ClosedIsEmpty, SshOwned
<1>8. (ClientsOwned /\ NoClosedClientHandedOut)'
  BY DEF IInv, TypeOK, Runners, Locals, CreatedApart, Created, Held, Pending,
     ExclusiveUse, Members, Borrowed, QueueSound, ClientsOwned,
     NoClosedClientHandedOut, ClosedIsEmpty
<1>9. QED BY <1>1, <1>2, <1>3, <1>4, <1>5, <1>6, <1>7, <1>8 DEF IInv

(* UseSucceeds: The operation succeeds.                                    *)
LEMMA UseSucceedsKeeps ==
  ASSUME NEW u \in User, IInv, UseSucceeds(u)
  PROVE  IInv'
<1> USE PoolAssumption DEF PoolAssumption, UseSucceeds, Works, Release,
      Return, Alive, RemoveConnections, Offer, Local, poolVars, connVars,
      linkVars, userVars, taskVars, Client, NoClient, Replenisher
<1>1. TypeOK'
  BY DEF IInv, TypeOK, Runners, Locals, PC, ReconnectState, ReplenishState,
     CheckState
<1>2. (Runners /\ Locals)'
  BY DEF IInv, TypeOK, Runners, Locals
<1>3. CreatedApart'
  BY FiniteConns, SmallSets DEF IInv, TypeOK, Runners, Locals, CreatedApart,
     Created, Held, Pending, ExclusiveUse, Members, Borrowed, QueueSound
<1>4. (Members /\ Borrowed)'
  <2>1. /\ held' = [held EXCEPT ![u] = None]
        /\ pc'[u] \notin {"mark", "check", "use"}
        /\ \A v \in User : v # u => pc'[v] = pc[v]
        /\ UNCHANGED <<retired, rc>>
    BY DEF IInv, TypeOK
  <2>2. /\ conns' \subseteq conns
        /\ open' \subseteq open /\ open \ {held[u]} \subseteq open'
        /\ inUse' \subseteq inUse /\ inUse \ {held[u]} \subseteq inUse'
        /\ conns \ {held[u]} \subseteq conns'
        /\ held[u] \in conns' => held[u] \in open' /\ held[u] \notin inUse'
        /\ failed \subseteq failed'
    BY ONLY ReleaseEffect, IInv, UseSucceeds(u), u \in User DEF UseSucceeds
  <2>3. held \in [User -> Conn \cup {None}] /\ conns \subseteq Conn
    BY DEF IInv, TypeOK
  <2>4. Members'
    BY ONLY <2>1, <2>2, <2>3, IInv, PoolAssumption
    DEF IInv, Members, Held, PoolAssumption
  <2>5. Borrowed'
    BY ONLY <2>1, <2>2, <2>3, IInv, u \in User, PoolAssumption
    DEF IInv, Locals, Borrowed, ExclusiveUse, PoolAssumption
  <2>6. QED BY <2>4, <2>5
<1>5. PoolBounded'
  BY FiniteConns, SmallSets DEF IInv, TypeOK, Runners, CreatedApart,
     PoolBounded
<1>6. (QueueSound /\ ExclusiveUse)'
  <2>1. held' = [held EXCEPT ![u] = None] /\ retired' = retired /\ rp' = rp
    BY DEF IInv, TypeOK
  <2>2. available' \subseteq available \cup {held[u]} /\ held[u] \in Conn
    BY DEF IInv, TypeOK, Locals
  <2>3. QueueSound'
    BY <2>1 DEF IInv, TypeOK, Locals, QueueSound, ExclusiveUse, Held, Members,
       Borrowed, ClosedIsEmpty
  <2>4. ExclusiveUse'
    BY ONLY <2>1, <2>2, IInv, u \in User, PoolAssumption
    DEF IInv, TypeOK, Locals, ExclusiveUse, Held, Pending, PoolAssumption,
        CreatedApart, Created
  <2>5. QED BY <2>3, <2>4
<1>7. (ClosedIsEmpty /\ SshOwned)'
  BY DEF IInv, TypeOK, Runners, ClosedIsEmpty, SshOwned
<1>8. (ClientsOwned /\ NoClosedClientHandedOut)'
  BY DEF IInv, TypeOK, Runners, Locals, CreatedApart, Created, Held, Pending,
     ExclusiveUse, Members, Borrowed, QueueSound, ClientsOwned,
     NoClosedClientHandedOut, ClosedIsEmpty
<1>9. QED BY <1>1, <1>2, <1>3, <1>4, <1>5, <1>6, <1>7, <1>8 DEF IInv

(* UseFails: The operation fails.                                          *)
LEMMA UseFailsKeeps ==
  ASSUME NEW u \in User, IInv, UseFails(u)
  PROVE  IInv'
<1> USE PoolAssumption DEF PoolAssumption, UseFails, Release, TransportError,
      Return, RemoveConnections, Offer, Local, poolVars, connVars, linkVars,
      userVars, taskVars, Client, NoClient, Replenisher
<1>1. TypeOK'
  BY DEF IInv, TypeOK, Runners, Locals, PC, ReconnectState, ReplenishState,
     CheckState
<1>2. (Runners /\ Locals)'
  BY DEF IInv, TypeOK, Runners, Locals
<1>3. CreatedApart'
  BY FiniteConns, SmallSets DEF IInv, TypeOK, Runners, Locals, CreatedApart,
     Created, Held, Pending, ExclusiveUse, Members, Borrowed, QueueSound
<1>4. (Members /\ Borrowed)'
  <2>1. /\ held' = [held EXCEPT ![u] = None]
        /\ pc'[u] \notin {"mark", "check", "use"}
        /\ \A v \in User : v # u => pc'[v] = pc[v]
        /\ UNCHANGED <<retired, rc>>
    BY DEF IInv, TypeOK
  <2>2. /\ conns' \subseteq conns
        /\ open' \subseteq open /\ open \ {held[u]} \subseteq open'
        /\ inUse' \subseteq inUse /\ inUse \ {held[u]} \subseteq inUse'
        /\ conns \ {held[u]} \subseteq conns'
        /\ held[u] \in conns' => held[u] \in open' /\ held[u] \notin inUse'
        /\ failed \subseteq failed'
    BY ONLY ReleaseEffect, IInv, UseFails(u), u \in User DEF UseFails
  <2>3. held \in [User -> Conn \cup {None}] /\ conns \subseteq Conn
    BY DEF IInv, TypeOK
  <2>4. Members'
    BY ONLY <2>1, <2>2, <2>3, IInv, PoolAssumption
    DEF IInv, Members, Held, PoolAssumption
  <2>5. Borrowed'
    BY ONLY <2>1, <2>2, <2>3, IInv, u \in User, PoolAssumption
    DEF IInv, Locals, Borrowed, ExclusiveUse, PoolAssumption
  <2>6. QED BY <2>4, <2>5
<1>5. PoolBounded'
  BY FiniteConns, SmallSets DEF IInv, TypeOK, Runners, CreatedApart,
     PoolBounded
<1>6. (QueueSound /\ ExclusiveUse)'
  <2>1. held' = [held EXCEPT ![u] = None] /\ retired' = retired /\ rp' = rp
    BY DEF IInv, TypeOK
  <2>2. available' \subseteq available \cup {held[u]} /\ held[u] \in Conn
    BY DEF IInv, TypeOK, Locals
  <2>3. QueueSound'
    BY <2>1 DEF IInv, TypeOK, Locals, QueueSound, ExclusiveUse, Held, Members,
       Borrowed, ClosedIsEmpty
  <2>4. ExclusiveUse'
    BY ONLY <2>1, <2>2, IInv, u \in User, PoolAssumption
    DEF IInv, TypeOK, Locals, ExclusiveUse, Held, Pending, PoolAssumption,
        CreatedApart, Created
  <2>5. QED BY <2>3, <2>4
<1>7. (ClosedIsEmpty /\ SshOwned)'
  BY DEF IInv, TypeOK, Runners, ClosedIsEmpty, SshOwned
<1>8. (ClientsOwned /\ NoClosedClientHandedOut)'
  BY DEF IInv, TypeOK, Runners, Locals, CreatedApart, Created, Held, Pending,
     ExclusiveUse, Members, Borrowed, QueueSound, ClientsOwned,
     NoClosedClientHandedOut, ClosedIsEmpty
<1>9. QED BY <1>1, <1>2, <1>3, <1>4, <1>5, <1>6, <1>7, <1>8 DEF IInv

(* UserEnters: A caller takes the reconnect mutex.                         *)
LEMMA UserEntersKeeps ==
  ASSUME NEW u \in User, IInv, UserEnters(u)
  PROVE  IInv'
<1> USE PoolAssumption DEF PoolAssumption, UserEnters, Return, Goto,
      Reconnecting, Local, NoClient, poolVars, connVars, linkVars, userVars,
      taskVars, Client, Replenisher
<1>1. TypeOK'
  BY DEF IInv, TypeOK, Runners, Locals, PC, ReconnectState, ReplenishState,
     CheckState
<1>2. (Runners /\ Locals)'
  BY DEF IInv, TypeOK, Runners, Locals
<1>3. CreatedApart'
  BY FiniteConns, SmallSets DEF IInv, TypeOK, Runners, Locals, CreatedApart,
     Created, Held, Pending, ExclusiveUse, Members, Borrowed, QueueSound
<1>4. (Members /\ Borrowed)'
  BY FiniteConns, SmallSets DEF IInv, TypeOK, Runners, Locals, CreatedApart,
     Created, Held, Pending, ExclusiveUse, Members, Borrowed, QueueSound
<1>5. PoolBounded'
  BY FiniteConns, SmallSets DEF IInv, TypeOK, Runners, CreatedApart,
     PoolBounded
<1>6. (QueueSound /\ ExclusiveUse)'
  BY SMTT(60) DEF IInv, TypeOK, Runners, Locals, CreatedApart, Created, Held,
     Pending, ExclusiveUse, Members, Borrowed, QueueSound, ClosedIsEmpty
<1>7. (ClosedIsEmpty /\ SshOwned)'
  BY DEF IInv, TypeOK, Runners, ClosedIsEmpty, SshOwned
<1>8. (ClientsOwned /\ NoClosedClientHandedOut)'
  BY DEF IInv, TypeOK, Runners, Locals, CreatedApart, Created, Held, Pending,
     ExclusiveUse, Members, Borrowed, QueueSound, ClientsOwned,
     NoClosedClientHandedOut, ClosedIsEmpty
<1>9. QED BY <1>1, <1>2, <1>3, <1>4, <1>5, <1>6, <1>7, <1>8 DEF IInv

(* BackgroundEnters: A background reconnect takes it.                      *)
LEMMA BackgroundEntersKeeps ==
  ASSUME IInv, BackgroundEnters
  PROVE  IInv'
<1> USE PoolAssumption DEF PoolAssumption, BackgroundEnters, Reconnecting,
      NoClient, poolVars, connVars, linkVars, userVars, taskVars, Client,
      Replenisher
<1>1. TypeOK'
  BY DEF IInv, TypeOK, Runners, Locals, PC, ReconnectState, ReplenishState,
     CheckState
<1>2. (Runners /\ Locals)'
  BY DEF IInv, TypeOK, Runners, Locals
<1>3. CreatedApart'
  BY FiniteConns, SmallSets DEF IInv, TypeOK, Runners, Locals, CreatedApart,
     Created, Held, Pending, ExclusiveUse, Members, Borrowed, QueueSound
<1>4. (Members /\ Borrowed)'
  BY FiniteConns, SmallSets DEF IInv, TypeOK, Runners, Locals, CreatedApart,
     Created, Held, Pending, ExclusiveUse, Members, Borrowed, QueueSound
<1>5. PoolBounded'
  BY FiniteConns, SmallSets DEF IInv, TypeOK, Runners, CreatedApart,
     PoolBounded
<1>6. (QueueSound /\ ExclusiveUse)'
  BY DEF IInv, TypeOK, Runners, Locals, CreatedApart, Created, Held, Pending,
     ExclusiveUse, Members, Borrowed, QueueSound, ClosedIsEmpty
<1>7. (ClosedIsEmpty /\ SshOwned)'
  BY DEF IInv, TypeOK, Runners, ClosedIsEmpty, SshOwned
<1>8. (ClientsOwned /\ NoClosedClientHandedOut)'
  BY DEF IInv, TypeOK, Runners, Locals, CreatedApart, Created, Held, Pending,
     ExclusiveUse, Members, Borrowed, QueueSound, ClientsOwned,
     NoClosedClientHandedOut, ClosedIsEmpty
<1>9. QED BY <1>1, <1>2, <1>3, <1>4, <1>5, <1>6, <1>7, <1>8 DEF IInv

(* TransportProbed: The SSH connection answers.                            *)
LEMMA TransportProbedKeeps ==
  ASSUME IInv, TransportProbed
  PROVE  IInv'
<1> USE PoolAssumption DEF PoolAssumption, TransportProbed, Alive,
      RemoveConnections, FailedIdle, Counting, poolVars, connVars, linkVars,
      userVars, taskVars, Client, NoClient, Replenisher
<1>1. TypeOK'
  BY DEF IInv, TypeOK, Runners, Locals, PC, ReconnectState, ReplenishState,
     CheckState
<1>2. (Runners /\ Locals)'
  BY DEF IInv, TypeOK, Runners, Locals
<1>3. CreatedApart'
  BY FiniteConns, SmallSets DEF IInv, TypeOK, Runners, Locals, CreatedApart,
     Created, Held, Pending, ExclusiveUse, Members, Borrowed, QueueSound
<1>4. (Members /\ Borrowed)'
  BY FiniteConns, SmallSets DEF IInv, TypeOK, Runners, Locals, CreatedApart,
     Created, Held, Pending, ExclusiveUse, Members, Borrowed, QueueSound
<1>5. PoolBounded'
  BY FiniteConns, SmallSets DEF IInv, TypeOK, Runners, CreatedApart,
     PoolBounded
<1>6. (QueueSound /\ ExclusiveUse)'
  BY SMTT(60) DEF IInv, TypeOK, Runners, Locals, CreatedApart, Created, Held,
     Pending, ExclusiveUse, Members, Borrowed, QueueSound, ClosedIsEmpty
<1>7. (ClosedIsEmpty /\ SshOwned)'
  BY DEF IInv, TypeOK, Runners, ClosedIsEmpty, SshOwned
<1>8. (ClientsOwned /\ NoClosedClientHandedOut)'
  BY DEF IInv, TypeOK, Runners, Locals, CreatedApart, Created, Held, Pending,
     ExclusiveUse, Members, Borrowed, QueueSound, ClientsOwned,
     NoClosedClientHandedOut, ClosedIsEmpty
<1>9. QED BY <1>1, <1>2, <1>3, <1>4, <1>5, <1>6, <1>7, <1>8 DEF IInv

(* CoolingDown: The last dial is too recent.                               *)
LEMMA CoolingDownKeeps ==
  ASSUME IInv, CoolingDown
  PROVE  IInv'
<1> USE PoolAssumption DEF PoolAssumption, CoolingDown, ReconnectReturns,
      NoReconnect, Local, Return, NoClient, poolVars, connVars, linkVars,
      userVars, taskVars, Client, Replenisher
<1>1. TypeOK'
  BY DEF IInv, TypeOK, Runners, Locals, PC, ReconnectState, ReplenishState,
     CheckState
<1>2. (Runners /\ Locals)'
  BY DEF IInv, TypeOK, Runners, Locals
<1>3. CreatedApart'
  BY FiniteConns, SmallSets DEF IInv, TypeOK, Runners, Locals, CreatedApart,
     Created, Held, Pending, ExclusiveUse, Members, Borrowed, QueueSound
<1>4. (Members /\ Borrowed)'
  BY FiniteConns, SmallSets DEF IInv, TypeOK, Runners, Locals, CreatedApart,
     Created, Held, Pending, ExclusiveUse, Members, Borrowed, QueueSound
<1>5. PoolBounded'
  BY FiniteConns, SmallSets DEF IInv, TypeOK, Runners, CreatedApart,
     PoolBounded
<1>6. (QueueSound /\ ExclusiveUse)'
  BY DEF IInv, TypeOK, Runners, Locals, CreatedApart, Created, Held, Pending,
     ExclusiveUse, Members, Borrowed, QueueSound, ClosedIsEmpty
<1>7. (ClosedIsEmpty /\ SshOwned)'
  BY DEF IInv, TypeOK, Runners, ClosedIsEmpty, SshOwned
<1>8. (ClientsOwned /\ NoClosedClientHandedOut)'
  BY DEF IInv, TypeOK, Runners, Locals, CreatedApart, Created, Held, Pending,
     ExclusiveUse, Members, Borrowed, QueueSound, ClientsOwned,
     NoClosedClientHandedOut, ClosedIsEmpty
<1>9. QED BY <1>1, <1>2, <1>3, <1>4, <1>5, <1>6, <1>7, <1>8 DEF IInv

(* StartDial: The cool-down is armed.                                      *)
LEMMA StartDialKeeps ==
  ASSUME IInv, StartDial
  PROVE  IInv'
<1> USE PoolAssumption DEF PoolAssumption, StartDial, poolVars, connVars,
      linkVars, userVars, taskVars, Client, NoClient, Replenisher
<1>1. TypeOK'
  BY DEF IInv, TypeOK, Runners, Locals, PC, ReconnectState, ReplenishState,
     CheckState
<1>2. (Runners /\ Locals)'
  BY DEF IInv, TypeOK, Runners, Locals
<1>3. CreatedApart'
  BY FiniteConns, SmallSets DEF IInv, TypeOK, Runners, Locals, CreatedApart,
     Created, Held, Pending, ExclusiveUse, Members, Borrowed, QueueSound
<1>4. (Members /\ Borrowed)'
  BY FiniteConns, SmallSets DEF IInv, TypeOK, Runners, Locals, CreatedApart,
     Created, Held, Pending, ExclusiveUse, Members, Borrowed, QueueSound
<1>5. PoolBounded'
  BY FiniteConns, SmallSets DEF IInv, TypeOK, Runners, CreatedApart,
     PoolBounded
<1>6. (QueueSound /\ ExclusiveUse)'
  BY DEF IInv, TypeOK, Runners, Locals, CreatedApart, Created, Held, Pending,
     ExclusiveUse, Members, Borrowed, QueueSound, ClosedIsEmpty
<1>7. (ClosedIsEmpty /\ SshOwned)'
  BY DEF IInv, TypeOK, Runners, ClosedIsEmpty, SshOwned
<1>8. (ClientsOwned /\ NoClosedClientHandedOut)'
  BY DEF IInv, TypeOK, Runners, Locals, CreatedApart, Created, Held, Pending,
     ExclusiveUse, Members, Borrowed, QueueSound, ClientsOwned,
     NoClosedClientHandedOut, ClosedIsEmpty
<1>9. QED BY <1>1, <1>2, <1>3, <1>4, <1>5, <1>6, <1>7, <1>8 DEF IInv

(* DialFails: The new SSH connection fails.                                *)
LEMMA DialFailsKeeps ==
  ASSUME IInv, DialFails
  PROVE  IInv'
<1> USE PoolAssumption DEF PoolAssumption, DialFails, ReconnectReturns,
      NoReconnect, Local, Return, NoClient, poolVars, connVars, linkVars,
      userVars, taskVars, Client, Replenisher
<1>1. TypeOK'
  BY DEF IInv, TypeOK, Runners, Locals, PC, ReconnectState, ReplenishState,
     CheckState
<1>2. (Runners /\ Locals)'
  BY DEF IInv, TypeOK, Runners, Locals
<1>3. CreatedApart'
  BY FiniteConns, SmallSets DEF IInv, TypeOK, Runners, Locals, CreatedApart,
     Created, Held, Pending, ExclusiveUse, Members, Borrowed, QueueSound
<1>4. (Members /\ Borrowed)'
  BY FiniteConns, SmallSets DEF IInv, TypeOK, Runners, Locals, CreatedApart,
     Created, Held, Pending, ExclusiveUse, Members, Borrowed, QueueSound
<1>5. PoolBounded'
  BY FiniteConns, SmallSets DEF IInv, TypeOK, Runners, CreatedApart,
     PoolBounded
<1>6. (QueueSound /\ ExclusiveUse)'
  BY SMTT(60) DEF IInv, TypeOK, Runners, Locals, CreatedApart, Created, Held,
     Pending, ExclusiveUse, Members, Borrowed, QueueSound, ClosedIsEmpty
<1>7. (ClosedIsEmpty /\ SshOwned)'
  BY DEF IInv, TypeOK, Runners, ClosedIsEmpty, SshOwned
<1>8. (ClientsOwned /\ NoClosedClientHandedOut)'
  BY DEF IInv, TypeOK, Runners, Locals, CreatedApart, Created, Held, Pending,
     ExclusiveUse, Members, Borrowed, QueueSound, ClientsOwned,
     NoClosedClientHandedOut, ClosedIsEmpty
<1>9. QED BY <1>1, <1>2, <1>3, <1>4, <1>5, <1>6, <1>7, <1>8 DEF IInv

(* Dial: The new SSH connection and its clients are there.                 *)
LEMMA DialKeeps ==
  ASSUME IInv, Dial
  PROVE  IInv'
<1> USE PoolAssumption DEF PoolAssumption, Dial, OpenClients, poolVars,
      connVars, linkVars, userVars, taskVars, Client, NoClient, Replenisher
<1>1. TypeOK'
  <2>1. PICK S \in SUBSET (Conn \ Known) :
          /\ OpenClients(S, lastClient')
          /\ rc' = [rc EXCEPT !.at = "swap", !.client = lastClient', !.made = S]
    OBVIOUS
  <2>2. lastClient' \in Client /\ S \in SUBSET Conn
    BY DEF IInv, TypeOK
  <2>3. rc' \in ReconnectState
    <3>1. rc \in ReconnectState BY DEF IInv, TypeOK
    <3>2. QED BY ONLY <2>1, <2>2, <3>1 DEF ReconnectState
  <2>4. /\ open' \subseteq Conn /\ inUse' \subseteq Conn
        /\ failed' \subseteq Conn /\ retired' \subseteq Conn
        /\ transport' \in [Conn -> Client \cup {NoClient}]
    BY ONLY <2>1, <2>2, IInv DEF IInv, TypeOK, OpenClients
  <2>5. sshOpen' \subseteq Client /\ linkUp' \subseteq Client
    BY <2>2 DEF IInv, TypeOK
  <2>6. QED BY <2>2, <2>3, <2>4, <2>5 DEF IInv, TypeOK
<1>2. (Runners /\ Locals)'
  BY DEF IInv, TypeOK, Runners, Locals, Known, Held, Pending
<1>3. CreatedApart'
  BY FiniteConns, SmallSets DEF IInv, TypeOK, Runners, Locals, CreatedApart,
     Created, Held, Pending, ExclusiveUse, Members, Borrowed, QueueSound,
     Known
<1>4. (Members /\ Borrowed)'
  BY FiniteConns, SmallSets DEF IInv, TypeOK, Runners, Locals, CreatedApart,
     Created, Held, Pending, ExclusiveUse, Members, Borrowed, QueueSound,
     Known
<1>5. PoolBounded'
  BY FiniteConns, SmallSets DEF IInv, TypeOK, Runners, CreatedApart,
     PoolBounded, Known, Held, Pending
<1>6. (QueueSound /\ ExclusiveUse)'
  BY DEF IInv, TypeOK, Runners, Locals, CreatedApart, Created, Held, Pending,
     ExclusiveUse, Members, Borrowed, QueueSound, ClosedIsEmpty, Known
<1>7. (ClosedIsEmpty /\ SshOwned)'
  BY DEF IInv, TypeOK, Runners, ClosedIsEmpty, SshOwned, Known, Held, Pending
<1>8. (ClientsOwned /\ NoClosedClientHandedOut)'
  BY DEF IInv, TypeOK, Runners, Locals, CreatedApart, Created, Held, Pending,
     ExclusiveUse, Members, Borrowed, QueueSound, ClientsOwned,
     NoClosedClientHandedOut, ClosedIsEmpty, Known
<1>9. QED BY <1>1, <1>2, <1>3, <1>4, <1>5, <1>6, <1>7, <1>8 DEF IInv

(* SwapClosed: The pool was closed during the dial.                        *)
LEMMA SwapClosedKeeps ==
  ASSUME IInv, SwapClosed
  PROVE  IInv'
<1> USE PoolAssumption DEF PoolAssumption, SwapClosed, GiveUp,
      ReconnectReturns, NoReconnect, Local, Return, NoClient, poolVars,
      connVars, linkVars, userVars, taskVars, Client, Replenisher
<1>1. TypeOK'
  <2>1. rc.at # "off" /\ \E ok \in BOOLEAN : ReconnectReturns(ok)
    BY DEF SwapClosed
  <2>2. QED
    BY ONLY <2>1, ReturnTyped, PoolAssumption, IInv, SwapClosed
    DEF IInv, TypeOK, SwapClosed, GiveUp, NoReconnect, ReconnectState, poolVars,
        Client, NoClient
<1>2. (Runners /\ Locals)'
  BY DEF IInv, TypeOK, Runners, Locals
<1>3. CreatedApart'
  BY FiniteConns, SmallSets DEF IInv, TypeOK, Runners, Locals, CreatedApart,
     Created, Held, Pending, ExclusiveUse, Members, Borrowed, QueueSound
<1>4. (Members /\ Borrowed)'
  BY FiniteConns, SmallSets DEF IInv, TypeOK, Runners, Locals, CreatedApart,
     Created, Held, Pending, ExclusiveUse, Members, Borrowed, QueueSound
<1>5. PoolBounded'
  BY FiniteConns, SmallSets DEF IInv, TypeOK, Runners, CreatedApart,
     PoolBounded
<1>6. (QueueSound /\ ExclusiveUse)'
  BY DEF IInv, TypeOK, Runners, Locals, CreatedApart, Created, Held, Pending,
     ExclusiveUse, Members, Borrowed, QueueSound, ClosedIsEmpty
<1>7. (ClosedIsEmpty /\ SshOwned)'
  BY DEF IInv, TypeOK, Runners, ClosedIsEmpty, SshOwned
<1>8. (ClientsOwned /\ NoClosedClientHandedOut)'
  BY DEF IInv, TypeOK, Runners, Locals, CreatedApart, Created, Held, Pending,
     ExclusiveUse, Members, Borrowed, QueueSound, ClientsOwned,
     NoClosedClientHandedOut, ClosedIsEmpty
<1>9. QED BY <1>1, <1>2, <1>3, <1>4, <1>5, <1>6, <1>7, <1>8 DEF IInv

(* Swap: The new generation replaces the old one.                          *)
LEMMA SwapKeeps ==
  ASSUME IInv, Swap
  PROVE  IInv'
<1> USE PoolAssumption DEF PoolAssumption, Swap, poolVars, connVars,
      linkVars, userVars, taskVars, Client, NoClient, Replenisher
<1>1. TypeOK'
  BY DEF IInv, TypeOK, Runners, Locals, PC, ReconnectState, ReplenishState,
     CheckState, ReconnectState
<1>2. (Runners /\ Locals)'
  BY DEF IInv, TypeOK, Runners, Locals, ReconnectState
<1>3. CreatedApart'
  BY FiniteConns, SmallSets DEF IInv, TypeOK, Runners, Locals, CreatedApart,
     Created, Held, Pending, ExclusiveUse, Members, Borrowed, QueueSound,
     ReconnectState
<1>4. (Members /\ Borrowed)'
  BY FiniteConns, SmallSets DEF IInv, TypeOK, Runners, Locals, CreatedApart,
     Created, Held, Pending, ExclusiveUse, Members, Borrowed, QueueSound,
     ReconnectState
<1>5. PoolBounded'
  BY FiniteConns, SmallSets DEF IInv, TypeOK, Runners, CreatedApart,
     PoolBounded, ReconnectState
<1>6. (QueueSound /\ ExclusiveUse)'
  BY DEF IInv, TypeOK, Runners, Locals, CreatedApart, Created, Held, Pending,
     ExclusiveUse, Members, Borrowed, QueueSound, ClosedIsEmpty,
     ReconnectState
<1>7. (ClosedIsEmpty /\ SshOwned)'
  BY DEF IInv, TypeOK, Runners, ClosedIsEmpty, SshOwned, ReconnectState
<1>8. (ClientsOwned /\ NoClosedClientHandedOut)'
  BY DEF IInv, TypeOK, Runners, Locals, CreatedApart, Created, Held, Pending,
     ExclusiveUse, Members, Borrowed, QueueSound, ClientsOwned,
     NoClosedClientHandedOut, ClosedIsEmpty, ReconnectState
<1>9. QED BY <1>1, <1>2, <1>3, <1>4, <1>5, <1>6, <1>7, <1>8 DEF IInv

(* CloseOld: The old generation is closed.                                 *)
LEMMA CloseOldKeeps ==
  ASSUME IInv, CloseOld
  PROVE  IInv'
<1> USE PoolAssumption DEF PoolAssumption, CloseOld, ReconnectReturns,
      NoReconnect, Local, Return, NoClient, poolVars, connVars, linkVars,
      userVars, taskVars, Client, Replenisher
<1>1. TypeOK'
  <2>1. rc.at # "off" /\ \E ok \in BOOLEAN : ReconnectReturns(ok)
    BY DEF CloseOld
  <2>2. QED
    BY ONLY <2>1, ReturnTyped, PoolAssumption, IInv, CloseOld
    DEF IInv, TypeOK, CloseOld, GiveUp, NoReconnect, ReconnectState, poolVars,
        Client, NoClient
<1>2. (Runners /\ Locals)'
  BY DEF IInv, TypeOK, Runners, Locals
<1>3. CreatedApart'
  BY FiniteConns, SmallSets DEF IInv, TypeOK, Runners, Locals, CreatedApart,
     Created, Held, Pending, ExclusiveUse, Members, Borrowed, QueueSound
<1>4. (Members /\ Borrowed)'
  BY FiniteConns, SmallSets DEF IInv, TypeOK, Runners, Locals, CreatedApart,
     Created, Held, Pending, ExclusiveUse, Members, Borrowed, QueueSound
<1>5. PoolBounded'
  BY FiniteConns, SmallSets DEF IInv, TypeOK, Runners, CreatedApart,
     PoolBounded
<1>6. (QueueSound /\ ExclusiveUse)'
  BY SMTT(60) DEF IInv, TypeOK, Runners, Locals, CreatedApart, Created, Held,
     Pending, ExclusiveUse, Members, Borrowed, QueueSound, ClosedIsEmpty
<1>7. (ClosedIsEmpty /\ SshOwned)'
  BY DEF IInv, TypeOK, Runners, ClosedIsEmpty, SshOwned
<1>8. (ClientsOwned /\ NoClosedClientHandedOut)'
  BY DEF IInv, TypeOK, Runners, Locals, CreatedApart, Created, Held, Pending,
     ExclusiveUse, Members, Borrowed, QueueSound, ClientsOwned,
     NoClosedClientHandedOut, ClosedIsEmpty
<1>9. QED BY <1>1, <1>2, <1>3, <1>4, <1>5, <1>6, <1>7, <1>8 DEF IInv

(* CountMissing: replenish reads the size.                                 *)
LEMMA CountMissingKeeps ==
  ASSUME NEW r \in Replenisher, IInv, CountMissing(r)
  PROVE  IInv'
<1> USE PoolAssumption DEF PoolAssumption, CountMissing, ReplenishReturns,
      NoReplenish, NoCheck, ReconnectReturns, NoReconnect, Local, Return,
      NoClient, poolVars, connVars, linkVars, userVars, taskVars, Client,
      Replenisher
<1>1. TypeOK'
  <2>1. CASE Cardinality(conns) < MinSize
    <3>1. Cardinality(conns) \in Nat
      BY FiniteConns DEF IInv, TypeOK
    <3>2. QED
      BY <2>1, <3>1 DEF IInv, TypeOK, ReplenishState
  <2>2. CASE ~(Cardinality(conns) < MinSize)
    <3>1. rp[r].at # "off" /\ ReplenishReturns(r)
      BY <2>2 DEF CountMissing
    <3>2. QED
      BY ONLY <3>1, ReplenishReturnTyped, PoolAssumption, IInv,
              CountMissing(r)
      DEF IInv, TypeOK, CountMissing, poolVars, connVars, linkVars
  <2>3. QED BY <2>1, <2>2
<1>2. (Runners /\ Locals)'
  BY FiniteConns, SmallSets DEF IInv, TypeOK, Runners, Locals
<1>3. CreatedApart'
  BY FiniteConns, SmallSets DEF IInv, TypeOK, Runners, Locals, CreatedApart,
     Created, Held, Pending, ExclusiveUse, Members, Borrowed, QueueSound
<1>4. (Members /\ Borrowed)'
  BY FiniteConns, SmallSets DEF IInv, TypeOK, Runners, Locals, CreatedApart,
     Created, Held, Pending, ExclusiveUse, Members, Borrowed, QueueSound
<1>5. PoolBounded'
  BY FiniteConns, SmallSets DEF IInv, TypeOK, Runners, CreatedApart,
     PoolBounded
<1>6. (QueueSound /\ ExclusiveUse)'
  BY FiniteConns, SmallSets DEF IInv, TypeOK, Runners, Locals, CreatedApart,
     Created, Held, Pending, ExclusiveUse, Members, Borrowed, QueueSound,
     ClosedIsEmpty
<1>7. (ClosedIsEmpty /\ SshOwned)'
  BY FiniteConns, SmallSets DEF IInv, TypeOK, Runners, ClosedIsEmpty,
     SshOwned
<1>8. (ClientsOwned /\ NoClosedClientHandedOut)'
  BY FiniteConns, SmallSets DEF IInv, TypeOK, Runners, Locals, CreatedApart,
     Created, Held, Pending, ExclusiveUse, Members, Borrowed, QueueSound,
     ClientsOwned, NoClosedClientHandedOut, ClosedIsEmpty
<1>9. QED BY <1>1, <1>2, <1>3, <1>4, <1>5, <1>6, <1>7, <1>8 DEF IInv

(* ReplenishCreates: replenish dials a connection.                         *)
LEMMA ReplenishCreatesKeeps ==
  ASSUME NEW r \in Replenisher, IInv, ReplenishCreates(r)
  PROVE  IInv'
<1> USE PoolAssumption DEF PoolAssumption, ReplenishCreates, Alive,
      OpenClients, poolVars, connVars, linkVars, userVars, taskVars, Client,
      NoClient, Replenisher
<1>1. TypeOK'
  BY DEF IInv, TypeOK, Runners, Locals, PC, ReconnectState, ReplenishState,
     CheckState, Known, Held, Pending
<1>2. (Runners /\ Locals)'
  BY DEF IInv, TypeOK, Runners, Locals, Known, Held, Pending
<1>3. CreatedApart'
  BY FiniteConns, SmallSets DEF IInv, TypeOK, Runners, Locals, CreatedApart,
     Created, Held, Pending, ExclusiveUse, Members, Borrowed, QueueSound,
     Known
<1>4. (Members /\ Borrowed)'
  BY FiniteConns, SmallSets DEF IInv, TypeOK, Runners, Locals, CreatedApart,
     Created, Held, Pending, ExclusiveUse, Members, Borrowed, QueueSound,
     Known
<1>5. PoolBounded'
  BY FiniteConns, SmallSets DEF IInv, TypeOK, Runners, CreatedApart,
     PoolBounded, Known, Held, Pending
<1>6. (QueueSound /\ ExclusiveUse)'
  BY DEF IInv, TypeOK, Runners, Locals, CreatedApart, Created, Held, Pending,
     ExclusiveUse, Members, Borrowed, QueueSound, ClosedIsEmpty, Known
<1>7. (ClosedIsEmpty /\ SshOwned)'
  BY DEF IInv, TypeOK, Runners, ClosedIsEmpty, SshOwned, Known, Held, Pending
<1>8. (ClientsOwned /\ NoClosedClientHandedOut)'
  BY DEF IInv, TypeOK, Runners, Locals, CreatedApart, Created, Held, Pending,
     ExclusiveUse, Members, Borrowed, QueueSound, ClientsOwned,
     NoClosedClientHandedOut, ClosedIsEmpty, Known
<1>9. QED BY <1>1, <1>2, <1>3, <1>4, <1>5, <1>6, <1>7, <1>8 DEF IInv

(* ReplenishFails: That dial fails.                                        *)
LEMMA ReplenishFailsKeeps ==
  ASSUME NEW r \in Replenisher, IInv, ReplenishFails(r)
  PROVE  IInv'
<1> USE PoolAssumption DEF PoolAssumption, ReplenishFails, ReplenishReturns,
      NoReplenish, NoCheck, ReconnectReturns, NoReconnect, Local, Return,
      NoClient, poolVars, connVars, linkVars, userVars, taskVars, Client,
      Replenisher
<1>1. TypeOK'
  <2>1. rp[r].at # "off" /\ ReplenishReturns(r)
    BY DEF ReplenishFails
  <2>2. QED
    BY ONLY <2>1, ReplenishReturnTyped, PoolAssumption, IInv, ReplenishFails(r)
    DEF IInv, TypeOK, ReplenishFails, Discard, poolVars, connVars, linkVars
<1>2. (Runners /\ Locals)'
  BY DEF IInv, TypeOK, Runners, Locals
<1>3. CreatedApart'
  BY FiniteConns, SmallSets, SMTT(60) DEF IInv, TypeOK, Runners, Locals,
     CreatedApart, Created, Held, Pending, ExclusiveUse, Members, Borrowed,
     QueueSound
<1>4. (Members /\ Borrowed)'
  BY FiniteConns, SmallSets DEF IInv, TypeOK, Runners, Locals, CreatedApart,
     Created, Held, Pending, ExclusiveUse, Members, Borrowed, QueueSound
<1>5. PoolBounded'
  BY FiniteConns, SmallSets DEF IInv, TypeOK, Runners, CreatedApart,
     PoolBounded
<1>6. (QueueSound /\ ExclusiveUse)'
  BY DEF IInv, TypeOK, Runners, Locals, CreatedApart, Created, Held, Pending,
     ExclusiveUse, Members, Borrowed, QueueSound, ClosedIsEmpty
<1>7. (ClosedIsEmpty /\ SshOwned)'
  BY DEF IInv, TypeOK, Runners, ClosedIsEmpty, SshOwned
<1>8. (ClientsOwned /\ NoClosedClientHandedOut)'
  BY DEF IInv, TypeOK, Runners, Locals, CreatedApart, Created, Held, Pending,
     ExclusiveUse, Members, Borrowed, QueueSound, ClientsOwned,
     NoClosedClientHandedOut, ClosedIsEmpty
<1>9. QED BY <1>1, <1>2, <1>3, <1>4, <1>5, <1>6, <1>7, <1>8 DEF IInv

(* ReplenishAdds: The connection joins the pool.                           *)
LEMMA ReplenishAddsKeeps ==
  ASSUME NEW r \in Replenisher, IInv, ReplenishAdds(r)
  PROVE  IInv'
<1> USE PoolAssumption DEF PoolAssumption, ReplenishAdds, CanAdd, Offer,
      ReplenishReturns, NoReplenish, NoCheck, ReconnectReturns, NoReconnect,
      Local, Return, NoClient, poolVars, connVars, linkVars, userVars,
      taskVars, Client, Replenisher
<1>1. TypeOK'
  <2>1. /\ conns' \subseteq Conn /\ available' \subseteq Conn
        /\ open' \subseteq Conn
    BY DEF IInv, TypeOK, Locals, ReplenishState
  <2>2. CASE rp[r].need > 1
    <3>1. /\ rp' = [rp EXCEPT ![r] = [at |-> "create", need |-> @.need - 1,
                                      conn |-> None]]
          /\ UNCHANGED <<rc, hc, background, userVars>>
      BY <2>2 DEF ReplenishAdds
    <3>2. [at |-> "create", need |-> rp[r].need - 1, conn |-> None]
            \in ReplenishState
      BY <2>2 DEF IInv, TypeOK, ReplenishState
    <3>3. QED
      BY ONLY <2>1, <3>1, <3>2, IInv, ReplenishAdds(r)
      DEF IInv, TypeOK, ReplenishAdds, userVars, linkVars
  <2>3. CASE ~(rp[r].need > 1)
    <3>1. rp[r].at # "off" /\ ReplenishReturns(r)
      BY <2>3 DEF ReplenishAdds
    <3>2. QED
      BY ONLY <2>1, <3>1, ReplenishReturnTyped, IInv, ReplenishAdds(r)
      DEF IInv, TypeOK, ReplenishAdds, userVars, linkVars
  <2>4. QED BY <2>2, <2>3
<1>2. (Runners /\ Locals)'
  BY DEF IInv, TypeOK, Runners, Locals
<1>3. CreatedApart'
  BY FiniteConns, SmallSets, SMTT(60) DEF IInv, TypeOK, Runners, Locals,
     CreatedApart, Created, Held, Pending, ExclusiveUse, Members, Borrowed,
     QueueSound
<1>4. (Members /\ Borrowed)'
  BY FiniteConns, SmallSets DEF IInv, TypeOK, Runners, Locals, CreatedApart,
     Created, Held, Pending, ExclusiveUse, Members, Borrowed, QueueSound
<1>5. PoolBounded'
  <2>1. /\ conns \in SUBSET Conn /\ rp[r].conn \in Conn
        /\ conns' \subseteq conns \cup {rp[r].conn}
    BY DEF IInv, TypeOK, Locals, ReplenishState
  <2>2. conns \cup {rp[r].conn} \in SUBSET Conn
    BY <2>1
  <2>3. /\ Cardinality(conns') <= Cardinality(conns \cup {rp[r].conn})
        /\ Cardinality(conns') \in Nat
        /\ Cardinality(conns \cup {rp[r].conn}) \in Nat
        /\ Cardinality(conns) \in Nat
    BY ONLY <2>1, <2>2, FiniteConns
  <2>4. Cardinality(conns \cup {rp[r].conn}) <= Cardinality(conns) + 1
    BY ONLY <2>1, SmallSets
  <2>5. Cardinality(conns) < MaxSize
    OBVIOUS
  <2>6. QED BY ONLY <2>3, <2>4, <2>5, PoolAssumption DEF PoolBounded
<1>6. (QueueSound /\ ExclusiveUse)'
  BY DEF IInv, TypeOK, Runners, Locals, CreatedApart, Created, Held, Pending,
     ExclusiveUse, Members, Borrowed, QueueSound, ClosedIsEmpty
<1>7. (ClosedIsEmpty /\ SshOwned)'
  BY DEF IInv, TypeOK, Runners, ClosedIsEmpty, SshOwned
<1>8. (ClientsOwned /\ NoClosedClientHandedOut)'
  BY DEF IInv, TypeOK, Runners, Locals, CreatedApart, Created, Held, Pending,
     ExclusiveUse, Members, Borrowed, QueueSound, ClientsOwned,
     NoClosedClientHandedOut, ClosedIsEmpty
<1>9. QED BY <1>1, <1>2, <1>3, <1>4, <1>5, <1>6, <1>7, <1>8 DEF IInv

(* ReplenishDiscards: The pool is full or closed by now.                   *)
LEMMA ReplenishDiscardsKeeps ==
  ASSUME NEW r \in Replenisher, IInv, ReplenishDiscards(r)
  PROVE  IInv'
<1> USE PoolAssumption DEF PoolAssumption, ReplenishDiscards, CanAdd,
      Discard, ReplenishReturns, NoReplenish, NoCheck, ReconnectReturns,
      NoReconnect, Local, Return, NoClient, poolVars, connVars, linkVars,
      userVars, taskVars, Client, Replenisher
<1>1. TypeOK'
  <2>1. rp[r].at # "off" /\ ReplenishReturns(r)
    BY DEF ReplenishDiscards
  <2>2. QED
    BY ONLY <2>1, ReplenishReturnTyped, PoolAssumption, IInv, ReplenishDiscards(r)
    DEF IInv, TypeOK, ReplenishDiscards, Discard, poolVars, connVars, linkVars
<1>2. (Runners /\ Locals)'
  BY DEF IInv, TypeOK, Runners, Locals
<1>3. CreatedApart'
  BY FiniteConns, SmallSets, SMTT(60) DEF IInv, TypeOK, Runners, Locals,
     CreatedApart, Created, Held, Pending, ExclusiveUse, Members, Borrowed,
     QueueSound
<1>4. (Members /\ Borrowed)'
  BY FiniteConns, SmallSets DEF IInv, TypeOK, Runners, Locals, CreatedApart,
     Created, Held, Pending, ExclusiveUse, Members, Borrowed, QueueSound
<1>5. PoolBounded'
  BY FiniteConns, SmallSets DEF IInv, TypeOK, Runners, CreatedApart,
     PoolBounded
<1>6. (QueueSound /\ ExclusiveUse)'
  BY DEF IInv, TypeOK, Runners, Locals, CreatedApart, Created, Held, Pending,
     ExclusiveUse, Members, Borrowed, QueueSound, ClosedIsEmpty
<1>7. (ClosedIsEmpty /\ SshOwned)'
  BY DEF IInv, TypeOK, Runners, ClosedIsEmpty, SshOwned
<1>8. (ClientsOwned /\ NoClosedClientHandedOut)'
  BY DEF IInv, TypeOK, Runners, Locals, CreatedApart, Created, Held, Pending,
     ExclusiveUse, Members, Borrowed, QueueSound, ClientsOwned,
     NoClosedClientHandedOut, ClosedIsEmpty
<1>9. QED BY <1>1, <1>2, <1>3, <1>4, <1>5, <1>6, <1>7, <1>8 DEF IInv

(* HealthTick: The health check looks for idle connections.                *)
LEMMA HealthTickKeeps ==
  ASSUME IInv, HealthTick
  PROVE  IInv'
<1> USE PoolAssumption DEF PoolAssumption, HealthTick, RemoveConnections,
      FailedIdle, poolVars, connVars, linkVars, userVars, taskVars, Client,
      NoClient, Replenisher
<1>1. TypeOK'
  BY DEF IInv, TypeOK, Runners, Locals, PC, ReconnectState, ReplenishState,
     CheckState
<1>2. (Runners /\ Locals)'
  BY DEF IInv, TypeOK, Runners, Locals
<1>3. CreatedApart'
  BY FiniteConns, SmallSets DEF IInv, TypeOK, Runners, Locals, CreatedApart,
     Created, Held, Pending, ExclusiveUse, Members, Borrowed, QueueSound
<1>4. (Members /\ Borrowed)'
  BY FiniteConns, SmallSets DEF IInv, TypeOK, Runners, Locals, CreatedApart,
     Created, Held, Pending, ExclusiveUse, Members, Borrowed, QueueSound
<1>5. PoolBounded'
  BY FiniteConns, SmallSets DEF IInv, TypeOK, Runners, CreatedApart,
     PoolBounded
<1>6. (QueueSound /\ ExclusiveUse)'
  BY DEF IInv, TypeOK, Runners, Locals, CreatedApart, Created, Held, Pending,
     ExclusiveUse, Members, Borrowed, QueueSound, ClosedIsEmpty
<1>7. (ClosedIsEmpty /\ SshOwned)'
  BY DEF IInv, TypeOK, Runners, ClosedIsEmpty, SshOwned
<1>8. (ClientsOwned /\ NoClosedClientHandedOut)'
  BY DEF IInv, TypeOK, Runners, Locals, CreatedApart, Created, Held, Pending,
     ExclusiveUse, Members, Borrowed, QueueSound, ClientsOwned,
     NoClosedClientHandedOut, ClosedIsEmpty
<1>9. QED BY <1>1, <1>2, <1>3, <1>4, <1>5, <1>6, <1>7, <1>8 DEF IInv

(* HealthProbed: All probes are answered.                                  *)
LEMMA HealthProbedKeeps ==
  ASSUME IInv, HealthProbed
  PROVE  IInv'
<1> USE PoolAssumption DEF PoolAssumption, HealthProbed, RequestReconnect,
      Counting, poolVars, connVars, linkVars, userVars, taskVars, Client,
      NoClient, Replenisher
<1>1. TypeOK'
  BY DEF IInv, TypeOK, Runners, Locals, PC, ReconnectState, ReplenishState,
     CheckState
<1>2. (Runners /\ Locals)'
  BY DEF IInv, TypeOK, Runners, Locals
<1>3. CreatedApart'
  BY FiniteConns, SmallSets DEF IInv, TypeOK, Runners, Locals, CreatedApart,
     Created, Held, Pending, ExclusiveUse, Members, Borrowed, QueueSound
<1>4. (Members /\ Borrowed)'
  BY FiniteConns, SmallSets DEF IInv, TypeOK, Runners, Locals, CreatedApart,
     Created, Held, Pending, ExclusiveUse, Members, Borrowed, QueueSound
<1>5. PoolBounded'
  BY FiniteConns, SmallSets DEF IInv, TypeOK, Runners, CreatedApart,
     PoolBounded
<1>6. (QueueSound /\ ExclusiveUse)'
  BY DEF IInv, TypeOK, Runners, Locals, CreatedApart, Created, Held, Pending,
     ExclusiveUse, Members, Borrowed, QueueSound, ClosedIsEmpty
<1>7. (ClosedIsEmpty /\ SshOwned)'
  BY DEF IInv, TypeOK, Runners, ClosedIsEmpty, SshOwned
<1>8. (ClientsOwned /\ NoClosedClientHandedOut)'
  <2>1. rp["health"].at = "off" /\ rp["health"].conn = None
    BY DEF IInv, TypeOK, Runners, Locals
  <2>2. Pending' = Pending
    BY <2>1 DEF IInv, TypeOK, Pending
  <2>3. QED
    BY <2>2 DEF IInv, ClientsOwned, NoClosedClientHandedOut, Held
<1>9. QED BY <1>1, <1>2, <1>3, <1>4, <1>5, <1>6, <1>7, <1>8 DEF IInv

(* KeepAliveFails: The keep-alive asks for a reconnect.                    *)
LEMMA KeepAliveFailsKeeps ==
  ASSUME IInv, KeepAliveFails
  PROVE  IInv'
<1> USE PoolAssumption DEF PoolAssumption, KeepAliveFails, RequestReconnect,
      poolVars, connVars, linkVars, userVars, taskVars, Client, NoClient,
      Replenisher
<1>1. TypeOK'
  BY DEF IInv, TypeOK, Runners, Locals, PC, ReconnectState, ReplenishState,
     CheckState
<1>2. (Runners /\ Locals)'
  BY DEF IInv, TypeOK, Runners, Locals
<1>3. CreatedApart'
  BY FiniteConns, SmallSets DEF IInv, TypeOK, Runners, Locals, CreatedApart,
     Created, Held, Pending, ExclusiveUse, Members, Borrowed, QueueSound
<1>4. (Members /\ Borrowed)'
  BY FiniteConns, SmallSets DEF IInv, TypeOK, Runners, Locals, CreatedApart,
     Created, Held, Pending, ExclusiveUse, Members, Borrowed, QueueSound
<1>5. PoolBounded'
  BY FiniteConns, SmallSets DEF IInv, TypeOK, Runners, CreatedApart,
     PoolBounded
<1>6. (QueueSound /\ ExclusiveUse)'
  BY DEF IInv, TypeOK, Runners, Locals, CreatedApart, Created, Held, Pending,
     ExclusiveUse, Members, Borrowed, QueueSound, ClosedIsEmpty
<1>7. (ClosedIsEmpty /\ SshOwned)'
  BY DEF IInv, TypeOK, Runners, ClosedIsEmpty, SshOwned
<1>8. (ClientsOwned /\ NoClosedClientHandedOut)'
  BY DEF IInv, TypeOK, Runners, Locals, CreatedApart, Created, Held, Pending,
     ExclusiveUse, Members, Borrowed, QueueSound, ClientsOwned,
     NoClosedClientHandedOut, ClosedIsEmpty
<1>9. QED BY <1>1, <1>2, <1>3, <1>4, <1>5, <1>6, <1>7, <1>8 DEF IInv

(* CloseAll: The pool is closed.                                           *)
LEMMA CloseAllKeeps ==
  ASSUME IInv, CloseAll
  PROVE  IInv'
<1> USE PoolAssumption DEF PoolAssumption, CloseAll, NoClient, poolVars,
      connVars, linkVars, userVars, taskVars, Client, Replenisher
<1>1. TypeOK'
  BY DEF IInv, TypeOK, Runners, Locals, PC, ReconnectState, ReplenishState,
     CheckState
<1>2. (Runners /\ Locals)'
  BY DEF IInv, TypeOK, Runners, Locals
<1>3. CreatedApart'
  BY FiniteConns, SmallSets DEF IInv, TypeOK, Runners, Locals, CreatedApart,
     Created, Held, Pending, ExclusiveUse, Members, Borrowed, QueueSound
<1>4. (Members /\ Borrowed)'
  BY FiniteConns, SmallSets DEF IInv, TypeOK, Runners, Locals, CreatedApart,
     Created, Held, Pending, ExclusiveUse, Members, Borrowed, QueueSound
<1>5. PoolBounded'
  BY FiniteConns, SmallSets DEF IInv, TypeOK, Runners, CreatedApart,
     PoolBounded
<1>6. (QueueSound /\ ExclusiveUse)'
  BY DEF IInv, TypeOK, Runners, Locals, CreatedApart, Created, Held, Pending,
     ExclusiveUse, Members, Borrowed, QueueSound, ClosedIsEmpty
<1>7. (ClosedIsEmpty /\ SshOwned)'
  BY DEF IInv, TypeOK, Runners, ClosedIsEmpty, SshOwned
<1>8. (ClientsOwned /\ NoClosedClientHandedOut)'
  BY DEF IInv, TypeOK, Runners, Locals, CreatedApart, Created, Held, Pending,
     ExclusiveUse, Members, Borrowed, QueueSound, ClientsOwned,
     NoClosedClientHandedOut, ClosedIsEmpty
<1>9. QED BY <1>1, <1>2, <1>3, <1>4, <1>5, <1>6, <1>7, <1>8 DEF IInv

(* CooldownOver: The cool-down ends.                                       *)
LEMMA CooldownOverKeeps ==
  ASSUME IInv, CooldownOver
  PROVE  IInv'
<1> USE PoolAssumption DEF PoolAssumption, CooldownOver, poolVars, connVars,
      linkVars, userVars, taskVars, Client, NoClient, Replenisher
<1>1. TypeOK'
  BY DEF IInv, TypeOK
<1>2. (Runners /\ Locals)'
  BY DEF IInv, TypeOK, Runners, Locals
<1>3. CreatedApart'
  BY FiniteConns, SmallSets DEF IInv, TypeOK, Runners, Locals, CreatedApart,
     Created, Held, Pending, ExclusiveUse, Members, Borrowed, QueueSound
<1>4. (Members /\ Borrowed)'
  BY FiniteConns, SmallSets DEF IInv, TypeOK, Runners, Locals, CreatedApart,
     Created, Held, Pending, ExclusiveUse, Members, Borrowed, QueueSound
<1>5. PoolBounded'
  BY FiniteConns, SmallSets DEF IInv, TypeOK, Runners, CreatedApart,
     PoolBounded
<1>6. (QueueSound /\ ExclusiveUse)'
  BY DEF IInv, TypeOK, Runners, Locals, CreatedApart, Created, Held, Pending,
     ExclusiveUse, Members, Borrowed, QueueSound, ClosedIsEmpty
<1>7. (ClosedIsEmpty /\ SshOwned)'
  BY DEF IInv, TypeOK, Runners, ClosedIsEmpty, SshOwned
<1>8. (ClientsOwned /\ NoClosedClientHandedOut)'
  BY DEF IInv, TypeOK, Runners, Locals, CreatedApart, Created, Held, Pending,
     ExclusiveUse, Members, Borrowed, QueueSound, ClientsOwned,
     NoClosedClientHandedOut, ClosedIsEmpty
<1>9. QED BY <1>1, <1>2, <1>3, <1>4, <1>5, <1>6, <1>7, <1>8 DEF IInv

(* HealthProbes: A probe succeeds.                                         *)
LEMMA HealthProbesKeeps ==
  ASSUME NEW c \in Conn, IInv, HealthProbes(c)
  PROVE  IInv'
<1> USE PoolAssumption DEF PoolAssumption, HealthProbes, Works, Alive,
      poolVars, connVars, linkVars, userVars, taskVars, Client, NoClient,
      Replenisher
<1>1. TypeOK'
  BY DEF IInv, TypeOK, Runners, Locals, PC, ReconnectState, ReplenishState,
     CheckState
<1>2. (Runners /\ Locals)'
  BY DEF IInv, TypeOK, Runners, Locals
<1>3. CreatedApart'
  BY FiniteConns, SmallSets DEF IInv, TypeOK, Runners, Locals, CreatedApart,
     Created, Held, Pending, ExclusiveUse, Members, Borrowed, QueueSound
<1>4. (Members /\ Borrowed)'
  BY FiniteConns, SmallSets DEF IInv, TypeOK, Runners, Locals, CreatedApart,
     Created, Held, Pending, ExclusiveUse, Members, Borrowed, QueueSound
<1>5. PoolBounded'
  BY FiniteConns, SmallSets DEF IInv, TypeOK, Runners, CreatedApart,
     PoolBounded
<1>6. (QueueSound /\ ExclusiveUse)'
  BY DEF IInv, TypeOK, Runners, Locals, CreatedApart, Created, Held, Pending,
     ExclusiveUse, Members, Borrowed, QueueSound, ClosedIsEmpty
<1>7. (ClosedIsEmpty /\ SshOwned)'
  BY DEF IInv, TypeOK, Runners, ClosedIsEmpty, SshOwned
<1>8. (ClientsOwned /\ NoClosedClientHandedOut)'
  BY DEF IInv, TypeOK, Runners, Locals, CreatedApart, Created, Held, Pending,
     ExclusiveUse, Members, Borrowed, QueueSound, ClientsOwned,
     NoClosedClientHandedOut, ClosedIsEmpty
<1>9. QED BY <1>1, <1>2, <1>3, <1>4, <1>5, <1>6, <1>7, <1>8 DEF IInv

(* HealthProbeFails: A probe fails.                                        *)
LEMMA HealthProbeFailsKeeps ==
  ASSUME NEW c \in Conn, IInv, HealthProbeFails(c)
  PROVE  IInv'
<1> USE PoolAssumption DEF PoolAssumption, HealthProbeFails,
      RemoveConnections, poolVars, connVars, linkVars, userVars, taskVars,
      Client, NoClient, Replenisher
<1>1. TypeOK'
  <2>1. hc' \in CheckState
    <3>1. hc.idle \ {c} \in SUBSET Conn /\ hc.at \in {"off", "probe", "replenish"}
      BY DEF IInv, TypeOK, CheckState
    <3>2. hc' = [hc EXCEPT !.idle = @ \ {c}, !.bad = TRUE]
      OBVIOUS
    <3>3. hc \in CheckState
      BY DEF IInv, TypeOK
    <3>4. QED BY ONLY <3>1, <3>2, <3>3 DEF CheckState
  <2>2. QED BY <2>1 DEF IInv, TypeOK
<1>2. (Runners /\ Locals)'
  BY DEF IInv, TypeOK, Runners, Locals
<1>3. CreatedApart'
  BY FiniteConns, SmallSets DEF IInv, TypeOK, Runners, Locals, CreatedApart,
     Created, Held, Pending, ExclusiveUse, Members, Borrowed, QueueSound
<1>4. (Members /\ Borrowed)'
  BY FiniteConns, SmallSets DEF IInv, TypeOK, Runners, Locals, CreatedApart,
     Created, Held, Pending, ExclusiveUse, Members, Borrowed, QueueSound
<1>5. PoolBounded'
  BY FiniteConns, SMTT(60) DEF IInv, TypeOK, Runners, CreatedApart, PoolBounded
<1>6. (QueueSound /\ ExclusiveUse)'
  BY SMTT(60) DEF IInv, TypeOK, Runners, Locals, CreatedApart, Created, Held,
     Pending, ExclusiveUse, Members, Borrowed, QueueSound, ClosedIsEmpty
<1>7. (ClosedIsEmpty /\ SshOwned)'
  BY DEF IInv, TypeOK, Runners, ClosedIsEmpty, SshOwned
<1>8. (ClientsOwned /\ NoClosedClientHandedOut)'
  BY DEF IInv, TypeOK, Runners, Locals, CreatedApart, Created, Held, Pending,
     ExclusiveUse, Members, Borrowed, QueueSound, ClientsOwned,
     NoClosedClientHandedOut, ClosedIsEmpty
<1>9. QED BY <1>1, <1>2, <1>3, <1>4, <1>5, <1>6, <1>7, <1>8 DEF IInv

(* LinkDrops: A TCP link dies.                                             *)
LEMMA LinkDropsKeeps ==
  ASSUME NEW g \in Client, IInv, LinkDrops(g)
  PROVE  IInv'
<1> USE PoolAssumption DEF PoolAssumption, LinkDrops, Alive, poolVars,
      connVars, linkVars, userVars, taskVars, Client, NoClient, Replenisher
<1>1. TypeOK'
  BY DEF IInv, TypeOK
<1>2. (Runners /\ Locals)'
  BY DEF IInv, TypeOK, Runners, Locals
<1>3. CreatedApart'
  BY FiniteConns, SmallSets DEF IInv, TypeOK, Runners, Locals, CreatedApart,
     Created, Held, Pending, ExclusiveUse, Members, Borrowed, QueueSound
<1>4. (Members /\ Borrowed)'
  BY FiniteConns, SmallSets DEF IInv, TypeOK, Runners, Locals, CreatedApart,
     Created, Held, Pending, ExclusiveUse, Members, Borrowed, QueueSound
<1>5. PoolBounded'
  BY FiniteConns, SmallSets DEF IInv, TypeOK, Runners, CreatedApart,
     PoolBounded
<1>6. (QueueSound /\ ExclusiveUse)'
  BY DEF IInv, TypeOK, Runners, Locals, CreatedApart, Created, Held, Pending,
     ExclusiveUse, Members, Borrowed, QueueSound, ClosedIsEmpty
<1>7. (ClosedIsEmpty /\ SshOwned)'
  BY DEF IInv, TypeOK, Runners, ClosedIsEmpty, SshOwned
<1>8. (ClientsOwned /\ NoClosedClientHandedOut)'
  BY DEF IInv, TypeOK, Runners, Locals, CreatedApart, Created, Held, Pending,
     ExclusiveUse, Members, Borrowed, QueueSound, ClientsOwned,
     NoClosedClientHandedOut, ClosedIsEmpty
<1>9. QED BY <1>1, <1>2, <1>3, <1>4, <1>5, <1>6, <1>7, <1>8 DEF IInv

-----------------------------------------------------------------------------
(* A new pool satisfies the inductive invariant.                            *)
LEMMA IInvInit == Init => IInv
<1> SUFFICES ASSUME Init PROVE IInv
  OBVIOUS
<1> USE PoolAssumption DEF PoolAssumption, Init, Client, NoClient
<1>1. TypeOK
  <2>1. rc \in ReconnectState
    BY DEF NoReconnect, ReconnectState
  <2>2. rp \in [Replenisher -> ReplenishState]
    BY DEF NoReplenish, ReplenishState
  <2>3. hc \in CheckState
    BY DEF NoCheck, CheckState
  <2>4. /\ pc \in [User -> PC] /\ held \in [User -> Conn \cup {None}]
        /\ tries \in [User -> 0..(MaxSize - 1)] /\ attempt \in [User -> {0, 1}]
        /\ background \in 0..MaxBackground
    BY DEF PC
  <2>5. transport \in [Conn -> Client \cup {NoClient}] /\ conns \in SUBSET Conn
    OBVIOUS
  <2>6. /\ closed \in BOOLEAN /\ cooling \in BOOLEAN
        /\ available \subseteq Conn /\ open \subseteq Conn
        /\ inUse \subseteq Conn /\ failed \subseteq Conn /\ retired \subseteq Conn
    BY ONLY <2>5, Init DEF Init
  <2>7. /\ ssh \in Client \cup {NoClient} /\ lastClient \in Client
        /\ sshOpen \subseteq Client /\ linkUp \subseteq Client
    BY ONLY PoolAssumption, Init
  <2>8. QED BY ONLY <2>1, <2>2, <2>3, <2>4, <2>5, <2>6, <2>7 DEF TypeOK
<1>2. Held = {} /\ Pending = {} /\ rc.made = {} /\ rc.closing = {}
  BY DEF Held, Pending, NoReconnect, NoReplenish
<1>3. Runners /\ Locals
  BY DEF Runners, Locals, NoReconnect, NoReplenish, NoCheck, Replenisher
<1>4. Created = {}
  BY <1>2 DEF Created
<1>5. CreatedApart
  BY <1>2, <1>4, SmallSets DEF CreatedApart, Replenisher, NoReplenish
<1>6. Members /\ Borrowed
  BY <1>2 DEF Members, Borrowed
<1>7. PoolBounded
  BY DEF PoolBounded
<1>8. QueueSound /\ ExclusiveUse /\ ClosedIsEmpty
  BY <1>2 DEF QueueSound, ExclusiveUse, ClosedIsEmpty
<1>9. SshOwned /\ ClientsOwned /\ NoClosedClientHandedOut
  BY <1>2 DEF SshOwned, ClientsOwned, NoClosedClientHandedOut
<1>10. QED BY <1>1, <1>3, <1>5, <1>6, <1>7, <1>8, <1>9 DEF IInv

(* Every step of the pool preserves it.                                     *)
LEMMA IInvStep == IInv /\ [Next]_vars => IInv'
<1> SUFFICES ASSUME IInv, [Next]_vars PROVE IInv'
  OBVIOUS
<1>1. ASSUME NEW u \in User, Begin(u) \/ UserStep(u) \/ UserEnters(u) PROVE IInv'
  BY <1>1, BeginKeeps, TakeClosedKeeps, TakeQueuedKeeps, TakeNoneKeeps,
     CheckRoomKeeps, CreateKeeps, CreateFailsKeeps, AddCreatedKeeps,
     WaitTimesOutKeeps, MarkInUseKeeps, UsableKeeps, UnusableKeeps,
     UseSucceedsKeeps, UseFailsKeeps, UserEntersKeeps DEF UserStep
<1>2. CASE ReconnectStep
  BY <1>2, TransportProbedKeeps, CoolingDownKeeps, StartDialKeeps,
     DialFailsKeeps, DialKeeps, SwapClosedKeeps, SwapKeeps, CloseOldKeeps
     DEF ReconnectStep
<1>3. ASSUME NEW r \in Replenisher, ReplenishStep(r) PROVE IInv'
  BY <1>3, CountMissingKeeps, ReplenishCreatesKeeps, ReplenishFailsKeeps,
     ReplenishAddsKeeps, ReplenishDiscardsKeeps
     DEF ReplenishStep
<1>4. CASE HealthStep
  BY <1>4, HealthProbedKeeps, HealthProbesKeeps, HealthProbeFailsKeeps
     DEF HealthStep
<1>5. CASE BackgroundEnters \/ HealthTick \/ KeepAliveFails
  BY <1>5, BackgroundEntersKeeps, HealthTickKeeps, KeepAliveFailsKeeps
<1>6. CASE CloseAll \/ CooldownOver
  BY <1>6, CloseAllKeeps, CooldownOverKeeps
<1>7. ASSUME NEW g \in Client, LinkDrops(g) PROVE IInv'
  BY <1>7, LinkDropsKeeps
<1>8. CASE UNCHANGED vars
  BY <1>8 DEF vars, poolVars, connVars, linkVars, userVars, taskVars, IInv,
     TypeOK, Runners, Locals, CreatedApart, Created, Held, Pending, Members,
     Borrowed, PoolBounded, QueueSound, ExclusiveUse, ClosedIsEmpty, SshOwned,
     ClientsOwned, NoClosedClientHandedOut
<1>9. QED
  BY <1>1, <1>2, <1>3, <1>4, <1>5, <1>6, <1>7, <1>8 DEF Next

(* The inductive invariant holds in every reachable state, for any number of *)
(* callers, connections, dials and waiting reconnects.                       *)
THEOREM PoolInvariant == Spec => []IInv
BY IInvInit, IInvStep, PTL DEF Spec

(* The state of the pool stays well typed: loop counters never exceed the bounds
   of acquire and withConn. *)
THEOREM PoolTypeCorrect == Spec => []TypeOK
<1>1. IInv => TypeOK
  BY DEF IInv
<1>2. QED BY <1>1, PoolInvariant, PTL

(* However many callers, replenish calls and reconnects dial at once, the pool
   never registers more than poolMaxSize connections. *)
THEOREM PoolNeverOverfull == Spec => []PoolBounded
<1>1. IInv => PoolBounded
  BY DEF IInv
<1>2. QED BY <1>1, PoolInvariant, PTL

(* The channel only ever offers open, idle, current members of the pool. *)
THEOREM QueueAlwaysSound == Spec => []QueueSound
<1>1. IInv => QueueSound
  BY DEF IInv
<1>2. QED BY <1>1, PoolInvariant, PTL

(* No SFTP client is ever in the hands of two callers. *)
THEOREM ConnectionsExclusive == Spec => []ExclusiveUse
<1>1. IInv => ExclusiveUse
  BY DEF IInv
<1>2. QED BY <1>1, PoolInvariant, PTL

(* Nothing joins a pool after closeAll. *)
THEOREM ClosedPoolStaysEmpty == Spec => []ClosedIsEmpty
<1>1. IInv => ClosedIsEmpty
  BY DEF IInv
<1>2. QED BY <1>1, PoolInvariant, PTL

(* No SSH connection dialled by reconnect is ever leaked. *)
THEOREM SshNeverLeaked == Spec => []SshOwned
<1>1. IInv => SshOwned
  BY DEF IInv
<1>2. QED BY <1>1, PoolInvariant, PTL

(* No SFTP client is leaked, except one that was retired in use and came back
   after closeAll. *)
THEOREM ClientsNeverLeaked == Spec => []ClientsOwned
<1>1. IInv => ClientsOwned
  BY DEF IInv
<1>2. QED BY <1>1, PoolInvariant, PTL

(* While the pool is open no operation runs on a client the pool has closed. *)
THEOREM HandedOutClientsOpen == Spec => []NoClosedClientHandedOut
<1>1. IInv => NoClosedClientHandedOut
  BY DEF IInv
<1>2. QED BY <1>1, PoolInvariant, PTL

(* The bookkeeping of the pool is right in every state: never more connections
   than its size, only idle open members on offer, nothing in a closed pool. *)
THEOREM PoolBookkeeping == Spec => []PoolSound
<1>1. IInv => PoolSound
  BY DEF IInv, PoolSound
<1>2. QED BY <1>1, PoolInvariant, PTL

(* Every SSH connection and SFTP client that is open has somebody who will close
   it, whatever reconnects, releases and closeAll overlap. *)
THEOREM PoolLeaksNothing == Spec => []NothingLeaks
<1>1. IInv => NothingLeaks
  BY DEF IInv, NothingLeaks
<1>2. QED BY <1>1, PoolInvariant, PTL

-----------------------------------------------------------------------------
(* One step never closes the client under an operation that goes on, unless  *)
(* it is closeAll: only a member, a retired connection or one that its       *)
(* creator still owns is ever closed, and never one that is in use.          *)
LEMMA NotCutStep ==
  ASSUME IInv, Next, NEW w \in User, pc[w] = "use", held[w] \in open
  PROVE  held[w] \in open' \/ closed' \/ pc'[w] # "use"
<1> USE PoolAssumption DEF IInv, poolVars, connVars, linkVars, userVars, taskVars
<1>1. /\ held[w] \in inUse /\ held[w] \notin rc.closing
      /\ held[w] \in conns \cup retired /\ held[w] \notin Created
      /\ \A v \in User \ {w} : held[v] # held[w] \/ held[v] = None
      /\ held[w] \in Conn
  BY DEF Borrowed, CreatedApart, ExclusiveUse, Locals, TypeOK
<1>2. ASSUME NEW u \in User, Begin(u)
      PROVE  held[w] \in open' \/ closed' \/ pc'[w] # "use"
  BY <1>1, <1>2 DEF Begin, Goto, Local
<1>3. ASSUME NEW u \in User, TakeClosed(u)
      PROVE  held[w] \in open' \/ closed' \/ pc'[w] # "use"
  BY <1>1, <1>3 DEF TakeClosed, Return, Local
<1>4. ASSUME NEW u \in User, TakeQueued(u)
      PROVE  held[w] \in open' \/ closed' \/ pc'[w] # "use"
  BY <1>1, <1>4 DEF TakeQueued, Goto, Local
<1>5. ASSUME NEW u \in User, TakeNone(u)
      PROVE  held[w] \in open' \/ closed' \/ pc'[w] # "use"
  BY <1>1, <1>5 DEF TakeNone, Goto, Local
<1>6. ASSUME NEW u \in User, CheckRoom(u)
      PROVE  held[w] \in open' \/ closed' \/ pc'[w] # "use"
  BY <1>1, <1>6 DEF CheckRoom, Goto, Local
<1>7. ASSUME NEW u \in User, Create(u)
      PROVE  held[w] \in open' \/ closed' \/ pc'[w] # "use"
  BY <1>1, <1>7 DEF Create, Alive, OpenClients, Goto, Local
<1>8. ASSUME NEW u \in User, CreateFails(u)
      PROVE  held[w] \in open' \/ closed' \/ pc'[w] # "use"
  BY <1>1, <1>8 DEF CreateFails, TransportError, Local, Return
<1>9. ASSUME NEW u \in User, AddCreated(u)
      PROVE  held[w] \in open' \/ closed' \/ pc'[w] # "use"
  BY <1>1, <1>9 DEF AddCreated, CanAdd, Goto, Discard, Return, Local, TypeOK,
     Locals, Created, Pending, Members
<1>10. ASSUME NEW u \in User, WaitTimesOut(u)
      PROVE  held[w] \in open' \/ closed' \/ pc'[w] # "use"
  BY <1>1, <1>10 DEF WaitTimesOut, TransportError, Local, Return
<1>11. ASSUME NEW u \in User, MarkInUse(u)
      PROVE  held[w] \in open' \/ closed' \/ pc'[w] # "use"
  BY <1>1, <1>11 DEF MarkInUse, Goto, Local
<1>12. ASSUME NEW u \in User, Usable(u)
      PROVE  held[w] \in open' \/ closed' \/ pc'[w] # "use"
  BY <1>1, <1>12 DEF Usable, LooksUsable, Local
<1>13. ASSUME NEW u \in User, Unusable(u)
      PROVE  held[w] \in open' \/ closed' \/ pc'[w] # "use"
  BY <1>1, <1>13 DEF Unusable, Release, MoreTries, Local, TransportError,
     RemoveConnections, Offer, Return, TypeOK, Locals, Created, Pending,
     Members
<1>14. ASSUME NEW u \in User, UseSucceeds(u)
      PROVE  held[w] \in open' \/ closed' \/ pc'[w] # "use"
  BY <1>1, <1>14 DEF UseSucceeds, Works, Release, Return, Alive,
     RemoveConnections, Offer, Local, TypeOK, Locals, Created, Pending,
     Members
<1>15. ASSUME NEW u \in User, UseFails(u)
      PROVE  held[w] \in open' \/ closed' \/ pc'[w] # "use"
  BY <1>1, <1>15 DEF UseFails, Release, TransportError, Return,
     RemoveConnections, Offer, Local, TypeOK, Locals, Created, Pending,
     Members
<1>16. ASSUME NEW u \in User, UserEnters(u)
      PROVE  held[w] \in open' \/ closed' \/ pc'[w] # "use"
  BY <1>1, <1>16 DEF UserEnters, Return, Goto, Reconnecting, Local
<1>17. CASE BackgroundEnters
  BY <1>1, <1>17 DEF BackgroundEnters, Reconnecting
<1>18. CASE TransportProbed
  BY <1>1, <1>18 DEF TransportProbed, Alive, RemoveConnections, FailedIdle,
     Counting, TypeOK, Locals, Created, Pending, Members
<1>19. CASE CoolingDown
  BY <1>1, <1>19 DEF CoolingDown, ReconnectReturns, NoReconnect, Local,
     Return
<1>20. CASE StartDial
  BY <1>1, <1>20 DEF StartDial
<1>21. CASE DialFails
  BY <1>1, <1>21 DEF DialFails, ReconnectReturns, NoReconnect, Local, Return
<1>22. CASE Dial
  BY <1>1, <1>22 DEF Dial, OpenClients
<1>23. CASE SwapClosed
  BY <1>1, <1>23 DEF SwapClosed, GiveUp, ReconnectReturns, NoReconnect,
     Local, Return, TypeOK, Locals, Created, Pending, Members
<1>24. CASE Swap
  BY <1>1, <1>24 DEF Swap
<1>25. CASE CloseOld
  BY <1>1, <1>25 DEF CloseOld, ReconnectReturns, NoReconnect, Local, Return,
     TypeOK, Locals, Created, Pending, Members
<1>26. ASSUME NEW r \in Replenisher, CountMissing(r)
      PROVE  held[w] \in open' \/ closed' \/ pc'[w] # "use"
  BY <1>1, <1>26 DEF CountMissing, ReplenishReturns, NoReplenish, NoCheck,
     ReconnectReturns, NoReconnect, Local, Return
<1>27. ASSUME NEW r \in Replenisher, ReplenishCreates(r)
      PROVE  held[w] \in open' \/ closed' \/ pc'[w] # "use"
  BY <1>1, <1>27 DEF ReplenishCreates, Alive, OpenClients
<1>28. ASSUME NEW r \in Replenisher, ReplenishFails(r)
      PROVE  held[w] \in open' \/ closed' \/ pc'[w] # "use"
  BY <1>1, <1>28 DEF ReplenishFails, ReplenishReturns, NoReplenish, NoCheck,
     ReconnectReturns, NoReconnect, Local, Return
<1>29. ASSUME NEW r \in Replenisher, ReplenishAdds(r)
      PROVE  held[w] \in open' \/ closed' \/ pc'[w] # "use"
  BY <1>1, <1>29 DEF ReplenishAdds, CanAdd, Offer, ReplenishReturns,
     NoReplenish, NoCheck, ReconnectReturns, NoReconnect, Local, Return,
     TypeOK, Locals, Created, Pending, Members
<1>30. ASSUME NEW r \in Replenisher, ReplenishDiscards(r)
      PROVE  held[w] \in open' \/ closed' \/ pc'[w] # "use"
  BY <1>1, <1>30 DEF ReplenishDiscards, CanAdd, Discard, ReplenishReturns,
     NoReplenish, NoCheck, ReconnectReturns, NoReconnect, Local, Return,
     TypeOK, Locals, Created, Pending, Members
<1>31. CASE HealthTick
  BY <1>1, <1>31 DEF HealthTick, RemoveConnections, FailedIdle, TypeOK,
     Locals, Created, Pending, Members
<1>32. CASE HealthProbed
  BY <1>1, <1>32 DEF HealthProbed, RequestReconnect, Counting
<1>33. CASE KeepAliveFails
  BY <1>1, <1>33 DEF KeepAliveFails, RequestReconnect
<1>34. CASE CloseAll
  BY <1>1, <1>34 DEF CloseAll, TypeOK, Locals, Created, Pending, Members
<1>35. CASE CooldownOver
  BY <1>1, <1>35 DEF CooldownOver
<1>36. ASSUME NEW c \in Conn, HealthProbes(c)
      PROVE  held[w] \in open' \/ closed' \/ pc'[w] # "use"
  BY <1>1, <1>36 DEF HealthProbes, Works, Alive
<1>37. ASSUME NEW c \in Conn, HealthProbeFails(c)
      PROVE  held[w] \in open' \/ closed' \/ pc'[w] # "use"
  BY <1>1, <1>37 DEF HealthProbeFails, RemoveConnections, TypeOK, Locals,
     Created, Pending, Members
<1>38. ASSUME NEW g \in Client, LinkDrops(g)
      PROVE  held[w] \in open' \/ closed' \/ pc'[w] # "use"
  BY <1>1, <1>38 DEF LinkDrops, Alive
<1>39. QED
  BY <1>2, <1>3, <1>4, <1>5, <1>6, <1>7, <1>8, <1>9, <1>10, <1>11, <1>12,
     <1>13, <1>14, <1>15, <1>16, <1>17, <1>18, <1>19, <1>20, <1>21, <1>22,
     <1>23, <1>24, <1>25, <1>26, <1>27, <1>28, <1>29, <1>30, <1>31, <1>32,
     <1>33, <1>34, <1>35, <1>36, <1>37, <1>38
     DEF Next, UserStep, ReconnectStep, ReplenishStep, HealthStep

(* While an operation runs, only closeAll closes its SFTP client.            *)
THEOREM OperationsNotCut == Spec => NotCutInUse
<1>1. ASSUME IInv, [Next]_vars
      PROVE  [\A u \in User :
                pc[u] = "use" /\ held[u] \in open /\ held[u] \notin open'
                  => closed' \/ pc'[u] # "use"]_vars
  BY <1>1, NotCutStep
<1>2. QED BY <1>1, PoolInvariant, PTL DEF Spec, NotCutInUse
=============================================================================

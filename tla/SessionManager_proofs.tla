------------------------ MODULE SessionManager_proofs ------------------------
(***************************************************************************)
(* The registry's safety for any number of tabs and sessions: the counters  *)
(* agree with the holders, no session others hold is closed, and every open *)
(* pool is registered or about to be closed.                                *)
(*                                                                         *)
(* The argument rests on names: a session somebody can still name is never  *)
(* given to a new transport, so what a request read before an unlock means  *)
(* the same session after it, or one that is gone.                          *)
(***************************************************************************)
EXTENDS SessionManager, FiniteSetTheorems, TLAPS

Found == {"reconnect", "keep", "keepcooling", "discard"}

\* The tabs that count for a session.
Counting(s) == {t \in Tab : held[t] = s /\ pc[t] = "holds"}

\* Each local variable has a session exactly where the code has one.
LocalsAt(t) ==
  /\ pc[t] \in {"none", "dial", "dedicated"} => chosen[t] = None /\ held[t] = None
  /\ pc[t] \in Found => chosen[t] # None /\ held[t] = None
  /\ pc[t] = "holds" => chosen[t] = None /\ held[t] # None
  /\ pc[t] = "close" => chosen[t] # None /\ held[t] \in {None, chosen[t]}
Locals == \A t \in Tab : LocalsAt(t)

\* A session that is about to be closed can no longer be looked up.
ClosersAt(t) == pc[t] = "close" => chosen[t] \notin sessions
Closers == \A t \in Tab : ClosersAt(t)

\* What a tab may be given beside others is not the bridge's.
SharedAt(t) == pc[t] \in Found => chosen[t] \notin dedicated
OfferedIsShared == byProfile \notin dedicated /\ \A t \in Tab : SharedAt(t)

\* The counters, with the type of refs.
CountsAt(s) == s \in sessions => refs[s] = Cardinality(Counting(s))
Counts == \A s \in Session : CountsAt(s)

IInv ==
  /\ TypeOK /\ Locals /\ Closers /\ OfferedIsShared /\ Counts
  /\ HoldersKept /\ RegisteredIsOpen /\ PoolsOwned /\ DedicatedApart

-----------------------------------------------------------------------------
(* Counting.                                                                *)

LEMMA CountingFinite ==
  ASSUME NEW s
  PROVE  /\ IsFiniteSet(Counting(s)) /\ Cardinality(Counting(s)) \in Nat
         /\ Cardinality(Counting(s)) <= Cardinality(Tab) /\ Cardinality(Tab) \in Nat
<1>1. Counting(s) \subseteq Tab
  BY DEF Counting
<1> QED
  BY <1>1, ManagerAssumption, FS_Subset, FS_CardinalityType

\* There is room in a counter for a tab that does not hold the session yet.
LEMMA RoomForOne ==
  ASSUME NEW s, NEW t \in Tab, t \notin Counting(s)
  PROVE  Cardinality(Counting(s)) + 1 <= Cardinality(Tab)
<1>1. Cardinality(Counting(s) \cup {t}) = Cardinality(Counting(s)) + 1
  BY CountingFinite, FS_AddElement
<1>2. Counting(s) \cup {t} \subseteq Tab
  BY DEF Counting
<1>3. Cardinality(Counting(s) \cup {t}) <= Cardinality(Tab)
  BY <1>2, ManagerAssumption, FS_Subset
<1> QED
  BY <1>1, <1>3

\* A step that changes nobody's holding leaves the counts right.
LEMMA CountsKept ==
  ASSUME Counts, sessions' \subseteq sessions,
         \A s \in sessions' : refs'[s] = refs[s],
         \A s \in sessions' : Counting(s)' = Counting(s)
  PROVE  Counts'
  BY DEF Counts, CountsAt

-----------------------------------------------------------------------------
(* The invariant at the start, and one lemma per action.                    *)

LEMMA InitInv ==
  ASSUME Init
  PROVE  IInv
<1>1. Cardinality(Tab) \in Nat
  BY ManagerAssumption, FS_CardinalityType
<1>2. TypeOK
  <2>1. 0 \in 0..Cardinality(Tab)
    BY <1>1
  <2> QED
    BY <2>1 DEF Init, TypeOK, PC
<1>3. Locals /\ Closers /\ OfferedIsShared /\ Counts
  BY DEF Init, Locals, LocalsAt, Closers, ClosersAt, OfferedIsShared, SharedAt, Counts, CountsAt,
    Found
<1>4. HoldersKept /\ RegisteredIsOpen /\ PoolsOwned /\ DedicatedApart
  BY DEF Init, HoldersKept, RegisteredIsOpen, PoolsOwned, DedicatedApart
<1> QED
  BY <1>2, <1>3, <1>4 DEF IInv

LEMMA ConnectKeeps ==
  ASSUME IInv, NEW t \in Tab, Connect(t)
  PROVE  IInv'
<1>1. TypeOK'
  BY ManagerAssumption DEF Connect, Local, index, pools, tabs, past, IInv, TypeOK, PC
<1>2. Locals'
  BY ManagerAssumption DEF Connect, Local, index, pools, tabs, past, IInv, TypeOK, Locals,
    LocalsAt, Found
<1>3. Closers'
  BY ManagerAssumption DEF Connect, Local, index, pools, tabs, past, IInv, TypeOK, Locals,
    LocalsAt, Closers, ClosersAt, RegisteredIsOpen, Found
<1>4. OfferedIsShared'
  BY ManagerAssumption DEF Connect, Local, index, pools, tabs, past, IInv, TypeOK, Locals,
    LocalsAt, OfferedIsShared, SharedAt, Found
<1>5. Counts'
  <2>1. \A x \in sessions' : Counting(x)' = Counting(x)
    BY ManagerAssumption DEF Connect, Local, index, pools, tabs, past, IInv, TypeOK, Locals,
      LocalsAt, Counting, Found
  <2>2. sessions' \subseteq sessions /\ \A x \in sessions' : refs'[x] = refs[x]
    BY DEF Connect, Local, index, pools, tabs, past, IInv, TypeOK
  <2> QED
    BY <2>1, <2>2, CountsKept DEF IInv
<1>6. HoldersKept'
  BY ManagerAssumption DEF Connect, Local, index, pools, tabs, past, IInv, TypeOK, Locals,
    LocalsAt, HoldersKept, Found
<1>7. RegisteredIsOpen'
  BY ManagerAssumption DEF Connect, Local, index, pools, tabs, past, IInv, TypeOK,
    RegisteredIsOpen, Closers, ClosersAt
<1>8. PoolsOwned'
  BY ManagerAssumption DEF Connect, Local, index, pools, tabs, past, IInv, TypeOK, PoolsOwned,
    Locals, LocalsAt, Closers, ClosersAt, RegisteredIsOpen, Found
<1>9. DedicatedApart'
  BY ManagerAssumption DEF Connect, Local, index, pools, tabs, past, IInv, TypeOK, Locals,
    LocalsAt, DedicatedApart, OfferedIsShared, SharedAt, Found
<1> QED
  BY <1>1, <1>2, <1>3, <1>4, <1>5, <1>6, <1>7, <1>8, <1>9 DEF IInv

LEMMA ConnectDedicatedKeeps ==
  ASSUME IInv, NEW t \in Tab, ConnectDedicated(t)
  PROVE  IInv'
<1>1. TypeOK'
  BY ManagerAssumption DEF ConnectDedicated, Local, index, pools, tabs, past, IInv, TypeOK, PC
<1>2. Locals'
  BY ManagerAssumption DEF ConnectDedicated, Local, index, pools, tabs, past, IInv, TypeOK,
    Locals, LocalsAt, Found
<1>3. Closers'
  BY ManagerAssumption DEF ConnectDedicated, Local, index, pools, tabs, past, IInv, TypeOK,
    Locals, LocalsAt, Closers, ClosersAt, RegisteredIsOpen, Found
<1>4. OfferedIsShared'
  BY ManagerAssumption DEF ConnectDedicated, Local, index, pools, tabs, past, IInv, TypeOK,
    Locals, LocalsAt, OfferedIsShared, SharedAt, Found
<1>5. Counts'
  <2>1. \A x \in sessions' : Counting(x)' = Counting(x)
    BY ManagerAssumption DEF ConnectDedicated, Local, index, pools, tabs, past, IInv, TypeOK,
      Locals, LocalsAt, Counting, Found
  <2>2. sessions' \subseteq sessions /\ \A x \in sessions' : refs'[x] = refs[x]
    BY DEF ConnectDedicated, Local, index, pools, tabs, past, IInv, TypeOK
  <2> QED
    BY <2>1, <2>2, CountsKept DEF IInv
<1>6. HoldersKept'
  BY ManagerAssumption DEF ConnectDedicated, Local, index, pools, tabs, past, IInv, TypeOK,
    Locals, LocalsAt, HoldersKept, Found
<1>7. RegisteredIsOpen'
  BY ManagerAssumption DEF ConnectDedicated, Local, index, pools, tabs, past, IInv, TypeOK,
    RegisteredIsOpen, Closers, ClosersAt
<1>8. PoolsOwned'
  BY ManagerAssumption DEF ConnectDedicated, Local, index, pools, tabs, past, IInv, TypeOK,
    PoolsOwned, Locals, LocalsAt, Closers, ClosersAt, RegisteredIsOpen, Found
<1>9. DedicatedApart'
  BY ManagerAssumption DEF ConnectDedicated, Local, index, pools, tabs, past, IInv, TypeOK,
    Locals, LocalsAt, DedicatedApart, OfferedIsShared, SharedAt, Found
<1> QED
  BY <1>1, <1>2, <1>3, <1>4, <1>5, <1>6, <1>7, <1>8, <1>9 DEF IInv

LEMMA ReconnectOkKeeps ==
  ASSUME IInv, NEW t \in Tab, ReconnectOk(t)
  PROVE  IInv'
<1>1. TypeOK'
  BY ManagerAssumption DEF ReconnectOk, Local, index, pools, tabs, past, IInv, TypeOK, PC
<1>2. Locals'
  BY ManagerAssumption DEF ReconnectOk, Local, index, pools, tabs, past, IInv, TypeOK, Locals,
    LocalsAt, Found
<1>3. Closers'
  BY ManagerAssumption DEF ReconnectOk, Local, index, pools, tabs, past, IInv, TypeOK, Locals,
    LocalsAt, Closers, ClosersAt, RegisteredIsOpen, Found
<1>4. OfferedIsShared'
  BY ManagerAssumption DEF ReconnectOk, Local, index, pools, tabs, past, IInv, TypeOK, Locals,
    LocalsAt, OfferedIsShared, SharedAt, Found
<1>5. Counts'
  <2>1. \A x \in sessions' : Counting(x)' = Counting(x)
    BY ManagerAssumption DEF ReconnectOk, Local, index, pools, tabs, past, IInv, TypeOK, Locals,
      LocalsAt, Counting, Found
  <2>2. sessions' \subseteq sessions /\ \A x \in sessions' : refs'[x] = refs[x]
    BY DEF ReconnectOk, Local, index, pools, tabs, past, IInv, TypeOK
  <2> QED
    BY <2>1, <2>2, CountsKept DEF IInv
<1>6. HoldersKept'
  BY ManagerAssumption DEF ReconnectOk, Local, index, pools, tabs, past, IInv, TypeOK, Locals,
    LocalsAt, HoldersKept, Found
<1>7. RegisteredIsOpen'
  BY ManagerAssumption DEF ReconnectOk, Local, index, pools, tabs, past, IInv, TypeOK,
    RegisteredIsOpen, Closers, ClosersAt
<1>8. PoolsOwned'
  BY ManagerAssumption DEF ReconnectOk, Local, index, pools, tabs, past, IInv, TypeOK,
    PoolsOwned, Locals, LocalsAt, Closers, ClosersAt, RegisteredIsOpen, Found
<1>9. DedicatedApart'
  BY ManagerAssumption DEF ReconnectOk, Local, index, pools, tabs, past, IInv, TypeOK, Locals,
    LocalsAt, DedicatedApart, OfferedIsShared, SharedAt, Found
<1> QED
  BY <1>1, <1>2, <1>3, <1>4, <1>5, <1>6, <1>7, <1>8, <1>9 DEF IInv

LEMMA ReconnectCoolingKeeps ==
  ASSUME IInv, NEW t \in Tab, ReconnectCooling(t)
  PROVE  IInv'
<1>1. TypeOK'
  BY ManagerAssumption DEF ReconnectCooling, Local, index, pools, tabs, past, IInv, TypeOK, PC
<1>2. Locals'
  BY ManagerAssumption DEF ReconnectCooling, Local, index, pools, tabs, past, IInv, TypeOK,
    Locals, LocalsAt, Found
<1>3. Closers'
  BY ManagerAssumption DEF ReconnectCooling, Local, index, pools, tabs, past, IInv, TypeOK,
    Locals, LocalsAt, Closers, ClosersAt, RegisteredIsOpen, Found
<1>4. OfferedIsShared'
  BY ManagerAssumption DEF ReconnectCooling, Local, index, pools, tabs, past, IInv, TypeOK,
    Locals, LocalsAt, OfferedIsShared, SharedAt, Found
<1>5. Counts'
  <2>1. \A x \in sessions' : Counting(x)' = Counting(x)
    BY ManagerAssumption DEF ReconnectCooling, Local, index, pools, tabs, past, IInv, TypeOK,
      Locals, LocalsAt, Counting, Found
  <2>2. sessions' \subseteq sessions /\ \A x \in sessions' : refs'[x] = refs[x]
    BY DEF ReconnectCooling, Local, index, pools, tabs, past, IInv, TypeOK
  <2> QED
    BY <2>1, <2>2, CountsKept DEF IInv
<1>6. HoldersKept'
  BY ManagerAssumption DEF ReconnectCooling, Local, index, pools, tabs, past, IInv, TypeOK,
    Locals, LocalsAt, HoldersKept, Found
<1>7. RegisteredIsOpen'
  BY ManagerAssumption DEF ReconnectCooling, Local, index, pools, tabs, past, IInv, TypeOK,
    RegisteredIsOpen, Closers, ClosersAt
<1>8. PoolsOwned'
  BY ManagerAssumption DEF ReconnectCooling, Local, index, pools, tabs, past, IInv, TypeOK,
    PoolsOwned, Locals, LocalsAt, Closers, ClosersAt, RegisteredIsOpen, Found
<1>9. DedicatedApart'
  BY ManagerAssumption DEF ReconnectCooling, Local, index, pools, tabs, past, IInv, TypeOK,
    Locals, LocalsAt, DedicatedApart, OfferedIsShared, SharedAt, Found
<1> QED
  BY <1>1, <1>2, <1>3, <1>4, <1>5, <1>6, <1>7, <1>8, <1>9 DEF IInv

LEMMA ReconnectFailsKeeps ==
  ASSUME IInv, NEW t \in Tab, ReconnectFails(t)
  PROVE  IInv'
<1>1. TypeOK'
  BY ManagerAssumption DEF ReconnectFails, Local, index, pools, tabs, past, IInv, TypeOK, PC
<1>2. Locals'
  BY ManagerAssumption DEF ReconnectFails, Local, index, pools, tabs, past, IInv, TypeOK, Locals,
    LocalsAt, Found
<1>3. Closers'
  BY ManagerAssumption DEF ReconnectFails, Local, index, pools, tabs, past, IInv, TypeOK, Locals,
    LocalsAt, Closers, ClosersAt, RegisteredIsOpen, Found
<1>4. OfferedIsShared'
  BY ManagerAssumption DEF ReconnectFails, Local, index, pools, tabs, past, IInv, TypeOK, Locals,
    LocalsAt, OfferedIsShared, SharedAt, Found
<1>5. Counts'
  <2>1. \A x \in sessions' : Counting(x)' = Counting(x)
    BY ManagerAssumption DEF ReconnectFails, Local, index, pools, tabs, past, IInv, TypeOK,
      Locals, LocalsAt, Counting, Found
  <2>2. sessions' \subseteq sessions /\ \A x \in sessions' : refs'[x] = refs[x]
    BY DEF ReconnectFails, Local, index, pools, tabs, past, IInv, TypeOK
  <2> QED
    BY <2>1, <2>2, CountsKept DEF IInv
<1>6. HoldersKept'
  BY ManagerAssumption DEF ReconnectFails, Local, index, pools, tabs, past, IInv, TypeOK, Locals,
    LocalsAt, HoldersKept, Found
<1>7. RegisteredIsOpen'
  BY ManagerAssumption DEF ReconnectFails, Local, index, pools, tabs, past, IInv, TypeOK,
    RegisteredIsOpen, Closers, ClosersAt
<1>8. PoolsOwned'
  BY ManagerAssumption DEF ReconnectFails, Local, index, pools, tabs, past, IInv, TypeOK,
    PoolsOwned, Locals, LocalsAt, Closers, ClosersAt, RegisteredIsOpen, Found
<1>9. DedicatedApart'
  BY ManagerAssumption DEF ReconnectFails, Local, index, pools, tabs, past, IInv, TypeOK, Locals,
    LocalsAt, DedicatedApart, OfferedIsShared, SharedAt, Found
<1> QED
  BY <1>1, <1>2, <1>3, <1>4, <1>5, <1>6, <1>7, <1>8, <1>9 DEF IInv

LEMMA KeepKeeps ==
  ASSUME IInv, NEW t \in Tab, Keep(t)
  PROVE  IInv'
<1>1. TypeOK'
  <2>1. ASSUME chosen[t] \in sessions
        PROVE  refs' \in [Session -> 0..Cardinality(Tab)]
    <3>1. refs[chosen[t]] = Cardinality(Counting(chosen[t])) /\ t \notin Counting(chosen[t])
      BY <2>1 DEF Keep, IInv, Counts, CountsAt, TypeOK, Counting
    <3>2. refs[chosen[t]] + 1 \in 0..Cardinality(Tab)
      BY <3>1, CountingFinite, RoomForOne
    <3> QED
      BY <2>1, <3>2 DEF Keep, StillRegistered, IInv, TypeOK
  <2>2. refs' \in [Session -> 0..Cardinality(Tab)]
    BY <2>1 DEF Keep, StillRegistered, IInv, TypeOK
  <2> QED
    BY <2>2, ManagerAssumption DEF Keep, Local, Answer, StillRegistered, pools, IInv, TypeOK, PC
<1>2. Locals'
  BY ManagerAssumption DEF Keep, Local, Answer, StillRegistered, index, pools, tabs, past, IInv,
    TypeOK, Locals, LocalsAt, Found
<1>3. Closers'
  BY ManagerAssumption DEF Keep, Local, Answer, StillRegistered, index, pools, tabs, past, IInv,
    TypeOK, Locals, LocalsAt, Closers, ClosersAt, RegisteredIsOpen, Found
<1>4. OfferedIsShared'
  BY ManagerAssumption DEF Keep, Local, Answer, StillRegistered, index, pools, tabs, past, IInv,
    TypeOK, Locals, LocalsAt, OfferedIsShared, SharedAt, Found
<1>5. Counts'
  <2>1. CASE chosen[t] \notin sessions
    <3>1. \A x \in sessions' : Counting(x)' = Counting(x)
      BY <2>1, ManagerAssumption DEF Keep, Local, StillRegistered, IInv, TypeOK, Locals,
        LocalsAt, Counting, Found
    <3> QED
      BY <2>1, <3>1, CountsKept DEF Keep, StillRegistered, IInv
  <2>2. ASSUME NEW s \in sessions, s = chosen[t]
        PROVE  Counts'
    <3>1. /\ s \in Session /\ pc[t] \in {"keep", "keepcooling"} /\ held[t] = None
          /\ pc' = [pc EXCEPT ![t] = "holds"] /\ held' = [held EXCEPT ![t] = s]
          /\ refs' = [refs EXCEPT ![s] = @ + 1] /\ sessions' = sessions
      BY <2>2, ManagerAssumption DEF Keep, Local, Answer, StillRegistered, IInv, TypeOK, Locals,
        LocalsAt, Found
    <3>2. t \notin Counting(s) /\ Counting(s)' = Counting(s) \cup {t}
      BY <3>1 DEF Counting, IInv, TypeOK
    <3>3. \A x \in Session : x # s => Counting(x)' = Counting(x)
      BY <3>1, ManagerAssumption DEF Counting, IInv, TypeOK
    <3>4. refs'[s] = Cardinality(Counting(s)')
      <4>1. refs[s] = Cardinality(Counting(s)) /\ refs'[s] = refs[s] + 1
        BY <2>2, <3>1 DEF IInv, TypeOK, Counts, CountsAt
      <4>2. Cardinality(Counting(s) \cup {t}) = Cardinality(Counting(s)) + 1
        BY <3>2, CountingFinite, FS_AddElement
      <4> QED
        BY <3>2, <4>1, <4>2
    <3>5. ASSUME NEW x \in Session
          PROVE  CountsAt(x)'
      BY <3>1, <3>3, <3>4 DEF IInv, TypeOK, Counts, CountsAt
    <3> QED
      BY <3>5 DEF Counts
  <2> QED
    BY <2>1, <2>2
<1>6. HoldersKept'
  BY ManagerAssumption DEF Keep, Local, Answer, StillRegistered, index, pools, tabs, past, IInv,
    TypeOK, Locals, LocalsAt, HoldersKept, Found
<1>7. RegisteredIsOpen'
  BY ManagerAssumption DEF Keep, Local, Answer, StillRegistered, index, pools, tabs, past, IInv,
    TypeOK, RegisteredIsOpen, Closers, ClosersAt
<1>8. PoolsOwned'
  BY ManagerAssumption DEF Keep, Local, Answer, StillRegistered, index, pools, tabs, past, IInv,
    TypeOK, PoolsOwned, Locals, LocalsAt, Closers, ClosersAt, RegisteredIsOpen, Found
<1>9. DedicatedApart'
  BY ManagerAssumption DEF Keep, Local, Answer, StillRegistered, index, pools, tabs, past, IInv,
    TypeOK, Locals, LocalsAt, DedicatedApart, OfferedIsShared, SharedAt, Found
<1> QED
  BY <1>1, <1>2, <1>3, <1>4, <1>5, <1>6, <1>7, <1>8, <1>9 DEF IInv

LEMMA DiscardKeeps ==
  ASSUME IInv, NEW t \in Tab, Discard(t)
  PROVE  IInv'
<1>1. TypeOK'
  <2>1. 0 \in 0..Cardinality(Tab)
    BY ManagerAssumption, FS_CardinalityType
  <2> QED
    BY <2>1, ManagerAssumption DEF Discard, Local, CloseNext, Unregister, pools, IInv, TypeOK,
      Locals, LocalsAt, Found, PC
<1>2. Locals'
  BY ManagerAssumption DEF Discard, Local, CloseNext, Unregister, index, pools, tabs, past, IInv,
    TypeOK, Locals, LocalsAt, Found
<1>3. Closers'
  BY ManagerAssumption DEF Discard, Local, CloseNext, Unregister, index, pools, tabs, past, IInv,
    TypeOK, Locals, LocalsAt, Closers, ClosersAt, RegisteredIsOpen, Found
<1>4. OfferedIsShared'
  BY ManagerAssumption DEF Discard, Local, CloseNext, Unregister, index, pools, tabs, past, IInv,
    TypeOK, Locals, LocalsAt, OfferedIsShared, SharedAt, Found
<1>5. Counts'
  <2>1. \A x \in sessions' : Counting(x)' = Counting(x)
    BY ManagerAssumption DEF Discard, Local, CloseNext, Unregister, index, pools, tabs, past,
      IInv, TypeOK, Locals, LocalsAt, Counting, Found
  <2>2. sessions' \subseteq sessions /\ \A x \in sessions' : refs'[x] = refs[x]
    BY DEF Discard, Local, CloseNext, Unregister, index, pools, tabs, past, IInv, TypeOK
  <2> QED
    BY <2>1, <2>2, CountsKept DEF IInv
<1>6. HoldersKept'
  BY ManagerAssumption DEF Discard, Local, CloseNext, Unregister, index, pools, tabs, past, IInv,
    TypeOK, Locals, LocalsAt, HoldersKept, Found
<1>7. RegisteredIsOpen'
  BY ManagerAssumption DEF Discard, Local, CloseNext, Unregister, index, pools, tabs, past, IInv,
    TypeOK, RegisteredIsOpen, Closers, ClosersAt
<1>8. PoolsOwned'
  BY ManagerAssumption DEF Discard, Local, CloseNext, Unregister, index, pools, tabs, past, IInv,
    TypeOK, PoolsOwned, Locals, LocalsAt, Closers, ClosersAt, RegisteredIsOpen, Found
<1>9. DedicatedApart'
  BY ManagerAssumption DEF Discard, Local, CloseNext, Unregister, index, pools, tabs, past, IInv,
    TypeOK, Locals, LocalsAt, DedicatedApart, OfferedIsShared, SharedAt, Found
<1> QED
  BY <1>1, <1>2, <1>3, <1>4, <1>5, <1>6, <1>7, <1>8, <1>9 DEF IInv

LEMMA ClosePoolKeeps ==
  ASSUME IInv, NEW t \in Tab, ClosePool(t)
  PROVE  IInv'
<1>1. TypeOK'
  BY ManagerAssumption DEF ClosePool, Local, index, pools, tabs, past, IInv, TypeOK, PC
<1>2. Locals'
  BY ManagerAssumption DEF ClosePool, Local, index, pools, tabs, past, IInv, TypeOK, Locals,
    LocalsAt, Found
<1>3. Closers'
  BY ManagerAssumption DEF ClosePool, Local, index, pools, tabs, past, IInv, TypeOK, Locals,
    LocalsAt, Closers, ClosersAt, RegisteredIsOpen, Found
<1>4. OfferedIsShared'
  BY ManagerAssumption DEF ClosePool, Local, index, pools, tabs, past, IInv, TypeOK, Locals,
    LocalsAt, OfferedIsShared, SharedAt, Found
<1>5. Counts'
  <2>1. \A x \in sessions' : Counting(x)' = Counting(x)
    BY ManagerAssumption DEF ClosePool, Local, index, pools, tabs, past, IInv, TypeOK, Locals,
      LocalsAt, Counting, Found
  <2>2. sessions' \subseteq sessions /\ \A x \in sessions' : refs'[x] = refs[x]
    BY DEF ClosePool, Local, index, pools, tabs, past, IInv, TypeOK
  <2> QED
    BY <2>1, <2>2, CountsKept DEF IInv
<1>6. HoldersKept'
  BY ManagerAssumption DEF ClosePool, Local, index, pools, tabs, past, IInv, TypeOK, Locals,
    LocalsAt, HoldersKept, Found
<1>7. RegisteredIsOpen'
  BY ManagerAssumption DEF ClosePool, Local, index, pools, tabs, past, IInv, TypeOK,
    RegisteredIsOpen, Closers, ClosersAt
<1>8. PoolsOwned'
  BY ManagerAssumption DEF ClosePool, Local, index, pools, tabs, past, IInv, TypeOK, PoolsOwned,
    Locals, LocalsAt, Closers, ClosersAt, RegisteredIsOpen, Found
<1>9. DedicatedApart'
  BY ManagerAssumption DEF ClosePool, Local, index, pools, tabs, past, IInv, TypeOK, Locals,
    LocalsAt, DedicatedApart, OfferedIsShared, SharedAt, Found
<1> QED
  BY <1>1, <1>2, <1>3, <1>4, <1>5, <1>6, <1>7, <1>8, <1>9 DEF IInv

LEMMA RegisterKeeps ==
  ASSUME IInv, NEW t \in Tab, Register(t)
  PROVE  IInv'
<1>a. PICK s \in Session \ Known :
        /\ sessions' = sessions \cup {s}
        /\ byProfile' = IF Shared(t) THEN s ELSE byProfile
        /\ refs' = [refs EXCEPT ![s] = 1]
        /\ open' = open \cup {s} /\ up' = up \cup {s}
        /\ cooling' = cooling \ {s} /\ dropped' = dropped \ {s}
        /\ dedicated' = IF pc[t] = "dial" THEN dedicated \ {s} ELSE dedicated \cup {s}
        /\ Answer(t, s)
  BY DEF Register
<1>b. /\ s \in Session /\ s # None /\ s \notin sessions /\ s \notin open
      /\ \A u \in Tab : chosen[u] # s /\ held[u] # s
  BY ManagerAssumption DEF Known
<1>c. /\ pc' = [pc EXCEPT ![t] = "holds"] /\ chosen' = [chosen EXCEPT ![t] = None]
      /\ held' = [held EXCEPT ![t] = s] /\ pc[t] \in {"dial", "dedicated"}
  BY <1>a, <1>b DEF Register, Answer, Local
<1>1. TypeOK'
  <2>1. 1 \in 0..Cardinality(Tab)
    <3>1. Counting(None) \subseteq Tab /\ {t} \subseteq Tab
      BY DEF Counting
    <3>2. Cardinality({t}) = 1 /\ Cardinality({t}) <= Cardinality(Tab) /\ Cardinality(Tab) \in Nat
      BY <3>1, ManagerAssumption, FS_Singleton, FS_Subset, FS_CardinalityType
    <3> QED
      BY <3>2
  <2> QED
    BY <1>a, <1>b, <1>c, <2>1 DEF Register, IInv, TypeOK, PC
<1>2. Locals'
  BY <1>a, <1>b, <1>c DEF Shared, IInv, TypeOK, Locals, LocalsAt, Found
<1>3. Closers'
  BY <1>a, <1>b, <1>c DEF Shared, IInv, TypeOK, Locals, LocalsAt, Closers, ClosersAt,
    RegisteredIsOpen, Found
<1>4. OfferedIsShared'
  <2>1. byProfile' \notin dedicated'
    BY <1>a, <1>b, <1>c, ManagerAssumption DEF Shared, IInv, TypeOK, OfferedIsShared,
      RegisteredIsOpen
  <2>2. ASSUME NEW u \in Tab
        PROVE  SharedAt(u)'
    BY <1>a, <1>b, <1>c DEF IInv, TypeOK, OfferedIsShared, SharedAt, Found
  <2> QED
    BY <2>1, <2>2 DEF OfferedIsShared
<1>5. Counts'
  <2>1. Counting(s) = {} /\ Counting(s)' = {t}
    BY <1>b, <1>c DEF Counting, IInv, TypeOK
  <2>2. \A x \in Session : x # s => Counting(x)' = Counting(x)
    BY <1>b, <1>c DEF Counting, IInv, TypeOK, Locals, LocalsAt
  <2>3. refs'[s] = 1 /\ Cardinality({t}) = 1
    BY <1>a, FS_Singleton DEF IInv, TypeOK
  <2>4. ASSUME NEW x \in Session
        PROVE  CountsAt(x)'
    BY <1>a, <2>1, <2>2, <2>3 DEF IInv, TypeOK, Counts, CountsAt
  <2> QED
    BY <2>4 DEF Counts
<1>6. HoldersKept'
  BY <1>a, <1>b, <1>c DEF Shared, IInv, TypeOK, Locals, LocalsAt, HoldersKept, Found
<1>7. RegisteredIsOpen'
  BY <1>a, <1>b, <1>c DEF Shared, IInv, TypeOK, RegisteredIsOpen, Closers, ClosersAt
<1>8. PoolsOwned'
  BY <1>a, <1>b, <1>c DEF Shared, IInv, TypeOK, PoolsOwned, Locals, LocalsAt
<1>9. DedicatedApart'
  BY <1>a, <1>b, <1>c DEF Shared, IInv, TypeOK, Locals, LocalsAt, DedicatedApart,
    OfferedIsShared, SharedAt, Found
<1> QED
  BY <1>1, <1>2, <1>3, <1>4, <1>5, <1>6, <1>7, <1>8, <1>9 DEF IInv

LEMMA ConnectFailsKeeps ==
  ASSUME IInv, NEW t \in Tab, ConnectFails(t)
  PROVE  IInv'
<1>1. TypeOK'
  BY ManagerAssumption DEF ConnectFails, Local, Answer, index, pools, tabs, past, IInv, TypeOK, PC
<1>2. Locals'
  BY ManagerAssumption DEF ConnectFails, Local, Answer, index, pools, tabs, past, IInv, TypeOK,
    Locals, LocalsAt, Found
<1>3. Closers'
  BY ManagerAssumption DEF ConnectFails, Local, Answer, index, pools, tabs, past, IInv, TypeOK,
    Locals, LocalsAt, Closers, ClosersAt, RegisteredIsOpen, Found
<1>4. OfferedIsShared'
  BY ManagerAssumption DEF ConnectFails, Local, Answer, index, pools, tabs, past, IInv, TypeOK,
    Locals, LocalsAt, OfferedIsShared, SharedAt, Found
<1>5. Counts'
  <2>1. \A x \in sessions' : Counting(x)' = Counting(x)
    BY ManagerAssumption DEF ConnectFails, Local, Answer, index, pools, tabs, past, IInv, TypeOK,
      Locals, LocalsAt, Counting, Found
  <2>2. sessions' \subseteq sessions /\ \A x \in sessions' : refs'[x] = refs[x]
    BY DEF ConnectFails, Local, Answer, index, pools, tabs, past, IInv, TypeOK
  <2> QED
    BY <2>1, <2>2, CountsKept DEF IInv
<1>6. HoldersKept'
  BY ManagerAssumption DEF ConnectFails, Local, Answer, index, pools, tabs, past, IInv, TypeOK,
    Locals, LocalsAt, HoldersKept, Found
<1>7. RegisteredIsOpen'
  BY ManagerAssumption DEF ConnectFails, Local, Answer, index, pools, tabs, past, IInv, TypeOK,
    RegisteredIsOpen, Closers, ClosersAt
<1>8. PoolsOwned'
  BY ManagerAssumption DEF ConnectFails, Local, Answer, index, pools, tabs, past, IInv, TypeOK,
    PoolsOwned, Locals, LocalsAt, Closers, ClosersAt, RegisteredIsOpen, Found
<1>9. DedicatedApart'
  BY ManagerAssumption DEF ConnectFails, Local, Answer, index, pools, tabs, past, IInv, TypeOK,
    Locals, LocalsAt, DedicatedApart, OfferedIsShared, SharedAt, Found
<1> QED
  BY <1>1, <1>2, <1>3, <1>4, <1>5, <1>6, <1>7, <1>8, <1>9 DEF IInv

LEMMA DisconnectKeeps ==
  ASSUME IInv, NEW t \in Tab, Disconnect(t)
  PROVE  IInv'
<1>a. PICK s \in Session : s = held[t]
  BY DEF Disconnect, IInv, TypeOK, Locals, LocalsAt
<1>b. /\ pc[t] = "holds" /\ chosen[t] = None /\ s # None /\ kept' = kept \ {t}
      /\ UNCHANGED <<open, up, cooling, shut, dropped, dedicated>>
  BY <1>a, ManagerAssumption DEF Disconnect, pools, IInv, Locals, LocalsAt
<1>c. \/ /\ s \notin sessions /\ UNCHANGED <<sessions, byProfile, refs>>
         /\ pc' = [pc EXCEPT ![t] = "none"] /\ chosen' = [chosen EXCEPT ![t] = None]
         /\ held' = [held EXCEPT ![t] = None]
      \/ /\ s \in sessions /\ refs[s] <= 1 /\ refs' = [refs EXCEPT ![s] = @ - 1]
         /\ sessions' = sessions \ {s} /\ byProfile' = IF byProfile = s THEN None ELSE byProfile
         /\ pc' = [pc EXCEPT ![t] = "close"] /\ chosen' = [chosen EXCEPT ![t] = s]
         /\ UNCHANGED held
      \/ /\ s \in sessions /\ ~(refs[s] <= 1) /\ refs' = [refs EXCEPT ![s] = @ - 1]
         /\ UNCHANGED <<sessions, byProfile>>
         /\ pc' = [pc EXCEPT ![t] = "none"] /\ chosen' = [chosen EXCEPT ![t] = None]
         /\ held' = [held EXCEPT ![t] = None]
  BY <1>a, <1>b DEF Disconnect, Local, Answer, Unregister, LastRef, Left, index
<1>d. s \in sessions => /\ t \in Counting(s) /\ refs[s] = Cardinality(Counting(s))
                        /\ refs[s] \in 1..Cardinality(Tab)
  <2>1. ASSUME s \in sessions
        PROVE  refs[s] # 0
    <3>1. t \in Counting(s) /\ refs[s] = Cardinality(Counting(s))
      BY <1>a, <1>b, <2>1 DEF Counting, IInv, Counts, CountsAt
    <3> QED
      BY <3>1, CountingFinite, FS_EmptySet
  <2> QED
    BY <1>a, <1>b, <2>1, ManagerAssumption, FS_CardinalityType DEF Counting, IInv, TypeOK,
      Counts, CountsAt
<1>1. TypeOK'
  <2>1. s \in sessions => refs[s] - 1 \in 0..Cardinality(Tab)
    BY <1>d, ManagerAssumption, FS_CardinalityType
  <2>2. refs' \in [Session -> 0..Cardinality(Tab)]
    BY <1>c, <2>1 DEF IInv, TypeOK
  <2> QED
    BY <1>a, <1>b, <1>c, <2>2 DEF IInv, TypeOK, PC
<1>2. Locals'
  BY <1>a, <1>b, <1>c, ManagerAssumption DEF IInv, TypeOK, Locals, LocalsAt, Found
<1>3. Closers'
  BY <1>a, <1>b, <1>c, ManagerAssumption DEF IInv, TypeOK, Locals, LocalsAt, Closers, ClosersAt
<1>4. OfferedIsShared'
  BY <1>a, <1>b, <1>c, ManagerAssumption DEF IInv, TypeOK, Locals, LocalsAt, OfferedIsShared,
    SharedAt, Found
<1>5. Counts'
  <2>1. Counting(s)' = Counting(s) \ {t} /\ \A x \in Session : x # s => Counting(x)' = Counting(x)
    BY <1>a, <1>b, <1>c, ManagerAssumption DEF Counting, IInv, TypeOK
  <2>2. ASSUME s \in sessions'
        PROVE  refs'[s] = Cardinality(Counting(s)')
    <3>1. s \in sessions /\ refs'[s] = refs[s] - 1
      BY <1>c, <2>2 DEF IInv, TypeOK
    <3>2. Cardinality(Counting(s) \ {t}) = Cardinality(Counting(s)) - 1
      BY <1>d, <3>1, CountingFinite, FS_RemoveElement
    <3> QED
      BY <1>d, <2>1, <3>1, <3>2
  <2>3. ASSUME NEW x \in Session
        PROVE  CountsAt(x)'
    BY <1>c, <2>1, <2>2 DEF IInv, TypeOK, Counts, CountsAt
  <2> QED
    BY <2>3 DEF Counts
<1>6. HoldersKept'
  <2>1. ASSUME s \in sessions, refs[s] <= 1
        PROVE  Counting(s) = {t}
    <3>1. Cardinality(Counting(s)) = 1
      BY <1>d, <2>1, CountingFinite
    <3>2. Cardinality(Counting(s) \ {t}) = 0 /\ IsFiniteSet(Counting(s) \ {t})
      BY <1>d, <2>1, <3>1, CountingFinite, FS_RemoveElement
    <3>3. Counting(s) \ {t} = {}
      BY <3>2, FS_EmptySet
    <3> QED
      BY <1>d, <2>1, <3>3
  <2>2. ASSUME NEW u \in Tab, pc'[u] = "holds"
        PROVE  held'[u] \in sessions' \cup dropped'
    <3>1. u # t /\ pc[u] = "holds" /\ held'[u] = held[u]
      BY <1>c, <2>2 DEF IInv, TypeOK
    <3>2. held[u] \in sessions \cup dropped
      BY <3>1 DEF IInv, HoldersKept
    <3>3. ASSUME s \in sessions, refs[s] <= 1
          PROVE  held[u] # s
      BY <2>1, <3>1, <3>3 DEF Counting
    <3> QED
      BY <1>b, <1>c, <3>1, <3>2, <3>3
  <2> QED
    BY <2>2 DEF HoldersKept
<1>7. RegisteredIsOpen'
  BY <1>a, <1>b, <1>c, ManagerAssumption DEF IInv, TypeOK, RegisteredIsOpen
<1>8. PoolsOwned'
  BY <1>a, <1>b, <1>c, ManagerAssumption DEF IInv, TypeOK, PoolsOwned, Locals, LocalsAt
<1>9. DedicatedApart'
  BY <1>a, <1>b, <1>c, ManagerAssumption DEF IInv, TypeOK, DedicatedApart
<1> QED
  BY <1>1, <1>2, <1>3, <1>4, <1>5, <1>6, <1>7, <1>8, <1>9 DEF IInv

LEMMA CloseAllKeeps ==
  ASSUME IInv, CloseAll
  PROVE  IInv'
<1>1. TypeOK'
  BY ManagerAssumption DEF CloseAll, index, pools, tabs, past, IInv, TypeOK, PC
<1>2. Locals'
  BY ManagerAssumption DEF CloseAll, index, pools, tabs, past, IInv, TypeOK, Locals, LocalsAt, Found
<1>3. Closers'
  BY ManagerAssumption DEF CloseAll, index, pools, tabs, past, IInv, TypeOK, Locals, LocalsAt,
    Closers, ClosersAt, RegisteredIsOpen, Found
<1>4. OfferedIsShared'
  BY ManagerAssumption DEF CloseAll, index, pools, tabs, past, IInv, TypeOK, Locals, LocalsAt,
    OfferedIsShared, SharedAt, Found
<1>5. Counts'
  <2>1. \A x \in sessions' : Counting(x)' = Counting(x)
    BY ManagerAssumption DEF CloseAll, index, pools, tabs, past, IInv, TypeOK, Locals, LocalsAt,
      Counting, Found
  <2>2. sessions' \subseteq sessions /\ \A x \in sessions' : refs'[x] = refs[x]
    BY DEF CloseAll, index, pools, tabs, past, IInv, TypeOK
  <2> QED
    BY <2>1, <2>2, CountsKept DEF IInv
<1>6. HoldersKept'
  BY ManagerAssumption DEF CloseAll, index, pools, tabs, past, IInv, TypeOK, Locals, LocalsAt,
    HoldersKept, Found
<1>7. RegisteredIsOpen'
  BY ManagerAssumption DEF CloseAll, index, pools, tabs, past, IInv, TypeOK, RegisteredIsOpen,
    Closers, ClosersAt
<1>8. PoolsOwned'
  BY ManagerAssumption DEF CloseAll, index, pools, tabs, past, IInv, TypeOK, PoolsOwned, Locals,
    LocalsAt, Closers, ClosersAt, RegisteredIsOpen, Found
<1>9. DedicatedApart'
  BY ManagerAssumption DEF CloseAll, index, pools, tabs, past, IInv, TypeOK, Locals, LocalsAt,
    DedicatedApart, OfferedIsShared, SharedAt, Found
<1> QED
  BY <1>1, <1>2, <1>3, <1>4, <1>5, <1>6, <1>7, <1>8, <1>9 DEF IInv

LEMMA LinkDropsKeeps ==
  ASSUME IInv, NEW s \in Session, LinkDrops(s)
  PROVE  IInv'
<1>1. TypeOK'
  BY ManagerAssumption DEF LinkDrops, index, pools, tabs, past, IInv, TypeOK, PC
<1>2. Locals'
  BY ManagerAssumption DEF LinkDrops, index, pools, tabs, past, IInv, TypeOK, Locals, LocalsAt,
    Found
<1>3. Closers'
  BY ManagerAssumption DEF LinkDrops, index, pools, tabs, past, IInv, TypeOK, Locals, LocalsAt,
    Closers, ClosersAt, RegisteredIsOpen, Found
<1>4. OfferedIsShared'
  BY ManagerAssumption DEF LinkDrops, index, pools, tabs, past, IInv, TypeOK, Locals, LocalsAt,
    OfferedIsShared, SharedAt, Found
<1>5. Counts'
  <2>1. \A x \in sessions' : Counting(x)' = Counting(x)
    BY ManagerAssumption DEF LinkDrops, index, pools, tabs, past, IInv, TypeOK, Locals, LocalsAt,
      Counting, Found
  <2>2. sessions' \subseteq sessions /\ \A x \in sessions' : refs'[x] = refs[x]
    BY DEF LinkDrops, index, pools, tabs, past, IInv, TypeOK
  <2> QED
    BY <2>1, <2>2, CountsKept DEF IInv
<1>6. HoldersKept'
  BY ManagerAssumption DEF LinkDrops, index, pools, tabs, past, IInv, TypeOK, Locals, LocalsAt,
    HoldersKept, Found
<1>7. RegisteredIsOpen'
  BY ManagerAssumption DEF LinkDrops, index, pools, tabs, past, IInv, TypeOK, RegisteredIsOpen,
    Closers, ClosersAt
<1>8. PoolsOwned'
  BY ManagerAssumption DEF LinkDrops, index, pools, tabs, past, IInv, TypeOK, PoolsOwned, Locals,
    LocalsAt, Closers, ClosersAt, RegisteredIsOpen, Found
<1>9. DedicatedApart'
  BY ManagerAssumption DEF LinkDrops, index, pools, tabs, past, IInv, TypeOK, Locals, LocalsAt,
    DedicatedApart, OfferedIsShared, SharedAt, Found
<1> QED
  BY <1>1, <1>2, <1>3, <1>4, <1>5, <1>6, <1>7, <1>8, <1>9 DEF IInv

LEMMA PoolRedialsKeeps ==
  ASSUME IInv, NEW s \in Session, PoolRedials(s)
  PROVE  IInv'
<1>1. TypeOK'
  BY ManagerAssumption DEF PoolRedials, index, pools, tabs, past, IInv, TypeOK, PC
<1>2. Locals'
  BY ManagerAssumption DEF PoolRedials, index, pools, tabs, past, IInv, TypeOK, Locals, LocalsAt,
    Found
<1>3. Closers'
  BY ManagerAssumption DEF PoolRedials, index, pools, tabs, past, IInv, TypeOK, Locals, LocalsAt,
    Closers, ClosersAt, RegisteredIsOpen, Found
<1>4. OfferedIsShared'
  BY ManagerAssumption DEF PoolRedials, index, pools, tabs, past, IInv, TypeOK, Locals, LocalsAt,
    OfferedIsShared, SharedAt, Found
<1>5. Counts'
  <2>1. \A x \in sessions' : Counting(x)' = Counting(x)
    BY ManagerAssumption DEF PoolRedials, index, pools, tabs, past, IInv, TypeOK, Locals,
      LocalsAt, Counting, Found
  <2>2. sessions' \subseteq sessions /\ \A x \in sessions' : refs'[x] = refs[x]
    BY DEF PoolRedials, index, pools, tabs, past, IInv, TypeOK
  <2> QED
    BY <2>1, <2>2, CountsKept DEF IInv
<1>6. HoldersKept'
  BY ManagerAssumption DEF PoolRedials, index, pools, tabs, past, IInv, TypeOK, Locals, LocalsAt,
    HoldersKept, Found
<1>7. RegisteredIsOpen'
  BY ManagerAssumption DEF PoolRedials, index, pools, tabs, past, IInv, TypeOK, RegisteredIsOpen,
    Closers, ClosersAt
<1>8. PoolsOwned'
  BY ManagerAssumption DEF PoolRedials, index, pools, tabs, past, IInv, TypeOK, PoolsOwned,
    Locals, LocalsAt, Closers, ClosersAt, RegisteredIsOpen, Found
<1>9. DedicatedApart'
  BY ManagerAssumption DEF PoolRedials, index, pools, tabs, past, IInv, TypeOK, Locals, LocalsAt,
    DedicatedApart, OfferedIsShared, SharedAt, Found
<1> QED
  BY <1>1, <1>2, <1>3, <1>4, <1>5, <1>6, <1>7, <1>8, <1>9 DEF IInv

LEMMA CooldownOverKeeps ==
  ASSUME IInv, NEW s \in Session, CooldownOver(s)
  PROVE  IInv'
<1>1. TypeOK'
  BY ManagerAssumption DEF CooldownOver, index, pools, tabs, past, IInv, TypeOK, PC
<1>2. Locals'
  BY ManagerAssumption DEF CooldownOver, index, pools, tabs, past, IInv, TypeOK, Locals,
    LocalsAt, Found
<1>3. Closers'
  BY ManagerAssumption DEF CooldownOver, index, pools, tabs, past, IInv, TypeOK, Locals,
    LocalsAt, Closers, ClosersAt, RegisteredIsOpen, Found
<1>4. OfferedIsShared'
  BY ManagerAssumption DEF CooldownOver, index, pools, tabs, past, IInv, TypeOK, Locals,
    LocalsAt, OfferedIsShared, SharedAt, Found
<1>5. Counts'
  <2>1. \A x \in sessions' : Counting(x)' = Counting(x)
    BY ManagerAssumption DEF CooldownOver, index, pools, tabs, past, IInv, TypeOK, Locals,
      LocalsAt, Counting, Found
  <2>2. sessions' \subseteq sessions /\ \A x \in sessions' : refs'[x] = refs[x]
    BY DEF CooldownOver, index, pools, tabs, past, IInv, TypeOK
  <2> QED
    BY <2>1, <2>2, CountsKept DEF IInv
<1>6. HoldersKept'
  BY ManagerAssumption DEF CooldownOver, index, pools, tabs, past, IInv, TypeOK, Locals,
    LocalsAt, HoldersKept, Found
<1>7. RegisteredIsOpen'
  BY ManagerAssumption DEF CooldownOver, index, pools, tabs, past, IInv, TypeOK,
    RegisteredIsOpen, Closers, ClosersAt
<1>8. PoolsOwned'
  BY ManagerAssumption DEF CooldownOver, index, pools, tabs, past, IInv, TypeOK, PoolsOwned,
    Locals, LocalsAt, Closers, ClosersAt, RegisteredIsOpen, Found
<1>9. DedicatedApart'
  BY ManagerAssumption DEF CooldownOver, index, pools, tabs, past, IInv, TypeOK, Locals,
    LocalsAt, DedicatedApart, OfferedIsShared, SharedAt, Found
<1> QED
  BY <1>1, <1>2, <1>3, <1>4, <1>5, <1>6, <1>7, <1>8, <1>9 DEF IInv

LEMMA StutterKeeps ==
  ASSUME IInv, UNCHANGED vars
  PROVE  IInv'
<1>1. \A s : Counting(s)' = Counting(s)
  BY DEF vars, tabs, Counting
<1> QED
  BY <1>1 DEF vars, index, pools, tabs, past, IInv, TypeOK, Locals, LocalsAt, Closers, ClosersAt,
    OfferedIsShared, SharedAt, Counts, CountsAt, HoldersKept, RegisteredIsOpen, PoolsOwned, DedicatedApart

-----------------------------------------------------------------------------
(* The theorems.                                                            *)

LEMMA NextKeeps ==
  ASSUME IInv, Next
  PROVE  IInv'
<1>1. ASSUME NEW t \in Tab,
             Connect(t) \/ ConnectDedicated(t) \/ RequestStep(t) \/ Disconnect(t)
      PROVE  IInv'
  BY <1>1, ConnectKeeps, ConnectDedicatedKeeps, ReconnectOkKeeps, ReconnectCoolingKeeps,
    ReconnectFailsKeeps, KeepKeeps, DiscardKeeps, ClosePoolKeeps, RegisterKeeps, ConnectFailsKeeps,
    DisconnectKeeps DEF RequestStep
<1>2. ASSUME NEW s \in Session, LinkDrops(s) \/ PoolRedials(s) \/ CooldownOver(s)
      PROVE  IInv'
  BY <1>2, LinkDropsKeeps, PoolRedialsKeeps, CooldownOverKeeps
<1> QED
  BY <1>1, <1>2, CloseAllKeeps DEF Next

LEMMA Invariance == Spec => []IInv
<1>1. Init => IInv
  BY InitInv
<1>2. IInv /\ [Next]_vars => IInv'
  BY NextKeeps, StutterKeeps
<1> QED
  BY <1>1, <1>2, PTL DEF Spec

\* The counters of registered sessions are the numbers of their tabs, nobody
\* loses a session to another's open or close, and the bridge's are not shared
\* (service.go:57-121, service.go:197-247).
THEOREM RegistryAlwaysSound == Spec => []RegistrySound
<1>1. IInv => RegistrySound
  <2>1. ASSUME IInv, NEW s \in sessions
        PROVE  refs[s] = Cardinality({t \in Holders(s) : pc[t] = "holds"})
    <3>1. Counting(s) = {t \in Holders(s) : pc[t] = "holds"}
      BY DEF Counting, Holders
    <3>2. s \in Session
      BY <2>1 DEF IInv, TypeOK
    <3> QED
      BY <2>1, <3>1, <3>2 DEF IInv, Counts, CountsAt
  <2> QED
    BY <2>1 DEF IInv, RegistrySound, RefsCountHolders
<1> QED
  BY <1>1, Invariance, PTL

\* What can be looked up is open, and the session offered to new tabs can be
\* looked up (service.go:155-165).
THEOREM AlwaysRegisteredIsOpen == Spec => []RegisteredIsOpen
<1>1. IInv => RegisteredIsOpen
  BY DEF IInv
<1> QED
  BY <1>1, Invariance, PTL

\* No overlap of opens and closes leaks an SSH connection (service.go:99-121).
THEOREM AlwaysPoolsOwned == Spec => []PoolsOwned
<1>1. IInv => PoolsOwned
  BY DEF IInv
<1> QED
  BY <1>1, Invariance, PTL
=============================================================================

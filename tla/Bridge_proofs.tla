---------------------------- MODULE Bridge_proofs ----------------------------
(***************************************************************************)
(* Proofs about the slot of the ChemSSH bridge, for every number of         *)
(* requests, profiles, workspaces and starts. The inductive invariant is    *)
(* IInv of Bridge: each lemma <Action>Keeps shows that an action preserves  *)
(* each of its parts. ServesForwarding needs the promise a dial takes with  *)
(* it from its check (CheckedInTime), and the count of the stops that have  *)
(* still to look; SessionsHeld, AnswersMatch and WaitersServed need to know *)
(* whom the slot and the requests may name (SlotSound, LocalsSound).        *)
(***************************************************************************)
EXTENDS Bridge, TLAPS

(* Forwarding starts. *)
LEMMA StartKeeps ==
  ASSUME IInv, NEW p \in Profile, Start(p)
  PROVE  IInv'
<1> USE BridgeAssumption DEF BridgeAssumption, IInv, Start, life, local,
       sftp
<1>1. TypeOK'
  BY DEF TypeOK, StopsCounted, LocalsSound, SlotSound, PC, Ended, Target
<1>2. StopsCounted'
  BY DEF TypeOK, StopsCounted
<1>3. SlotSound'
  BY DEF TypeOK, SlotSound, SessionsSound, LocalsSound, Dialling, Served,
     Ended
<1>4. LocalsSound'
  BY DEF TypeOK, SlotSound, LocalsSound, SessionsSound, Dialling, Served,
     Ended, Target
<1>5. SessionsSound'
  BY DEF TypeOK, SlotSound, SessionsSound, Dialling, Served, Ended
<1>6. CheckedInTime'
  BY DEF TypeOK, SlotSound, LocalsSound, CheckedInTime, StopsCounted,
     Target, Dialling
<1>7. SessionsHeld'
  BY DEF TypeOK, SlotSound, SessionsSound, SessionsHeld, Dialling, Served,
     Ended
<1>8. ServesForwarding'
  BY DEF TypeOK, SlotSound, StopsCounted, LocalsSound, ServesForwarding,
     CheckedInTime, Target, Dialling, Served, Ended
<1>9. AnswersMatch'
  BY DEF TypeOK, SlotSound, LocalsSound, AnswersMatch, Dialling, Served,
     Ended
<1>10. OpenedIsWatched'
  BY DEF TypeOK, SlotSound, LocalsSound, SessionsSound, OpenedIsWatched,
     Served, Ended
<1>11. WaitersServed'
  BY DEF TypeOK, SlotSound, LocalsSound, WaitersServed, Dialling, Served,
     Ended
<1>12. QED
  BY <1>1, <1>2, <1>3, <1>4, <1>5, <1>6, <1>7, <1>8, <1>9, <1>10, <1>11

(* Forwarding stops. *)
LEMMA StopKeeps ==
  ASSUME IInv, NEW p \in Profile, Stop(p)
  PROVE  IInv'
<1> USE BridgeAssumption DEF BridgeAssumption, IInv, Stop, life, local, sftp
<1>1. TypeOK'
  BY DEF TypeOK, StopsCounted, LocalsSound, SlotSound, PC, Ended, Target
<1>2. StopsCounted'
  BY DEF TypeOK, StopsCounted
<1>3. SlotSound'
  BY DEF TypeOK, SlotSound, SessionsSound, LocalsSound, Dialling, Served,
     Ended
<1>4. LocalsSound'
  BY DEF TypeOK, SlotSound, LocalsSound, SessionsSound, Dialling, Served,
     Ended, Target
<1>5. SessionsSound'
  BY DEF TypeOK, SlotSound, SessionsSound, Dialling, Served, Ended
<1>6. CheckedInTime'
  BY DEF TypeOK, SlotSound, LocalsSound, CheckedInTime, StopsCounted,
     Target, Dialling
<1>7. SessionsHeld'
  BY DEF TypeOK, SlotSound, SessionsSound, SessionsHeld, Dialling, Served,
     Ended
<1>8. ServesForwarding'
  BY DEF TypeOK, SlotSound, StopsCounted, LocalsSound, ServesForwarding,
     CheckedInTime, Target, Dialling, Served, Ended
<1>9. AnswersMatch'
  BY DEF TypeOK, SlotSound, LocalsSound, AnswersMatch, Dialling, Served,
     Ended
<1>10. OpenedIsWatched'
  BY DEF TypeOK, SlotSound, LocalsSound, SessionsSound, OpenedIsWatched,
     Served, Ended
<1>11. WaitersServed'
  BY DEF TypeOK, SlotSound, LocalsSound, WaitersServed, Dialling, Served,
     Ended
<1>12. QED
  BY <1>1, <1>2, <1>3, <1>4, <1>5, <1>6, <1>7, <1>8, <1>9, <1>10, <1>11

(* A stop empties the slot of its profile. *)
LEMMA CloseForProfileKeeps ==
  ASSUME IInv, NEW p \in Profile, CloseForProfile(p)
  PROVE  IInv'
<1> USE BridgeAssumption DEF BridgeAssumption, IInv, CloseForProfile,
       OfProfile, Take, Nothing, life, local, sftp
<1>1. TypeOK'
  BY DEF TypeOK, StopsCounted, LocalsSound, SlotSound, PC, Ended, Target
<1>2. StopsCounted'
  BY DEF TypeOK, StopsCounted
<1>3. SlotSound'
  BY DEF TypeOK, SlotSound, SessionsSound, LocalsSound, Dialling, Served,
     Ended
<1>4. LocalsSound'
  BY DEF TypeOK, SlotSound, LocalsSound, SessionsSound, Dialling, Served,
     Ended, Target
<1>5. SessionsSound'
  BY DEF TypeOK, SlotSound, SessionsSound, Dialling, Served, Ended
<1>6. CheckedInTime'
  BY DEF TypeOK, SlotSound, LocalsSound, CheckedInTime, StopsCounted,
     Target, Dialling
<1>7. SessionsHeld'
  BY DEF TypeOK, SlotSound, SessionsSound, SessionsHeld, Dialling, Served,
     Ended
<1>8. ServesForwarding'
  BY DEF TypeOK, SlotSound, StopsCounted, LocalsSound, ServesForwarding,
     CheckedInTime, Target, Dialling, Served, Ended
<1>9. AnswersMatch'
  BY DEF TypeOK, SlotSound, LocalsSound, AnswersMatch, Dialling, Served,
     Ended
<1>10. OpenedIsWatched'
  BY DEF TypeOK, SlotSound, LocalsSound, SessionsSound, OpenedIsWatched,
     Served, Ended
<1>11. WaitersServed'
  BY DEF TypeOK, SlotSound, LocalsSound, WaitersServed, Dialling, Served,
     Ended
<1>12. QED
  BY <1>1, <1>2, <1>3, <1>4, <1>5, <1>6, <1>7, <1>8, <1>9, <1>10, <1>11

(* The items of a session are dropped. *)
LEMMA ClearUnregisterKeeps ==
  ASSUME IInv, NEW s \in Request, ClearUnregister(s)
  PROVE  IInv'
<1> USE BridgeAssumption DEF BridgeAssumption, IInv, ClearUnregister, life,
       local, sftp
<1>1. TypeOK'
  BY DEF TypeOK, StopsCounted, LocalsSound, SlotSound, PC, Ended, Target
<1>2. StopsCounted'
  BY DEF TypeOK, StopsCounted
<1>3. SlotSound'
  BY DEF TypeOK, SlotSound, SessionsSound, LocalsSound, Dialling, Served,
     Ended
<1>4. LocalsSound'
  BY DEF TypeOK, SlotSound, LocalsSound, SessionsSound, Dialling, Served,
     Ended, Target
<1>5. SessionsSound'
  BY DEF TypeOK, SlotSound, SessionsSound, Dialling, Served, Ended
<1>6. CheckedInTime'
  BY DEF TypeOK, SlotSound, LocalsSound, CheckedInTime, StopsCounted,
     Target, Dialling
<1>7. SessionsHeld'
  BY DEF TypeOK, SlotSound, SessionsSound, SessionsHeld, Dialling, Served,
     Ended
<1>8. ServesForwarding'
  BY DEF TypeOK, SlotSound, StopsCounted, LocalsSound, ServesForwarding,
     CheckedInTime, Target, Dialling, Served, Ended
<1>9. AnswersMatch'
  BY DEF TypeOK, SlotSound, LocalsSound, AnswersMatch, Dialling, Served,
     Ended
<1>10. OpenedIsWatched'
  BY DEF TypeOK, SlotSound, LocalsSound, SessionsSound, OpenedIsWatched,
     Served, Ended
<1>11. WaitersServed'
  BY DEF TypeOK, SlotSound, LocalsSound, WaitersServed, Dialling, Served,
     Ended
<1>12. QED
  BY <1>1, <1>2, <1>3, <1>4, <1>5, <1>6, <1>7, <1>8, <1>9, <1>10, <1>11

(* A session is released. *)
LEMMA ClearDisconnectKeeps ==
  ASSUME IInv, NEW s \in Request, ClearDisconnect(s)
  PROVE  IInv'
<1> USE BridgeAssumption DEF BridgeAssumption, IInv, ClearDisconnect,
       Released, life, local, sftp
<1>1. TypeOK'
  BY DEF TypeOK, StopsCounted, LocalsSound, SlotSound, PC, Ended, Target
<1>2. StopsCounted'
  BY DEF TypeOK, StopsCounted
<1>3. SlotSound'
  BY DEF TypeOK, SlotSound, SessionsSound, LocalsSound, Dialling, Served,
     Ended
<1>4. LocalsSound'
  BY DEF TypeOK, SlotSound, LocalsSound, SessionsSound, Dialling, Served,
     Ended, Target
<1>5. SessionsSound'
  BY DEF TypeOK, SlotSound, SessionsSound, Dialling, Served, Ended
<1>6. CheckedInTime'
  BY DEF TypeOK, SlotSound, LocalsSound, CheckedInTime, StopsCounted,
     Target, Dialling
<1>7. SessionsHeld'
  BY DEF TypeOK, SlotSound, SessionsSound, SessionsHeld, Dialling, Served,
     Ended
<1>8. ServesForwarding'
  BY DEF TypeOK, SlotSound, StopsCounted, LocalsSound, ServesForwarding,
     CheckedInTime, Target, Dialling, Served, Ended
<1>9. AnswersMatch'
  BY DEF TypeOK, SlotSound, LocalsSound, AnswersMatch, Dialling, Served,
     Ended
<1>10. OpenedIsWatched'
  BY DEF TypeOK, SlotSound, LocalsSound, SessionsSound, OpenedIsWatched,
     Served, Ended
<1>11. WaitersServed'
  BY DEF TypeOK, SlotSound, LocalsSound, WaitersServed, Dialling, Served,
     Ended
<1>12. QED
  BY <1>1, <1>2, <1>3, <1>4, <1>5, <1>6, <1>7, <1>8, <1>9, <1>10, <1>11

(* A request comes and reads which session forwards. *)
LEMMA BeginKeeps ==
  ASSUME IInv, NEW r \in Request, Begin(r)
  PROVE  IInv'
<1> USE BridgeAssumption DEF BridgeAssumption, IInv, Begin, Goto, life,
       local, sftp
<1>1. TypeOK'
  BY DEF TypeOK, StopsCounted, LocalsSound, SlotSound, PC, Ended, Target
<1>2. StopsCounted'
  BY DEF TypeOK, StopsCounted
<1>3. SlotSound'
  BY DEF TypeOK, SlotSound, SessionsSound, LocalsSound, Dialling, Served,
     Ended
<1>4. LocalsSound'
  BY DEF TypeOK, SlotSound, LocalsSound, SessionsSound, Dialling, Served,
     Ended, Target
<1>5. SessionsSound'
  BY DEF TypeOK, SlotSound, SessionsSound, Dialling, Served, Ended
<1>6. CheckedInTime'
  BY DEF TypeOK, SlotSound, LocalsSound, CheckedInTime, StopsCounted,
     Target, Dialling
<1>7. SessionsHeld'
  BY DEF TypeOK, SlotSound, SessionsSound, SessionsHeld, Dialling, Served,
     Ended
<1>8. ServesForwarding'
  BY DEF TypeOK, SlotSound, StopsCounted, LocalsSound, ServesForwarding,
     CheckedInTime, Target, Dialling, Served, Ended
<1>9. AnswersMatch'
  BY DEF TypeOK, SlotSound, LocalsSound, AnswersMatch, Dialling, Served,
     Ended
<1>10. OpenedIsWatched'
  BY DEF TypeOK, SlotSound, LocalsSound, SessionsSound, OpenedIsWatched,
     Served, Ended
<1>11. WaitersServed'
  BY DEF TypeOK, SlotSound, LocalsSound, WaitersServed, Dialling, Served,
     Ended
<1>12. QED
  BY <1>1, <1>2, <1>3, <1>4, <1>5, <1>6, <1>7, <1>8, <1>9, <1>10, <1>11

(* A request finds its session in the slot. *)
LEMMA ReuseKeeps ==
  ASSUME IInv, NEW r \in Request, Reuse(r)
  PROVE  IInv'
<1> USE BridgeAssumption DEF BridgeAssumption, IInv, Reuse, Goto, CanReuse,
       SameTarget, life, local, sftp
<1>1. TypeOK'
  BY DEF TypeOK, StopsCounted, LocalsSound, SlotSound, PC, Ended, Target
<1>2. StopsCounted'
  BY DEF TypeOK, StopsCounted
<1>3. SlotSound'
  BY DEF TypeOK, SlotSound, SessionsSound, LocalsSound, Dialling, Served,
     Ended
<1>4. LocalsSound'
  BY DEF TypeOK, SlotSound, LocalsSound, SessionsSound, Dialling, Served,
     Ended, Target
<1>5. SessionsSound'
  BY DEF TypeOK, SlotSound, SessionsSound, Dialling, Served, Ended
<1>6. CheckedInTime'
  BY DEF TypeOK, SlotSound, LocalsSound, CheckedInTime, StopsCounted,
     Target, Dialling
<1>7. SessionsHeld'
  BY DEF TypeOK, SlotSound, SessionsSound, SessionsHeld, Dialling, Served,
     Ended
<1>8. ServesForwarding'
  BY DEF TypeOK, SlotSound, StopsCounted, LocalsSound, ServesForwarding,
     CheckedInTime, Target, Dialling, Served, Ended
<1>9. AnswersMatch'
  BY DEF TypeOK, SlotSound, LocalsSound, AnswersMatch, Dialling, Served,
     Ended
<1>10. OpenedIsWatched'
  BY DEF TypeOK, SlotSound, LocalsSound, SessionsSound, OpenedIsWatched,
     Served, Ended
<1>11. WaitersServed'
  BY DEF TypeOK, SlotSound, LocalsSound, WaitersServed, Dialling, Served,
     Ended
<1>12. QED
  BY <1>1, <1>2, <1>3, <1>4, <1>5, <1>6, <1>7, <1>8, <1>9, <1>10, <1>11

(* A request waits for the dial in the slot. *)
LEMMA JoinKeeps ==
  ASSUME IInv, NEW r \in Request, Join(r)
  PROVE  IInv'
<1> USE BridgeAssumption DEF BridgeAssumption, IInv, Join, Goto, CanJoin,
       SameTarget, life, local, sftp
<1>1. TypeOK'
  BY DEF TypeOK, StopsCounted, LocalsSound, SlotSound, PC, Ended, Target
<1>2. StopsCounted'
  BY DEF TypeOK, StopsCounted
<1>3. SlotSound'
  BY DEF TypeOK, SlotSound, SessionsSound, LocalsSound, Dialling, Served,
     Ended
<1>4. LocalsSound'
  BY DEF TypeOK, SlotSound, LocalsSound, SessionsSound, Dialling, Served,
     Ended, Target
<1>5. SessionsSound'
  BY DEF TypeOK, SlotSound, SessionsSound, Dialling, Served, Ended
<1>6. CheckedInTime'
  BY DEF TypeOK, SlotSound, LocalsSound, CheckedInTime, StopsCounted,
     Target, Dialling
<1>7. SessionsHeld'
  BY DEF TypeOK, SlotSound, SessionsSound, SessionsHeld, Dialling, Served,
     Ended
<1>8. ServesForwarding'
  BY DEF TypeOK, SlotSound, StopsCounted, LocalsSound, ServesForwarding,
     CheckedInTime, Target, Dialling, Served, Ended
<1>9. AnswersMatch'
  BY DEF TypeOK, SlotSound, LocalsSound, AnswersMatch, Dialling, Served,
     Ended
<1>10. OpenedIsWatched'
  BY DEF TypeOK, SlotSound, LocalsSound, SessionsSound, OpenedIsWatched,
     Served, Ended
<1>11. WaitersServed'
  BY DEF TypeOK, SlotSound, LocalsSound, WaitersServed, Dialling, Served,
     Ended
<1>12. QED
  BY <1>1, <1>2, <1>3, <1>4, <1>5, <1>6, <1>7, <1>8, <1>9, <1>10, <1>11

(* A request takes the slot. *)
LEMMA TakeSlotKeeps ==
  ASSUME IInv, NEW r \in Request, TakeSlot(r)
  PROVE  IInv'
<1> USE BridgeAssumption DEF BridgeAssumption, IInv, TakeSlot, Goto, Take,
       life, local, sftp
<1>1. TypeOK'
  BY DEF TypeOK, StopsCounted, LocalsSound, SlotSound, PC, Ended, Target
<1>2. StopsCounted'
  BY DEF TypeOK, StopsCounted
<1>3. SlotSound'
  BY DEF TypeOK, SlotSound, SessionsSound, LocalsSound, Dialling, Served,
     Ended
<1>4. LocalsSound'
  BY DEF TypeOK, SlotSound, LocalsSound, SessionsSound, Dialling, Served,
     Ended, Target
<1>5. SessionsSound'
  BY DEF TypeOK, SlotSound, SessionsSound, Dialling, Served, Ended
<1>6. CheckedInTime'
  BY DEF TypeOK, SlotSound, LocalsSound, CheckedInTime, StopsCounted,
     Target, Dialling
<1>7. SessionsHeld'
  BY DEF TypeOK, SlotSound, SessionsSound, SessionsHeld, Dialling, Served,
     Ended
<1>8. ServesForwarding'
  BY DEF TypeOK, SlotSound, StopsCounted, LocalsSound, ServesForwarding,
     CheckedInTime, Target, Dialling, Served, Ended
<1>9. AnswersMatch'
  BY DEF TypeOK, SlotSound, LocalsSound, AnswersMatch, Dialling, Served,
     Ended
<1>10. OpenedIsWatched'
  BY DEF TypeOK, SlotSound, LocalsSound, SessionsSound, OpenedIsWatched,
     Served, Ended
<1>11. WaitersServed'
  BY DEF TypeOK, SlotSound, LocalsSound, WaitersServed, Dialling, Served,
     Ended
<1>12. QED
  BY <1>1, <1>2, <1>3, <1>4, <1>5, <1>6, <1>7, <1>8, <1>9, <1>10, <1>11

(* A waiter learns how the dial ended. *)
LEMMA JoinedKeeps ==
  ASSUME IInv, NEW r \in Request, Joined(r)
  PROVE  IInv'
<1> USE BridgeAssumption DEF BridgeAssumption, IInv, Joined, Goto, life,
       local, sftp
<1>1. TypeOK'
  BY DEF TypeOK, StopsCounted, LocalsSound, SlotSound, PC, Ended, Target
<1>2. StopsCounted'
  BY DEF TypeOK, StopsCounted
<1>3. SlotSound'
  BY DEF TypeOK, SlotSound, SessionsSound, LocalsSound, Dialling, Served,
     Ended
<1>4. LocalsSound'
  BY DEF TypeOK, SlotSound, LocalsSound, SessionsSound, Dialling, Served,
     Ended, Target
<1>5. SessionsSound'
  BY DEF TypeOK, SlotSound, SessionsSound, Dialling, Served, Ended
<1>6. CheckedInTime'
  BY DEF TypeOK, SlotSound, LocalsSound, CheckedInTime, StopsCounted,
     Target, Dialling
<1>7. SessionsHeld'
  BY DEF TypeOK, SlotSound, SessionsSound, SessionsHeld, Dialling, Served,
     Ended
<1>8. ServesForwarding'
  BY DEF TypeOK, SlotSound, StopsCounted, LocalsSound, ServesForwarding,
     CheckedInTime, Target, Dialling, Served, Ended
<1>9. AnswersMatch'
  BY DEF TypeOK, SlotSound, LocalsSound, AnswersMatch, Dialling, Served,
     Ended
<1>10. OpenedIsWatched'
  BY DEF TypeOK, SlotSound, LocalsSound, SessionsSound, OpenedIsWatched,
     Served, Ended
<1>11. WaitersServed'
  BY DEF TypeOK, SlotSound, LocalsSound, WaitersServed, Dialling, Served,
     Ended
<1>12. QED
  BY <1>1, <1>2, <1>3, <1>4, <1>5, <1>6, <1>7, <1>8, <1>9, <1>10, <1>11

(* The SFTP session is open. *)
LEMMA DialOkKeeps ==
  ASSUME IInv, NEW r \in Request, DialOk(r)
  PROVE  IInv'
<1> USE BridgeAssumption DEF BridgeAssumption, IInv, DialOk, Goto, life,
       local, sftp
<1>1. TypeOK'
  BY DEF TypeOK, StopsCounted, LocalsSound, SlotSound, PC, Ended, Target
<1>2. StopsCounted'
  BY DEF TypeOK, StopsCounted
<1>3. SlotSound'
  BY DEF TypeOK, SlotSound, SessionsSound, LocalsSound, Dialling, Served,
     Ended
<1>4. LocalsSound'
  BY DEF TypeOK, SlotSound, LocalsSound, SessionsSound, Dialling, Served,
     Ended, Target
<1>5. SessionsSound'
  BY DEF TypeOK, SlotSound, SessionsSound, Dialling, Served, Ended
<1>6. CheckedInTime'
  BY DEF TypeOK, SlotSound, LocalsSound, CheckedInTime, StopsCounted,
     Target, Dialling
<1>7. SessionsHeld'
  BY DEF TypeOK, SlotSound, SessionsSound, SessionsHeld, Dialling, Served,
     Ended
<1>8. ServesForwarding'
  BY DEF TypeOK, SlotSound, StopsCounted, LocalsSound, ServesForwarding,
     CheckedInTime, Target, Dialling, Served, Ended
<1>9. AnswersMatch'
  BY DEF TypeOK, SlotSound, LocalsSound, AnswersMatch, Dialling, Served,
     Ended
<1>10. OpenedIsWatched'
  BY DEF TypeOK, SlotSound, LocalsSound, SessionsSound, OpenedIsWatched,
     Served, Ended
<1>11. WaitersServed'
  BY DEF TypeOK, SlotSound, LocalsSound, WaitersServed, Dialling, Served,
     Ended
<1>12. QED
  BY <1>1, <1>2, <1>3, <1>4, <1>5, <1>6, <1>7, <1>8, <1>9, <1>10, <1>11

(* There is no SFTP session. *)
LEMMA DialFailsKeeps ==
  ASSUME IInv, NEW r \in Request, DialFails(r)
  PROVE  IInv'
<1> USE BridgeAssumption DEF BridgeAssumption, IInv, DialFails, Goto, life,
       local, sftp
<1>1. TypeOK'
  BY DEF TypeOK, StopsCounted, LocalsSound, SlotSound, PC, Ended, Target
<1>2. StopsCounted'
  BY DEF TypeOK, StopsCounted
<1>3. SlotSound'
  BY DEF TypeOK, SlotSound, SessionsSound, LocalsSound, Dialling, Served,
     Ended
<1>4. LocalsSound'
  BY DEF TypeOK, SlotSound, LocalsSound, SessionsSound, Dialling, Served,
     Ended, Target
<1>5. SessionsSound'
  BY DEF TypeOK, SlotSound, SessionsSound, Dialling, Served, Ended
<1>6. CheckedInTime'
  BY DEF TypeOK, SlotSound, LocalsSound, CheckedInTime, StopsCounted,
     Target, Dialling
<1>7. SessionsHeld'
  BY DEF TypeOK, SlotSound, SessionsSound, SessionsHeld, Dialling, Served,
     Ended
<1>8. ServesForwarding'
  BY DEF TypeOK, SlotSound, StopsCounted, LocalsSound, ServesForwarding,
     CheckedInTime, Target, Dialling, Served, Ended
<1>9. AnswersMatch'
  BY DEF TypeOK, SlotSound, LocalsSound, AnswersMatch, Dialling, Served,
     Ended
<1>10. OpenedIsWatched'
  BY DEF TypeOK, SlotSound, LocalsSound, SessionsSound, OpenedIsWatched,
     Served, Ended
<1>11. WaitersServed'
  BY DEF TypeOK, SlotSound, LocalsSound, WaitersServed, Dialling, Served,
     Ended
<1>12. QED
  BY <1>1, <1>2, <1>3, <1>4, <1>5, <1>6, <1>7, <1>8, <1>9, <1>10, <1>11

(* The dial looks whether its profile still forwards. *)
LEMMA CheckKeeps ==
  ASSUME IInv, NEW r \in Request, Check(r)
  PROVE  IInv'
<1> USE BridgeAssumption DEF BridgeAssumption, IInv, Check, Goto,
       StillForwarding, life, local, sftp
<1>1. TypeOK'
  BY DEF TypeOK, StopsCounted, LocalsSound, SlotSound, PC, Ended, Target
<1>2. StopsCounted'
  BY DEF TypeOK, StopsCounted
<1>3. SlotSound'
  BY DEF TypeOK, SlotSound, SessionsSound, LocalsSound, Dialling, Served,
     Ended
<1>4. LocalsSound'
  BY DEF TypeOK, SlotSound, LocalsSound, SessionsSound, Dialling, Served,
     Ended, Target
<1>5. SessionsSound'
  BY DEF TypeOK, SlotSound, SessionsSound, Dialling, Served, Ended
<1>6. CheckedInTime'
  BY DEF TypeOK, SlotSound, LocalsSound, CheckedInTime, StopsCounted,
     Target, Dialling
<1>7. SessionsHeld'
  BY DEF TypeOK, SlotSound, SessionsSound, SessionsHeld, Dialling, Served,
     Ended
<1>8. ServesForwarding'
  BY DEF TypeOK, SlotSound, StopsCounted, LocalsSound, ServesForwarding,
     CheckedInTime, Target, Dialling, Served, Ended
<1>9. AnswersMatch'
  BY DEF TypeOK, SlotSound, LocalsSound, AnswersMatch, Dialling, Served,
     Ended
<1>10. OpenedIsWatched'
  BY DEF TypeOK, SlotSound, LocalsSound, SessionsSound, OpenedIsWatched,
     Served, Ended
<1>11. WaitersServed'
  BY DEF TypeOK, SlotSound, LocalsSound, WaitersServed, Dialling, Served,
     Ended
<1>12. QED
  BY <1>1, <1>2, <1>3, <1>4, <1>5, <1>6, <1>7, <1>8, <1>9, <1>10, <1>11

(* The session of a profile that stopped is closed. *)
LEMMA GiveBackKeeps ==
  ASSUME IInv, NEW r \in Request, GiveBack(r)
  PROVE  IInv'
<1> USE BridgeAssumption DEF BridgeAssumption, IInv, GiveBack, Goto,
       Released, life, local, sftp
<1>1. TypeOK'
  BY DEF TypeOK, StopsCounted, LocalsSound, SlotSound, PC, Ended, Target
<1>2. StopsCounted'
  BY DEF TypeOK, StopsCounted
<1>3. SlotSound'
  BY DEF TypeOK, SlotSound, SessionsSound, LocalsSound, Dialling, Served,
     Ended
<1>4. LocalsSound'
  BY DEF TypeOK, SlotSound, LocalsSound, SessionsSound, Dialling, Served,
     Ended, Target
<1>5. SessionsSound'
  BY DEF TypeOK, SlotSound, SessionsSound, Dialling, Served, Ended
<1>6. CheckedInTime'
  BY DEF TypeOK, SlotSound, LocalsSound, CheckedInTime, StopsCounted,
     Target, Dialling
<1>7. SessionsHeld'
  BY DEF TypeOK, SlotSound, SessionsSound, SessionsHeld, Dialling, Served,
     Ended
<1>8. ServesForwarding'
  BY DEF TypeOK, SlotSound, StopsCounted, LocalsSound, ServesForwarding,
     CheckedInTime, Target, Dialling, Served, Ended
<1>9. AnswersMatch'
  BY DEF TypeOK, SlotSound, LocalsSound, AnswersMatch, Dialling, Served,
     Ended
<1>10. OpenedIsWatched'
  BY DEF TypeOK, SlotSound, LocalsSound, SessionsSound, OpenedIsWatched,
     Served, Ended
<1>11. WaitersServed'
  BY DEF TypeOK, SlotSound, LocalsSound, WaitersServed, Dialling, Served,
     Ended
<1>12. QED
  BY <1>1, <1>2, <1>3, <1>4, <1>5, <1>6, <1>7, <1>8, <1>9, <1>10, <1>11

(* A dial without a session leaves the slot. *)
LEMMA FinishErrorKeeps ==
  ASSUME IInv, NEW r \in Request, FinishError(r)
  PROVE  IInv'
<1> USE BridgeAssumption DEF BridgeAssumption, IInv, FinishError, Goto,
       HoldsSlot, Wake, Nothing, life, local, sftp
<1>1. TypeOK'
  BY DEF TypeOK, StopsCounted, LocalsSound, SlotSound, PC, Ended, Target
<1>2. StopsCounted'
  BY DEF TypeOK, StopsCounted
<1>3. SlotSound'
  BY DEF TypeOK, SlotSound, SessionsSound, LocalsSound, Dialling, Served,
     Ended
<1>4. LocalsSound'
  BY DEF TypeOK, SlotSound, LocalsSound, SessionsSound, Dialling, Served,
     Ended, Target
<1>5. SessionsSound'
  BY DEF TypeOK, SlotSound, SessionsSound, Dialling, Served, Ended
<1>6. CheckedInTime'
  BY DEF TypeOK, SlotSound, LocalsSound, CheckedInTime, StopsCounted,
     Target, Dialling
<1>7. SessionsHeld'
  BY DEF TypeOK, SlotSound, SessionsSound, SessionsHeld, Dialling, Served,
     Ended
<1>8. ServesForwarding'
  BY DEF TypeOK, SlotSound, StopsCounted, LocalsSound, ServesForwarding,
     CheckedInTime, Target, Dialling, Served, Ended
<1>9. AnswersMatch'
  BY DEF TypeOK, SlotSound, LocalsSound, AnswersMatch, Dialling, Served,
     Ended
<1>10. OpenedIsWatched'
  BY DEF TypeOK, SlotSound, LocalsSound, SessionsSound, OpenedIsWatched,
     Served, Ended
<1>11. WaitersServed'
  BY DEF TypeOK, SlotSound, LocalsSound, WaitersServed, Dialling, Served,
     Ended
<1>12. QED
  BY <1>1, <1>2, <1>3, <1>4, <1>5, <1>6, <1>7, <1>8, <1>9, <1>10, <1>11

(* A dial fills the slot, or lost it. *)
LEMMA FinishKeeps ==
  ASSUME IInv, NEW r \in Request, Finish(r)
  PROVE  IInv'
<1> USE BridgeAssumption DEF BridgeAssumption, IInv, Finish, Goto,
       HoldsSlot, Wake, Filled, life, local, sftp
<1>1. TypeOK'
  BY DEF TypeOK, StopsCounted, LocalsSound, SlotSound, PC, Ended, Target
<1>2. StopsCounted'
  BY DEF TypeOK, StopsCounted
<1>3. SlotSound'
  BY DEF TypeOK, SlotSound, SessionsSound, LocalsSound, Dialling, Served,
     Ended
<1>4. LocalsSound'
  BY DEF TypeOK, SlotSound, LocalsSound, SessionsSound, Dialling, Served,
     Ended, Target
<1>5. SessionsSound'
  BY DEF TypeOK, SlotSound, SessionsSound, Dialling, Served, Ended
<1>6. CheckedInTime'
  BY DEF TypeOK, SlotSound, LocalsSound, CheckedInTime, StopsCounted,
     Target, Dialling
<1>7. SessionsHeld'
  BY DEF TypeOK, SlotSound, SessionsSound, SessionsHeld, Dialling, Served,
     Ended
<1>8. ServesForwarding'
  BY DEF TypeOK, SlotSound, StopsCounted, LocalsSound, ServesForwarding,
     CheckedInTime, Target, Dialling, Served, Ended
<1>9. AnswersMatch'
  BY DEF TypeOK, SlotSound, LocalsSound, AnswersMatch, Dialling, Served,
     Ended
<1>10. OpenedIsWatched'
  BY DEF TypeOK, SlotSound, LocalsSound, SessionsSound, OpenedIsWatched,
     Served, Ended
<1>11. WaitersServed'
  BY DEF TypeOK, SlotSound, LocalsSound, WaitersServed, Dialling, Served,
     Ended
<1>12. QED
  BY <1>1, <1>2, <1>3, <1>4, <1>5, <1>6, <1>7, <1>8, <1>9, <1>10, <1>11

(* The session of a dial that lost the slot is closed. *)
LEMMA DiscardKeeps ==
  ASSUME IInv, NEW r \in Request, Discard(r)
  PROVE  IInv'
<1> USE BridgeAssumption DEF BridgeAssumption, IInv, Discard, Goto,
       Released, life, local, sftp
<1>1. TypeOK'
  BY DEF TypeOK, StopsCounted, LocalsSound, SlotSound, PC, Ended, Target
<1>2. StopsCounted'
  BY DEF TypeOK, StopsCounted
<1>3. SlotSound'
  BY DEF TypeOK, SlotSound, SessionsSound, LocalsSound, Dialling, Served,
     Ended
<1>4. LocalsSound'
  BY DEF TypeOK, SlotSound, LocalsSound, SessionsSound, Dialling, Served,
     Ended, Target
<1>5. SessionsSound'
  BY DEF TypeOK, SlotSound, SessionsSound, Dialling, Served, Ended
<1>6. CheckedInTime'
  BY DEF TypeOK, SlotSound, LocalsSound, CheckedInTime, StopsCounted,
     Target, Dialling
<1>7. SessionsHeld'
  BY DEF TypeOK, SlotSound, SessionsSound, SessionsHeld, Dialling, Served,
     Ended
<1>8. ServesForwarding'
  BY DEF TypeOK, SlotSound, StopsCounted, LocalsSound, ServesForwarding,
     CheckedInTime, Target, Dialling, Served, Ended
<1>9. AnswersMatch'
  BY DEF TypeOK, SlotSound, LocalsSound, AnswersMatch, Dialling, Served,
     Ended
<1>10. OpenedIsWatched'
  BY DEF TypeOK, SlotSound, LocalsSound, SessionsSound, OpenedIsWatched,
     Served, Ended
<1>11. WaitersServed'
  BY DEF TypeOK, SlotSound, LocalsSound, WaitersServed, Dialling, Served,
     Ended
<1>12. QED
  BY <1>1, <1>2, <1>3, <1>4, <1>5, <1>6, <1>7, <1>8, <1>9, <1>10, <1>11

(* A warm-up is done. *)
LEMMA WarmedKeeps ==
  ASSUME IInv, NEW r \in Request, Warmed(r)
  PROVE  IInv'
<1> USE BridgeAssumption DEF BridgeAssumption, IInv, Warmed, Goto, life,
       local, sftp
<1>1. TypeOK'
  BY DEF TypeOK, StopsCounted, LocalsSound, SlotSound, PC, Ended, Target
<1>2. StopsCounted'
  BY DEF TypeOK, StopsCounted
<1>3. SlotSound'
  BY DEF TypeOK, SlotSound, SessionsSound, LocalsSound, Dialling, Served,
     Ended
<1>4. LocalsSound'
  BY DEF TypeOK, SlotSound, LocalsSound, SessionsSound, Dialling, Served,
     Ended, Target
<1>5. SessionsSound'
  BY DEF TypeOK, SlotSound, SessionsSound, Dialling, Served, Ended
<1>6. CheckedInTime'
  BY DEF TypeOK, SlotSound, LocalsSound, CheckedInTime, StopsCounted,
     Target, Dialling
<1>7. SessionsHeld'
  BY DEF TypeOK, SlotSound, SessionsSound, SessionsHeld, Dialling, Served,
     Ended
<1>8. ServesForwarding'
  BY DEF TypeOK, SlotSound, StopsCounted, LocalsSound, ServesForwarding,
     CheckedInTime, Target, Dialling, Served, Ended
<1>9. AnswersMatch'
  BY DEF TypeOK, SlotSound, LocalsSound, AnswersMatch, Dialling, Served,
     Ended
<1>10. OpenedIsWatched'
  BY DEF TypeOK, SlotSound, LocalsSound, SessionsSound, OpenedIsWatched,
     Served, Ended
<1>11. WaitersServed'
  BY DEF TypeOK, SlotSound, LocalsSound, WaitersServed, Dialling, Served,
     Ended
<1>12. QED
  BY <1>1, <1>2, <1>3, <1>4, <1>5, <1>6, <1>7, <1>8, <1>9, <1>10, <1>11

(* The file is in the cache. *)
LEMMA CacheFileKeeps ==
  ASSUME IInv, NEW r \in Request, CacheFile(r)
  PROVE  IInv'
<1> USE BridgeAssumption DEF BridgeAssumption, IInv, CacheFile, Goto, life,
       local, sftp
<1>1. TypeOK'
  BY DEF TypeOK, StopsCounted, LocalsSound, SlotSound, PC, Ended, Target
<1>2. StopsCounted'
  BY DEF TypeOK, StopsCounted
<1>3. SlotSound'
  BY DEF TypeOK, SlotSound, SessionsSound, LocalsSound, Dialling, Served,
     Ended
<1>4. LocalsSound'
  BY DEF TypeOK, SlotSound, LocalsSound, SessionsSound, Dialling, Served,
     Ended, Target
<1>5. SessionsSound'
  BY DEF TypeOK, SlotSound, SessionsSound, Dialling, Served, Ended
<1>6. CheckedInTime'
  BY DEF TypeOK, SlotSound, LocalsSound, CheckedInTime, StopsCounted,
     Target, Dialling
<1>7. SessionsHeld'
  BY DEF TypeOK, SlotSound, SessionsSound, SessionsHeld, Dialling, Served,
     Ended
<1>8. ServesForwarding'
  BY DEF TypeOK, SlotSound, StopsCounted, LocalsSound, ServesForwarding,
     CheckedInTime, Target, Dialling, Served, Ended
<1>9. AnswersMatch'
  BY DEF TypeOK, SlotSound, LocalsSound, AnswersMatch, Dialling, Served,
     Ended
<1>10. OpenedIsWatched'
  BY DEF TypeOK, SlotSound, LocalsSound, SessionsSound, OpenedIsWatched,
     Served, Ended
<1>11. WaitersServed'
  BY DEF TypeOK, SlotSound, LocalsSound, WaitersServed, Dialling, Served,
     Ended
<1>12. QED
  BY <1>1, <1>2, <1>3, <1>4, <1>5, <1>6, <1>7, <1>8, <1>9, <1>10, <1>11

(* The file cannot be downloaded. *)
LEMMA CacheFailsKeeps ==
  ASSUME IInv, NEW r \in Request, CacheFails(r)
  PROVE  IInv'
<1> USE BridgeAssumption DEF BridgeAssumption, IInv, CacheFails, Goto, life,
       local, sftp
<1>1. TypeOK'
  BY DEF TypeOK, StopsCounted, LocalsSound, SlotSound, PC, Ended, Target
<1>2. StopsCounted'
  BY DEF TypeOK, StopsCounted
<1>3. SlotSound'
  BY DEF TypeOK, SlotSound, SessionsSound, LocalsSound, Dialling, Served,
     Ended
<1>4. LocalsSound'
  BY DEF TypeOK, SlotSound, LocalsSound, SessionsSound, Dialling, Served,
     Ended, Target
<1>5. SessionsSound'
  BY DEF TypeOK, SlotSound, SessionsSound, Dialling, Served, Ended
<1>6. CheckedInTime'
  BY DEF TypeOK, SlotSound, LocalsSound, CheckedInTime, StopsCounted,
     Target, Dialling
<1>7. SessionsHeld'
  BY DEF TypeOK, SlotSound, SessionsSound, SessionsHeld, Dialling, Served,
     Ended
<1>8. ServesForwarding'
  BY DEF TypeOK, SlotSound, StopsCounted, LocalsSound, ServesForwarding,
     CheckedInTime, Target, Dialling, Served, Ended
<1>9. AnswersMatch'
  BY DEF TypeOK, SlotSound, LocalsSound, AnswersMatch, Dialling, Served,
     Ended
<1>10. OpenedIsWatched'
  BY DEF TypeOK, SlotSound, LocalsSound, SessionsSound, OpenedIsWatched,
     Served, Ended
<1>11. WaitersServed'
  BY DEF TypeOK, SlotSound, LocalsSound, WaitersServed, Dialling, Served,
     Ended
<1>12. QED
  BY <1>1, <1>2, <1>3, <1>4, <1>5, <1>6, <1>7, <1>8, <1>9, <1>10, <1>11

(* The file is registered for upload. *)
LEMMA RegisterKeeps ==
  ASSUME IInv, NEW r \in Request, Register(r)
  PROVE  IInv'
<1> USE BridgeAssumption DEF BridgeAssumption, IInv, Register, Goto, life,
       local, sftp
<1>1. TypeOK'
  BY DEF TypeOK, StopsCounted, LocalsSound, SlotSound, PC, Ended, Target
<1>2. StopsCounted'
  BY DEF TypeOK, StopsCounted
<1>3. SlotSound'
  BY DEF TypeOK, SlotSound, SessionsSound, LocalsSound, Dialling, Served,
     Ended
<1>4. LocalsSound'
  BY DEF TypeOK, SlotSound, LocalsSound, SessionsSound, Dialling, Served,
     Ended, Target
<1>5. SessionsSound'
  BY DEF TypeOK, SlotSound, SessionsSound, Dialling, Served, Ended
<1>6. CheckedInTime'
  BY DEF TypeOK, SlotSound, LocalsSound, CheckedInTime, StopsCounted,
     Target, Dialling
<1>7. SessionsHeld'
  BY DEF TypeOK, SlotSound, SessionsSound, SessionsHeld, Dialling, Served,
     Ended
<1>8. ServesForwarding'
  BY DEF TypeOK, SlotSound, StopsCounted, LocalsSound, ServesForwarding,
     CheckedInTime, Target, Dialling, Served, Ended
<1>9. AnswersMatch'
  BY DEF TypeOK, SlotSound, LocalsSound, AnswersMatch, Dialling, Served,
     Ended
<1>10. OpenedIsWatched'
  BY DEF TypeOK, SlotSound, LocalsSound, SessionsSound, OpenedIsWatched,
     Served, Ended
<1>11. WaitersServed'
  BY DEF TypeOK, SlotSound, LocalsSound, WaitersServed, Dialling, Served,
     Ended
<1>12. QED
  BY <1>1, <1>2, <1>3, <1>4, <1>5, <1>6, <1>7, <1>8, <1>9, <1>10, <1>11

(* The shutdown closes all sessions. *)
LEMMA CloseSessionsKeeps ==
  ASSUME IInv, CloseSessions
  PROVE  IInv'
<1> USE BridgeAssumption DEF BridgeAssumption, IInv, CloseSessions, life,
       local, sftp
<1>1. TypeOK'
  BY DEF TypeOK, StopsCounted, LocalsSound, SlotSound, PC, Ended, Target
<1>2. StopsCounted'
  BY DEF TypeOK, StopsCounted
<1>3. SlotSound'
  BY DEF TypeOK, SlotSound, SessionsSound, LocalsSound, Dialling, Served,
     Ended
<1>4. LocalsSound'
  BY DEF TypeOK, SlotSound, LocalsSound, SessionsSound, Dialling, Served,
     Ended, Target
<1>5. SessionsSound'
  BY DEF TypeOK, SlotSound, SessionsSound, Dialling, Served, Ended
<1>6. CheckedInTime'
  BY DEF TypeOK, SlotSound, LocalsSound, CheckedInTime, StopsCounted,
     Target, Dialling
<1>7. SessionsHeld'
  BY DEF TypeOK, SlotSound, SessionsSound, SessionsHeld, Dialling, Served,
     Ended
<1>8. ServesForwarding'
  BY DEF TypeOK, SlotSound, StopsCounted, LocalsSound, ServesForwarding,
     CheckedInTime, Target, Dialling, Served, Ended
<1>9. AnswersMatch'
  BY DEF TypeOK, SlotSound, LocalsSound, AnswersMatch, Dialling, Served,
     Ended
<1>10. OpenedIsWatched'
  BY DEF TypeOK, SlotSound, LocalsSound, SessionsSound, OpenedIsWatched,
     Served, Ended
<1>11. WaitersServed'
  BY DEF TypeOK, SlotSound, LocalsSound, WaitersServed, Dialling, Served,
     Ended
<1>12. QED
  BY <1>1, <1>2, <1>3, <1>4, <1>5, <1>6, <1>7, <1>8, <1>9, <1>10, <1>11

(* The shutdown drops all items. *)
LEMMA CloseItemsKeeps ==
  ASSUME IInv, CloseItems
  PROVE  IInv'
<1> USE BridgeAssumption DEF BridgeAssumption, IInv, CloseItems, life,
       local, sftp
<1>1. TypeOK'
  BY DEF TypeOK, StopsCounted, LocalsSound, SlotSound, PC, Ended, Target
<1>2. StopsCounted'
  BY DEF TypeOK, StopsCounted
<1>3. SlotSound'
  BY DEF TypeOK, SlotSound, SessionsSound, LocalsSound, Dialling, Served,
     Ended
<1>4. LocalsSound'
  BY DEF TypeOK, SlotSound, LocalsSound, SessionsSound, Dialling, Served,
     Ended, Target
<1>5. SessionsSound'
  BY DEF TypeOK, SlotSound, SessionsSound, Dialling, Served, Ended
<1>6. CheckedInTime'
  BY DEF TypeOK, SlotSound, LocalsSound, CheckedInTime, StopsCounted,
     Target, Dialling
<1>7. SessionsHeld'
  BY DEF TypeOK, SlotSound, SessionsSound, SessionsHeld, Dialling, Served,
     Ended
<1>8. ServesForwarding'
  BY DEF TypeOK, SlotSound, StopsCounted, LocalsSound, ServesForwarding,
     CheckedInTime, Target, Dialling, Served, Ended
<1>9. AnswersMatch'
  BY DEF TypeOK, SlotSound, LocalsSound, AnswersMatch, Dialling, Served,
     Ended
<1>10. OpenedIsWatched'
  BY DEF TypeOK, SlotSound, LocalsSound, SessionsSound, OpenedIsWatched,
     Served, Ended
<1>11. WaitersServed'
  BY DEF TypeOK, SlotSound, LocalsSound, WaitersServed, Dialling, Served,
     Ended
<1>12. QED
  BY <1>1, <1>2, <1>3, <1>4, <1>5, <1>6, <1>7, <1>8, <1>9, <1>10, <1>11

(* The shutdown empties the slot. *)
LEMMA CloseBridgeKeeps ==
  ASSUME IInv, CloseBridge
  PROVE  IInv'
<1> USE BridgeAssumption DEF BridgeAssumption, IInv, CloseBridge, Take,
       Nothing, life, local, sftp
<1>1. TypeOK'
  BY DEF TypeOK, StopsCounted, LocalsSound, SlotSound, PC, Ended, Target
<1>2. StopsCounted'
  BY DEF TypeOK, StopsCounted
<1>3. SlotSound'
  BY DEF TypeOK, SlotSound, SessionsSound, LocalsSound, Dialling, Served,
     Ended
<1>4. LocalsSound'
  BY DEF TypeOK, SlotSound, LocalsSound, SessionsSound, Dialling, Served,
     Ended, Target
<1>5. SessionsSound'
  BY DEF TypeOK, SlotSound, SessionsSound, Dialling, Served, Ended
<1>6. CheckedInTime'
  BY DEF TypeOK, SlotSound, LocalsSound, CheckedInTime, StopsCounted,
     Target, Dialling
<1>7. SessionsHeld'
  BY DEF TypeOK, SlotSound, SessionsSound, SessionsHeld, Dialling, Served,
     Ended
<1>8. ServesForwarding'
  BY DEF TypeOK, SlotSound, StopsCounted, LocalsSound, ServesForwarding,
     CheckedInTime, Target, Dialling, Served, Ended
<1>9. AnswersMatch'
  BY DEF TypeOK, SlotSound, LocalsSound, AnswersMatch, Dialling, Served,
     Ended
<1>10. OpenedIsWatched'
  BY DEF TypeOK, SlotSound, LocalsSound, SessionsSound, OpenedIsWatched,
     Served, Ended
<1>11. WaitersServed'
  BY DEF TypeOK, SlotSound, LocalsSound, WaitersServed, Dialling, Served,
     Ended
<1>12. QED
  BY <1>1, <1>2, <1>3, <1>4, <1>5, <1>6, <1>7, <1>8, <1>9, <1>10, <1>11

-----------------------------------------------------------------------------
(* Nothing has happened yet.                                                 *)
LEMMA IInvInit == Init => IInv
<1> SUFFICES ASSUME Init PROVE IInv
  OBVIOUS
<1> USE BridgeAssumption DEF Init, Nothing
<1>1. TypeOK
  BY DEF TypeOK, PC, Ended, Target
<1>2. StopsCounted
  BY DEF StopsCounted
<1>3. SlotSound
  BY DEF SlotSound, Ended, Dialling, Served
<1>4. LocalsSound
  BY DEF LocalsSound, Ended, Target, Dialling, Served
<1>5. SessionsSound
  BY DEF SessionsSound, Ended, Dialling, Served
<1>6. CheckedInTime
  BY DEF CheckedInTime, Target, Dialling
<1>7. SessionsHeld
  BY DEF SessionsHeld, Ended, Dialling, Served
<1>8. ServesForwarding
  BY DEF ServesForwarding, Ended, Target, Dialling, Served
<1>9. AnswersMatch
  BY DEF AnswersMatch, Ended, Dialling, Served
<1>10. OpenedIsWatched
  BY DEF OpenedIsWatched, Ended, Served
<1>11. WaitersServed
  BY DEF WaitersServed, Ended, Dialling, Served
<1>12. QED
  BY <1>1, <1>2, <1>3, <1>4, <1>5, <1>6, <1>7, <1>8, <1>9, <1>10, <1>11 DEF IInv

(* Every step, and every step of something else, preserves the invariant.    *)
LEMMA IInvStep == IInv /\ [Next]_vars => IInv'
<1> SUFFICES ASSUME IInv, [Next]_vars PROVE IInv'
  OBVIOUS
<1>1. ASSUME NEW p \in Profile, Start(p) \/ Stop(p) \/ CloseForProfile(p)
      PROVE  IInv'
  BY <1>1, StartKeeps, StopKeeps, CloseForProfileKeeps
<1>2. ASSUME NEW r \in Request, Begin(r) PROVE IInv'
  BY <1>2, BeginKeeps
<1>3. ASSUME NEW r \in Request, RequestStep(r) PROVE IInv'
  BY <1>3, ReuseKeeps, JoinKeeps, TakeSlotKeeps, JoinedKeeps, DialOkKeeps,
     DialFailsKeeps, CheckKeeps, GiveBackKeeps, FinishErrorKeeps,
     FinishKeeps, DiscardKeeps, WarmedKeeps, CacheFileKeeps,
     CacheFailsKeeps, RegisterKeeps
     DEF RequestStep
<1>4. ASSUME NEW r \in Request, Clear(r) PROVE IInv'
  BY <1>4, ClearUnregisterKeeps, ClearDisconnectKeeps DEF Clear
<1>5. CASE CloseSessions \/ CloseItems \/ CloseBridge
  BY <1>5, CloseSessionsKeeps, CloseItemsKeeps, CloseBridgeKeeps
<1>6. CASE UNCHANGED vars
  <2>1. (TypeOK /\ StopsCounted /\ SlotSound /\ LocalsSound)'
    BY <1>6 DEF IInv, vars, life, local, sftp, TypeOK, StopsCounted,
       SlotSound, LocalsSound, PC, Ended, Target, Dialling, Served
  <2>2. (SessionsSound /\ CheckedInTime /\ SessionsHeld /\ ServesForwarding)'
    BY <1>6 DEF IInv, vars, life, local, sftp, SessionsSound, CheckedInTime,
       SessionsHeld, ServesForwarding, Ended, Target, Dialling, Served
  <2>3. (AnswersMatch /\ OpenedIsWatched /\ WaitersServed)'
    BY <1>6 DEF IInv, vars, life, local, sftp, AnswersMatch,
       OpenedIsWatched, WaitersServed, Ended, Dialling, Served
  <2>4. QED BY <2>1, <2>2, <2>3 DEF IInv
<1>7. QED
  BY <1>1, <1>2, <1>3, <1>4, <1>5, <1>6 DEF Next

(* The slot, the dials, their waiters and the sessions stay consistent,      *)
(* whatever requests come while forwarding starts and stops.                 *)
THEOREM BridgeInvariant == Spec => []IInv
BY IInvInit, IInvStep, PTL DEF Spec

(* The slot never holds a session and a dial at once, and every count stays in its
   bounds. *)
THEOREM BridgeTypeCorrect == Spec => []TypeOK
<1>1. IInv => TypeOK
  BY DEF IInv
<1>2. QED BY <1>1, BridgeInvariant, PTL

(* However requests and stops take the slot from each other, every registered
   bridge session has somebody who will close it. *)
THEOREM SessionsNeverLost == Spec => []SessionsHeld
<1>1. IInv => SessionsHeld
  BY DEF IInv
<1>2. QED BY <1>1, BridgeInvariant, PTL

(* A stop of forwarding finds the session of every dial it overlaps: none stays
   in the slot. *)
THEOREM SlotServesForwarding == Spec => []ServesForwarding
<1>1. IInv => ServesForwarding
  BY DEF IInv
<1>2. QED BY <1>1, BridgeInvariant, PTL

(* No request is given a session of another profile or workspace. *)
THEOREM AnswersAlwaysMatch == Spec => []AnswersMatch
<1>1. IInv => AnswersMatch
  BY DEF IInv
<1>2. QED BY <1>1, BridgeInvariant, PTL

(* The slot is consistent and answers nobody with a session of another profile
   or workspace. *)
THEOREM BridgeAlwaysSound == Spec => []BridgeSound
<1>1. IInv => BridgeSound
  BY DEF IInv, BridgeSound
<1>2. QED BY <1>1, BridgeInvariant, PTL

(* A file opened through the bridge is watched while its session lives. *)
THEOREM OpenedAlwaysWatched == Spec => []OpenedIsWatched
<1>1. IInv => OpenedIsWatched
  BY DEF IInv
<1>2. QED BY <1>1, BridgeInvariant, PTL

(* A dial that has waiters reports to them, also when its slot was taken. *)
THEOREM WaitersNeverForgotten == Spec => []WaitersServed
<1>1. IInv => WaitersServed
  BY DEF IInv
<1>2. QED BY <1>1, BridgeInvariant, PTL
=============================================================================

---------------------------- MODULE OpenSync_proofs ----------------------------
(***************************************************************************)
(* UploadsSound and NoUploadAfterExit for any number of upload goroutines   *)
(* and any bounds.                                                          *)
(*                                                                         *)
(* A further upload needs a further registration: an upload that starts     *)
(* marks the item, and one that ends clears the mark of at most the item    *)
(* that is there then, also one registered after it began                   *)
(* (UploadsCounted). The types need a count too: every write makes a stamp, *)
(* and an open has as many writes as the file has blocks, and one more      *)
(* (StampsCounted).                                                         *)
(***************************************************************************)
EXTENDS OpenSync, FiniteSetTheorems, TLAPS

\* The writes an open has yet to make.
Left ==
  CASE opening.at = "create" -> 3
    [] opening.at = "copy"   -> 3 - opening.next
    [] OTHER                 -> 0

StampsCounted ==
  /\ stamp + Left <= 3 * spent.opens + saves
  /\ saves <= MaxSaves + spent.replaces

\* What is open or registered has a file; an upload writes no further than it
\* has read.
FilesThere ==
  /\ item # None \/ opening.at \in {"copy", "register"} => local \in Content
  /\ \A w \in Worker : /\ up[w].dst <= up[w].src
                       /\ up[w].at # "free" => local \in Content

\* An open that is under way will add a registration.
Busy == IF opening.at = "none" THEN 0 ELSE 1

\* Each upload in flight can be charged to an open of its own, and an item that
\* is not marked, whose next upload may start, still has one to charge it to.
UploadsCounted ==
  /\ Cardinality(InFlight) + Busy <= spent.opens
  /\ item # None /\ ~item.syncing => Cardinality(InFlight) + Busy < spent.opens

ExitWaited == exited => closed /\ InFlight = {}

SyncInv ==
  /\ TypeOK /\ StampsCounted /\ FilesThere /\ SyncingIsOwned /\ UploadsCounted /\ ExitWaited

-----------------------------------------------------------------------------
(* The invariant at the start, and one lemma per action.                    *)

\* The bounds are numbers; a fresh goroutine and the server's file have types.
LEMMA Bounds ==
  /\ MaxStamp \in Nat /\ MaxSaves + MaxReplaces \in Nat
  /\ MaxStamp = 3 * MaxOpens + MaxSaves + MaxReplaces
  /\ {MaxOpens, MaxSaves, MaxReplaces, MaxFails, MaxRetries} \subseteq Nat
  /\ Free \in UploadRecord /\ Free.at = "free"
  /\ \A v \in 0..(MaxSaves + MaxReplaces) \cup {Missing} : Whole(v) \in Content
<1>1. {MaxOpens, MaxSaves, MaxReplaces, MaxFails, MaxRetries} \subseteq Nat
  BY SyncAssumption
<1>2. MaxStamp = 3 * MaxOpens + MaxSaves + MaxReplaces
  BY <1>1 DEF MaxStamp, Blocks
<1>3. MaxStamp \in Nat /\ MaxSaves + MaxReplaces \in Nat
  BY <1>1, <1>2
<1>4. Free \in UploadRecord /\ Free.at = "free"
  BY <1>3 DEF Free, UploadRecord, Blocks
<1>5. \A v \in 0..(MaxSaves + MaxReplaces) \cup {Missing} : Whole(v) \in Content
  BY DEF Whole, Content
<1> QED
  BY <1>1, <1>2, <1>3, <1>4, <1>5

\* A stamp that is counted is within its bound.
LEMMA StampFits ==
  ASSUME StampsCounted', stamp' \in Nat, saves' \in Nat, Left' \in Nat,
         spent'.opens \in 0..MaxOpens, spent'.replaces \in 0..MaxReplaces
  PROVE  stamp' \in 0..MaxStamp /\ saves' \in 0..(MaxSaves + MaxReplaces)
  BY Bounds DEF StampsCounted

LEMMA InitInv ==
  ASSUME Init
  PROVE  SyncInv
<1>1. TypeOK
  <2>1. Whole(0) \in Content
    BY Bounds
  <2>2. up \in [Worker -> UploadRecord]
    BY Bounds DEF Init
  <2>3. watching \in BOOLEAN
    BY SyncAssumption DEF Init
  <2>4. spent \in [opens : 0..MaxOpens, replaces : 0..MaxReplaces,
                   fails : 0..MaxFails, retries : 0..MaxRetries]
    BY Bounds DEF Init
  <2>5. /\ loop \in [at : {"idle", "stat", "apply"}, seen : 0..MaxStamp]
        /\ opening \in [at : {"none", "create", "copy", "stat", "register"},
                        next : 1..Blocks+1, seen : 0..MaxStamp]
    BY Bounds DEF Init, Idle, NotOpening, Blocks
  <2>6. stamp \in 0..MaxStamp /\ saves \in 0..(MaxSaves + MaxReplaces)
    BY Bounds DEF Init
  <2>7. remote \in Content /\ item = None /\ local = None /\ events = {}
    BY <2>1 DEF Init
  <2>8. /\ closed = FALSE /\ exited = FALSE /\ connected = TRUE /\ leaving = FALSE
        /\ watch = FALSE
    BY DEF Init
  <2> QED
    BY <2>2, <2>3, <2>4, <2>5, <2>6, <2>7, <2>8 DEF TypeOK
<1>2. StampsCounted /\ FilesThere /\ SyncingIsOwned /\ ExitWaited
  BY SyncAssumption DEF Init, StampsCounted, Left, FilesThere, SyncingIsOwned, ExitWaited,
    NotOpening, InFlight, Free
<1>3. UploadsCounted
  <2>1. InFlight = {} /\ Busy = 0 /\ spent.opens = 0 /\ item = None
    BY DEF Init, InFlight, Free, Busy, NotOpening
  <2> QED
    BY <2>1, FS_EmptySet DEF UploadsCounted
<1> QED
  BY <1>1, <1>2, <1>3 DEF SyncInv

\* Uploads are counted with numbers.
LEMMA UploadCount ==
  ASSUME SyncInv
  PROVE  /\ IsFiniteSet(InFlight) /\ Cardinality(InFlight) \in Nat /\ InFlight \subseteq Worker
         /\ Busy \in 0..1 /\ spent.opens \in Nat
<1>1. IsFiniteSet(InFlight) /\ InFlight \subseteq Worker
  BY SyncAssumption, FS_Subset DEF InFlight
<1>2. spent.opens \in Nat
  BY SyncAssumption DEF SyncInv, TypeOK
<1> QED
  BY <1>1, <1>2, FS_CardinalityType DEF Busy

\* A step that starts and ends no upload keeps the count, if a mark that is
\* cleared is paid for by an open that ends.
LEMMA SameUploads ==
  ASSUME SyncInv, InFlight' = InFlight, spent'.opens \in Nat, Busy' \in 0..1,
         spent.opens + Busy' <= spent'.opens + Busy,
         item' # None /\ ~item'.syncing =>
           \/ item # None /\ ~item.syncing
           \/ spent.opens + Busy' < spent'.opens + Busy
  PROVE  UploadsCounted'
<1>1. /\ Cardinality(InFlight') = Cardinality(InFlight) /\ Cardinality(InFlight) \in Nat
      /\ Busy \in 0..1 /\ spent.opens \in Nat
  BY UploadCount
<1>2. /\ Cardinality(InFlight) + Busy <= spent.opens
      /\ item # None /\ ~item.syncing => Cardinality(InFlight) + Busy < spent.opens
  BY DEF SyncInv, UploadsCounted
<1> QED
  BY <1>1, <1>2 DEF UploadsCounted

\* An upload that starts is one more, charged to what its item had left.
LEMMA OneMoreUpload ==
  ASSUME SyncInv, NEW w \in Worker, up[w].at = "free", up'[w].at # "free",
         \A v \in Worker : v # w => up'[v] = up[v],
         item # None, ~item.syncing, item'.syncing,
         UNCHANGED <<spent, opening>>
  PROVE  UploadsCounted'
<1>1. InFlight' = InFlight \cup {w} /\ w \notin InFlight
  BY DEF InFlight
<1>2. Cardinality(InFlight') = Cardinality(InFlight) + 1
  BY <1>1, UploadCount, FS_AddElement
<1>3. Cardinality(InFlight) + Busy < spent.opens
  BY DEF SyncInv, UploadsCounted
<1>4. Busy' = Busy /\ spent'.opens = spent.opens
  BY DEF Busy
<1> QED
  BY <1>2, <1>3, <1>4, UploadCount DEF UploadsCounted

LEMMA KeepsSave ==
  ASSUME SyncInv, Save
  PROVE  SyncInv'
<1>1. TypeOK'
  BY SyncAssumption DEF Save, Write, session, file, SyncInv, TypeOK, StampsCounted, Left,
    FilesThere, ItemRecord, UploadRecord, Content, Blocks, MaxStamp, Whole, Empty
<1>2. StampsCounted'
  BY SyncAssumption DEF Save, Write, session, file, SyncInv, TypeOK, StampsCounted, Left, Blocks
<1>3. FilesThere'
  BY SyncAssumption DEF Save, Write, session, file, SyncInv, TypeOK, FilesThere, UploadRecord,
    Content, Blocks, Whole, Empty, StampsCounted
<1>4. SyncingIsOwned'
  BY SyncAssumption DEF Save, Write, session, file, SyncInv, TypeOK, SyncingIsOwned, InFlight,
    UploadRecord, ItemRecord
<1>5. UploadsCounted'
  <2>1. InFlight' = InFlight
    BY DEF Save, Write, session, file, SyncInv, TypeOK, InFlight, UploadRecord
  <2>2. spent'.opens \in Nat /\ Busy' \in 0..1 /\ spent.opens + Busy' <= spent'.opens + Busy
    BY SyncAssumption DEF Save, Write, session, file, SyncInv, TypeOK, Busy
  <2>3. item' # None /\ ~item'.syncing => item # None /\ ~item.syncing
    BY DEF Save, Write, session, file, SyncInv, TypeOK, ItemRecord
  <2> QED
    BY <2>1, <2>2, <2>3, SameUploads
<1>6. ExitWaited'
  BY SyncAssumption DEF Save, Write, session, file, SyncInv, TypeOK, ExitWaited, InFlight,
    UploadRecord
<1> QED
  BY <1>1, <1>2, <1>3, <1>4, <1>5, <1>6 DEF SyncInv

LEMMA KeepsReplace ==
  ASSUME SyncInv, Replace
  PROVE  SyncInv'
<1>1. TypeOK'
  <2>1. /\ spent' \in [opens : 0..MaxOpens, replaces : 0..MaxReplaces,
                       fails : 0..MaxFails, retries : 0..MaxRetries]
        /\ spent'.opens = spent.opens /\ spent'.replaces = spent.replaces + 1
    BY Bounds DEF Replace, Spend, SyncInv, TypeOK
  <2>2. stamp' = stamp + 1 /\ saves' = saves + 1 /\ opening' = opening
    BY DEF Replace, file
  <2>3. StampsCounted'
    BY <2>1, <2>2, Bounds DEF SyncInv, TypeOK, StampsCounted, Left, Blocks
  <2>4. Left' \in Nat
    BY <2>2 DEF Left, SyncInv, TypeOK, Blocks
  <2>5. stamp' \in 0..MaxStamp /\ saves' \in 0..(MaxSaves + MaxReplaces)
    BY <2>1, <2>2, <2>3, <2>4, StampFits DEF SyncInv, TypeOK
  <2>6. local' \in Content
    BY <2>2, <2>5, Bounds DEF Replace
  <2>7. closed' => ~watch'
    BY DEF Replace
  <2>8. events' \subseteq {"change", "remove"} /\ watch' \in BOOLEAN
    BY DEF Replace, SyncInv, TypeOK
  <2> QED
    BY <2>1, <2>5, <2>6, <2>7, <2>8 DEF Replace, session, SyncInv, TypeOK
<1>2. StampsCounted'
  BY SyncAssumption DEF Replace, Spend, session, file, SyncInv, TypeOK, StampsCounted, Left,
    Blocks
<1>3. FilesThere'
  BY SyncAssumption DEF Replace, Spend, session, file, SyncInv, TypeOK, FilesThere,
    UploadRecord, Content, Blocks, Whole, Empty, StampsCounted
<1>4. SyncingIsOwned'
  BY SyncAssumption DEF Replace, Spend, session, file, SyncInv, TypeOK, SyncingIsOwned,
    InFlight, UploadRecord, ItemRecord
<1>5. UploadsCounted'
  <2>1. InFlight' = InFlight
    BY DEF Replace, Spend, session, file, SyncInv, TypeOK, InFlight, UploadRecord
  <2>2. spent'.opens \in Nat /\ Busy' \in 0..1 /\ spent.opens + Busy' <= spent'.opens + Busy
    BY SyncAssumption DEF Replace, Spend, session, file, SyncInv, TypeOK, Busy
  <2>3. item' # None /\ ~item'.syncing => item # None /\ ~item.syncing
    BY DEF Replace, Spend, session, file, SyncInv, TypeOK, ItemRecord
  <2> QED
    BY <2>1, <2>2, <2>3, SameUploads
<1>6. ExitWaited'
  BY SyncAssumption DEF Replace, Spend, session, file, SyncInv, TypeOK, ExitWaited, InFlight,
    UploadRecord
<1> QED
  BY <1>1, <1>2, <1>3, <1>4, <1>5, <1>6 DEF SyncInv

LEMMA KeepsOpenStart ==
  ASSUME SyncInv, OpenStart
  PROVE  SyncInv'
<1>1. TypeOK'
  BY SyncAssumption DEF OpenStart, Spend, At, session, file, SyncInv, TypeOK, StampsCounted,
    Left, FilesThere, ItemRecord, UploadRecord, Content, Blocks, MaxStamp, Whole, Empty
<1>2. StampsCounted'
  BY SyncAssumption DEF OpenStart, Spend, At, session, file, SyncInv, TypeOK, StampsCounted,
    Left, Blocks
<1>3. FilesThere'
  BY SyncAssumption DEF OpenStart, Spend, At, session, file, SyncInv, TypeOK, FilesThere,
    UploadRecord, Content, Blocks, Whole, Empty, StampsCounted
<1>4. SyncingIsOwned'
  BY SyncAssumption DEF OpenStart, Spend, At, session, file, SyncInv, TypeOK, SyncingIsOwned,
    InFlight, UploadRecord, ItemRecord
<1>5. UploadsCounted'
  <2>1. InFlight' = InFlight
    BY DEF OpenStart, Spend, At, session, file, SyncInv, TypeOK, InFlight, UploadRecord
  <2>2. spent'.opens \in Nat /\ Busy' \in 0..1 /\ spent.opens + Busy' <= spent'.opens + Busy
    BY SyncAssumption DEF OpenStart, Spend, At, session, file, SyncInv, TypeOK, Busy
  <2>3. item' # None /\ ~item'.syncing => item # None /\ ~item.syncing
    BY DEF OpenStart, Spend, At, session, file, SyncInv, TypeOK, ItemRecord
  <2> QED
    BY <2>1, <2>2, <2>3, SameUploads
<1>6. ExitWaited'
  BY SyncAssumption DEF OpenStart, Spend, At, session, file, SyncInv, TypeOK, ExitWaited,
    InFlight, UploadRecord
<1> QED
  BY <1>1, <1>2, <1>3, <1>4, <1>5, <1>6 DEF SyncInv

LEMMA KeepsOpenCreate ==
  ASSUME SyncInv, OpenCreate
  PROVE  SyncInv'
<1>1. TypeOK'
  <2>1. stamp' = stamp + 1 /\ UNCHANGED <<saves, spent>> /\ opening.at = "create"
    BY DEF OpenCreate, Write
  <2>2. opening' \in [at : {"none", "create", "copy", "stat", "register"},
                      next : 1..Blocks+1, seen : 0..MaxStamp]
        /\ opening'.at = "copy" /\ opening'.next = 1
    <3>1. opening' = [opening EXCEPT !.at = "copy", !.next = 1]
      BY DEF OpenCreate
    <3>2. opening \in [at : {"none", "create", "copy", "stat", "register"},
                       next : 1..Blocks+1, seen : 0..MaxStamp]
      BY DEF SyncInv, TypeOK
    <3>3. 1 \in 1..Blocks+1
      BY DEF Blocks
    <3> QED
      BY <3>1, <3>2, <3>3
  <2>3. Left' = 2 /\ Left = 3
    BY <2>1, <2>2 DEF Left
  <2>4. StampsCounted'
    BY <2>1, <2>3, Bounds DEF SyncInv, TypeOK, StampsCounted
  <2>5. stamp' \in 0..MaxStamp
    BY <2>1, <2>3, <2>4, StampFits DEF SyncInv, TypeOK
  <2>6. local' \in Content /\ events' \subseteq {"change", "remove"}
    BY Bounds DEF OpenCreate, Write, Empty, SyncInv, TypeOK
  <2> QED
    BY <2>2, <2>5, <2>6 DEF OpenCreate, session, SyncInv, TypeOK
<1>2. StampsCounted'
  BY SyncAssumption DEF OpenCreate, Write, session, file, SyncInv, TypeOK, StampsCounted, Left,
    Blocks
<1>3. FilesThere'
  BY SyncAssumption DEF OpenCreate, Write, session, file, SyncInv, TypeOK, FilesThere,
    UploadRecord, Content, Blocks, Whole, Empty, StampsCounted
<1>4. SyncingIsOwned'
  BY SyncAssumption DEF OpenCreate, Write, session, file, SyncInv, TypeOK, SyncingIsOwned,
    InFlight, UploadRecord, ItemRecord
<1>5. UploadsCounted'
  <2>1. InFlight' = InFlight
    BY DEF OpenCreate, Write, session, file, SyncInv, TypeOK, InFlight, UploadRecord
  <2>2. spent'.opens \in Nat /\ Busy' \in 0..1 /\ spent.opens + Busy' <= spent'.opens + Busy
    BY SyncAssumption DEF OpenCreate, Write, session, file, SyncInv, TypeOK, Busy
  <2>3. item' # None /\ ~item'.syncing => item # None /\ ~item.syncing
    BY DEF OpenCreate, Write, session, file, SyncInv, TypeOK, ItemRecord
  <2> QED
    BY <2>1, <2>2, <2>3, SameUploads
<1>6. ExitWaited'
  BY SyncAssumption DEF OpenCreate, Write, session, file, SyncInv, TypeOK, ExitWaited, InFlight,
    UploadRecord
<1> QED
  BY <1>1, <1>2, <1>3, <1>4, <1>5, <1>6 DEF SyncInv

LEMMA KeepsOpenCopy ==
  ASSUME SyncInv, OpenCopy
  PROVE  SyncInv'
<1>1. TypeOK'
  BY SyncAssumption DEF OpenCopy, Write, session, file, SyncInv, TypeOK, StampsCounted, Left,
    FilesThere, ItemRecord, UploadRecord, Content, Blocks, MaxStamp, Whole, Empty
<1>2. StampsCounted'
  BY SyncAssumption DEF OpenCopy, Write, session, file, SyncInv, TypeOK, StampsCounted, Left,
    Blocks
<1>3. FilesThere'
  BY SyncAssumption DEF OpenCopy, Write, session, file, SyncInv, TypeOK, FilesThere,
    UploadRecord, Content, Blocks, Whole, Empty, StampsCounted
<1>4. SyncingIsOwned'
  BY SyncAssumption DEF OpenCopy, Write, session, file, SyncInv, TypeOK, SyncingIsOwned,
    InFlight, UploadRecord, ItemRecord
<1>5. UploadsCounted'
  <2>1. InFlight' = InFlight
    BY DEF OpenCopy, Write, session, file, SyncInv, TypeOK, InFlight, UploadRecord
  <2>2. spent'.opens \in Nat /\ Busy' \in 0..1 /\ spent.opens + Busy' <= spent'.opens + Busy
    BY SyncAssumption DEF OpenCopy, Write, session, file, SyncInv, TypeOK, Busy
  <2>3. item' # None /\ ~item'.syncing => item # None /\ ~item.syncing
    BY DEF OpenCopy, Write, session, file, SyncInv, TypeOK, ItemRecord
  <2> QED
    BY <2>1, <2>2, <2>3, SameUploads
<1>6. ExitWaited'
  BY SyncAssumption DEF OpenCopy, Write, session, file, SyncInv, TypeOK, ExitWaited, InFlight,
    UploadRecord
<1> QED
  BY <1>1, <1>2, <1>3, <1>4, <1>5, <1>6 DEF SyncInv

LEMMA KeepsOpenFails ==
  ASSUME SyncInv, OpenFails
  PROVE  SyncInv'
<1>1. TypeOK'
  BY SyncAssumption DEF OpenFails, NotOpening, session, file, SyncInv, TypeOK, StampsCounted,
    Left, FilesThere, ItemRecord, UploadRecord, Content, Blocks, MaxStamp, Whole, Empty
<1>2. StampsCounted'
  BY SyncAssumption DEF OpenFails, NotOpening, session, file, SyncInv, TypeOK, StampsCounted,
    Left, Blocks
<1>3. FilesThere'
  BY SyncAssumption DEF OpenFails, NotOpening, session, file, SyncInv, TypeOK, FilesThere,
    UploadRecord, Content, Blocks, Whole, Empty, StampsCounted
<1>4. SyncingIsOwned'
  BY SyncAssumption DEF OpenFails, NotOpening, session, file, SyncInv, TypeOK, SyncingIsOwned,
    InFlight, UploadRecord, ItemRecord
<1>5. UploadsCounted'
  <2>1. InFlight' = InFlight
    BY DEF OpenFails, NotOpening, session, file, SyncInv, TypeOK, InFlight, UploadRecord
  <2>2. spent'.opens \in Nat /\ Busy' \in 0..1 /\ spent.opens + Busy' <= spent'.opens + Busy
    BY SyncAssumption DEF OpenFails, NotOpening, session, file, SyncInv, TypeOK, Busy
  <2>3. item' # None /\ ~item'.syncing => item # None /\ ~item.syncing
    BY DEF OpenFails, NotOpening, session, file, SyncInv, TypeOK, ItemRecord
  <2> QED
    BY <2>1, <2>2, <2>3, SameUploads
<1>6. ExitWaited'
  BY SyncAssumption DEF OpenFails, NotOpening, session, file, SyncInv, TypeOK, ExitWaited,
    InFlight, UploadRecord
<1> QED
  BY <1>1, <1>2, <1>3, <1>4, <1>5, <1>6 DEF SyncInv

LEMMA KeepsOpenStat ==
  ASSUME SyncInv, OpenStat
  PROVE  SyncInv'
<1>1. TypeOK'
  <2>1. UNCHANGED <<watching, closed, exited, connected, leaving, item, local, stamp, watch,
                    events, loop, up, remote, saves, spent>>
    BY DEF OpenStat, session, file
  <2>2. /\ stamp \in 0..MaxStamp
        /\ opening \in [at : {"none", "create", "copy", "stat", "register"},
                        next : 1..Blocks+1, seen : 0..MaxStamp]
    BY DEF SyncInv, TypeOK
  <2>3. opening' \in [at : {"none", "create", "copy", "stat", "register"},
                      next : 1..Blocks+1, seen : 0..MaxStamp]
    BY <2>2 DEF OpenStat
  <2> QED
    BY <2>1, <2>3 DEF SyncInv, TypeOK
<1>2. StampsCounted'
  BY SyncAssumption DEF OpenStat, session, file, SyncInv, TypeOK, StampsCounted, Left, Blocks
<1>3. FilesThere'
  BY SyncAssumption DEF OpenStat, session, file, SyncInv, TypeOK, FilesThere, UploadRecord,
    Content, Blocks, Whole, Empty, StampsCounted
<1>4. SyncingIsOwned'
  BY SyncAssumption DEF OpenStat, session, file, SyncInv, TypeOK, SyncingIsOwned, InFlight,
    UploadRecord, ItemRecord
<1>5. UploadsCounted'
  <2>1. InFlight' = InFlight
    BY DEF OpenStat, session, file, SyncInv, TypeOK, InFlight, UploadRecord
  <2>2. spent'.opens \in Nat /\ Busy' \in 0..1 /\ spent.opens + Busy' <= spent'.opens + Busy
    BY SyncAssumption DEF OpenStat, session, file, SyncInv, TypeOK, Busy
  <2>3. item' # None /\ ~item'.syncing => item # None /\ ~item.syncing
    BY DEF OpenStat, session, file, SyncInv, TypeOK, ItemRecord
  <2> QED
    BY <2>1, <2>2, <2>3, SameUploads
<1>6. ExitWaited'
  BY SyncAssumption DEF OpenStat, session, file, SyncInv, TypeOK, ExitWaited, InFlight,
    UploadRecord
<1> QED
  BY <1>1, <1>2, <1>3, <1>4, <1>5, <1>6 DEF SyncInv

LEMMA KeepsRegister ==
  ASSUME SyncInv, Register
  PROVE  SyncInv'
<1>1. TypeOK'
  BY SyncAssumption DEF Register, NotOpening, session, file, SyncInv, TypeOK, StampsCounted,
    Left, FilesThere, ItemRecord, UploadRecord, Content, Blocks, MaxStamp, Whole, Empty
<1>2. StampsCounted'
  BY SyncAssumption DEF Register, NotOpening, session, file, SyncInv, TypeOK, StampsCounted,
    Left, Blocks
<1>3. FilesThere'
  BY SyncAssumption DEF Register, NotOpening, session, file, SyncInv, TypeOK, FilesThere,
    UploadRecord, Content, Blocks, Whole, Empty, StampsCounted
<1>4. SyncingIsOwned'
  BY SyncAssumption DEF Register, NotOpening, session, file, SyncInv, TypeOK, SyncingIsOwned,
    InFlight, UploadRecord, ItemRecord
<1>5. UploadsCounted'
  <2>1. InFlight' = InFlight
    BY DEF Register, InFlight
  <2>2. spent' = spent /\ Busy' = 0 /\ Busy = 1 /\ spent.opens \in Nat
    BY UploadCount DEF Register, NotOpening, Busy
  <2> QED
    BY <2>1, <2>2, SameUploads
<1>6. ExitWaited'
  BY SyncAssumption DEF Register, NotOpening, session, file, SyncInv, TypeOK, ExitWaited,
    InFlight, UploadRecord
<1> QED
  BY <1>1, <1>2, <1>3, <1>4, <1>5, <1>6 DEF SyncInv

LEMMA KeepsLoopEvent ==
  ASSUME SyncInv, LoopEvent
  PROVE  SyncInv'
<1>1. TypeOK'
  BY SyncAssumption DEF LoopEvent, Idle, session, file, SyncInv, TypeOK, StampsCounted, Left,
    FilesThere, ItemRecord, UploadRecord, Content, Blocks, MaxStamp, Whole, Empty
<1>2. StampsCounted'
  BY SyncAssumption DEF LoopEvent, Idle, session, file, SyncInv, TypeOK, StampsCounted, Left,
    Blocks
<1>3. FilesThere'
  BY SyncAssumption DEF LoopEvent, Idle, session, file, SyncInv, TypeOK, FilesThere,
    UploadRecord, Content, Blocks, Whole, Empty, StampsCounted
<1>4. SyncingIsOwned'
  BY SyncAssumption DEF LoopEvent, Idle, session, file, SyncInv, TypeOK, SyncingIsOwned,
    InFlight, UploadRecord, ItemRecord
<1>5. UploadsCounted'
  <2>1. InFlight' = InFlight
    BY DEF LoopEvent, Idle, session, file, SyncInv, TypeOK, InFlight, UploadRecord
  <2>2. spent'.opens \in Nat /\ Busy' \in 0..1 /\ spent.opens + Busy' <= spent'.opens + Busy
    BY SyncAssumption DEF LoopEvent, Idle, session, file, SyncInv, TypeOK, Busy
  <2>3. item' # None /\ ~item'.syncing => item # None /\ ~item.syncing
    BY DEF LoopEvent, Idle, session, file, SyncInv, TypeOK, ItemRecord
  <2> QED
    BY <2>1, <2>2, <2>3, SameUploads
<1>6. ExitWaited'
  BY SyncAssumption DEF LoopEvent, Idle, session, file, SyncInv, TypeOK, ExitWaited, InFlight,
    UploadRecord
<1> QED
  BY <1>1, <1>2, <1>3, <1>4, <1>5, <1>6 DEF SyncInv

LEMMA KeepsLoopStat ==
  ASSUME SyncInv, LoopStat
  PROVE  SyncInv'
<1>1. TypeOK'
  BY SyncAssumption DEF LoopStat, session, file, SyncInv, TypeOK, StampsCounted, Left,
    FilesThere, ItemRecord, UploadRecord, Content, Blocks, MaxStamp, Whole, Empty
<1>2. StampsCounted'
  BY SyncAssumption DEF LoopStat, session, file, SyncInv, TypeOK, StampsCounted, Left, Blocks
<1>3. FilesThere'
  BY SyncAssumption DEF LoopStat, session, file, SyncInv, TypeOK, FilesThere, UploadRecord,
    Content, Blocks, Whole, Empty, StampsCounted
<1>4. SyncingIsOwned'
  BY SyncAssumption DEF LoopStat, session, file, SyncInv, TypeOK, SyncingIsOwned, InFlight,
    UploadRecord, ItemRecord
<1>5. UploadsCounted'
  <2>1. InFlight' = InFlight
    BY DEF LoopStat, session, file, SyncInv, TypeOK, InFlight, UploadRecord
  <2>2. spent'.opens \in Nat /\ Busy' \in 0..1 /\ spent.opens + Busy' <= spent'.opens + Busy
    BY SyncAssumption DEF LoopStat, session, file, SyncInv, TypeOK, Busy
  <2>3. item' # None /\ ~item'.syncing => item # None /\ ~item.syncing
    BY DEF LoopStat, session, file, SyncInv, TypeOK, ItemRecord
  <2> QED
    BY <2>1, <2>2, <2>3, SameUploads
<1>6. ExitWaited'
  BY SyncAssumption DEF LoopStat, session, file, SyncInv, TypeOK, ExitWaited, InFlight,
    UploadRecord
<1> QED
  BY <1>1, <1>2, <1>3, <1>4, <1>5, <1>6 DEF SyncInv

LEMMA KeepsLoopApply ==
  ASSUME SyncInv, LoopApply
  PROVE  SyncInv'
<1>1. TypeOK'
  <2>1. item' \in ItemRecord \cup {None}
    BY DEF LoopApply, Noticed, SyncInv, TypeOK, ItemRecord
  <2>2. loop' \in [at : {"idle", "stat", "apply"}, seen : 0..MaxStamp]
    BY Bounds DEF LoopApply, Idle
  <2> QED
    BY <2>1, <2>2 DEF LoopApply, session, file, SyncInv, TypeOK
<1>2. StampsCounted'
  BY SyncAssumption DEF LoopApply, Idle, Noticed, session, file, SyncInv, TypeOK, StampsCounted,
    Left, Blocks
<1>3. FilesThere'
  BY SyncAssumption DEF LoopApply, Idle, Noticed, session, file, SyncInv, TypeOK, FilesThere,
    UploadRecord, Content, Blocks, Whole, Empty, StampsCounted
<1>4. SyncingIsOwned'
  BY SyncAssumption DEF LoopApply, Idle, Noticed, session, file, SyncInv, TypeOK,
    SyncingIsOwned, InFlight, UploadRecord, ItemRecord
<1>5. UploadsCounted'
  <2>1. InFlight' = InFlight
    BY DEF LoopApply, Idle, Noticed, session, file, SyncInv, TypeOK, InFlight, UploadRecord
  <2>2. spent'.opens \in Nat /\ Busy' \in 0..1 /\ spent.opens + Busy' <= spent'.opens + Busy
    BY SyncAssumption DEF LoopApply, Idle, Noticed, session, file, SyncInv, TypeOK, Busy
  <2>3. item' # None /\ ~item'.syncing => item # None /\ ~item.syncing
    BY DEF LoopApply, Idle, Noticed, session, file, SyncInv, TypeOK, ItemRecord
  <2> QED
    BY <2>1, <2>2, <2>3, SameUploads
<1>6. ExitWaited'
  BY SyncAssumption DEF LoopApply, Idle, Noticed, session, file, SyncInv, TypeOK, ExitWaited,
    InFlight, UploadRecord
<1> QED
  BY <1>1, <1>2, <1>3, <1>4, <1>5, <1>6 DEF SyncInv

LEMMA KeepsLoopRemove ==
  ASSUME SyncInv, LoopRemove
  PROVE  SyncInv'
<1>1. TypeOK'
  BY SyncAssumption DEF LoopRemove, Forget, session, file, SyncInv, TypeOK, StampsCounted, Left,
    FilesThere, ItemRecord, UploadRecord, Content, Blocks, MaxStamp, Whole, Empty
<1>2. StampsCounted'
  BY SyncAssumption DEF LoopRemove, Forget, session, file, SyncInv, TypeOK, StampsCounted, Left,
    Blocks
<1>3. FilesThere'
  BY SyncAssumption DEF LoopRemove, Forget, session, file, SyncInv, TypeOK, FilesThere,
    UploadRecord, Content, Blocks, Whole, Empty, StampsCounted
<1>4. SyncingIsOwned'
  BY SyncAssumption DEF LoopRemove, Forget, session, file, SyncInv, TypeOK, SyncingIsOwned,
    InFlight, UploadRecord, ItemRecord
<1>5. UploadsCounted'
  <2>1. InFlight' = InFlight
    BY DEF LoopRemove, Forget, session, file, SyncInv, TypeOK, InFlight, UploadRecord
  <2>2. spent'.opens \in Nat /\ Busy' \in 0..1 /\ spent.opens + Busy' <= spent'.opens + Busy
    BY SyncAssumption DEF LoopRemove, Forget, session, file, SyncInv, TypeOK, Busy
  <2>3. item' # None /\ ~item'.syncing => item # None /\ ~item.syncing
    BY DEF LoopRemove, Forget, session, file, SyncInv, TypeOK, ItemRecord
  <2> QED
    BY <2>1, <2>2, <2>3, SameUploads
<1>6. ExitWaited'
  BY SyncAssumption DEF LoopRemove, Forget, session, file, SyncInv, TypeOK, ExitWaited,
    InFlight, UploadRecord
<1> QED
  BY <1>1, <1>2, <1>3, <1>4, <1>5, <1>6 DEF SyncInv

\* An upload starts: in a free goroutine, for an item that is then marked.
LEMMA Starts ==
  ASSUME SyncInv, NEW it \in ItemRecord, StartUpload(it)
  PROVE  /\ item' \in ItemRecord /\ item'.syncing
         /\ up' \in [Worker -> UploadRecord]
         /\ \E w \in Worker : /\ up[w].at = "free" /\ up'[w].at = "open"
                              /\ up'[w].dst = 1 /\ up'[w].src = 1
                              /\ \A v \in Worker : v # w => up'[v] = up[v]
         /\ InFlight' # {}
<1>1. PICK w \in Worker : /\ up[w].at = "free" /\ item' = Marked(it)
                          /\ up' = [up EXCEPT ![w] =
                                      [Free EXCEPT !.at = "open", !.stamp = it.stamp]]
  BY DEF StartUpload
<1>2. item' \in ItemRecord /\ item'.syncing
  BY <1>1 DEF Marked, ItemRecord
<1>3. up \in [Worker -> UploadRecord]
  BY DEF SyncInv, TypeOK
<1>4. it.stamp \in 0..MaxStamp
  BY DEF ItemRecord
<1>5. /\ up'[w] \in UploadRecord /\ up'[w].at = "open" /\ up'[w].dst = 1 /\ up'[w].src = 1
      /\ \A v \in Worker : v # w => up'[v] = up[v]
  <2>1. /\ up'[w] = [Free EXCEPT !.at = "open", !.stamp = it.stamp]
        /\ \A v \in Worker : v # w => up'[v] = up[v]
    BY <1>1, <1>3
  <2>2. up'[w] = [at |-> "open", stamp |-> it.stamp, src |-> 1, dst |-> 1, again |-> FALSE]
    BY <2>1 DEF Free
  <2>3. 1 \in 1..Blocks+1
    BY DEF Blocks
  <2>4. up'[w] \in UploadRecord
    BY <1>4, <2>2, <2>3 DEF UploadRecord
  <2>5. up'[w].at = "open" /\ up'[w].dst = 1 /\ up'[w].src = 1
    BY <2>2
  <2> QED
    BY <2>1, <2>4, <2>5
<1>6. up' \in [Worker -> UploadRecord]
  BY <1>1, <1>3, <1>5
<1>7. InFlight' # {}
  BY <1>5 DEF InFlight
<1> QED
  BY <1>1, <1>2, <1>5, <1>6, <1>7

LEMMA KeepsLoopTick ==
  ASSUME SyncInv, LoopTick
  PROVE  SyncInv'
<1>1. TypeOK'
  <2>1. item \in ItemRecord
    BY DEF LoopTick, SyncInv, TypeOK
  <2>2. item' \in ItemRecord /\ up' \in [Worker -> UploadRecord]
    BY <2>1, Starts DEF LoopTick
  <2> QED
    BY <2>2 DEF LoopTick, session, file, SyncInv, TypeOK
<1>2. StampsCounted'
  BY SyncAssumption DEF LoopTick, StartUpload, Uploadable, Noticed, Marked, Free, session, file,
    SyncInv, TypeOK, StampsCounted, Left, Blocks
<1>3. FilesThere'
  BY SyncAssumption DEF LoopTick, StartUpload, Uploadable, Noticed, Marked, Free, session, file,
    SyncInv, TypeOK, FilesThere, UploadRecord, Content, Blocks, Whole, Empty, StampsCounted
<1>4. SyncingIsOwned'
  BY SyncAssumption DEF LoopTick, StartUpload, Uploadable, Noticed, Marked, Free, session, file,
    SyncInv, TypeOK, SyncingIsOwned, InFlight, UploadRecord, ItemRecord
<1>5. UploadsCounted'
  <2>1. item \in ItemRecord /\ item # None /\ ~item.syncing /\ StartUpload(item)
    BY DEF LoopTick, Uploadable, SyncInv, TypeOK
  <2>2. item'.syncing
    BY <2>1, Starts
  <2>3. PICK w \in Worker : /\ up[w].at = "free" /\ up'[w].at = "open"
                            /\ \A v \in Worker : v # w => up'[v] = up[v]
    BY <2>1, Starts
  <2> QED
    BY <2>1, <2>2, <2>3, OneMoreUpload DEF LoopTick
<1>6. ExitWaited'
  BY SyncAssumption DEF LoopTick, StartUpload, Uploadable, Noticed, Marked, Free, session, file,
    SyncInv, TypeOK, ExitWaited, InFlight, UploadRecord
<1> QED
  BY <1>1, <1>2, <1>3, <1>4, <1>5, <1>6 DEF SyncInv

LEMMA KeepsPoll ==
  ASSUME SyncInv, Poll
  PROVE  SyncInv'
<1>a. item \in ItemRecord
  BY DEF Poll, SyncInv, TypeOK
<1>b. Noticed(item, stamp) \in ItemRecord /\ ~Noticed(item, stamp).syncing
  BY <1>a DEF Poll, SyncInv, TypeOK, Noticed, ItemRecord
<1>c. \/ StartUpload(Noticed(item, stamp))
      \/ item' = Noticed(item, stamp) /\ UNCHANGED up
  BY DEF Poll
<1>1. TypeOK'
  <2>1. item' \in ItemRecord /\ up' \in [Worker -> UploadRecord]
    BY <1>b, <1>c, Starts DEF SyncInv, TypeOK
  <2> QED
    BY <2>1 DEF Poll, session, file, SyncInv, TypeOK
<1>2. StampsCounted'
  BY SyncAssumption DEF Poll, StartUpload, Uploadable, Noticed, Marked, Free, session, file,
    SyncInv, TypeOK, StampsCounted, Left, Blocks
<1>3. FilesThere'
  <2>1. local \in Content /\ UNCHANGED <<local, opening>>
    BY <1>a DEF Poll, file, SyncInv, FilesThere
  <2>2. \A v \in Worker : up'[v].dst <= up'[v].src
    BY <1>b, <1>c, Starts DEF SyncInv, FilesThere
  <2> QED
    BY <2>1, <2>2 DEF FilesThere, Content
<1>4. SyncingIsOwned'
  <2>1. CASE StartUpload(Noticed(item, stamp))
    BY <1>b, <2>1, Starts DEF SyncingIsOwned
  <2>2. CASE item' = Noticed(item, stamp)
    BY <1>b, <2>2 DEF SyncingIsOwned
  <2> QED
    BY <1>c, <2>1, <2>2
<1>5. UploadsCounted'
  <2>1. item # None /\ ~item.syncing /\ UNCHANGED <<spent, opening>>
    BY DEF Poll
  <2>2. CASE StartUpload(Noticed(item, stamp))
    <3>1. item'.syncing
      BY <1>b, <2>2, Starts
    <3>2. PICK w \in Worker : /\ up[w].at = "free" /\ up'[w].at = "open"
                              /\ \A v \in Worker : v # w => up'[v] = up[v]
      BY <1>b, <2>2, Starts
    <3> QED
      BY <2>1, <3>1, <3>2, OneMoreUpload
  <2>3. CASE item' = Noticed(item, stamp) /\ UNCHANGED up
    <3>1. InFlight' = InFlight /\ Busy' = Busy
      BY <2>1, <2>3 DEF InFlight, Busy
    <3> QED
      BY <2>1, <3>1, SameUploads, UploadCount
  <2> QED
    BY <1>c, <2>2, <2>3
<1>6. ExitWaited'
  BY SyncAssumption DEF Poll, StartUpload, Uploadable, Noticed, Marked, Free, session, file,
    SyncInv, TypeOK, ExitWaited, InFlight, UploadRecord
<1> QED
  BY <1>1, <1>2, <1>3, <1>4, <1>5, <1>6 DEF SyncInv

LEMMA KeepsDebounceOver ==
  ASSUME SyncInv, DebounceOver
  PROVE  SyncInv'
<1>1. TypeOK'
  BY SyncAssumption DEF DebounceOver, session, file, SyncInv, TypeOK, StampsCounted, Left,
    FilesThere, ItemRecord, UploadRecord, Content, Blocks, MaxStamp, Whole, Empty
<1>2. StampsCounted'
  BY SyncAssumption DEF DebounceOver, session, file, SyncInv, TypeOK, StampsCounted, Left,
    Blocks
<1>3. FilesThere'
  BY SyncAssumption DEF DebounceOver, session, file, SyncInv, TypeOK, FilesThere, UploadRecord,
    Content, Blocks, Whole, Empty, StampsCounted
<1>4. SyncingIsOwned'
  BY SyncAssumption DEF DebounceOver, session, file, SyncInv, TypeOK, SyncingIsOwned, InFlight,
    UploadRecord, ItemRecord
<1>5. UploadsCounted'
  <2>1. InFlight' = InFlight
    BY DEF DebounceOver, session, file, SyncInv, TypeOK, InFlight, UploadRecord
  <2>2. spent'.opens \in Nat /\ Busy' \in 0..1 /\ spent.opens + Busy' <= spent'.opens + Busy
    BY SyncAssumption DEF DebounceOver, session, file, SyncInv, TypeOK, Busy
  <2>3. item' # None /\ ~item'.syncing => item # None /\ ~item.syncing
    BY DEF DebounceOver, session, file, SyncInv, TypeOK, ItemRecord
  <2> QED
    BY <2>1, <2>2, <2>3, SameUploads
<1>6. ExitWaited'
  BY SyncAssumption DEF DebounceOver, session, file, SyncInv, TypeOK, ExitWaited, InFlight,
    UploadRecord
<1> QED
  BY <1>1, <1>2, <1>3, <1>4, <1>5, <1>6 DEF SyncInv

LEMMA KeepsUploadOpen ==
  ASSUME SyncInv, NEW w \in Worker, UploadOpen(w)
  PROVE  SyncInv'
<1>1. TypeOK'
  BY SyncAssumption DEF UploadOpen, Step, session, file, SyncInv, TypeOK, StampsCounted, Left,
    FilesThere, ItemRecord, UploadRecord, Content, Blocks, MaxStamp, Whole, Empty
<1>2. StampsCounted'
  BY SyncAssumption DEF UploadOpen, Step, session, file, SyncInv, TypeOK, StampsCounted, Left,
    Blocks
<1>3. FilesThere'
  BY SyncAssumption DEF UploadOpen, Step, session, file, SyncInv, TypeOK, FilesThere,
    UploadRecord, Content, Blocks, Whole, Empty, StampsCounted
<1>4. SyncingIsOwned'
  BY SyncAssumption DEF UploadOpen, Step, session, file, SyncInv, TypeOK, SyncingIsOwned,
    InFlight, UploadRecord, ItemRecord
<1>5. UploadsCounted'
  <2>1. InFlight' = InFlight
    BY DEF UploadOpen, Step, session, file, SyncInv, TypeOK, InFlight, UploadRecord
  <2>2. spent'.opens \in Nat /\ Busy' \in 0..1 /\ spent.opens + Busy' <= spent'.opens + Busy
    BY SyncAssumption DEF UploadOpen, Step, session, file, SyncInv, TypeOK, Busy
  <2>3. item' # None /\ ~item'.syncing => item # None /\ ~item.syncing
    BY DEF UploadOpen, Step, session, file, SyncInv, TypeOK, ItemRecord
  <2> QED
    BY <2>1, <2>2, <2>3, SameUploads
<1>6. ExitWaited'
  BY SyncAssumption DEF UploadOpen, Step, session, file, SyncInv, TypeOK, ExitWaited, InFlight,
    UploadRecord
<1> QED
  BY <1>1, <1>2, <1>3, <1>4, <1>5, <1>6 DEF SyncInv

LEMMA KeepsUploadCreate ==
  ASSUME SyncInv, NEW w \in Worker, UploadCreate(w)
  PROVE  SyncInv'
<1>1. TypeOK'
  BY SyncAssumption DEF UploadCreate, Step, session, file, SyncInv, TypeOK, StampsCounted, Left,
    FilesThere, ItemRecord, UploadRecord, Content, Blocks, MaxStamp, Whole, Empty
<1>2. StampsCounted'
  BY SyncAssumption DEF UploadCreate, Step, session, file, SyncInv, TypeOK, StampsCounted, Left,
    Blocks
<1>3. FilesThere'
  BY SyncAssumption DEF UploadCreate, Step, session, file, SyncInv, TypeOK, FilesThere,
    UploadRecord, Content, Blocks, Whole, Empty, StampsCounted
<1>4. SyncingIsOwned'
  BY SyncAssumption DEF UploadCreate, Step, session, file, SyncInv, TypeOK, SyncingIsOwned,
    InFlight, UploadRecord, ItemRecord
<1>5. UploadsCounted'
  <2>1. InFlight' = InFlight
    BY DEF UploadCreate, Step, session, file, SyncInv, TypeOK, InFlight, UploadRecord
  <2>2. spent'.opens \in Nat /\ Busy' \in 0..1 /\ spent.opens + Busy' <= spent'.opens + Busy
    BY SyncAssumption DEF UploadCreate, Step, session, file, SyncInv, TypeOK, Busy
  <2>3. item' # None /\ ~item'.syncing => item # None /\ ~item.syncing
    BY DEF UploadCreate, Step, session, file, SyncInv, TypeOK, ItemRecord
  <2> QED
    BY <2>1, <2>2, <2>3, SameUploads
<1>6. ExitWaited'
  BY SyncAssumption DEF UploadCreate, Step, session, file, SyncInv, TypeOK, ExitWaited,
    InFlight, UploadRecord
<1> QED
  BY <1>1, <1>2, <1>3, <1>4, <1>5, <1>6 DEF SyncInv

LEMMA KeepsUploadCopy ==
  ASSUME SyncInv, NEW w \in Worker, UploadCopy(w)
  PROVE  SyncInv'
<1>1. TypeOK'
  BY SyncAssumption DEF UploadCopy, More, session, file, SyncInv, TypeOK, StampsCounted, Left,
    FilesThere, ItemRecord, UploadRecord, Content, Blocks, MaxStamp, Whole, Empty
<1>2. StampsCounted'
  BY SyncAssumption DEF UploadCopy, More, session, file, SyncInv, TypeOK, StampsCounted, Left,
    Blocks
<1>3. FilesThere'
  BY SyncAssumption DEF UploadCopy, More, session, file, SyncInv, TypeOK, FilesThere,
    UploadRecord, Content, Blocks, Whole, Empty, StampsCounted
<1>4. SyncingIsOwned'
  BY SyncAssumption DEF UploadCopy, More, session, file, SyncInv, TypeOK, SyncingIsOwned,
    InFlight, UploadRecord, ItemRecord
<1>5. UploadsCounted'
  <2>1. InFlight' = InFlight
    BY DEF UploadCopy, More, session, file, SyncInv, TypeOK, InFlight, UploadRecord
  <2>2. spent'.opens \in Nat /\ Busy' \in 0..1 /\ spent.opens + Busy' <= spent'.opens + Busy
    BY SyncAssumption DEF UploadCopy, More, session, file, SyncInv, TypeOK, Busy
  <2>3. item' # None /\ ~item'.syncing => item # None /\ ~item.syncing
    BY DEF UploadCopy, More, session, file, SyncInv, TypeOK, ItemRecord
  <2> QED
    BY <2>1, <2>2, <2>3, SameUploads
<1>6. ExitWaited'
  BY SyncAssumption DEF UploadCopy, More, session, file, SyncInv, TypeOK, ExitWaited, InFlight,
    UploadRecord
<1> QED
  BY <1>1, <1>2, <1>3, <1>4, <1>5, <1>6 DEF SyncInv

LEMMA KeepsUploadEnds ==
  ASSUME SyncInv, NEW w \in Worker, UploadEnds(w)
  PROVE  SyncInv'
<1>1. TypeOK'
  BY SyncAssumption DEF UploadEnds, Step, More, session, file, SyncInv, TypeOK, StampsCounted,
    Left, FilesThere, ItemRecord, UploadRecord, Content, Blocks, MaxStamp, Whole, Empty
<1>2. StampsCounted'
  BY SyncAssumption DEF UploadEnds, Step, More, session, file, SyncInv, TypeOK, StampsCounted,
    Left, Blocks
<1>3. FilesThere'
  BY SyncAssumption DEF UploadEnds, Step, More, session, file, SyncInv, TypeOK, FilesThere,
    UploadRecord, Content, Blocks, Whole, Empty, StampsCounted
<1>4. SyncingIsOwned'
  BY SyncAssumption DEF UploadEnds, Step, More, session, file, SyncInv, TypeOK, SyncingIsOwned,
    InFlight, UploadRecord, ItemRecord
<1>5. UploadsCounted'
  <2>1. InFlight' = InFlight
    BY DEF UploadEnds, Step, More, session, file, SyncInv, TypeOK, InFlight, UploadRecord
  <2>2. spent'.opens \in Nat /\ Busy' \in 0..1 /\ spent.opens + Busy' <= spent'.opens + Busy
    BY SyncAssumption DEF UploadEnds, Step, More, session, file, SyncInv, TypeOK, Busy
  <2>3. item' # None /\ ~item'.syncing => item # None /\ ~item.syncing
    BY DEF UploadEnds, Step, More, session, file, SyncInv, TypeOK, ItemRecord
  <2> QED
    BY <2>1, <2>2, <2>3, SameUploads
<1>6. ExitWaited'
  BY SyncAssumption DEF UploadEnds, Step, More, session, file, SyncInv, TypeOK, ExitWaited,
    InFlight, UploadRecord
<1> QED
  BY <1>1, <1>2, <1>3, <1>4, <1>5, <1>6 DEF SyncInv

LEMMA KeepsUploadFails ==
  ASSUME SyncInv, NEW w \in Worker, UploadFails(w)
  PROVE  SyncInv'
<1>1. TypeOK'
  BY SyncAssumption DEF UploadFails, Spend, Step, session, file, SyncInv, TypeOK, StampsCounted,
    Left, FilesThere, ItemRecord, UploadRecord, Content, Blocks, MaxStamp, Whole, Empty
<1>2. StampsCounted'
  BY SyncAssumption DEF UploadFails, Spend, Step, session, file, SyncInv, TypeOK, StampsCounted,
    Left, Blocks
<1>3. FilesThere'
  BY SyncAssumption DEF UploadFails, Spend, Step, session, file, SyncInv, TypeOK, FilesThere,
    UploadRecord, Content, Blocks, Whole, Empty, StampsCounted
<1>4. SyncingIsOwned'
  BY SyncAssumption DEF UploadFails, Spend, Step, session, file, SyncInv, TypeOK,
    SyncingIsOwned, InFlight, UploadRecord, ItemRecord
<1>5. UploadsCounted'
  <2>1. InFlight' = InFlight
    BY DEF UploadFails, Spend, Step, session, file, SyncInv, TypeOK, InFlight, UploadRecord
  <2>2. spent'.opens \in Nat /\ Busy' \in 0..1 /\ spent.opens + Busy' <= spent'.opens + Busy
    BY SyncAssumption DEF UploadFails, Spend, Step, session, file, SyncInv, TypeOK, Busy
  <2>3. item' # None /\ ~item'.syncing => item # None /\ ~item.syncing
    BY DEF UploadFails, Spend, Step, session, file, SyncInv, TypeOK, ItemRecord
  <2> QED
    BY <2>1, <2>2, <2>3, SameUploads
<1>6. ExitWaited'
  BY SyncAssumption DEF UploadFails, Spend, Step, session, file, SyncInv, TypeOK, ExitWaited,
    InFlight, UploadRecord
<1> QED
  BY <1>1, <1>2, <1>3, <1>4, <1>5, <1>6 DEF SyncInv

LEMMA KeepsUploadAgain ==
  ASSUME SyncInv, NEW w \in Worker, UploadAgain(w)
  PROVE  SyncInv'
<1>1. TypeOK'
  BY SyncAssumption DEF UploadAgain, Spend, More, session, file, SyncInv, TypeOK, StampsCounted,
    Left, FilesThere, ItemRecord, UploadRecord, Content, Blocks, MaxStamp, Whole, Empty
<1>2. StampsCounted'
  BY SyncAssumption DEF UploadAgain, Spend, More, session, file, SyncInv, TypeOK, StampsCounted,
    Left, Blocks
<1>3. FilesThere'
  BY SyncAssumption DEF UploadAgain, Spend, More, session, file, SyncInv, TypeOK, FilesThere,
    UploadRecord, Content, Blocks, Whole, Empty, StampsCounted
<1>4. SyncingIsOwned'
  BY SyncAssumption DEF UploadAgain, Spend, More, session, file, SyncInv, TypeOK,
    SyncingIsOwned, InFlight, UploadRecord, ItemRecord
<1>5. UploadsCounted'
  <2>1. InFlight' = InFlight
    BY DEF UploadAgain, Spend, More, session, file, SyncInv, TypeOK, InFlight, UploadRecord
  <2>2. spent'.opens \in Nat /\ Busy' \in 0..1 /\ spent.opens + Busy' <= spent'.opens + Busy
    BY SyncAssumption DEF UploadAgain, Spend, More, session, file, SyncInv, TypeOK, Busy
  <2>3. item' # None /\ ~item'.syncing => item # None /\ ~item.syncing
    BY DEF UploadAgain, Spend, More, session, file, SyncInv, TypeOK, ItemRecord
  <2> QED
    BY <2>1, <2>2, <2>3, SameUploads
<1>6. ExitWaited'
  BY SyncAssumption DEF UploadAgain, Spend, More, session, file, SyncInv, TypeOK, ExitWaited,
    InFlight, UploadRecord
<1> QED
  BY <1>1, <1>2, <1>3, <1>4, <1>5, <1>6 DEF SyncInv

LEMMA KeepsUploadComplete ==
  ASSUME SyncInv, NEW w \in Worker, UploadComplete(w)
  PROVE  SyncInv'
<1>1. TypeOK'
  <2>1. item' \in ItemRecord \cup {None}
    BY DEF UploadComplete, Completed, SyncInv, TypeOK, ItemRecord
  <2>2. up' \in [Worker -> UploadRecord]
    BY Bounds DEF UploadComplete, SyncInv, TypeOK
  <2> QED
    BY <2>1, <2>2 DEF UploadComplete, session, file, SyncInv, TypeOK
<1>2. StampsCounted'
  BY SyncAssumption DEF UploadComplete, Free, Completed, session, file, SyncInv, TypeOK,
    StampsCounted, Left, Blocks
<1>3. FilesThere'
  BY SyncAssumption DEF UploadComplete, Free, Completed, session, file, SyncInv, TypeOK,
    FilesThere, UploadRecord, Content, Blocks, Whole, Empty, StampsCounted
<1>4. SyncingIsOwned'
  BY SyncAssumption DEF UploadComplete, Free, Completed, session, file, SyncInv, TypeOK,
    SyncingIsOwned, InFlight, UploadRecord, ItemRecord
<1>5. UploadsCounted'
  <2>1. up[w].at # "free" /\ UNCHANGED <<spent, opening>>
    BY DEF UploadComplete
  <2>2. up' = [up EXCEPT ![w] = Free] /\ up \in [Worker -> UploadRecord]
    BY DEF UploadComplete, SyncInv, TypeOK
  <2>3. InFlight' = InFlight \ {w} /\ w \in InFlight
    BY <2>1, <2>2 DEF InFlight, Free
  <2>4. Cardinality(InFlight') = Cardinality(InFlight) - 1
    BY <2>3, UploadCount, FS_RemoveElement
  <2>5. Cardinality(InFlight) + Busy <= spent.opens /\ Busy' = Busy /\ spent' = spent
    BY <2>1 DEF SyncInv, UploadsCounted, Busy
  <2> QED
    BY <2>4, <2>5, UploadCount DEF UploadsCounted
<1>6. ExitWaited'
  BY SyncAssumption DEF UploadComplete, Free, Completed, session, file, SyncInv, TypeOK,
    ExitWaited, InFlight, UploadRecord
<1> QED
  BY <1>1, <1>2, <1>3, <1>4, <1>5, <1>6 DEF SyncInv

LEMMA KeepsSessionEnds ==
  ASSUME SyncInv, SessionEnds
  PROVE  SyncInv'
<1>1. TypeOK'
  BY DEF SessionEnds, file, SyncInv, TypeOK
<1>2. StampsCounted'
  BY SyncAssumption DEF SessionEnds, session, file, SyncInv, TypeOK, StampsCounted, Left, Blocks
<1>3. FilesThere'
  BY SyncAssumption DEF SessionEnds, session, file, SyncInv, TypeOK, FilesThere, UploadRecord,
    Content, Blocks, Whole, Empty, StampsCounted
<1>4. SyncingIsOwned'
  BY SyncAssumption DEF SessionEnds, session, file, SyncInv, TypeOK, SyncingIsOwned, InFlight,
    UploadRecord, ItemRecord
<1>5. UploadsCounted'
  <2>1. InFlight' = InFlight
    BY DEF SessionEnds, session, file, SyncInv, TypeOK, InFlight, UploadRecord
  <2>2. spent'.opens \in Nat /\ Busy' \in 0..1 /\ spent.opens + Busy' <= spent'.opens + Busy
    BY SyncAssumption DEF SessionEnds, session, file, SyncInv, TypeOK, Busy
  <2>3. item' # None /\ ~item'.syncing => item # None /\ ~item.syncing
    BY DEF SessionEnds, session, file, SyncInv, TypeOK, ItemRecord
  <2> QED
    BY <2>1, <2>2, <2>3, SameUploads
<1>6. ExitWaited'
  BY SyncAssumption DEF SessionEnds, session, file, SyncInv, TypeOK, ExitWaited, InFlight,
    UploadRecord
<1> QED
  BY <1>1, <1>2, <1>3, <1>4, <1>5, <1>6 DEF SyncInv

LEMMA KeepsUnregisterSession ==
  ASSUME SyncInv, UnregisterSession
  PROVE  SyncInv'
<1>1. TypeOK'
  BY SyncAssumption DEF UnregisterSession, Forget, session, file, SyncInv, TypeOK,
    StampsCounted, Left, FilesThere, ItemRecord, UploadRecord, Content, Blocks, MaxStamp, Whole,
    Empty
<1>2. StampsCounted'
  BY SyncAssumption DEF UnregisterSession, Forget, session, file, SyncInv, TypeOK,
    StampsCounted, Left, Blocks
<1>3. FilesThere'
  BY SyncAssumption DEF UnregisterSession, Forget, session, file, SyncInv, TypeOK, FilesThere,
    UploadRecord, Content, Blocks, Whole, Empty, StampsCounted
<1>4. SyncingIsOwned'
  BY SyncAssumption DEF UnregisterSession, Forget, session, file, SyncInv, TypeOK,
    SyncingIsOwned, InFlight, UploadRecord, ItemRecord
<1>5. UploadsCounted'
  <2>1. InFlight' = InFlight
    BY DEF UnregisterSession, Forget, session, file, SyncInv, TypeOK, InFlight, UploadRecord
  <2>2. spent'.opens \in Nat /\ Busy' \in 0..1 /\ spent.opens + Busy' <= spent'.opens + Busy
    BY SyncAssumption DEF UnregisterSession, Forget, session, file, SyncInv, TypeOK, Busy
  <2>3. item' # None /\ ~item'.syncing => item # None /\ ~item.syncing
    BY DEF UnregisterSession, Forget, session, file, SyncInv, TypeOK, ItemRecord
  <2> QED
    BY <2>1, <2>2, <2>3, SameUploads
<1>6. ExitWaited'
  BY SyncAssumption DEF UnregisterSession, Forget, session, file, SyncInv, TypeOK, ExitWaited,
    InFlight, UploadRecord
<1> QED
  BY <1>1, <1>2, <1>3, <1>4, <1>5, <1>6 DEF SyncInv

LEMMA KeepsCloseAll ==
  ASSUME SyncInv, CloseAll
  PROVE  SyncInv'
<1>1. TypeOK'
  BY SyncAssumption DEF CloseAll, Forget, session, file, SyncInv, TypeOK, StampsCounted, Left,
    FilesThere, ItemRecord, UploadRecord, Content, Blocks, MaxStamp, Whole, Empty
<1>2. StampsCounted'
  BY SyncAssumption DEF CloseAll, Forget, session, file, SyncInv, TypeOK, StampsCounted, Left,
    Blocks
<1>3. FilesThere'
  BY SyncAssumption DEF CloseAll, Forget, session, file, SyncInv, TypeOK, FilesThere,
    UploadRecord, Content, Blocks, Whole, Empty, StampsCounted
<1>4. SyncingIsOwned'
  BY SyncAssumption DEF CloseAll, Forget, session, file, SyncInv, TypeOK, SyncingIsOwned,
    InFlight, UploadRecord, ItemRecord
<1>5. UploadsCounted'
  <2>1. InFlight' = InFlight
    BY DEF CloseAll, Forget, session, file, SyncInv, TypeOK, InFlight, UploadRecord
  <2>2. spent'.opens \in Nat /\ Busy' \in 0..1 /\ spent.opens + Busy' <= spent'.opens + Busy
    BY SyncAssumption DEF CloseAll, Forget, session, file, SyncInv, TypeOK, Busy
  <2>3. item' # None /\ ~item'.syncing => item # None /\ ~item.syncing
    BY DEF CloseAll, Forget, session, file, SyncInv, TypeOK, ItemRecord
  <2> QED
    BY <2>1, <2>2, <2>3, SameUploads
<1>6. ExitWaited'
  BY SyncAssumption DEF CloseAll, Forget, session, file, SyncInv, TypeOK, ExitWaited, InFlight,
    UploadRecord
<1> QED
  BY <1>1, <1>2, <1>3, <1>4, <1>5, <1>6 DEF SyncInv

LEMMA KeepsCloseAllReturns ==
  ASSUME SyncInv, CloseAllReturns
  PROVE  SyncInv'
<1>1. TypeOK'
  BY SyncAssumption DEF CloseAllReturns, AllUploaded, session, file, SyncInv, TypeOK,
    StampsCounted, Left, FilesThere, ItemRecord, UploadRecord, Content, Blocks, MaxStamp, Whole,
    Empty
<1>2. StampsCounted'
  BY SyncAssumption DEF CloseAllReturns, AllUploaded, session, file, SyncInv, TypeOK,
    StampsCounted, Left, Blocks
<1>3. FilesThere'
  BY SyncAssumption DEF CloseAllReturns, AllUploaded, session, file, SyncInv, TypeOK,
    FilesThere, UploadRecord, Content, Blocks, Whole, Empty, StampsCounted
<1>4. SyncingIsOwned'
  BY SyncAssumption DEF CloseAllReturns, AllUploaded, session, file, SyncInv, TypeOK,
    SyncingIsOwned, InFlight, UploadRecord, ItemRecord
<1>5. UploadsCounted'
  <2>1. InFlight' = InFlight
    BY DEF CloseAllReturns, AllUploaded, session, file, SyncInv, TypeOK, InFlight, UploadRecord
  <2>2. spent'.opens \in Nat /\ Busy' \in 0..1 /\ spent.opens + Busy' <= spent'.opens + Busy
    BY SyncAssumption DEF CloseAllReturns, AllUploaded, session, file, SyncInv, TypeOK, Busy
  <2>3. item' # None /\ ~item'.syncing => item # None /\ ~item.syncing
    BY DEF CloseAllReturns, AllUploaded, session, file, SyncInv, TypeOK, ItemRecord
  <2> QED
    BY <2>1, <2>2, <2>3, SameUploads
<1>6. ExitWaited'
  BY SyncAssumption DEF CloseAllReturns, AllUploaded, session, file, SyncInv, TypeOK,
    ExitWaited, InFlight, UploadRecord
<1> QED
  BY <1>1, <1>2, <1>3, <1>4, <1>5, <1>6 DEF SyncInv

LEMMA StutterKeeps ==
  ASSUME SyncInv, UNCHANGED vars
  PROVE  SyncInv'
<1>1. TypeOK'
  BY DEF SyncInv, vars, session, file, TypeOK
<1>2. StampsCounted' /\ FilesThere' /\ SyncingIsOwned' /\ UploadsCounted' /\ ExitWaited'
  BY DEF SyncInv, vars, session, file, StampsCounted, Left, FilesThere, SyncingIsOwned,
    UploadsCounted, Busy, ExitWaited, InFlight
<1> QED
  BY <1>1, <1>2 DEF SyncInv

-----------------------------------------------------------------------------
(* The theorems.                                                            *)

LEMMA NextKeeps ==
  ASSUME SyncInv, Next
  PROVE  SyncInv'
<1>1. CASE Open
  BY <1>1, KeepsOpenStart, KeepsOpenCreate, KeepsOpenCopy, KeepsOpenFails, KeepsOpenStat,
    KeepsRegister DEF Open
<1>2. CASE Loop
  BY <1>2, KeepsLoopEvent, KeepsLoopStat, KeepsLoopApply, KeepsLoopRemove, KeepsLoopTick,
    KeepsPoll DEF Loop
<1>3. CASE \E w \in Worker : Upload(w)
  BY <1>3, KeepsUploadOpen, KeepsUploadCreate, KeepsUploadCopy, KeepsUploadEnds,
    KeepsUploadFails, KeepsUploadAgain, KeepsUploadComplete DEF Upload
<1>4. CASE \/ Save \/ Replace \/ DebounceOver \/ SessionEnds \/ UnregisterSession
           \/ CloseAll \/ CloseAllReturns
  BY <1>4, KeepsSave, KeepsReplace, KeepsDebounceOver, KeepsSessionEnds, KeepsUnregisterSession,
    KeepsCloseAll, KeepsCloseAllReturns
<1> QED
  BY <1>1, <1>2, <1>3, <1>4 DEF Next

LEMMA InvIsSound ==
  ASSUME SyncInv
  PROVE  UploadsSound
<1>1. Cardinality(InFlight) <= spent.opens
  BY UploadCount DEF SyncInv, UploadsCounted
<1> QED
  BY <1>1 DEF SyncInv, UploadsSound, UploadsBounded

LEMMA AlwaysInv == Spec => []SyncInv
<1>1. Init => SyncInv
  BY InitInv
<1>2. SyncInv /\ [Next]_vars => SyncInv'
  BY NextKeeps, StutterKeeps
<1> QED
  BY <1>1, <1>2, PTL DEF Spec

\* UploadsSound for any bounds: whatever opens, failures and repetitions
\* overlap, a marked item has an upload that will clear its mark, and no more
\* uploads run than the file was opened (sftp_open_sync.go:331,
\* sftp_open_sync.go:413).
THEOREM UploadsAlwaysSound == Spec => []UploadsSound
<1>1. SyncInv => UploadsSound
  BY InvIsSound
<1> QED
  BY <1>1, AlwaysInv, PTL

\* NoUploadAfterExit for any number of uploads: CloseAll's wait and its closed
\* flag together leave none running (sftp_open_sync.go:178).
THEOREM NeverUploadsAfterExit == Spec => []NoUploadAfterExit
<1>1. SyncInv => NoUploadAfterExit
  BY DEF SyncInv, ExitWaited, NoUploadAfterExit
<1> QED
  BY <1>1, AlwaysInv, PTL
=============================================================================

---------------------------- MODULE ProfileFiles ----------------------------
(***************************************************************************)
(* Stored profiles and their secrets: profiles.json (internal/config/       *)
(* store.go), the credential store of the system or the vault file          *)
(* (internal/secret), and the handlers that save, duplicate, delete, import *)
(* and reorder profiles (internal/gui/gui.go).                              *)
(*                                                                         *)
(* A handler is the list of store calls it has still to make. Each call may *)
(* fail, a file is truncated before it is written, and the launcher may end *)
(* at any moment. Nothing locks the files: with more than one element in    *)
(* Request, handlers interleave.                                            *)
(***************************************************************************)
EXTENDS Integers, Sequences, FiniteSets, Positions

CONSTANTS
  ProfileId,    \* ids
  Request,      \* requests that are handled at the same time
  SecretAction, \* pairs of actions: for the secret of the method, for the token
  Vaults,       \* whether secrets are in the vault file: both, or one of them
  MaxRequests,  \* bound: requests
  MaxFailures   \* bound: calls that fail, and ends of the launcher

ASSUME FilesAssumption ==
  /\ IsFiniteSet(ProfileId) /\ IsFiniteSet(Request)
  /\ SecretAction \subseteq {"keep", "replace", "clear"} \X {"keep", "replace", "clear"}
  /\ Vaults \subseteq BOOLEAN /\ MaxRequests \in Nat /\ MaxFailures \in Nat

VARIABLES
  vault,    \* secrets are in the vault file
  file,     \* the profiles in profiles.json; << >> also if missing or empty
  torn,     \* profiles.json holds half of a write
  secrets,  \* stored secrets: pairs of an id and a key
  broken,   \* the vault file is empty or holds half of a write
  request,  \* [Request -> the handler]
  left, failures,
  used,     \* ids that were given out
  settled,  \* profiles whose last save or duplication succeeded and could read
  failed,   \* new ids of duplications that failed, with their rollback done
  imported  \* profiles as an import left them

filesVars == <<vault, file, torn, secrets, broken, request, left, failures,
               used, settled, failed, imported>>

Auth == {"password", "key", "local"}
SecretKey == {"password", "passphrase", "token"}

\* The secret that a method uses.
OwnKey(auth) ==
  CASE auth = "password" -> {"password"}
    [] auth = "key"      -> {"passphrase"}
    [] OTHER             -> {}

Entry == {p \in [id : ProfileId, auth : Auth, has : SUBSET SecretKey] :
            p.has \subseteq OwnKey(p.auth) \cup {"token"}}

StoreCall == [do : {"set", "clear", "drop", "look", "paste", "sync"}, key : SecretKey]
        \cup [do : {"find", "load", "write"}, key : {"file"}]

NoRequest == [at |-> "idle", op |-> "none", profile |-> <<>>, source |-> {},
              todo |-> <<>>, deep |-> "no", list |-> <<>>, values |-> {},
              copied |-> <<>>, unread |-> FALSE, slipped |-> FALSE]

FilesTypeOK ==
  /\ file \in Seq(Entry) /\ torn \in BOOLEAN /\ broken \in BOOLEAN /\ vault \in Vaults
  /\ secrets \subseteq ProfileId \X SecretKey
  /\ \A r \in Request :
       /\ request[r].at \in {"idle", "calls", "rollback"}
       /\ request[r].op \in {"none", "save", "clone", "delete", "import", "reorder"}
       /\ request[r].todo \in Seq(StoreCall)
       /\ request[r].deep \in {"no", "loaded", "cut"}
       /\ request[r].list \in Seq(Entry)
       /\ request[r].values \subseteq ProfileId \X SecretKey
       /\ request[r].copied \in Seq(SecretKey)
  /\ left \in 0..MaxRequests /\ failures \in 0..MaxFailures
  /\ used \subseteq ProfileId /\ settled \subseteq used
  /\ failed \subseteq used /\ imported \subseteq used

\* No profile, or one whose secrets were saved with it.
FilesInit ==
  /\ \/ file = <<>>
     \/ \E i \in ProfileId, a \in Auth :
          file = <<[id |-> i, auth |-> a, has |-> OwnKey(a) \cup {"token"}]>>
  /\ vault \in Vaults /\ torn = FALSE /\ broken = FALSE
  /\ secrets = UNION {{file[n].id} \X file[n].has : n \in DOMAIN file}
  /\ request = [r \in Request |-> NoRequest]
  /\ left = MaxRequests /\ failures = 0
  /\ used = {file[n].id : n \in DOMAIN file}
  /\ settled = used /\ failed = {} /\ imported = {}

-----------------------------------------------------------------------------
(* Requests and the calls they make.                                        *)

Mentions(calls, key) == [n \in DOMAIN calls |-> [do |-> calls[n], key |-> key]]
FileCalls(calls) == Mentions(calls, "file")

Acts(action, key) ==
  CASE action = "replace" -> Mentions(<<"set">>, key)
    [] action = "clear"   -> Mentions(<<"clear">>, key)
    [] OTHER              -> <<>>

\* syncSecretFlags.
Syncs(auth) ==
  (CASE auth = "password" -> Mentions(<<"sync">>, "password")
     [] auth = "key"      -> Mentions(<<"sync">>, "passphrase")
     [] OTHER             -> <<>>) \o Mentions(<<"sync">>, "token")

\* saveProfileWithSecrets and FileStore.Save.
SaveCalls(auth, actions) ==
  (CASE auth = "local"    -> Mentions(<<"drop">>, "password") \o Mentions(<<"drop">>, "passphrase")
     [] auth = "password" -> Acts(actions[1], "password") \o Mentions(<<"drop">>, "passphrase")
     [] auth = "key"      -> Acts(actions[1], "passphrase") \o Mentions(<<"drop">>, "password"))
  \o Acts(actions[2], "token") \o Syncs(auth) \o FileCalls(<<"load", "write">>)

DropAll == Mentions(<<"drop">>, "password") \o Mentions(<<"drop">>, "passphrase")
           \o Mentions(<<"drop">>, "token")

Copies(auth) ==
  (CASE auth = "password" -> Mentions(<<"look", "paste">>, "password")
     [] auth = "key"      -> Mentions(<<"look", "paste">>, "passphrase")
     [] OTHER             -> <<>>) \o Mentions(<<"look", "paste">>, "token")

Begins(r, op, p, source, todo) ==
  /\ request[r].at = "idle" /\ left > 0
  /\ request' = [request EXCEPT ![r] = [NoRequest EXCEPT
       !.at = "calls", !.op = op, !.profile = p, !.source = source, !.todo = todo]]
  /\ left' = left - 1 /\ used' = used \cup {p.id}
  /\ settled' = IF op = "reorder" THEN settled ELSE settled \ {p.id}
  /\ failed' = failed \ {p.id}
  /\ imported' = IF op = "reorder" THEN imported ELSE imported \ {p.id}
  /\ UNCHANGED <<vault, file, torn, secrets, broken, failures>>

\* POST /api/profiles and PUT /api/profiles/{id}; the page sends the flags it
\* has last seen, the editor clears those of another method.
StartSave(r) == \E i \in ProfileId, a \in Auth, acts \in SecretAction, claims \in {{}, SecretKey} :
  Begins(r, "save", [id |-> i, auth |-> a, has |-> claims \cap (OwnKey(a) \cup {"token"})],
         {i}, SaveCalls(a, acts))

\* handleDuplicateProfile; the new id is random.
StartClone(r) == \E i, new \in ProfileId :
  /\ new \notin used
  /\ Begins(r, "clone", [id |-> new, auth |-> "local", has |-> {}], {i}, FileCalls(<<"find">>))

\* The DELETE handler: the stop of the session is in SessionLifecycle.
StartDelete(r) == \E i \in ProfileId :
  Begins(r, "delete", [id |-> i, auth |-> "local", has |-> {}], {i},
         FileCalls(<<"find", "find", "write">>) \o DropAll)

\* handleImportProfiles, one profile of the file (an error ends its loop):
\* normalizeImportedProfile clears the flags of password and passphrase.
StartImport(r) == \E i \in ProfileId, a \in Auth, has \in {{}, {"token"}} :
  Begins(r, "import", [id |-> i, auth |-> a, has |-> has], {i},
         DropAll \o FileCalls(<<"load", "write">>))

\* handleReorderProfiles: a profile is dragged to the front of the list.
StartReorder(r) == \E i \in used :
  Begins(r, "reorder", [id |-> i, auth |-> "local", has |-> {}], {i},
         FileCalls(<<"find", "write">>))

-----------------------------------------------------------------------------
(* Calls.                                                                   *)

Requested == <<vault, left, used, settled, failed, imported>>

TheCall(r) == Head(request[r].todo)
Doing(r, calls) == request[r].at # "idle" /\ request[r].todo # <<>> /\ TheCall(r).do \in calls
Own(r) == request[r].profile

Stays(r, q) == request' = [request EXCEPT ![r] = q]
Passed(q) == [q EXCEPT !.todo = Tail(@), !.deep = "no"]

Changes == {"set", "paste", "clear", "drop"}

\* What a change of a secret makes of the stored secrets.
Changed(r, stored) ==
  IF TheCall(r).do \in {"set", "paste"}
    THEN stored \cup {<<Own(r).id, TheCall(r).key>>}
    ELSE stored \ {<<Own(r).id, TheCall(r).key>>}

\* The flags and the list of copied secrets after it.
Noted(r) ==
  LET q == request[r] IN
  CASE TheCall(r).do = "paste" -> [q EXCEPT !.copied = Append(@, TheCall(r).key),
                                          !.profile.has = @ \cup {TheCall(r).key}]
    [] TheCall(r).do = "set"   -> [q EXCEPT !.profile.has = @ \cup {TheCall(r).key}]
    [] TheCall(r).do = "clear" -> [q EXCEPT !.profile.has = @ \ {TheCall(r).key}]
    [] OTHER                 -> q

\* KeyringStore: one call of the system.
ChangeSecret(r) ==
  /\ ~vault /\ Doing(r, Changes)
  /\ secrets' = Changed(r, secrets)
  /\ Stays(r, Passed(Noted(r)))
  /\ UNCHANGED <<file, torn, broken, failures, Requested>>

\* VaultStore.Set and Delete: the whole file is read, truncated and written.
VaultLoad(r) ==
  /\ vault /\ ~broken /\ Doing(r, Changes) /\ request[r].deep = "no"
  /\ Stays(r, [request[r] EXCEPT !.deep = "loaded", !.values = Changed(r, secrets)])
  /\ UNCHANGED <<file, torn, secrets, broken, failures, Requested>>

VaultTruncate(r) ==
  /\ vault /\ Doing(r, Changes) /\ request[r].deep = "loaded"
  /\ broken' = TRUE /\ secrets' = {}
  /\ Stays(r, [request[r] EXCEPT !.deep = "cut"])
  /\ UNCHANGED <<file, torn, failures, Requested>>

VaultWrite(r) ==
  /\ vault /\ Doing(r, Changes) /\ request[r].deep = "cut"
  /\ broken' = FALSE /\ secrets' = request[r].values
  /\ Stays(r, [Passed(Noted(r)) EXCEPT !.values = {}])
  /\ UNCHANGED <<file, torn, failures, Requested>>

\* alignSecretFlag: the flag is what the store says.
SyncFlag(r) ==
  /\ Doing(r, {"sync"}) /\ ~broken
  /\ LET k == TheCall(r).key IN
       Stays(r, [Passed(request[r]) EXCEPT
         !.profile.has = IF <<Own(r).id, k>> \in secrets THEN @ \cup {k} ELSE @ \ {k}])
  /\ UNCHANGED <<file, torn, secrets, broken, failures, Requested>>

\* copySecret: a secret the source has not is not copied.
LookUp(r) ==
  /\ Doing(r, {"look"}) /\ ~broken
  /\ \E i \in request[r].source :
       IF <<i, TheCall(r).key>> \in secrets
         THEN Stays(r, Passed(request[r]))
         ELSE Stays(r, Passed(Passed(request[r])))
  /\ UNCHANGED <<file, torn, secrets, broken, failures, Requested>>

Position(list, i) == {n \in DOMAIN list : list[n].id = i}

\* FileStore.Get, and the part of Delete and Reorder up to the write. The copy
\* of a profile takes its method.
FindProfile(r) ==
  /\ Doing(r, {"find"}) /\ ~torn
  /\ \E i \in request[r].source : \E n \in Position(file, i) :
       LET q == [Passed(request[r]) EXCEPT !.list = file] IN
       IF q.op = "clone"
         THEN Stays(r, [q EXCEPT !.profile.auth = file[n].auth,
                                 !.todo = Copies(file[n].auth) \o FileCalls(<<"load", "write">>)])
         ELSE Stays(r, q)
  /\ UNCHANGED <<file, torn, secrets, broken, failures, Requested>>

LoadProfiles(r) ==
  /\ Doing(r, {"load"}) /\ ~torn
  /\ Stays(r, [Passed(request[r]) EXCEPT !.list = file])
  /\ UNCHANGED <<file, torn, secrets, broken, failures, Requested>>

\* Mutant: a saved profile is appended even if it was there.
Appended(q) == Append(q.list, q.profile)

\* The profiles that Save writes.
Saved(q) ==
  IF Position(q.list, q.profile.id) # {}
    THEN [n \in DOMAIN q.list |-> IF q.list[n].id = q.profile.id THEN q.profile ELSE q.list[n]]
    ELSE Append(q.list, q.profile)

\* The profiles a request writes.
ToWrite(q) ==
  LET own    == Position(q.list, q.profile.id)
      others == DOMAIN q.list \ own
  IN CASE q.op = "delete"  -> Picked(q.list, others)
       [] q.op = "reorder" -> Picked(q.list, own) \o Picked(q.list, others)
       [] OTHER            -> Saved(q)

\* os.WriteFile truncates the file first.
TruncateProfiles(r) ==
  /\ Doing(r, {"write"}) /\ request[r].deep = "no"
  /\ file' = <<>> /\ torn' = FALSE
  /\ Stays(r, [request[r] EXCEPT !.deep = "cut"])
  /\ UNCHANGED <<secrets, broken, failures, Requested>>

WriteProfiles(r) ==
  /\ Doing(r, {"write"}) /\ request[r].deep = "cut"
  /\ file' = ToWrite(request[r]) /\ torn' = FALSE
  /\ Stays(r, [Passed(request[r]) EXCEPT !.list = <<>>])
  /\ UNCHANGED <<secrets, broken, failures, Requested>>

-----------------------------------------------------------------------------
(* Failures, and the ends of requests.                                      *)

\* Mutant: a duplication that failed leaves what it has copied.
LeavesCopies(q) == [q EXCEPT !.at = "rollback", !.deep = "no", !.values = {}, !.list = <<>>, !.todo = <<>>]

\* The handler answers with the error, a duplication after its rollback.
Aborts(q) ==
  [q EXCEPT !.at = "rollback", !.deep = "no", !.values = {}, !.list = <<>>,
            !.todo = [n \in DOMAIN q.copied |-> [do |-> "drop", key |-> q.copied[n]]]]

\* What an error of the next call leads to: a deletion whose result nobody
\* looks at and a flag that cannot be read are passed over.
AfterError(r) ==
  CASE TheCall(r).do = "drop" -> [Passed(request[r]) EXCEPT !.slipped = TRUE, !.values = {}]
    [] TheCall(r).do = "sync" -> [Passed(request[r]) EXCEPT !.unread = TRUE]
    [] OTHER                -> Aborts(request[r])

\* The stores themselves refuse: half a file, or no such profile.
CallRefused(r) ==
  /\ \/ Doing(r, {"find", "load"}) /\ torn
     \/ Doing(r, {"find"}) /\ \A i \in request[r].source : Position(file, i) = {}
     \/ vault /\ broken /\ Doing(r, Changes \cup {"sync", "look"}) /\ request[r].deep = "no"
  /\ Stays(r, AfterError(r))
  /\ UNCHANGED <<file, torn, secrets, broken, failures, Requested>>

\* A call fails; a write may have got anywhere.
CallFails(r) ==
  /\ failures < MaxFailures /\ failures' = failures + 1
  /\ Doing(r, {"set", "paste", "clear", "drop", "look", "sync", "find", "load", "write"})
  /\ Stays(r, AfterError(r))
  /\ torn' \in IF TheCall(r).do = "write" /\ request[r].deep = "cut" THEN BOOLEAN ELSE {torn}
  /\ UNCHANGED <<file, secrets, broken, Requested>>

Ending(r) ==
  /\ request[r].at # "idle" /\ request[r].todo = <<>>
  /\ Stays(r, NoRequest)

Answered(r) ==
  /\ Ending(r) /\ request[r].at = "calls"
  /\ settled' = IF request[r].op \in {"save", "clone"} /\ ~request[r].unread
                  THEN settled \cup {Own(r).id} ELSE settled
  /\ imported' = IF request[r].op = "import" THEN imported \cup {Own(r).id} ELSE imported
  /\ UNCHANGED <<vault, file, torn, secrets, broken, left, failures, used, failed>>

AnsweredError(r) ==
  /\ Ending(r) /\ request[r].at = "rollback"
  /\ failed' = IF request[r].op = "clone" /\ ~request[r].slipped
                 THEN failed \cup {Own(r).id} ELSE failed
  /\ UNCHANGED <<vault, file, torn, secrets, broken, left, failures, used, settled, imported>>

\* The launcher ends and is started again.
Crash ==
  /\ failures < MaxFailures /\ failures' = failures + 1
  /\ \E r \in Request : request[r].at # "idle"
  /\ request' = [r \in Request |-> NoRequest]
  /\ torn' \in IF \E r \in Request : Doing(r, {"write"}) /\ request[r].deep = "cut"
                 THEN BOOLEAN ELSE {torn}
  /\ UNCHANGED <<file, secrets, broken, Requested>>

FilesNext ==
  \/ \E r \in Request :
       \/ StartSave(r) \/ StartClone(r) \/ StartDelete(r) \/ StartImport(r) \/ StartReorder(r)
       \/ ChangeSecret(r) \/ VaultLoad(r) \/ VaultTruncate(r) \/ VaultWrite(r)
       \/ SyncFlag(r) \/ LookUp(r) \/ FindProfile(r) \/ LoadProfiles(r)
       \/ TruncateProfiles(r) \/ WriteProfiles(r)
       \/ CallRefused(r) \/ CallFails(r) \/ Answered(r) \/ AnsweredError(r)
  \/ Crash

FilesSpec == FilesInit /\ [][FilesNext]_filesVars

-----------------------------------------------------------------------------
(* Properties.                                                              *)

\* What the editor shows about a profile is true (gui.go, syncSecretFlags): a
\* save or a duplication that succeeded, and whose reads of the credential
\* store did not fail, leaves a flag exactly where the credential store has a
\* secret of the profile's method or its token, whatever calls failed before
\* it and whatever requests for other profiles do later. A broken vault shows
\* nothing.
FlagsAgree == ~broken /\ ~torn =>
  \A n \in DOMAIN file : LET p == file[n] IN
    p.id \in settled => \A k \in OwnKey(p.auth) \cup {"token"} :
                          k \in p.has <=> <<p.id, k>> \in secrets

\* A duplication that fails leaves no secret under its new id, whatever call
\* failed, unless the rollback's own deletions failed too.
FailedCopiesLeaveNothing ==
  \A i \in failed, k \in SecretKey : <<i, k>> \notin secrets

\* Flags and secrets agree after every save that could look, and a duplication
\* that failed leaves nothing.
SecretsSound == FilesTypeOK /\ FlagsAgree /\ FailedCopiesLeaveNothing

\* Requests that do not overlap change the file as ProfileBook says: a write
\* takes place when the file is truncated, and is lost if it is not finished.
Writers == {r \in Request : Doing(r, {"write"}) /\ request[r].deep = "cut"}
Book == INSTANCE ProfileBook WITH
  book     <- IF Writers = {} THEN file ELSE ToWrite(request[CHOOSE r \in Writers : TRUE]),
  writing  <- Writers # {},
  readable <- ~torn

ProfilesAtomic == Book!BookSpec

\* Every profile that was saved is there, as long as no call fails. Requests that
\* overlap read the same profiles, and the second write undoes the first.
SavesKept == failures = 0 /\ Writers = {} => \A i \in settled : Position(file, i) # {}

\* chemssh_bridge_test.go:232: an imported profile has no flag of a secret, as
\* its secrets are deleted.
ImportedFlagsClear == \A n \in DOMAIN file : file[n].id \in imported => file[n].has = {}
=============================================================================
